--------------------- MODULE EmailDeliveryRefinement ---------------------
(* EmailDelivery implements SendLedger, for any rows, slots and bounds. *)
EXTENDS EmailDeliveryProofs

\* Somebody is the sender of e.
Sending(e) == \E w \in Workers : pc[w] \in Claimed /\ job[w] = e

\* The phase of a message is decided by its sender and by its row.
LEMMA PhaseIs ==
    ASSUME NEW e
    PROVE  /\ Sending(e) => Phase(e) = "claimed"
           /\ ~Sending(e) /\ row[e] \in Claimable => Phase(e) = "ready"
           /\ ~Sending(e) /\ row[e] \notin Claimable => Phase(e) = "closed"
BY DEF Phase, Sending

\* The same of the next state.
LEMMA PhaseIsNext ==
    ASSUME NEW e
    PROVE  /\ Sending(e)' => Phase(e)' = "claimed"
           /\ ~Sending(e)' /\ row'[e] \in Claimable => Phase(e)' = "ready"
           /\ ~Sending(e)' /\ row'[e] \notin Claimable => Phase(e)' = "closed"
BY DEF Phase, Sending

\* A step that changes nobody's sender, nobody's claimability and no copy is no
\* step of the ledger.
LEMMA LedgerStutter ==
    ASSUME \A e \in Jobs : /\ Sending(e)' <=> Sending(e)
                           /\ Sending(e) \/ (row'[e] \in Claimable <=> row[e] \in Claimable),
           UNCHANGED <<accepted, bounced>>
    PROVE  UNCHANGED Ledger!ledger
<1>1. \A e \in Jobs : Phase(e)' = Phase(e)
  BY PhaseIs, PhaseIsNext
<1>. QED
  BY <1>1 DEF Ledger!ledger

\* The sender of a row leaves the claimed region: the message is nobody's.
LEMMA SenderLeaves ==
    ASSUME SoleSender, NEW w \in Workers, pc[w] \in Claimed, pc'[w] \notin Claimed,
           \A v \in Workers \ {w} : pc'[v] = pc[v] /\ job'[v] = job[v],
           NEW m \in Jobs, m = job[w]
    PROVE  /\ Sending(m) /\ ~Sending(m)'
           /\ \A e \in Jobs \ {m} : Sending(e)' <=> Sending(e)
<1>1. Sending(m)
  BY DEF Sending
<1>2. \A v \in Workers : pc'[v] \in Claimed => v # w /\ pc[v] \in Claimed /\ job'[v] = job[v]
  OBVIOUS
<1>3. ~Sending(m)'
  BY <1>2 DEF Sending, SoleSender
<1>4. ASSUME NEW e \in Jobs \ {m}
      PROVE  Sending(e)' <=> Sending(e)
  <2>1. Sending(e)' => Sending(e)
    BY <1>2 DEF Sending
  <2>2. ASSUME Sending(e)
        PROVE  Sending(e)'
    <3>1. PICK v \in Workers : pc[v] \in Claimed /\ job[v] = e
      BY <2>2 DEF Sending
    <3>2. v # w
      BY <3>1
    <3>. QED
      BY <3>1, <3>2 DEF Sending
  <2>. QED
    BY <2>1, <2>2
<1>. QED
  BY <1>1, <1>3, <1>4

\* A slot works on and no row is written: nothing changes for the ledger when the
\* slot is in the claimed region before and after, or neither before nor after.
LEMMA SlotStutter ==
    ASSUME NEW w \in Workers,
           \A v \in Workers \ {w} : pc'[v] = pc[v] /\ job'[v] = job[v],
           \/ pc[w] \notin Claimed /\ pc'[w] \notin Claimed
           \/ pc[w] \in Claimed /\ pc'[w] \in Claimed /\ job'[w] = job[w]
    PROVE  \A e \in Jobs : Sending(e)' <=> Sending(e)
<1>1. \A v \in Workers : \/ pc'[v] \in Claimed /\ pc[v] \in Claimed /\ job'[v] = job[v]
                         \/ pc'[v] \notin Claimed /\ pc[v] \notin Claimed
                         \/ v # w /\ pc'[v] = pc[v] /\ job'[v] = job[v]
  OBVIOUS
<1>. QED
  BY <1>1 DEF Sending

\* The sender gives up its claim: a step of the ledger, closing the message or,
\* with no copy out, giving it back.
LEMMA SenderStep ==
    ASSUME TypeOK, AtWork, Core, NEW w \in Workers, pc[w] \in Claimed, pc'[w] \notin Claimed,
           \A v \in Workers \ {w} : pc'[v] = pc[v] /\ job'[v] = job[v],
           UNCHANGED <<accepted, bounced>>,
           \A e \in Jobs \ {job[w]} : row'[e] = row[e],
           row'[job[w]] \in Claimable => accepted[job[w]] = bounced[job[w]]
    PROVE  Ledger!Next
<1>0. "idle" \notin Claimed
  BY DEF Claimed
<1>1. PICK m \in Jobs : m = job[w]
  BY <1>0 DEF AtWork
<1>2. /\ Sending(m) /\ ~Sending(m)'
      /\ \A e \in Jobs \ {m} : Sending(e)' <=> Sending(e)
  BY <1>1, SenderLeaves DEF Core
<1>3. Phase(m) = "claimed" /\ \A e \in Jobs \ {m} : Phase(e)' = Phase(e)
  BY <1>1, <1>2, PhaseIs, PhaseIsNext
<1>4. CASE row'[m] \in Claimable
  <2>1. Phase(m)' = "ready"
    BY <1>2, <1>4, PhaseIsNext
  <2>2. accepted[m] - bounced[m] = 0
    BY <1>1, <1>4 DEF TypeOK
  <2>3. Ledger!GiveBack(m)
    BY <1>3, <2>1, <2>2 DEF Ledger!GiveBack
  <2>. QED
    BY <2>3 DEF Ledger!Next
<1>5. CASE row'[m] \notin Claimable
  <2>1. Phase(m)' = "closed"
    BY <1>2, <1>5, PhaseIsNext
  <2>2. Ledger!Close(m)
    BY <1>3, <2>1 DEF Ledger!Close
  <2>. QED
    BY <2>2 DEF Ledger!Next
<1>. QED
  BY <1>4, <1>5

\* A step that leaves rows, slots' places and copies alone is none of the ledger.
LEMMA QuietStutter ==
    ASSUME UNCHANGED <<row, pc, job, accepted, bounced>>
    PROVE  UNCHANGED Ledger!ledger
<1>1. \A e \in Jobs : Sending(e)' <=> Sending(e)
  BY DEF Sending
<1>. QED
  BY <1>1, LedgerStutter

---------------------------------------------------------------------------
(* The steps that are not stuttering. *)

\* A claim is the ledger's Claim, or nothing when the row is not claimable.
LEMMA ClaimStep ==
    ASSUME TypeOK, AtWork, Core, NEW w \in Workers, Claim(w)
    PROVE  [Ledger!Next]_(Ledger!ledger)
<1>1. PICK m \in Jobs : m = job[w]
  BY DEF Claim, AtWork
<1>2. CASE row[m] \notin Claimable
  <2>1. \A e \in Jobs : Sending(e)' <=> Sending(e)
    BY <1>1, <1>2, SlotStutter DEF Claim, Leave, Goto, Claimed, TypeOK
  <2>2. UNCHANGED <<row, accepted, bounced>>
    BY <1>1, <1>2 DEF Claim, history
  <2>. QED
    BY <2>1, <2>2, LedgerStutter
<1>3. CASE row[m] \in Claimable
  <2>1. /\ row' = [row EXCEPT ![m] = "PROCESSING"]
        /\ pc' = [pc EXCEPT ![w] = "prepare"]
        /\ UNCHANGED <<job, accepted, bounced>>
    BY <1>1, <1>3 DEF Claim, Goto, history
  <2>2. ~Sending(m)
    BY <1>3 DEF Sending, Core, OwnedRow, Claimable
  <2>3. Sending(m)'
    BY <1>1, <2>1 DEF Sending, Claimed, TypeOK
  <2>4. \A e \in Jobs \ {m} : (Sending(e)' <=> Sending(e)) /\ row'[e] = row[e]
    BY <1>1, <2>1 DEF Sending, TypeOK
  <2>5. Phase(m) = "ready" /\ Phase(m)' = "claimed"
    BY <1>3, <2>2, <2>3, PhaseIs, PhaseIsNext
  <2>6. \A e \in Jobs \ {m} : Phase(e)' = Phase(e)
    BY <2>4, PhaseIs, PhaseIsNext
  <2>7. Ledger!Claim(m)
    BY <2>1, <2>5, <2>6 DEF Ledger!Claim
  <2>. QED
    BY <2>7 DEF Ledger!Next
<1>. QED
  BY <1>2, <1>3

\* The server's taking of the message is the ledger's Accept.
LEMMA AcceptStep ==
    ASSUME TypeOK, AtWork, Core, NEW w \in Workers, ServerAccepts(w)
    PROVE  Ledger!Next
<1>1. PICK m \in Jobs : m = job[w]
  BY DEF ServerAccepts, AtWork
<1>2. /\ pc' = [pc EXCEPT ![w] = "accepted"]
      /\ accepted' = [accepted EXCEPT ![m] = @ + 1]
      /\ UNCHANGED <<row, job, bounced>>
  BY <1>1 DEF ServerAccepts, Goto, rows
<1>3. \A e \in Jobs : Sending(e)' <=> Sending(e)
  BY <1>2, SlotStutter DEF ServerAccepts, Claimed, TypeOK
<1>4. \A e \in Jobs : Phase(e)' = Phase(e)
  BY <1>2, <1>3, PhaseIs, PhaseIsNext
<1>5. Phase(m) = "claimed"
  BY <1>1, PhaseIs DEF Sending, ServerAccepts, Claimed
<1>6. accepted[m] = bounced[m]
  BY <1>1 DEF Core, SenderKnows, ServerAccepts
<1>7. /\ accepted[m] - bounced[m] = 0
      /\ accepted'[m] - bounced'[m] = 1
      /\ \A e \in Jobs \ {m} : accepted'[e] - bounced'[e] = accepted[e] - bounced[e]
  BY <1>2, <1>6 DEF TypeOK
<1>8. Ledger!Accept(m)
  BY <1>4, <1>5, <1>7 DEF Ledger!Accept
<1>. QED
  BY <1>8 DEF Ledger!Next

\* A bounce is the ledger's Reopen.
LEMMA BounceStep ==
    ASSUME TypeOK, AtWork, Core, NEW m \in Jobs, Bounce(m)
    PROVE  Ledger!Next
<1>1. /\ row[m] = "SENT"
      /\ row' = [row EXCEPT ![m] = "FAILED"]
      /\ bounced' = [bounced EXCEPT ![m] = @ + 1]
      /\ UNCHANGED <<pc, job, accepted>>
  BY DEF Bounce, slots
<1>2. \A e \in Jobs : Sending(e)' <=> Sending(e)
  BY <1>1 DEF Sending
<1>3. ~Sending(m)
  BY <1>1 DEF Sending, Core, OwnedRow
<1>4. Phase(m) = "closed" /\ Phase(m)' = "ready"
  BY <1>1, <1>2, <1>3, PhaseIs, PhaseIsNext DEF Claimable, TypeOK
<1>5. \A e \in Jobs \ {m} : Phase(e)' = Phase(e)
  BY <1>1, <1>2, PhaseIs, PhaseIsNext DEF TypeOK
<1>6. accepted[m] = bounced[m] + 1
  BY <1>1 DEF Core, TruthfulRow
<1>7. /\ accepted[m] - bounced[m] = 1
      /\ accepted'[m] - bounced'[m] = 0
      /\ \A e \in Jobs \ {m} : accepted'[e] - bounced'[e] = accepted[e] - bounced[e]
  BY <1>1, <1>6 DEF TypeOK
<1>8. Ledger!Reopen(m)
  BY <1>4, <1>5, <1>7 DEF Ledger!Reopen
<1>. QED
  BY <1>8 DEF Ledger!Next

\* Rows nobody sends are closed, the others keep their phase.
LEMMA WithdrawStep ==
    ASSUME UNCHANGED <<accepted, bounced>>, \A e \in Jobs : Sending(e)' <=> Sending(e),
           NEW these \in SUBSET Jobs,
           \A e \in these : ~Sending(e) /\ row[e] \in Claimable /\ row'[e] \notin Claimable,
           \A e \in Jobs \ these : Sending(e) \/ (row'[e] \in Claimable <=> row[e] \in Claimable)
    PROVE  Ledger!Next
<1>1. \A e \in these : Phase(e) = "ready" /\ Phase(e)' = "closed"
  BY PhaseIs, PhaseIsNext
<1>2. \A e \in Jobs \ these : Phase(e)' = Phase(e)
  BY PhaseIs, PhaseIsNext
<1>3. Ledger!Withdraw(these)
  BY <1>1, <1>2 DEF Ledger!Withdraw
<1>. QED
  BY <1>3 DEF Ledger!Next

\* The write of SUPPRESSED withdraws the row, or nothing when it has a sender.
LEMMA SuppressStep ==
    ASSUME TypeOK, AtWork, NEW w \in Workers, WriteSuppressed(w)
    PROVE  [Ledger!Next]_(Ledger!ledger)
<1>1. PICK m \in Jobs : m = job[w]
  BY DEF WriteSuppressed, AtWork
<1>2. /\ row' = [row EXCEPT ![m] = "SUPPRESSED"]
      /\ UNCHANGED <<job, accepted, bounced>>
  BY <1>1 DEF WriteSuppressed, history
<1>3. \A e \in Jobs : Sending(e)' <=> Sending(e)
  BY SlotStutter DEF WriteSuppressed, Leave, Goto, Claimed, TypeOK
<1>4. row'[m] \notin Claimable /\ \A e \in Jobs \ {m} : row'[e] = row[e]
  BY <1>2 DEF Claimable, TypeOK
<1>5. CASE ~Sending(m) /\ row[m] \in Claimable
  <2>1. {m} \in SUBSET Jobs
    OBVIOUS
  <2>. QED
    BY <1>2, <1>3, <1>4, <1>5, <2>1, WithdrawStep
<1>6. CASE Sending(m) \/ row[m] \notin Claimable
  BY <1>2, <1>3, <1>4, <1>6, LedgerStutter
<1>. QED
  BY <1>5, <1>6

\* The Outbox's conditional write withdraws the rows it hits.
LEMMA CancelStep ==
    ASSUME TypeOK, AtWork, Core, CancelUpdate
    PROVE  Ledger!Next
<1> DEFINE hit == {e \in GroupOf(cancelRow) : row[e] \in Cancellable}
<1>1. hit \in SUBSET Jobs
  BY ConstantsAssumption DEF GroupOf, CancelUpdate, AtWork
<1>2. /\ row' = [e \in Jobs |-> IF e \in hit THEN "CANCELLED" ELSE row[e]]
      /\ UNCHANGED <<pc, job, accepted, bounced>>
  BY DEF CancelUpdate, slots
<1>3. \A e \in Jobs : Sending(e)' <=> Sending(e)
  BY <1>2 DEF Sending
<1>4. \A e \in hit : ~Sending(e) /\ row[e] \in Claimable /\ row'[e] \notin Claimable
  BY <1>1, <1>2 DEF Cancellable, Claimable, Sending, Core, OwnedRow
<1>5. \A e \in Jobs \ hit : row'[e] = row[e]
  BY <1>2
<1>. HIDE DEF hit
<1>. QED
  BY <1>1, <1>2, <1>3, <1>4, <1>5, WithdrawStep

---------------------------------------------------------------------------
(* The theorem. *)

\* Queued rows are ready, and the server has no copy.
LEMMA LedgerInit == Init => Ledger!Init
<1> SUFFICES ASSUME Init
             PROVE  Ledger!Init
  OBVIOUS
<1>1. \A e \in Jobs : ~Sending(e) /\ row[e] \in Claimable
  BY DEF Init, Sending, Claimed, Claimable
<1>2. \A e \in Jobs : Phase(e) = "ready"
  BY <1>1, PhaseIs
<1>. QED
  BY <1>2 DEF Init, Ledger!Init

\* A step of a slot outside the claimed region, or within it, that writes no row.
LEMMA SlotStep ==
    ASSUME NEW w \in Workers, UNCHANGED <<row, accepted, bounced>>,
           \A v \in Workers \ {w} : pc'[v] = pc[v] /\ job'[v] = job[v],
           \/ pc[w] \notin Claimed /\ pc'[w] \notin Claimed
           \/ pc[w] \in Claimed /\ pc'[w] \in Claimed /\ job'[w] = job[w]
    PROVE  UNCHANGED Ledger!ledger
<1>1. \A e \in Jobs : Sending(e)' <=> Sending(e)
  BY SlotStutter
<1>. QED
  BY <1>1, LedgerStutter

\* Every step of the pipeline is a step of the ledger or a stutter, by cases over Next.
LEMMA LedgerStep ==
    ASSUME TypeOK, AtWork, Core, [Next]_vars
    PROVE  [Ledger!Next]_(Ledger!ledger)
<1> USE DEF rows, queue, slots, pass, outbox, callers, history
<1>1. ASSUME NEW w \in Workers, ReadRow(w)
       PROVE  [Ledger!Next]_(Ledger!ledger)
  BY <1>1, SlotStep DEF ReadRow, Goto, Claimed, TypeOK
<1>2. ASSUME NEW w \in Workers, Hold(w)
       PROVE  [Ledger!Next]_(Ledger!ledger)
  BY <1>2, SlotStep DEF Hold, Leave, Goto, Claimed, TypeOK
<1>3. ASSUME NEW w \in Workers, FindSuppressed(w)
       PROVE  [Ledger!Next]_(Ledger!ledger)
  BY <1>3, SlotStep DEF FindSuppressed, Goto, Claimed, TypeOK
<1>4. ASSUME NEW w \in Workers, Bookkeep(w)
       PROVE  [Ledger!Next]_(Ledger!ledger)
  BY <1>4, SlotStep DEF Bookkeep, Leave, Goto, Claimed, TypeOK
<1>5. ASSUME NEW w \in Workers, Settle(w)
       PROVE  [Ledger!Next]_(Ledger!ledger)
  BY <1>5, SlotStep DEF Settle, Goto, Claimed, TypeOK
<1>6. ASSUME NEW w \in Workers, Finish(w)
       PROVE  [Ledger!Next]_(Ledger!ledger)
  BY <1>6, SlotStep DEF Finish, Release, Goto, Claimed, TypeOK
<1>7. ASSUME NEW w \in Workers, ReadFails(w)
       PROVE  [Ledger!Next]_(Ledger!ledger)
  BY <1>7, SlotStep DEF ReadFails, Goto, Claimed, TypeOK
<1>8. ASSUME NEW w \in Workers, AdmitFails(w)
       PROVE  [Ledger!Next]_(Ledger!ledger)
  BY <1>8, SlotStep DEF AdmitFails, Leave, Goto, Claimed, TypeOK
<1>9. ASSUME NEW w \in Workers, StartSmtp(w)
       PROVE  [Ledger!Next]_(Ledger!ledger)
  BY <1>9, SlotStep DEF StartSmtp, Goto, Claimed, TypeOK
<1>10. ASSUME NEW w \in Workers, FailSafely(w)
       PROVE  [Ledger!Next]_(Ledger!ledger)
  BY <1>10, SlotStep DEF FailSafely, Goto, Claimed, TypeOK
<1>11. ASSUME NEW w \in Workers, SmtpReturns(w)
       PROVE  [Ledger!Next]_(Ledger!ledger)
  BY <1>11, SlotStep DEF SmtpReturns, Goto, Claimed, TypeOK
<1>12. ASSUME NEW w \in Workers, BecomeAmbiguous(w)
       PROVE  [Ledger!Next]_(Ledger!ledger)
  BY <1>12, SlotStep DEF BecomeAmbiguous, Goto, Claimed, TypeOK
<1>13. ASSUME NEW w \in Workers, NEW e \in Jobs, Take(w, e)
       PROVE  [Ledger!Next]_(Ledger!ledger)
  BY <1>13, SlotStep DEF Take, Claimed, TypeOK
<1>14. ASSUME NEW w \in Workers, Claim(w)
       PROVE  [Ledger!Next]_(Ledger!ledger)
  BY <1>14, ClaimStep
<1>15. ASSUME NEW w \in Workers, ServerAccepts(w)
       PROVE  [Ledger!Next]_(Ledger!ledger)
  BY <1>15, AcceptStep
<1>16. ASSUME NEW w \in Workers, WriteSuppressed(w)
       PROVE  [Ledger!Next]_(Ledger!ledger)
  BY <1>16, SuppressStep
<1>17. ASSUME NEW w \in Workers, Replay(w)
       PROVE  [Ledger!Next]_(Ledger!ledger)
  <2>1. \A e \in Jobs : Sending(e)' <=> Sending(e)
    BY <1>17, SlotStutter DEF Replay, Leave, Goto, Claimed, TypeOK
  <2>2. \A e \in Jobs : row'[e] \in Claimable <=> row[e] \in Claimable
    BY <1>17 DEF Replay, Claimable, TypeOK
  <2>. QED
    BY <1>17, <2>1, <2>2, LedgerStutter DEF Replay
<1>18. ASSUME NEW w \in Workers, RecordOutcome(w)
       PROVE  [Ledger!Next]_(Ledger!ledger)
  <2>1. outcome[w] \in Claimable => accepted[job[w]] = bounced[job[w]]
    BY <1>18 DEF RecordOutcome, Core, SenderKnows, Claimable, TypeOK, AtWork
  <2>2. row' = [row EXCEPT ![job[w]] = outcome[w]] /\ job[w] \in Jobs
    BY <1>18 DEF RecordOutcome, AtWork
  <2>. QED
    BY <1>18, <2>1, <2>2, SenderStep DEF RecordOutcome, Goto, Claimed, TypeOK
<1>19. ASSUME NEW w \in Workers, MarkUncertain(w)
       PROVE  [Ledger!Next]_(Ledger!ledger)
  <2>1. job[w] \in Jobs /\ row[job[w]] \notin Claimable
    BY <1>19 DEF MarkUncertain, Core, OwnedRow, Claimed, Claimable, AtWork
  <2>2. row'[job[w]] \notin Claimable /\ \A e \in Jobs \ {job[w]} : row'[e] = row[e]
    BY <1>19, <2>1 DEF MarkUncertain, Claimable, TypeOK
  <2>. QED
    BY <1>19, <2>2, SenderStep DEF MarkUncertain, Leave, Goto, Claimed, TypeOK
<1>20. ASSUME NEW w \in Workers, RecordFailure(w)
       PROVE  [Ledger!Next]_(Ledger!ledger)
  <2>1. accepted[job[w]] = bounced[job[w]]
    BY <1>20 DEF RecordFailure, Core, SenderKnows
  <2>2. \A e \in Jobs \ {job[w]} : row'[e] = row[e]
    BY <1>20 DEF RecordFailure, TypeOK
  <2>. QED
    BY <1>20, <2>1, <2>2, SenderStep DEF RecordFailure, Leave, Goto, Claimed, TypeOK
<1>21. ASSUME NEW w \in Workers, Crash(w)
       PROVE  [Ledger!Next]_(Ledger!ledger)
  <2>1. CASE pc[w] \in Claimed
    <3>1. row'[job[w]] \notin Claimable
      BY <1>21, <2>1 DEF Crash, Core, OwnedRow, Claimable
    <3>. QED
      BY <1>21, <2>1, <3>1, SenderStep DEF Crash, Release, Goto, Claimed, TypeOK
  <2>2. CASE pc[w] \notin Claimed
    BY <1>21, <2>2, SlotStep DEF Crash, Release, Goto, Claimed, TypeOK
  <2>. QED
    BY <2>1, <2>2
<1>22. ASSUME NEW old \in SUBSET Jobs, RecoverMark(old)
       PROVE  [Ledger!Next]_(Ledger!ledger)
  <2>1. \A e \in Jobs : Sending(e)' <=> Sending(e)
    BY <1>22 DEF RecoverMark, Sending
  <2>2. \A e \in Jobs : row'[e] \in Claimable <=> row[e] \in Claimable
    BY <1>22 DEF RecoverMark, Claimable
  <2>. QED
    BY <1>22, <2>1, <2>2, LedgerStutter DEF RecoverMark
<1>23. CASE CancelUpdate
  BY <1>23, CancelStep
<1>24. ASSUME NEW e \in Jobs, Bounce(e)
       PROVE  [Ledger!Next]_(Ledger!ledger)
  BY <1>24, BounceStep
<1>25. ASSUME NEW e \in Jobs, Enqueue(e)
       PROVE  [Ledger!Next]_(Ledger!ledger)
  BY <1>25, QuietStutter DEF Enqueue
<1>26. ASSUME NEW e \in Jobs, Promote(e)
       PROVE  [Ledger!Next]_(Ledger!ledger)
  BY <1>26, QuietStutter DEF Promote
<1>27. ASSUME NEW e \in Jobs, LockExpires(e)
       PROVE  [Ledger!Next]_(Ledger!ledger)
  BY <1>27, QuietStutter DEF LockExpires
<1>28. ASSUME NEW e \in Jobs, Retry(e)
       PROVE  [Ledger!Next]_(Ledger!ledger)
  BY <1>28, QuietStutter DEF Retry
<1>29. ASSUME NEW e \in Jobs, CancelCheck(e)
       PROVE  [Ledger!Next]_(Ledger!ledger)
  BY <1>29, QuietStutter DEF CancelCheck
<1>30. ASSUME NEW e \in Jobs, BounceSettle(e)
       PROVE  [Ledger!Next]_(Ledger!ledger)
  BY <1>30, QuietStutter DEF BounceSettle
<1>31. CASE RedisLoss
  BY <1>31, QuietStutter DEF RedisLoss
<1>32. CASE RecoverRead
  BY <1>32, QuietStutter DEF RecoverRead
<1>33. CASE RecoverGroups
  BY <1>33, QuietStutter DEF RecoverGroups
<1>34. CASE RecoverAdd
  BY <1>34, QuietStutter DEF RecoverAdd
<1>35. CASE RecoverFails
  BY <1>35, QuietStutter DEF RecoverFails
<1>36. CASE CancelSettle
  BY <1>36, QuietStutter DEF CancelSettle
<1>37. CASE CancelRemove
  BY <1>37, QuietStutter DEF CancelRemove
<1>38. CASE UNCHANGED vars
  BY <1>38, QuietStutter DEF vars
<1>. QED
  BY <1>1, <1>2, <1>3, <1>4, <1>5, <1>6, <1>7, <1>8, <1>9, <1>10, <1>11, <1>12,
     <1>13, <1>14, <1>15, <1>16, <1>17, <1>18, <1>19, <1>20, <1>21, <1>22, <1>23,
     <1>24, <1>25, <1>26, <1>27, <1>28, <1>29, <1>30, <1>31, <1>32, <1>33, <1>34,
     <1>35, <1>36, <1>37, <1>38
  DEF Next, Step, Recover

\* Whatever the queue, the slots, the recovery pass, the Outbox, the operator and
\* the bounces do, each step is one of the ledger's five or no step of it.
THEOREM Implements == Spec => KeepsLedger
<1>1. TypeInv /\ Core /\ [Next]_vars => [Ledger!Next]_(Ledger!ledger)
  BY LedgerStep DEF TypeInv
<1>2. Init => TypeInv /\ Core
  BY TypeInit, CoreInit
<1>3. TypeInv /\ Core /\ [Next]_vars => (TypeInv /\ Core)'
  BY TypeStep, CoreStep
<1>. QED
  BY <1>1, <1>2, <1>3, LedgerInit, PTL DEF Spec, KeepsLedger, Ledger!Spec
=============================================================================
