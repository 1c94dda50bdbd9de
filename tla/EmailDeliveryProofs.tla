------------------------ MODULE EmailDeliveryProofs ------------------------
(* Theorems about EmailDelivery, for any rows, slots, group and bounds. *)
EXTENDS EmailDelivery, TLAPS

\* aggregateDeliveryStatus answers with a status whenever it is asked about one.
LEMMA AggregateType ==
    ASSUME NEW S \in SUBSET EmailJobStatus, S # {}
    PROVE  Aggregate(S) \in EmailJobStatus
<1> DEFINE First(i) == Precedence[i] \in S /\ \A j \in 1..(i - 1) : Precedence[j] \notin S
<1>1. \E i \in 1..8 : First(i)
  <2>1. PICK s \in S : TRUE
    OBVIOUS
  <2>2. s \in EmailJobStatus
    BY <2>1
  <2>3. \E k \in 1..8 : Precedence[k] = s
    BY <2>2 DEF EmailJobStatus, Precedence
  <2>. QED
    BY <2>1, <2>3 DEF Precedence
<1>2. Aggregate(S) = Precedence[CHOOSE i \in 1..8 : First(i)]
  BY DEF Aggregate
<1>3. (CHOOSE i \in 1..8 : First(i)) \in 1..8
  BY <1>1
<1>4. \A i \in 1..8 : Precedence[i] \in EmailJobStatus
  BY DEF Precedence, EmailJobStatus
<1>. QED
  BY <1>2, <1>3, <1>4

---------------------------------------------------------------------------
(* Types. *)

TypeInv == TypeOK /\ AtWork

\* The summary of a non-empty group is one of the statuses of its rows' type.
LEMMA GroupAggregateType ==
    ASSUME TypeOK, Group # {}
    PROVE  GroupAggregate \in EmailJobStatus
<1>1. {row[e] : e \in Group} \in SUBSET EmailJobStatus
  BY ConstantsAssumption DEF TypeOK
<1>2. {row[e] : e \in Group} # {}
  OBVIOUS
<1>. QED
  BY <1>1, <1>2, AggregateType DEF GroupAggregate

\* Rows are created QUEUED, and no slot is at work.
LEMMA TypeInit == Init => TypeInv
<1>1. "QUEUED" \in EmailJobStatus
  BY DEF EmailJobStatus
<1>. QED
  BY <1>1, ConstantsAssumption
  DEF Init, TypeInv, TypeOK, AtWork, BullState, PC

\* Every action keeps the types, by cases over Next.
LEMMA TypeStep == TypeInv /\ [Next]_vars => TypeInv'
<1> SUFFICES ASSUME TypeInv, [Next]_vars
             PROVE  TypeInv'
  OBVIOUS
<1> USE ConstantsAssumption
    DEF TypeInv, TypeOK, AtWork, rows, queue, slots, pass, outbox, callers, history,
        EmailJobStatus, BullState, PC, Pending, Fault, NoFault
<1>1. Group # {} => GroupAggregate \in EmailJobStatus
  BY GroupAggregateType
<1>2. ASSUME NEW w \in Workers, ReadRow(w)
       PROVE  TypeInv'
  BY <1>1, <1>2 DEF ReadRow, Goto
<1>3. ASSUME NEW w \in Workers, Replay(w)
       PROVE  TypeInv'
  BY <1>1, <1>3 DEF Replay, Leave, Goto
<1>4. ASSUME NEW w \in Workers, Hold(w)
       PROVE  TypeInv'
  BY <1>1, <1>4 DEF Hold, Leave, Goto
<1>5. ASSUME NEW w \in Workers, FindSuppressed(w)
       PROVE  TypeInv'
  BY <1>1, <1>5 DEF FindSuppressed, Goto
<1>6. ASSUME NEW w \in Workers, WriteSuppressed(w)
       PROVE  TypeInv'
  BY <1>1, <1>6 DEF WriteSuppressed, Leave, Goto
<1>7. ASSUME NEW w \in Workers, Claim(w)
       PROVE  TypeInv'
  BY <1>1, <1>7 DEF Claim, Leave, Goto
<1>8. ASSUME NEW w \in Workers, StartSmtp(w)
       PROVE  TypeInv'
  BY <1>1, <1>8 DEF StartSmtp, Goto
<1>9. ASSUME NEW w \in Workers, FailSafely(w)
       PROVE  TypeInv'
  BY <1>1, <1>9 DEF FailSafely, Goto
<1>10. ASSUME NEW w \in Workers, ServerAccepts(w)
       PROVE  TypeInv'
  BY <1>1, <1>10 DEF ServerAccepts, Goto
<1>11. ASSUME NEW w \in Workers, SmtpReturns(w)
       PROVE  TypeInv'
  BY <1>1, <1>11 DEF SmtpReturns, Goto
<1>12. ASSUME NEW w \in Workers, BecomeAmbiguous(w)
       PROVE  TypeInv'
  BY <1>1, <1>12 DEF BecomeAmbiguous, Goto
<1>13. ASSUME NEW w \in Workers, RecordOutcome(w)
       PROVE  TypeInv'
  BY <1>1, <1>13 DEF RecordOutcome, Goto
<1>14. ASSUME NEW w \in Workers, Bookkeep(w)
       PROVE  TypeInv'
  BY <1>1, <1>14 DEF Bookkeep, Leave, Goto
<1>15. ASSUME NEW w \in Workers, MarkUncertain(w)
       PROVE  TypeInv'
  BY <1>1, <1>15 DEF MarkUncertain, Leave, Goto
<1>16. ASSUME NEW w \in Workers, RecordFailure(w)
       PROVE  TypeInv'
  BY <1>1, <1>16 DEF RecordFailure, Leave, Goto
<1>17. ASSUME NEW w \in Workers, Settle(w)
       PROVE  TypeInv'
  BY <1>1, <1>17 DEF Settle, SettleGroup, Goto
<1>18. ASSUME NEW w \in Workers, Finish(w)
       PROVE  TypeInv'
  BY <1>1, <1>18 DEF Finish, Release, Goto
<1>19. ASSUME NEW w \in Workers, ReadFails(w)
       PROVE  TypeInv'
  BY <1>1, <1>19 DEF ReadFails, Goto
<1>20. ASSUME NEW w \in Workers, AdmitFails(w)
       PROVE  TypeInv'
  BY <1>1, <1>20 DEF AdmitFails, Leave, Goto
<1>21. ASSUME NEW w \in Workers, Crash(w)
       PROVE  TypeInv'
  BY <1>1, <1>21 DEF Crash, Release, Goto
<1>22. ASSUME NEW w \in Workers, NEW e \in Jobs, Take(w, e)
       PROVE  TypeInv'
  BY <1>22 DEF Take
<1>23. ASSUME NEW e \in Jobs, Enqueue(e)
       PROVE  TypeInv'
  BY <1>1, <1>23 DEF Enqueue, AddBull
<1>24. ASSUME NEW e \in Jobs, Promote(e)
       PROVE  TypeInv'
  BY <1>1, <1>24 DEF Promote
<1>25. ASSUME NEW e \in Jobs, LockExpires(e)
       PROVE  TypeInv'
  BY <1>1, <1>25 DEF LockExpires
<1>26. ASSUME NEW e \in Jobs, Retry(e)
       PROVE  TypeInv'
  BY <1>1, <1>26 DEF Retry
<1>27. ASSUME NEW e \in Jobs, CancelCheck(e)
       PROVE  TypeInv'
  BY <1>1, <1>27 DEF CancelCheck
<1>28. ASSUME NEW e \in Jobs, Bounce(e)
       PROVE  TypeInv'
  BY <1>1, <1>28 DEF Bounce
<1>29. ASSUME NEW e \in Jobs, BounceSettle(e)
       PROVE  TypeInv'
  BY <1>1, <1>29 DEF BounceSettle, SettleGroup
<1>30. ASSUME NEW old \in SUBSET Jobs, RecoverMark(old)
       PROVE  TypeInv'
  BY <1>30 DEF RecoverMark
<1>31. CASE RedisLoss
  BY <1>1, <1>31 DEF RedisLoss
<1>32. CASE RecoverRead
  BY <1>1, <1>32 DEF RecoverRead
<1>33. CASE RecoverGroups
  BY <1>1, <1>33 DEF RecoverGroups
<1>34. CASE RecoverAdd
  BY <1>1, <1>34 DEF RecoverAdd, AddBull
<1>35. CASE RecoverFails
  BY <1>1, <1>35 DEF RecoverFails
<1>36. CASE CancelUpdate
  BY <1>1, <1>36 DEF CancelUpdate, GroupOf
<1>37. CASE CancelSettle
  BY <1>1, <1>37 DEF CancelSettle
<1>38. CASE CancelRemove
  BY <1>1, <1>38 DEF CancelRemove
<1>39. CASE UNCHANGED vars
  BY <1>39 DEF vars, GroupAggregate
<1>. QED
  BY <1>2, <1>3, <1>4, <1>5, <1>6, <1>7, <1>8, <1>9, <1>10, <1>11, <1>12, <1>13,
     <1>14, <1>15, <1>16, <1>17, <1>18, <1>19, <1>20, <1>21, <1>22, <1>23, <1>24,
     <1>25, <1>26, <1>27, <1>28, <1>29, <1>30, <1>31, <1>32, <1>33, <1>34, <1>35,
     <1>36, <1>37, <1>38, <1>39
  DEF Next, Step, Recover

\* Every variable keeps its type in every behaviour, a slot at work always has a
\* row and a cancellation under way its own.
THEOREM TypeCorrect == Spec => []TypeOK
<1>1. TypeInv => TypeOK
  BY DEF TypeInv
<1>. QED
  BY <1>1, TypeInit, TypeStep, PTL DEF Spec

---------------------------------------------------------------------------
(* What the slots, the rows and the server know of each other. *)

CopyCount == \A e \in Jobs : accepted[e] \in {bounced[e], bounced[e] + 1}

Core ==
    /\ CopyCount
    /\ SoleSender
    /\ SenderKnows
    /\ OwnedRow
    /\ WithdrawnRow
    /\ TruthfulRow

\* The inductive invariant is its typed half and its core.
LEMMA InvParts == DeliveryInv <=> TypeInv /\ Core
BY DEF DeliveryInv, TypeInv, Core, CopyCount

\* Nothing is claimed, accepted or withdrawn at the start.
LEMMA CoreInit == Init => Core
BY ConstantsAssumption
DEF Init, Core, CopyCount, SoleSender, SenderKnows, OwnedRow, WithdrawnRow, TruthfulRow,
    Claimed, Claimable

\* What Core speaks of.
coreVars == <<row, pc, job, outcome, accepted, bounced, withdrawn>>

\* A step that changes none of it keeps Core.
LEMMA CoreStutter ==
    ASSUME Core, UNCHANGED coreVars
    PROVE  Core'
BY DEF Core, CopyCount, SoleSender, SenderKnows, OwnedRow, WithdrawnRow, TruthfulRow, coreVars

\* A slot that is not in the claimed region and does not enter it, and a row that
\* keeps its status, disturb nothing.
LEMMA CoreUnclaimed ==
    ASSUME TypeInv, Core, NEW w \in Workers,
           UNCHANGED <<row, accepted, bounced, withdrawn>>,
           \A v \in Workers \ {w} : pc'[v] = pc[v] /\ job'[v] = job[v] /\ outcome'[v] = outcome[v],
           pc'[w] \notin Claimed
    PROVE  Core'
<1>1. CopyCount' /\ WithdrawnRow' /\ TruthfulRow'
  BY DEF Core, CopyCount, WithdrawnRow, TruthfulRow
<1>2. SoleSender'
  BY DEF Core, SoleSender
<1>3. SenderKnows'
  BY DEF Core, SenderKnows, Claimed
<1>4. OwnedRow'
  BY DEF Core, OwnedRow
<1>. QED
  BY <1>1, <1>2, <1>3, <1>4 DEF Core

\* The step that preserves it: only the claim, the writes of the row, the server
\* and the bounce touch what Core speaks of.
LEMMA CoreStep == TypeInv /\ Core /\ [Next]_vars => Core'
<1> SUFFICES ASSUME TypeInv, Core, [Next]_vars
             PROVE  Core'
  OBVIOUS
<1> USE ConstantsAssumption
    DEF rows, queue, slots, pass, outbox, callers, history
<1>1. TypeOK /\ AtWork /\ CopyCount /\ SoleSender /\ SenderKnows /\ OwnedRow
      /\ WithdrawnRow /\ TruthfulRow
  BY DEF TypeInv, Core
<1> USE DEF TypeInv, TypeOK, AtWork
<1>2. ASSUME NEW w \in Workers, ReadRow(w)
       PROVE  Core'
  BY <1>2, CoreUnclaimed DEF ReadRow, Goto, Claimed
<1>3. ASSUME NEW w \in Workers, Hold(w)
       PROVE  Core'
  BY <1>3, CoreUnclaimed DEF Hold, Leave, Goto, Claimed
<1>4. ASSUME NEW w \in Workers, FindSuppressed(w)
       PROVE  Core'
  BY <1>4, CoreUnclaimed DEF FindSuppressed, Goto, Claimed
<1>5. ASSUME NEW w \in Workers, Bookkeep(w)
       PROVE  Core'
  BY <1>5, CoreUnclaimed DEF Bookkeep, Leave, Goto, Claimed
<1>6. ASSUME NEW w \in Workers, Settle(w)
       PROVE  Core'
  BY <1>6, CoreUnclaimed DEF Settle, Goto, Claimed
<1>7. ASSUME NEW w \in Workers, Finish(w)
       PROVE  Core'
  BY <1>7, CoreUnclaimed DEF Finish, Release, Goto, Claimed
<1>8. ASSUME NEW w \in Workers, ReadFails(w)
       PROVE  Core'
  BY <1>8, CoreUnclaimed DEF ReadFails, Goto, Claimed
<1>9. ASSUME NEW w \in Workers, AdmitFails(w)
       PROVE  Core'
  BY <1>9, CoreUnclaimed DEF AdmitFails, Leave, Goto, Claimed
<1>10. ASSUME NEW w \in Workers, Crash(w)
       PROVE  Core'
  BY <1>10, CoreUnclaimed DEF Crash, Release, Goto, Claimed
<1>11. ASSUME NEW w \in Workers, NEW e \in Jobs, Take(w, e)
       PROVE  Core'
  BY <1>11, CoreUnclaimed DEF Take, Claimed
<1>12. ASSUME NEW w \in Workers, StartSmtp(w)
       PROVE  Core'
  <2>1. CopyCount'
    BY <1>1, <1>12 DEF StartSmtp, Goto, CopyCount
  <2>2. SoleSender'
    BY <1>1, <1>12 DEF StartSmtp, Goto, SoleSender, Claimed
  <2>3. SenderKnows'
    BY <1>1, <1>12 DEF StartSmtp, Goto, SenderKnows
  <2>4. OwnedRow'
    BY <1>1, <1>12 DEF StartSmtp, Goto, OwnedRow, Claimed
  <2>5. WithdrawnRow'
    BY <1>1, <1>12 DEF StartSmtp, Goto, WithdrawnRow
  <2>6. TruthfulRow'
    BY <1>1, <1>12 DEF StartSmtp, Goto, TruthfulRow
  <2>. QED
    BY <2>1, <2>2, <2>3, <2>4, <2>5, <2>6 DEF Core
<1>13. ASSUME NEW w \in Workers, FailSafely(w)
       PROVE  Core'
  <2>1. CopyCount'
    BY <1>1, <1>13 DEF FailSafely, Goto, CopyCount
  <2>2. SoleSender'
    BY <1>1, <1>13 DEF FailSafely, Goto, SoleSender, Claimed
  <2>3. SenderKnows'
    BY <1>1, <1>13 DEF FailSafely, Goto, SenderKnows
  <2>4. OwnedRow'
    BY <1>1, <1>13 DEF FailSafely, Goto, OwnedRow, Claimed
  <2>5. WithdrawnRow'
    BY <1>1, <1>13 DEF FailSafely, Goto, WithdrawnRow
  <2>6. TruthfulRow'
    BY <1>1, <1>13 DEF FailSafely, Goto, TruthfulRow
  <2>. QED
    BY <2>1, <2>2, <2>3, <2>4, <2>5, <2>6 DEF Core
<1>14. ASSUME NEW w \in Workers, SmtpReturns(w)
       PROVE  Core'
  <2>1. CopyCount'
    BY <1>1, <1>14 DEF SmtpReturns, Goto, CopyCount
  <2>2. SoleSender'
    BY <1>1, <1>14 DEF SmtpReturns, Goto, SoleSender, Claimed
  <2>3. SenderKnows'
    BY <1>1, <1>14 DEF SmtpReturns, Goto, SenderKnows
  <2>4. OwnedRow'
    BY <1>1, <1>14 DEF SmtpReturns, Goto, OwnedRow, Claimed
  <2>5. WithdrawnRow'
    BY <1>1, <1>14 DEF SmtpReturns, Goto, WithdrawnRow
  <2>6. TruthfulRow'
    BY <1>1, <1>14 DEF SmtpReturns, Goto, TruthfulRow
  <2>. QED
    BY <2>1, <2>2, <2>3, <2>4, <2>5, <2>6 DEF Core
<1>15. ASSUME NEW w \in Workers, BecomeAmbiguous(w)
       PROVE  Core'
  <2>1. CopyCount'
    BY <1>1, <1>15 DEF BecomeAmbiguous, Goto, CopyCount
  <2>2. SoleSender'
    BY <1>1, <1>15 DEF BecomeAmbiguous, Goto, SoleSender, Claimed
  <2>3. SenderKnows'
    BY <1>1, <1>15 DEF BecomeAmbiguous, Goto, SenderKnows
  <2>4. OwnedRow'
    BY <1>1, <1>15 DEF BecomeAmbiguous, Goto, OwnedRow, Claimed
  <2>5. WithdrawnRow'
    BY <1>1, <1>15 DEF BecomeAmbiguous, Goto, WithdrawnRow
  <2>6. TruthfulRow'
    BY <1>1, <1>15 DEF BecomeAmbiguous, Goto, TruthfulRow
  <2>. QED
    BY <2>1, <2>2, <2>3, <2>4, <2>5, <2>6 DEF Core
<1>16. ASSUME NEW w \in Workers, ServerAccepts(w)
       PROVE  Core'
  <2>1. CopyCount'
    BY <1>1, <1>16 DEF ServerAccepts, Goto, CopyCount, SenderKnows
  <2>2. SoleSender'
    BY <1>1, <1>16 DEF ServerAccepts, Goto, SoleSender, Claimed
  <2>3. SenderKnows'
    BY <1>1, <1>16 DEF ServerAccepts, Goto, SenderKnows, SoleSender, Claimed
  <2>4. OwnedRow'
    BY <1>1, <1>16 DEF ServerAccepts, Goto, OwnedRow, Claimed
  <2>5. WithdrawnRow'
    BY <1>1, <1>16 DEF ServerAccepts, Goto, WithdrawnRow
  <2>6. TruthfulRow'
    BY <1>1, <1>16 DEF ServerAccepts, Goto, TruthfulRow, OwnedRow, Claimed, Claimable
  <2>. QED
    BY <2>1, <2>2, <2>3, <2>4, <2>5, <2>6 DEF Core
<1>17. ASSUME NEW w \in Workers, Replay(w)
       PROVE  Core'
  <2>1. CopyCount'
    BY <1>1, <1>17 DEF Replay, Leave, Goto, CopyCount
  <2>2. SoleSender'
    BY <1>1, <1>17 DEF Replay, Leave, Goto, SoleSender, Claimed
  <2>3. SenderKnows'
    BY <1>1, <1>17 DEF Replay, Leave, Goto, SenderKnows
  <2>4. OwnedRow'
    BY <1>1, <1>17 DEF Replay, Leave, Goto, OwnedRow, Claimed
  <2>5. WithdrawnRow'
    BY <1>1, <1>17 DEF Replay, Leave, Goto, WithdrawnRow
  <2>6. TruthfulRow'
    BY <1>1, <1>17 DEF Replay, Leave, Goto, TruthfulRow, Claimable
  <2>. QED
    BY <2>1, <2>2, <2>3, <2>4, <2>5, <2>6 DEF Core
<1>18. ASSUME NEW w \in Workers, WriteSuppressed(w)
       PROVE  Core'
  <2>1. CopyCount'
    BY <1>1, <1>18 DEF WriteSuppressed, Leave, Goto, CopyCount
  <2>2. SoleSender'
    BY <1>1, <1>18 DEF WriteSuppressed, Leave, Goto, SoleSender, Claimed
  <2>3. SenderKnows'
    BY <1>1, <1>18 DEF WriteSuppressed, Leave, Goto, SenderKnows
  <2>4. OwnedRow'
    BY <1>1, <1>18 DEF WriteSuppressed, Leave, Goto, OwnedRow, Claimed
  <2>5. WithdrawnRow'
    BY <1>1, <1>18 DEF WriteSuppressed, Leave, Goto, WithdrawnRow
  <2>6. TruthfulRow'
    BY <1>1, <1>18 DEF WriteSuppressed, Leave, Goto, TruthfulRow, Claimable
  <2>. QED
    BY <2>1, <2>2, <2>3, <2>4, <2>5, <2>6 DEF Core
<1>19. ASSUME NEW w \in Workers, Claim(w)
       PROVE  Core'
  <2>1. CopyCount'
    BY <1>1, <1>19 DEF Claim, Leave, Goto, CopyCount
  <2>2. SoleSender'
    BY <1>1, <1>19 DEF Claim, Leave, Goto, SoleSender, Claimed, OwnedRow, Claimable
  <2>3. SenderKnows'
    BY <1>1, <1>19 DEF Claim, Leave, Goto, SenderKnows, TruthfulRow
  <2>4. OwnedRow'
    BY <1>1, <1>19 DEF Claim, Leave, Goto, OwnedRow, Claimed, WithdrawnRow, Claimable
  <2>5. WithdrawnRow'
    BY <1>1, <1>19 DEF Claim, Leave, Goto, WithdrawnRow, Claimable
  <2>6. TruthfulRow'
    BY <1>1, <1>19 DEF Claim, Leave, Goto, TruthfulRow, Claimable
  <2>. QED
    BY <2>1, <2>2, <2>3, <2>4, <2>5, <2>6 DEF Core
<1>20. ASSUME NEW w \in Workers, RecordOutcome(w)
       PROVE  Core'
  <2>1. CopyCount'
    BY <1>1, <1>20 DEF RecordOutcome, Goto, CopyCount
  <2>2. SoleSender'
    BY <1>1, <1>20 DEF RecordOutcome, Goto, SoleSender, Claimed
  <2>3. SenderKnows'
    BY <1>1, <1>20 DEF RecordOutcome, Goto, SenderKnows
  <2>4. OwnedRow'
    BY <1>1, <1>20 DEF RecordOutcome, Goto, OwnedRow, Claimed, SoleSender
  <2>5. WithdrawnRow'
    BY <1>1, <1>20 DEF RecordOutcome, Goto, WithdrawnRow, OwnedRow, Claimed
  <2>6. TruthfulRow'
    BY <1>1, <1>20 DEF RecordOutcome, Goto, TruthfulRow, SenderKnows, Claimable
  <2>. QED
    BY <2>1, <2>2, <2>3, <2>4, <2>5, <2>6 DEF Core
<1>21. ASSUME NEW w \in Workers, MarkUncertain(w)
       PROVE  Core'
  <2>1. CopyCount'
    BY <1>1, <1>21 DEF MarkUncertain, Leave, Goto, CopyCount
  <2>2. SoleSender'
    BY <1>1, <1>21 DEF MarkUncertain, Leave, Goto, SoleSender, Claimed
  <2>3. SenderKnows'
    BY <1>1, <1>21 DEF MarkUncertain, Leave, Goto, SenderKnows
  <2>4. OwnedRow'
    BY <1>1, <1>21 DEF MarkUncertain, Leave, Goto, OwnedRow, Claimed
  <2>5. WithdrawnRow'
    BY <1>1, <1>21 DEF MarkUncertain, Leave, Goto, WithdrawnRow, OwnedRow, Claimed
  <2>6. TruthfulRow'
    BY <1>1, <1>21 DEF MarkUncertain, Leave, Goto, TruthfulRow, Claimable
  <2>. QED
    BY <2>1, <2>2, <2>3, <2>4, <2>5, <2>6 DEF Core
<1>22. ASSUME NEW w \in Workers, RecordFailure(w)
       PROVE  Core'
  <2>1. CopyCount'
    BY <1>1, <1>22 DEF RecordFailure, Leave, Goto, CopyCount
  <2>2. SoleSender'
    BY <1>1, <1>22 DEF RecordFailure, Leave, Goto, SoleSender, Claimed
  <2>3. SenderKnows'
    BY <1>1, <1>22 DEF RecordFailure, Leave, Goto, SenderKnows
  <2>4. OwnedRow'
    BY <1>1, <1>22 DEF RecordFailure, Leave, Goto, OwnedRow, Claimed, SoleSender
  <2>5. WithdrawnRow'
    BY <1>1, <1>22 DEF RecordFailure, Leave, Goto, WithdrawnRow, OwnedRow, Claimed
  <2>6. TruthfulRow'
    BY <1>1, <1>22 DEF RecordFailure, Leave, Goto, TruthfulRow, SenderKnows, Claimable
  <2>. QED
    BY <2>1, <2>2, <2>3, <2>4, <2>5, <2>6 DEF Core
<1>23. ASSUME NEW old \in SUBSET Jobs, RecoverMark(old)
       PROVE  Core'
  <2>1. CopyCount'
    BY <1>1, <1>23 DEF RecoverMark, CopyCount
  <2>2. SoleSender'
    BY <1>1, <1>23 DEF RecoverMark, SoleSender, Claimed
  <2>3. SenderKnows'
    BY <1>1, <1>23 DEF RecoverMark, SenderKnows
  <2>4. OwnedRow'
    BY <1>1, <1>23 DEF RecoverMark, OwnedRow, Claimed
  <2>5. WithdrawnRow'
    BY <1>1, <1>23 DEF RecoverMark, WithdrawnRow
  <2>6. TruthfulRow'
    BY <1>1, <1>23 DEF RecoverMark, TruthfulRow, Claimable
  <2>. QED
    BY <2>1, <2>2, <2>3, <2>4, <2>5, <2>6 DEF Core
<1>24. CASE CancelUpdate
  <2>1. CopyCount'
    BY <1>1, <1>24 DEF CancelUpdate, GroupOf, CopyCount
  <2>2. SoleSender'
    BY <1>1, <1>24 DEF CancelUpdate, GroupOf, SoleSender, Claimed
  <2>3. SenderKnows'
    BY <1>1, <1>24 DEF CancelUpdate, GroupOf, SenderKnows
  <2>4. OwnedRow'
    BY <1>1, <1>24 DEF CancelUpdate, GroupOf, OwnedRow, Claimed, Cancellable
  <2>5. WithdrawnRow'
    BY <1>1, <1>24 DEF CancelUpdate, GroupOf, WithdrawnRow, Cancellable
  <2>6. TruthfulRow'
    BY <1>1, <1>24 DEF CancelUpdate, GroupOf, TruthfulRow, Cancellable, Claimable
  <2>. QED
    BY <2>1, <2>2, <2>3, <2>4, <2>5, <2>6 DEF Core
<1>25. ASSUME NEW e \in Jobs, Bounce(e)
       PROVE  Core'
  <2>1. CopyCount'
    BY <1>1, <1>25 DEF Bounce, CopyCount, TruthfulRow
  <2>2. SoleSender'
    BY <1>1, <1>25 DEF Bounce, SoleSender, Claimed
  <2>3. SenderKnows'
    BY <1>1, <1>25 DEF Bounce, SenderKnows, OwnedRow, Claimed
  <2>4. OwnedRow'
    BY <1>1, <1>25 DEF Bounce, OwnedRow, Claimed
  <2>5. WithdrawnRow'
    BY <1>1, <1>25 DEF Bounce, WithdrawnRow
  <2>6. TruthfulRow'
    BY <1>1, <1>25 DEF Bounce, TruthfulRow, Claimable
  <2>. QED
    BY <2>1, <2>2, <2>3, <2>4, <2>5, <2>6 DEF Core
<1>26. ASSUME NEW e \in Jobs, Enqueue(e)
       PROVE  Core'
  BY <1>26, CoreStutter DEF Enqueue, coreVars
<1>27. ASSUME NEW e \in Jobs, Promote(e)
       PROVE  Core'
  BY <1>27, CoreStutter DEF Promote, coreVars
<1>28. ASSUME NEW e \in Jobs, LockExpires(e)
       PROVE  Core'
  BY <1>28, CoreStutter DEF LockExpires, coreVars
<1>29. ASSUME NEW e \in Jobs, Retry(e)
       PROVE  Core'
  BY <1>29, CoreStutter DEF Retry, coreVars
<1>30. ASSUME NEW e \in Jobs, CancelCheck(e)
       PROVE  Core'
  BY <1>30, CoreStutter DEF CancelCheck, coreVars
<1>31. ASSUME NEW e \in Jobs, BounceSettle(e)
       PROVE  Core'
  BY <1>31, CoreStutter DEF BounceSettle, coreVars
<1>32. CASE RedisLoss
  BY <1>32, CoreStutter DEF RedisLoss, coreVars
<1>33. CASE RecoverRead
  BY <1>33, CoreStutter DEF RecoverRead, coreVars
<1>34. CASE RecoverGroups
  BY <1>34, CoreStutter DEF RecoverGroups, coreVars
<1>35. CASE RecoverAdd
  BY <1>35, CoreStutter DEF RecoverAdd, coreVars
<1>36. CASE RecoverFails
  BY <1>36, CoreStutter DEF RecoverFails, coreVars
<1>37. CASE CancelSettle
  BY <1>37, CoreStutter DEF CancelSettle, coreVars
<1>38. CASE CancelRemove
  BY <1>38, CoreStutter DEF CancelRemove, coreVars
<1>39. CASE UNCHANGED vars
  BY <1>39, CoreStutter DEF vars, coreVars
<1>. QED
  BY <1>2, <1>3, <1>4, <1>5, <1>6, <1>7, <1>8, <1>9, <1>10, <1>11, <1>12, <1>13,
     <1>14, <1>15, <1>16, <1>17, <1>18, <1>19, <1>20, <1>21, <1>22, <1>23, <1>24,
     <1>25, <1>26, <1>27, <1>28, <1>29, <1>30, <1>31, <1>32, <1>33, <1>34, <1>35,
     <1>36, <1>37, <1>38, <1>39
  DEF Next, Step, Recover

\* Nothing the slots, the queue, the recovery pass, the operator, the Outbox and
\* the bounces do, in whatever order and with however many faults, leads out of
\* the invariant.
THEOREM Delivery == Spec => []DeliveryInv
<1>1. Init => TypeInv /\ Core
  BY TypeInit, CoreInit
<1>2. TypeInv /\ Core /\ [Next]_vars => (TypeInv /\ Core)'
  BY TypeStep, CoreStep
<1>3. TypeInv /\ Core => DeliveryInv
  BY InvParts
<1>. QED
  BY <1>1, <1>2, <1>3, PTL DEF Spec

\* However often BullMQ hands a job out, and whoever died in the middle, the
\* server holds at most one copy that did not bounce.
THEOREM OneCopy == Spec => []AtMostOneCopy
<1>1. DeliveryInv => AtMostOneCopy
  BY DEF DeliveryInv, TypeOK, AtMostOneCopy
<1>. QED
  BY <1>1, Delivery, PTL

\* The conditional claim lets one slot at a time be the sender of a row.
THEOREM OneSender == Spec => []SoleSender
<1>1. DeliveryInv => SoleSender
  BY DEF DeliveryInv
<1>. QED
  BY <1>1, Delivery, PTL

\* What a row says of the server is true, although most writes of the handler are
\* unconditional.
THEOREM Truth == Spec => []TruthfulRow
<1>1. DeliveryInv => TruthfulRow
  BY DEF DeliveryInv
<1>. QED
  BY <1>1, Delivery, PTL

\* A row the Outbox reported cancelled is never sent afterwards.
THEOREM Withdrawal == Spec => WithdrawnNotSent
<1>1. ASSUME DeliveryInv, [Next]_vars, NEW e \in withdrawn
      PROVE  accepted'[e] = accepted[e]
  <2>1. CASE UNCHANGED accepted
    BY <2>1
  <2>2. ASSUME NEW w \in Workers, ServerAccepts(w)
        PROVE  accepted'[e] = accepted[e]
    <3>1. pc[w] \in Claimed /\ accepted' = [accepted EXCEPT ![job[w]] = @ + 1]
      BY <2>2 DEF ServerAccepts, Claimed
    <3>2. job[w] # e
      BY <1>1, <3>1 DEF DeliveryInv, OwnedRow
    <3>. QED
      BY <3>1, <3>2
  <2>3. UNCHANGED accepted \/ \E w \in Workers : ServerAccepts(w)
    BY <1>1
    DEF Next, Step, Recover, vars, history, ReadRow, Replay, Hold, FindSuppressed,
        WriteSuppressed, Claim, StartSmtp, FailSafely, SmtpReturns, BecomeAmbiguous,
        RecordOutcome, Bookkeep, MarkUncertain, RecordFailure, Settle, Finish, ReadFails,
        AdmitFails, Crash, Take, Enqueue, Promote, LockExpires, Retry, CancelCheck, Bounce,
        BounceSettle, RedisLoss, RecoverRead, RecoverMark, RecoverGroups, RecoverAdd,
        RecoverFails, CancelUpdate, CancelSettle, CancelRemove
  <2>. QED
    BY <2>1, <2>2, <2>3
<1>2. DeliveryInv /\ [Next]_vars => [\A e \in withdrawn : accepted'[e] = accepted[e]]_vars
  BY <1>1
<1>. QED
  BY <1>2, Delivery, PTL DEF Spec, WithdrawnNotSent
---------------------------------------------------------------------------
(* The summary of a group. *)

\* A settlement of the group is still to come from a slot, the cancellation or a
\* bounce, each of which wrote a row of it or is about to.
SettleAhead ==
    \/ \E w \in Workers : job[w] \in Group /\ pc[w] \in Claimed \union {"bookkeep", "settle"}
    \/ cancel = "settle"
    \/ dsn \intersect Group # {}

\* What SummaryAgrees rests on: a settlement is ahead wherever the summary lags, and
\* a row the 15-minute sweep takes from PROCESSING has a slot that will settle.
SummaryInv ==
    faults = 0 =>
        /\ \A e \in Jobs :
              row[e] = "PROCESSING" => \E w \in Workers : job[w] = e /\ pc[w] \in Claimed
        /\ Group # {} => groupStatus = GroupAggregate \/ SettleAhead

\* Nothing was written, and nothing claimed.
LEMMA SummaryInit == Init => SummaryInv
<1> SUFFICES ASSUME Init, Group # {}
             PROVE  groupStatus = GroupAggregate
  BY DEF Init, SummaryInv
<1>1. {row[e] : e \in Group} = {"QUEUED"}
  BY ConstantsAssumption DEF Init
<1>2. Aggregate({"QUEUED"}) = "QUEUED"
  <2> DEFINE First(i) == /\ Precedence[i] \in {"QUEUED"}
                         /\ \A j \in 1..(i - 1) : Precedence[j] \notin {"QUEUED"}
  <2>1. First(2) /\ \A i \in 1..8 : First(i) => i = 2
    BY DEF Precedence
  <2>2. (CHOOSE i \in 1..8 : First(i)) = 2
    BY <2>1
  <2>. QED
    BY <2>2 DEF Aggregate, Precedence
<1>. QED
  BY <1>1, <1>2 DEF Init, GroupAggregate

\* A fault ends what the summary promises.
LEMMA SummaryFault ==
    ASSUME TypeOK, NEW kind, Fault(kind)
    PROVE  SummaryInv'
BY DEF TypeOK, Fault, SummaryInv

\* The summary of rows that did not change is what it was.
LEMMA AggregateStays ==
    ASSUME \A e \in Group : row'[e] = row[e]
    PROVE  GroupAggregate' = GroupAggregate
<1>1. {row'[e] : e \in Group} = {row[e] : e \in Group}
  OBVIOUS
<1>. QED
  BY <1>1 DEF GroupAggregate

\* A step that writes neither rows nor summary disturbs nothing, as long as the slot
\* that takes it keeps its row, stays claimed if it was, and goes on to settle.
LEMMA SummaryFrame ==
    ASSUME SummaryInv, UNCHANGED <<row, groupStatus, cancel, dsn, faults>>,
           \A w \in Workers :
               /\ pc[w] \in Claimed => pc'[w] \in Claimed /\ job'[w] = job[w]
               /\ pc[w] \in {"bookkeep", "settle"} =>
                     pc'[w] \in {"bookkeep", "settle"} /\ job'[w] = job[w]
    PROVE  SummaryInv'
<1>1. GroupAggregate' = GroupAggregate
  BY AggregateStays
<1>2. SettleAhead => SettleAhead'
  BY DEF SettleAhead
<1>. QED
  BY <1>1, <1>2 DEF SummaryInv

\* A slot that writes its row and has a settlement ahead itself: the sweep's half needs
\* that a row it leaves in PROCESSING has a claimed slot.
LEMMA SummaryWrite ==
    ASSUME TypeInv, SummaryInv, NEW w \in Workers, job[w] \in Jobs,
           NEW s, row' = [row EXCEPT ![job[w]] = s],
           UNCHANGED <<groupStatus, job, cancel, dsn, faults>>,
           \A v \in Workers \ {w} : pc'[v] = pc[v],
           s = "PROCESSING" => pc'[w] \in Claimed,
           pc'[w] \in Claimed \union {"bookkeep", "settle"}
    PROVE  SummaryInv'
<1> SUFFICES ASSUME faults = 0
             PROVE  SummaryInv'
  BY DEF SummaryInv
<1>1. ASSUME NEW e \in Jobs, row'[e] = "PROCESSING"
      PROVE  \E v \in Workers : job'[v] = e /\ pc'[v] \in Claimed
  <2>1. CASE e = job[w]
    BY <1>1, <2>1 DEF TypeInv, TypeOK
  <2>2. CASE e # job[w]
    <3>1. row[e] = "PROCESSING"
      BY <1>1, <2>2 DEF TypeInv, TypeOK
    <3>2. PICK v \in Workers : job[v] = e /\ pc[v] \in Claimed
      BY <3>1 DEF SummaryInv
    <3>. QED
      BY <2>2, <3>2
  <2>. QED
    BY <2>1, <2>2
<1>2. CASE job[w] \in Group
  BY <1>1, <1>2 DEF SummaryInv, SettleAhead
<1>3. CASE job[w] \notin Group
  <2>1. \A e \in Group : row'[e] = row[e]
    BY <1>3, ConstantsAssumption DEF TypeInv, TypeOK
  <2>2. GroupAggregate' = GroupAggregate
    BY <2>1, AggregateStays
  <2>3. SettleAhead => SettleAhead'
    BY <1>3 DEF SettleAhead
  <2>. QED
    BY <1>1, <2>2, <2>3 DEF SummaryInv
<1>. QED
  BY <1>2, <1>3

\* A settlement: the summary is what the rows say.
LEMMA SummarySettled ==
    ASSUME SummaryInv, UNCHANGED <<row, job, faults>>, groupStatus' = GroupAggregate,
           \A w \in Workers : pc[w] \in Claimed => pc'[w] \in Claimed
    PROVE  SummaryInv'
<1>1. GroupAggregate' = GroupAggregate
  BY AggregateStays
<1>. QED
  BY <1>1 DEF SummaryInv

\* Every step keeps it.
LEMMA SummaryStep == TypeInv /\ SummaryInv /\ [Next]_vars => SummaryInv'
<1> SUFFICES ASSUME TypeInv, SummaryInv, [Next]_vars
             PROVE  SummaryInv'
  OBVIOUS
<1> USE ConstantsAssumption
    DEF rows, queue, slots, pass, outbox, callers, history, NoFault
<1>1. TypeOK /\ \A w \in Workers : pc[w] # "idle" => job[w] \in Jobs
  BY DEF TypeInv, AtWork
<1>2. ASSUME NEW w \in Workers, ReadRow(w)
       PROVE  SummaryInv'
  BY <1>1, <1>2, SummaryFrame DEF ReadRow, Goto, Claimed, TypeOK
<1>3. ASSUME NEW w \in Workers, Hold(w)
       PROVE  SummaryInv'
  BY <1>1, <1>3, SummaryFrame DEF Hold, Leave, Goto, Claimed, TypeOK
<1>4. ASSUME NEW w \in Workers, FindSuppressed(w)
       PROVE  SummaryInv'
  BY <1>1, <1>4, SummaryFrame DEF FindSuppressed, Goto, Claimed, TypeOK
<1>5. ASSUME NEW w \in Workers, StartSmtp(w)
       PROVE  SummaryInv'
  BY <1>1, <1>5, SummaryFrame DEF StartSmtp, Goto, Claimed, TypeOK
<1>6. ASSUME NEW w \in Workers, FailSafely(w)
       PROVE  SummaryInv'
  BY <1>1, <1>6, SummaryFrame DEF FailSafely, Goto, Claimed, TypeOK
<1>7. ASSUME NEW w \in Workers, SmtpReturns(w)
       PROVE  SummaryInv'
  BY <1>1, <1>7, SummaryFrame DEF SmtpReturns, Goto, Claimed, TypeOK
<1>8. ASSUME NEW w \in Workers, Bookkeep(w)
       PROVE  SummaryInv'
  <2>1. CASE UNCHANGED faults
    BY <1>1, <2>1, <1>8, SummaryFrame DEF Bookkeep, Leave, Goto, Claimed, TypeOK
  <2>2. CASE Fault("call")
    BY <1>1, <2>2, SummaryFault
  <2>. QED
    BY <2>1, <2>2, <1>8 DEF Bookkeep
<1>9. ASSUME NEW w \in Workers, Finish(w)
       PROVE  SummaryInv'
  BY <1>1, <1>9, SummaryFrame DEF Finish, Release, Goto, Claimed, TypeOK
<1>10. ASSUME NEW w \in Workers, ServerAccepts(w)
       PROVE  SummaryInv'
  BY <1>1, <1>10, SummaryFrame DEF ServerAccepts, Goto, Claimed, TypeOK
<1>11. ASSUME NEW w \in Workers, BecomeAmbiguous(w)
       PROVE  SummaryInv'
  <2>1. CASE UNCHANGED faults
    BY <1>1, <2>1, <1>11, SummaryFrame DEF BecomeAmbiguous, Goto, Claimed, TypeOK
  <2>2. CASE Fault("call")
    BY <1>1, <2>2, SummaryFault
  <2>. QED
    BY <2>1, <2>2, <1>11 DEF BecomeAmbiguous
<1>12. ASSUME NEW w \in Workers, ReadFails(w)
       PROVE  SummaryInv'
  BY <1>1, <1>12, SummaryFault DEF ReadFails
<1>13. ASSUME NEW w \in Workers, AdmitFails(w)
       PROVE  SummaryInv'
  BY <1>1, <1>13, SummaryFault DEF AdmitFails
<1>14. ASSUME NEW w \in Workers, Crash(w)
       PROVE  SummaryInv'
  BY <1>1, <1>14, SummaryFault DEF Crash
<1>15. ASSUME NEW w \in Workers, NEW e \in Jobs, Take(w, e)
       PROVE  SummaryInv'
  BY <1>1, <1>15, SummaryFrame DEF Take, Claimed, TypeOK
<1>16. ASSUME NEW w \in Workers, Replay(w)
       PROVE  SummaryInv'
  <2> DEFINE s == IF row[job[w]] = "PROCESSING" THEN "UNCERTAIN" ELSE row[job[w]]
  <2>1. row' = [row EXCEPT ![job[w]] = s] /\ s # "PROCESSING"
    BY <1>16 DEF Replay
  <2>2. /\ UNCHANGED <<groupStatus, job, cancel, dsn, faults>> /\ job[w] \in Jobs
        /\ pc' = [pc EXCEPT ![w] = "settle"]
    BY <1>1, <1>16 DEF Replay, Leave, Goto
  <2>3. \A v \in Workers \ {w} : pc'[v] = pc[v] /\ pc'[w] = "settle"
    BY <1>1, <2>2 DEF TypeOK
  <2>4. pc'[w] \in Claimed \union {"bookkeep", "settle"}
    BY <1>1, <2>2 DEF TypeOK
  <2> HIDE DEF s
  <2>. QED
    BY <2>1, <2>2, <2>3, <2>4, SummaryWrite
<1>17. ASSUME NEW w \in Workers, WriteSuppressed(w)
       PROVE  SummaryInv'
  BY <1>1, <1>17, SummaryWrite DEF WriteSuppressed, Leave, Goto, TypeOK
<1>18. ASSUME NEW w \in Workers, Claim(w)
       PROVE  SummaryInv'
  <2>1. CASE row[job[w]] \in Claimable
    BY <1>1, <2>1, <1>18, SummaryWrite DEF Claim, Goto, Claimed, TypeOK
  <2>2. CASE row[job[w]] \notin Claimable
    BY <1>1, <2>2, <1>18, SummaryFrame DEF Claim, Leave, Goto, Claimed, TypeOK
  <2>. QED
    BY <2>1, <2>2
<1>19. ASSUME NEW w \in Workers, RecordOutcome(w)
       PROVE  SummaryInv'
  <2>1. outcome[w] # "PROCESSING"
    BY <1>1 DEF TypeOK
  <2>. QED
    BY <1>1, <2>1, <1>19, SummaryWrite DEF RecordOutcome, Goto, TypeOK
<1>20. ASSUME NEW w \in Workers, MarkUncertain(w)
       PROVE  SummaryInv'
  <2>1. CASE UNCHANGED faults
    <3>1. ~Fault("call")
      BY <1>1, <2>1 DEF Fault, TypeOK
    <3>. QED
      BY <1>1, <2>1, <3>1, <1>20, SummaryWrite DEF MarkUncertain, Leave, Goto, TypeOK
  <2>2. CASE Fault("call")
    BY <1>1, <2>2, SummaryFault
  <2>. QED
    BY <2>1, <2>2, <1>20 DEF MarkUncertain
<1>21. ASSUME NEW w \in Workers, RecordFailure(w)
       PROVE  SummaryInv'
  <2>1. CASE UNCHANGED faults
    <3>1. ~Fault("call")
      BY <1>1, <2>1 DEF Fault, TypeOK
    <3>. QED
      BY <1>1, <2>1, <3>1, <1>21, SummaryWrite DEF RecordFailure, Leave, Goto, TypeOK
  <2>2. CASE Fault("call")
    BY <1>1, <2>2, SummaryFault
  <2>. QED
    BY <2>1, <2>2, <1>21 DEF RecordFailure
<1>22. ASSUME NEW w \in Workers, Settle(w)
       PROVE  SummaryInv'
  <2>1. CASE Fault("call")
    BY <1>1, <2>1, SummaryFault
  <2>2. CASE ~Fault("call") /\ job[w] \in Group
    BY <1>1, <2>2, <1>22, SummarySettled DEF Settle, SettleGroup, Goto, Claimed, TypeOK
  <2>3. CASE ~Fault("call") /\ job[w] \notin Group
    <3>1. UNCHANGED <<row, groupStatus, job, cancel, dsn, faults>> /\ pc[w] = "settle"
          /\ pc' = [pc EXCEPT ![w] = "finish"]
      BY <2>3, <1>22 DEF Settle, SettleGroup, Goto
    <3>2. \A v \in Workers : pc[v] \in Claimed => pc'[v] \in Claimed
      BY <1>1, <3>1 DEF TypeOK, Claimed
    <3>3. GroupAggregate' = GroupAggregate
      BY <3>1, AggregateStays
    <3>4. SettleAhead => SettleAhead'
      BY <1>1, <2>3, <3>1 DEF SettleAhead, TypeOK
    <3>. QED
      BY <3>1, <3>2, <3>3, <3>4 DEF SummaryInv
  <2>. QED
    BY <2>1, <2>2, <2>3
<1>23. ASSUME NEW e \in Jobs, Enqueue(e)
       PROVE  SummaryInv'
  BY <1>23, SummaryFrame DEF Enqueue
<1>24. ASSUME NEW e \in Jobs, Promote(e)
       PROVE  SummaryInv'
  BY <1>24, SummaryFrame DEF Promote
<1>25. ASSUME NEW e \in Jobs, Retry(e)
       PROVE  SummaryInv'
  BY <1>25, SummaryFrame DEF Retry
<1>26. ASSUME NEW e \in Jobs, LockExpires(e)
       PROVE  SummaryInv'
  <2>1. CASE owner[e] = NoWorker
    BY <2>1, <1>26, SummaryFrame DEF LockExpires
  <2>2. CASE owner[e] # NoWorker
    BY <1>1, <2>2, <1>26, SummaryFault DEF LockExpires
  <2>. QED
    BY <2>1, <2>2
<1>27. ASSUME NEW e \in Jobs, CancelCheck(e)
       PROVE  SummaryInv'
  <2>1. UNCHANGED <<rows, slots, dsn, faults>> /\ cancel # "settle"
    BY <1>27 DEF CancelCheck
  <2>2. GroupAggregate' = GroupAggregate
    BY <2>1, AggregateStays
  <2>3. SettleAhead => SettleAhead'
    BY <2>1 DEF SettleAhead
  <2>. QED
    BY <2>1, <2>2, <2>3 DEF SummaryInv
<1>28. ASSUME NEW e \in Jobs, Bounce(e)
       PROVE  SummaryInv'
  <2>1. \A d \in Jobs : row'[d] = "PROCESSING" => row[d] = "PROCESSING"
    BY <1>1, <1>28 DEF Bounce, TypeOK
  <2>2. CASE e \in Group
    BY <2>1, <2>2, <1>28 DEF Bounce, SummaryInv, SettleAhead
  <2>3. CASE e \notin Group
    <3>1. \A d \in Group : row'[d] = row[d]
      BY <1>1, <2>3, <1>28 DEF Bounce, TypeOK
    <3>2. GroupAggregate' = GroupAggregate
      BY <3>1, AggregateStays
    <3>3. SettleAhead => SettleAhead'
      BY <1>28 DEF Bounce, SettleAhead
    <3>. QED
      BY <2>1, <3>2, <3>3, <1>28 DEF Bounce, SummaryInv
  <2>. QED
    BY <2>2, <2>3
<1>29. ASSUME NEW e \in Jobs, BounceSettle(e)
       PROVE  SummaryInv'
  <2>1. CASE e \in Group
    BY <2>1, <1>29, SummarySettled DEF BounceSettle, SettleGroup
  <2>2. CASE e \notin Group
    <3>1. UNCHANGED <<row, groupStatus, slots, cancel, faults>> /\ dsn' = dsn \ {e}
      BY <2>2, <1>29 DEF BounceSettle, SettleGroup
    <3>2. GroupAggregate' = GroupAggregate
      BY <3>1, AggregateStays
    <3>3. SettleAhead => SettleAhead'
      BY <2>2, <3>1 DEF SettleAhead
    <3>. QED
      BY <3>1, <3>2, <3>3 DEF SummaryInv
  <2>. QED
    BY <2>1, <2>2
<1>30. ASSUME NEW old \in SUBSET Jobs, RecoverMark(old)
       PROVE  SummaryInv'
  <2> SUFFICES ASSUME faults = 0
               PROVE  SummaryInv'
    BY <1>30 DEF RecoverMark, SummaryInv
  <2>1. UNCHANGED <<groupStatus, slots, outbox, dsn, faults>>
        /\ row' = [e \in Jobs |-> IF e \in old THEN "UNCERTAIN" ELSE row[e]]
    BY <1>30 DEF RecoverMark
  <2>2. \A e \in Jobs : row'[e] = "PROCESSING" => row[e] = "PROCESSING"
    BY <2>1
  <2>3. CASE old \intersect Group = {}
    <3>1. \A e \in Group : row'[e] = row[e]
      BY <2>1, <2>3
    <3>2. GroupAggregate' = GroupAggregate
      BY <3>1, AggregateStays
    <3>3. SettleAhead => SettleAhead'
      BY <2>1 DEF SettleAhead
    <3>. QED
      BY <2>1, <2>2, <3>2, <3>3 DEF SummaryInv
  <2>4. CASE old \intersect Group # {}
    <3>1. PICK e \in old \intersect Group : row[e] = "PROCESSING"
      BY <2>4, <1>30 DEF RecoverMark
    <3>2. PICK w \in Workers : job[w] = e /\ pc[w] \in Claimed
      BY <3>1 DEF SummaryInv
    <3>3. SettleAhead'
      BY <2>1, <3>1, <3>2 DEF SettleAhead
    <3>. QED
      BY <2>1, <2>2, <3>3 DEF SummaryInv
  <2>. QED
    BY <2>3, <2>4
<1>31. CASE RedisLoss
  BY <1>1, <1>31, SummaryFault DEF RedisLoss
<1>32. CASE RecoverRead
  BY <1>32, SummaryFrame DEF RecoverRead
<1>33. CASE RecoverGroups
  <2>1. CASE groupStatus \in Pending
    BY <2>1, <1>33, SummarySettled DEF RecoverGroups
  <2>2. CASE groupStatus \notin Pending
    BY <2>2, <1>33, SummaryFrame DEF RecoverGroups
  <2>. QED
    BY <2>1, <2>2
<1>34. CASE RecoverAdd
  BY <1>34, SummaryFrame DEF RecoverAdd
<1>35. CASE RecoverFails
  BY <1>1, <1>35, SummaryFault DEF RecoverFails
<1>36. CASE CancelUpdate
  <2> DEFINE hit == {e \in GroupOf(cancelRow) : row[e] \in Cancellable}
  <2>1. UNCHANGED <<groupStatus, slots, dsn, faults>> /\ cancel = "update"
        /\ row' = [e \in Jobs |-> IF e \in hit THEN "CANCELLED" ELSE row[e]]
    BY <1>36 DEF CancelUpdate
  <2>2. \A e \in Jobs : row'[e] = "PROCESSING" => row[e] = "PROCESSING"
    BY <2>1
  <2>3. CASE cancelRow \in Group /\ hit # {}
    <3>1. cancel' = "settle"
      BY <2>3, <1>36 DEF CancelUpdate
    <3>2. SettleAhead'
      BY <3>1 DEF SettleAhead
    <3>. QED
      BY <2>1, <2>2, <3>2 DEF SummaryInv
  <2>4. CASE cancelRow \notin Group \/ hit = {}
    <3>1. \A e \in Group : row'[e] = row[e]
      BY <2>1, <2>4 DEF GroupOf
    <3>2. GroupAggregate' = GroupAggregate
      BY <3>1, AggregateStays
    <3>3. SettleAhead => SettleAhead'
      BY <2>1 DEF SettleAhead
    <3>. QED
      BY <2>1, <2>2, <3>2, <3>3 DEF SummaryInv
  <2>. QED
    BY <2>3, <2>4
<1>37. CASE CancelSettle
  BY <1>37, SummarySettled DEF CancelSettle
<1>38. CASE CancelRemove
  <2>1. UNCHANGED <<row, groupStatus, slots, dsn, faults>> /\ cancel # "settle"
    BY <1>38 DEF CancelRemove
  <2>2. GroupAggregate' = GroupAggregate
    BY <2>1, AggregateStays
  <2>3. SettleAhead => SettleAhead'
    BY <2>1 DEF SettleAhead
  <2>. QED
    BY <2>1, <2>2, <2>3 DEF SummaryInv
<1>39. CASE UNCHANGED vars
  BY <1>39, SummaryFrame DEF vars
<1>. QED
  BY <1>2, <1>3, <1>4, <1>5, <1>6, <1>7, <1>8, <1>9, <1>10, <1>11, <1>12, <1>13,
     <1>14, <1>15, <1>16, <1>17, <1>18, <1>19, <1>20, <1>21, <1>22, <1>23,
     <1>24, <1>25, <1>26, <1>27, <1>28, <1>29, <1>30, <1>31, <1>32, <1>33,
     <1>34, <1>35, <1>36, <1>37, <1>38, <1>39
  DEF Next, Step, Recover

\* However the claims, outcomes, cancellations, bounces and sweeps of a group's rows
\* overlap, its summary agrees with them once nobody is at work on them, for a send to
\* any number of recipients.
THEOREM Summary == Spec => []SummaryAgrees
<1>1. Init => TypeInv /\ SummaryInv
  BY TypeInit, SummaryInit
<1>2. TypeInv /\ SummaryInv /\ [Next]_vars => (TypeInv /\ SummaryInv)'
  BY TypeStep, SummaryStep
<1>3. TypeInv /\ SummaryInv => SummaryAgrees
  <2>1. Quiet => ~SettleAhead
    BY DEF Quiet, SettleAhead, Claimed
  <2>. QED
    BY <2>1 DEF SummaryInv, SummaryAgrees
<1>. QED
  BY <1>1, <1>2, <1>3, PTL DEF Spec
=============================================================================
