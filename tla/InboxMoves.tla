----------------------------- MODULE InboxMoves -----------------------------
(***************************************************************************)
(* The first part of a sync pass: each move a teammate asked for is sent   *)
(* to the server as one MOVE, and its outcome read off the two folders.    *)
(* PROCESSING left by an earlier pass means that the outcome is unknown,   *)
(* and never that the command may be sent again.                           *)
(***************************************************************************)
EXTENDS Mailbox

SetStatus(i, s) == move' = [move EXCEPT ![i].status = s]

\* status(): FAILED or UNCERTAIN, unless it is DONE.
Conclude(i, s) ==
    IF move[i].status = "DONE" THEN UNCHANGED move ELSE SetStatus(i, s)

\* To the next move of the list.
Leave(i) ==
    /\ pc' = "moves" /\ queue' = queue \ {i} /\ mv' = NoMove
    /\ got' = Empty /\ snap' = NoSnapshot
    /\ UNCHANGED <<folderVars, gone, round, taken, retry>>

\* The location is still the one the teammate saw, and the message is at it.
SourceStands(i) ==
    LET p == move[i].source
    IN  /\ p \in DOMAIN loc /\ loc[p].present
        /\ p.validity = validity[p.folder]
        /\ p \in DOMAIN copy

\* What processInboxMoves lists, in any order.
TakeUnknown(i) ==
    /\ pc = "moves" /\ i \in queue
    /\ move[i].status # "PENDING"
    /\ pc' = "reconcile" /\ mv' = i
    /\ UNCHANGED <<serverVars, messageVars, loc, move, cursor, queue, folderVars, got,
                   gone, snap, round, taken, retry, sent, countVars>>

TakeStale(i) ==
    /\ pc = "moves" /\ i \in queue
    /\ move[i].status = "PENDING" /\ ~SourceStands(i)
    /\ Conclude(i, "FAILED")
    /\ Leave(i)
    /\ UNCHANGED <<serverVars, messageVars, loc, cursor, sent, countVars>>

\* Mutant: a move of unknown outcome is sent again.
ClaimAgain(i) ==
    /\ pc = "moves" /\ i \in queue
    /\ move[i].status \in Active /\ SourceStands(i)
    /\ move' = [move EXCEPT ![i].status = "PROCESSING",
                            ![i].validity = validity[move[i].target]]
    /\ pc' = "command" /\ mv' = i
    /\ UNCHANGED <<serverVars, messageVars, loc, cursor, queue, folderVars, got, gone,
                   snap, round, taken, retry, sent, countVars>>

\* The claim, with what a later pass needs to tell the outcome.
Claim(i) ==
    /\ pc = "moves" /\ i \in queue
    /\ move[i].status = "PENDING" /\ SourceStands(i)
    /\ move' = [move EXCEPT ![i].status = "PROCESSING",
                            ![i].validity = validity[move[i].target]]
    /\ pc' = "command" /\ mv' = i
    /\ UNCHANGED <<serverVars, messageVars, loc, cursor, queue, folderVars, got, gone,
                   snap, round, taken, retry, sent, countVars>>

\* The server's side of messageMove: nothing is done where nothing is left to move.
ServerMoves(i) ==
    LET m == move[i]
    IN  IF m.source \in DOMAIN copy
        THEN Arrive(m.target, copy[m.source], {m.source})
        ELSE UNCHANGED serverVars

\* messageMove; a server with UIDPLUS answers with the new UID.
Command ==
    /\ pc = "command"
    /\ ServerMoves(mv)
    /\ sent' = [sent EXCEPT ![mv] = @ + 1]
    /\ pc' = "record"
    /\ \E answer \in {{}, DOMAIN copy' \ DOMAIN copy} :
           got' = [p \in answer |-> copy'[p]]
    /\ UNCHANGED <<messageVars, loc, move, cursor, queue, mv, folderVars, gone, snap,
                   round, taken, retry, countVars>>

Record ==
    /\ pc = "record"
    /\ move' = IF got = Empty THEN move
               ELSE LET p == FirstOf(DOMAIN got)
                    IN  [move EXCEPT ![mv].uid = p.uid, ![mv].validity = p.validity]
    /\ pc' = "reconcile" /\ got' = Empty
    /\ UNCHANGED <<serverVars, messageVars, loc, cursor, queue, mv, folderVars, gone,
                   snap, round, taken, retry, sent, countVars>>

\* Mutant: only the copy the server named is looked for.
DestinationNamed(i) ==
    {p \in CopiesIn(move[i].target) : p.uid = move[i].uid /\ p.validity = move[i].validity}

\* findDestination: the copy the server named, or the first with the same bytes.
Destination(i) ==
    LET m == move[i]
        named == {p \in CopiesIn(m.target) : p.uid = m.uid}
    IN  IF validity[m.target] # m.validity \/ CopiesIn(m.target) = {} THEN {}
        ELSE IF named # {} THEN named
        ELSE {FirstOf(CopiesIn(m.target))}

Confirmed(i) ==
    LET p == move[i].source
    IN  /\ p.validity = validity[p.folder]
        /\ p \notin DOMAIN copy
        /\ Destination(i) # {}

ReconcileUncertain ==
    /\ pc = "reconcile" /\ ~Confirmed(mv)
    /\ Conclude(mv, "UNCERTAIN")
    /\ Leave(mv)
    /\ UNCHANGED <<serverVars, messageVars, loc, cursor, sent, countVars>>

\* The outcome is known; finish's transaction reads the message.
ReconcileFound ==
    /\ pc = "reconcile" /\ Confirmed(mv)
    /\ got' = [p \in Destination(mv) |-> copy[p]]
    /\ snap' = Snapshot
    /\ pc' = "finish"
    /\ UNCHANGED <<serverVars, messageVars, loc, move, cursor, queue, mv, folderVars,
                   gone, round, taken, retry, sent, countVars>>

\* finish's transaction commits.  The message gets its pending flags only where
\* neither of its revisions has moved since it was read.
Finish ==
    LET p == FirstOf(DOMAIN got)
        m == move[mv]
        same == {f \in Fields : got[p][f] = snap.value[f]}
        fresh == revision = snap.revision
        left == [q \in DOMAIN loc |-> IF q = m.source THEN [loc[q] EXCEPT !.present = FALSE]
                                      ELSE loc[q]]
        row == IF p \in DOMAIN loc THEN [loc[p] EXCEPT !.present = TRUE]
               ELSE [present |-> TRUE, observed |-> got[p],
                     applied |-> [f \in Fields |-> IF f \in same THEN snap.revision[f] ELSE 0]]
    IN  /\ pc = "finish"
        /\ loc' = With(left, p, row)
        /\ pending' = [f \in Fields |-> pending[f] \/ (fresh /\ f \notin same)]
        /\ move' = [move EXCEPT ![mv].status = "DONE", ![mv].uid = p.uid]
        /\ Leave(mv)
        /\ UNCHANGED <<serverVars, known, value, revision, cursor, sent, countVars>>

MoveStep ==
    \/ \E i \in queue : TakeUnknown(i) \/ TakeStale(i) \/ Claim(i)
    \/ Command \/ Record \/ ReconcileUncertain \/ ReconcileFound \/ Finish

----------------------------------------------------------------------------
Fault(kind) ==
    /\ kind \in FaultKinds /\ faults < MaxFaults
    /\ faults' = faults + 1
    /\ UNCHANGED <<meddled, marks, others>>

\* An exception before the command: FAILED, where it is a new move.
PrepareFails(i) ==
    /\ pc = "moves" /\ i \in queue
    /\ Fault("call")
    /\ Conclude(i, IF move[i].status = "PENDING" THEN "FAILED" ELSE "UNCERTAIN")
    /\ Leave(i)
    /\ UNCHANGED <<serverVars, messageVars, loc, cursor, sent>>

\* An exception of the command, run by the server or not.
CommandFails ==
    /\ pc = "command"
    /\ \/ Fault("refused") /\ UNCHANGED serverVars
       \/ Fault("lost") /\ ServerMoves(mv)
    /\ sent' = [sent EXCEPT ![mv] = @ + 1]
    /\ Conclude(mv, "UNCERTAIN")
    /\ Leave(mv)
    /\ UNCHANGED <<messageVars, loc, cursor>>

\* An exception after it.
ReconcileFails ==
    /\ pc \in {"record", "reconcile", "finish"}
    /\ Fault("call")
    /\ Conclude(mv, "UNCERTAIN")
    /\ Leave(mv)
    /\ UNCHANGED <<serverVars, messageVars, loc, cursor, sent>>

MoveFault == (\E i \in queue : PrepareFails(i)) \/ CommandFails \/ ReconcileFails
============================================================================
