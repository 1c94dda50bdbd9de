--------------------------- MODULE InboxReadState ---------------------------
(***************************************************************************)
(* synchronizeReadState: one round for one folder.  The pending action of  *)
(* the message is put on the folder's copies and acknowledged once every   *)
(* copy there is carries it; then the copies' flags are scanned, and a     *)
(* change another client made becomes a shared action of its own.  The     *)
(* page limits (200 rows, 10 hash checks) are left out.                    *)
(***************************************************************************)
EXTENDS Mailbox

\* The first query of a round; gone is empty and retry off at this point.
ListPending ==
    LET rows == IF \E f \in Fields : pending[f] THEN PresentIn(folder) ELSE {}
    IN  /\ pc = "list"
        /\ got' = [p \in rows |-> Off]   \* only its domain counts in this phase
        /\ snap' = Snapshot
        /\ pc' = IF rows = {} THEN "scan" ELSE "push"
        /\ UNCHANGED <<serverVars, messageVars, loc, move, cursor, queue, mv, folderVars,
                       gone, round, taken, retry, sent, countVars>>

At == FirstOf(DOMAIN got)

\* To the next location of the phase, or on to the scan.
NextRow ==
    /\ got' = Without(got, {At})
    /\ pc' = IF got' = Empty THEN "scan" ELSE "push"
    /\ snap' = IF got' = Empty THEN NoSnapshot ELSE snap
    /\ UNCHANGED <<queue, mv, folderVars, gone, round, taken>>

\* The fields of the row the action is not on yet.
Owing == {f \in Fields : snap.pending[f] /\ loc[At].applied[f] # snap.revision[f]}
FirstField == IF "read" \in Owing THEN "read" ELSE "flag"

\* The message is no longer at this location.
PushMissing ==
    /\ pc = "push" /\ At \notin DOMAIN copy
    /\ loc' = [loc EXCEPT ![At].present = FALSE]
    /\ NextRow
    /\ UNCHANGED <<serverVars, messageVars, move, cursor, retry, sent, countVars>>

Push ==
    /\ pc = "push" /\ At \in DOMAIN copy /\ Owing # {}
    /\ copy' = [copy EXCEPT ![At][FirstField] = snap.value[FirstField]]
    /\ pc' = "applied"
    /\ UNCHANGED <<nextUid, validity, messageVars, loc, move, cursor, passVars, sent, countVars>>

PushNothing ==
    /\ pc = "push" /\ At \in DOMAIN copy /\ Owing = {}
    /\ pc' = "ack"
    /\ UNCHANGED <<serverVars, messageVars, loc, move, cursor, passVars, sent, countVars>>

Applied ==
    /\ pc = "applied"
    /\ loc' = [loc EXCEPT ![At].applied[FirstField] = snap.revision[FirstField],
                          ![At].observed[FirstField] = snap.value[FirstField]]
    /\ pc' = IF Owing = {FirstField} THEN "ack" ELSE "push"
    /\ UNCHANGED <<serverVars, messageVars, move, cursor, passVars, sent, countVars>>

\* Mutant: a newer action is acknowledged with the older one.
AcknowledgedLate(f) ==
    /\ pending[f]
    /\ \A p \in DOMAIN loc : loc[p].present => loc[p].applied[f] = snap.revision[f]

\* Mutant: locations the message has left count too.
AcknowledgedByAll(f) ==
    /\ pending[f] /\ revision[f] = snap.revision[f]
    /\ \A p \in DOMAIN loc : loc[p].applied[f] = snap.revision[f]

\* The message's action is the one this round knows, and every present location,
\* of whatever folder, has it.
Acknowledged(f) ==
    /\ pending[f] /\ revision[f] = snap.revision[f]
    /\ \A p \in DOMAIN loc : loc[p].present => loc[p].applied[f] = snap.revision[f]

Ack ==
    /\ pc = "ack"
    /\ pending' = [f \in Fields |-> pending[f] /\ ~(snap.pending[f] /\ Acknowledged(f))]
    /\ retry' = (retry \/ \E f \in Fields : snap.pending[f] /\ ~Acknowledged(f))
    /\ NextRow
    /\ UNCHANGED <<serverVars, known, value, revision, loc, move, cursor, sent, countVars>>

----------------------------------------------------------------------------
\* The rows and the flags the server gives of them.
Scan ==
    LET rows == PresentIn(folder)
    IN  /\ pc = "scan"
        /\ got' = [p \in rows \intersect DOMAIN copy |-> copy[p]]
        /\ gone' = rows \ DOMAIN copy
        /\ snap' = Snapshot
        /\ pc' = IF got' = Empty THEN "retire" ELSE "adopt"
        /\ UNCHANGED <<serverVars, messageVars, loc, move, cursor, queue, mv, folderVars,
                       round, taken, retry, sent, countVars>>

\* The fields another client changed at this location and no teammate since.
Changed == {f \in Fields : loc[At].observed[f] # got[At][f]}
\* Mutant: whatever the server says is the new state.
AdoptedAll == Changed

Adopted == {f \in Changed : revision[f] = snap.revision[f] /\ ~pending[f]}

Adopt ==
    /\ pc = "adopt"
    /\ value' = [f \in Fields |-> IF f \in Adopted THEN got[At][f] ELSE value[f]]
    /\ revision' = [f \in Fields |-> IF f \in Adopted THEN revision[f] + 1 ELSE revision[f]]
    /\ pending' = [f \in Fields |-> pending[f] \/ f \in Adopted]
    /\ taken' = Adopted
    /\ retry' = (retry \/ Adopted # {})
    /\ pc' = "observe"
    /\ UNCHANGED <<serverVars, known, loc, move, cursor, queue, mv, folderVars, got, gone,
                   snap, round, sent, countVars>>

\* The location's own row, whether or not the change was adopted.
Observe ==
    /\ pc = "observe"
    /\ loc' = [loc EXCEPT ![At].observed = got[At],
                          ![At].applied = [f \in Fields |->
                              IF f \in taken THEN snap.revision[f] + 1 ELSE @[f]]]
    /\ got' = Without(got, {At}) /\ taken' = {}
    /\ pc' = IF got' = Empty THEN "retire" ELSE "adopt"
    /\ UNCHANGED <<serverVars, messageVars, move, cursor, queue, mv, folderVars, gone,
                   snap, round, retry, sent, countVars>>

\* Locations the server no longer has; then the next round, the second loop, or on.
Retire ==
    /\ pc = "retire"
    /\ loc' = [p \in DOMAIN loc |-> IF p \in gone THEN [loc[p] EXCEPT !.present = FALSE]
                                    ELSE loc[p]]
    /\ gone' = {} /\ got' = Empty /\ snap' = NoSnapshot /\ retry' = FALSE
    /\ IF retry /\ round \notin {Rounds, 2 * Rounds}
       THEN round' = round + 1 /\ pc' = "list"
       ELSE IF round <= Rounds
       THEN round' = Rounds + 1 /\ pc' = "list"
       ELSE round' = 1 /\ pc' = "close"
    /\ UNCHANGED <<serverVars, messageVars, move, cursor, queue, mv, folderVars, taken,
                   sent, countVars>>

ReadStateStep ==
    \/ ListPending \/ PushMissing \/ Push \/ PushNothing \/ Applied \/ Ack
    \/ Scan \/ Adopt \/ Observe \/ Retire
============================================================================
