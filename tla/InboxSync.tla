----------------------------- MODULE InboxSync -----------------------------
(***************************************************************************)
(* The whole sync pass of an account, composed of InboxMoves and           *)
(* InboxReadState: the moves, then the configured folder and one other,    *)
(* each with the import of its new mail, the rounds of the read state and  *)
(* its cursor.  Left out: the import of older mail (a folder's mail fits   *)
(* the import window), bodies, attachments and drafts, folders that        *)
(* disappear, and bounce reports, which EmailDelivery takes up.            *)
(***************************************************************************)
EXTENDS InboxMoves, InboxReadState

\* The account's check, periodic or asked for, gets the advisory lock.
StartPass ==
    /\ pc = "idle"
    /\ queue' = {i \in DOMAIN move : move[i].status \in Active}
    /\ \E other \in Folders : /\ other = Primary => Folders = {Primary}
                            /\ rest' = {Primary, other}
    /\ pc' = "moves"
    /\ UNCHANGED <<serverVars, messageVars, loc, move, cursor, mv, folder, upto, got, gone, snap,
                   round, taken, retry, sent, countVars>>

MovesDone ==
    /\ pc = "moves" /\ queue = {}
    /\ pc' = "folders"
    /\ UNCHANGED <<serverVars, messageVars, loc, move, cursor, passVars, sent, countVars>>

\* The configured folder goes first.
NextFolder ==
    /\ pc = "folders" /\ rest # {}
    /\ folder' = IF Primary \in rest THEN Primary ELSE CHOOSE f \in rest : TRUE
    /\ rest' = rest \ {folder'}
    /\ pc' = "open"
    /\ UNCHANGED <<serverVars, messageVars, loc, move, cursor, queue, mv, upto, got, gone, snap,
                   round, taken, retry, sent, countVars>>

PassDone ==
    /\ pc = "folders" /\ rest = {}
    /\ pc' = "idle" /\ folder' = Primary
    /\ UNCHANGED <<serverVars, messageVars, loc, move, cursor, queue, mv, rest, upto, got,
                   gone, snap, round, taken, retry, sent, countVars>>

\* Mutant: the next UID counts as covered.
OpenPast ==
    LET seen == IF cursor[folder].validity = validity[folder] THEN cursor[folder].seen ELSE 0
        fresh == {p \in CopiesIn(folder) : p.uid > seen}
    IN  /\ pc = "open"
        /\ loc' = [p \in DOMAIN loc |->
                      IF p.folder = folder /\ p.validity # validity[folder]
                      THEN [loc[p] EXCEPT !.present = FALSE] ELSE loc[p]]
        /\ got' = [p \in fresh |-> copy[p]]
        /\ pc' = IF fresh = {} THEN "list" ELSE "store"
        /\ upto' = IF CopiesIn(folder) = {} THEN seen ELSE nextUid[folder]
        /\ UNCHANGED <<serverVars, messageVars, move, cursor, queue, mv, rest, folder, gone,
                       snap, round, taken, retry, sent, countVars>>

\* Locations of an earlier namespace are retired, and what is above the cursor fetched.
Open ==
    LET seen == IF cursor[folder].validity = validity[folder] THEN cursor[folder].seen ELSE 0
        fresh == {p \in CopiesIn(folder) : p.uid > seen}
    IN  /\ pc = "open"
        /\ loc' = [p \in DOMAIN loc |->
                      IF p.folder = folder /\ p.validity # validity[folder]
                      THEN [loc[p] EXCEPT !.present = FALSE] ELSE loc[p]]
        /\ got' = [p \in fresh |-> copy[p]]
        /\ pc' = IF fresh = {} THEN "list" ELSE "store"
        /\ upto' = IF CopiesIn(folder) = {} THEN seen ELSE nextUid[folder] - 1
        /\ UNCHANGED <<serverVars, messageVars, move, cursor, queue, mv, rest, folder, gone,
                       snap, round, taken, retry, sent, countVars>>

\* The message is created with the flags of the copy, or found with its own.
Store ==
    /\ pc = "store"
    /\ known' = TRUE
    /\ value' = IF known THEN value ELSE got[At]
    /\ snap' = [Snapshot EXCEPT !.value = value']
    /\ pc' = "locate"
    /\ UNCHANGED <<serverVars, revision, pending, loc, move, cursor, queue, mv, folderVars,
                   got, gone, round, taken, retry, sent, countVars>>

\* storeLocation up to its upsert.  taken: the fields of a copy new to this folder
\* that the message has otherwise.
Locate ==
    LET same == {f \in Fields : got[At][f] = snap.value[f]}
        was == At \in DOMAIN loc /\ loc[At].present
        row == IF At \in DOMAIN loc THEN [loc[At] EXCEPT !.present = TRUE]
               ELSE [present |-> TRUE, observed |-> got[At],
                     applied |-> [f \in Fields |-> IF f \in same THEN snap.revision[f] ELSE 0]]
    IN  /\ pc = "locate"
        /\ loc' = With(loc, At, row)
        /\ taken' = IF was THEN {} ELSE Fields \ same
        /\ pc' = "owe"
        /\ UNCHANGED <<serverVars, messageVars, move, cursor, queue, mv, folderVars, got,
                       gone, snap, round, retry, sent, countVars>>

\* Its end: the message becomes pending where no one has acted on it meanwhile.
Owe ==
    /\ pc = "owe"
    /\ pending' = [f \in Fields |-> \/ pending[f]
                                    \/ f \in taken /\ revision[f] = snap.revision[f]]
    /\ got' = Without(got, {At}) /\ taken' = {} /\ snap' = NoSnapshot
    /\ pc' = IF got' = Empty THEN "list" ELSE "store"
    /\ UNCHANGED <<serverVars, known, value, revision, loc, move, cursor, queue, mv, folderVars, gone, round, retry, sent, countVars>>

Close ==
    /\ pc = "close"
    /\ cursor' = [cursor EXCEPT ![folder] = [validity |-> validity[folder], seen |-> upto]]
    /\ upto' = 0
    /\ pc' = "folders"
    /\ UNCHANGED <<serverVars, messageVars, loc, move, queue, mv, rest, folder, got, gone, snap,
                   round, taken, retry, sent, countVars>>

WorkerStep ==
    \/ StartPass \/ MoveStep \/ MovesDone \/ NextFolder \/ PassDone
    \/ Open \/ Store \/ Locate \/ Owe \/ ReadStateStep \/ Close

----------------------------------------------------------------------------
(* Faults. *)

\* A flag command of a row: the row is left for the next pass.
PushFails ==
    /\ pc = "push" /\ At \in DOMAIN copy /\ Owing # {}
    /\ \/ Fault("refused") /\ UNCHANGED copy
       \/ Fault("lost") /\ copy' = [copy EXCEPT ![At][FirstField] = snap.value[FirstField]]
    /\ NextRow
    /\ UNCHANGED <<nextUid, validity, messageVars, loc, move, cursor, retry, sent>>

Forget ==
    /\ got' = Empty /\ gone' = {} /\ snap' = NoSnapshot
    /\ round' = 1 /\ taken' = {} /\ retry' = FALSE /\ upto' = 0

\* Any other statement of a folder's check: its cursor stays where it was.
FolderFails ==
    /\ pc \in FolderSteps
    /\ Fault("call")
    /\ pc' = "folders"
    /\ Forget
    /\ UNCHANGED <<serverVars, messageVars, loc, move, cursor, queue, mv, rest, folder, sent>>

\* The worker dies, or the pass runs into its time limit.
Crash ==
    /\ pc # "idle"
    /\ Fault("crash")
    /\ pc' = "idle" /\ queue' = {} /\ mv' = NoMove /\ rest' = {} /\ folder' = Primary
    /\ Forget
    /\ UNCHANGED <<serverVars, messageVars, loc, move, cursor, sent>>

Next == Users \/ WorkerStep \/ MoveFault \/ PushFails \/ FolderFails \/ Crash

Spec == Init /\ [][Next]_vars

\* The account's periodic check always comes again, and a pass that is not cut off
\* goes on.
FairSpec == Spec /\ WF_vars(WorkerStep)

----------------------------------------------------------------------------
TypeOK ==
    /\ DOMAIN copy \subseteq Places /\ copy \in [DOMAIN copy -> Flags]
    /\ nextUid \in [Folders -> 1..MaxUids + 1]
    /\ validity \in [Folders -> 0..MaxRecreations]
    /\ known \in BOOLEAN /\ value \in Flags /\ pending \in Flags
    /\ revision \in [Fields -> Nat]
    /\ DOMAIN loc \subseteq Places /\ loc \in [DOMAIN loc -> Locations]
    /\ DOMAIN move \subseteq MoveIds /\ move \in [DOMAIN move -> MoveRows]
    /\ cursor \in [Folders -> [validity : 0..MaxRecreations, seen : 0..MaxUids]]
    /\ pc \in Steps /\ queue \subseteq MoveIds /\ mv \in MoveIds \union {NoMove}
    /\ rest \subseteq Folders /\ folder \in Folders /\ upto \in 0..MaxUids
    /\ DOMAIN got \subseteq Places /\ got \in [DOMAIN got -> Flags] /\ gone \subseteq Places
    /\ snap \in Snapshots /\ round \in 1..2 * Rounds
    /\ taken \subseteq Fields /\ retry \in BOOLEAN
    /\ sent \in [MoveIds -> Nat] /\ meddled \in BOOLEAN
    /\ {marks, others, faults} \subseteq Nat

\* A move's status never says less or more than what happened to the mail: the
\* command is sent once at most, FAILED means that it never was, and DONE that the
\* message has left its source.
MoveOutcome ==
    \A i \in DOMAIN move :
        /\ sent[i] <= 1
        /\ move[i].status \in {"PENDING", "FAILED"} => sent[i] = 0
        /\ move[i].status = "DONE" => move[i].source \notin DOMAIN copy

\* What no longer waits for the server is on it: once a field is not pending, the message
\* carries the shared state on the server, wherever it was moved, whichever of the pass's
\* answers were lost and whenever it died.  Only another client's flag or second copy can
\* make it otherwise.
SharedHeld ==
    ~meddled =>
        \A f \in Fields : ~pending[f] => \A p \in DOMAIN copy : copy[p][f] = value[f]

\* While a teammate's action waits, only another teammate replaces it: what the
\* server says of an old copy does not.
OwnActionKept ==
    [][\A f \in Fields : pending[f] /\ value'[f] # value[f] => marks' # marks]_vars

\* Everyone agrees in the end: the shared state reaches every copy, while there is one.
Settled == \A p \in DOMAIN copy, f \in Fields : ~pending[f] /\ copy[p][f] = value[f]
Converges == <>[](~meddled => Settled)

\* A move whose message is at its destination is reported as done there, as long as
\* neither folder was recreated (which leaves it UNCERTAIN for good).
Arrived(i) ==
    /\ i \in DOMAIN move /\ move[i].status \in Active
    /\ move[i].source \notin DOMAIN copy /\ CopiesIn(move[i].target) # {}
    /\ move[i].source.validity = validity[move[i].source.folder]
    /\ move[i].validity = validity[move[i].target]
MovesConclude == \A i \in MoveIds : Arrived(i) ~> ~Arrived(i)

============================================================================
