------------------------------ MODULE Mailbox ------------------------------
(***************************************************************************)
(* One message of a connected IMAP mailbox, as three parties see it: the   *)
(* mail server, which holds its copies; Postgres, which holds the read and *)
(* flag state the teammates share, a row for each folder location, and the *)
(* moves they asked for; and the sync pass of the worker between the two.  *)
(* This module has the state, the teammates and the other mail clients;    *)
(* InboxMoves, InboxReadState and InboxSync have the pass.                  *)
(*                                                                         *)
(* A pass holds the account's advisory lock, so there is one at a time. A  *)
(* step of it is what runs between two writes; reads with no write between *)
(* them are one step, as are the writes of one field after the other.      *)
(*                                                                         *)
(* External: the IMAP server.  A UID is not given twice in a namespace; a  *)
(* folder recreated under its name gets a new UIDVALIDITY.                 *)
(***************************************************************************)
EXTENDS Naturals, FiniteSets

CONSTANTS
    Folders,        \* the mailbox's folders
    Primary,        \* the configured one, where mail arrives
    Fields,         \* the shared flags: read (\Seen) and flag (\Flagged)
    MoveIds,        \* InboxMove rows
    NoMove,         \* no move in hand
    Rounds,         \* rounds of a read-state loop (3 in the code)
    OtherKinds,     \* what other mail clients do: flag, copy, move, expunge, recreate
    FaultKinds,     \* crash: the pass dies; refused, lost: a command fails before
                    \*   it runs, after it ran; call: a statement of it fails
    MaxUids,        \* bound: UIDs of a folder
    MaxRecreations, \* bound: recreations of a folder
    MaxMarks,       \* bound: teammates' actions
    MaxOther,       \* bound: other clients' actions
    MaxFaults       \* bound: faults

ASSUME MailboxAssumption ==
    /\ Primary \in Folders
    /\ Fields \subseteq {"read", "flag"}
    /\ NoMove \notin MoveIds
    /\ OtherKinds \subseteq {"flag", "copy", "move", "expunge", "recreate"}
    /\ FaultKinds \subseteq {"crash", "refused", "lost", "call"}
    /\ {Rounds, MaxUids, MaxRecreations, MaxMarks, MaxOther, MaxFaults} \subseteq Nat
    /\ Rounds > 0 /\ MaxUids > 0

\* Where a copy is, or was: the unique key of InboundMessageLocation.
Places == [folder : Folders, validity : 0..MaxRecreations, uid : 1..MaxUids]
Flags == [Fields -> BOOLEAN]
Off == [f \in Fields |-> FALSE]

\* InboundMessageLocation: observed is remoteSeen and remoteFlagged, applied the
\* applied revision of each field.
Locations == [present : BOOLEAN, applied : [Fields -> Nat], observed : Flags]

\* InboxMove: validity and uid are those of the target, uid 0 while unknown.
MoveStatus == {"PENDING", "PROCESSING", "UNCERTAIN", "DONE", "FAILED"}
Active == {"PENDING", "PROCESSING", "UNCERTAIN"}
MoveRows == [status : MoveStatus, source : Places, target : Folders,
             validity : 0..MaxRecreations, uid : 0..MaxUids]

\* What a query that includes the message gives of it.
Snapshots == [value : Flags, revision : [Fields -> Nat], pending : Flags]
NoSnapshot == [value |-> Off, revision |-> [f \in Fields |-> 0], pending |-> Off]

FolderSteps == {"open", "store", "locate", "owe", "list", "push", "applied", "ack", "scan",
                "adopt", "observe", "retire", "close"}
Steps == {"idle", "moves", "command", "record", "reconcile", "finish", "folders"} \union FolderSteps

VARIABLES
    copy,     \* server: the flags of each copy there is
    nextUid,  \* server: UIDNEXT of a folder
    validity, \* server: UIDVALIDITY of a folder
    known,    \* Postgres: the InboundMessage row exists
    value,    \* Postgres: its readAt (as a Boolean) and flagged
    revision, \* Postgres: readRevision, flagRevision
    pending,  \* Postgres: readPending, flagPending
    loc,      \* Postgres: its InboundMessageLocation rows
    move,     \* Postgres: its InboxMove rows
    cursor,   \* Postgres: uidValidity and lastSeenUid of an InboxFolder
    pc,       \* pass: the step it stands before
    queue,    \* pass: moves it has yet to look at
    mv,       \* pass: the move in hand
    rest,     \* pass: folders it has yet to check
    folder,   \* pass: the folder it checks
    upto,     \* pass: the highest UID its import of it has covered
    got,      \* pass: flags it fetched, by place
    gone,     \* pass: locations the flag scan did not find
    snap,     \* pass: the message as its last query gave it
    round,    \* pass: the round of the read-state loops
    taken,    \* pass: fields whose change it made an action of
    retry,    \* pass: retryNewerAction
    sent,     \* history: MOVE commands sent for a move
    meddled,  \* history: another client changed a flag or made a copy
    marks, others, faults

serverVars == <<copy, nextUid, validity>>
messageVars == <<known, value, revision, pending>>
folderVars == <<rest, folder, upto>>
passVars == <<queue, mv, folderVars, got, gone, snap, round, taken, retry>>
countVars == <<meddled, marks, others, faults>>
vars == <<serverVars, messageVars, loc, move, cursor, pc, passVars, sent, countVars>>

With(f, x, v) == [y \in DOMAIN f \union {x} |-> IF y = x THEN v ELSE f[y]]
Without(f, S) == [y \in DOMAIN f \ S |-> f[y]]
Empty == [p \in {} |-> Off]

CopiesIn(f) == {p \in DOMAIN copy : p.folder = f}
\* The location rows of a folder the pass still takes for real.
PresentIn(f) == {p \in DOMAIN loc : p.folder = f /\ loc[p].present /\ p.validity = validity[f]}
FirstOf(S) == CHOOSE p \in S : \A q \in S : p.uid <= q.uid
NewPlace(f) == [folder |-> f, validity |-> validity[f], uid |-> nextUid[f]]
Snapshot == [value |-> value, revision |-> revision, pending |-> pending]

\* The message was delivered to the configured folder and no pass has run.
Init ==
    /\ copy = [p \in {[folder |-> Primary, validity |-> 0, uid |-> 1]} |-> Off]
    /\ nextUid = [f \in Folders |-> IF f = Primary THEN 2 ELSE 1]
    /\ validity = [f \in Folders |-> 0]
    /\ known = FALSE /\ value = Off /\ pending = Off
    /\ revision = [f \in Fields |-> 1]
    /\ loc = [p \in {} |-> <<>>] /\ move = [i \in {} |-> <<>>]
    /\ cursor = [f \in Folders |-> [validity |-> 0, seen |-> 0]]
    /\ pc = "idle" /\ queue = {} /\ mv = NoMove /\ rest = {} /\ folder = Primary /\ upto = 0
    /\ got = Empty /\ gone = {} /\ snap = NoSnapshot /\ round = 1 /\ taken = {} /\ retry = FALSE
    /\ sent = [i \in MoveIds |-> 0] /\ meddled = FALSE
    /\ marks = 0 /\ others = 0 /\ faults = 0

----------------------------------------------------------------------------
(* The API: what a teammate does with the message. *)

\* markRead, markManyRead, a reply (which marks it read), markFlagged.
Mark(f, v) ==
    /\ known /\ marks < MaxMarks
    /\ marks' = marks + 1
    /\ value' = [value EXCEPT ![f] = v]
    /\ revision' = [revision EXCEPT ![f] = @ + 1]
    /\ pending' = [pending EXCEPT ![f] = TRUE]
    /\ UNCHANGED <<serverVars, known, loc, move, cursor, pc, passVars, sent, meddled, others, faults>>

\* Archive, Trash, Restore or Move to a folder, from a location it is in.  A repeat
\* of the call with the same clientId returns its rows and is left out.
RequestMove(i, p, f) ==
    /\ i \notin DOMAIN move
    /\ p \in DOMAIN loc /\ loc[p].present
    /\ f # p.folder
    /\ ~\E j \in DOMAIN move : move[j].source = p /\ move[j].status \in Active
    /\ move' = With(move, i, [status |-> "PENDING", source |-> p, target |-> f,
                              validity |-> 0, uid |-> 0])
    /\ UNCHANGED <<serverVars, messageVars, loc, cursor, pc, passVars, sent, countVars>>

----------------------------------------------------------------------------
(* Other mail clients. *)

Other(kind) ==
    /\ kind \in OtherKinds /\ others < MaxOther
    /\ others' = others + 1
    /\ meddled' = (meddled \/ kind \in {"flag", "copy"})
    /\ UNCHANGED <<messageVars, loc, move, cursor, pc, passVars, sent, marks, faults>>

OtherFlag(p, f) ==
    /\ p \in DOMAIN copy
    /\ Other("flag")
    /\ copy' = [copy EXCEPT ![p][f] = ~@]
    /\ UNCHANGED <<nextUid, validity>>

\* Arrive(f, flags, S): a copy arrives in folder f, and those of S leave.
Arrive(f, flags, S) ==
    /\ nextUid[f] <= MaxUids
    /\ copy' = With(Without(copy, S), NewPlace(f), flags)
    /\ nextUid' = [nextUid EXCEPT ![f] = @ + 1]
    /\ UNCHANGED validity

OtherCopy(p, f) ==
    /\ p \in DOMAIN copy
    /\ Other("copy")
    /\ Arrive(f, copy[p], {})

OtherMove(p, f) ==
    /\ p \in DOMAIN copy /\ f # p.folder
    /\ Other("move")
    /\ Arrive(f, copy[p], {p})

OtherExpunge(p) ==
    /\ p \in DOMAIN copy
    /\ Other("expunge")
    /\ copy' = Without(copy, {p})
    /\ UNCHANGED <<nextUid, validity>>

\* A pass loses its connection with the folder it has open, so none is recreated then.
Opened == IF pc = "command" THEN {move[mv].source.folder}
          ELSE IF pc \in FolderSteps \ {"open"} THEN {folder} ELSE {}

\* The folder gets a new UIDVALIDITY and its mail, in order, the UIDs from 1 on.
Recreate(f) ==
    LET new(p) == [p EXCEPT !.validity = @ + 1,
                            !.uid = Cardinality({q \in CopiesIn(f) : q.uid <= p.uid})]
        stay == DOMAIN copy \ CopiesIn(f)
    IN  /\ validity[f] < MaxRecreations /\ f \notin Opened
        /\ Other("recreate")
        /\ validity' = [validity EXCEPT ![f] = @ + 1]
        /\ nextUid' = [nextUid EXCEPT ![f] = Cardinality(CopiesIn(f)) + 1]
        /\ copy' = [q \in stay \union {new(p) : p \in CopiesIn(f)} |->
                       IF q \in stay THEN copy[q]
                       ELSE copy[CHOOSE p \in CopiesIn(f) : new(p) = q]]

Users ==
    \/ \E f \in Fields, v \in BOOLEAN : Mark(f, v)
    \/ \E i \in MoveIds, p \in DOMAIN loc, f \in Folders : RequestMove(i, p, f)
    \/ \E p \in DOMAIN copy :
          \/ \E f \in Fields : OtherFlag(p, f)
          \/ \E f \in Folders : OtherCopy(p, f) \/ OtherMove(p, f)
          \/ OtherExpunge(p)
    \/ \E f \in Folders : Recreate(f)
============================================================================
