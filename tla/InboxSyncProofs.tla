-------------------------- MODULE InboxSyncProofs --------------------------
(***************************************************************************)
(* What the sync pass keeps for any mailbox, folders, teammates, other     *)
(* clients and faults: the status of a move says what happened to the      *)
(* mail, what no longer waits for the server is on it, and only another    *)
(* teammate replaces a teammate's waiting action.                          *)
(***************************************************************************)
EXTENDS InboxSync, FiniteSetTheorems, WellFoundedInduction, TLAPS

---------------------------------------------------------------------------
(* The invariant, in parts. *)

\* The server has given this place to a copy, now or earlier.
Issued(p) ==
    \/ p.validity < validity[p.folder]
    \/ p.validity = validity[p.folder] /\ p.uid < nextUid[p.folder]

\* Copies are in the current namespace of their folder, and all that the pass and Postgres
\* know of was issued: no copy ever comes to such a place again.
Placed ==
    /\ \A p \in DOMAIN copy : p.validity = validity[p.folder] /\ p.uid < nextUid[p.folder]
    /\ \A p \in DOMAIN loc \union DOMAIN got : Issued(p)
    /\ \A i \in DOMAIN move : move[i].source \in DOMAIN loc

\* The pass looks at moves that are not concluded; one whose command may still be sent is
\* claimed and has not been sent.
Moving ==
    /\ queue \subseteq DOMAIN move
    /\ \A i \in queue : move[i].status \in Active
    /\ pc \in {"command", "record", "reconcile", "finish"} =>
          mv \in queue /\ move[mv].status # "PENDING"
    /\ pc = "command" => move[mv].status = "PROCESSING" /\ sent[mv] = 0
    /\ pc = "finish" => DOMAIN got # {} /\ move[mv].source \notin DOMAIN copy
    /\ \A i \in MoveIds \ DOMAIN move : sent[i] = 0

\* Nobody acts on a message that has not been stored.
Known ==
    /\ ~known => DOMAIN loc = {} /\ pending = Off
    /\ pc \in {"locate", "owe"} => known
    /\ pc \in {"push", "applied", "ack", "adopt", "observe"} => DOMAIN got \subseteq DOMAIN loc
    /\ pc \in {"store", "locate", "owe", "push", "applied", "ack", "adopt", "observe"} =>
          DOMAIN got # {}

\* Where the pass works with the message as an earlier query gave it.
Informed == {"finish", "locate", "owe", "push", "applied", "ack", "adopt", "observe"}

\* What the pass knows of the message is old, or still so; what a location carries is no
\* newer, in the push phase not than the query either.
Informing ==
    /\ \A f \in Fields : revision[f] > 0 /\ \A p \in DOMAIN loc : loc[p].applied[f] <= revision[f]
    /\ pc \in Informed => \A f \in Fields :
          /\ snap.revision[f] <= revision[f]
          /\ snap.revision[f] = revision[f] => snap.value[f] = value[f]
    /\ pc \in {"push", "applied", "ack"} => \A f \in Fields :
          /\ snap.revision[f] # revision[f] => pending[f]
          /\ \A p \in DOMAIN loc : loc[p].applied[f] <= snap.revision[f]
    /\ pc \in {"push", "applied", "ack"} => \A p \in DOMAIN got : loc[p].present
    /\ pc = "observe" => \A f \in taken :
          /\ snap.revision[f] + 1 <= revision[f]
          /\ snap.revision[f] + 1 = revision[f] => value[f] = got[At][f]

\* Without other clients' flags and copies there is one copy at most, and it carries every
\* field that is not pending, every revision that some location carries, the flags the pass
\* fetched and has not touched, and the one it has just pushed.
Carrying ==
    ~meddled =>
        /\ \A p, q \in DOMAIN copy : p = q
        /\ \A p \in DOMAIN copy : \A f \in Fields :
              /\ ~pending[f] => copy[p][f] = value[f]
              /\ \A q \in DOMAIN loc : loc[q].applied[f] = revision[f] => copy[p][f] = value[f]
        /\ pc \in {"store", "locate", "owe", "adopt", "observe", "finish"} =>
              \A p \in DOMAIN copy, q \in DOMAIN got : got[q] = copy[p]
        /\ pc = "applied" =>
              /\ FirstField \in Fields
              /\ snap.revision[FirstField] = revision[FirstField] =>
                    \A p \in DOMAIN copy : copy[p][FirstField] = value[FirstField]

Inv == TypeOK /\ Placed /\ Moving /\ MoveOutcome /\ Known /\ Informing /\ Carrying

---------------------------------------------------------------------------
(* Tables and places. *)

LEMMA WithFacts ==
    ASSUME NEW S, NEW T, NEW g, DOMAIN g \subseteq S, g \in [DOMAIN g -> T], NEW x \in S, NEW v \in T
    PROVE  /\ DOMAIN With(g, x, v) = DOMAIN g \union {x} /\ DOMAIN With(g, x, v) \subseteq S
           /\ With(g, x, v) \in [DOMAIN With(g, x, v) -> T]
           /\ With(g, x, v)[x] = v
           /\ \A y \in DOMAIN g \ {x} : With(g, x, v)[y] = g[y]
BY DEF With

LEMMA WithoutFacts ==
    ASSUME NEW S, NEW T, NEW g, DOMAIN g \subseteq S, g \in [DOMAIN g -> T], NEW X
    PROVE  /\ DOMAIN Without(g, X) = DOMAIN g \ X /\ DOMAIN Without(g, X) \subseteq S
           /\ Without(g, X) \in [DOMAIN Without(g, X) -> T]
           /\ \A y \in DOMAIN g \ X : Without(g, X)[y] = g[y]
BY DEF Without

LEMMA EmptyFacts ==
    ASSUME NEW T, NEW g, g \in [DOMAIN g -> T]
    PROVE  g = Empty <=> DOMAIN g = {}
BY DEF Empty

LEMMA LessWellFounded == IsWellFoundedOn({ss \in Nat \X Nat : ss[1] < ss[2]}, Nat)
BY NatLessThanWellFounded DEF OpToRel

\* A set of places has a first one.
LEMMA FirstOfIn ==
    ASSUME NEW S \in SUBSET Places, S # {}
    PROVE  FirstOf(S) \in S
<1> DEFINE R == {ss \in Nat \X Nat : ss[1] < ss[2]}
           U == {p.uid : p \in S}
<1>1. IsWellFoundedOn(R, Nat)
  BY LessWellFounded
<1>2. U \subseteq Nat /\ U # {}
  BY DEF Places
<1>3. PICK x \in U : \A y \in U : <<y, x>> \notin R
  <2> HIDE DEF U, R
  <2>. QED
    BY <1>1, <1>2, WFMin
<1>4. \A y \in U : ~(y < x)
  BY <1>2, <1>3
<1>5. PICK p \in S : p.uid = x
  BY <1>3
<1>6. \A q \in S : p.uid <= q.uid
  BY <1>4, <1>5 DEF Places
<1>. QED
  BY <1>5, <1>6 DEF FirstOf

\* A folder has no more copies than it has UIDs.
LEMMA CopiesCounted ==
    ASSUME TypeOK, Placed, NEW f \in Folders, NEW S \in SUBSET CopiesIn(f)
    PROVE  /\ IsFiniteSet(S) /\ Cardinality(S) \in 0..MaxUids
           /\ S # {} => Cardinality(S) >= 1
<1> DEFINE uid == [p \in S |-> p.uid]
<1>1. S \subseteq Places /\ \A p \in S : p.folder = f /\ p.validity = validity[f]
  BY DEF CopiesIn, TypeOK, Placed
<1>2. \A p, q \in S : p.uid = q.uid => p = q
  BY <1>1 DEF Places
<1>3. uid \in Injection(S, 1..MaxUids)
  BY <1>1, <1>2 DEF Injection, IsInjective, Places
<1>4. IsFiniteSet(1..MaxUids) /\ Cardinality(1..MaxUids) = MaxUids
  BY FS_Interval, MailboxAssumption
<1>5. IsFiniteSet(S) /\ Cardinality(S) <= MaxUids
  <2> HIDE DEF uid
  <2>. QED
    BY <1>3, <1>4, FS_Injection
<1>6. Cardinality(S) \in Nat
  BY <1>5, FS_CardinalityType
<1>7. S # {} => Cardinality(S) # 0
  BY <1>5, FS_EmptySet
<1>. QED
  BY <1>5, <1>6, <1>7, MailboxAssumption

---------------------------------------------------------------------------
(* Types. *)

ServerType ==
    /\ DOMAIN copy \subseteq Places /\ copy \in [DOMAIN copy -> Flags]
    /\ nextUid \in [Folders -> 1..MaxUids + 1]
    /\ validity \in [Folders -> 0..MaxRecreations]

MessageType ==
    known \in BOOLEAN /\ value \in Flags /\ pending \in Flags /\ revision \in [Fields -> Nat]

LocType == DOMAIN loc \subseteq Places /\ loc \in [DOMAIN loc -> Locations]
MoveType == DOMAIN move \subseteq MoveIds /\ move \in [DOMAIN move -> MoveRows]
GotType == DOMAIN got \subseteq Places /\ got \in [DOMAIN got -> Flags]

\* What the pass works with.
PassType ==
    /\ cursor \in [Folders -> [validity : 0..MaxRecreations, seen : 0..MaxUids]]
    /\ pc \in Steps /\ queue \subseteq MoveIds /\ mv \in MoveIds \union {NoMove}
    /\ rest \subseteq Folders /\ folder \in Folders /\ upto \in 0..MaxUids
    /\ gone \subseteq Places /\ snap \in Snapshots /\ round \in 1..2 * Rounds
    /\ taken \subseteq Fields /\ retry \in BOOLEAN

CountType ==
    sent \in [MoveIds -> Nat] /\ meddled \in BOOLEAN /\ {marks, others, faults} \subseteq Nat

LEMMA TypeParts ==
    TypeOK <=> ServerType /\ MessageType /\ LocType /\ MoveType /\ GotType /\ PassType /\ CountType
BY DEF TypeOK, ServerType, MessageType, LocType, MoveType, GotType, PassType, CountType

---------------------------------------------------------------------------
(* Which steps change what. *)

\* A copy moves or is copied, leaves, is renumbered with its folder, or gets a flag: from
\* another client, or pushed by the pass.
LEMMA ServerChanges ==
    ASSUME TypeOK, Moving, [Next]_vars
    PROVE  \/ UNCHANGED serverVars
           \/ \E p \in DOMAIN copy, f \in Folders : Arrive(f, copy[p], {p})
           \/ \E p \in DOMAIN copy, f \in Folders : meddled' /\ Arrive(f, copy[p], {})
           \/ \E p \in DOMAIN copy :
                 copy' = Without(copy, {p}) /\ UNCHANGED <<nextUid, validity>>
           \/ \E f \in Folders : Recreate(f)
           \/ \E p \in DOMAIN copy, f \in Fields, v \in BOOLEAN :
                 /\ copy' = [copy EXCEPT ![p][f] = v] /\ UNCHANGED <<nextUid, validity>>
                 /\ meddled' \/ (pc = "push" /\ p = At /\ Owing # {} /\ f = FirstField
                                   /\ v = snap.value[f])
<1> DEFINE Change ==
      \/ UNCHANGED serverVars
      \/ \E p \in DOMAIN copy, f \in Folders : Arrive(f, copy[p], {p})
      \/ \E p \in DOMAIN copy, f \in Folders : meddled' /\ Arrive(f, copy[p], {})
      \/ \E p \in DOMAIN copy :
            copy' = Without(copy, {p}) /\ UNCHANGED <<nextUid, validity>>
      \/ \E f \in Folders : Recreate(f)
      \/ \E p \in DOMAIN copy, f \in Fields, v \in BOOLEAN :
            /\ copy' = [copy EXCEPT ![p][f] = v] /\ UNCHANGED <<nextUid, validity>>
            /\ meddled' \/ (pc = "push" /\ p = At /\ Owing # {} /\ f = FirstField
                              /\ v = snap.value[f])
<1>1. ASSUME NEW p \in DOMAIN copy, NEW f \in Fields, OtherFlag(p, f)
      PROVE  Change
  <2>1. copy' = [copy EXCEPT ![p][f] = ~copy[p][f]] /\ UNCHANGED <<nextUid, validity>> /\ meddled'
    BY <1>1 DEF OtherFlag, Other
  <2>2. copy[p][f] \in BOOLEAN
    BY DEF TypeOK, Flags
  <2>. QED
    BY <2>1, <2>2
<1>2. ASSUME NEW p \in DOMAIN copy, NEW f \in Folders, OtherCopy(p, f) \/ OtherMove(p, f)
      PROVE  Change
  BY <1>2 DEF OtherCopy, OtherMove, Other
<1>3. ASSUME NEW p \in DOMAIN copy, OtherExpunge(p)
      PROVE  Change
  BY <1>3 DEF OtherExpunge
<1>4. ASSUME pc = "command", ServerMoves(mv)
      PROVE  Change
  <2>1. move[mv].target \in Folders
    BY <1>4 DEF Moving, TypeOK, MoveRows
  <2>. QED
    BY <1>4, <2>1 DEF ServerMoves
<1>5. ASSUME Push \/ PushFails
      PROVE  Change
  <2>1. FirstField \in Owing /\ Owing \subseteq Fields
    BY <1>5, MailboxAssumption DEF Push, PushFails, FirstField, Owing
  <2>2. snap.value[FirstField] \in BOOLEAN
    BY <2>1 DEF TypeOK, Snapshots, Flags
  <2>3. \/ UNCHANGED serverVars
        \/ /\ copy' = [copy EXCEPT ![At][FirstField] = snap.value[FirstField]]
           /\ UNCHANGED <<nextUid, validity>> /\ At \in DOMAIN copy /\ pc = "push" /\ Owing # {}
    BY <1>5 DEF Push, PushFails, serverVars
  <2>. QED
    BY <2>1, <2>2, <2>3
<1>6. \/ UNCHANGED serverVars
      \/ Users
      \/ pc = "command" /\ ServerMoves(mv)
      \/ Push \/ PushFails
  BY DEF Next, WorkerStep, StartPass, MoveStep, TakeUnknown, TakeStale, Claim, Command, Record,
         ReconcileUncertain, ReconcileFound, Finish, MovesDone, NextFolder, PassDone, Open, Store,
         Locate, Owe, ReadStateStep, ListPending, PushMissing, PushNothing, Applied, Ack, Scan,
         Adopt, Observe, Retire, Close, MoveFault, PrepareFails, CommandFails, ReconcileFails,
         FolderFails, Crash, vars
<1>7. CASE Users
  <2>1. ASSUME \/ \E f \in Fields, v \in BOOLEAN : Mark(f, v)
               \/ \E i \in MoveIds, p \in DOMAIN loc, f \in Folders : RequestMove(i, p, f)
        PROVE  Change
    BY <2>1 DEF Mark, RequestMove
  <2>. QED
    BY <1>1, <1>2, <1>3, <1>7, <2>1 DEF Users
<1>. QED
  BY <1>4, <1>5, <1>6, <1>7

LEMMA LocChanges ==
    ASSUME [Next]_vars
    PROVE  \/ UNCHANGED loc
           \/ Finish \/ Open \/ Locate \/ PushMissing \/ Applied \/ Observe \/ Retire
BY DEF Next, Users, Mark, RequestMove, Other, OtherFlag, OtherCopy, OtherMove, OtherExpunge,
       Recreate, WorkerStep, StartPass, MoveStep, TakeUnknown, TakeStale, Claim, Command, Record,
       ReconcileUncertain, ReconcileFound, MovesDone, NextFolder, PassDone, Store, Owe, ReadStateStep,
       ListPending, Push, PushNothing, Ack, Scan, Adopt, Close, MoveFault, PrepareFails,
       CommandFails, ReconcileFails, PushFails, FolderFails, Crash, vars

LEMMA MoveChanges ==
    ASSUME [Next]_vars
    PROVE  \/ UNCHANGED move
           \/ \E i \in MoveIds, p \in DOMAIN loc, f \in Folders : RequestMove(i, p, f)
           \/ \E i \in queue : TakeStale(i) \/ Claim(i) \/ PrepareFails(i)
           \/ Record \/ ReconcileUncertain \/ Finish \/ CommandFails \/ ReconcileFails
BY DEF Next, Users, Mark, Other, OtherFlag, OtherCopy, OtherMove, OtherExpunge,
       Recreate, WorkerStep, StartPass, MoveStep, TakeUnknown, Command,
       ReconcileFound, MovesDone, NextFolder, PassDone, Open, Store, Locate, Owe, ReadStateStep,
       ListPending, PushMissing, Push, PushNothing, Applied, Ack, Scan, Adopt, Observe, Retire,
       Close, MoveFault, PushFails, FolderFails, Crash, vars

LEMMA MessageChanges ==
    ASSUME [Next]_vars
    PROVE  \/ UNCHANGED messageVars
           \/ \E f \in Fields, v \in BOOLEAN : Mark(f, v)
           \/ Finish \/ Store \/ Owe \/ Ack \/ Adopt
BY DEF Next, Users, RequestMove, Other, OtherFlag, OtherCopy, OtherMove, OtherExpunge,
       Recreate, WorkerStep, StartPass, MoveStep, TakeUnknown, TakeStale, Claim, Command, Record,
       ReconcileUncertain, ReconcileFound, MovesDone, NextFolder, PassDone, Open, Locate,
       ReadStateStep, ListPending, PushMissing, Push, PushNothing, Applied, Scan, Observe, Retire,
       Close, MoveFault, PrepareFails, CommandFails, ReconcileFails, PushFails, FolderFails, Crash,
       vars

LEMMA GotChanges ==
    ASSUME [Next]_vars
    PROVE  \/ UNCHANGED got \/ got' = Empty \/ got' = Without(got, {At})
           \/ Command \/ ReconcileFound \/ Open \/ ListPending \/ Scan
BY DEF Next, Users, Mark, RequestMove, Other, OtherFlag, OtherCopy, OtherMove, OtherExpunge,
       Recreate, WorkerStep, StartPass, MoveStep, TakeUnknown, TakeStale, Claim, Record,
       ReconcileUncertain, Finish, Leave, MovesDone, NextFolder, PassDone, Store, Locate, Owe,
       ReadStateStep, PushMissing, Push, PushNothing, Applied, Ack, NextRow, Adopt, Observe, Retire,
       Close, MoveFault, PrepareFails, CommandFails, ReconcileFails, PushFails, FolderFails, Crash,
       Forget, vars, passVars

---------------------------------------------------------------------------
(* Every step keeps the types. *)

\* A copy that arrives gets the next UID.
LEMMA ArriveType ==
    ASSUME TypeOK, NEW p \in DOMAIN copy, NEW f \in Folders, NEW S, Arrive(f, copy[p], S)
    PROVE  /\ ServerType' /\ NewPlace(f) \in Places
           /\ DOMAIN copy' = (DOMAIN copy \ S) \union {NewPlace(f)}
           /\ copy'[NewPlace(f)] = copy[p]
           /\ \A q \in (DOMAIN copy \ S) \ {NewPlace(f)} : copy'[q] = copy[q]
           /\ nextUid' = [nextUid EXCEPT ![f] = @ + 1] /\ UNCHANGED validity
<1>1. NewPlace(f) \in Places
  BY MailboxAssumption DEF NewPlace, Places, Arrive, TypeOK
<1>2. copy[p] \in Flags /\ DOMAIN copy \subseteq Places /\ copy \in [DOMAIN copy -> Flags]
  BY DEF TypeOK
<1> DEFINE old == Without(copy, S)
<1>3. /\ DOMAIN old = DOMAIN copy \ S /\ DOMAIN old \subseteq Places
      /\ old \in [DOMAIN old -> Flags] /\ \A q \in DOMAIN copy \ S : old[q] = copy[q]
  BY <1>2 DEF Without
<1>4. copy' = With(old, NewPlace(f), copy[p])
  BY DEF Arrive
<1>5. /\ DOMAIN copy' = DOMAIN old \union {NewPlace(f)} /\ DOMAIN copy' \subseteq Places
      /\ copy' \in [DOMAIN copy' -> Flags] /\ copy'[NewPlace(f)] = copy[p]
      /\ \A q \in DOMAIN old \ {NewPlace(f)} : copy'[q] = old[q]
  <2> HIDE DEF old
  <2>. QED
    BY <1>1, <1>2, <1>3, <1>4 DEF With
<1>6. /\ nextUid' = [nextUid EXCEPT ![f] = @ + 1] /\ UNCHANGED validity
      /\ nextUid' \in [Folders -> 1..MaxUids + 1]
  BY MailboxAssumption DEF Arrive, TypeOK
<1>7. ServerType'
  BY <1>5, <1>6 DEF ServerType, TypeOK
<1>. QED
  BY <1>1, <1>3, <1>5, <1>6, <1>7

\* A folder that is recreated keeps its mail, in the next namespace.
LEMMA RecreateType ==
    ASSUME TypeOK, Placed, NEW f \in Folders, Recreate(f)
    PROVE  /\ ServerType'
           /\ validity' = [validity EXCEPT ![f] = @ + 1]
           /\ \A g \in Folders \ {f} : nextUid'[g] = nextUid[g]
           /\ \A q \in DOMAIN copy' :
                 \/ q \in DOMAIN copy /\ q.folder # f /\ copy'[q] = copy[q]
                 \/ /\ q.folder = f /\ q.validity = validity'[f] /\ q.uid < nextUid'[f]
                    /\ \E p \in CopiesIn(f) : copy'[q] = copy[p]
<1> DEFINE new(p) == [p EXCEPT !.validity = @ + 1,
                               !.uid = Cardinality({q \in CopiesIn(f) : q.uid <= p.uid})]
           stay == DOMAIN copy \ CopiesIn(f)
<1>1. /\ validity' = [validity EXCEPT ![f] = @ + 1]
      /\ nextUid' = [nextUid EXCEPT ![f] = Cardinality(CopiesIn(f)) + 1]
      /\ validity[f] < MaxRecreations
      /\ copy' = [q \in stay \union {new(p) : p \in CopiesIn(f)} |->
                     IF q \in stay THEN copy[q]
                     ELSE copy[CHOOSE p \in CopiesIn(f) : new(p) = q]]
  BY DEF Recreate
<1>2. /\ CopiesIn(f) \subseteq DOMAIN copy /\ DOMAIN copy \subseteq Places
      /\ \A p \in CopiesIn(f) : p.folder = f /\ p.validity = validity[f]
      /\ validity[f] \in 0..MaxRecreations
  BY DEF CopiesIn, TypeOK, Placed
<1>3. Cardinality(CopiesIn(f)) \in 0..MaxUids /\ IsFiniteSet(CopiesIn(f))
  BY CopiesCounted
<1>. validity[f] + 1 \in 0..MaxRecreations
  <2>1. validity[f] < MaxRecreations
    BY DEF Recreate
  <2>2. validity[f] \in 0..MaxRecreations /\ MaxRecreations \in Nat
    BY MailboxAssumption DEF TypeOK
  <2>. QED
    BY <2>1, <2>2
<1>4. ASSUME NEW p \in CopiesIn(f)
      PROVE  /\ new(p) \in Places /\ new(p).folder = f /\ new(p).validity = validity'[f]
             /\ new(p).uid < nextUid'[f]
  <2> DEFINE upTo == {q \in CopiesIn(f) : q.uid <= p.uid}
  <2>1. p \in upTo /\ upTo \subseteq CopiesIn(f)
    BY <1>2 DEF Places
  <2>2. Cardinality(upTo) \in 1..MaxUids
    BY <2>1, CopiesCounted
  <2>3. Cardinality(upTo) <= Cardinality(CopiesIn(f))
    BY <1>3, <2>1, FS_Subset
  <2> HIDE DEF upTo
  <2>4. p \in Places /\ p.folder = f /\ p.validity = validity[f]
    BY <1>2
  <2>5. [p EXCEPT !.validity = @ + 1, !.uid = Cardinality(upTo)] \in Places
    <3>1. p.validity + 1 \in 0..MaxRecreations
      BY <2>4
    <3>. QED
      BY <2>2, <2>4, <3>1 DEF Places
  <2>6. validity'[f] = validity[f] + 1 /\ nextUid'[f] = Cardinality(CopiesIn(f)) + 1
    BY <1>1 DEF TypeOK
  <2>. QED
    BY <1>3, <2>2, <2>3, <2>4, <2>5, <2>6 DEF upTo, Places
<1>5. ASSUME NEW q \in DOMAIN copy'
      PROVE  \/ q \in DOMAIN copy /\ q.folder # f /\ copy'[q] = copy[q]
             \/ /\ q.folder = f /\ q.validity = validity'[f] /\ q.uid < nextUid'[f]
                /\ \E p \in CopiesIn(f) : copy'[q] = copy[p]
  <2> HIDE DEF new
  <2>1. CASE q \in stay
    BY <1>1, <2>1 DEF CopiesIn
  <2>2. CASE q \notin stay
    <3>1. PICK p \in CopiesIn(f) : new(p) = q
      BY <1>1, <2>2
    <3>2. (CHOOSE x \in CopiesIn(f) : new(x) = q) \in CopiesIn(f)
      BY <3>1
    <3>. QED
      BY <1>1, <1>4, <2>2, <3>1, <3>2
  <2>. QED
    BY <2>1, <2>2
<1>6. DOMAIN copy' \subseteq Places
  <2> HIDE DEF new
  <2>. QED
    BY <1>1, <1>2, <1>4
<1>7. copy' \in [DOMAIN copy' -> Flags]
  <2>1. \A q \in DOMAIN copy' : copy'[q] \in Flags
    BY <1>2, <1>5 DEF TypeOK
  <2>2. copy' = [q \in DOMAIN copy' |-> copy'[q]]
    <3> HIDE DEF new
    <3>. QED
      BY <1>1
  <2>. QED
    BY <2>1, <2>2
<1>8. nextUid' \in [Folders -> 1..MaxUids + 1] /\ validity' \in [Folders -> 0..MaxRecreations]
  <2>1. Cardinality(CopiesIn(f)) + 1 \in 1..MaxUids + 1
    BY <1>3, MailboxAssumption
  <2>. QED
    BY <1>1, <2>1 DEF TypeOK
<1>9. \A g \in Folders \ {f} : nextUid'[g] = nextUid[g]
  BY <1>1 DEF TypeOK
<1>. QED
  BY <1>1, <1>5, <1>6, <1>7, <1>8, <1>9 DEF ServerType

LEMMA ServerTypeKept ==
    ASSUME TypeOK, Placed, Moving, [Next]_vars
    PROVE  ServerType'
<1>1. ServerType
  BY TypeParts
<1>2. ASSUME NEW p \in DOMAIN copy, copy' = Without(copy, {p}), UNCHANGED <<nextUid, validity>>
      PROVE  ServerType'
  BY <1>1, <1>2 DEF ServerType, Without
<1>3. ASSUME NEW p \in DOMAIN copy, NEW f \in Fields, NEW v \in BOOLEAN,
             copy' = [copy EXCEPT ![p][f] = v], UNCHANGED <<nextUid, validity>>
      PROVE  ServerType'
  <2>1. [copy[p] EXCEPT ![f] = v] \in Flags
    BY <1>1 DEF ServerType, Flags
  <2>. QED
    BY <1>1, <1>3, <2>1 DEF ServerType
<1>4. CASE UNCHANGED serverVars
  BY <1>1, <1>4 DEF ServerType, serverVars
<1>. QED
  BY <1>2, <1>3, <1>4, ArriveType, RecreateType, ServerChanges

\* The place the pass stands at.
LEMMA AtIn ==
    ASSUME TypeOK, DOMAIN got # {}
    PROVE  At \in DOMAIN got /\ At \in Places /\ got[At] \in Flags
BY FirstOfIn DEF At, TypeOK

LEMMA MessageTypeKept ==
    ASSUME TypeOK, Known, [Next]_vars
    PROVE  MessageType'
<1>1. MessageType /\ GotType
  BY TypeParts
<1>2. ASSUME NEW f \in Fields, NEW v \in BOOLEAN, Mark(f, v)
      PROVE  MessageType'
  BY <1>1, <1>2 DEF Mark, MessageType, Flags
<1>3. ASSUME Finish \/ Owe \/ Ack
      PROVE  MessageType'
  <2>1. pending' \in Flags /\ UNCHANGED <<known, value, revision>>
    BY <1>1, <1>3 DEF Finish, Owe, Ack, MessageType, Flags, Acknowledged
  <2>. QED
    BY <1>1, <2>1 DEF MessageType
<1>4. ASSUME Store
      PROVE  MessageType'
  BY <1>1, <1>4, AtIn DEF Store, MessageType, Known
<1>5. ASSUME Adopt
      PROVE  MessageType'
  <2>1. got[At] \in Flags
    BY <1>5, AtIn DEF Adopt, Known
  <2>2. value' \in Flags
    BY <1>1, <1>5, <2>1 DEF Adopt, MessageType, Flags
  <2>3. pending' \in Flags
    BY <1>1, <1>5 DEF Adopt, MessageType, Flags
  <2>4. revision' \in [Fields -> Nat]
    BY <1>1, <1>5 DEF Adopt, MessageType
  <2>5. known' \in BOOLEAN
    BY <1>1, <1>5 DEF Adopt, MessageType
  <2>. QED
    BY <2>2, <2>3, <2>4, <2>5 DEF MessageType
<1>6. CASE UNCHANGED messageVars
  BY <1>1, <1>6 DEF MessageType, messageVars
<1>. QED
  BY <1>2, <1>3, <1>4, <1>5, <1>6, MessageChanges

\* A location row that is created, or found again.
LEMMA RowType ==
    ASSUME LocType, MessageType, snap \in Snapshots, NEW p \in Places, NEW flags \in Flags,
           NEW same, NEW row,
           row = IF p \in DOMAIN loc THEN [loc[p] EXCEPT !.present = TRUE]
                 ELSE [present |-> TRUE, observed |-> flags,
                       applied |-> [f \in Fields |-> IF f \in same THEN snap.revision[f] ELSE 0]]
    PROVE  row \in Locations
<1>1. [f \in Fields |-> IF f \in same THEN snap.revision[f] ELSE 0] \in [Fields -> Nat]
  BY DEF Snapshots
<1>. QED
  BY <1>1 DEF LocType, Locations

LEMMA LocTypeKept ==
    ASSUME TypeOK, Known, Moving, [Next]_vars
    PROVE  LocType'
<1>0. LocType /\ GotType /\ MessageType /\ snap \in Snapshots
  BY TypeParts DEF PassType
<1>1. ASSUME Open
      PROVE  LocType'
  BY <1>0, <1>1 DEF Open, LocType, Locations
<1>2. ASSUME PushMissing
      PROVE  LocType'
  BY <1>0, <1>2 DEF PushMissing, LocType, Locations
<1>3. ASSUME Retire
      PROVE  LocType'
  BY <1>0, <1>3 DEF Retire, LocType, Locations
<1>4. ASSUME Applied
      PROVE  LocType'
  <2>1. At \in DOMAIN loc /\ loc[At] \in Locations
    BY <1>0, <1>4, AtIn DEF Applied, Known, LocType
  <2> DEFINE row == [loc[At] EXCEPT !.applied[FirstField] = snap.revision[FirstField],
                                    !.observed[FirstField] = snap.value[FirstField]]
  <2>2. row \in Locations
    BY <1>0, <2>1 DEF Locations, Snapshots, Flags
  <2>3. loc' = [loc EXCEPT ![At] = row]
    BY <1>4, <2>1 DEF Applied
  <2>. QED
    BY <1>0, <2>1, <2>2, <2>3 DEF LocType
<1>5. ASSUME Observe
      PROVE  LocType'
  <2>1. At \in DOMAIN loc /\ loc[At] \in Locations /\ got[At] \in Flags
    BY <1>0, <1>5, AtIn DEF Observe, Known, LocType
  <2> DEFINE applied == [f \in Fields |-> IF f \in taken THEN snap.revision[f] + 1
                                          ELSE loc[At].applied[f]]
             row == [loc[At] EXCEPT !.observed = got[At], !.applied = applied]
  <2>2. applied \in [Fields -> Nat]
    BY <1>0, <2>1 DEF Locations, Snapshots
  <2>3. row \in Locations
    BY <2>1, <2>2 DEF Locations
  <2>4. loc' = [loc EXCEPT ![At] = row]
    BY <1>5, <2>1 DEF Observe
  <2>. QED
    BY <1>0, <2>1, <2>3, <2>4 DEF LocType
<1>6. ASSUME Locate
      PROVE  LocType'
  <2>1. At \in Places /\ got[At] \in Flags
    BY <1>6, AtIn DEF Locate, Known
  <2>2. PICK row \in Locations : loc' = With(loc, At, row)
    BY <1>0, <1>6, <2>1, RowType DEF Locate
  <2>. QED
    BY <1>0, <2>1, <2>2 DEF With, LocType
<1>7. ASSUME Finish
      PROVE  LocType'
  <2> DEFINE p == FirstOf(DOMAIN got)
             left == [q \in DOMAIN loc |-> IF q = move[mv].source
                                           THEN [loc[q] EXCEPT !.present = FALSE] ELSE loc[q]]
  <2>1. p \in Places /\ got[p] \in Flags
    BY <1>7, AtIn DEF Finish, Moving, At
  <2>2. PICK row \in Locations : loc' = With(left, p, row)
    BY <1>0, <1>7, <2>1, RowType DEF Finish
  <2>3. DOMAIN left = DOMAIN loc /\ \A q \in DOMAIN loc : left[q] \in Locations
    BY <1>0 DEF LocType, Locations
  <2>. QED
    BY <1>0, <2>1, <2>2, <2>3 DEF With, LocType
<1>. QED
  BY <1>0, <1>1, <1>2, <1>3, <1>4, <1>5, <1>6, <1>7, LocChanges DEF LocType

LEMMA MoveTypeKept ==
    ASSUME TypeOK, Moving, [Next]_vars
    PROVE  MoveType'
<1>0. MoveType /\ LocType /\ GotType /\ ServerType /\ queue \subseteq DOMAIN move
  BY TypeParts DEF Moving
<1>1. ASSUME NEW i, NEW s \in MoveStatus, SetStatus(i, s) \/ Conclude(i, s)
      PROVE  MoveType'
  BY <1>0, <1>1 DEF SetStatus, Conclude, MoveType, MoveRows
<1>2. ASSUME NEW i \in MoveIds, NEW p \in DOMAIN loc, NEW f \in Folders, RequestMove(i, p, f)
      PROVE  MoveType'
  <2>1. [status |-> "PENDING", source |-> p, target |-> f, validity |-> 0, uid |-> 0] \in MoveRows
    BY <1>0, MailboxAssumption DEF MoveRows, MoveStatus, LocType
  <2>. QED
    BY <1>0, <1>2, <2>1 DEF RequestMove, With, MoveType
<1>3. ASSUME NEW i \in queue, Claim(i)
      PROVE  MoveType'
  BY <1>0, <1>3 DEF Claim, MoveType, MoveRows, MoveStatus, ServerType
<1>4. ASSUME NEW i \in queue, TakeStale(i) \/ PrepareFails(i)
      PROVE  MoveType'
  BY <1>1, <1>4 DEF TakeStale, PrepareFails, MoveStatus
<1>5. ASSUME ReconcileUncertain \/ CommandFails \/ ReconcileFails
      PROVE  MoveType'
  BY <1>1, <1>5 DEF ReconcileUncertain, CommandFails, ReconcileFails, MoveStatus
<1>6. ASSUME Record
      PROVE  MoveType'
  <2>1. got # Empty => FirstOf(DOMAIN got) \in Places
    BY <1>0, EmptyFacts, FirstOfIn DEF GotType
  <2>2. mv \in DOMAIN move /\ move[mv] \in MoveRows
    BY <1>0, <1>6 DEF Record, Moving, MoveType
  <2>3. ASSUME NEW p \in Places
        PROVE  [move[mv] EXCEPT !.uid = p.uid, !.validity = p.validity] \in MoveRows
    <3>1. p.uid \in 0..MaxUids /\ p.validity \in 0..MaxRecreations
      BY MailboxAssumption DEF Places
    <3>. QED
      BY <2>2, <3>1 DEF MoveRows
  <2>4. CASE got # Empty
    <3> DEFINE p == FirstOf(DOMAIN got)
               row == [move[mv] EXCEPT !.uid = p.uid, !.validity = p.validity]
    <3>1. row \in MoveRows
      BY <2>1, <2>3, <2>4
    <3>2. move' = [move EXCEPT ![mv] = row]
      BY <1>6, <2>4, <2>2 DEF Record
    <3>. QED
      BY <1>0, <3>1, <3>2 DEF MoveType
  <2>. QED
    BY <1>0, <1>6, <2>4 DEF Record, MoveType
<1>7. ASSUME Finish
      PROVE  MoveType'
  <2>1. FirstOf(DOMAIN got) \in Places
    BY <1>0, <1>7, FirstOfIn DEF Finish, Moving, GotType
  <2> DEFINE row == [move[mv] EXCEPT !.status = "DONE", !.uid = FirstOf(DOMAIN got).uid]
  <2>2. mv \in DOMAIN move /\ move[mv] \in MoveRows
    BY <1>0, <1>7 DEF Finish, Moving, MoveType
  <2>3. FirstOf(DOMAIN got).uid \in 0..MaxUids
    BY <2>1, MailboxAssumption DEF Places
  <2>4. row \in MoveRows
    BY <2>2, <2>3 DEF MoveRows, MoveStatus
  <2>5. move' = [move EXCEPT ![mv] = row]
    BY <1>7, <2>2 DEF Finish
  <2>. QED
    BY <1>0, <2>4, <2>5 DEF MoveType
<1>. QED
  BY <1>0, <1>2, <1>3, <1>4, <1>5, <1>6, <1>7, MoveChanges DEF MoveType

\* The copy a move went to.
LEMMA DestinationIn ==
    ASSUME TypeOK, NEW i
    PROVE  Destination(i) \subseteq CopiesIn(move[i].target)
<1>1. CopiesIn(move[i].target) \subseteq Places
  BY DEF CopiesIn, TypeOK
<1>. QED
  BY <1>1, FirstOfIn DEF Destination

LEMMA GotTypeKept ==
    ASSUME TypeOK, Placed, Moving, [Next]_vars
    PROVE  GotType'
<1>0. GotType /\ ServerType /\ ServerType'
  BY TypeParts, ServerTypeKept
<1>1. CASE got' = Empty
  BY <1>1 DEF Empty, GotType
<1>2. CASE got' = Without(got, {At})
  BY <1>0, <1>2 DEF Without, GotType
<1>3. CASE Command
  BY <1>0, <1>3 DEF Command, ServerType, GotType
<1>4. CASE ReconcileFound
  <2>1. Destination(mv) \subseteq DOMAIN copy
    BY DestinationIn DEF CopiesIn
  <2>. QED
    BY <1>0, <1>4, <2>1 DEF ReconcileFound, ServerType, GotType
<1>5. CASE Open
  BY <1>0, <1>5 DEF Open, CopiesIn, ServerType, GotType
<1>6. CASE ListPending
  <2>1. DOMAIN got' \subseteq DOMAIN loc /\ got' = [p \in DOMAIN got' |-> Off]
    BY <1>6 DEF ListPending, PresentIn
  <2>2. Off \in Flags /\ DOMAIN loc \subseteq Places
    BY DEF TypeOK, Off, Flags
  <2>. QED
    BY <2>1, <2>2 DEF GotType
<1>7. CASE Scan
  BY <1>0, <1>7 DEF Scan, ServerType, GotType
<1>. QED
  BY <1>0, <1>1, <1>2, <1>3, <1>4, <1>5, <1>6, <1>7, GotChanges DEF GotType

LEMMA NoSnapshotType == NoSnapshot \in Snapshots
BY DEF NoSnapshot, Snapshots, Off, Flags

\* What a pass leaves behind when it goes on, gives up or dies.
LEMMA ResetType ==
    ASSUME PassType, NEW i, Leave(i) \/ NextRow,
           UNCHANGED cursor, UNCHANGED retry \/ retry' \in BOOLEAN
    PROVE  PassType'
BY NoSnapshotType DEF Leave, NextRow, PassType, Steps, FolderSteps, folderVars

LEMMA PassTypeMoves ==
    ASSUME TypeOK, Moving, MoveStep \/ MoveFault
    PROVE  PassType'
<1>0. PassType /\ MessageType /\ queue \subseteq MoveIds
  BY TypeParts DEF PassType
<1>1. ASSUME NEW i \in queue, TakeUnknown(i) \/ Claim(i)
      PROVE  PassType'
  BY <1>0, <1>1 DEF TakeUnknown, Claim, PassType, Steps, folderVars
<1>2. ASSUME NEW i \in queue, TakeStale(i) \/ PrepareFails(i)
      PROVE  PassType'
  BY <1>0, <1>2, ResetType DEF TakeStale, PrepareFails, Leave
<1>3. ASSUME ReconcileUncertain \/ Finish \/ CommandFails \/ ReconcileFails
      PROVE  PassType'
  BY <1>0, <1>3, ResetType DEF ReconcileUncertain, Finish, CommandFails, ReconcileFails, Leave
<1>4. ASSUME Command \/ Record
      PROVE  PassType'
  BY <1>0, <1>4 DEF Command, Record, PassType, Steps, folderVars
<1>5. ASSUME ReconcileFound
      PROVE  PassType'
  <2>1. Snapshot \in Snapshots
    BY <1>0 DEF Snapshot, Snapshots, MessageType
  <2>. QED
    BY <1>0, <1>5, <2>1 DEF ReconcileFound, PassType, Steps, folderVars
<1>. QED
  BY <1>1, <1>2, <1>3, <1>4, <1>5 DEF MoveStep, MoveFault

LEMMA ForgetType ==
    ASSUME Forget
    PROVE  /\ gone' \subseteq Places /\ snap' \in Snapshots /\ round' \in 1..2 * Rounds
           /\ taken' \subseteq Fields /\ retry' \in BOOLEAN /\ upto' \in 0..MaxUids
<1>1. 1 \in 1..2 * Rounds /\ 0 \in 0..MaxUids
  BY MailboxAssumption
<1>. QED
  BY <1>1, NoSnapshotType DEF Forget

LEMMA PassTypeFolders ==
    ASSUME TypeOK, Known,
           \/ Open \/ Store \/ Locate \/ Owe \/ ReadStateStep \/ Close
           \/ PushFails \/ FolderFails
    PROVE  PassType'
<1>0. PassType /\ MessageType /\ ServerType /\ LocType /\ GotType
  BY TypeParts
<1>. Snapshot \in Snapshots
  BY <1>0 DEF Snapshot, Snapshots, MessageType
<1>1. ASSUME Open
      PROVE  PassType'
  <2>1. upto' \in 0..MaxUids
    <3>1. cursor[folder].seen \in 0..MaxUids
      BY <1>0 DEF PassType
    <3>2. nextUid[folder] - 1 \in 0..MaxUids /\ 0 \in 0..MaxUids
      BY <1>0, MailboxAssumption DEF PassType, ServerType
    <3>. QED
      BY <1>1, <3>1, <3>2 DEF Open
  <2>. QED
    BY <1>0, <1>1, <2>1 DEF Open, PassType, Steps, FolderSteps
<1>2. ASSUME Store
      PROVE  PassType'
  <2>1. value' \in Flags
    BY <1>0, <1>2, AtIn DEF Store, Known, MessageType
  <2>2. [Snapshot EXCEPT !.value = value'] \in Snapshots
    BY <2>1 DEF Snapshots
  <2>. QED
    BY <1>0, <1>2, <2>2 DEF Store, PassType, Steps, FolderSteps, folderVars
<1>3. ASSUME Locate
      PROVE  PassType'
  BY <1>0, <1>3 DEF Locate, PassType, Steps, FolderSteps, folderVars
<1>4. ASSUME Owe
      PROVE  PassType'
  BY <1>0, <1>4, NoSnapshotType DEF Owe, PassType, Steps, FolderSteps, folderVars
<1>5. ASSUME ListPending
      PROVE  PassType'
  BY <1>0, <1>5 DEF ListPending, PassType, Steps, FolderSteps, folderVars
<1>6. ASSUME PushMissing \/ Ack \/ PushFails
      PROVE  PassType'
  <2>1. retry' \in BOOLEAN
    BY <1>0, <1>6 DEF PushMissing, Ack, PushFails, PassType
  <2>. QED
    BY <1>0, <1>6, <2>1, ResetType DEF PushMissing, Ack, PushFails
<1>7. ASSUME Push \/ PushNothing \/ Applied
      PROVE  PassType'
  BY <1>0, <1>7 DEF Push, PushNothing, Applied, PassType, Steps, FolderSteps, passVars, folderVars
<1>8. ASSUME Scan
      PROVE  PassType'
  <2>1. gone' \subseteq Places
    BY <1>0, <1>8 DEF Scan, PresentIn, LocType
  <2>. QED
    BY <1>0, <1>8, <2>1 DEF Scan, PassType, Steps, FolderSteps, folderVars
<1>9. ASSUME Adopt
      PROVE  PassType'
  <2>1. taken' \subseteq Fields /\ retry' \in BOOLEAN
    BY <1>0, <1>9 DEF Adopt, Adopted, Changed, PassType
  <2>. QED
    BY <1>0, <1>9, <2>1 DEF Adopt, PassType, Steps, FolderSteps, folderVars
<1>10. ASSUME Observe
       PROVE  PassType'
  BY <1>0, <1>10 DEF Observe, PassType, Steps, FolderSteps, folderVars
<1>11. ASSUME Retire
       PROVE  PassType'
  <2>1. round' \in 1..2 * Rounds
    BY <1>0, <1>11, MailboxAssumption DEF Retire, PassType
  <2>2. /\ pc' \in {"list", "close"} /\ gone' = {} /\ snap' = NoSnapshot /\ retry' = FALSE
        /\ UNCHANGED <<cursor, queue, mv, folderVars, taken>>
    BY <1>11 DEF Retire
  <2>. QED
    BY <1>0, <2>1, <2>2, NoSnapshotType DEF PassType, Steps, FolderSteps, folderVars
<1>12. ASSUME Close
       PROVE  PassType'
  <2>1. [validity |-> validity[folder], seen |-> upto]
           \in [validity : 0..MaxRecreations, seen : 0..MaxUids]
    BY <1>0 DEF PassType, ServerType
  <2>2. cursor' \in [Folders -> [validity : 0..MaxRecreations, seen : 0..MaxUids]]
    BY <1>0, <1>12, <2>1 DEF Close, PassType
  <2>. QED
    BY <1>0, <1>12, <2>2, MailboxAssumption DEF Close, PassType, Steps, FolderSteps
<1>13. ASSUME FolderFails
       PROVE  PassType'
  BY <1>0, <1>13, ForgetType DEF FolderFails, PassType, Steps, FolderSteps
<1>. QED
  BY <1>1, <1>2, <1>3, <1>4, <1>5, <1>6, <1>7, <1>8, <1>9, <1>10, <1>11, <1>12, <1>13
  DEF ReadStateStep

LEMMA PassTypeKept ==
    ASSUME TypeOK, Moving, Known, [Next]_vars
    PROVE  PassType'
<1>0. PassType /\ MoveType
  BY TypeParts
<1>1. CASE StartPass
  BY <1>0, <1>1, MailboxAssumption DEF StartPass, PassType, MoveType, Steps, FolderSteps
<1>2. CASE MovesDone \/ PassDone
  BY <1>0, <1>2, MailboxAssumption
  DEF MovesDone, PassDone, PassType, Steps, FolderSteps, passVars, folderVars
<1>3. CASE NextFolder
  <2>1. folder' \in rest
    BY <1>3 DEF NextFolder
  <2>. QED
    BY <1>0, <1>3, <2>1 DEF NextFolder, PassType, Steps, FolderSteps
<1>4. CASE Crash
  BY <1>0, <1>4, ForgetType, MailboxAssumption DEF Crash, PassType, Steps
<1>5. CASE UNCHANGED <<cursor, pc, passVars>>
  BY <1>0, <1>5 DEF PassType, passVars, folderVars
<1>6. CASE Users
  <2>1. UNCHANGED <<cursor, pc, passVars>>
    BY <1>6 DEF Users, Mark, RequestMove, OtherFlag, OtherCopy, OtherMove, OtherExpunge, Recreate, Other
  <2>. QED
    BY <1>5, <2>1
<1>. QED
  BY <1>1, <1>2, <1>3, <1>4, <1>5, <1>6, PassTypeMoves, PassTypeFolders DEF Next, WorkerStep, vars

LEMMA CountTypeKept ==
    ASSUME TypeOK, [Next]_vars
    PROVE  CountType'
<1>0. CountType
  BY TypeParts
<1>1. UNCHANGED sent \/ sent' = [sent EXCEPT ![mv] = @ + 1]
  BY DEF Next, Users, Mark, RequestMove, Other, OtherFlag, OtherCopy, OtherMove, OtherExpunge,
         Recreate, WorkerStep, StartPass, MoveStep, TakeUnknown, TakeStale, Claim, Command, Record,
         ReconcileUncertain, ReconcileFound, Finish, MovesDone, NextFolder, PassDone, Open, Store,
         Locate, Owe, ReadStateStep, ListPending, PushMissing, Push, PushNothing, Applied, Ack, Scan,
         Adopt, Observe, Retire, Close, MoveFault, PrepareFails, CommandFails, ReconcileFails,
         PushFails, FolderFails, Crash, vars
<1>2. \/ UNCHANGED countVars
      \/ Fault("call") \/ Fault("refused") \/ Fault("lost") \/ Fault("crash")
      \/ \E kind \in {"flag", "copy", "move", "expunge", "recreate"} : Other(kind)
      \/ marks' = marks + 1 /\ UNCHANGED <<meddled, others, faults>>
  BY DEF Next, Users, Mark, RequestMove, OtherFlag, OtherCopy, OtherMove, OtherExpunge,
         Recreate, WorkerStep, StartPass, MoveStep, TakeUnknown, TakeStale, Claim, Command, Record,
         ReconcileUncertain, ReconcileFound, Finish, MovesDone, NextFolder, PassDone, Open, Store,
         Locate, Owe, ReadStateStep, ListPending, PushMissing, Push, PushNothing, Applied, Ack, Scan,
         Adopt, Observe, Retire, Close, MoveFault, PrepareFails, CommandFails, ReconcileFails,
         PushFails, FolderFails, Crash, vars
<1>3. sent' \in [MoveIds -> Nat]
  BY <1>0, <1>1 DEF CountType
<1>4. meddled' \in BOOLEAN
  BY <1>0, <1>2 DEF CountType, countVars, Fault, Other
<1>5. marks' \in Nat /\ others' \in Nat /\ faults' \in Nat
  BY <1>0, <1>2 DEF CountType, countVars, Fault, Other
<1>. QED
  BY <1>3, <1>4, <1>5 DEF CountType

LEMMA TypeKept ==
    ASSUME TypeOK, Placed, Moving, Known, [Next]_vars
    PROVE  TypeOK'
<1>1. /\ ServerType' /\ MessageType' /\ LocType' /\ MoveType' /\ GotType' /\ PassType'
      /\ CountType'
  BY ServerTypeKept, MessageTypeKept, LocTypeKept, MoveTypeKept, GotTypeKept, PassTypeKept,
     CountTypeKept
<1>. QED
  BY <1>1 DEF TypeOK, ServerType, MessageType, LocType, MoveType, GotType, PassType, CountType

---------------------------------------------------------------------------
(* Places are given once. *)

LEMMA PlacesOnce ==
    ASSUME TypeOK, Placed, Moving, [Next]_vars
    PROVE  /\ \A p \in DOMAIN copy' :
                 p.validity = validity'[p.folder] /\ p.uid < nextUid'[p.folder]
           /\ \A p \in Places : Issued(p) => Issued(p)'
           /\ \A p \in DOMAIN copy' \ DOMAIN copy : ~Issued(p)
<1> DEFINE Once ==
      /\ \A p \in DOMAIN copy' :
            p.validity = validity'[p.folder] /\ p.uid < nextUid'[p.folder]
      /\ \A p \in Places : Issued(p) => Issued(p)'
      /\ \A p \in DOMAIN copy' \ DOMAIN copy : ~Issued(p)
<1>0. /\ DOMAIN copy \subseteq Places /\ validity \in [Folders -> Nat] /\ nextUid \in [Folders -> Nat]
      /\ \A p \in DOMAIN copy : p.validity = validity[p.folder] /\ p.uid < nextUid[p.folder]
  BY MailboxAssumption DEF TypeOK, Placed
<1>1. ASSUME NEW p \in DOMAIN copy, NEW f \in Folders, NEW S, Arrive(f, copy[p], S)
      PROVE  Once
  <2>1. /\ DOMAIN copy' = (DOMAIN copy \ S) \union {NewPlace(f)} /\ NewPlace(f) \in Places
        /\ nextUid' = [nextUid EXCEPT ![f] = @ + 1] /\ UNCHANGED validity
    BY <1>1, ArriveType
  <2>2. /\ NewPlace(f).folder = f /\ NewPlace(f).validity = validity[f]
        /\ NewPlace(f).uid = nextUid[f]
    BY DEF NewPlace
  <2>3. \A g \in Folders : nextUid'[g] = IF g = f THEN nextUid[g] + 1 ELSE nextUid[g]
    BY <1>0, <2>1
  <2>4. \A q \in Places : q.folder \in Folders /\ q.uid \in Nat /\ q.validity \in Nat
    BY MailboxAssumption DEF Places
  <2>. QED
    BY <1>0, <2>1, <2>2, <2>3, <2>4 DEF Issued
<1>2. ASSUME NEW f \in Folders, Recreate(f)
      PROVE  Once
  <2>1. /\ validity' = [validity EXCEPT ![f] = @ + 1]
        /\ \A g \in Folders \ {f} : nextUid'[g] = nextUid[g]
        /\ \A q \in DOMAIN copy' :
              \/ q \in DOMAIN copy /\ q.folder # f
              \/ q.folder = f /\ q.validity = validity'[f] /\ q.uid < nextUid'[f]
    BY <1>2, RecreateType
  <2>2. \A g \in Folders : validity'[g] = IF g = f THEN validity[g] + 1 ELSE validity[g]
    BY <1>0, <2>1
  <2>3. \A q \in Places : q.folder \in Folders /\ q.uid \in Nat /\ q.validity \in Nat
    BY MailboxAssumption DEF Places
  <2>. QED
    BY <1>0, <2>1, <2>2, <2>3 DEF Issued
<1>3. ASSUME DOMAIN copy' \subseteq DOMAIN copy, UNCHANGED <<nextUid, validity>>
      PROVE  Once
  BY <1>0, <1>3 DEF Issued
<1>4. ASSUME NEW p \in DOMAIN copy, copy' = Without(copy, {p}), UNCHANGED <<nextUid, validity>>
      PROVE  Once
  BY <1>3, <1>4 DEF Without
<1>5. ASSUME NEW p \in DOMAIN copy, NEW f, NEW v,
             copy' = [copy EXCEPT ![p][f] = v], UNCHANGED <<nextUid, validity>>
      PROVE  Once
  BY <1>3, <1>5
<1>6. CASE UNCHANGED serverVars
  BY <1>3, <1>6 DEF serverVars
<1>. QED
  BY <1>1, <1>2, <1>4, <1>5, <1>6, ServerChanges

\* Rows are never deleted, and one is created only for what was fetched.
LEMMA LocDomain ==
    ASSUME TypeOK, Known, Moving, [Next]_vars
    PROVE  DOMAIN loc \subseteq DOMAIN loc' /\ DOMAIN loc' \subseteq DOMAIN loc \union DOMAIN got
<1>1. CASE Finish
  <2>1. FirstOf(DOMAIN got) \in DOMAIN got
    BY <1>1, FirstOfIn DEF Finish, Moving, TypeOK
  <2>. QED
    BY <1>1, <2>1 DEF Finish, With
<1>2. CASE Locate
  <2>1. At \in DOMAIN got
    BY <1>2, AtIn DEF Locate, Known
  <2>. QED
    BY <1>2, <2>1 DEF Locate, With
<1>3. CASE Open \/ PushMissing \/ Applied \/ Observe \/ Retire
  BY <1>3 DEF Open, PushMissing, Applied, Observe, Retire
<1>. QED
  BY <1>1, <1>2, <1>3, LocChanges

\* A move keeps its source and, once claimed, its target.
LEMMA MoveSource ==
    ASSUME TypeOK, Moving, [Next]_vars
    PROVE  /\ DOMAIN move \subseteq DOMAIN move'
           /\ \A i \in DOMAIN move : move'[i].source = move[i].source
           /\ \A i \in DOMAIN move' \ DOMAIN move :
                 move'[i].source \in DOMAIN loc /\ move'[i].status = "PENDING"
<1> DEFINE Kept ==
      /\ DOMAIN move \subseteq DOMAIN move'
      /\ \A i \in DOMAIN move : move'[i].source = move[i].source
      /\ \A i \in DOMAIN move' \ DOMAIN move :
            move'[i].source \in DOMAIN loc /\ move'[i].status = "PENDING"
<1>0. MoveType /\ queue \subseteq DOMAIN move
  BY TypeParts DEF Moving
<1>1. ASSUME NEW i, NEW s, Conclude(i, s)
      PROVE  Kept
  BY <1>0, <1>1 DEF Conclude, SetStatus, MoveType, MoveRows
<1>2. ASSUME NEW i \in MoveIds, NEW p \in DOMAIN loc, NEW f \in Folders, RequestMove(i, p, f)
      PROVE  Kept
  BY <1>0, <1>2 DEF RequestMove, With, MoveType
<1>3. ASSUME NEW i \in queue, Claim(i) \/ TakeStale(i) \/ PrepareFails(i)
      PROVE  Kept
  <2>1. CASE Claim(i)
    BY <1>0, <2>1 DEF Claim, MoveType, MoveRows
  <2>. QED
    BY <1>1, <1>3, <2>1 DEF TakeStale, PrepareFails
<1>4. ASSUME ReconcileUncertain \/ CommandFails \/ ReconcileFails
      PROVE  Kept
  BY <1>1, <1>4 DEF ReconcileUncertain, CommandFails, ReconcileFails
<1>5. ASSUME Record \/ Finish
      PROVE  Kept
  BY <1>0, <1>5 DEF Record, Finish, MoveType, MoveRows
<1>. QED
  BY <1>2, <1>3, <1>4, <1>5, MoveChanges

LEMMA PlacedKept ==
    ASSUME TypeOK, Placed, Moving, Known, [Next]_vars
    PROVE  Placed'
<1>0. /\ DOMAIN copy \subseteq Places /\ DOMAIN copy' \subseteq Places
      /\ DOMAIN loc \subseteq Places /\ DOMAIN got \subseteq Places
  BY ServerTypeKept DEF ServerType, TypeOK
<1>1. /\ \A p \in DOMAIN copy' :
            p.validity = validity'[p.folder] /\ p.uid < nextUid'[p.folder]
      /\ \A p \in Places : Issued(p) => Issued(p)'
  BY PlacesOnce
<1>2. \A p \in DOMAIN loc' : Issued(p)'
  BY <1>0, <1>1, LocDomain DEF Placed
<1>3. DOMAIN got' \subseteq DOMAIN got \union DOMAIN copy \union DOMAIN copy' \union DOMAIN loc
  <2>1. CASE got' = Empty \/ got' = Without(got, {At})
    BY <2>1 DEF Empty, Without
  <2>2. CASE Command
    BY <2>2 DEF Command
  <2>3. CASE ReconcileFound
    BY <2>3, DestinationIn DEF ReconcileFound, CopiesIn
  <2>4. CASE Open \/ ListPending \/ Scan
    BY <2>4 DEF Open, ListPending, Scan, CopiesIn, PresentIn
  <2>. QED
    BY <2>1, <2>2, <2>3, <2>4, GotChanges
<1>4. \A p \in DOMAIN copy : Issued(p)
  BY DEF Placed, Issued
<1>5. \A p \in DOMAIN copy' : Issued(p)'
  BY <1>1 DEF Issued
<1>6. \A p \in DOMAIN got' : Issued(p)'
  BY <1>0, <1>1, <1>3, <1>4, <1>5 DEF Placed
<1>7. \A i \in DOMAIN move' : move'[i].source \in DOMAIN loc'
  BY MoveSource, LocDomain DEF Placed
<1>. QED
  BY <1>1, <1>2, <1>6, <1>7 DEF Placed

---------------------------------------------------------------------------
(* Moves. *)

\* A move that leaves the pass's hands.
LEMMA Concluding ==
    ASSUME TypeOK, Placed, Moving, MoveOutcome, [Next]_vars, NEW i \in queue,
           NEW s \in {"FAILED", "UNCERTAIN"}, Conclude(i, s), Leave(i),
           \A j \in MoveIds \ {i} : sent'[j] = sent[j], sent'[i] <= 1,
           s = "FAILED" => sent'[i] = 0
    PROVE  Moving' /\ MoveOutcome'
<1>1. /\ queue' = queue \ {i} /\ pc' = "moves"
  BY DEF Leave
<1>2. move' = [move EXCEPT ![i].status = s] /\ i \in DOMAIN move /\ i \in MoveIds
  BY DEF Conclude, SetStatus, Moving, Active, TypeOK
<1>3. /\ DOMAIN move' = DOMAIN move /\ move'[i].status = s
      /\ \A j \in DOMAIN move \ {i} : move'[j] = move[j]
  BY <1>2 DEF TypeOK, MoveRows
<1>4. \A j \in DOMAIN move : move[j].source \notin DOMAIN copy => move'[j].source \notin DOMAIN copy'
  BY PlacesOnce, MoveSource DEF Placed, TypeOK
<1>5. Moving'
  BY <1>1, <1>2, <1>3 DEF Moving, TypeOK
<1>6. ASSUME NEW j \in DOMAIN move'
      PROVE  /\ sent'[j] <= 1 /\ (move'[j].status \in {"PENDING", "FAILED"} => sent'[j] = 0)
             /\ (move'[j].status = "DONE" => move'[j].source \notin DOMAIN copy')
  <2>1. CASE j = i
    BY <1>3, <2>1
  <2>2. CASE j # i
    BY <1>2, <1>3, <1>4, <2>2 DEF MoveOutcome, TypeOK
  <2>. QED
    BY <2>1, <2>2
<1>. QED
  BY <1>5, <1>6 DEF MoveOutcome

LEMMA MovesKept ==
    ASSUME TypeOK, Placed, Moving, MoveOutcome, Known, [Next]_vars
    PROVE  Moving' /\ MoveOutcome'
<1>0. /\ MoveType /\ sent \in [MoveIds -> Nat] /\ queue \subseteq DOMAIN move
      /\ \A i \in DOMAIN move :
            move[i].source \notin DOMAIN copy => move'[i].source \notin DOMAIN copy'
  BY TypeParts, PlacesOnce, MoveSource DEF CountType, Moving, Placed, TypeOK
<1>1. ASSUME UNCHANGED <<move, sent>>
      PROVE  MoveOutcome'
  BY <1>0, <1>1 DEF MoveOutcome
<1>2. ASSUME NEW i \in MoveIds, NEW p \in DOMAIN loc, NEW f \in Folders, RequestMove(i, p, f)
      PROVE  Moving' /\ MoveOutcome'
  <2>1. /\ DOMAIN move' = DOMAIN move \union {i} /\ i \notin DOMAIN move
        /\ move'[i].status = "PENDING" /\ \A j \in DOMAIN move : move'[j] = move[j]
    BY <1>2 DEF RequestMove, With
  <2>2. UNCHANGED <<queue, mv, pc, sent, got, copy>>
    BY <1>2 DEF RequestMove, passVars, serverVars
  <2>. QED
    BY <1>0, <2>1, <2>2 DEF Moving, MoveOutcome
<1>3. ASSUME NEW i \in queue, TakeUnknown(i)
      PROVE  Moving' /\ MoveOutcome'
  BY <1>0, <1>1, <1>3 DEF TakeUnknown, Moving
<1>4. ASSUME NEW i \in queue, TakeStale(i)
      PROVE  Moving' /\ MoveOutcome'
  <2>1. sent' = sent /\ sent[i] = 0
    BY <1>0, <1>4 DEF TakeStale, MoveOutcome
  <2>. QED
    BY <1>4, <2>1, Concluding DEF TakeStale
<1>5. ASSUME NEW i \in queue, PrepareFails(i)
      PROVE  Moving' /\ MoveOutcome'
  <2>1. /\ sent' = sent /\ sent[i] <= 1 /\ (move[i].status = "PENDING" => sent[i] = 0)
    BY <1>0, <1>5 DEF PrepareFails, MoveOutcome
  <2>. QED
    BY <1>5, <2>1, Concluding DEF PrepareFails
<1>6. ASSUME NEW i \in queue, Claim(i)
      PROVE  Moving' /\ MoveOutcome'
  <2>1. /\ DOMAIN move' = DOMAIN move /\ move'[i].status = "PROCESSING"
        /\ \A j \in DOMAIN move \ {i} : move'[j] = move[j]
    BY <1>0, <1>6 DEF Claim, MoveType, MoveRows
  <2>2. UNCHANGED <<sent, queue>> /\ pc' = "command" /\ mv' = i /\ sent[i] = 0
    BY <1>0, <1>6 DEF Claim, MoveOutcome
  <2>3. Moving'
    BY <1>0, <2>1, <2>2 DEF Moving, Active
  <2>4. ASSUME NEW j \in DOMAIN move
        PROVE  /\ sent'[j] <= 1 /\ (move'[j].status \in {"PENDING", "FAILED"} => sent'[j] = 0)
               /\ (move'[j].status = "DONE" => move'[j].source \notin DOMAIN copy')
    BY <1>0, <2>1, <2>2 DEF MoveOutcome
  <2>. QED
    BY <2>1, <2>3, <2>4 DEF MoveOutcome
<1>7. ASSUME Command
      PROVE  Moving' /\ MoveOutcome'
  <2>1. /\ pc = "command" /\ pc' = "record" /\ UNCHANGED <<move, queue, mv>>
        /\ sent' = [sent EXCEPT ![mv] = @ + 1]
    BY <1>7 DEF Command
  <2>2. mv \in queue /\ move[mv].status = "PROCESSING" /\ sent[mv] = 0 /\ mv \in MoveIds
    BY <1>0, <2>1 DEF Moving, MoveType
  <2>3. sent'[mv] = 1 /\ \A j \in MoveIds \ {mv} : sent'[j] = sent[j]
    BY <1>0, <2>1, <2>2
  <2>. QED
    BY <1>0, <2>1, <2>2, <2>3 DEF Moving, MoveOutcome, MoveType
<1>8. ASSUME CommandFails
      PROVE  Moving' /\ MoveOutcome'
  <2>1. /\ pc = "command" /\ sent' = [sent EXCEPT ![mv] = @ + 1] /\ Conclude(mv, "UNCERTAIN")
        /\ Leave(mv)
    BY <1>8 DEF CommandFails
  <2>2. mv \in queue /\ sent[mv] = 0 /\ mv \in MoveIds
    BY <1>0, <2>1 DEF Moving, MoveType
  <2>3. sent'[mv] = 1 /\ \A j \in MoveIds \ {mv} : sent'[j] = sent[j]
    BY <1>0, <2>1, <2>2
  <2>. QED
    BY <2>1, <2>2, <2>3, Concluding
<1>9. ASSUME ReconcileUncertain \/ ReconcileFails
      PROVE  Moving' /\ MoveOutcome'
  <2>1. /\ sent' = sent /\ Conclude(mv, "UNCERTAIN") /\ Leave(mv) /\ mv \in queue
    BY <1>9 DEF ReconcileUncertain, ReconcileFails, Moving
  <2>2. sent[mv] <= 1
    BY <1>0, <2>1 DEF MoveOutcome
  <2>. QED
    BY <2>1, <2>2, Concluding
<1>10. ASSUME Record
       PROVE  Moving' /\ MoveOutcome'
  <2>1. /\ pc = "record" /\ pc' = "reconcile" /\ UNCHANGED <<queue, mv, sent>>
    BY <1>10 DEF Record
  <2>2. /\ DOMAIN move' = DOMAIN move /\ \A j \in DOMAIN move : move'[j].status = move[j].status
    BY <1>0, <1>10 DEF Record, MoveType, MoveRows
  <2>. QED
    BY <1>0, <2>1, <2>2 DEF Moving, MoveOutcome
<1>11. ASSUME ReconcileFound
       PROVE  Moving' /\ MoveOutcome'
  <2>1. /\ pc = "reconcile" /\ pc' = "finish" /\ UNCHANGED <<move, queue, mv, sent, copy>>
        /\ DOMAIN got' = Destination(mv) /\ Confirmed(mv)
    BY <1>11 DEF ReconcileFound, serverVars
  <2>2. DOMAIN got' # {} /\ move[mv].source \notin DOMAIN copy
    BY <2>1 DEF Confirmed
  <2>. QED
    BY <1>0, <1>1, <2>1, <2>2 DEF Moving
<1>12. ASSUME Finish
       PROVE  Moving' /\ MoveOutcome'
  <2>1. /\ pc = "finish" /\ UNCHANGED <<sent, copy>> /\ Leave(mv) /\ mv \in queue
        /\ move[mv].source \notin DOMAIN copy
    BY <1>12 DEF Finish, Moving, serverVars
  <2>2. /\ DOMAIN move' = DOMAIN move /\ move'[mv].status = "DONE"
        /\ \A j \in DOMAIN move \ {mv} : move'[j] = move[j]
    BY <1>0, <1>12, <2>1 DEF Finish, MoveType, MoveRows
  <2>3. Moving'
    BY <1>0, <2>1, <2>2 DEF Moving, Leave
  <2>4. ASSUME NEW j \in DOMAIN move
        PROVE  /\ sent'[j] <= 1 /\ (move'[j].status \in {"PENDING", "FAILED"} => sent'[j] = 0)
               /\ (move'[j].status = "DONE" => move'[j].source \notin DOMAIN copy')
    <3>1. CASE j = mv
      BY <1>0, <2>1, <2>2, <3>1 DEF MoveOutcome
    <3>2. CASE j # mv
      BY <1>0, <2>1, <2>2, <3>2 DEF MoveOutcome
    <3>. QED
      BY <3>1, <3>2
  <2>. QED
    BY <2>2, <2>3, <2>4 DEF MoveOutcome
<1>13. ASSUME UNCHANGED <<move, sent>>, pc' \notin {"command", "record", "reconcile", "finish"},
              \A i \in queue' : i \in queue \/ (i \in DOMAIN move /\ move[i].status \in Active)
       PROVE  Moving' /\ MoveOutcome'
  BY <1>0, <1>1, <1>13 DEF Moving
<1>14. ASSUME UNCHANGED <<move, sent, pc, queue, mv, got>>
       PROVE  Moving' /\ MoveOutcome'
  <2>1. pc = "finish" => move[mv].source \notin DOMAIN copy'
    BY <1>0, <1>14 DEF Moving
  <2>. QED
    BY <1>1, <1>14, <2>1 DEF Moving
<1>15. ASSUME \/ StartPass \/ MovesDone \/ NextFolder \/ PassDone \/ Open \/ Store \/ Locate \/ Owe
              \/ ReadStateStep \/ Close \/ PushFails \/ FolderFails \/ Crash
       PROVE  Moving' /\ MoveOutcome'
  <2>1. /\ UNCHANGED <<move, sent>> /\ pc' \notin {"command", "record", "reconcile", "finish"}
        /\ \/ queue' = queue \/ queue' = {}
           \/ queue' = {i \in DOMAIN move : move[i].status \in Active}
    BY <1>15
    DEF StartPass, MovesDone, NextFolder, PassDone, Open, Store, Locate, Owe, ReadStateStep,
        ListPending, PushMissing, Push, PushNothing, Applied, Ack, NextRow, Scan, Adopt, Observe,
        Retire, Close, PushFails, FolderFails, Crash, passVars
  <2>. QED
    BY <1>13, <2>1
<1>16. ASSUME Users, ~(\E i \in MoveIds, p \in DOMAIN loc, f \in Folders : RequestMove(i, p, f))
       PROVE  Moving' /\ MoveOutcome'
  <2>1. UNCHANGED <<move, sent, pc, queue, mv, got>>
    BY <1>16 DEF Users, Mark, OtherFlag, OtherCopy, OtherMove, OtherExpunge, Recreate, Other, passVars
  <2>. QED
    BY <1>14, <2>1
<1>17. CASE UNCHANGED vars
  BY <1>14, <1>17 DEF vars, passVars
<1>. QED
  BY <1>2, <1>3, <1>4, <1>5, <1>6, <1>7, <1>8, <1>9, <1>10, <1>11, <1>12, <1>15, <1>16, <1>17
  DEF Next, WorkerStep, MoveStep, MoveFault

---------------------------------------------------------------------------
(* The read state. *)

\* A message that is not stored has no rows and nothing pending.
LEMMA UnknownKept ==
    ASSUME TypeOK, Placed, Moving, Known, [Next]_vars, ~known'
    PROVE  ~known /\ DOMAIN loc' = {} /\ pending' = Off
<1>1. ~known
  <2>1. CASE UNCHANGED messageVars
    BY <2>1 DEF messageVars
  <2>2. CASE ~UNCHANGED messageVars
    BY <2>2, MessageChanges DEF Mark, Finish, Store, Owe, Ack, Adopt
  <2>. QED
    BY <2>1, <2>2
<1>2. DOMAIN loc = {} /\ pending = Off /\ DOMAIN move = {}
  BY <1>1 DEF Known, Placed
<1>3. pc \notin {"finish", "locate", "owe", "push", "applied", "ack", "adopt", "observe"}
  BY <1>1, <1>2 DEF Known, Moving
<1>4. UNCHANGED loc \/ DOMAIN loc' = {}
  BY <1>2, <1>3, LocChanges DEF Finish, Open, Locate, PushMissing, Applied, Observe, Retire
<1>5. UNCHANGED pending
  <2>1. CASE UNCHANGED messageVars
    BY <2>1 DEF messageVars
  <2>2. CASE ~UNCHANGED messageVars
    BY <1>1, <1>3, <2>2, MessageChanges DEF Mark, Finish, Store, Owe, Ack, Adopt
  <2>. QED
    BY <2>1, <2>2
<1>. QED
  BY <1>1, <1>2, <1>4, <1>5

\* What the pass has fetched while it goes through a folder.
Fetched ==
    /\ pc \in {"push", "applied", "ack", "adopt", "observe"} => DOMAIN got \subseteq DOMAIN loc
    /\ pc \in {"store", "locate", "owe", "push", "applied", "ack", "adopt", "observe"} =>
          DOMAIN got # {}

LEMMA FetchedKept ==
    ASSUME TypeOK, Placed, Moving, Known, [Next]_vars
    PROVE  Fetched'
<1>0. Fetched /\ GotType /\ GotType' /\ DOMAIN loc \subseteq DOMAIN loc'
  BY TypeParts, GotTypeKept, LocDomain DEF Known, Fetched
<1>1. got' = Empty <=> DOMAIN got' = {}
  BY <1>0, EmptyFacts DEF GotType
<1>2. ASSUME \/ StartPass \/ MoveStep \/ MovesDone \/ NextFolder \/ PassDone \/ Retire \/ Close
             \/ MoveFault \/ FolderFails \/ Crash
      PROVE  Fetched'
  <2>1. pc' \in {"idle", "moves", "command", "record", "reconcile", "finish", "folders", "open",
                 "list", "close"}
    BY <1>2 DEF StartPass, MoveStep, TakeUnknown, TakeStale, Claim, Command, Record,
                ReconcileUncertain, ReconcileFound, Finish, Leave, MovesDone, NextFolder, PassDone,
                Retire, Close, MoveFault, PrepareFails, CommandFails, ReconcileFails, FolderFails,
                Crash
  <2>. QED
    BY <2>1 DEF Fetched
<1>3. ASSUME PushMissing \/ Ack \/ PushFails
      PROVE  Fetched'
  <2>1. /\ pc \in {"push", "ack"} /\ got' = Without(got, {At})
        /\ pc' = IF got' = Empty THEN "scan" ELSE "push"
    BY <1>3 DEF PushMissing, Ack, PushFails, NextRow
  <2>. QED
    BY <1>0, <1>1, <2>1 DEF Fetched, Without
<1>4. ASSUME Observe
      PROVE  Fetched'
  <2>1. /\ pc = "observe" /\ got' = Without(got, {At})
        /\ pc' = IF got' = Empty THEN "retire" ELSE "adopt"
    BY <1>4 DEF Observe
  <2>. QED
    BY <1>0, <1>1, <2>1 DEF Fetched, Without
<1>5. ASSUME Owe
      PROVE  Fetched'
  <2>1. pc' = IF got' = Empty THEN "list" ELSE "store"
    BY <1>5 DEF Owe
  <2>. QED
    BY <1>1, <2>1 DEF Fetched
<1>6. ASSUME Open
      PROVE  Fetched'
  BY <1>6 DEF Open, Fetched
<1>7. ASSUME ListPending
      PROVE  Fetched'
  BY <1>0, <1>7 DEF ListPending, Fetched, PresentIn
<1>8. ASSUME Scan
      PROVE  Fetched'
  BY <1>0, <1>1, <1>8 DEF Scan, Fetched, PresentIn
<1>9. ASSUME Store \/ Locate \/ Push \/ PushNothing \/ Applied \/ Adopt
      PROVE  Fetched'
  <2>1. /\ got' = got
        /\ \/ pc = "store" /\ pc' = "locate"
           \/ pc = "locate" /\ pc' = "owe"
           \/ pc = "push" /\ pc' \in {"applied", "ack"}
           \/ pc = "applied" /\ pc' \in {"ack", "push"}
           \/ pc = "adopt" /\ pc' = "observe"
    BY <1>9 DEF Store, Locate, Push, PushNothing, Applied, Adopt, passVars
  <2>. QED
    BY <1>0, <2>1 DEF Fetched
<1>10. ASSUME Users \/ UNCHANGED vars
       PROVE  Fetched'
  <2>1. UNCHANGED <<pc, got>>
    BY <1>10 DEF Users, Mark, RequestMove, OtherFlag, OtherCopy, OtherMove, OtherExpunge, Recreate,
                 Other, vars, passVars
  <2>. QED
    BY <1>0, <2>1 DEF Fetched
<1>. QED
  BY <1>2, <1>3, <1>4, <1>5, <1>6, <1>7, <1>8, <1>9, <1>10 DEF Next, WorkerStep, ReadStateStep

LEMMA KnownKept ==
    ASSUME TypeOK, Placed, Moving, Known, [Next]_vars
    PROVE  Known'
<1>1. ASSUME pc' \in {"locate", "owe"}
      PROVE  known'
  <2>1. CASE UNCHANGED pc
    BY <1>1, <2>1, UnknownKept DEF Known
  <2>2. CASE ~UNCHANGED pc
    <3>1. Store \/ Locate
      BY <1>1, <2>2
      DEF Next, Users, Mark, RequestMove, OtherFlag, OtherCopy, OtherMove, OtherExpunge, Recreate,
          Other, WorkerStep, StartPass, MoveStep, TakeUnknown, TakeStale, Claim, Command, Record,
          ReconcileUncertain, ReconcileFound, Finish, Leave, MovesDone, NextFolder, PassDone, Open,
          Owe, ReadStateStep, ListPending, PushMissing, Push, PushNothing, Applied, Ack, NextRow,
          Scan, Adopt, Observe, Retire, Close, MoveFault, PrepareFails, CommandFails,
          ReconcileFails, PushFails, FolderFails, Crash, vars
    <3>. QED
      BY <3>1, UnknownKept DEF Store, Locate, Known
  <2>. QED
    BY <2>1, <2>2
<1>. QED
  BY <1>1, UnknownKept, FetchedKept DEF Known, Fetched

\* The steps that leave the pass where it knows the message.
LEMMA InformedSteps ==
    ASSUME [Next]_vars, pc' \in Informed
    PROVE  \/ UNCHANGED <<pc, snap, got, taken>>
           \/ ReconcileFound \/ Store \/ Locate \/ ListPending \/ PushMissing \/ Push \/ PushNothing
           \/ Applied \/ Ack \/ Scan \/ Adopt \/ Observe \/ PushFails
BY DEF Next, Users, Mark, RequestMove, OtherFlag, OtherCopy, OtherMove, OtherExpunge, Recreate,
       Other, WorkerStep, StartPass, MoveStep, TakeUnknown, TakeStale, Claim, Command, Record,
       ReconcileUncertain, Finish, Leave, MovesDone, NextFolder, PassDone, Open, Owe, ReadStateStep,
       Retire, Close, MoveFault, PrepareFails, CommandFails, ReconcileFails, FolderFails, Crash,
       vars, passVars, Informed

\* A revision only grows, and while it stays so does what it says.
LEMMA RevisionGrows ==
    ASSUME TypeOK, Known, [Next]_vars, NEW f \in Fields
    PROVE  /\ revision'[f] >= revision[f]
           /\ revision'[f] = revision[f] => value'[f] = value[f] \/ Store
<1>0. revision \in [Fields -> Nat] /\ value \in Flags
  BY DEF TypeOK
<1>1. ASSUME NEW g \in Fields, NEW v \in BOOLEAN, Mark(g, v)
      PROVE  /\ revision'[f] >= revision[f]
             /\ revision'[f] = revision[f] => value'[f] = value[f]
  BY <1>0, <1>1 DEF Mark, Flags
<1>2. ASSUME Adopt
      PROVE  /\ revision'[f] >= revision[f]
             /\ revision'[f] = revision[f] => value'[f] = value[f]
  BY <1>0, <1>2 DEF Adopt
<1>3. ASSUME UNCHANGED messageVars \/ Finish \/ Owe \/ Ack
      PROVE  revision' = revision /\ value' = value
  BY <1>3 DEF Finish, Owe, Ack, messageVars
<1>4. ASSUME Store
      PROVE  revision' = revision
  BY <1>4 DEF Store
<1>. QED
  BY <1>0, <1>1, <1>2, <1>3, <1>4, MessageChanges

\* What a new location carries.
Carried(same) == [f \in Fields |-> IF f \in same THEN snap.revision[f] ELSE 0]

\* The locations' revisions after a step: their own, or what the pass has just put there.
LEMMA AppliedBecomes ==
    ASSUME TypeOK, Placed, Known, Moving, [Next]_vars, NEW p \in DOMAIN loc', NEW f \in Fields
    PROVE  \/ p \in DOMAIN loc /\ loc'[p].applied[f] = loc[p].applied[f]
           \/ /\ Finish \/ Locate
              /\ p = At /\ loc'[p].applied[f] \in {0, snap.revision[f]}
              /\ loc'[p].applied[f] = snap.revision[f] =>
                    snap.revision[f] = 0 \/ got[At][f] = snap.value[f]
           \/ Applied /\ p = At /\ f = FirstField /\ loc'[p].applied[f] = snap.revision[f]
           \/ Observe /\ p = At /\ f \in taken /\ loc'[p].applied[f] = snap.revision[f] + 1
<1>0. LocType /\ snap \in Snapshots
  BY TypeParts DEF PassType
<1>1. CASE Open \/ PushMissing \/ Retire
  BY <1>0, <1>1 DEF Open, PushMissing, Retire, LocType, Locations
<1>2. CASE Applied
  <2>1. At \in DOMAIN loc /\ loc[At] \in Locations
    BY <1>0, <1>2, AtIn DEF Applied, Known, LocType
  <2> DEFINE row == [loc[At] EXCEPT !.applied[FirstField] = snap.revision[FirstField],
                                    !.observed[FirstField] = snap.value[FirstField]]
  <2>2. loc' = [loc EXCEPT ![At] = row]
    BY <1>2, <2>1 DEF Applied
  <2>3. row.applied[f] = IF f = FirstField THEN snap.revision[f] ELSE loc[At].applied[f]
    BY <2>1 DEF Locations
  <2>. QED
    BY <1>0, <1>2, <2>1, <2>2, <2>3 DEF LocType
<1>3. CASE Observe
  <2>1. At \in DOMAIN loc /\ loc[At] \in Locations
    BY <1>0, <1>3, AtIn DEF Observe, Known, LocType
  <2> DEFINE applied == [g \in Fields |-> IF g \in taken THEN snap.revision[g] + 1
                                          ELSE loc[At].applied[g]]
             row == [loc[At] EXCEPT !.observed = got[At], !.applied = applied]
  <2>2. loc' = [loc EXCEPT ![At] = row]
    BY <1>3, <2>1 DEF Observe
  <2>3. row.applied[f] = IF f \in taken THEN snap.revision[f] + 1 ELSE loc[At].applied[f]
    BY <2>1 DEF Locations
  <2>. QED
    BY <1>0, <1>3, <2>1, <2>2, <2>3 DEF LocType
<1>4. ASSUME NEW flags, NEW same, same = {g \in Fields : flags[g] = snap.value[g]},
             NEW row, row = IF At \in DOMAIN loc THEN [loc[At] EXCEPT !.present = TRUE]
                            ELSE [present |-> TRUE, observed |-> flags, applied |-> Carried(same)]
      PROVE  \/ At \in DOMAIN loc /\ row.applied[f] = loc[At].applied[f]
             \/ /\ row.applied[f] \in {0, snap.revision[f]}
                /\ row.applied[f] = snap.revision[f] =>
                      snap.revision[f] = 0 \/ flags[f] = snap.value[f]
  BY <1>0, <1>4 DEF LocType, Locations, Carried
<1>5. CASE Locate
  <2> DEFINE same == {g \in Fields : got[At][g] = snap.value[g]}
             row == IF At \in DOMAIN loc THEN [loc[At] EXCEPT !.present = TRUE]
                    ELSE [present |-> TRUE, observed |-> got[At], applied |-> Carried(same)]
  <2>1. loc' = With(loc, At, row)
    BY <1>5 DEF Locate, Carried
  <2>2. /\ p # At => p \in DOMAIN loc /\ loc'[p] = loc[p]
        /\ p = At => loc'[p] = row
    BY <2>1 DEF With
  <2>3. \/ At \in DOMAIN loc /\ row.applied[f] = loc[At].applied[f]
        \/ /\ row.applied[f] \in {0, snap.revision[f]}
           /\ row.applied[f] = snap.revision[f] =>
                 snap.revision[f] = 0 \/ got[At][f] = snap.value[f]
    <3> HIDE DEF row, same
    <3>. QED
      BY <1>4 DEF row, same
  <2> HIDE DEF row
  <2>. QED
    BY <1>5, <2>2, <2>3
<1>6. CASE Finish
  <2> DEFINE same == {g \in Fields : got[At][g] = snap.value[g]}
             row == IF At \in DOMAIN loc THEN [loc[At] EXCEPT !.present = TRUE]
                    ELSE [present |-> TRUE, observed |-> got[At], applied |-> Carried(same)]
             left == [q \in DOMAIN loc |-> IF q = move[mv].source
                                           THEN [loc[q] EXCEPT !.present = FALSE] ELSE loc[q]]
  <2>1. loc' = With(left, At, row)
    BY <1>6 DEF Finish, Carried, At
  <2>2. /\ p # At => p \in DOMAIN loc /\ loc'[p].applied = loc[p].applied
        /\ p = At => loc'[p] = row
    BY <1>0, <2>1 DEF With, LocType, Locations
  <2>3. \/ At \in DOMAIN loc /\ row.applied[f] = loc[At].applied[f]
        \/ /\ row.applied[f] \in {0, snap.revision[f]}
           /\ row.applied[f] = snap.revision[f] =>
                 snap.revision[f] = 0 \/ got[At][f] = snap.value[f]
    <3> HIDE DEF row, same
    <3>. QED
      BY <1>4 DEF row, same
  <2> HIDE DEF row
  <2>. QED
    BY <1>6, <2>2, <2>3
<1>7. CASE UNCHANGED loc
  BY <1>7
<1>. QED
  BY <1>1, <1>2, <1>3, <1>5, <1>6, <1>7, LocChanges

LEMMA InformingKept ==
    ASSUME TypeOK, Placed, Moving, Known, Informing, [Next]_vars
    PROVE  Informing'
<1>0. /\ revision \in [Fields -> Nat] /\ revision' \in [Fields -> Nat] /\ snap \in Snapshots
      /\ LocType /\ LocType' /\ GotType
  BY TypeParts, MessageTypeKept, LocTypeKept DEF MessageType, PassType
<1>. \A f \in Fields : snap.revision[f] \in Nat /\ revision[f] \in Nat /\ revision'[f] \in Nat
  BY <1>0 DEF Snapshots
<1>. \A f \in Fields : \A p \in DOMAIN loc : loc[p].applied[f] \in Nat
  BY <1>0 DEF LocType, Locations
<1>1. ASSUME NEW f \in Fields
      PROVE  revision'[f] > 0 /\ \A p \in DOMAIN loc' : loc'[p].applied[f] <= revision'[f]
  <2>1. revision'[f] >= revision[f] /\ revision[f] > 0
    BY RevisionGrows DEF Informing
  <2>2. ASSUME NEW p \in DOMAIN loc'
        PROVE  loc'[p].applied[f] <= revision'[f]
    <3>1. CASE p \in DOMAIN loc /\ loc'[p].applied[f] = loc[p].applied[f]
      BY <2>1, <3>1 DEF Informing
    <3>2. CASE (Finish \/ Locate \/ Applied) /\ loc'[p].applied[f] \in {0, snap.revision[f]}
      <4>1. pc \in Informed
        BY <3>2 DEF Finish, Locate, Applied, Informed
      <4>. QED
        BY <2>1, <3>2, <4>1 DEF Informing
    <3>3. CASE Observe /\ f \in taken /\ loc'[p].applied[f] = snap.revision[f] + 1
      <4>1. pc = "observe"
        BY <3>3 DEF Observe
      <4>. QED
        BY <2>1, <3>3, <4>1 DEF Informing
    <3>. QED
      BY <3>1, <3>2, <3>3, AppliedBecomes
  <2>. QED
    BY <2>1, <2>2
<1>2. ASSUME pc' \in Informed, NEW f \in Fields
      PROVE  /\ snap'.revision[f] <= revision'[f]
             /\ snap'.revision[f] = revision'[f] => snap'.value[f] = value'[f]
  <2>1. CASE ReconcileFound \/ ListPending \/ Scan
    <3>1. snap' = Snapshot /\ revision' = revision /\ value' = value
      BY <2>1 DEF ReconcileFound, ListPending, Scan, messageVars
    <3>. QED
      BY <3>1 DEF Snapshot
  <2>2. CASE Store
    <3>1. snap' = [Snapshot EXCEPT !.value = value'] /\ revision' = revision
      BY <2>2 DEF Store
    <3>. QED
      BY <3>1 DEF Snapshot
  <2>3. ASSUME pc \in Informed, snap' = snap, ~Store
        PROVE  /\ snap'.revision[f] <= revision'[f]
               /\ snap'.revision[f] = revision'[f] => snap'.value[f] = value'[f]
    <3>1. snap.revision[f] <= revision[f] /\ (snap.revision[f] = revision[f] => snap.value[f] = value[f])
      BY <2>3 DEF Informing
    <3>2. revision'[f] >= revision[f] /\ (revision'[f] = revision[f] => value'[f] = value[f])
      BY <2>3, RevisionGrows
    <3>. QED
      BY <2>3, <3>1, <3>2
  <2>4. CASE PushMissing \/ Ack \/ PushFails
    <3>1. pc \in Informed /\ snap' = snap /\ ~Store
      BY <1>2, <2>4 DEF PushMissing, Ack, PushFails, NextRow, Store, Informed
    <3>. QED
      BY <2>3, <3>1
  <2>5. CASE Locate \/ Push \/ PushNothing \/ Applied \/ Adopt \/ Observe
    <3>1. CASE pc \in Informed /\ snap' = snap /\ ~Store
      BY <2>3, <3>1
    <3>2. CASE ~(pc \in Informed /\ snap' = snap /\ ~Store)
      BY <2>5, <3>2 DEF Locate, Push, PushNothing, Applied, Adopt, Observe, Store, Informed, passVars
    <3>. QED
      BY <3>1, <3>2
  <2>6. CASE UNCHANGED <<pc, snap, got, taken>>
    <3>1. ~Store
      BY <2>6 DEF Store
    <3>. QED
      BY <1>2, <2>3, <2>6, <3>1
  <2>. QED
    BY <1>2, <2>1, <2>2, <2>4, <2>5, <2>6, InformedSteps
<1>3. ASSUME pc' \in {"push", "applied", "ack"}
      PROVE  /\ \A f \in Fields :
                   /\ snap'.revision[f] # revision'[f] => pending'[f]
                   /\ \A p \in DOMAIN loc' : loc'[p].applied[f] <= snap'.revision[f]
             /\ \A p \in DOMAIN got' : loc'[p].present
  <2>1. CASE ListPending
    <3>1. /\ snap' = Snapshot /\ UNCHANGED <<messageVars, loc>> /\ DOMAIN got' \subseteq PresentIn(folder)
      BY <2>1 DEF ListPending
    <3>. QED
      BY <3>1 DEF Snapshot, messageVars, Informing, PresentIn
  <2>2. ASSUME pc \in {"push", "applied", "ack"}, snap' = snap
        PROVE  \A f \in Fields :
                  /\ snap'.revision[f] # revision'[f] => pending'[f]
                  /\ \A p \in DOMAIN loc' : loc'[p].applied[f] <= snap'.revision[f]
    <3>1. ASSUME NEW f \in Fields, NEW p \in DOMAIN loc'
          PROVE  loc'[p].applied[f] <= snap.revision[f]
      <4>1. CASE p \in DOMAIN loc /\ loc'[p].applied[f] = loc[p].applied[f]
        BY <2>2, <4>1 DEF Informing
      <4>2. CASE Applied /\ loc'[p].applied[f] = snap.revision[f]
        BY <4>2
      <4>3. ~Finish /\ ~Locate /\ ~Observe
        BY <2>2 DEF Finish, Locate, Observe
      <4>. QED
        BY <4>1, <4>2, <4>3, AppliedBecomes
    <3>2. ASSUME NEW f \in Fields, snap.revision[f] # revision'[f]
          PROVE  pending'[f]
      <4>1. snap.revision[f] # revision[f] => pending[f]
        BY <2>2 DEF Informing
      <4>2. CASE UNCHANGED messageVars
        BY <3>2, <4>1, <4>2 DEF messageVars
      <4>3. ASSUME NEW g \in Fields, NEW v \in BOOLEAN, Mark(g, v)
            PROVE  pending'[f]
        <5>1. pending' = [pending EXCEPT ![g] = TRUE] /\ revision' = [revision EXCEPT ![g] = @ + 1]
              /\ pending \in Flags
          BY <4>3 DEF Mark, TypeOK
        <5>. QED
          BY <1>0, <3>2, <4>1, <5>1 DEF Flags
      <4>4. CASE Ack
        <5>1. /\ pending' = [g \in Fields |-> pending[g] /\ ~(snap.pending[g] /\ Acknowledged(g))]
              /\ revision' = revision
          BY <4>4 DEF Ack
        <5>2. ~Acknowledged(f)
          BY <3>2, <5>1 DEF Acknowledged
        <5>. QED
          BY <3>2, <4>1, <5>1, <5>2
      <4>5. ~Finish /\ ~Store /\ ~Owe /\ ~Adopt
        BY <2>2 DEF Finish, Store, Owe, Adopt
      <4>. QED
        BY <4>2, <4>3, <4>4, <4>5, MessageChanges
    <3>. QED
      BY <2>2, <3>1, <3>2
  <2>3. CASE PushMissing \/ Ack \/ PushFails
    <3>1. pc \in {"push", "applied", "ack"} /\ snap' = snap /\ got' = Without(got, {At})
      BY <1>3, <2>3 DEF PushMissing, Ack, PushFails, NextRow
    <3>2. \A p \in DOMAIN got : loc[p].present
      BY <3>1 DEF Informing
    <3>3. DOMAIN got' \subseteq DOMAIN got \ {At} /\ DOMAIN got \subseteq DOMAIN loc
      BY <3>1 DEF Without, Known
    <3>4. \A p \in DOMAIN loc \ {At} : loc'[p] = loc[p]
      BY <1>0, <2>3 DEF PushMissing, Ack, PushFails, LocType
    <3>. QED
      BY <2>2, <3>1, <3>2, <3>3, <3>4
  <2>4. CASE Push \/ PushNothing \/ Applied
    <3>1. pc \in {"push", "applied", "ack"} /\ snap' = snap /\ got' = got
      BY <2>4 DEF Push, PushNothing, Applied, passVars
    <3>2. DOMAIN got \subseteq DOMAIN loc /\ \A p \in DOMAIN got : loc[p].present
      BY <3>1 DEF Informing, Known
    <3>3. \A p \in DOMAIN loc : loc'[p].present = loc[p].present
      BY <1>0, <2>4 DEF Push, PushNothing, Applied, LocType, Locations
    <3>. QED
      BY <2>2, <3>1, <3>2, <3>3
  <2>5. CASE UNCHANGED <<pc, snap, got, taken>>
    <3>1. pc \in {"push", "applied", "ack"}
      BY <1>3, <2>5
    <3>2. DOMAIN got \subseteq DOMAIN loc /\ \A p \in DOMAIN got : loc[p].present
      BY <3>1 DEF Informing, Known
    <3>3. CASE UNCHANGED loc
      BY <2>2, <2>5, <3>1, <3>2, <3>3
    <3>4. CASE ~UNCHANGED loc
      <4>1. PushMissing \/ Applied
        BY <3>1, <3>4, LocChanges DEF Finish, Open, Locate, Observe, Retire
      <4>. QED
        BY <2>3, <2>4, <4>1
    <3>. QED
      BY <3>3, <3>4
  <2>6. ~ReconcileFound /\ ~Store /\ ~Locate /\ ~Scan /\ ~Adopt /\ ~Observe
    BY <1>3 DEF ReconcileFound, Store, Locate, Scan, Adopt, Observe
  <2>. QED
    BY <1>3, <2>1, <2>3, <2>4, <2>5, <2>6, InformedSteps DEF Informed
<1>4. ASSUME pc' = "observe", NEW f \in taken'
      PROVE  /\ snap'.revision[f] + 1 <= revision'[f]
             /\ snap'.revision[f] + 1 = revision'[f] => value'[f] = got'[At'][f]
  <2>1. CASE Adopt
    <3>1. /\ taken' = Adopted /\ snap' = snap /\ got' = got /\ f \in Adopted
          /\ value' = [g \in Fields |-> IF g \in Adopted THEN got[At][g] ELSE value[g]]
          /\ revision' = [g \in Fields |-> IF g \in Adopted THEN revision[g] + 1 ELSE revision[g]]
      BY <1>4, <2>1 DEF Adopt
    <3>2. f \in Fields /\ revision[f] = snap.revision[f]
      BY <3>1 DEF Adopted, Changed
    <3>3. revision'[f] = snap.revision[f] + 1 /\ value'[f] = got[At][f]
      BY <3>1, <3>2
    <3>4. At' = At
      BY <3>1 DEF At
    <3>. QED
      BY <3>1, <3>2, <3>3, <3>4
  <2>2. CASE UNCHANGED <<pc, snap, got, taken>>
    <3>1. /\ f \in Fields /\ snap.revision[f] + 1 <= revision[f]
          /\ snap.revision[f] + 1 = revision[f] => value[f] = got[At][f]
      BY <1>4, <2>2 DEF Informing, TypeOK
    <3>2. revision'[f] >= revision[f] /\ (revision'[f] = revision[f] => value'[f] = value[f])
      BY <1>4, <2>2, <3>1, RevisionGrows DEF Store
    <3>3. At' = At
      BY <2>2 DEF At
    <3>. QED
      BY <2>2, <3>1, <3>2, <3>3
  <2>3. Adopt \/ UNCHANGED <<pc, snap, got, taken>>
    BY <1>4, InformedSteps
    DEF ReconcileFound, Store, Locate, ListPending, PushMissing, Push, PushNothing, Applied, Ack,
        NextRow, Scan, Observe, PushFails, Informed
  <2>. QED
    BY <2>1, <2>2, <2>3
<1>. QED
  BY <1>1, <1>2, <1>3, <1>4 DEF Informing

LEMMA MeddledStays == ASSUME [Next]_vars PROVE meddled => meddled'
BY DEF Next, Users, Mark, RequestMove, OtherFlag, OtherCopy, OtherMove, OtherExpunge, Recreate,
       Other, WorkerStep, StartPass, MoveStep, TakeUnknown, TakeStale, Claim, Command, Record,
       ReconcileUncertain, ReconcileFound, Finish, MovesDone, NextFolder, PassDone, Open, Store,
       Locate, Owe, ReadStateStep, ListPending, PushMissing, Push, PushNothing, Applied, Ack, Scan,
       Adopt, Observe, Retire, Close, MoveFault, PrepareFails, CommandFails, ReconcileFails,
       PushFails, FolderFails, Crash, Fault, vars, countVars

\* The one copy keeps its flags wherever it goes, unless the pass pushes one.
LEMMA FlagsStay ==
    ASSUME TypeOK, Placed, Moving, Carrying, [Next]_vars, ~meddled'
    PROVE  /\ \A p, q \in DOMAIN copy' : p = q
           /\ \/ \A q \in DOMAIN copy' : \E p \in DOMAIN copy : copy'[q] = copy[p]
              \/ /\ pc = "push" /\ At \in DOMAIN copy /\ FirstField \in Owing
                 /\ copy' = [copy EXCEPT ![At][FirstField] = snap.value[FirstField]]
<1>0. /\ \A p, q \in DOMAIN copy : p = q
  BY MeddledStays DEF Carrying
<1>1. ASSUME NEW p \in DOMAIN copy, NEW f \in Folders, Arrive(f, copy[p], {p})
      PROVE  /\ \A r, q \in DOMAIN copy' : r = q
             /\ \A q \in DOMAIN copy' : \E r \in DOMAIN copy : copy'[q] = copy[r]
  <2>1. /\ DOMAIN copy' = (DOMAIN copy \ {p}) \union {NewPlace(f)}
        /\ copy'[NewPlace(f)] = copy[p]
    BY <1>1, ArriveType
  <2>2. DOMAIN copy \ {p} = {}
    BY <1>0
  <2>. QED
    BY <2>1, <2>2
<1>2. ASSUME NEW p \in DOMAIN copy, copy' = Without(copy, {p})
      PROVE  /\ \A r, q \in DOMAIN copy' : r = q
             /\ \A q \in DOMAIN copy' : \E r \in DOMAIN copy : copy'[q] = copy[r]
  BY <1>0, <1>2 DEF Without
<1>3. ASSUME NEW f \in Folders, Recreate(f)
      PROVE  /\ \A r, q \in DOMAIN copy' : r = q
             /\ \A q \in DOMAIN copy' : \E r \in DOMAIN copy : copy'[q] = copy[r]
  <2>1. \A q \in DOMAIN copy' :
           \/ q \in DOMAIN copy /\ q.folder # f /\ copy'[q] = copy[q]
           \/ q.folder = f /\ \E p \in CopiesIn(f) : copy'[q] = copy[p]
    BY <1>3, RecreateType
  <2>2. CopiesIn(f) \subseteq DOMAIN copy /\ \A p \in CopiesIn(f) : p.folder = f
    BY DEF CopiesIn
  <2>3. \A q \in DOMAIN copy' : \E r \in DOMAIN copy : copy'[q] = copy[r]
    BY <2>1, <2>2
  <2>4. ASSUME NEW r \in DOMAIN copy', NEW q \in DOMAIN copy'
        PROVE  r = q
    <3> DEFINE new(p) == [p EXCEPT !.validity = @ + 1,
                                   !.uid = Cardinality({x \in CopiesIn(f) : x.uid <= p.uid})]
    <3>1. DOMAIN copy' = (DOMAIN copy \ CopiesIn(f)) \union {new(p) : p \in CopiesIn(f)}
      BY <1>3 DEF Recreate
    <3>2. PICK p \in DOMAIN copy : r = p \/ (p \in CopiesIn(f) /\ r = new(p))
      BY <2>2, <3>1
    <3>3. DOMAIN copy = {p}
      BY <1>0
    <3> HIDE DEF new
    <3>4. CASE p \in CopiesIn(f)
      <4>1. CopiesIn(f) = {p}
        BY <2>2, <3>3, <3>4
      <4>. QED
        BY <3>1, <3>3, <4>1
    <3>5. CASE p \notin CopiesIn(f)
      BY <2>2, <3>1, <3>3, <3>5
    <3>. QED
      BY <3>4, <3>5
  <2>. QED
    BY <2>3, <2>4
<1>4. ASSUME NEW p \in DOMAIN copy, NEW f \in Fields, NEW v \in BOOLEAN,
             copy' = [copy EXCEPT ![p][f] = v],
             pc = "push" /\ p = At /\ Owing # {} /\ f = FirstField /\ v = snap.value[f]
      PROVE  /\ \A r, q \in DOMAIN copy' : r = q
             /\ pc = "push" /\ At \in DOMAIN copy /\ FirstField \in Owing
             /\ copy' = [copy EXCEPT ![At][FirstField] = snap.value[FirstField]]
  <2>1. FirstField \in Owing
    BY <1>4, MailboxAssumption DEF FirstField, Owing
  <2>. QED
    BY <1>0, <1>4, <2>1
<1>5. CASE UNCHANGED serverVars
  BY <1>0, <1>5 DEF serverVars
<1>. QED
  BY <1>1, <1>2, <1>3, <1>4, <1>5, ServerChanges

\* A step changes what the server has or what Postgres has of the message, not both.
LEMMA OneAtATime == ASSUME [Next]_vars PROVE copy' = copy \/ UNCHANGED <<messageVars, loc>>
BY DEF Next, Users, Mark, RequestMove, OtherFlag, OtherCopy, OtherMove, OtherExpunge, Recreate,
       Other, WorkerStep, StartPass, MoveStep, TakeUnknown, TakeStale, Claim, Command, Record,
       ReconcileUncertain, ReconcileFound, Finish, MovesDone, NextFolder, PassDone, Open, Store,
       Locate, Owe, ReadStateStep, ListPending, PushMissing, Push, PushNothing, Applied, Ack, Scan,
       Adopt, Observe, Retire, Close, MoveFault, PrepareFails, CommandFails, ReconcileFails,
       PushFails, FolderFails, Crash, vars, serverVars

\* The copy carries a field of the shared state.
Agrees(f) == \A p \in DOMAIN copy : copy[p][f] = value[f]

\* What each step makes of the copy's agreement with the shared state.
LEMMA AgreementKept ==
    ASSUME TypeOK, Placed, Moving, Known, Informing, Carrying, [Next]_vars, ~meddled',
           NEW f \in Fields
    PROVE  /\ ~pending'[f] => Agrees(f)'
           /\ (\E q \in DOMAIN loc' : loc'[q].applied[f] = revision'[f]) => Agrees(f)'
<1> DEFINE Held == \E q \in DOMAIN loc : loc[q].applied[f] = revision[f]
<1>0. /\ ~pending[f] => Agrees(f)
      /\ Held => Agrees(f)
      /\ pc \in {"store", "locate", "owe", "adopt", "observe", "finish"} =>
            \A p \in DOMAIN copy, q \in DOMAIN got : got[q] = copy[p]
      /\ \A p, q \in DOMAIN copy : p = q
  BY MeddledStays DEF Carrying, Agrees
<1>. /\ revision[f] \in Nat /\ revision[f] > 0 /\ snap.revision[f] \in Nat
     /\ pending \in Flags /\ value \in Flags /\ copy \in [DOMAIN copy -> Flags]
  BY DEF TypeOK, Snapshots, Informing
<1>1. CASE copy' # copy
  <2>1. /\ pending' = pending /\ value' = value /\ revision' = revision /\ loc' = loc
    BY <1>1, OneAtATime DEF messageVars
  <2>2. CASE \A q \in DOMAIN copy' : \E p \in DOMAIN copy : copy'[q] = copy[p]
    BY <1>0, <2>1, <2>2 DEF Agrees
  <2>3. CASE /\ pc = "push" /\ At \in DOMAIN copy /\ FirstField \in Owing
             /\ copy' = [copy EXCEPT ![At][FirstField] = snap.value[FirstField]]
    <3>1. DOMAIN copy' = {At} /\ copy[At] \in Flags
      BY <1>0, <2>3
    <3>2. \A g \in Fields : copy'[At][g] = IF g = FirstField THEN snap.value[g] ELSE copy[At][g]
      BY <2>3, <3>1 DEF Flags
    <3>3. CASE f # FirstField
      BY <1>0, <2>1, <2>3, <3>1, <3>2, <3>3 DEF Agrees
    <3>4. CASE f = FirstField /\ snap.revision[f] = revision[f]
      <4>1. value[f] = snap.value[f]
        BY <2>3, <3>4 DEF Informing, Informed
      <4>. QED
        BY <2>1, <3>1, <3>2, <3>4, <4>1 DEF Agrees
    <3>5. CASE snap.revision[f] # revision[f]
      <4>1. pending[f] /\ snap.revision[f] <= revision[f]
            /\ \A p \in DOMAIN loc : loc[p].applied[f] <= snap.revision[f]
        BY <2>3, <3>5 DEF Informing, Informed
      <4>2. \A p \in DOMAIN loc : loc[p].applied[f] \in Nat
        BY DEF TypeOK, Locations
      <4>. QED
        BY <2>1, <3>5, <4>1, <4>2
    <3>. QED
      BY <3>3, <3>4, <3>5
  <2>. QED
    BY <2>2, <2>3, FlagsStay
<1>2. CASE copy' = copy
  <2>1. ASSUME value'[f] = value[f], revision'[f] = revision[f], ~pending'[f] => ~pending[f] \/ Held,
               \A q \in DOMAIN loc' : loc'[q].applied[f] = revision[f] => Held \/ Agrees(f)
        PROVE  /\ ~pending'[f] => Agrees(f)'
               /\ (\E q \in DOMAIN loc' : loc'[q].applied[f] = revision'[f]) => Agrees(f)'
    BY <1>0, <1>2, <2>1 DEF Agrees
  <2>2. ASSUME pending'[f], revision'[f] = revision[f] + 1, loc' = loc
        PROVE  /\ ~pending'[f] => Agrees(f)'
               /\ (\E q \in DOMAIN loc' : loc'[q].applied[f] = revision'[f]) => Agrees(f)'
    <3>1. \A q \in DOMAIN loc : loc[q].applied[f] \in Nat /\ loc[q].applied[f] <= revision[f]
      BY DEF TypeOK, Locations, Informing
    <3>. QED
      BY <2>2, <3>1
  <2>3. ASSUME NEW q \in DOMAIN loc', loc'[q].applied[f] = revision[f]
        PROVE  Held \/ Agrees(f)
    <3>1. CASE q \in DOMAIN loc /\ loc'[q].applied[f] = loc[q].applied[f]
      BY <2>3, <3>1
    <3>2. CASE /\ Finish \/ Locate
               /\ loc'[q].applied[f] \in {0, snap.revision[f]}
               /\ loc'[q].applied[f] = snap.revision[f] =>
                     snap.revision[f] = 0 \/ got[At][f] = snap.value[f]
      <4>1. pc \in {"finish", "locate"} /\ DOMAIN got # {}
        BY <3>2 DEF Finish, Locate, Moving, Known
      <4>2. At \in DOMAIN got
        BY <4>1, AtIn
      <4>3. snap.revision[f] = revision[f] /\ got[At][f] = snap.value[f]
        BY <2>3, <3>2
      <4>4. snap.value[f] = value[f]
        BY <4>1, <4>3 DEF Informing, Informed
      <4>. QED
        BY <1>0, <4>1, <4>2, <4>3, <4>4 DEF Agrees
    <3>3. CASE Applied /\ f = FirstField /\ loc'[q].applied[f] = snap.revision[f]
      <4>1. pc = "applied" /\ snap.revision[f] = revision[f]
        BY <2>3, <3>3 DEF Applied
      <4>. QED
        BY <3>3, <4>1, MeddledStays DEF Carrying, Agrees
    <3>4. CASE Observe /\ f \in taken /\ loc'[q].applied[f] = snap.revision[f] + 1
      <4>1. pc = "observe" /\ value[f] = got[At][f] /\ At \in DOMAIN got
        BY <2>3, <3>4, AtIn DEF Observe, Informing, Known
      <4>. QED
        BY <1>0, <4>1 DEF Agrees
    <3>. QED
      BY <3>1, <3>2, <3>3, <3>4, AppliedBecomes
  <2>4. CASE UNCHANGED messageVars \/ Finish \/ Owe
    <3>1. value' = value /\ revision' = revision /\ (pending[f] => pending'[f])
      BY <2>4 DEF messageVars, Finish, Owe
    <3>. QED
      BY <2>1, <2>3, <3>1
  <2>5. ASSUME NEW g \in Fields, NEW v \in BOOLEAN, Mark(g, v)
        PROVE  /\ ~pending'[f] => Agrees(f)'
               /\ (\E q \in DOMAIN loc' : loc'[q].applied[f] = revision'[f]) => Agrees(f)'
    <3>1. /\ loc' = loc /\ value' = [value EXCEPT ![g] = v] /\ pending' = [pending EXCEPT ![g] = TRUE]
          /\ revision' = [revision EXCEPT ![g] = @ + 1]
      BY <2>5 DEF Mark
    <3>2. CASE f = g
      <4>1. pending'[f] /\ revision'[f] = revision[f] + 1
        BY <3>1, <3>2 DEF TypeOK, Flags
      <4>. QED
        BY <2>2, <3>1, <4>1
    <3>3. CASE f # g
      <4>1. value'[f] = value[f] /\ revision'[f] = revision[f] /\ pending'[f] = pending[f]
        BY <3>1, <3>3 DEF TypeOK, Flags
      <4>. QED
        BY <2>1, <2>3, <4>1
    <3>. QED
      BY <3>2, <3>3
  <2>6. CASE Ack
    <3>1. /\ pc = "ack" /\ UNCHANGED <<value, revision>>
          /\ pending' = [g \in Fields |-> pending[g] /\ ~(snap.pending[g] /\ Acknowledged(g))]
      BY <2>6 DEF Ack
    <3>2. At \in DOMAIN loc /\ loc[At].present
      BY <3>1, AtIn DEF Known, Informing
    <3>3. Acknowledged(f) => Held
      BY <3>2 DEF Acknowledged
    <3>4. ~pending'[f] => ~pending[f] \/ Held
      BY <3>1, <3>3
    <3>. QED
      BY <2>1, <2>3, <3>1, <3>4
  <2>7. CASE Adopt
    <3>1. /\ value' = [g \in Fields |-> IF g \in Adopted THEN got[At][g] ELSE value[g]]
          /\ revision' = [g \in Fields |-> IF g \in Adopted THEN revision[g] + 1 ELSE revision[g]]
          /\ pending' = [g \in Fields |-> pending[g] \/ g \in Adopted] /\ loc' = loc
      BY <2>7 DEF Adopt
    <3>2. CASE f \in Adopted
      BY <2>2, <3>1, <3>2
    <3>3. CASE f \notin Adopted
      BY <2>1, <2>3, <3>1, <3>3
    <3>. QED
      BY <3>2, <3>3
  <2>8. CASE Store
    <3>1. /\ pc = "store" /\ UNCHANGED <<pending, revision, loc>>
          /\ value' = IF known THEN value ELSE got[At]
      BY <2>8 DEF Store
    <3>2. CASE known
      BY <2>1, <2>3, <3>1, <3>2
    <3>3. CASE ~known
      <4>1. At \in DOMAIN got
        BY <3>1, AtIn DEF Known
      <4>. QED
        BY <1>0, <1>2, <3>1, <3>3, <4>1 DEF Agrees
    <3>. QED
      BY <3>2, <3>3
  <2>. QED
    BY <2>4, <2>5, <2>6, <2>7, <2>8, MessageChanges
<1>. QED
  BY <1>1, <1>2

\* Where the pass has the flags of copies in hand, it has just fetched them or still has them.
Fetching == {"store", "locate", "owe", "adopt", "observe", "finish"}

LEMMA FetchingSteps ==
    ASSUME [Next]_vars, pc' \in Fetching
    PROVE  \/ UNCHANGED <<pc, got>>
           \/ Open \/ ReconcileFound \/ Scan
           \/ Store \/ Locate \/ Owe \/ Adopt \/ Observe
BY DEF Next, Users, Mark, RequestMove, OtherFlag, OtherCopy, OtherMove, OtherExpunge, Recreate,
       Other, WorkerStep, StartPass, MoveStep, TakeUnknown, TakeStale, Claim, Command, Record,
       ReconcileUncertain, Finish, Leave, MovesDone, NextFolder, PassDone, ReadStateStep,
       ListPending, PushMissing, Push, PushNothing, Applied, Ack, NextRow, Retire, Close, MoveFault,
       PrepareFails, CommandFails, ReconcileFails, PushFails, FolderFails, Crash, vars, passVars,
       Fetching

\* Flags in hand are the copy's.
LEMMA InHandKept ==
    ASSUME TypeOK, Placed, Moving, Carrying, [Next]_vars, ~meddled', pc' \in Fetching
    PROVE  \A p \in DOMAIN copy', q \in DOMAIN got' : got'[q] = copy'[p]
<1>0. /\ \A p, q \in DOMAIN copy : p = q
      /\ pc \in Fetching => \A p \in DOMAIN copy, q \in DOMAIN got : got[q] = copy[p]
  BY MeddledStays DEF Carrying, Fetching
<1>1. CASE Open \/ Scan
  <2>1. copy' = copy /\ \A q \in DOMAIN got' : q \in DOMAIN copy /\ got'[q] = copy[q]
    BY <1>1 DEF Open, Scan, serverVars, CopiesIn
  <2>. QED
    BY <1>0, <2>1
<1>2. CASE ReconcileFound
  <2>1. copy' = copy /\ got' = [p \in Destination(mv) |-> copy[p]] /\ pc = "reconcile"
    BY <1>2 DEF ReconcileFound, serverVars
  <2>2. mv \in DOMAIN move
    BY <2>1 DEF Moving
  <2>3. Destination(mv) \subseteq DOMAIN copy
    BY <2>2, DestinationIn DEF CopiesIn
  <2>. QED
    BY <1>0, <2>1, <2>3
<1>3. CASE Store \/ Locate \/ Adopt \/ Owe \/ Observe
  <2>1. pc \in Fetching /\ copy' = copy /\ (got' = got \/ got' = Without(got, {At}))
    BY <1>3 DEF Store, Locate, Adopt, Owe, Observe, Fetching, serverVars
  <2>. QED
    BY <1>0, <2>1 DEF Without
<1>4. CASE UNCHANGED <<pc, got>>
  <2>1. \A q \in DOMAIN copy' : \E p \in DOMAIN copy : copy'[q] = copy[p]
    BY <1>4, FlagsStay DEF Fetching
  <2>. QED
    BY <1>0, <1>4, <2>1
<1>. QED
  BY <1>1, <1>2, <1>3, <1>4, FetchingSteps

\* A flag the pass has pushed and not yet recorded is on the copy.
LEMMA PushedKept ==
    ASSUME TypeOK, Placed, Moving, Known, Informing, Carrying, [Next]_vars, ~meddled',
           pc' = "applied"
    PROVE  /\ FirstField' \in Fields
           /\ snap'.revision[FirstField'] = revision'[FirstField'] =>
                 \A p \in DOMAIN copy' : copy'[p][FirstField'] = value'[FirstField']
<1>0. /\ \A p, q \in DOMAIN copy : p = q
      /\ copy \in [DOMAIN copy -> Flags] /\ revision \in [Fields -> Nat]
      /\ revision' \in [Fields -> Nat] /\ snap \in Snapshots
  BY MeddledStays, MessageTypeKept DEF Carrying, TypeOK, MessageType
<1>1. CASE Push
  <2>1. /\ pc = "push" /\ At \in DOMAIN copy /\ FirstField \in Owing
        /\ copy' = [copy EXCEPT ![At][FirstField] = snap.value[FirstField]]
        /\ UNCHANGED <<value, revision, loc, snap, got>>
    BY <1>1, MailboxAssumption DEF Push, FirstField, Owing, messageVars, passVars
  <2>2. FirstField' = FirstField /\ FirstField \in Fields
    BY <2>1 DEF FirstField, Owing, At
  <2>3. DOMAIN copy' = {At} /\ copy'[At][FirstField] = snap.value[FirstField]
    BY <1>0, <2>1, <2>2 DEF Flags
  <2>4. snap.revision[FirstField] = revision[FirstField] => snap.value[FirstField] = value[FirstField]
    BY <2>1, <2>2 DEF Informing, Informed
  <2>. QED
    BY <2>1, <2>2, <2>3, <2>4
<1>2. CASE UNCHANGED <<pc, snap, got, taken>>
  <2>1. loc' = loc /\ ~Store
    BY <1>2, LocChanges DEF Finish, Open, Locate, PushMissing, Applied, Observe, Retire, Store
  <2>2. FirstField' = FirstField
    BY <1>2, <2>1 DEF FirstField, Owing, At
  <2>3. /\ FirstField \in Fields
        /\ snap.revision[FirstField] = revision[FirstField] =>
              \A p \in DOMAIN copy : copy[p][FirstField] = value[FirstField]
    BY <1>2, MeddledStays DEF Carrying
  <2>4. \A q \in DOMAIN copy' : \E p \in DOMAIN copy : copy'[q] = copy[p]
    BY <1>2, FlagsStay
  <2>5. /\ revision'[FirstField] >= revision[FirstField]
        /\ revision'[FirstField] = revision[FirstField] => value'[FirstField] = value[FirstField]
    BY <2>1, <2>3, RevisionGrows
  <2>6. snap.revision[FirstField] <= revision[FirstField]
    BY <1>2, <2>3 DEF Informing, Informed
  <2>7. snap.revision[FirstField] = revision'[FirstField] => revision'[FirstField] = revision[FirstField]
    BY <1>0, <2>3, <2>5, <2>6 DEF Snapshots
  <2>. QED
    BY <1>2, <2>2, <2>3, <2>4, <2>5, <2>7
<1>3. Push \/ UNCHANGED <<pc, snap, got, taken>>
  BY InformedSteps DEF Informed, ReconcileFound, Store, Locate, ListPending, PushMissing, PushNothing,
     Applied, Ack, Scan, Adopt, Observe, PushFails, NextRow
<1>. QED
  BY <1>1, <1>2, <1>3

LEMMA CarryingKept ==
    ASSUME TypeOK, Placed, Moving, Known, Informing, Carrying, [Next]_vars
    PROVE  Carrying'
<1>. SUFFICES ASSUME ~meddled'
              PROVE  Carrying'
  BY DEF Carrying
<1>1. \A p, q \in DOMAIN copy' : p = q
  BY FlagsStay
<1>2. ASSUME NEW p \in DOMAIN copy', NEW f \in Fields
      PROVE  /\ ~pending'[f] => copy'[p][f] = value'[f]
             /\ \A q \in DOMAIN loc' : loc'[q].applied[f] = revision'[f] => copy'[p][f] = value'[f]
  BY AgreementKept DEF Agrees
<1>. QED
  BY <1>1, <1>2, InHandKept, PushedKept DEF Carrying, Fetching

---------------------------------------------------------------------------
(* The invariant holds. *)

LEMMA InitTypes == Init => TypeOK
<1>. SUFFICES ASSUME Init
              PROVE  TypeOK
  OBVIOUS
<1>1. ServerType
  <2>1. [folder |-> Primary, validity |-> 0, uid |-> 1] \in Places
    BY MailboxAssumption DEF Places
  <2>2. nextUid \in [Folders -> 1..MaxUids + 1]
    BY MailboxAssumption DEF Init
  <2>3. validity \in [Folders -> 0..MaxRecreations]
    BY MailboxAssumption DEF Init
  <2>. QED
    BY <2>1, <2>2, <2>3 DEF ServerType, Init, Flags, Off
<1>2. MessageType
  BY DEF MessageType, Init, Flags, Off
<1>3. LocType /\ MoveType
  BY DEF LocType, MoveType, Init
<1>4. GotType
  BY DEF GotType, Init, Empty
<1>5. PassType
  <2>1. cursor \in [Folders -> [validity : 0..MaxRecreations, seen : 0..MaxUids]]
    BY MailboxAssumption DEF Init
  <2>2. 1 \in 1..2 * Rounds
    BY MailboxAssumption
  <2>3. 0 \in 0..MaxUids /\ Primary \in Folders
    BY MailboxAssumption
  <2>4. "idle" \in Steps
    BY DEF Steps
  <2>. QED
    BY <2>1, <2>2, <2>3, <2>4, NoSnapshotType DEF PassType, Init
<1>6. CountType
  <2>1. marks \in Nat /\ others \in Nat /\ faults \in Nat
    BY DEF Init
  <2>2. {marks, others, faults} \subseteq Nat
    BY <2>1
  <2>. QED
    BY <2>2 DEF CountType, Init
<1>. QED
  BY <1>1, <1>2, <1>3, <1>4, <1>5, <1>6, TypeParts

LEMMA InvInit == Init => Inv
<1>. SUFFICES ASSUME Init
              PROVE  Inv
  OBVIOUS
<1>1. TypeOK
  BY InitTypes
<1>2. Placed
  BY MailboxAssumption DEF Init, Placed, Empty
<1>3. Moving /\ MoveOutcome /\ Known
  BY DEF Init, Moving, MoveOutcome, Known, Off
<1>4. Informing
  BY DEF Init, Informing, Informed
<1>5. Carrying
  BY DEF Init, Carrying, Off
<1>. QED
  BY <1>1, <1>2, <1>3, <1>4, <1>5 DEF Inv

LEMMA InvHolds == Spec => []Inv
<1>1. Inv /\ [Next]_vars => Inv'
  BY TypeKept, PlacedKept, MovesKept, KnownKept, InformingKept, CarryingKept DEF Inv
<1>. QED
  BY InvInit, <1>1, PTL DEF Spec

---------------------------------------------------------------------------
\* Every mailbox stays well-typed, for any folders, flags, moves and bounds.
THEOREM Types == Spec => []TypeOK
<1>1. Inv => TypeOK
  BY DEF Inv
<1>. QED
  BY InvHolds, <1>1, PTL

\* The status a teammate reads of a move is what happened to the mail: its MOVE was sent once
\* at most, not at all while it is PENDING or FAILED, and DONE means that the source is gone.
THEOREM Outcome == Spec => []MoveOutcome
<1>1. Inv => MoveOutcome
  BY DEF Inv
<1>. QED
  BY InvHolds, <1>1, PTL

\* A field that no longer waits for the server is on the server as the teammates see it.
THEOREM Shared == Spec => []SharedHeld
<1>1. Inv => SharedHeld
  BY DEF Inv, Carrying, SharedHeld
<1>. QED
  BY InvHolds, <1>1, PTL

\* A teammate's waiting action is replaced by a teammate's action only.
THEOREM Own == Spec => OwnActionKept
<1>1. ASSUME Inv, [Next]_vars, NEW f \in Fields, pending[f], value'[f] # value[f]
      PROVE  marks' # marks
  <2>2. CASE UNCHANGED messageVars \/ Finish \/ Owe \/ Ack
    BY <1>1, <2>2 DEF messageVars, Finish, Owe, Ack
  <2>3. CASE Store
    BY <1>1, <2>3 DEF Store, Inv, Known, Off
  <2>4. CASE Adopt
    BY <1>1, <2>4 DEF Adopt, Adopted
  <2>5. ASSUME NEW g \in Fields, NEW v \in BOOLEAN, Mark(g, v)
        PROVE  marks' # marks
    <3>1. marks \in Nat
      BY <1>1 DEF Inv, TypeOK
    <3>. QED
      BY <2>5, <3>1 DEF Mark
  <2>. QED
    BY <1>1, <2>2, <2>3, <2>4, <2>5, MessageChanges
<1>2. Inv /\ [Next]_vars
         => [\A f \in Fields : pending[f] /\ value'[f] # value[f] => marks' # marks]_vars
  BY <1>1
<1>. QED
  BY InvHolds, <1>2, PTL DEF Spec, OwnActionKept
=============================================================================
