------------------------- MODULE CampaignRunProofs -------------------------
(***************************************************************************)
(* For any contacts, slots, starts and bounds: the types, without any      *)
(* hypothesis; one row for a contact of a run, of a worker whose locks     *)
(* outlive its handlers and which does not die between the end of a        *)
(* handler and the completion of its job; of a campaign that is run once,  *)
(* the remainder of a test held for its winner; and, where nothing else    *)
(* disturbs it, no run closed before it is done.  Without these hypotheses *)
(* the code does not promise as much (see README).                         *)
(***************************************************************************)
EXTENDS CampaignRun, FiniteSetTheorems, TLAPS

---------------------------------------------------------------------------
(* The types. *)

\* There may be fires, and one may come too early for a time set since.
Recurs == "recur" \in Starts /\ (cron \/ "schedule" \in Starts)

\* What a slot at work holds, and where the keys of fires come from.
SlotKeys ==
    \A s \in Slots :
        /\ pc[s] # "idle" => id[s] \in JobIds /\ key[s] \in Keys
        /\ key[s].kind = "fire" => Recurs
        /\ settling[s] # "no" => pc[s] = "settle"
QueueKeys ==
    /\ \A j \in JobIds : bull[j] # "none" /\ carries[j].kind = "fire" => Recurs
    /\ \A j \in JobIds : owner[j] # NoSlot => bull[j] = "active"
    /\ scheduler \/ cron \/ found.cron \/ call = "recurAdd" => Recurs
CallKeys ==
    /\ call = "schedule" => "schedule" \in Starts
    /\ call = "recur" => "recur" \in Starts
    /\ call \in {"schedule", "scheduleAdd"} => callAt > 0
    /\ call \in {"send", "sendAdd"} => starts > 0

TypeInv == TypeOK /\ SlotKeys /\ QueueKeys /\ CallKeys

---------------------------------------------------------------------------
(* One row for a contact of a run. *)

FanJobs == {j \in JobIds : j.type # "decide"}

\* A slot at work holds the lock of its job.
LockInv ==
    \A s \in Slots :
        pc[s] # "idle" =>
            bull[id[s]] = "active" /\ owner[id[s]] = s /\ carries[id[s]] = key[s]

\* A key goes into the queue with its own job, a copy of it only after that; a key made
\* for the copy of a fire with that copy.
OriginInv ==
    \A j \in JobIds :
        bull[j] # "none" =>
            IF j.type = "early"
            THEN /\ carries[j].kind # "fire"
                 /\ bull[IF carries[j].kind = "early" THEN Early(carries[j].n)
                         ELSE Process(carries[j])] # "none"
            ELSE carries[j] = j.of /\ (j.type = "process" => j.of.kind # "early")

\* The job may still fan out: it is in the queue or at work, its handler not at its end.
Busy(j) ==
    /\ bull[j] \in {"delayed", "waiting", "active"}
    /\ \A s \in Slots : id[s] = j => pc[s] # "finish"

\* No two jobs may still fan out the same run.
ApartInv ==
    \A j, l \in FanJobs : Busy(j) /\ Busy(l) /\ j # l => carries[j] # carries[l]

Fanning == {"start", "upsert", "again", "compose", "queue"}

\* Whoever is about to create the rows of a run finds none; nobody touches a row that
\* was not created.
RowInv ==
    /\ \A s \in Slots :
          /\ pc[s] \in Fanning => id[s] \in FanJobs
          /\ pc[s] = "compose" => RowsOf(key[s]) = {}
          /\ \A r \in todo[s] \union left[s] : row[r] # "none"
    /\ \A r \in Rows :
          /\ mail[r] # "none" \/ r \in found.rows => row[r] # "none"
          /\ r.copy = 2 => row[r] = "none"

---------------------------------------------------------------------------
(* The remainder of a test. *)

Deciding == {"decide", "held", "release", "dispatch", "decided"}

\* Only one run was tested, and whoever decides its test is alone.
TestInv ==
    /\ \A k \in Keys : RowsOf(k) # {} => run[k] # "none"
    /\ ab # "none" => \E k \in Keys : RowsOf(k) # {}
    /\ \A s \in Slots :
          /\ pc[s] \in {"again", "compose", "queue"} => run[key[s]] # "none"
          /\ pc[s] \in Deciding => id[s].type = "decide" /\ RowsOf(key[s]) # {}
          /\ pc[s] \in Deciding \ {"decide"} => ab = "DECIDED"

\* A held row is not at a sender, nor on the way to one.
HeldInv ==
    /\ \A r \in Rows :
          row[r] = "PENDING" => AbEnabled /\ mail[r] = "none" /\ r \notin found.rows
    /\ \A s \in Slots :
          /\ pc[s] \notin {"release", "throw"} => left[s] = {}
          /\ \A r \in todo[s] \ left[s] : row[r] # "PENDING"

---------------------------------------------------------------------------
(* The end of a run. *)

\* The status of a row is where its sender stands; it is sent once.
MailInv ==
    \A r \in Rows :
        /\ mail[r] = "none" => row[r] \in {"none", "PENDING", "QUEUED"}
        /\ mail[r] \in {"queued", "admit"} => row[r] = "QUEUED"
        /\ mail[r] = "smtp" => row[r] = "PROCESSING"
        /\ mail[r] \in {"settle", "done"} => row[r] \notin Pending \union {"none"}

\* What is still to be released is still held.
LeftInv == \A s \in Slots : pc[s] = "release" => \A r \in left[s] : row[r] = "PENDING"

HasRows(k) == RowsOf(k) # {} \/ Contacts = {}
Done(k) == HasRows(k) /\ \A r \in RowsOf(k) : row[r] \notin Pending

\* Who settles a run has seen that it is done, and that does not change before it is
\* written; a campaign is closed with a run.
SettleInv ==
    /\ \A s \in Slots : pc[s] = "settle" => HasRows(key[s])
    /\ \A a \in Slots \union Rows :
          /\ settling[a] = "run" => Done(RunOf(a))
          /\ settling[a] \in {"read", "close", "reschedule"} => run[RunOf(a)] = "SENT"
    /\ \A k \in Keys : run[k] = "SENT" => Done(k)
    /\ campaign = "SENT" => \E k \in Keys : run[k] = "SENT"

---------------------------------------------------------------------------
(* What keys, jobs and rows are made of. *)

LEMMA KeyMade ==
    /\ \A n \in 1..MaxStarts : [kind |-> "manual", n |-> n] \in Keys
    /\ \A n \in 1..MaxTime : [kind |-> "scheduled", n |-> n] \in Keys
    /\ \A n \in 1..MaxFires : [kind |-> "fire", n |-> n] \in Keys
    /\ \A n \in 1..MaxTime :
          {"recur", "schedule"} \subseteq Starts => [kind |-> "early", n |-> n] \in Keys
BY DEF Keys

LEMMA KeyShape ==
    ASSUME NEW k \in Keys
    PROVE  /\ k = [kind |-> k.kind, n |-> k.n]
           /\ k.kind \in {"manual", "scheduled", "fire", "early"}
           /\ k.kind = "scheduled" => k.n \in 1..MaxTime
           /\ k.kind = "early" => k.n \in 1..MaxTime
           /\ k # NoKey
BY DEF Keys, NoKey

LEMMA JobMade ==
    /\ \A k \in Keys : Process(k) \in JobIds /\ Decide(k) \in JobIds
    /\ \A n \in 1..MaxTime : Early(n) \in JobIds
BY DEF Process, Decide, Early, JobIds, Keys

LEMMA JobShape ==
    ASSUME NEW j \in JobIds
    PROVE  /\ j.of \in Keys /\ j.type \in {"process", "early", "decide"}
           /\ j = [type |-> j.type, of |-> j.of]
           /\ j # NoId
BY DEF JobIds, NoId

LEMMA RowShape ==
    /\ \A r \in Rows : r.key \in Keys /\ r.contact \in Contacts /\ r.copy \in {1, 2}
    /\ \A k \in Keys, c \in Contacts, i \in {1, 2} :
          [key |-> k, contact |-> c, copy |-> i] \in Rows
    /\ \A r \in Rows : r = [key |-> r.key, contact |-> r.contact, copy |-> r.copy]
BY DEF Rows

LEMMA Numbers ==
    /\ MaxTime \in Nat /\ MaxStarts \in Nat /\ MaxPauses \in Nat /\ MaxCancels \in Nat
    /\ MaxFires \in Nat /\ MaxFaults \in Nat /\ MaxAttempts \in Nat \ {0}
    /\ FirstAt \in 0..MaxTime /\ NoSlot \notin Slots
BY CampaignAssumption

---------------------------------------------------------------------------
(* What a step keeps, in the parts its actors change. *)

StoredType ==
    /\ campaign \in CampaignStatus
    /\ cron \in BOOLEAN
    /\ at \in 0..MaxTime
    /\ ab \in {"none", "TESTING", "DECIDED", "SENT"}
    /\ run \in [Keys -> {"none", "SENDING", "SENT"}]
    /\ row \in [Rows -> EmailJobStatus \union {"none"}]
QueueType ==
    /\ bull \in [JobIds -> {"none", "delayed", "waiting", "active", "completed", "failed"}]
    /\ owner \in [JobIds -> Slots \union {NoSlot}]
    /\ attempts \in [JobIds -> 0..MaxAttempts]
    /\ carries \in [JobIds -> Keys]
    /\ scheduler \in BOOLEAN
MailType ==
    /\ mail \in [Rows -> {"none", "queued", "admit", "smtp", "settle", "done"}]
    /\ settling \in [Slots \union Rows -> SettlePC]
Steps == {"idle", "load", "start", "upsert", "again", "compose", "queue",
          "decision", "decide", "held", "release", "dispatch",
          "decided", "settle", "finish", "throw"}
SlotType ==
    /\ pc \in [Slots -> Steps]
    /\ id \in [Slots -> JobIds \union {NoId}]
    /\ key \in [Slots -> Keys \union {NoKey}]
    /\ seen \in [Slots -> {"none", "TESTING", "DECIDED", "SENT"}]
    /\ todo \in [Slots -> SUBSET Rows]
    /\ left \in [Slots -> SUBSET Rows]
OtherType ==
    /\ call \in {"idle", "send", "sendAdd", "schedule", "scheduleAdd", "recur", "recurAdd",
                 "pause", "resumeScheduled", "resumeSending"}
    /\ callAt \in 0..MaxTime
    /\ recovery \in {"idle", "add"}
    /\ found \in [at : 0..MaxTime, cron : BOOLEAN, rows : SUBSET Rows]
    /\ now \in 0..MaxTime
    /\ starts \in 0..MaxStarts /\ pauses \in 0..MaxPauses /\ cancels \in 0..MaxCancels
    /\ fires \in 0..MaxFires /\ faults \in 0..MaxFaults

LEMMA TypeParts == TypeOK <=> StoredType /\ QueueType /\ MailType /\ SlotType /\ OtherType
BY DEF TypeOK, StoredType, QueueType, MailType, SlotType, OtherType, Steps

LEMMA TypeInit == Init => TypeInv
<1> SUFFICES ASSUME Init PROVE TypeInv
  OBVIOUS
<1>0. \A j \in JobIds : j.of \in Keys
  BY JobShape
<1>1. StoredType
  BY Numbers DEF Init, StoredType, CampaignStatus
<1>2. QueueType
  <2>1. 0 \in 0..MaxAttempts
    BY Numbers
  <2>2. attempts \in [JobIds -> 0..MaxAttempts]
    BY <2>1 DEF Init
  <2>3. bull \in [JobIds -> {"none", "delayed", "waiting", "active", "completed", "failed"}]
    BY DEF Init
  <2>. QED
    BY <1>0, <2>2, <2>3 DEF Init, QueueType
<1>3. MailType /\ SlotType
  BY DEF Init, MailType, SlotType, SettlePC, Steps
<1>4. OtherType
  BY Numbers DEF Init, OtherType, NothingFound
<1>5. \A s \in Slots : key[s].kind # "fire"
  BY DEF Init, NoKey
<1>6. \A j \in JobIds : bull[j] # "none" => carries[j].kind # "fire"
  BY DEF Init, Process
<1>7. SlotKeys /\ QueueKeys /\ CallKeys
  BY <1>5, <1>6 DEF SlotKeys, QueueKeys, CallKeys, Init, NothingFound, Recurs
<1>. QED
  BY <1>1, <1>2, <1>3, <1>4, <1>7, TypeParts DEF TypeInv

---------------------------------------------------------------------------
(* Every step keeps the types. *)

\* A handler goes on to its next await, with its job and its key.
LEMMA HandlerMoves ==
    ASSUME TypeInv, NEW s \in Slots, NEW p \in Steps \ {"idle"},
           pc[s] \notin {"idle", "settle"}, Goto(s, p),
           UNCHANGED <<cron, owner, attempts, scheduler, id, key>>, Elsewhere,
           \/ bull' = bull /\ carries' = carries
           \/ \E j \in JobIds, k \in Keys : AddJob(j, k) /\ (k.kind = "fire" => Recurs),
           \/ settling' = settling
           \/ settling' = [settling EXCEPT ![s] = "check"] /\ p = "settle",
           StoredType', mail' \in [Rows -> {"none", "queued", "admit", "smtp", "settle", "done"}],
           seen' \in [Slots -> {"none", "TESTING", "DECIDED", "SENT"}],
           todo' \in [Slots -> SUBSET Rows], left' \in [Slots -> SUBSET Rows]
    PROVE  TypeInv'
<1>0. StoredType /\ QueueType /\ MailType /\ SlotType /\ OtherType
  BY TypeParts DEF TypeInv
<1>1. QueueType' /\ QueueKeys'
  <2>1. CASE UNCHANGED <<bull, carries>>
    BY <1>0, <2>1 DEF QueueType, TypeInv, QueueKeys, Recurs, Elsewhere, api, pass
  <2>2. ASSUME NEW j \in JobIds, NEW k \in Keys, AddJob(j, k), k.kind = "fire" => Recurs
        PROVE  QueueType' /\ QueueKeys'
    <3>1. bull' \in [JobIds -> {"none", "delayed", "waiting", "active", "completed", "failed"}]
      BY <1>0, <2>2 DEF AddJob, QueueType
    <3>2. carries' \in [JobIds -> Keys]
      BY <1>0, <2>2 DEF AddJob, QueueType
    <3>3. \A i \in JobIds : bull'[i] # "none" /\ carries'[i].kind = "fire" => Recurs
      BY <1>0, <2>2 DEF AddJob, QueueType, TypeInv, QueueKeys
    <3>4. \A i \in JobIds : owner'[i] # NoSlot => bull'[i] = "active"
      BY <1>0, <2>2 DEF AddJob, QueueType, TypeInv, QueueKeys
    <3>. QED
      BY <1>0, <3>1, <3>2, <3>3, <3>4 DEF QueueType, TypeInv, QueueKeys, Recurs, Elsewhere, api, pass
  <2>. QED
    BY <2>1, <2>2
<1>2. MailType'
  BY <1>0 DEF MailType, SettlePC
<1>3. SlotType' /\ SlotKeys'
  <2>1. pc' \in [Slots -> Steps]
    BY <1>0 DEF SlotType, Goto
  <2>2. SlotType'
    BY <1>0, <2>1 DEF SlotType
  <2>3. \A t \in Slots : settling'[t] # "no" => pc'[t] = "settle"
    BY <1>0 DEF TypeInv, SlotKeys, SlotType, Goto, MailType
  <2>4. \A t \in Slots : pc'[t] # "idle" => pc[t] # "idle"
    BY <1>0 DEF SlotType, Goto
  <2>. QED
    BY <2>2, <2>3, <2>4 DEF TypeInv, SlotKeys, Recurs
<1>4. OtherType' /\ CallKeys'
  BY <1>0 DEF OtherType, TypeInv, CallKeys, Elsewhere, api, pass, world
<1>5. TypeOK'
  BY <1>1, <1>2, <1>3, <1>4, TypeParts, PTL
<1>. QED
  BY <1>1, <1>3, <1>4, <1>5 DEF TypeInv

LEMMA AddMailType ==
    ASSUME MailType, NEW these, AddMail(these)
    PROVE  mail' \in [Rows -> {"none", "queued", "admit", "smtp", "settle", "done"}]
BY DEF AddMail, MailType

LEMMA SlotStepType ==
    ASSUME TypeInv, NEW s \in Slots, SlotStep(s), ~Finish(s)
    PROVE  TypeInv'
<1>0. StoredType /\ QueueType /\ MailType /\ SlotType /\ OtherType
  BY TypeParts DEF TypeInv
<1>1. CASE Load(s)
  <2>1. PICK p \in {"decide", "finish", "start", "upsert"} : Goto(s, p)
    BY <1>1 DEF Load
  <2>2. seen' \in [Slots -> {"none", "TESTING", "DECIDED", "SENT"}]
    BY <1>0, <1>1 DEF Load, SlotType, StoredType
  <2>. QED
    BY <1>0, <1>1, <2>1, <2>2, HandlerMoves
    DEF Load, Steps, stored, queue, StoredType, SlotType, MailType
<1>2. CASE Defer(s)
  <2> DEFINE k == IF key[s].kind = "fire" THEN [kind |-> "early", n |-> at] ELSE key[s]
  <2>1. at \in 1..MaxTime
    BY <1>0, <1>2, Numbers DEF Defer, StoredType, OtherType
  <2>2. Early(at) \in JobIds
    BY <2>1, JobMade
  <2>3. k \in Keys /\ k.kind # "fire"
    BY <1>2, <2>1, KeyMade DEF Defer, TypeInv, SlotKeys, Recurs
  <2>4. AddJob(Early(at), k)
    BY <1>2 DEF Defer
  <2> HIDE DEF k
  <2>. QED
    BY <1>0, <1>2, <2>2, <2>3, <2>4, HandlerMoves
    DEF Defer, Steps, stored, StoredType, SlotType, MailType
<1>3. CASE Start(s)
  <2>1. StoredType'
    BY <1>0, <1>3 DEF Start, StoredType, CampaignStatus
  <2>2. pc[s] \notin {"idle", "settle"} /\ Goto(s, "upsert")
    BY <1>3 DEF Start
  <2>3.  UNCHANGED <<cron, owner, attempts, scheduler, id, key>> /\ Elsewhere
    BY <1>3 DEF Start, queue
  <2>4. UNCHANGED <<bull, carries>> /\ UNCHANGED settling
    BY <1>3 DEF Start, queue
  <2>5. mail' \in [Rows -> {"none", "queued", "admit", "smtp", "settle", "done"}]
    BY <1>0, <1>3 DEF Start, MailType
  <2>6. seen' \in [Slots -> {"none", "TESTING", "DECIDED", "SENT"}]
           /\ todo' \in [Slots -> SUBSET Rows] /\ left' \in [Slots -> SUBSET Rows]
    BY <1>0, <1>3 DEF Start, SlotType
  <2>7. "upsert" \in Steps \ {"idle"}
    BY DEF Steps
  <2>9. TypeInv'
    BY <2>1, <2>2, <2>3, <2>4, <2>5, <2>6, <2>7, HandlerMoves
  <2>. QED
    BY <1>0, <1>3, <2>1, HandlerMoves DEF Start, Steps, queue, SlotType, MailType
<1>4. CASE Upsert(s)
  <2>1. PICK p \in {"again", "compose"} : Goto(s, p)
    BY <1>4 DEF Upsert
  <2>2. StoredType'
    BY <1>0, <1>4 DEF Upsert, StoredType
  <2>3. todo' \in [Slots -> SUBSET Rows]
    BY <1>0, <1>4 DEF Upsert, SlotType, RowsOf
  <2>. QED
    BY <1>0, <1>4, <2>1, <2>2, <2>3, HandlerMoves DEF Upsert, Steps, queue, SlotType, MailType
<1>5. CASE Again(s) \/ EnqueueRows(s)
  <2>1. PICK p \in {"decision", "finish"} : Goto(s, p)
    BY <1>5 DEF Again, EnqueueRows
  <2>2. mail' \in [Rows -> {"none", "queued", "admit", "smtp", "settle", "done"}]
    BY <1>0, <1>5, AddMailType DEF Again, EnqueueRows
  <2>. QED
    BY <1>0, <1>5, <2>1, <2>2, HandlerMoves
    DEF Again, EnqueueRows, Steps, stored, queue, StoredType, SlotType, MailType
<1>6. CASE Refuse(s)
  <2>1. StoredType'
    BY <1>0, <1>6 DEF Refuse, StoredType, CampaignStatus
  <2>. QED
    BY <1>0, <1>6, <2>1, HandlerMoves DEF Refuse, Steps, queue, SlotType, MailType
<1>7. CASE NoRecipients(s)
  BY <1>0, <1>7, HandlerMoves
  DEF NoRecipients, Steps, stored, queue, StoredType, SlotType, MailType
<1>8. CASE FanOut(s)
  <2> DEFINE copy == IF RowsOf(key[s]) = {} THEN 1 ELSE 2
             new == [key : {key[s]}, contact : Contacts, copy : {copy}]
  <2>1. key[s] \in Keys /\ copy \in {1, 2}
    BY <1>8 DEF FanOut, TypeInv, SlotKeys
  <2>2. new \subseteq Rows
    BY <2>1 DEF Rows
  <2> HIDE DEF copy
  <2>3. row' \in [Rows -> EmailJobStatus \union {"none"}]
    <3>1. row' = [r \in Rows |->
                    IF r \notin new THEN row[r]
                    ELSE IF ~AbEnabled \/ r.contact \in Tested THEN "QUEUED" ELSE "PENDING"]
      BY <1>8 DEF FanOut, copy
    <3> HIDE DEF new
    <3>. QED
      BY <1>0, <3>1 DEF StoredType, EmailJobStatus
  <2>4. todo' \in [Slots -> SUBSET Rows]
    <3>1. todo' = [todo EXCEPT ![s] = IF AbEnabled THEN {} ELSE RowsOf(key[s]) \union new]
      BY <1>8 DEF FanOut, copy
    <3>2. RowsOf(key[s]) \union new \subseteq Rows
      BY <2>2 DEF RowsOf
    <3> HIDE DEF new
    <3>. QED
      BY <1>0, <3>1, <3>2 DEF SlotType
  <2>5. StoredType'
    BY <1>0, <1>8, <2>3 DEF FanOut, StoredType
  <2>. QED
    BY <1>0, <1>8, <2>4, <2>5, HandlerMoves DEF FanOut, Steps, queue, SlotType, MailType
<1>9. CASE ScheduleDecision(s)
  <2>1. key[s] \in Keys /\ (key[s].kind = "fire" => Recurs)
    BY <1>9 DEF ScheduleDecision, TypeInv, SlotKeys
  <2>2. Decide(key[s]) \in JobIds
    BY <2>1, JobMade
  <2>. QED
    BY <1>0, <1>9, <2>1, <2>2, HandlerMoves
    DEF ScheduleDecision, Steps, stored, StoredType, SlotType, MailType
<1>10. CASE PickWinner(s)
  <2>1. StoredType'
    BY <1>0, <1>10 DEF PickWinner, StoredType
  <2>. QED
    BY <1>0, <1>10, <2>1, HandlerMoves DEF PickWinner, Steps, queue, SlotType, MailType
<1>11. CASE ReadHeld(s)
  <2>1. todo' \in [Slots -> SUBSET Rows] /\ left' \in [Slots -> SUBSET Rows]
    BY <1>0, <1>11 DEF ReadHeld, SlotType, RowsOf
  <2>. QED
    BY <1>0, <1>11, <2>1, HandlerMoves
    DEF ReadHeld, Steps, stored, queue, StoredType, SlotType, MailType
<1>12. CASE ReleaseRow(s)
  <2>1. Goto(s, "release") \/ Goto(s, "dispatch")
    BY <1>0, <1>12 DEF ReleaseRow, Goto, SlotType
  <2>2. left' \in [Slots -> SUBSET Rows]
    BY <1>0, <1>12 DEF ReleaseRow, SlotType
  <2>3. row' \in [Rows -> EmailJobStatus \union {"none"}]
    BY <1>0, <1>12 DEF ReleaseRow, StoredType, EmailJobStatus
  <2>4. StoredType'
    BY <1>0, <1>12, <2>3 DEF ReleaseRow, StoredType
  <2>. QED
    BY <1>0, <1>12, <2>1, <2>2, <2>4, HandlerMoves
    DEF ReleaseRow, Steps, queue, SlotType, MailType
<1>13. CASE Dispatch(s)
  <2>1. mail' \in [Rows -> {"none", "queued", "admit", "smtp", "settle", "done"}]
    BY <1>0, <1>13, AddMailType DEF Dispatch
  <2>. QED
    BY <1>0, <1>13, <2>1, HandlerMoves
    DEF Dispatch, Steps, stored, queue, StoredType, SlotType, MailType
<1>14. CASE CloseTest(s)
  <2>1. StoredType'
    BY <1>0, <1>14 DEF CloseTest, StoredType
  <2>. QED
    BY <1>0, <1>14, <2>1, HandlerMoves DEF CloseTest, Steps, queue, SlotType, MailType
<1>. QED
  BY <1>1, <1>2, <1>3, <1>4, <1>5, <1>6, <1>7, <1>8, <1>9, <1>10, <1>11, <1>12, <1>13, <1>14
  DEF SlotStep

\* A slot takes a job or gives it back.
LEMMA SlotTurnType ==
    ASSUME TypeInv, NEW s \in Slots,
           \/ Finish(s) \/ Throw(s) \/ Crash(s)
           \/ \E j \in JobIds : Take(s, j)
    PROVE  TypeInv'
<1>0. StoredType /\ QueueType /\ MailType /\ SlotType /\ OtherType
  BY TypeParts DEF TypeInv
<1>1. StoredType'
  BY <1>0 DEF StoredType, Finish, Throw, Crash, Take, stored
<1>2. OtherType' /\ CallKeys'
  <2>1. faults' \in 0..MaxFaults
    BY <1>0, Numbers DEF OtherType, Finish, Throw, Crash, Take, NoFault, Fault
  <2>. QED
    BY <1>0, <2>1 DEF OtherType, TypeInv, CallKeys, Finish, Throw, Crash, Take, api, pass, world
<1>3. SlotType' /\ MailType'
  <2>1. pc' \in [Slots -> Steps]
    BY <1>0 DEF SlotType, Steps, Finish, Throw, Crash, Take, Release
  <2>2. /\ id' \in [Slots -> JobIds \union {NoId}]
        /\ key' \in [Slots -> Keys \union {NoKey}]
    BY <1>0 DEF SlotType, QueueType, Finish, Throw, Crash, Take, Release
  <2>3. /\ seen' \in [Slots -> {"none", "TESTING", "DECIDED", "SENT"}]
        /\ todo' \in [Slots -> SUBSET Rows]
        /\ left' \in [Slots -> SUBSET Rows]
    BY <1>0 DEF SlotType, Finish, Throw, Crash, Take, Release
  <2>4. MailType'
    BY <1>0 DEF MailType, SettlePC, Finish, Throw, Crash, Take
  <2>. QED
    BY <2>1, <2>2, <2>3, <2>4 DEF SlotType
<1>4. SlotKeys'
  <2> SUFFICES ASSUME NEW t \in Slots
               PROVE  /\ pc'[t] # "idle" => id'[t] \in JobIds /\ key'[t] \in Keys
                      /\ key'[t].kind = "fire" => Recurs
                      /\ settling'[t] # "no" => pc'[t] = "settle"
    BY <1>1 DEF SlotKeys, Recurs, Finish, Throw, Crash, Take, stored
  <2>0. /\ pc[t] # "idle" => id[t] \in JobIds /\ key[t] \in Keys
        /\ key[t].kind = "fire" => Recurs
        /\ settling[t] # "no" => pc[t] = "settle"
    BY DEF TypeInv, SlotKeys
  <2>1. CASE t = s
    <3>1. CASE Finish(s) \/ Crash(s)
      BY <1>0, <2>0, <2>1, <3>1 DEF Finish, Crash, Release, SlotType, MailType, NoKey
    <3>2. CASE Throw(s)
      BY <1>0, <2>0, <2>1, <3>2 DEF Throw, SlotType, MailType
    <3>3. ASSUME NEW j \in JobIds, Take(s, j)
          PROVE  /\ pc'[t] # "idle" => id'[t] \in JobIds /\ key'[t] \in Keys
                 /\ key'[t].kind = "fire" => Recurs
                 /\ settling'[t] # "no" => pc'[t] = "settle"
      BY <1>0, <2>0, <2>1, <3>3 DEF Take, SlotType, QueueType, TypeInv, QueueKeys
    <3>. QED
      BY <3>1, <3>2, <3>3
  <2>2. CASE t # s
    BY <1>0, <2>0, <2>2 DEF Finish, Throw, Crash, Take, Release, SlotType, MailType
  <2>. QED
    BY <2>1, <2>2
<1>5. QueueType'
  <2>1. CASE Finish(s)
    <3>1. owner' \in [JobIds -> Slots \union {NoSlot}]
      BY <1>0, <2>1 DEF Finish, QueueType
    <3>2. bull' \in [JobIds -> {"none", "delayed", "waiting", "active", "completed", "failed"}]
      BY <1>0, <2>1 DEF Finish, QueueType
    <3>3. attempts' \in [JobIds -> 0..MaxAttempts]
      <4>1. \A a \in 0..MaxAttempts : a < MaxAttempts => a + 1 \in 0..MaxAttempts
        BY Numbers
      <4>2. attempts' = attempts
            \/ \E j : attempts' = [attempts EXCEPT ![j] =
                          IF pc[s] = "throw" /\ @ < MaxAttempts THEN @ + 1 ELSE @]
        BY <2>1 DEF Finish
      <4>. QED
        BY <1>0, <4>1, <4>2 DEF QueueType
    <3>. QED
      BY <1>0, <2>1, <3>1, <3>2, <3>3 DEF Finish, QueueType
  <2>2. CASE Throw(s)
    BY <1>0, <2>2 DEF Throw, QueueType, queue
  <2>3. CASE Crash(s)
    BY <1>0, <2>3 DEF Crash, QueueType
  <2>4. ASSUME NEW j \in JobIds, Take(s, j) PROVE QueueType'
    BY <1>0, <2>4 DEF Take, QueueType
  <2>. QED
    BY <2>1, <2>2, <2>3, <2>4
<1>6. QueueKeys'
  <2>1. \A j \in JobIds : bull'[j] # "none" => bull[j] # "none"
    <3>1. CASE Finish(s)
      <4> DEFINE b == IF pc[s] = "finish" THEN "completed"
                      ELSE IF id[s].type = "process" /\ attempts[id[s]] + 1 < MaxAttempts
                           THEN "waiting" ELSE "failed"
      <4>1. bull' = bull \/ bull' = [bull EXCEPT ![id[s]] = b]
        BY <3>1 DEF Finish
      <4>2. id[s] \in JobIds
        BY <3>1 DEF Finish, TypeInv, SlotKeys
      <4>3. bull' # bull => bull[id[s]] # "none"
        BY <1>0, <3>1, <4>2, Numbers DEF Finish, TypeInv, QueueKeys, QueueType
      <4> HIDE DEF b
      <4>. QED
        BY <1>0, <4>1, <4>2, <4>3 DEF QueueType
    <3>2. CASE Throw(s) \/ Crash(s)
      BY <3>2 DEF Throw, Crash, queue
    <3>3. ASSUME NEW j \in JobIds, Take(s, j)
          PROVE  \A i \in JobIds : bull'[i] # "none" => bull[i] # "none"
      BY <1>0, <3>3 DEF Take, QueueType
    <3>. QED
      BY <3>1, <3>2, <3>3
  <2>2. UNCHANGED <<carries, scheduler, cron, found, call>>
    BY DEF Finish, Throw, Crash, Take, queue, stored, pass, api
  <2>3. \A j \in JobIds : owner'[j] # NoSlot => bull'[j] = "active"
    <3>1. CASE Finish(s)
      BY <1>0, <3>1 DEF Finish, QueueType, TypeInv, QueueKeys
    <3>2. CASE Throw(s) \/ Crash(s)
      BY <1>0, <3>2 DEF Throw, Crash, queue, QueueType, TypeInv, QueueKeys
    <3>3. ASSUME NEW j \in JobIds, Take(s, j)
          PROVE  \A i \in JobIds : owner'[i] # NoSlot => bull'[i] = "active"
      BY <1>0, <3>3 DEF Take, QueueType, TypeInv, QueueKeys
    <3>. QED
      BY <3>1, <3>2, <3>3
  <2>. QED
    BY <2>1, <2>2, <2>3 DEF TypeInv, QueueKeys, Recurs
<1>7. TypeOK'
  BY <1>1, <1>2, <1>3, <1>5, TypeParts, PTL
<1>. QED
  BY <1>2, <1>4, <1>6, <1>7 DEF TypeInv

\* The settlement of a run, by a slot or by the sender of a row.
LEMMA SettleType ==
    ASSUME TypeInv, NEW a \in Slots \union Rows, Settle(a)
    PROVE  TypeInv'
<1>0. StoredType /\ QueueType /\ MailType /\ SlotType /\ OtherType
  BY TypeParts DEF TypeInv
<1>1. UNCHANGED <<cron, queue, id, key, seen, todo, left>> /\ Elsewhere
  BY DEF Settle, SettleCheck, SettleRun, SettleRead, SettleCampaign, stored, queue
<1>2. PICK to \in SettlePC :
          Return(a) \/ (Settling(a, to) /\ to # "no" /\ settling[a] # "no")
  BY DEF Settle, SettleCheck, SettleRun, SettleRead, SettleCampaign, SettlePC
<1>3. settling[a] # "no"
  BY DEF Settle, SettleCheck, SettleRun, SettleRead, SettleCampaign
<1>4. StoredType'
  BY <1>0 DEF StoredType, CampaignStatus, Settle, SettleCheck, SettleRun, SettleRead,
     SettleCampaign, stored
<1>5. QueueType' /\ QueueKeys' /\ OtherType' /\ CallKeys'
  BY <1>0, <1>1 DEF QueueType, OtherType, TypeInv, QueueKeys, CallKeys, Recurs, Elsewhere,
     queue, api, pass, world
<1>6. MailType'
  BY <1>0, <1>2 DEF MailType, Return, Settling, SettlePC
<1>7. SlotType'
  BY <1>0, <1>1, <1>2 DEF SlotType, Return, Settling, Goto, Steps
<1>8. SlotKeys'
  <2> SUFFICES ASSUME NEW t \in Slots
               PROVE  /\ pc'[t] # "idle" => pc[t] # "idle"
                      /\ settling'[t] # "no" => pc'[t] = "settle"
    BY <1>1 DEF SlotKeys, Recurs, TypeInv
  <2>1. settling[t] # "no" => pc[t] = "settle"
    BY DEF TypeInv, SlotKeys
  <2>. QED
    BY <1>0, <1>2, <1>3, <2>1 DEF Return, Settling, Goto, SlotType, MailType
<1>9. TypeOK'
  BY <1>4, <1>5, <1>6, <1>7, TypeParts, PTL
<1>. QED
  BY <1>5, <1>8, <1>9 DEF TypeInv

\* The sender of a row, and the Outbox: what they change has these types, and no slot
\* is a row.
LEMMA RowStepType ==
    ASSUME TypeInv, NEW r \in Rows, MailStep(r) \/ MailLost(r) \/ CancelRow(r)
    PROVE  TypeInv'
<1>0. StoredType /\ QueueType /\ MailType /\ SlotType /\ OtherType
  BY TypeParts DEF TypeInv
<1>1. UNCHANGED <<campaign, cron, at, ab, run, queue, slots, api, pass, world>>
  BY DEF MailStep, MailLost, CancelRow, MailRead, MailSuppress, MailClaim, MailOutcome,
     MailAmbiguous, MailRetry, Elsewhere, stored
<1>2. row' = row \/ \E o \in EmailJobStatus : row' = [row EXCEPT ![r] = o]
  BY DEF MailStep, MailLost, CancelRow, MailRead, MailSuppress, MailClaim, MailOutcome,
     MailAmbiguous, MailRetry, stored, EmailJobStatus
<1>3. \E m \in {"none", "queued", "admit", "smtp", "settle", "done"} :
          mail' = [mail EXCEPT ![r] = m]
  <2>1. CASE CancelRow(r)
    BY <1>0, <2>1 DEF CancelRow, MailType
  <2>. QED
    BY <1>0, <2>1 DEF MailStep, MailLost, MailRead, MailSuppress, MailClaim, MailOutcome,
       MailAmbiguous, MailRetry
<1>4. settling' = settling \/ \E to \in {"no", "check"} : settling' = [settling EXCEPT ![r] = to]
  BY DEF MailStep, MailLost, CancelRow, MailRead, MailSuppress, MailClaim, MailOutcome,
     MailAmbiguous, MailRetry
<1>5. faults' \in 0..MaxFaults /\ cancels' \in 0..MaxCancels
  <2>1. faults' \in 0..MaxFaults
    BY <1>0, Numbers DEF OtherType, MailStep, MailLost, CancelRow, MailRead, MailSuppress,
       MailClaim, MailOutcome, MailAmbiguous, MailRetry, Elsewhere, NoFault, Fault
  <2>2. cancels' \in 0..MaxCancels
    BY <1>0, Numbers DEF OtherType, MailStep, MailLost, CancelRow, MailRead, MailSuppress,
       MailClaim, MailOutcome, MailAmbiguous, MailRetry, Elsewhere
  <2>. QED
    BY <2>1, <2>2
<1>6. StoredType'
  BY <1>0, <1>1, <1>2 DEF StoredType
<1>7. QueueType' /\ QueueKeys' /\ CallKeys' /\ SlotType'
  BY <1>0, <1>1 DEF QueueType, TypeInv, QueueKeys, CallKeys, Recurs, SlotType, queue, api, pass,
     slots
<1>8. OtherType'
  BY <1>0, <1>1, <1>5 DEF OtherType, api, pass, world
<1>9. MailType'
  BY <1>0, <1>3, <1>4 DEF MailType, SettlePC
<1>10. SlotKeys'
  <2>1. \A s \in Slots : settling'[s] = settling[s]
    BY <1>0, <1>4, ActorsAssumption DEF MailType
  <2>. QED
    BY <1>1, <2>1 DEF TypeInv, SlotKeys, Recurs, slots
<1>11. TypeOK'
  BY <1>6, <1>7, <1>8, <1>9, TypeParts, PTL
<1>. QED
  BY <1>7, <1>10, <1>11 DEF TypeInv

\* A job is added by somebody who is no slot.
LEMMA AddJobType ==
    ASSUME TypeInv, NEW j \in JobIds, NEW k \in Keys, AddJob(j, k), k.kind = "fire" => Recurs,
           UNCHANGED <<owner, attempts, cron>>, scheduler' \in BOOLEAN,
           scheduler' \/ found'.cron \/ call' = "recurAdd" => Recurs
    PROVE  QueueType' /\ QueueKeys'
<1>0. QueueType
  BY TypeParts DEF TypeInv
<1>1. bull' \in [JobIds -> {"none", "delayed", "waiting", "active", "completed", "failed"}]
  BY <1>0 DEF AddJob, QueueType
<1>2. carries' \in [JobIds -> Keys]
  BY <1>0 DEF AddJob, QueueType
<1>3. \A i \in JobIds : bull'[i] # "none" /\ carries'[i].kind = "fire" => Recurs
  BY <1>0 DEF AddJob, QueueType, TypeInv, QueueKeys
<1>4. \A i \in JobIds : owner'[i] # NoSlot => bull'[i] = "active"
  BY <1>0 DEF AddJob, QueueType, TypeInv, QueueKeys
<1>. QED
  BY <1>0, <1>1, <1>2, <1>3, <1>4 DEF QueueType, TypeInv, QueueKeys, Recurs

\* The queue, the scheduler and the clock.
LEMMA QueueStepType ==
    ASSUME TypeInv, RedisLoss \/ Fire \/ Tick \/ \E j \in JobIds : LockExpires(j)
    PROVE  TypeInv'
<1>0. StoredType /\ QueueType /\ MailType /\ SlotType /\ OtherType
  BY TypeParts DEF TypeInv
<1>1. UNCHANGED <<stored, slots, settling, api, pass, cancels>>
  BY DEF RedisLoss, Fire, Tick, LockExpires
<1>2. StoredType' /\ SlotType' /\ SlotKeys' /\ CallKeys'
  BY <1>0, <1>1 DEF StoredType, SlotType, TypeInv, SlotKeys, CallKeys, Recurs, stored, slots, api
<1>3. MailType'
  BY <1>0, <1>1 DEF RedisLoss, Fire, Tick, LockExpires, MailType
<1>4. OtherType'
  <2>1. faults' \in 0..MaxFaults
    BY <1>0, Numbers DEF OtherType, RedisLoss, Fire, Tick, LockExpires, NoFault, Fault
  <2>2. now' \in 0..MaxTime /\ fires' \in 0..MaxFires
    BY <1>0, Numbers DEF OtherType, RedisLoss, Fire, Tick, LockExpires, world
  <2>. QED
    BY <1>0, <1>1, <2>1, <2>2 DEF OtherType, api, pass
<1>5. QueueType' /\ QueueKeys'
  <2>1. CASE RedisLoss
    <3>1. \A j \in JobIds : j.of \in Keys
      BY JobShape
    <3>2. 0 \in 0..MaxAttempts
      BY Numbers
    <3>3. attempts' \in [JobIds -> 0..MaxAttempts]
      BY <2>1, <3>2 DEF RedisLoss
    <3>4. QueueType'
      BY <2>1, <3>1, <3>3 DEF RedisLoss, QueueType
    <3>5. QueueKeys'
      BY <1>1, <2>1 DEF RedisLoss, TypeInv, QueueKeys, Recurs, stored, api, pass
    <3>. QED
      BY <3>4, <3>5
  <2>2. CASE Fire
    <3> DEFINE k == [kind |-> "fire", n |-> fires + 1]
    <3>1. fires + 1 \in 1..MaxFires
      BY <1>0, <2>2, Numbers DEF Fire, OtherType
    <3>2. k \in Keys
      BY <3>1, KeyMade
    <3>3. Process(k) \in JobIds
      BY <3>2, JobMade
    <3>4. Recurs
      BY <2>2 DEF Fire, TypeInv, QueueKeys
    <3>5. AddJob(Process(k), k)
      BY <2>2 DEF Fire
    <3>6. UNCHANGED <<owner, attempts, scheduler, cron, found, call>>
      BY <1>1, <2>2 DEF Fire, stored, pass, api
    <3> HIDE DEF k
    <3>. QED
      BY <1>0, <3>2, <3>3, <3>4, <3>5, <3>6, AddJobType DEF QueueType
  <2>3. CASE Tick
    BY <1>0, <1>1, <2>3 DEF Tick, QueueType, TypeInv, QueueKeys, Recurs, queue, stored, api, pass
  <2>4. ASSUME NEW j \in JobIds, LockExpires(j) PROVE QueueType' /\ QueueKeys'
    BY <1>0, <1>1, <2>4 DEF LockExpires, QueueType, TypeInv, QueueKeys, Recurs, stored, api, pass
  <2>. QED
    BY <2>1, <2>2, <2>3, <2>4
<1>6. TypeOK'
  BY <1>2, <1>3, <1>4, <1>5, TypeParts, PTL
<1>. QED
  BY <1>2, <1>5, <1>6 DEF TypeInv

\* The recovery pass.
LEMMA RecoverType ==
    ASSUME TypeInv, Recover
    PROVE  TypeInv'
<1>0. StoredType /\ QueueType /\ MailType /\ SlotType /\ OtherType
  BY TypeParts DEF TypeInv
<1>1. UNCHANGED <<stored, owner, attempts, slots, settling, api, world, cancels, faults>>
  BY DEF Recover, RecoverRead, RecoverAdd, NoFault, queue
<1>2. StoredType' /\ SlotType' /\ SlotKeys' /\ CallKeys'
  BY <1>0, <1>1 DEF StoredType, SlotType, TypeInv, SlotKeys, CallKeys, Recurs, stored, slots, api
<1>3. MailType'
  <2>1. mail' \in [Rows -> {"none", "queued", "admit", "smtp", "settle", "done"}]
    BY <1>0, AddMailType DEF Recover, RecoverRead, RecoverAdd, MailType
  <2>. QED
    BY <1>0, <1>1, <2>1 DEF MailType
<1>4. OtherType'
  <2>1. found' \in [at : 0..MaxTime, cron : BOOLEAN, rows : SUBSET Rows]
    <3>1. CASE RecoverRead
      <4> DEFINE t == IF campaign = "SCHEDULED" /\ ~cron THEN at ELSE 0
                 c == campaign = "SCHEDULED" /\ cron
                 these == {r \in Rows : row[r] = "QUEUED"}
      <4>1. found' = [at |-> t, cron |-> c, rows |-> these]
        BY <3>1 DEF RecoverRead
      <4>2. t \in 0..MaxTime
        BY <1>0, Numbers DEF StoredType
      <4>3. c \in BOOLEAN /\ these \subseteq Rows
        OBVIOUS
      <4> HIDE DEF t, c, these
      <4>. QED
        BY <4>1, <4>2, <4>3
    <3>2. CASE RecoverAdd
      BY <3>2, Numbers DEF RecoverAdd, NothingFound
    <3>. QED
      BY <3>1, <3>2 DEF Recover
  <2>. QED
    BY <1>0, <1>1, <2>1 DEF OtherType, api, world, Recover, RecoverRead, RecoverAdd
<1>5. QueueType' /\ QueueKeys'
  <2>1. CASE RecoverRead
    <3>1. found'.cron => cron
      BY <2>1 DEF RecoverRead
    <3>. QED
      BY <1>0, <1>1, <2>1, <3>1 DEF RecoverRead, QueueType, TypeInv, QueueKeys, Recurs, queue,
         stored, api
  <2>2. CASE RecoverAdd
    <3>1. scheduler' \in BOOLEAN /\ (scheduler' => Recurs) /\ ~found'.cron
      BY <1>0, <2>2 DEF RecoverAdd, QueueType, OtherType, TypeInv, QueueKeys, NothingFound
    <3>2. UNCHANGED <<owner, attempts, cron, call>>
      BY <1>1 DEF stored, api
    <3>3. CASE found.at = 0
      BY <1>0, <2>2, <3>1, <3>2, <3>3 DEF RecoverAdd, QueueType, TypeInv, QueueKeys, Recurs
    <3>4. CASE found.at # 0
      <4> DEFINE k == [kind |-> "scheduled", n |-> found.at]
      <4>1. found.at \in 1..MaxTime
        BY <1>0, <3>4, Numbers DEF OtherType
      <4>2. k \in Keys
        BY <4>1, KeyMade
      <4>3. Process(k) \in JobIds
        BY <4>2, JobMade
      <4>4. AddJob(Process(k), k) /\ k.kind # "fire"
        BY <2>2, <3>4 DEF RecoverAdd
      <4>5. call' = "recurAdd" => Recurs
        BY <3>2 DEF TypeInv, QueueKeys
      <4> HIDE DEF k
      <4>. QED
        BY <3>1, <3>2, <4>2, <4>3, <4>4, <4>5, AddJobType
    <3>. QED
      BY <3>3, <3>4
  <2>. QED
    BY <2>1, <2>2 DEF Recover
<1>6. TypeOK'
  BY <1>2, <1>3, <1>4, <1>5, TypeParts, PTL
<1>. QED
  BY <1>2, <1>5, <1>6 DEF TypeInv

ApiCalls ==
    \/ \E how \in Starts, t \in 0..MaxTime : StartCheck(how, t)
    \/ ApiStep \/ PauseCheck \/ ResumeCheck \/ CallFails

\* The calls of the API.
LEMMA ApiType ==
    ASSUME TypeInv, ApiCalls
    PROVE  TypeInv'
<1>0. StoredType /\ QueueType /\ MailType /\ SlotType /\ OtherType
  BY TypeParts DEF TypeInv
<1> USE DEF ApiCalls, ApiStep
<1>1. UNCHANGED <<ab, run, row, owner, attempts, mail, slots, settling, pass, world, cancels>>
  BY DEF StartCheck, SendNow, Schedule, SetRecurrence, StartAdd, PauseCheck, Pause, ResumeCheck,
     Resume, CallFails, ApiOnly, stored, queue
<1>2. StoredType'
  <2>1. campaign' \in CampaignStatus /\ cron' \in BOOLEAN
    BY <1>0 DEF StoredType, CampaignStatus, StartCheck, SendNow, Schedule, SetRecurrence,
       StartAdd, PauseCheck, Pause, ResumeCheck, Resume, CallFails, stored
  <2>2. at' \in {at, callAt, 0}
    BY DEF StartCheck, SendNow, Schedule, SetRecurrence,
       StartAdd, PauseCheck, Pause, ResumeCheck, Resume, CallFails, stored
  <2>3. at' \in 0..MaxTime
    BY <1>0, <2>2, Numbers DEF StoredType, OtherType
  <2>. QED
    BY <1>0, <1>1, <2>1, <2>3 DEF StoredType
<1>3. OtherType'
  <2>1. faults' \in 0..MaxFaults
    BY <1>0, Numbers DEF OtherType, StartCheck, SendNow, Schedule, SetRecurrence,
       StartAdd, PauseCheck, Pause, ResumeCheck, Resume, CallFails, ApiOnly, Fault
  <2>2. starts' \in 0..MaxStarts /\ pauses' \in 0..MaxPauses
    BY <1>0, Numbers DEF OtherType, StartCheck, SendNow, Schedule, SetRecurrence,
       StartAdd, PauseCheck, Pause, ResumeCheck, Resume, CallFails, Calling
  <2>3. callAt' \in 0..MaxTime
    BY <1>0, Numbers DEF OtherType, StartCheck, SendNow, Schedule, SetRecurrence,
       StartAdd, PauseCheck, Pause, ResumeCheck, Resume, CallFails
  <2>4. call' \in {"idle", "send", "sendAdd", "schedule", "scheduleAdd", "recur", "recurAdd",
                   "pause", "resumeScheduled", "resumeSending"}
    BY <1>0, CampaignAssumption DEF OtherType, StartCheck, SendNow, Schedule, SetRecurrence,
       StartAdd, PauseCheck, Pause, ResumeCheck, Resume, CallFails, Calling
  <2>. QED
    BY <1>0, <1>1, <2>1, <2>2, <2>3, <2>4 DEF OtherType, pass, world
<1>4. MailType' /\ SlotType'
  BY <1>0, <1>1 DEF MailType, SlotType, slots
<1>5. Recurs => Recurs'
  BY DEF Recurs, TypeInv, CallKeys, StartCheck, SendNow, Schedule, SetRecurrence,
     StartAdd, PauseCheck, Pause, ResumeCheck, Resume, CallFails, stored
<1>6. SlotKeys'
  BY <1>1, <1>5 DEF TypeInv, SlotKeys, slots
<1>7. CallKeys'
  <2>1. ASSUME NEW how \in Starts, NEW t \in 0..MaxTime, StartCheck(how, t) PROVE CallKeys'
    <3>1. starts' > 0 /\ (how = "schedule" => t > 0)
      BY <1>0, <2>1, Numbers DEF StartCheck, OtherType
    <3>2. how \notin {"scheduleAdd", "sendAdd"}
      BY CampaignAssumption
    <3>. QED
      BY <2>1, <3>1, <3>2 DEF StartCheck, CallKeys
  <2>2. CASE ApiStep
    BY <2>2 DEF TypeInv, CallKeys, SendNow, Schedule, SetRecurrence, StartAdd, Pause, Resume,
       Calling
  <2>3. CASE PauseCheck \/ ResumeCheck \/ CallFails
    BY <2>3 DEF CallKeys, PauseCheck, ResumeCheck, CallFails, Calling
  <2>. QED
    BY <2>1, <2>2, <2>3
<1>8. QueueType' /\ QueueKeys'
  <2>1. UNCHANGED <<owner, attempts, found>>
    BY <1>1 DEF pass
  <2>2. /\ scheduler' \in BOOLEAN
        /\ scheduler' \/ cron' \/ call' = "recurAdd" => Recurs'
    <3>1. scheduler \in BOOLEAN /\ cron \in BOOLEAN
      BY <1>0 DEF QueueType, StoredType
    <3>2. /\ scheduler' \in BOOLEAN
          /\ scheduler' => scheduler \/ cron \/ call = "recurAdd"
      <4>1. \/ scheduler' = scheduler
            \/ call = "recurAdd" /\ scheduler' = TRUE
            \/ scheduler' = (scheduler /\ ~cron)
            \/ scheduler' = (scheduler \/ cron)
        BY DEF StartCheck, SendNow, Schedule, SetRecurrence, StartAdd, PauseCheck, Pause,
           ResumeCheck, Resume, CallFails, queue
      <4>2. CASE scheduler' = scheduler
        BY <3>1, <4>2
      <4>3. CASE call = "recurAdd" /\ scheduler' = TRUE
        BY <4>3
      <4>4. CASE scheduler' = (scheduler /\ ~cron)
        <5>1. (scheduler /\ ~cron) \in BOOLEAN
          OBVIOUS
        <5>2. CASE scheduler /\ ~cron
          BY <4>4, <5>1, <5>2
        <5>3. CASE ~(scheduler /\ ~cron)
          BY <4>4, <5>1, <5>3
        <5>. QED
          BY <5>2, <5>3
      <4>5. CASE scheduler' = (scheduler \/ cron)
        <5>1. (scheduler \/ cron) \in BOOLEAN
          OBVIOUS
        <5>2. CASE scheduler \/ cron
          BY <4>5, <5>1, <5>2
        <5>3. CASE ~(scheduler \/ cron)
          BY <4>5, <5>1, <5>3
        <5>. QED
          BY <5>2, <5>3
      <4>. QED
        BY <4>1, <4>2, <4>3, <4>4, <4>5
    <3>3. cron' => cron \/ SetRecurrence
      BY DEF StartCheck, SendNow, Schedule, StartAdd, PauseCheck, Pause, ResumeCheck, Resume,
         CallFails, stored
    <3>4. call' = "recurAdd" => SetRecurrence
      BY CampaignAssumption DEF StartCheck, SendNow, Schedule, StartAdd, PauseCheck, Pause,
         ResumeCheck, Resume, CallFails, Calling
    <3>5. SetRecurrence => Recurs'
      BY DEF SetRecurrence, TypeInv, CallKeys, Recurs
    <3>. QED
      BY <1>5, <3>2, <3>3, <3>4, <3>5 DEF TypeInv, QueueKeys
  <2>3. CASE UNCHANGED <<bull, carries>>
    BY <1>0, <1>5, <2>1, <2>2, <2>3 DEF QueueType, TypeInv, QueueKeys
  <2>4. CASE ~UNCHANGED <<bull, carries>>
    <3> DEFINE k == IF call = "sendAdd" THEN [kind |-> "manual", n |-> starts]
                    ELSE [kind |-> "scheduled", n |-> callAt]
    <3>1. StartAdd /\ call \in {"sendAdd", "scheduleAdd"} /\ AddJob(Process(k), k)
          /\ UNCHANGED scheduler /\ call' = "idle"
      BY <2>4 DEF StartCheck, SendNow, Schedule, SetRecurrence, StartAdd, PauseCheck, Pause,
         ResumeCheck, Resume, CallFails, Calling, queue
    <3>2. k \in Keys
      BY <1>0, <3>1, KeyMade, Numbers DEF OtherType, TypeInv, CallKeys
    <3>3. Process(k) \in JobIds
      BY <3>2, JobMade
    <3>4. k.kind # "fire"
      OBVIOUS
    <3>5. UNCHANGED cron
      BY <3>1 DEF StartAdd, stored
    <3>6. found'.cron => Recurs
      BY <2>1 DEF TypeInv, QueueKeys
    <3>7. scheduler' => Recurs
      BY <3>1 DEF TypeInv, QueueKeys
    <3> HIDE DEF k
    <3>. QED
      BY <2>1, <2>2, <3>1, <3>2, <3>3, <3>4, <3>5, <3>6, <3>7, AddJobType
  <2>. QED
    BY <2>3, <2>4
<1>9. TypeOK'
  BY <1>2, <1>3, <1>4, <1>8, TypeParts, PTL
<1>. QED
  BY <1>6, <1>7, <1>8, <1>9 DEF TypeInv

LEMMA TypeStep == TypeInv /\ [Next]_vars => TypeInv'
<1> SUFFICES ASSUME TypeInv, [Next]_vars PROVE TypeInv'
  OBVIOUS
<1>1. CASE UNCHANGED vars
  BY <1>1 DEF vars, stored, queue, slots, api, pass, world, TypeInv, TypeOK, SlotKeys, QueueKeys,
     CallKeys, Recurs
<1>2. ASSUME NEW s \in Slots, SlotStep(s) \/ Throw(s) \/ Crash(s) \/ \E j \in JobIds : Take(s, j)
      PROVE  TypeInv'
  BY <1>2, SlotStepType, SlotTurnType
<1>3. ASSUME NEW a \in Slots \union Rows, Settle(a) PROVE TypeInv'
  BY <1>3, SettleType
<1>4. ASSUME NEW r \in Rows, MailStep(r) \/ MailLost(r) \/ CancelRow(r) PROVE TypeInv'
  BY <1>4, RowStepType
<1>5. CASE RedisLoss \/ Fire \/ Tick \/ \E j \in JobIds : LockExpires(j)
  BY <1>5, QueueStepType
<1>6. CASE Recover
  BY <1>6, RecoverType
<1>7. CASE ApiCalls
  BY <1>7, ApiType
<1>. QED
  BY <1>1, <1>2, <1>3, <1>4, <1>5, <1>6, <1>7 DEF Next, ApiCalls

\* Every variable keeps the type the code gives it, whoever starts, pauses, resumes and
\* reschedules the campaign and however its jobs are lost, deferred or retried: what is
\* looked up by an occurrence key has that key.
THEOREM TypeCorrect == Spec => []TypeOK
<1>1. TypeInv => TypeOK
  BY DEF TypeInv
<1>. QED
  BY <1>1, TypeInit, TypeStep, PTL DEF Spec

---------------------------------------------------------------------------
(* The queue: no two jobs may still fan out one run. *)

\* What is proved of the rows is proved of a worker whose locks outlive its handlers
\* ("stall" is no fault), and which does not die when a handler is at its end and its job
\* not yet completed: a job handed out again then would run next to the copy the early-run
\* guard has made of it (campaign-processing.worker.ts:115-137).
Completes == \A s \in Slots : Crash(s) => pc[s] # "finish"

\* The steps of a handler up to its end, and of the settlement a slot makes.
Handles(s) == (SlotStep(s) /\ ~Finish(s)) \/ Settle(s)

LEMMA HandlerFacts ==
    ASSUME TypeInv, NEW s \in Slots, Handles(s)
    PROVE  /\ pc[s] \notin {"idle", "finish", "throw"} /\ pc'[s] # "idle"
           /\ \A t \in Slots \ {s} : pc'[t] = pc[t]
           /\ UNCHANGED <<id, key, owner>>
           /\ Defer(s) \/ ScheduleDecision(s) \/ UNCHANGED <<bull, carries>>
<1>0. StoredType /\ QueueType /\ MailType /\ SlotType /\ OtherType
  BY TypeParts DEF TypeInv
<1>1. CASE Settle(s)
  <2>1. pc[s] = "settle"
    BY <1>1 DEF Settle, SettleCheck, SettleRun, SettleRead, SettleCampaign, TypeInv, SlotKeys
  <2>2. UNCHANGED <<queue, id, key>>
    BY <1>1 DEF Settle, SettleCheck, SettleRun, SettleRead, SettleCampaign, stored, queue
  <2>3. UNCHANGED pc \/ Goto(s, "finish")
    BY <1>1 DEF Settle, SettleCheck, SettleRun, SettleRead, SettleCampaign, Settling, Return
  <2>. QED
    BY <1>0, <2>1, <2>2, <2>3 DEF SlotType, Goto, queue
<1>2. CASE SlotStep(s) /\ ~Finish(s)
  <2>1. pc[s] \notin {"idle", "finish", "throw"}
    BY <1>2 DEF SlotStep, Load, Defer, Start, Upsert, Again, Refuse, NoRecipients, FanOut,
       EnqueueRows, ScheduleDecision, PickWinner, ReadHeld, ReleaseRow, Dispatch, CloseTest
  <2>2. UNCHANGED pc \/ \E p \in Steps \ {"idle"} : Goto(s, p)
    BY <1>2 DEF SlotStep, Load, Defer, Start, Upsert, Again, Refuse, NoRecipients, FanOut,
       EnqueueRows, ScheduleDecision, PickWinner, ReadHeld, ReleaseRow, Dispatch, CloseTest, Steps
  <2>3. UNCHANGED <<id, key, owner>>
    BY <1>2 DEF SlotStep, Load, Defer, Start, Upsert, Again, Refuse, NoRecipients, FanOut,
       EnqueueRows, ScheduleDecision, PickWinner, ReadHeld, ReleaseRow, Dispatch, CloseTest, queue
  <2>4. Defer(s) \/ ScheduleDecision(s) \/ UNCHANGED <<bull, carries>>
    BY <1>2 DEF SlotStep, Load, Start, Upsert, Again, Refuse, NoRecipients, FanOut,
       EnqueueRows, PickWinner, ReadHeld, ReleaseRow, Dispatch, CloseTest, queue
  <2>5. pc'[s] # "idle" /\ \A t \in Slots \ {s} : pc'[t] = pc[t]
    BY <1>0, <2>1, <2>2 DEF SlotType, Goto
  <2>. QED
    BY <2>1, <2>3, <2>4, <2>5
<1>. QED
  BY <1>1, <1>2 DEF Handles

\* Everybody else but the slots and the locks: they add a job, or leave the queue alone.
Others ==
    \/ \E r \in Rows : MailStep(r) \/ MailLost(r) \/ CancelRow(r) \/ Settle(r)
    \/ Fire \/ Tick \/ Recover \/ ApiCalls

LEMMA OtherFacts ==
    ASSUME TypeInv, Others
    PROVE  /\ UNCHANGED <<pc, id, key, todo, left, owner>>
           /\ \/ UNCHANGED <<bull, carries>>
              \/ \E k \in Keys : k.kind # "early" /\ AddJob(Process(k), k)
<1>0. StoredType /\ QueueType /\ MailType /\ SlotType /\ OtherType
  BY TypeParts DEF TypeInv
<1>1. ASSUME NEW r \in Rows, MailStep(r) \/ MailLost(r) \/ CancelRow(r)
      PROVE  UNCHANGED <<pc, id, key, todo, left, owner, bull, carries>>
  BY <1>1 DEF MailStep, MailLost, CancelRow, MailRead, MailSuppress, MailClaim, MailOutcome,
     MailAmbiguous, MailRetry, queue, slots
<1>2. ASSUME NEW r \in Rows, Settle(r)
      PROVE  UNCHANGED <<pc, id, key, todo, left, owner, bull, carries>>
  BY <1>2, ActorsAssumption DEF Settle, SettleCheck, SettleRun, SettleRead, SettleCampaign, queue,
     Return, Settling
<1>3. CASE Fire
  <2> DEFINE k == [kind |-> "fire", n |-> fires + 1]
  <2>1. fires + 1 \in 1..MaxFires
    BY <1>0, <1>3, Numbers DEF Fire, OtherType
  <2>2. k \in Keys
    BY <2>1, KeyMade
  <2>3. k.kind # "early" /\ AddJob(Process(k), k)
    BY <1>3 DEF Fire
  <2> HIDE DEF k
  <2>. QED
    BY <1>3, <2>2, <2>3 DEF Fire, slots
<1>4. CASE Tick
  BY <1>4 DEF Tick, slots, queue
<1>5. CASE Recover
  <2>1. UNCHANGED <<pc, id, key, todo, left, owner>>
    BY <1>5 DEF Recover, RecoverRead, RecoverAdd, slots, queue
  <2>2. CASE RecoverAdd /\ found.at # 0
    <3> DEFINE k == [kind |-> "scheduled", n |-> found.at]
    <3>1. found.at \in 1..MaxTime
      BY <1>0, <2>2, Numbers DEF OtherType
    <3>2. k \in Keys
      BY <3>1, KeyMade
    <3>3. k.kind # "early" /\ AddJob(Process(k), k)
      BY <2>2 DEF RecoverAdd
    <3> HIDE DEF k
    <3>. QED
      BY <2>1, <3>2, <3>3
  <2>3. CASE ~(RecoverAdd /\ found.at # 0)
    BY <1>5, <2>1, <2>3 DEF Recover, RecoverRead, RecoverAdd, queue
  <2>. QED
    BY <2>2, <2>3
<1>6. CASE ApiCalls
  <2>1. UNCHANGED <<pc, id, key, todo, left, owner>>
    BY <1>6 DEF ApiCalls, ApiStep, StartCheck, SendNow, Schedule, SetRecurrence, StartAdd,
       PauseCheck, Pause, ResumeCheck, Resume, CallFails, ApiOnly, slots, queue
  <2>2. CASE UNCHANGED <<bull, carries>>
    BY <2>1, <2>2
  <2>3. CASE ~UNCHANGED <<bull, carries>>
    <3> DEFINE k == IF call = "sendAdd" THEN [kind |-> "manual", n |-> starts]
                    ELSE [kind |-> "scheduled", n |-> callAt]
    <3>1. call \in {"sendAdd", "scheduleAdd"} /\ AddJob(Process(k), k)
      BY <1>6, <2>3 DEF ApiCalls, ApiStep, StartCheck, SendNow, Schedule, SetRecurrence, StartAdd,
         PauseCheck, Pause, ResumeCheck, Resume, CallFails, queue
    <3>2. k \in Keys
      BY <1>0, <3>1, KeyMade, Numbers DEF OtherType, TypeInv, CallKeys
    <3>3. k.kind # "early"
      OBVIOUS
    <3> HIDE DEF k
    <3>. QED
      BY <2>1, <3>1, <3>2, <3>3
  <2>. QED
    BY <2>2, <2>3
<1>. QED
  BY <1>1, <1>2, <1>3, <1>4, <1>5, <1>6 DEF Others

LEMMA LockKept ==
    ASSUME TypeInv, LockInv, [Next]_vars, "stall" \notin FaultKinds
    PROVE  LockInv'
<1>0. QueueType /\ SlotType
  BY TypeParts DEF TypeInv
<1>1. \A s \in Slots : pc[s] # "idle" =>
          /\ id[s] \in JobIds /\ bull[id[s]] = "active" /\ owner[id[s]] = s
          /\ carries[id[s]] = key[s]
  BY DEF TypeInv, SlotKeys, LockInv
<1>2. ASSUME NEW j \in JobIds, NEW k, AddJob(j, k),
             UNCHANGED <<id, key, owner>>,
             \A s \in Slots : pc'[s] # "idle" => pc[s] # "idle"
      PROVE  LockInv'
  <2>1. \A i \in JobIds : bull[i] = "active" => bull'[i] = "active" /\ carries'[i] = carries[i]
    BY <1>0, <1>2 DEF AddJob, QueueType
  <2>. QED
    BY <1>1, <1>2, <2>1 DEF LockInv
<1>3. ASSUME UNCHANGED <<id, key, owner, bull, carries>>,
             \A s \in Slots : pc'[s] # "idle" => pc[s] # "idle"
      PROVE  LockInv'
  BY <1>3 DEF LockInv
<1>4. ASSUME NEW s \in Slots, Handles(s) PROVE LockInv'
  <2>1. \A t \in Slots : pc'[t] # "idle" => pc[t] # "idle"
    BY <1>4, HandlerFacts
  <2>2. UNCHANGED <<id, key, owner>>
    BY <1>4, HandlerFacts
  <2>3. CASE Defer(s)
    <3>1. at \in 1..MaxTime
      BY <2>3, Numbers, TypeParts DEF Defer, TypeInv, StoredType, OtherType
    <3>2. Early(at) \in JobIds
      BY <3>1, JobMade
    <3>. QED
      BY <1>2, <2>1, <2>2, <2>3, <3>2 DEF Defer
  <2>4. CASE ScheduleDecision(s)
    <3>1. key[s] \in Keys
      BY <2>4 DEF ScheduleDecision, TypeInv, SlotKeys
    <3>2. Decide(key[s]) \in JobIds
      BY <3>1, JobMade
    <3>. QED
      BY <1>2, <2>1, <2>2, <2>4, <3>2 DEF ScheduleDecision
  <2>5. CASE UNCHANGED <<bull, carries>>
    BY <1>3, <2>1, <2>2, <2>5
  <2>. QED
    BY <1>4, <2>3, <2>4, <2>5, HandlerFacts
<1>5. CASE Others
  <2>1. UNCHANGED <<pc, id, key, owner>>
    BY <1>5, OtherFacts
  <2>2. ASSUME NEW k \in Keys, AddJob(Process(k), k) PROVE LockInv'
    <3>1. Process(k) \in JobIds
      BY JobMade
    <3>. QED
      BY <1>2, <2>1, <2>2, <3>1
  <2>. QED
    BY <1>3, <1>5, <2>1, <2>2, OtherFacts
<1>6. ASSUME NEW s \in Slots, Finish(s) \/ Crash(s) PROVE LockInv'
  <2>1. \A t \in Slots : pc'[t] # "idle" =>
            t # s /\ pc[t] # "idle" /\ id'[t] = id[t] /\ key'[t] = key[t]
    BY <1>0, <1>6 DEF Finish, Crash, Release, SlotType
  <2>2. UNCHANGED carries
    BY <1>6 DEF Finish, Crash
  <2>3. pc[s] # "idle"
    BY <1>6 DEF Finish, Crash
  <2>4. \A i \in JobIds : owner[i] # s /\ i # id[s] => bull'[i] = bull[i] /\ owner'[i] = owner[i]
    <3>1. CASE Finish(s)
      BY <1>0, <1>1, <2>3, <3>1 DEF Finish, QueueType
    <3>2. CASE Crash(s)
      BY <1>0, <3>2 DEF Crash, QueueType
    <3>. QED
      BY <1>6, <3>1, <3>2
  <2>. QED
    BY <1>1, <2>1, <2>2, <2>3, <2>4 DEF LockInv
<1>7. ASSUME NEW s \in Slots, Throw(s) PROVE LockInv'
  BY <1>0, <1>3, <1>7 DEF Throw, queue, SlotType
<1>8. ASSUME NEW s \in Slots, NEW j \in JobIds, Take(s, j) PROVE LockInv'
  <2>1. \A t \in Slots : pc[t] # "idle" => id[t] # j
    BY <1>1, <1>8 DEF Take
  <2>2. ASSUME NEW t \in Slots, pc'[t] # "idle"
        PROVE  bull'[id'[t]] = "active" /\ owner'[id'[t]] = t /\ carries'[id'[t]] = key'[t]
    <3>1. CASE t = s
      BY <1>0, <1>8, <3>1 DEF Take, QueueType, SlotType
    <3>2. CASE t # s
      <4>1. pc[t] # "idle" /\ id'[t] = id[t] /\ key'[t] = key[t]
        BY <1>0, <1>8, <2>2, <3>2 DEF Take, SlotType
      <4>. QED
        BY <1>0, <1>1, <1>8, <2>1, <4>1 DEF Take, QueueType
    <3>. QED
      BY <3>1, <3>2
  <2>. QED
    BY <2>2 DEF LockInv
<1>9. ASSUME NEW j \in JobIds, LockExpires(j) PROVE LockInv'
  <2>1. owner[j] = NoSlot
    BY <1>9 DEF LockExpires, Fault
  <2>2. \A t \in Slots : pc[t] # "idle" => id[t] # j
    BY <1>1, <2>1, CampaignAssumption
  <2>. QED
    BY <1>0, <1>1, <1>9, <2>2 DEF LockExpires, LockInv, QueueType, slots
<1>10. CASE RedisLoss
  <2>1. \A t \in Slots : pc[t] = "idle"
    BY <1>1, <1>10, CampaignAssumption DEF RedisLoss
  <2>. QED
    BY <1>10, <2>1 DEF RedisLoss, LockInv, slots
<1>11. CASE UNCHANGED vars
  BY <1>3, <1>11 DEF vars, queue, slots
<1>. QED
  BY <1>4, <1>5, <1>6, <1>7, <1>8, <1>9, <1>10, <1>11 DEF Next, Handles, Others, ApiCalls

\* A job comes into the queue with its own key, or the guard's copy with a key in the queue.
LEMMA OriginAdds ==
    ASSUME TypeInv, OriginInv, NEW j \in JobIds, NEW k \in Keys, AddJob(j, k),
           IF j.type = "early"
           THEN /\ k.kind # "fire"
                /\ bull'[IF k.kind = "early" THEN Early(k.n) ELSE Process(k)] # "none"
           ELSE k = j.of /\ (j.type = "process" => k.kind # "early")
    PROVE  OriginInv'
<1>0. QueueType
  BY TypeParts DEF TypeInv
<1>1. \A i \in JobIds : bull[i] # "none" => bull'[i] # "none" /\ carries'[i] = carries[i]
  BY <1>0 DEF AddJob, QueueType
<1>2. \A i \in JobIds : bull'[i] # "none" /\ bull[i] = "none" => i = j /\ carries'[i] = k
  BY <1>0 DEF AddJob, QueueType
<1> SUFFICES ASSUME NEW i \in JobIds, bull'[i] # "none"
             PROVE  IF i.type = "early"
                    THEN /\ carries'[i].kind # "fire"
                         /\ bull'[IF carries'[i].kind = "early" THEN Early(carries'[i].n)
                                  ELSE Process(carries'[i])] # "none"
                    ELSE carries'[i] = i.of /\ (i.type = "process" => i.of.kind # "early")
  BY DEF OriginInv, Early, Process
<1>3. CASE bull[i] = "none"
  BY <1>2, <1>3
<1>4. CASE bull[i] # "none"
  <2>1. carries'[i] = carries[i]
    BY <1>1, <1>4
  <2>2. CASE i.type # "early"
    BY <1>4, <2>1, <2>2 DEF OriginInv
  <2>3. CASE i.type = "early"
    <3> DEFINE o == IF carries[i].kind = "early" THEN Early(carries[i].n) ELSE Process(carries[i])
    <3>1. bull[o] # "none" /\ carries[i].kind # "fire"
      BY <1>4, <2>3 DEF OriginInv
    <3>2. carries[i] \in Keys
      BY <1>0 DEF QueueType
    <3>3. o \in JobIds
      BY <3>2, KeyShape, JobMade
    <3>4. bull'[o] # "none"
      BY <1>1, <3>1, <3>3
    <3>. QED
      BY <2>1, <2>3, <3>1, <3>4
  <2>. QED
    BY <2>2, <2>3
<1>. QED
  BY <1>3, <1>4

\* What the early-run guard adds.
LEMMA DeferAdds ==
    ASSUME TypeInv, LockInv, OriginInv, NEW s \in Slots, Defer(s)
    PROVE  \E k \in Keys :
              /\ AddJob(Early(at), k) /\ Early(at) \in JobIds /\ id[s] \in FanJobs
              /\ k.kind # "fire"
              /\ bull'[IF k.kind = "early" THEN Early(k.n) ELSE Process(k)] # "none"
              /\ k = key[s] \/ k = [kind |-> "early", n |-> at]
<1>0. StoredType /\ QueueType /\ MailType /\ SlotType /\ OtherType
  BY TypeParts DEF TypeInv
<1> DEFINE k == IF key[s].kind = "fire" THEN [kind |-> "early", n |-> at] ELSE key[s]
<1>1. at \in 1..MaxTime
  BY <1>0, Numbers DEF Defer, StoredType, OtherType
<1>2. Early(at) \in JobIds
  BY <1>1, JobMade
<1>3. k \in Keys /\ k.kind # "fire"
  BY <1>1, KeyMade DEF Defer, TypeInv, SlotKeys, Recurs
<1>4. AddJob(Early(at), k)
  BY DEF Defer
<1>5. /\ id[s] \in JobIds /\ id[s].type # "decide" /\ bull[id[s]] = "active"
      /\ carries[id[s]] = key[s] /\ key[s] \in Keys
  BY DEF Defer, TypeInv, SlotKeys, LockInv
<1>6. \A i \in JobIds : bull[i] # "none" => bull'[i] # "none"
  BY <1>0, <1>4 DEF AddJob, QueueType
<1>7. bull'[Early(at)] # "none"
  BY <1>0, <1>2, <1>4 DEF AddJob, QueueType
<1>8. bull'[IF k.kind = "early" THEN Early(k.n) ELSE Process(k)] # "none"
  <2>1. CASE key[s].kind = "fire"
    BY <1>7, <2>1
  <2>2. CASE key[s].kind # "fire" /\ id[s].type = "early"
    <3> DEFINE o == IF key[s].kind = "early" THEN Early(key[s].n) ELSE Process(key[s])
    <3>1. bull[o] # "none"
      BY <1>5, <2>2 DEF OriginInv
    <3>2. o \in JobIds
      BY <1>5, KeyShape, JobMade
    <3>. QED
      BY <1>6, <2>2, <3>1, <3>2
  <2>3. CASE key[s].kind # "fire" /\ id[s].type # "early"
    <3>1. key[s] = id[s].of /\ key[s].kind # "early"
      BY <1>5, <2>3, JobShape DEF OriginInv
    <3>2. id[s] = Process(key[s])
      BY <1>5, <2>3, <3>1, JobShape DEF Process
    <3>. QED
      BY <1>5, <1>6, <2>3, <3>1, <3>2
  <2>. QED
    BY <2>1, <2>2, <2>3
<1> HIDE DEF k
<1>9. k = key[s] \/ k = [kind |-> "early", n |-> at]
  BY DEF k
<1>. QED
  BY <1>2, <1>3, <1>4, <1>5, <1>8, <1>9 DEF FanJobs

LEMMA OriginKept ==
    ASSUME TypeInv, LockInv, OriginInv, [Next]_vars
    PROVE  OriginInv'
<1>0. QueueType
  BY TypeParts DEF TypeInv
<1>1. ASSUME UNCHANGED carries, \A j \in JobIds : bull'[j] # "none" <=> bull[j] # "none"
      PROVE  OriginInv'
  <2>1. \A k \in Keys : k.kind # "early" => Process(k) \in JobIds
    BY JobMade
  <2>2. \A k \in Keys : k.kind = "early" => Early(k.n) \in JobIds
    BY KeyShape, JobMade
  <2>3. \A j \in JobIds : carries[j] \in Keys
    BY <1>0 DEF QueueType
  <2>. QED
    BY <1>1, <2>1, <2>2, <2>3 DEF OriginInv, Early, Process
<1>2. ASSUME NEW s \in Slots, Handles(s) PROVE OriginInv'
  <2>1. CASE Defer(s)
    <3>1. PICK k \in Keys :
              /\ AddJob(Early(at), k) /\ Early(at) \in JobIds
              /\ k.kind # "fire"
              /\ bull'[IF k.kind = "early" THEN Early(k.n) ELSE Process(k)] # "none"
      BY <2>1, DeferAdds
    <3>2. Early(at).type = "early"
      BY DEF Early
    <3>. QED
      BY <3>1, <3>2, OriginAdds
  <2>2. CASE ScheduleDecision(s)
    <3>1. key[s] \in Keys
      BY <2>2 DEF ScheduleDecision, TypeInv, SlotKeys
    <3> DEFINE j == Decide(key[s])
    <3>2. j \in JobIds
      BY <3>1, JobMade
    <3>3. j.type = "decide" /\ j.of = key[s]
      BY DEF Decide
    <3>4. AddJob(j, key[s])
      BY <2>2 DEF ScheduleDecision
    <3> HIDE DEF j
    <3>. QED
      BY <3>1, <3>2, <3>3, <3>4, OriginAdds
  <2>3. CASE UNCHANGED <<bull, carries>>
    BY <1>1, <2>3
  <2>. QED
    BY <1>2, <2>1, <2>2, <2>3, HandlerFacts
<1>3. CASE Others
  <2>1. ASSUME NEW k \in Keys, k.kind # "early", AddJob(Process(k), k) PROVE OriginInv'
    <3>1. Process(k) \in JobIds
      BY JobMade
    <3>2. Process(k).type = "process" /\ Process(k).of = k
      BY DEF Process
    <3>. QED
      BY <2>1, <3>1, <3>2, OriginAdds
  <2>2. CASE UNCHANGED <<bull, carries>>
    BY <1>1, <2>2
  <2>. QED
    BY <1>3, <2>1, <2>2, OtherFacts
<1>4. ASSUME NEW s \in Slots, Finish(s) \/ Crash(s) \/ Throw(s) PROVE OriginInv'
  <2>1. CASE Finish(s)
    <3>1. id[s] \in JobIds /\ bull[id[s]] = "active"
      BY <2>1 DEF Finish, TypeInv, SlotKeys, LockInv
    <3>2. UNCHANGED carries
      BY <2>1 DEF Finish
    <3>3. \A j \in JobIds : bull'[j] # "none" <=> bull[j] # "none"
      BY <1>0, <2>1, <3>1 DEF Finish, QueueType
    <3>. QED
      BY <1>1, <3>2, <3>3
  <2>2. CASE Crash(s) \/ Throw(s)
    BY <1>1, <2>2 DEF Crash, Throw, queue
  <2>. QED
    BY <1>4, <2>1, <2>2
<1>5. ASSUME NEW s \in Slots, NEW j \in JobIds, Take(s, j) PROVE OriginInv'
  BY <1>0, <1>1, <1>5 DEF Take, QueueType
<1>6. ASSUME NEW j \in JobIds, LockExpires(j) PROVE OriginInv'
  BY <1>0, <1>1, <1>6 DEF LockExpires, QueueType
<1>7. CASE RedisLoss
  BY <1>7 DEF RedisLoss, OriginInv
<1>8. CASE UNCHANGED vars
  BY <1>1, <1>8 DEF vars, queue
<1>. QED
  BY <1>2, <1>3, <1>4, <1>5, <1>6, <1>7, <1>8 DEF Next, Handles, Others, ApiCalls

\* A job that may fan out now might before, with the same key.
LEMMA ApartStays ==
    ASSUME ApartInv, \A j \in FanJobs : Busy(j)' => Busy(j) /\ carries'[j] = carries[j]
    PROVE  ApartInv'
<1>1. FanJobs' = FanJobs
  BY DEF FanJobs
<1>. QED
  BY <1>1 DEF ApartInv

\* A job comes into the queue whose key no other job may still fan out.
LEMMA ApartAdds ==
    ASSUME TypeInv, ApartInv, NEW j \in JobIds, NEW k \in Keys, AddJob(j, k), UNCHANGED id,
           \A s \in Slots : pc[s] = "finish" => pc'[s] = "finish",
           bull[j] = "none" /\ j \in FanJobs =>
               \A l \in FanJobs \ {j} : Busy(l)' => carries[l] # k
    PROVE  ApartInv'
<1>0. QueueType
  BY TypeParts DEF TypeInv
<1>1. \A l \in JobIds : l # j \/ bull[j] # "none" => (Busy(l)' => Busy(l) /\ carries'[l] = carries[l])
  <2> SUFFICES ASSUME NEW l \in JobIds, l # j \/ bull[j] # "none", Busy(l)'
               PROVE  Busy(l) /\ carries'[l] = carries[l]
    OBVIOUS
  <2>1. bull'[l] = bull[l] /\ carries'[l] = carries[l]
    BY <1>0 DEF AddJob, QueueType
  <2>. QED
    BY <2>1 DEF Busy
<1>2. CASE bull[j] # "none"
  BY <1>1, <1>2, ApartStays DEF FanJobs
<1>3. CASE bull[j] = "none"
  <2>1. carries'[j] = k
    BY <1>0, <1>3 DEF AddJob, QueueType
  <2> SUFFICES ASSUME NEW i \in FanJobs, NEW l \in FanJobs, Busy(i)', Busy(l)', i # l
               PROVE  carries'[i] # carries'[l]
    BY DEF ApartInv, FanJobs, Busy
  <2>2. CASE i # j /\ l # j
    BY <1>1, <2>2 DEF ApartInv, FanJobs
  <2>3. CASE i = j
    BY <1>1, <1>3, <2>1, <2>3 DEF FanJobs
  <2>4. CASE l = j
    BY <1>1, <1>3, <2>1, <2>4 DEF FanJobs
  <2>. QED
    BY <2>2, <2>3, <2>4
<1>. QED
  BY <1>2, <1>3

LEMMA ApartKept ==
    ASSUME TypeInv, LockInv, OriginInv, ApartInv, [Next]_vars, Completes,
           "stall" \notin FaultKinds
    PROVE  ApartInv'
<1>0. QueueType /\ SlotType
  BY TypeParts DEF TypeInv
<1>1. \A s \in Slots : pc[s] # "idle" =>
          /\ id[s] \in JobIds /\ bull[id[s]] = "active" /\ owner[id[s]] = s
          /\ carries[id[s]] = key[s]
  BY DEF TypeInv, SlotKeys, LockInv
<1>2. ASSUME UNCHANGED <<id, bull, carries>>,
             \A s \in Slots : pc[s] = "finish" => pc'[s] = "finish"
      PROVE  ApartInv'
  BY <1>2, ApartStays DEF Busy
<1>3. ASSUME NEW k \in Keys, k.kind # "early", AddJob(Process(k), k), UNCHANGED <<pc, id>>
      PROVE  ApartInv'
  <2> DEFINE j == Process(k)
  <2>1. j \in JobIds /\ j = [type |-> "process", of |-> k]
    BY <1>3, JobMade DEF Process
  <2>2. ASSUME bull[j] = "none", NEW l \in FanJobs \ {j}, Busy(l)', carries[l] = k
        PROVE  FALSE
    <3>1. l \in JobIds /\ l.type \in {"process", "early"} /\ l = [type |-> l.type, of |-> l.of]
      BY JobShape DEF FanJobs
    <3>2. bull'[l] = bull[l]
      BY <1>0, <1>3, <2>1, <2>2, <3>1 DEF AddJob, QueueType
    <3>3. bull[l] # "none"
      BY <2>2, <3>2 DEF Busy
    <3>4. CASE l.type = "early"
      BY <1>3, <2>2, <3>1, <3>3, <3>4 DEF OriginInv
    <3>5. CASE l.type = "process"
      <4>1. l.of = k
        BY <2>2, <3>1, <3>3, <3>5 DEF OriginInv
      <4>. QED
        BY <2>1, <2>2, <3>1, <3>5, <4>1
    <3>. QED
      BY <3>1, <3>4, <3>5
  <2>3. AddJob(j, k)
    BY <1>3
  <2> HIDE DEF j
  <2>. QED
    BY <1>3, <2>1, <2>2, <2>3, ApartAdds
<1>4. ASSUME NEW s \in Slots, Handles(s) PROVE ApartInv'
  <2>1. \A t \in Slots : pc[t] = "finish" => pc'[t] = "finish"
    BY <1>4, HandlerFacts
  <2>2. UNCHANGED id
    BY <1>4, HandlerFacts
  <2>3. CASE Defer(s)
    <3>1. PICK k \in Keys :
              /\ AddJob(Early(at), k) /\ Early(at) \in JobIds /\ id[s] \in FanJobs
              /\ k = key[s] \/ k = [kind |-> "early", n |-> at]
      BY <2>3, DeferAdds
    <3> DEFINE j == Early(at)
    <3>2. j.type = "early"
      BY DEF Early
    <3>3. ASSUME bull[j] = "none", NEW l \in FanJobs \ {j}, Busy(l)', carries[l] = k
          PROVE  FALSE
      <4>1. l \in JobIds /\ l.type \in {"process", "early"}
        BY JobShape DEF FanJobs
      <4>2. bull'[l] = bull[l]
        BY <1>0, <3>1, <3>3, <4>1 DEF AddJob, QueueType
      <4>3. bull[l] # "none" /\ Busy(l)
        BY <2>1, <2>2, <3>3, <4>2 DEF Busy
      <4>4. CASE k = [kind |-> "early", n |-> at]
        <5>1. carries[l].kind = "early" /\ carries[l].n = at
          BY <3>3, <4>4
        <5>2. CASE l.type = "early"
          BY <3>3, <4>1, <4>3, <5>1, <5>2 DEF OriginInv
        <5>3. CASE l.type = "process"
          BY <4>1, <4>3, <5>1, <5>3 DEF OriginInv
        <5>. QED
          BY <4>1, <5>2, <5>3
      <4>5. CASE k = key[s]
        <5>1. pc[s] = "load" /\ pc'[s] = "finish"
          BY <1>0, <2>3 DEF Defer, Goto, SlotType
        <5>2. l # id[s]
          BY <2>2, <3>3, <5>1 DEF Busy
        <5>3. Busy(id[s])
          <6>1. \A t \in Slots : id[t] = id[s] => pc[t] # "finish"
            BY <1>1, <5>1
          <6>. QED
            BY <1>1, <5>1, <6>1 DEF Busy
        <5>4. carries[id[s]] = k
          BY <1>1, <4>5, <5>1
        <5>. QED
          BY <3>1, <3>3, <4>3, <5>2, <5>3, <5>4 DEF ApartInv
      <4>. QED
        BY <3>1, <4>4, <4>5
    <3>4. AddJob(j, k) /\ j \in JobIds
      BY <3>1
    <3> HIDE DEF j
    <3>. QED
      BY <2>1, <2>2, <3>3, <3>4, ApartAdds
  <2>4. CASE ScheduleDecision(s)
    <3>1. key[s] \in Keys
      BY <2>4 DEF ScheduleDecision, TypeInv, SlotKeys
    <3> DEFINE j == Decide(key[s])
    <3>2. j \in JobIds /\ j \notin FanJobs
      BY <3>1, JobMade DEF Decide, FanJobs
    <3>3. AddJob(j, key[s])
      BY <2>4 DEF ScheduleDecision
    <3> HIDE DEF j
    <3>. QED
      BY <2>1, <2>2, <3>1, <3>2, <3>3, ApartAdds
  <2>5. CASE UNCHANGED <<bull, carries>>
    BY <1>2, <2>1, <2>2, <2>5
  <2>. QED
    BY <1>4, <2>3, <2>4, <2>5, HandlerFacts
<1>5. CASE Others
  BY <1>2, <1>3, <1>5, OtherFacts
<1>6. ASSUME NEW s \in Slots, Finish(s) \/ Crash(s) PROVE ApartInv'
  <2>1. \A t \in Slots \ {s} : pc'[t] = pc[t] /\ id'[t] = id[t]
    BY <1>0, <1>6 DEF Finish, Crash, Release, SlotType
  <2>2. UNCHANGED carries
    BY <1>6 DEF Finish, Crash
  <2>3. pc[s] # "idle"
    BY <1>6 DEF Finish, Crash
  <2>4. \A j \in JobIds : j # id[s] => bull'[j] = bull[j]
    BY <1>0, <1>6 DEF Finish, Crash, QueueType
  <2>5. pc[s] = "finish" => bull'[id[s]] = "completed"
    <3>1. pc[s] = "finish" => Finish(s)
      BY <1>6 DEF Completes
    <3>. QED
      BY <1>0, <1>1, <2>3, <3>1 DEF Finish, QueueType
  <2>6. \A t \in Slots : pc[t] # "idle" /\ id[t] = id[s] => t = s
    BY <1>1, <2>3
  <2>7. ASSUME NEW j \in FanJobs, Busy(j)' PROVE Busy(j)
    <3>1. j \in JobIds
      BY DEF FanJobs
    <3>2. CASE j = id[s]
      <4>1. pc[s] # "finish"
        BY <2>5, <2>7, <3>2 DEF Busy
      <4>2. \A t \in Slots : id[t] = j => pc[t] # "finish"
        BY <2>6, <3>2, <4>1
      <4>. QED
        BY <1>1, <2>3, <3>2, <4>2 DEF Busy
    <3>3. CASE j # id[s]
      BY <2>1, <2>4, <2>7, <3>1, <3>3 DEF Busy
    <3>. QED
      BY <3>2, <3>3
  <2>. QED
    BY <2>2, <2>7, ApartStays
<1>7. ASSUME NEW s \in Slots, Throw(s) PROVE ApartInv'
  BY <1>0, <1>2, <1>7 DEF Throw, queue, SlotType
<1>8. ASSUME NEW s \in Slots, NEW j \in JobIds, Take(s, j) PROVE ApartInv'
  <2>1. \A t \in Slots : pc[t] # "idle" => id[t] # j
    BY <1>1, <1>8 DEF Take
  <2>2. UNCHANGED carries
    BY <1>8 DEF Take
  <2>3. ASSUME NEW l \in FanJobs, Busy(l)' PROVE Busy(l)
    <3>1. l \in JobIds
      BY DEF FanJobs
    <3>2. bull[l] \in {"delayed", "waiting", "active"}
      BY <1>0, <1>8, <2>3, <3>1 DEF Take, Busy, QueueType
    <3>3. \A t \in Slots : id[t] = l => pc[t] # "finish"
      BY <1>0, <1>8, <2>1, <2>3 DEF Take, Busy, SlotType
    <3>. QED
      BY <3>2, <3>3 DEF Busy
  <2>. QED
    BY <2>2, <2>3, ApartStays
<1>9. ASSUME NEW j \in JobIds, LockExpires(j) PROVE ApartInv'
  <2>1. UNCHANGED <<pc, id, carries>> /\ bull[j] = "active"
    BY <1>9 DEF LockExpires, slots
  <2>2. \A l \in JobIds : l # j => bull'[l] = bull[l]
    BY <1>0, <1>9 DEF LockExpires, QueueType
  <2>. QED
    BY <2>1, <2>2, ApartStays DEF Busy, FanJobs
<1>10. CASE RedisLoss
  BY <1>10 DEF RedisLoss, ApartInv, Busy, FanJobs
<1>11. CASE UNCHANGED vars
  BY <1>2, <1>11 DEF vars, queue, slots
<1>. QED
  BY <1>4, <1>5, <1>6, <1>7, <1>8, <1>9, <1>10, <1>11 DEF Next, Handles, Others, ApiCalls

---------------------------------------------------------------------------
(* The rows of a run. *)

\* The sender of a row settles the run while its job says so.
SenderInv == \A r \in Rows : settling[r] # "no" => mail[r] = "settle"

LEMMA SenderKept ==
    ASSUME TypeInv, SenderInv, [Next]_vars
    PROVE  SenderInv'
<1>0. MailType
  BY TypeParts DEF TypeInv
<1>1. ASSUME \A r \in Rows : settling'[r] = settling[r],
             \A r \in Rows : mail[r] = "settle" => mail'[r] = "settle"
      PROVE  SenderInv'
  BY <1>1 DEF SenderInv
<1>2. ASSUME NEW these, AddMail(these), UNCHANGED settling PROVE SenderInv'
  BY <1>2 DEF SenderInv, AddMail
<1>3. ASSUME NEW s \in Slots, Handles(s) \/ Throw(s) \/ Crash(s) PROVE SenderInv'
  <2>1. settling' = settling \/ \E to : settling' = [settling EXCEPT ![s] = to]
    BY <1>3 DEF Handles, SlotStep, Load, Defer, Start, Upsert, Again, Refuse, NoRecipients, FanOut,
       EnqueueRows, ScheduleDecision, PickWinner, ReadHeld, ReleaseRow, Dispatch, CloseTest,
       Throw, Crash, Settle, SettleCheck, SettleRun, SettleRead, SettleCampaign, Return, Settling
  <2>2. \A r \in Rows : settling'[r] = settling[r]
    BY <1>0, <2>1, ActorsAssumption DEF MailType
  <2>3. mail' = mail \/ \E these : AddMail(these)
    BY <1>3 DEF Handles, SlotStep, Load, Defer, Start, Upsert, Again, Refuse, NoRecipients, FanOut,
       EnqueueRows, ScheduleDecision, PickWinner, ReadHeld, ReleaseRow, Dispatch, CloseTest,
       Throw, Crash, Settle, SettleCheck, SettleRun, SettleRead, SettleCampaign, Return, Settling
  <2>. QED
    BY <2>2, <2>3 DEF SenderInv, AddMail
<1>4. ASSUME NEW r \in Rows, Settle(r) PROVE SenderInv'
  <2>1. settling[r] # "no"
    BY <1>4 DEF Settle, SettleCheck, SettleRun, SettleRead, SettleCampaign
  <2>2. Return(r) \/ \E to : Settling(r, to)
    BY <1>4 DEF Settle, SettleCheck, SettleRun, SettleRead, SettleCampaign
  <2>. QED
    BY <1>0, <2>1, <2>2, ActorsAssumption DEF SenderInv, Return, Settling, MailType
<1>5. ASSUME NEW r \in Rows, MailStep(r) \/ MailLost(r) PROVE SenderInv'
  <2>1. CASE MailSuppress(r) \/ MailOutcome(r)
    BY <1>0, <2>1 DEF MailSuppress, MailOutcome, SenderInv, MailType
  <2>2. CASE MailLost(r)
    BY <1>0, <2>2 DEF MailLost, SenderInv, MailType
  <2>3. CASE MailRead(r) \/ MailClaim(r) \/ MailAmbiguous(r) \/ MailRetry(r)
    BY <1>0, <1>1, <2>3 DEF MailRead, MailClaim, MailAmbiguous, MailRetry, MailType
  <2>. QED
    BY <1>5, <2>1, <2>2, <2>3 DEF MailStep
<1>6. ASSUME NEW r \in Rows, CancelRow(r) PROVE SenderInv'
  BY <1>0, <1>1, <1>6 DEF CancelRow, MailType
<1>7. CASE RedisLoss
  BY <1>7 DEF RedisLoss, SenderInv
<1>8. CASE Recover
  BY <1>1, <1>2, <1>8 DEF Recover, RecoverRead, RecoverAdd
<1>9. ASSUME NEW s \in Slots, Finish(s) \/ \E j \in JobIds : Take(s, j) PROVE SenderInv'
  BY <1>1, <1>9 DEF Finish, Take
<1>10. CASE Fire \/ Tick \/ ApiCalls \/ \E j \in JobIds : LockExpires(j)
  BY <1>1, <1>10 DEF Fire, Tick, LockExpires, ApiCalls, ApiStep, StartCheck, SendNow, Schedule,
     SetRecurrence, StartAdd, PauseCheck, Pause, ResumeCheck, Resume, CallFails, ApiOnly
<1>11. CASE UNCHANGED vars
  BY <1>1, <1>11 DEF vars
<1>. QED
  BY <1>3, <1>4, <1>5, <1>6, <1>7, <1>8, <1>9, <1>10, <1>11 DEF Next, Handles, ApiCalls

\* The rows there are stay the rows there are.
LEMMA RowsStay ==
    ASSUME RowInv, \A r \in Rows : row'[r] = "none" <=> row[r] = "none",
           \A s \in Slots :
              /\ pc'[s] \in Fanning => id'[s] \in FanJobs
              /\ pc'[s] = "compose" => RowsOf(key'[s]) = {}
              /\ \A r \in todo'[s] \union left'[s] : r \in Rows /\ row[r] # "none",
           \A r \in Rows : mail'[r] # "none" \/ r \in found'.rows => row[r] # "none"
    PROVE  RowInv'
<1>1. \A k : {r \in Rows : r.key = k /\ row'[r] # "none"} = RowsOf(k)
  BY DEF RowsOf
<1>2. \A s \in Slots : pc'[s] = "compose" => {r \in Rows : r.key = key'[s] /\ row'[r] # "none"} = {}
  BY <1>1
<1>. QED
  BY <1>2 DEF RowInv, RowsOf, FanJobs

\* A slot that goes on with rows there are: what is left to show is where it goes.
LEMMA HandlerRows ==
    ASSUME TypeInv, RowInv, NEW s \in Slots, NEW p, Goto(s, p), UNCHANGED <<id, key, found>>,
           \A r \in Rows : row'[r] = "none" <=> row[r] = "none",
           p \in Fanning => id[s] \in FanJobs,
           p = "compose" => RowsOf(key[s]) = {},
           \A t \in Slots \ {s} : todo'[t] = todo[t] /\ left'[t] = left[t],
           \A r \in todo'[s] \union left'[s] : r \in Rows /\ row[r] # "none",
           \A r \in Rows : mail'[r] # "none" => row[r] # "none"
    PROVE  RowInv'
<1>0. SlotType
  BY TypeParts DEF TypeInv
<1>1. ASSUME NEW t \in Slots
      PROVE  /\ pc'[t] \in Fanning => id'[t] \in FanJobs
             /\ pc'[t] = "compose" => RowsOf(key'[t]) = {}
             /\ \A r \in todo'[t] \union left'[t] : r \in Rows /\ row[r] # "none"
  <2>1. CASE t = s
    BY <1>0, <2>1 DEF Goto, SlotType
  <2>2. CASE t # s
    BY <1>0, <2>2 DEF Goto, SlotType, RowInv
  <2>. QED
    BY <2>1, <2>2
<1>. QED
  BY <1>1, RowsStay DEF RowInv

\* Who fans out a run is alone with it.
LEMMA Alone ==
    ASSUME TypeInv, LockInv, ApartInv, RowInv, NEW s \in Slots, NEW t \in Slots,
           pc[s] \in Fanning, pc[t] \in Fanning, key[s] = key[t]
    PROVE  s = t
<1>1. /\ id[s] \in FanJobs /\ id[t] \in FanJobs
      /\ bull[id[s]] = "active" /\ owner[id[s]] = s /\ carries[id[s]] = key[s]
      /\ bull[id[t]] = "active" /\ owner[id[t]] = t /\ carries[id[t]] = key[t]
  BY DEF RowInv, LockInv, Fanning
<1>2. \A u \in Slots : pc[u] = "finish" => owner[id[u]] = u
  BY DEF LockInv
<1>3. Busy(id[s]) /\ Busy(id[t])
  BY <1>1, <1>2 DEF Busy, Fanning
<1>4. id[s] = id[t]
  BY <1>1, <1>3 DEF ApartInv
<1>. QED
  BY <1>1, <1>4

\* A fan-out: the rows are the first of their run.
LEMMA FanOutNew ==
    ASSUME TypeInv, LockInv, ApartInv, RowInv, NEW s \in Slots, FanOut(s)
    PROVE  LET new == [key : {key[s]}, contact : Contacts, copy : {1}] IN
           /\ new \subseteq Rows /\ \A r \in new : row[r] = "none"
           /\ row' = [r \in Rows |->
                        IF r \notin new THEN row[r]
                        ELSE IF ~AbEnabled \/ r.contact \in Tested THEN "QUEUED" ELSE "PENDING"]
           /\ todo' = [todo EXCEPT ![s] = IF AbEnabled THEN {} ELSE new]
           /\ key[s] \in Keys /\ RowsOf(key[s]) = {}
<1> DEFINE new == [key : {key[s]}, contact : Contacts, copy : {1}]
<1>1. RowsOf(key[s]) = {}
  BY DEF FanOut, RowInv
<1>2. key[s] \in Keys
  BY DEF FanOut, TypeInv, SlotKeys
<1>3. new \subseteq Rows
  BY <1>2 DEF Rows
<1>4. \A r \in new : row[r] = "none"
  BY <1>1, <1>3 DEF RowsOf
<1>5. RowsOf(key[s]) \union new = new
  BY <1>1
<1>6. /\ row' = [r \in Rows |->
                   IF r \notin new THEN row[r]
                   ELSE IF ~AbEnabled \/ r.contact \in Tested THEN "QUEUED" ELSE "PENDING"]
      /\ todo' = [todo EXCEPT ![s] = IF AbEnabled THEN {} ELSE RowsOf(key[s]) \union new]
  BY <1>1 DEF FanOut
<1>. QED
  BY <1>1, <1>2, <1>3, <1>4, <1>5, <1>6

LEMMA FanOutRows ==
    ASSUME TypeInv, LockInv, ApartInv, RowInv, NEW s \in Slots, FanOut(s)
    PROVE  RowInv'
<1>0. SlotType /\ StoredType
  BY TypeParts DEF TypeInv
<1> DEFINE new == [key : {key[s]}, contact : Contacts, copy : {1}]
<1>1. /\ new \subseteq Rows
      /\ row' = [r \in Rows |->
                   IF r \notin new THEN row[r]
                   ELSE IF ~AbEnabled \/ r.contact \in Tested THEN "QUEUED" ELSE "PENDING"]
      /\ todo' = [todo EXCEPT ![s] = IF AbEnabled THEN {} ELSE new]
  BY FanOutNew
<1>2. \A r \in new : r.key = key[s] /\ r.copy = 1
  OBVIOUS
<1>3. UNCHANGED <<id, key, left, mail, found>> /\ Goto(s, "queue") /\ pc[s] = "compose"
  BY DEF FanOut, Elsewhere, pass
<1> HIDE DEF new
<1>4. \A r \in Rows : row[r] # "none" => row'[r] # "none"
  BY <1>1
<1>5. \A r \in new : row'[r] # "none"
  BY <1>1
<1>6. ASSUME NEW t \in Slots
      PROVE  /\ pc'[t] \in Fanning => id'[t] \in FanJobs'
             /\ pc'[t] = "compose" => RowsOf(key[t])' = {}
             /\ \A r \in todo'[t] \union left'[t] : row'[r] # "none"
  <2>1. CASE t = s
    <3>1. pc'[t] = "queue" /\ id[s] \in FanJobs
      BY <1>0, <1>3, <2>1 DEF Goto, SlotType, RowInv, Fanning
    <3>2. todo'[t] \subseteq new /\ left'[t] = left[t] /\ left[t] \subseteq Rows
      BY <1>0, <1>1, <1>3, <2>1 DEF SlotType
    <3>3. \A r \in todo'[t] \union left'[t] : row'[r] # "none"
      BY <1>4, <1>5, <3>2 DEF RowInv
    <3>. QED
      BY <1>3, <2>1, <3>1, <3>3 DEF FanJobs
  <2>2. CASE t # s
    <3>1. pc'[t] = pc[t] /\ todo'[t] = todo[t] /\ left'[t] = left[t]
          /\ todo[t] \subseteq Rows /\ left[t] \subseteq Rows
      BY <1>0, <1>1, <1>3, <2>2 DEF Goto, SlotType
    <3>2. \A r \in todo'[t] \union left'[t] : row'[r] # "none"
      BY <1>4, <3>1 DEF RowInv
    <3>3. pc[t] = "compose" => key[t] # key[s] /\ RowsOf(key[t]) = {}
      BY <1>3, <2>2, Alone DEF Fanning, RowInv
    <3>4. pc'[t] = "compose" => RowsOf(key[t])' = {}
      BY <1>1, <1>2, <1>3, <3>1, <3>3 DEF RowsOf
    <3>. QED
      BY <1>3, <3>1, <3>2, <3>4 DEF RowInv, FanJobs
  <2>. QED
    BY <2>1, <2>2
<1>7. \A r \in Rows : mail'[r] # "none" \/ r \in found'.rows => row'[r] # "none"
  BY <1>3, <1>4 DEF RowInv
<1>8. \A r \in Rows : r.copy = 2 => row'[r] = "none"
  BY <1>1, <1>2 DEF RowInv
<1>. QED
  BY <1>6, <1>7, <1>8 DEF RowInv

\* Only rows there are get to their senders.
LEMMA MailRows ==
    ASSUME RowInv, NEW these, AddMail(these), \A r \in these : row[r] # "none"
    PROVE  \A r \in Rows : mail'[r] # "none" => row[r] # "none"
BY DEF AddMail, RowInv

LEMMA RowKept ==
    ASSUME TypeInv, SenderInv, LockInv, ApartInv, RowInv, [Next]_vars
    PROVE  RowInv'
<1>0. StoredType /\ MailType /\ SlotType /\ OtherType
  BY TypeParts DEF TypeInv
<1>1. ASSUME NEW s \in Slots, Handles(s) PROVE RowInv'
  <2>0. UNCHANGED <<id, key>>
    BY <1>1, HandlerFacts
  <2>1. CASE FanOut(s)
    BY <2>1, FanOutRows
  <2>2. CASE Load(s)
    <3>1. PICK p \in {"decide", "finish", "start", "upsert"} :
              Goto(s, p) /\ (p \in {"start", "upsert"} => id[s].type # "decide")
      BY <2>2 DEF Load
    <3>2. id[s] \in JobIds
      BY <2>2 DEF Load, TypeInv, SlotKeys
    <3>3. UNCHANGED <<row, mail, todo, left, found>>
      BY <2>2 DEF Load, stored, Elsewhere, pass
    <3>. QED
      BY <1>0, <2>0, <3>1, <3>2, <3>3, HandlerRows DEF Fanning, FanJobs, RowInv, SlotType
  <2>3. CASE Start(s) \/ Refuse(s) \/ Defer(s) \/ ScheduleDecision(s) \/ PickWinner(s)
             \/ CloseTest(s) \/ NoRecipients(s)
    <3>1. PICK p \in {"upsert", "throw", "finish", "held", "settle"} : Goto(s, p)
      BY <2>3 DEF Start, Refuse, Defer, ScheduleDecision, PickWinner, CloseTest, NoRecipients
    <3>2. p = "upsert" => pc[s] = "start"
      BY <1>0, <2>3, <3>1 DEF Start, Refuse, Defer, ScheduleDecision, PickWinner, CloseTest,
         NoRecipients, Goto, SlotType
    <3>3. UNCHANGED <<row, mail, todo, left, found>>
      BY <2>3 DEF Start, Refuse, Defer, ScheduleDecision, PickWinner, CloseTest, NoRecipients,
         stored, Elsewhere, pass
    <3>. QED
      BY <1>0, <2>0, <3>1, <3>2, <3>3, HandlerRows DEF Fanning, RowInv, SlotType
  <2>4. CASE Upsert(s)
    <3>1. PICK p \in {"again", "compose"} : Goto(s, p) /\ (p = "compose" => RowsOf(key[s]) = {})
      BY <2>4 DEF Upsert
    <3>2. UNCHANGED <<row, mail, left, found>> /\ id[s] \in FanJobs
      BY <2>4 DEF Upsert, Elsewhere, pass, RowInv, Fanning
    <3>3. \A t \in Slots \ {s} : todo'[t] = todo[t]
      BY <1>0, <2>4 DEF Upsert, SlotType
    <3>4. \A r \in todo'[s] : r \in Rows /\ row[r] # "none"
      BY <1>0, <2>4 DEF Upsert, SlotType, RowsOf, RowInv
    <3>5. \A r \in left'[s] : r \in Rows /\ row[r] # "none"
      BY <1>0, <3>2 DEF SlotType, RowInv
    <3>. QED
      BY <2>0, <3>1, <3>2, <3>3, <3>4, <3>5, HandlerRows DEF RowInv
  <2>5. CASE Again(s) \/ EnqueueRows(s) \/ Dispatch(s)
    <3>1. PICK p \in {"decision", "finish", "decided"} : Goto(s, p)
      BY <2>5 DEF Again, EnqueueRows, Dispatch
    <3>2. UNCHANGED <<row, todo, left, found>>
      BY <2>5 DEF Again, EnqueueRows, Dispatch, stored, Elsewhere, pass
    <3>3. PICK these : AddMail(these) /\ these \subseteq todo[s] \union RowsOf(key[s])
      BY <2>5 DEF Again, EnqueueRows, Dispatch
    <3>4. \A r \in these : row[r] # "none"
      BY <3>3 DEF RowInv, RowsOf
    <3>5. \A r \in Rows : mail'[r] # "none" => row[r] # "none"
      BY <3>3, <3>4, MailRows
    <3>. QED
      BY <1>0, <2>0, <3>1, <3>2, <3>5, HandlerRows DEF Fanning, RowInv, SlotType
  <2>6. CASE ReadHeld(s)
    <3>1. Goto(s, "release") /\ UNCHANGED <<row, mail, found>>
      BY <2>6 DEF ReadHeld, stored, Elsewhere, pass
    <3>2. \A t \in Slots \ {s} : todo'[t] = todo[t] /\ left'[t] = left[t]
      BY <1>0, <2>6 DEF ReadHeld, SlotType
    <3>3. \A r \in todo'[s] \union left'[s] : r \in Rows /\ row[r] # "none"
      BY <1>0, <2>6 DEF ReadHeld, SlotType, RowsOf
    <3>. QED
      BY <2>0, <3>1, <3>2, <3>3, HandlerRows DEF Fanning, RowInv
  <2>7. CASE ReleaseRow(s)
    <3>1. PICK p \in {"release", "dispatch"} : Goto(s, p)
      BY <1>0, <2>7 DEF ReleaseRow, Goto, SlotType
    <3>2. UNCHANGED <<todo, mail, found>>
      BY <2>7 DEF ReleaseRow, Elsewhere, pass
    <3>3. \A t \in Slots \ {s} : left'[t] = left[t]
      BY <1>0, <2>7 DEF ReleaseRow, SlotType
    <3>4. left'[s] \subseteq left[s]
      BY <1>0, <2>7 DEF ReleaseRow, SlotType
    <3>5. \A r \in Rows : row'[r] = "none" <=> row[r] = "none"
      BY <1>0, <2>7 DEF ReleaseRow, StoredType, RowInv
    <3>. QED
      BY <1>0, <2>0, <3>1, <3>2, <3>3, <3>4, <3>5, HandlerRows DEF Fanning, RowInv, SlotType
  <2>8. CASE Settle(s)
    <3>1. pc'= pc \/ Goto(s, "finish")
      BY <2>8 DEF Settle, SettleCheck, SettleRun, SettleRead, SettleCampaign, Return, Settling
    <3>2. UNCHANGED <<row, mail, todo, left, found>>
      BY <2>8 DEF Settle, SettleCheck, SettleRun, SettleRead, SettleCampaign, Return, Settling,
         stored, Elsewhere, pass
    <3>3. pc[s] = "settle"
      BY <2>8 DEF Settle, SettleCheck, SettleRun, SettleRead, SettleCampaign, TypeInv, SlotKeys
    <3>4. Goto(s, "settle") \/ Goto(s, "finish")
      BY <1>0, <3>1, <3>3 DEF Goto, SlotType
    <3>. QED
      BY <1>0, <2>0, <3>2, <3>4, HandlerRows DEF Fanning, RowInv, SlotType
  <2>. QED
    BY <1>1, <2>1, <2>2, <2>3, <2>4, <2>5, <2>6, <2>7, <2>8 DEF Handles, SlotStep
<1>2. CASE Others
  <2>1. UNCHANGED <<pc, id, key, todo, left>>
    BY <1>2, OtherFacts
  <2>2. ASSUME \A r \in Rows : row'[r] = "none" <=> row[r] = "none",
               \A r \in Rows : mail'[r] # "none" \/ r \in found'.rows => row[r] # "none"
        PROVE  RowInv'
    BY <1>0, <2>1, <2>2, RowsStay DEF RowInv, SlotType
  <2>3. ASSUME NEW r \in Rows, MailStep(r) \/ MailLost(r) PROVE RowInv'
    <3>1. mail[r] # "none" /\ UNCHANGED found
      BY <2>3 DEF MailStep, MailLost, MailRead, MailSuppress, MailClaim, MailOutcome,
         MailAmbiguous, MailRetry, Elsewhere, pass
    <3>2. \A q \in Rows : mail'[q] # "none" => mail[q] # "none"
      BY <1>0, <2>3, <3>1 DEF MailStep, MailLost, MailRead, MailSuppress, MailClaim, MailOutcome,
         MailAmbiguous, MailRetry, MailType
    <3>3. row' = row \/ \E o \in EmailJobStatus : row' = [row EXCEPT ![r] = o]
      BY <2>3 DEF MailStep, MailLost, MailRead, MailSuppress, MailClaim, MailOutcome,
         MailAmbiguous, MailRetry, stored, EmailJobStatus
    <3>4. \A q \in Rows : row'[q] = "none" <=> row[q] = "none"
      BY <1>0, <3>1, <3>3 DEF StoredType, EmailJobStatus, RowInv
    <3>. QED
      BY <2>2, <3>1, <3>2, <3>4 DEF RowInv
  <2>4. ASSUME NEW r \in Rows, CancelRow(r) PROVE RowInv'
    <3>1. \A q \in Rows : mail'[q] # "none" => mail[q] # "none"
      BY <1>0, <2>4 DEF CancelRow, MailType
    <3>2. \A q \in Rows : row'[q] = "none" <=> row[q] = "none"
      BY <1>0, <2>4 DEF CancelRow, StoredType, Cancellable
    <3>. QED
      BY <2>2, <2>4, <3>1, <3>2 DEF RowInv, CancelRow, pass
  <2>5. ASSUME NEW r \in Rows, Settle(r) PROVE RowInv'
    <3>1. UNCHANGED <<row, found>>
      BY <2>5 DEF Settle, SettleCheck, SettleRun, SettleRead, SettleCampaign, stored, Elsewhere,
         pass
    <3>2. settling[r] # "no"
      BY <2>5 DEF Settle, SettleCheck, SettleRun, SettleRead, SettleCampaign
    <3>3. UNCHANGED mail \/ mail' = [mail EXCEPT ![r] = "done"]
      BY <2>5, ActorsAssumption DEF Settle, SettleCheck, SettleRun, SettleRead, SettleCampaign,
         Return, Settling
    <3>4. \A q \in Rows : mail'[q] # "none" => mail[q] # "none"
      BY <1>0, <3>2, <3>3 DEF SenderInv, MailType
    <3>. QED
      BY <2>2, <3>1, <3>4 DEF RowInv
  <2>6. CASE Fire \/ Tick \/ ApiCalls
    BY <2>2, <2>6 DEF Fire, Tick, ApiCalls, ApiStep, StartCheck, SendNow, Schedule, SetRecurrence,
       StartAdd, PauseCheck, Pause, ResumeCheck, Resume, CallFails, ApiOnly, stored, pass, RowInv
  <2>7. CASE Recover
    <3>1. CASE RecoverRead
      BY <2>2, <3>1 DEF RecoverRead, stored, RowInv
    <3>2. CASE RecoverAdd
      <4>1. UNCHANGED row /\ found' = NothingFound /\ AddMail(found.rows)
        BY <3>2 DEF RecoverAdd, stored
      <4>2. \A r \in Rows : mail'[r] # "none" => row[r] # "none"
        BY <4>1 DEF AddMail, RowInv
      <4>. QED
        BY <2>2, <4>1, <4>2 DEF NothingFound
    <3>. QED
      BY <2>7, <3>1, <3>2 DEF Recover
  <2>. QED
    BY <1>2, <2>3, <2>4, <2>5, <2>6, <2>7 DEF Others
<1>3. ASSUME NEW s \in Slots,
             \/ Finish(s) \/ Crash(s) \/ Throw(s)
             \/ \E j \in JobIds : Take(s, j)
      PROVE  RowInv'
  <2>1. UNCHANGED <<row, mail, found>>
    BY <1>3 DEF Finish, Crash, Throw, Take, stored, pass
  <2>2. ASSUME NEW t \in Slots
        PROVE  /\ pc'[t] \in Fanning => id'[t] \in FanJobs
               /\ pc'[t] = "compose" => RowsOf(key'[t]) = {}
               /\ \A r \in todo'[t] \union left'[t] : r \in Rows /\ row[r] # "none"
    <3>1. \/ pc'[t] = pc[t] /\ id'[t] = id[t] /\ key'[t] = key[t]
          \/ pc'[t] \in {"idle", "throw", "load"}
      BY <1>0, <1>3 DEF Finish, Crash, Throw, Take, Release, SlotType
    <3>2. /\ todo'[t] = {} \/ todo'[t] = todo[t]
          /\ left'[t] = {} \/ left'[t] = left[t]
      BY <1>0, <1>3 DEF Finish, Crash, Throw, Take, Release, SlotType
    <3>. QED
      BY <1>0, <3>1, <3>2 DEF Fanning, RowInv, SlotType
  <2>. QED
    BY <2>1, <2>2, RowsStay DEF RowInv
<1>4. CASE RedisLoss \/ \E j \in JobIds : LockExpires(j)
  <2>1. UNCHANGED <<row, pc, id, key, todo, left, found>>
    BY <1>4 DEF RedisLoss, LockExpires, slots, stored, pass
  <2>2. \A r \in Rows : mail'[r] # "none" => mail[r] # "none"
    BY <1>4 DEF RedisLoss, LockExpires
  <2>. QED
    BY <1>0, <2>1, <2>2, RowsStay DEF RowInv, SlotType
<1>5. CASE UNCHANGED vars
  BY <1>5 DEF vars, stored, slots, pass, RowInv, RowsOf, FanJobs
<1>. QED
  BY <1>1, <1>2, <1>3, <1>4, <1>5 DEF Next, Handles, Others, ApiCalls

---------------------------------------------------------------------------
(* A contact gets one row of a run. *)

FanOutInv == TypeInv /\ SenderInv /\ LockInv /\ OriginInv /\ ApartInv /\ RowInv

LEMMA FanOutInit == Init => FanOutInv
<1> SUFFICES ASSUME Init PROVE FanOutInv
  OBVIOUS
<1>1. TypeInv
  BY TypeInit
<1>2. SenderInv /\ LockInv
  BY DEF Init, SenderInv, LockInv
<1>3. OriginInv
  <2> SUFFICES ASSUME NEW j \in JobIds, bull[j] # "none"
               PROVE  j.type = "process" /\ carries[j] = j.of /\ j.of.kind # "early"
    BY DEF OriginInv
  <2>. QED
    BY DEF Init, Process
<1>4. ApartInv
  <2> SUFFICES ASSUME NEW j \in FanJobs, NEW l \in FanJobs, Busy(j), Busy(l)
               PROVE  j = l
    BY DEF ApartInv
  <2>. QED
    BY DEF Init, Busy, FanJobs
<1>5. RowInv
  BY DEF Init, RowInv, Fanning, NothingFound, RowsOf
<1>. QED
  BY <1>1, <1>2, <1>3, <1>4, <1>5 DEF FanOutInv

LEMMA FanOutStep ==
    ASSUME FanOutInv, [Next]_vars, Completes, "stall" \notin FaultKinds
    PROVE  FanOutInv'
BY TypeStep, SenderKept, LockKept, OriginKept, ApartKept, RowKept DEF FanOutInv

LEMMA FanOutTurn ==
    ASSUME "stall" \notin FaultKinds
    PROVE  FanOutInv /\ [Next]_vars /\ [Completes]_vars => FanOutInv'
<1> SUFFICES ASSUME FanOutInv, [Next]_vars, [Completes]_vars PROVE FanOutInv'
  OBVIOUS
<1>1. CASE UNCHANGED vars
  <2>1. pc \in [Slots -> Steps]
    BY TypeParts DEF FanOutInv, TypeInv, SlotType
  <2>2. Completes
    BY <1>1, <2>1 DEF Completes, Crash, Release, vars, slots
  <2>. QED
    BY <2>2, FanOutStep
<1>2. CASE ~UNCHANGED vars
  BY <1>2, FanOutStep
<1>. QED
  BY <1>1, <1>2

\* While its locks outlive its handlers and no slot dies between the end of a handler and
\* the completion of its job, a run has one row for a contact, whoever starts, reschedules
\* and resumes the campaign, and through retries, crashes elsewhere in a handler, lost Redis
\* data and recovery passes (campaign-processing.worker.ts:115-181, recovery.ts:97-116).
THEOREM OneRow ==
    Spec /\ [][Completes]_vars /\ "stall" \notin FaultKinds => []OneRowPerRun
<1> SUFFICES ASSUME "stall" \notin FaultKinds
             PROVE  Spec /\ [][Completes]_vars => []OneRowPerRun
  OBVIOUS
<1>1. FanOutInv => OneRowPerRun
  <2> SUFFICES ASSUME FanOutInv, NEW k \in Keys, NEW c \in Contacts
               PROVE  Cardinality({r \in RowsOf(k) : r.contact = c}) <= 1
    BY DEF OneRowPerRun
  <2> DEFINE one == [key |-> k, contact |-> c, copy |-> 1]
             these == {r \in RowsOf(k) : r.contact = c}
  <2>1. \A r \in these : r = one
    BY RowShape DEF FanOutInv, RowInv, RowsOf
  <2>2. IsFiniteSet({one}) /\ Cardinality({one}) = 1
    BY FS_Singleton
  <2>3. these \subseteq {one}
    BY <2>1
  <2> HIDE DEF one, these
  <2>4. Cardinality(these) <= Cardinality({one})
    BY <2>2, <2>3, FS_Subset
  <2>5. Cardinality(these) <= 1
    BY <2>2, <2>4
  <2>. QED
    BY <2>5 DEF these
<1>. QED
  BY <1>1, FanOutInit, FanOutTurn, PTL DEF Spec

---------------------------------------------------------------------------
(* The remainder of a test. *)

LEMMA KeysFinite == IsFiniteSet(Keys)
<1> DEFINE Of(kind, m) == {[kind |-> kind, n |-> i] : i \in 1..m}
<1>1. ASSUME NEW kind, NEW m \in Nat PROVE IsFiniteSet(Of(kind, m))
  <2> DEFINE f == [i \in 1..m |-> [kind |-> kind, n |-> i]]
  <2>1. f \in Surjection(1..m, Of(kind, m))
    BY DEF Surjection
  <2>2. IsFiniteSet(1..m)
    BY <1>1, FS_Interval
  <2>. QED
    BY <2>1, <2>2, FS_Surjection
<1>2. Keys \subseteq Of("manual", MaxStarts) \union Of("scheduled", MaxTime)
                     \union Of("fire", MaxFires) \union Of("early", MaxTime)
  BY Numbers DEF Keys
<1>3. /\ IsFiniteSet(Of("manual", MaxStarts)) /\ IsFiniteSet(Of("scheduled", MaxTime))
      /\ IsFiniteSet(Of("fire", MaxFires)) /\ IsFiniteSet(Of("early", MaxTime))
  BY <1>1, Numbers
<1> HIDE DEF Of
<1>4. IsFiniteSet(Of("manual", MaxStarts) \union Of("scheduled", MaxTime))
  BY <1>3, FS_Union
<1>5. IsFiniteSet((Of("manual", MaxStarts) \union Of("scheduled", MaxTime))
                    \union Of("fire", MaxFires))
  BY <1>3, <1>4, FS_Union
<1>6. IsFiniteSet(((Of("manual", MaxStarts) \union Of("scheduled", MaxTime))
                    \union Of("fire", MaxFires)) \union Of("early", MaxTime))
  BY <1>3, <1>5, FS_Union
<1>. QED
  BY <1>2, <1>6, FS_Subset

LEMMA OneRun ==
    ASSUME OneShotRunsOnce, NEW k \in Keys, NEW l \in Keys, run[k] # "none", run[l] # "none"
    PROVE  k = l
<1> DEFINE these == {m \in Keys : run[m] # "none"}
<1>1. IsFiniteSet(these)
  BY KeysFinite, FS_Subset
<1>2. Cardinality(these) <= 1
  BY DEF OneShotRunsOnce
<1>3. k \in these /\ l \in these
  OBVIOUS
<1> HIDE DEF these
<1>4. Cardinality(these) \in Nat /\ Cardinality(these) # 0
  BY <1>1, <1>3, FS_CardinalityType, FS_EmptySet
<1>5. Cardinality(these) = 1
  BY <1>2, <1>4
<1>6. \E x : these = {x}
  BY <1>1, <1>5, FS_Singleton
<1>. QED
  BY <1>3, <1>6

\* Who writes a row.
LEMMA RowWrites ==
    ASSUME TypeInv, [Next]_vars
    PROVE  \/ UNCHANGED row
           \/ \E s \in Slots : FanOut(s)
           \/ \E s \in Slots : \E r \in left[s] :
                 /\ pc[s] = "release" /\ pc'[s] = "release" /\ UNCHANGED <<mail, todo, found>>
                 /\ row' = [row EXCEPT ![r] = "QUEUED"] /\ left' = [left EXCEPT ![s] = @ \ {r}]
           \/ \E r \in Rows, o \in EmailJobStatus \ {"PENDING"} :
                 mail[r] \in {"admit", "smtp"} /\ row' = [row EXCEPT ![r] = o]
           \/ \E r \in Rows : CancelRow(r)
<1>1. ASSUME NEW s \in Slots, Handles(s)
      PROVE  \/ UNCHANGED row \/ FanOut(s)
             \/ \E r \in left[s] :
                   /\ pc[s] = "release" /\ pc'[s] = "release" /\ UNCHANGED <<mail, todo, found>>
                   /\ row' = [row EXCEPT ![r] = "QUEUED"] /\ left' = [left EXCEPT ![s] = @ \ {r}]
  <2>1. CASE ReleaseRow(s)
    BY <2>1 DEF ReleaseRow, Elsewhere, pass
  <2>. QED
    BY <1>1, <2>1 DEF Handles, SlotStep, Load, Defer, Start, Upsert, Again, Refuse, NoRecipients,
       EnqueueRows, ScheduleDecision, PickWinner, ReadHeld, Dispatch, CloseTest, Settle,
       SettleCheck, SettleRun, SettleRead, SettleCampaign, stored
<1>2. ASSUME NEW r \in Rows, MailStep(r) \/ MailLost(r) \/ Settle(r)
      PROVE  \/ UNCHANGED row
             \/ \E o \in EmailJobStatus \ {"PENDING"} :
                   mail[r] \in {"admit", "smtp"} /\ row' = [row EXCEPT ![r] = o]
  BY <1>2 DEF MailStep, MailLost, MailRead, MailSuppress, MailClaim, MailOutcome, MailAmbiguous,
     MailRetry, Settle, SettleCheck, SettleRun, SettleRead, SettleCampaign, stored, EmailJobStatus
<1>3. CASE Fire \/ Tick \/ Recover \/ ApiCalls \/ RedisLoss \/ \E j \in JobIds : LockExpires(j)
  BY <1>3 DEF Fire, Tick, Recover, RecoverRead, RecoverAdd, ApiCalls, ApiStep, StartCheck, SendNow,
     Schedule, SetRecurrence, StartAdd, PauseCheck, Pause, ResumeCheck, Resume, CallFails,
     RedisLoss, LockExpires, stored
<1>4. ASSUME NEW s \in Slots, Finish(s) \/ Crash(s) \/ Throw(s) \/ \E j \in JobIds : Take(s, j)
      PROVE  UNCHANGED row
  BY <1>4 DEF Finish, Crash, Throw, Take, stored
<1>5. CASE UNCHANGED vars
  BY <1>5 DEF vars, stored
<1>. QED
  BY <1>1, <1>2, <1>3, <1>4, <1>5 DEF Next, Handles, ApiCalls

\* Rows stay, and a new row is one of a slot that fans out its run.
LEMMA RowsGrow ==
    ASSUME FanOutInv, [Next]_vars, NEW r \in Rows
    PROVE  /\ row[r] # "none" => row'[r] # "none"
           /\ row[r] = "none" /\ row'[r] # "none" => \E s \in Slots : FanOut(s) /\ r.key = key[s]
<1>0. StoredType /\ SlotType /\ TypeInv /\ RowInv /\ LockInv /\ ApartInv
  BY TypeParts DEF TypeInv, FanOutInv
<1>1. ASSUME NEW s \in Slots, FanOut(s)
      PROVE  /\ row[r] # "none" => row'[r] # "none"
             /\ row[r] = "none" /\ row'[r] # "none" => r.key = key[s]
  BY <1>0, <1>1, FanOutNew
<1>2. ASSUME NEW q \in Rows, NEW o \in EmailJobStatus, row[q] # "none", row' = [row EXCEPT ![q] = o]
      PROVE  row[r] # "none" <=> row'[r] # "none"
  BY <1>0, <1>2 DEF StoredType, EmailJobStatus
<1>3. ASSUME NEW q \in Rows, CancelRow(q) PROVE row[r] # "none" <=> row'[r] # "none"
  BY <1>0, <1>3 DEF CancelRow, StoredType, Cancellable
<1>4. \A s \in Slots : \A q \in left[s] : q \in Rows /\ row[q] # "none"
  BY <1>0 DEF SlotType, RowInv
<1>5. \A q \in Rows : mail[q] # "none" => row[q] # "none"
  BY <1>0 DEF RowInv
<1>6. "QUEUED" \in EmailJobStatus
  BY DEF EmailJobStatus
<1>7. PICK q \in Rows, o \in EmailJobStatus :
          \/ UNCHANGED row
          \/ \E s \in Slots : FanOut(s)
          \/ row[q] # "none" /\ row' = [row EXCEPT ![q] = o]
          \/ CancelRow(q)
  BY <1>0, <1>4, <1>5, <1>6, RowWrites
<1>. QED
  BY <1>1, <1>2, <1>3, <1>7

LEMMA RunsGrow ==
    ASSUME TypeInv, [Next]_vars, NEW k \in Keys
    PROVE  run[k] # "none" => run'[k] # "none"
<1>0. StoredType
  BY TypeParts DEF TypeInv
<1>1. \/ UNCHANGED run
      \/ \E s \in Slots : Upsert(s)
      \/ \E a \in Slots \union Rows : SettleRun(a)
  BY DEF Next, SlotStep, Load, Defer, Start, Again, Refuse, NoRecipients, FanOut,
     EnqueueRows, ScheduleDecision, PickWinner, ReadHeld, ReleaseRow, Dispatch, CloseTest, Finish,
     Throw, Crash, Take, Settle, SettleCheck, SettleRead, SettleCampaign,
     MailStep, MailLost, CancelRow, MailRead, MailSuppress, MailClaim, MailOutcome, MailAmbiguous,
     MailRetry, LockExpires, RedisLoss, Fire, Tick, Recover, RecoverRead, RecoverAdd, StartCheck,
     ApiStep, SendNow, Schedule, SetRecurrence, StartAdd, PauseCheck, Pause, ResumeCheck, Resume,
     CallFails, stored, vars
<1>. QED
  BY <1>0, <1>1 DEF Upsert, SettleRun, StoredType

\* Whoever decides the test of a run is its decision job.
LEMMA Decider ==
    ASSUME FanOutInv, TestInv, NEW s \in Slots, pc[s] \in Deciding
    PROVE  /\ key[s] \in Keys /\ id[s] = Decide(key[s]) /\ owner[id[s]] = s
           /\ run[key[s]] # "none" /\ RowsOf(key[s]) # {}
<1>1. pc[s] # "idle"
  BY DEF Deciding
<1>2. id[s] \in JobIds /\ key[s] \in Keys /\ owner[id[s]] = s /\ carries[id[s]] = key[s]
      /\ bull[id[s]] = "active"
  BY <1>1 DEF FanOutInv, TypeInv, SlotKeys, LockInv
<1>3. id[s].type = "decide" /\ RowsOf(key[s]) # {}
  BY DEF TestInv
<1>4. id[s].of = key[s]
  BY <1>2, <1>3 DEF FanOutInv, OriginInv
<1>. QED
  BY <1>2, <1>3, <1>4, JobShape DEF Decide, TestInv

\* The test of the one run there is stays decided until its decider closes it.
LEMMA StaysDecided ==
    ASSUME FanOutInv, TestInv, OneShotRunsOnce, [Next]_vars, NEW s \in Slots,
           pc[s] \in Deciding \ {"decide"}
    PROVE  ab' = "DECIDED" \/ CloseTest(s)
<1>1. ab = "DECIDED"
  BY DEF TestInv
<1>2. \/ UNCHANGED ab
      \/ \E t \in Slots : FanOut(t) \/ PickWinner(t) \/ CloseTest(t)
  BY DEF Next, SlotStep, Load, Defer, Start, Upsert, Again, Refuse, NoRecipients,
     EnqueueRows, ScheduleDecision, ReadHeld, ReleaseRow, Dispatch, Finish,
     Throw, Crash, Take, Settle, SettleCheck, SettleRun, SettleRead, SettleCampaign,
     MailStep, MailLost, CancelRow, MailRead, MailSuppress, MailClaim, MailOutcome, MailAmbiguous,
     MailRetry, LockExpires, RedisLoss, Fire, Tick, Recover, RecoverRead, RecoverAdd, StartCheck,
     ApiStep, SendNow, Schedule, SetRecurrence, StartAdd, PauseCheck, Pause, ResumeCheck, Resume,
     CallFails, stored, vars
<1>3. key[s] \in Keys /\ run[key[s]] # "none" /\ RowsOf(key[s]) # {}
      /\ id[s] = Decide(key[s]) /\ owner[id[s]] = s
  BY Decider
<1>4. ASSUME NEW t \in Slots, FanOut(t) PROVE FALSE
  <2>1. pc[t] = "compose" /\ key[t] \in Keys
    BY <1>4 DEF FanOut, FanOutInv, TypeInv, SlotKeys
  <2>2. run[key[t]] # "none" /\ RowsOf(key[t]) = {}
    BY <2>1 DEF TestInv, FanOutInv, RowInv
  <2>. QED
    BY <1>3, <2>1, <2>2, OneRun
<1>5. ASSUME NEW t \in Slots, CloseTest(t) PROVE t = s
  <2>1. pc[t] \in Deciding
    BY <1>5 DEF CloseTest, Deciding
  <2>2. key[t] \in Keys /\ run[key[t]] # "none" /\ id[t] = Decide(key[t]) /\ owner[id[t]] = t
    BY <2>1, Decider
  <2>3. key[t] = key[s]
    BY <1>3, <2>2, OneRun
  <2>. QED
    BY <1>3, <2>2, <2>3
<1>. QED
  BY <1>1, <1>2, <1>4, <1>5 DEF PickWinner

\* What a step makes of where a slot stands.
LEMMA Turns ==
    ASSUME TypeInv, [Next]_vars, NEW t \in Slots
    PROVE  \/ pc'[t] = pc[t] /\ id'[t] = id[t] /\ key'[t] = key[t]
           \/ pc'[t] \notin Deciding \union {"again", "compose", "queue"}
           \/ /\ id'[t] = id[t] /\ key'[t] = key[t]
              /\ \/ Load(t) \/ Upsert(t) \/ FanOut(t) \/ PickWinner(t) \/ ReadHeld(t)
                 \/ ReleaseRow(t) \/ Dispatch(t)
<1>0. SlotType
  BY TypeParts DEF TypeInv
<1>1. ASSUME NEW s \in Slots, Handles(s), s # t
      PROVE  pc'[t] = pc[t] /\ id'[t] = id[t] /\ key'[t] = key[t]
  BY <1>1, HandlerFacts
<1>2. CASE Handles(t)
  <2>1. id'[t] = id[t] /\ key'[t] = key[t]
    BY <1>2, HandlerFacts
  <2>2. \/ Load(t) \/ Upsert(t) \/ FanOut(t) \/ PickWinner(t) \/ ReadHeld(t)
        \/ ReleaseRow(t) \/ Dispatch(t) \/ UNCHANGED pc
        \/ \E p \in {"throw", "finish", "settle", "decision", "upsert"} : Goto(t, p)
    BY <1>2 DEF Handles, SlotStep, Defer, Start, Again, Refuse, NoRecipients, EnqueueRows,
       ScheduleDecision, CloseTest, Settle, SettleCheck, SettleRun, SettleRead, SettleCampaign,
       Return, Settling
  <2>. QED
    BY <1>0, <2>1, <2>2 DEF Goto, SlotType, Deciding
<1>3. CASE Others
  BY <1>3, OtherFacts
<1>4. ASSUME NEW s \in Slots, Finish(s) \/ Crash(s) \/ Throw(s) \/ \E j \in JobIds : Take(s, j)
      PROVE  \/ pc'[t] = pc[t] /\ id'[t] = id[t] /\ key'[t] = key[t]
             \/ pc'[t] \notin Deciding \union {"again", "compose", "queue"}
  <2>1. \/ pc'[t] = pc[t] /\ id'[t] = id[t] /\ key'[t] = key[t]
        \/ pc'[t] \in {"idle", "throw", "load"}
    BY <1>0, <1>4 DEF Finish, Crash, Throw, Take, Release, SlotType
  <2>. QED
    BY <2>1 DEF Deciding
<1>5. CASE RedisLoss \/ (\E j \in JobIds : LockExpires(j)) \/ UNCHANGED vars
  BY <1>5 DEF RedisLoss, LockExpires, slots, vars
<1>. QED
  BY <1>1, <1>2, <1>3, <1>4, <1>5 DEF Next, Handles, Others, ApiCalls

LEMMA TestKept ==
    ASSUME FanOutInv, TestInv, OneShotRunsOnce, [Next]_vars
    PROVE  TestInv'
<1>0. StoredType /\ SlotType /\ TypeInv /\ RowInv /\ LockInv /\ ApartInv
  BY TypeParts DEF TypeInv, FanOutInv
<1> DEFINE Later(k) == {r \in Rows : r.key = k /\ row'[r] # "none"}
<1>1. \A k : RowsOf(k) # {} => Later(k) # {}
  BY RowsGrow DEF RowsOf
<1>2. ASSUME NEW k \in Keys, Later(k) # {} PROVE run'[k] # "none"
  <2>1. PICK r \in Rows : r.key = k /\ row'[r] # "none"
    BY <1>2
  <2>2. CASE row[r] # "none"
    <3>1. RowsOf(k) # {}
      BY <2>1, <2>2 DEF RowsOf
    <3>. QED
      BY <1>0, <3>1, RunsGrow DEF TestInv
  <2>3. CASE row[r] = "none"
    <3>1. PICK s \in Slots : FanOut(s) /\ k = key[s]
      BY <2>1, <2>3, RowsGrow
    <3>2. run[k] # "none"
      BY <3>1 DEF FanOut, TestInv
    <3>. QED
      BY <1>0, <3>2, RunsGrow
  <2>. QED
    BY <2>2, <2>3
<1>3. ASSUME ab' # "none" PROVE \E k \in Keys : Later(k) # {}
  <2>1. CASE ab # "none"
    BY <1>1, <2>1 DEF TestInv
  <2>2. CASE ab = "none"
    <3>1. PICK s \in Slots : FanOut(s) \/ PickWinner(s) \/ CloseTest(s)
      BY <1>3, <2>2 DEF Next, SlotStep, Load, Defer, Start, Upsert, Again, Refuse, NoRecipients,
         EnqueueRows, ScheduleDecision, ReadHeld, ReleaseRow, Dispatch, Finish,
         Throw, Crash, Take, Settle, SettleCheck, SettleRun, SettleRead, SettleCampaign,
         MailStep, MailLost, CancelRow, MailRead, MailSuppress, MailClaim, MailOutcome,
         MailAmbiguous, MailRetry, LockExpires, RedisLoss, Fire, Tick, Recover, RecoverRead,
         RecoverAdd, StartCheck, ApiStep, SendNow, Schedule, SetRecurrence, StartAdd, PauseCheck,
         Pause, ResumeCheck, Resume, CallFails, stored, vars
    <3>2. CASE PickWinner(s) \/ CloseTest(s)
      <4>1. pc[s] \in Deciding
        BY <3>2 DEF PickWinner, CloseTest, Deciding
      <4>2. key[s] \in Keys /\ RowsOf(key[s]) # {}
        BY <4>1, Decider
      <4>. QED
        BY <1>1, <4>2
    <3>3. CASE FanOut(s)
      <4> DEFINE new == [key : {key[s]}, contact : Contacts, copy : {1}]
      <4>1. /\ new \subseteq Rows /\ key[s] \in Keys
            /\ row' = [r \in Rows |->
                          IF r \notin new THEN row[r]
                          ELSE IF ~AbEnabled \/ r.contact \in Tested THEN "QUEUED" ELSE "PENDING"]
        BY <1>0, <3>3, FanOutNew
      <4>2. PICK c \in Contacts : TRUE
        BY <3>3 DEF FanOut
      <4>3. [key |-> key[s], contact |-> c, copy |-> 1] \in new
        OBVIOUS
      <4>4. PICK r \in new : r.key = key[s]
        BY <4>3
      <4> HIDE DEF new
      <4>5. r \in Rows /\ row'[r] # "none"
        BY <4>1, <4>4
      <4>. QED
        BY <4>1, <4>4, <4>5
    <3>. QED
      BY <3>1, <3>2, <3>3
  <2>. QED
    BY <2>1, <2>2
<1> HIDE DEF Later
<1>4. ASSUME NEW t \in Slots
      PROVE  /\ pc'[t] \in {"again", "compose", "queue"} => run'[key'[t]] # "none"
             /\ pc'[t] \in Deciding => id'[t].type = "decide" /\ Later(key'[t]) # {}
             /\ pc'[t] \in Deciding \ {"decide"} => ab' = "DECIDED"
  <2>1. pc[t] # "idle" => key[t] \in Keys
    BY <1>0 DEF TypeInv, SlotKeys
  <2>2. key[t] \in Keys /\ run[key[t]] # "none" => run'[key[t]] # "none"
    BY <1>0, RunsGrow
  <2>3. pc[t] \in Deciding \ {"decide"} => ab' = "DECIDED" \/ CloseTest(t)
    BY StaysDecided
  <2>4. CloseTest(t) => pc'[t] = "settle"
    BY <1>0 DEF CloseTest, Goto, SlotType
  <2>5. CASE pc'[t] = pc[t] /\ id'[t] = id[t] /\ key'[t] = key[t]
    BY <1>1, <2>1, <2>2, <2>3, <2>4, <2>5 DEF TestInv, Deciding
  <2>6. CASE pc'[t] \notin Deciding \union {"again", "compose", "queue"}
    BY <2>6
  <2>7. CASE /\ id'[t] = id[t] /\ key'[t] = key[t]
             /\ \/ Load(t) \/ Upsert(t) \/ FanOut(t) \/ PickWinner(t) \/ ReadHeld(t)
                \/ ReleaseRow(t) \/ Dispatch(t)
    <3>1. pc[t] # "idle" /\ key[t] \in Keys
      BY <2>1, <2>7 DEF Load, Upsert, FanOut, PickWinner, ReadHeld, ReleaseRow, Dispatch
    <3>2. CASE Load(t)
      <4>1. PICK p \in {"decide", "finish", "start", "upsert"} :
                /\ Goto(t, p)
                /\ p = "decide" => id[t].type = "decide" /\ ab = "TESTING" /\ run[key[t]] # "none"
        BY <3>2 DEF Load
      <4>2. CASE p = "decide"
        <5>1. PICK k \in Keys : RowsOf(k) # {}
          BY <4>1, <4>2 DEF TestInv
        <5>2. k = key[t]
          BY <3>1, <4>1, <4>2, <5>1, OneRun DEF TestInv
        <5>3. pc'[t] = "decide"
          BY <1>0, <4>1, <4>2 DEF Goto, SlotType
        <5>. QED
          BY <1>1, <2>7, <4>1, <4>2, <5>1, <5>2, <5>3
      <4>3. CASE p # "decide"
        BY <1>0, <4>1, <4>3 DEF Goto, SlotType, Deciding
      <4>. QED
        BY <4>2, <4>3
    <3>3. CASE Upsert(t)
      <4>1. pc'[t] \in {"again", "compose"}
        BY <1>0, <3>3 DEF Upsert, Goto, SlotType
      <4>2. run'[key[t]] # "none"
        BY <1>0, <3>1, <3>3 DEF Upsert, StoredType
      <4>. QED
        BY <2>7, <4>1, <4>2 DEF Deciding
    <3>4. CASE FanOut(t)
      <4>1. pc'[t] = "queue" /\ pc[t] = "compose"
        BY <1>0, <3>4 DEF FanOut, Goto, SlotType
      <4>. QED
        BY <2>2, <2>7, <3>1, <4>1 DEF Deciding, TestInv
    <3>5. CASE PickWinner(t) \/ ReadHeld(t) \/ ReleaseRow(t) \/ Dispatch(t)
      <4>1. pc[t] \in Deciding
        BY <3>5 DEF PickWinner, ReadHeld, ReleaseRow, Dispatch, Deciding
      <4>2. pc'[t] \in Deciding \ {"decide"}
        BY <1>0, <3>5 DEF PickWinner, ReadHeld, ReleaseRow, Dispatch, Deciding, Goto, SlotType
      <4>3. id[t].type = "decide" /\ Later(key[t]) # {}
        BY <1>1, <4>1 DEF TestInv
      <4>4. PickWinner(t) \/ pc[t] \in Deciding \ {"decide"}
        BY <3>5 DEF ReadHeld, ReleaseRow, Dispatch, Deciding
      <4>5. ab' = "DECIDED"
        BY <2>3, <2>4, <4>2, <4>4 DEF PickWinner, Deciding
      <4>. QED
        BY <2>7, <4>2, <4>3, <4>5 DEF Deciding
    <3>. QED
      BY <2>7, <3>2, <3>3, <3>4, <3>5
  <2>. QED
    BY <1>0, <2>5, <2>6, <2>7, Turns
<1>. QED
  BY <1>2, <1>3, <1>4 DEF TestInv, RowsOf, Later

\* What a step makes of the rows a slot is to enqueue.
LEMMA Holds ==
    ASSUME TypeInv, [Next]_vars, NEW t \in Slots
    PROVE  \/ /\ todo'[t] = todo[t] /\ left'[t] = left[t]
              /\ pc'[t] \in {pc[t], "throw"} \/ pc[t] \notin {"release", "throw"}
           \/ todo'[t] = {} /\ left'[t] = {}
           \/ Upsert(t) \/ FanOut(t) \/ ReadHeld(t) \/ ReleaseRow(t)
<1>0. SlotType
  BY TypeParts DEF TypeInv
<1> DEFINE Same == todo'[t] = todo[t] /\ left'[t] = left[t]
           Goes == pc'[t] \in {pc[t], "throw"} \/ pc[t] \notin {"release", "throw"}
           Kept == \/ Same /\ Goes
                   \/ todo'[t] = {} /\ left'[t] = {}
                   \/ Upsert(t) \/ FanOut(t) \/ ReadHeld(t) \/ ReleaseRow(t)
<1>1. ASSUME NEW s \in Slots, Handles(s), s # t PROVE Kept
  <2>1. pc'[t] = pc[t]
    BY <1>1, HandlerFacts
  <2>2. CASE Upsert(s) \/ FanOut(s) \/ ReadHeld(s) \/ ReleaseRow(s)
    BY <1>0, <1>1, <2>1, <2>2 DEF Upsert, FanOut, ReadHeld, ReleaseRow, SlotType
  <2>3. CASE ~(Upsert(s) \/ FanOut(s) \/ ReadHeld(s) \/ ReleaseRow(s))
    <3>1. UNCHANGED <<todo, left>>
      BY <1>1, <2>3 DEF Handles, SlotStep, Load, Defer, Start, Again, Refuse, NoRecipients,
         EnqueueRows, ScheduleDecision, PickWinner, Dispatch, CloseTest, Settle, SettleCheck,
         SettleRun, SettleRead, SettleCampaign
    <3>. QED
      BY <2>1, <3>1
  <2>. QED
    BY <2>2, <2>3
<1>2. CASE Handles(t)
  <2>1. CASE Upsert(t) \/ FanOut(t) \/ ReadHeld(t) \/ ReleaseRow(t)
    BY <2>1
  <2>2. CASE ~(Upsert(t) \/ FanOut(t) \/ ReadHeld(t) \/ ReleaseRow(t))
    <3>1. UNCHANGED <<todo, left>>
      BY <1>2, <2>2 DEF Handles, SlotStep, Load, Defer, Start, Again, Refuse, NoRecipients,
         EnqueueRows, ScheduleDecision, PickWinner, Dispatch, CloseTest, Settle, SettleCheck,
         SettleRun, SettleRead, SettleCampaign
    <3>2. pc[t] \notin {"release", "throw"}
      BY <1>2, <2>2 DEF Handles, SlotStep, Load, Defer, Start, Again, Refuse, NoRecipients,
         EnqueueRows, ScheduleDecision, PickWinner, Dispatch, CloseTest, Settle, SettleCheck,
         SettleRun, SettleRead, SettleCampaign, TypeInv, SlotKeys
    <3>. QED
      BY <3>1, <3>2
  <2>. QED
    BY <2>1, <2>2
<1>3. CASE Others
  BY <1>3, OtherFacts
<1>4. ASSUME NEW s \in Slots, Finish(s) \/ Crash(s) PROVE Kept
  BY <1>0, <1>4 DEF Finish, Crash, Release, SlotType
<1>5. ASSUME NEW s \in Slots, Throw(s) \/ \E j \in JobIds : Take(s, j) PROVE Kept
  <2>1. UNCHANGED <<todo, left>>
    BY <1>5 DEF Throw, Take
  <2>2. pc'[t] \in {pc[t], "throw"} \/ pc[t] = "idle"
    BY <1>0, <1>5 DEF Throw, Take, SlotType
  <2>. QED
    BY <2>1, <2>2
<1>6. CASE RedisLoss \/ (\E j \in JobIds : LockExpires(j)) \/ UNCHANGED vars
  BY <1>6 DEF RedisLoss, LockExpires, slots, vars
<1>. QED
  BY <1>1, <1>2, <1>3, <1>4, <1>5, <1>6 DEF Next, Handles, Others, ApiCalls

\* Only a fan-out makes a row PENDING.
LEMMA NoNewHeld ==
    ASSUME FanOutInv, [Next]_vars, NEW r \in Rows, row[r] # "PENDING", row'[r] = "PENDING"
    PROVE  row[r] = "none" /\ AbEnabled /\ \E s \in Slots : FanOut(s)
<1>0. StoredType /\ SlotType /\ TypeInv /\ RowInv /\ LockInv /\ ApartInv
  BY TypeParts DEF TypeInv, FanOutInv
<1>1. ASSUME NEW s \in Slots, FanOut(s) PROVE row[r] = "none" /\ AbEnabled
  BY <1>0, <1>1, FanOutNew
<1>2. ASSUME NEW q \in Rows, NEW o \in EmailJobStatus \ {"PENDING"}, row' = [row EXCEPT ![q] = o]
      PROVE  FALSE
  BY <1>0, <1>2 DEF StoredType
<1>3. ASSUME NEW q \in Rows, CancelRow(q) PROVE FALSE
  BY <1>0, <1>3 DEF CancelRow, StoredType
<1>4. \A s \in Slots : \A q \in left[s] : q \in Rows
  BY <1>0 DEF SlotType
<1>5. "QUEUED" \in EmailJobStatus \ {"PENDING"}
  BY DEF EmailJobStatus
<1>6. ASSUME UNCHANGED row PROVE FALSE
  BY <1>6
<1>. QED
  BY <1>0, <1>1, <1>2, <1>3, <1>4, <1>5, <1>6, RowWrites

\* No sender, and no recovery pass, gets a held row.
LEMMA HeldUntouched ==
    ASSUME FanOutInv, HeldInv, [Next]_vars, NEW r \in Rows, row[r] \in {"none", "PENDING"}
    PROVE  mail'[r] = "none" /\ r \notin found'.rows
<1>0. MailType /\ SlotType /\ StoredType /\ OtherType /\ TypeInv /\ SenderInv /\ RowInv
  BY TypeParts DEF TypeInv, FanOutInv
<1>1. mail[r] = "none" /\ r \notin found.rows
  BY <1>0 DEF HeldInv, RowInv
<1>2. ASSUME NEW these, AddMail(these), r \notin these PROVE mail'[r] = "none"
  BY <1>1, <1>2 DEF AddMail
<1>3. ASSUME NEW s \in Slots, Handles(s) PROVE mail'[r] = "none" /\ r \notin found'.rows
  <2>1. CASE Again(s) \/ EnqueueRows(s) \/ Dispatch(s)
    <3>1. UNCHANGED found
      BY <2>1 DEF Again, EnqueueRows, Dispatch, Elsewhere, pass
    <3>2. left[s] = {}
      BY <2>1 DEF Again, EnqueueRows, Dispatch, HeldInv
    <3>3. r \notin todo[s]
      BY <1>0, <3>2 DEF HeldInv, RowInv
    <3>4. PICK these : AddMail(these) /\ \A q \in these : q \in todo[s] \/ row[q] = "QUEUED"
      BY <2>1 DEF Again, EnqueueRows, Dispatch
    <3>. QED
      BY <1>1, <1>2, <3>1, <3>3, <3>4
  <2>2. CASE ~(Again(s) \/ EnqueueRows(s) \/ Dispatch(s))
    <3>1. UNCHANGED <<mail, found>>
      BY <1>3, <2>2, ActorsAssumption DEF Handles, SlotStep, Load, Defer, Start, Upsert, Refuse,
         NoRecipients, FanOut, ScheduleDecision, PickWinner, ReadHeld, ReleaseRow, CloseTest,
         Settle, SettleCheck, SettleRun, SettleRead, SettleCampaign, Return, Settling, Elsewhere,
         pass
    <3>. QED
      BY <1>1, <3>1
  <2>. QED
    BY <2>1, <2>2
<1>4. ASSUME NEW q \in Rows, MailStep(q) \/ MailLost(q) \/ Settle(q)
      PROVE  mail'[r] = "none" /\ r \notin found'.rows
  <2>1. UNCHANGED found
    BY <1>4 DEF MailStep, MailLost, MailRead, MailSuppress, MailClaim, MailOutcome, MailAmbiguous,
       MailRetry, Settle, SettleCheck, SettleRun, SettleRead, SettleCampaign, Elsewhere, pass
  <2>2. mail[q] # "none"
    BY <1>0, <1>4 DEF MailStep, MailLost, MailRead, MailSuppress, MailClaim, MailOutcome,
       MailAmbiguous, MailRetry, Settle, SettleCheck, SettleRun, SettleRead, SettleCampaign,
       SenderInv
  <2>3. \A p \in Rows \ {q} : mail'[p] = mail[p]
    BY <1>0, <1>4, ActorsAssumption DEF MailStep, MailLost, MailRead, MailSuppress, MailClaim,
       MailOutcome, MailAmbiguous, MailRetry, Settle, SettleCheck, SettleRun, SettleRead,
       SettleCampaign, Return, Settling, MailType
  <2>. QED
    BY <1>1, <2>1, <2>2, <2>3
<1>5. ASSUME NEW q \in Rows, CancelRow(q) PROVE mail'[r] = "none" /\ r \notin found'.rows
  BY <1>0, <1>1, <1>5 DEF CancelRow, pass, MailType
<1>6. CASE Recover
  <2>1. CASE RecoverRead
    BY <1>1, <2>1 DEF RecoverRead
  <2>2. CASE RecoverAdd
    BY <1>1, <1>2, <2>2 DEF RecoverAdd, NothingFound
  <2>. QED
    BY <1>6, <2>1, <2>2 DEF Recover
<1>7. CASE Fire \/ Tick \/ ApiCalls \/ \E j \in JobIds : LockExpires(j)
  BY <1>1, <1>7 DEF Fire, Tick, ApiCalls, ApiStep, StartCheck, SendNow, Schedule, SetRecurrence,
     StartAdd, PauseCheck, Pause, ResumeCheck, Resume, CallFails, ApiOnly, LockExpires, pass
<1>8. CASE RedisLoss
  BY <1>1, <1>8 DEF RedisLoss, pass
<1>9. ASSUME NEW s \in Slots, Finish(s) \/ Crash(s) \/ Throw(s) \/ \E j \in JobIds : Take(s, j)
      PROVE  mail'[r] = "none" /\ r \notin found'.rows
  BY <1>1, <1>9 DEF Finish, Crash, Throw, Take, pass
<1>10. CASE UNCHANGED vars
  BY <1>1, <1>10 DEF vars, pass
<1>. QED
  BY <1>3, <1>4, <1>5, <1>6, <1>7, <1>8, <1>9, <1>10 DEF Next, Handles, ApiCalls

LEMMA HeldKept ==
    ASSUME FanOutInv, HeldInv, [Next]_vars
    PROVE  HeldInv'
<1>0. StoredType /\ SlotType /\ TypeInv /\ RowInv /\ LockInv /\ ApartInv
  BY TypeParts DEF TypeInv, FanOutInv
<1>1. ASSUME NEW r \in Rows, row'[r] = "PENDING"
      PROVE  AbEnabled /\ mail'[r] = "none" /\ r \notin found'.rows
  <2>1. CASE row[r] = "PENDING"
    BY <2>1, HeldUntouched DEF HeldInv
  <2>2. CASE row[r] # "PENDING"
    BY <1>1, <2>2, NoNewHeld, HeldUntouched
  <2>. QED
    BY <2>1, <2>2
<1>2. ASSUME NEW t \in Slots
      PROVE  /\ pc'[t] \notin {"release", "throw"} => left'[t] = {}
             /\ \A r \in todo'[t] \ left'[t] : row'[r] # "PENDING"
  <2>1. \A r \in todo[t] \ left[t] : r \in Rows /\ row'[r] # "PENDING"
    BY <1>0, NoNewHeld DEF HeldInv, RowInv, SlotType
  <2>2. CASE /\ todo'[t] = todo[t] /\ left'[t] = left[t]
             /\ pc'[t] \in {pc[t], "throw"} \/ pc[t] \notin {"release", "throw"}
    BY <2>1, <2>2 DEF HeldInv
  <2>3. CASE todo'[t] = {} /\ left'[t] = {}
    BY <2>3
  <2>4. CASE Upsert(t)
    <3>1. left[t] = {} /\ UNCHANGED <<left, row>>
      BY <2>4 DEF Upsert, HeldInv
    <3>2. \A r \in todo'[t] : row[r] # "PENDING"
      BY <1>0, <2>1, <2>4, <3>1 DEF Upsert, SlotType, HeldInv
    <3>. QED
      BY <3>1, <3>2
  <2>5. CASE FanOut(t)
    <3> DEFINE new == [key : {key[t]}, contact : Contacts, copy : {1}]
    <3>1. left[t] = {} /\ UNCHANGED left
      BY <2>5 DEF FanOut, HeldInv
    <3>2. /\ new \subseteq Rows
          /\ row' = [r \in Rows |->
                        IF r \notin new THEN row[r]
                        ELSE IF ~AbEnabled \/ r.contact \in Tested THEN "QUEUED" ELSE "PENDING"]
          /\ todo' = [todo EXCEPT ![t] = IF AbEnabled THEN {} ELSE new]
      BY <1>0, <2>5, FanOutNew
    <3> HIDE DEF new
    <3>3. todo'[t] = IF AbEnabled THEN {} ELSE new
      BY <1>0, <3>2 DEF SlotType
    <3>4. \A r \in todo'[t] : row'[r] # "PENDING"
      BY <3>2, <3>3
    <3>. QED
      BY <3>1, <3>4
  <2>6. CASE ReadHeld(t)
    <3>1. pc'[t] = "release" /\ todo'[t] = left'[t]
      BY <1>0, <2>6 DEF ReadHeld, Goto, SlotType
    <3>. QED
      BY <3>1
  <2>7. CASE ReleaseRow(t)
    <3>1. CASE left[t] = {} /\ Goto(t, "dispatch") /\ UNCHANGED <<row, left>>
      BY <2>1, <2>7, <3>1 DEF ReleaseRow
    <3>2. CASE \E r \in left[t] :
                  /\ row' = [row EXCEPT ![r] = "QUEUED"]
                  /\ left' = [left EXCEPT ![t] = @ \ {r}]
                  /\ UNCHANGED pc
      <4>1. PICK r \in left[t] :
                  /\ row' = [row EXCEPT ![r] = "QUEUED"]
                  /\ left' = [left EXCEPT ![t] = @ \ {r}]
                  /\ UNCHANGED pc
        BY <3>2
      <4>2. row'[r] = "QUEUED" /\ left'[t] = left[t] \ {r}
        BY <1>0, <4>1 DEF SlotType, StoredType
      <4>3. pc'[t] = "release" /\ UNCHANGED todo
        BY <2>7, <4>1 DEF ReleaseRow
      <4>. QED
        BY <2>1, <4>2, <4>3
    <3>. QED
      BY <2>7, <3>1, <3>2 DEF ReleaseRow
  <2>. QED
    BY <1>0, <2>2, <2>3, <2>4, <2>5, <2>6, <2>7, Holds
<1>. QED
  BY <1>1, <1>2 DEF HeldInv

LEMMA RemainderInit == Init => TestInv /\ HeldInv
<1>1. Init => TestInv
  BY DEF Init, TestInv, RowsOf, Deciding
<1>2. Init => HeldInv
  BY DEF Init, HeldInv, NothingFound
<1>. QED
  BY <1>1, <1>2

\* Under the hypotheses of OneRow, and while the campaign is run once, nothing but the
\* release of the decided test and the Outbox takes a row out of PENDING: not a sender, not
\* a retried or resumed fan-out, not a recovery pass (campaign-processing.worker.ts:495-528,
\* recovery.ts:27-70).
THEOREM Held ==
    Spec /\ [][Completes]_vars /\ []OneShotRunsOnce /\ "stall" \notin FaultKinds => HeldForWinner
<1> SUFFICES ASSUME "stall" \notin FaultKinds
             PROVE  Spec /\ [][Completes]_vars /\ []OneShotRunsOnce => HeldForWinner
  OBVIOUS
<1> DEFINE Inv == FanOutInv /\ TestInv /\ HeldInv
<1>1. Init => Inv
  BY FanOutInit, RemainderInit
<1>2. Inv /\ OneShotRunsOnce /\ [Next]_vars /\ [Completes]_vars => Inv'
  BY FanOutTurn, TestKept, HeldKept
<1>3. Inv /\ [Next]_vars
        => [\A r \in Rows :
               row[r] = "PENDING" /\ row'[r] # "PENDING" =>
                   ab = "DECIDED" \/ row'[r] = "CANCELLED"]_row
  <2> SUFFICES ASSUME Inv, [Next]_vars, NEW r \in Rows, row[r] = "PENDING", row'[r] # "PENDING"
               PROVE  ab = "DECIDED" \/ row'[r] = "CANCELLED"
    OBVIOUS
  <2>0. StoredType /\ SlotType /\ TypeInv /\ RowInv /\ LockInv /\ ApartInv
    BY TypeParts DEF TypeInv, FanOutInv
  <2>1. ASSUME NEW s \in Slots, FanOut(s) PROVE FALSE
    BY <2>0, <2>1, FanOutNew
  <2>2. ASSUME NEW s \in Slots, pc[s] = "release" PROVE ab = "DECIDED"
    BY <2>2 DEF TestInv, Deciding
  <2>3. ASSUME NEW q \in Rows, NEW o, mail[q] # "none", row' = [row EXCEPT ![q] = o] PROVE FALSE
    BY <2>0, <2>3 DEF StoredType, HeldInv
  <2>4. ASSUME NEW q \in Rows, CancelRow(q) PROVE row'[r] = "CANCELLED"
    BY <2>0, <2>4 DEF StoredType, CancelRow
  <2>. QED
    BY <2>0, <2>1, <2>2, <2>3, <2>4, RowWrites
<1>. QED
  BY <1>1, <1>2, <1>3, PTL DEF Spec, HeldForWinner

---------------------------------------------------------------------------
(* The end of a run. *)

LEMMA MailKept ==
    ASSUME FanOutInv, HeldInv, MailInv, LeftInv, [Next]_vars,
           "redis" \notin FaultKinds, MaxCancels = 0
    PROVE  MailInv'
<1>0. StoredType /\ MailType /\ SlotType /\ OtherType /\ TypeInv /\ SenderInv /\ RowInv
      /\ LockInv /\ ApartInv
  BY TypeParts DEF TypeInv, FanOutInv
<1>1. ASSUME UNCHANGED <<row, mail>> PROVE MailInv'
  BY <1>1 DEF MailInv
<1>2. ASSUME NEW these, AddMail(these), UNCHANGED row PROVE MailInv'
  <2> SUFFICES ASSUME NEW r \in Rows, mail'[r] # mail[r] PROVE mail'[r] = "queued" /\ row[r] = "QUEUED"
    BY <1>2 DEF MailInv
  <2>1. mail[r] = "none" /\ mail'[r] = "queued"
    BY <1>2 DEF AddMail
  <2>2. row[r] \notin {"none", "PENDING"}
    BY <2>1, HeldUntouched
  <2>. QED
    BY <2>1, <2>2 DEF MailInv
<1>3. ASSUME NEW s \in Slots, Handles(s) PROVE MailInv'
  <2>1. CASE FanOut(s)
    <3>1. UNCHANGED mail
      BY <2>1 DEF FanOut
    <3>2. \A r \in Rows : \/ row'[r] = row[r]
                          \/ row[r] = "none" /\ row'[r] \in {"QUEUED", "PENDING"}
      BY <1>0, <2>1, FanOutNew
    <3>. QED
      BY <1>0, <3>1, <3>2 DEF MailInv, RowInv
  <2>2. CASE ReleaseRow(s)
    <3>1. UNCHANGED mail /\ pc[s] = "release"
      BY <2>2 DEF ReleaseRow
    <3>2. UNCHANGED row \/ \E r \in left[s] : row' = [row EXCEPT ![r] = "QUEUED"]
      BY <2>2 DEF ReleaseRow
    <3>3. ASSUME NEW r \in left[s], row' = [row EXCEPT ![r] = "QUEUED"] PROVE MailInv'
      <4>1. r \in Rows /\ row[r] = "PENDING" /\ mail[r] = "none"
        BY <1>0, <3>1 DEF LeftInv, HeldInv, SlotType
      <4>. QED
        BY <1>0, <3>1, <3>3, <4>1 DEF MailInv, StoredType
    <3>. QED
      BY <1>1, <3>1, <3>2, <3>3
  <2>3. CASE Again(s) \/ EnqueueRows(s) \/ Dispatch(s)
    BY <1>2, <2>3 DEF Again, EnqueueRows, Dispatch, stored
  <2>4. CASE ~(FanOut(s) \/ ReleaseRow(s) \/ Again(s) \/ EnqueueRows(s) \/ Dispatch(s))
    BY <1>1, <1>3, <2>4, ActorsAssumption DEF Handles, SlotStep, Load, Defer, Start, Upsert,
       Refuse, NoRecipients, ScheduleDecision, PickWinner, ReadHeld, CloseTest, Settle,
       SettleCheck, SettleRun, SettleRead, SettleCampaign, Return, Settling, stored
  <2>. QED
    BY <2>1, <2>2, <2>3, <2>4
<1>4. ASSUME NEW r \in Rows, MailStep(r) \/ MailLost(r) PROVE MailInv'
  <2>1. CASE MailRead(r)
    BY <1>0, <2>1 DEF MailRead, MailInv, MailType, stored, Decided
  <2>2. CASE MailSuppress(r) \/ MailOutcome(r) \/ MailAmbiguous(r)
    BY <1>0, <2>2 DEF MailSuppress, MailOutcome, MailAmbiguous, MailInv, MailType, StoredType, Pending
  <2>3. CASE MailClaim(r) \/ MailRetry(r)
    BY <1>0, <2>3 DEF MailClaim, MailRetry, MailInv, MailType, StoredType, Claimable
  <2>4. CASE MailLost(r)
    BY <1>0, <2>4 DEF MailLost, MailInv, MailType, stored
  <2>. QED
    BY <1>4, <2>1, <2>2, <2>3, <2>4 DEF MailStep
<1>5. ASSUME NEW r \in Rows, Settle(r) PROVE MailInv'
  <2>1. UNCHANGED row /\ mail[r] = "settle"
    BY <1>0, <1>5 DEF Settle, SettleCheck, SettleRun, SettleRead, SettleCampaign, stored, SenderInv
  <2>2. UNCHANGED mail \/ mail' = [mail EXCEPT ![r] = "done"]
    BY <1>5, ActorsAssumption DEF Settle, SettleCheck, SettleRun, SettleRead, SettleCampaign,
       Return, Settling
  <2>. QED
    BY <1>0, <2>1, <2>2 DEF MailInv, MailType
<1>6. ASSUME NEW r \in Rows, CancelRow(r) PROVE FALSE
  BY <1>0, <1>6 DEF CancelRow, OtherType
<1>7. CASE RedisLoss
  BY <1>7 DEF RedisLoss, Fault
<1>8. CASE Recover
  BY <1>1, <1>2, <1>8 DEF Recover, RecoverRead, RecoverAdd, stored
<1>9. ASSUME NEW s \in Slots, Finish(s) \/ Crash(s) \/ Throw(s) \/ \E j \in JobIds : Take(s, j)
      PROVE  MailInv'
  BY <1>1, <1>9 DEF Finish, Crash, Throw, Take, stored
<1>10. CASE Fire \/ Tick \/ ApiCalls \/ \E j \in JobIds : LockExpires(j)
  BY <1>1, <1>10 DEF Fire, Tick, LockExpires, ApiCalls, ApiStep, StartCheck, SendNow, Schedule,
     SetRecurrence, StartAdd, PauseCheck, Pause, ResumeCheck, Resume, CallFails, ApiOnly, stored
<1>11. CASE UNCHANGED vars
  BY <1>1, <1>11 DEF vars, stored
<1>. QED
  BY <1>3, <1>4, <1>5, <1>6, <1>7, <1>8, <1>9, <1>10, <1>11 DEF Next, Handles, ApiCalls

\* What a slot is still to release is released by nobody else.
LEMMA HeldStays ==
    ASSUME FanOutInv, TestInv, HeldInv, OneShotRunsOnce, [Next]_vars, MaxCancels = 0,
           NEW t \in Slots, pc[t] = "release", NEW r \in left[t], r \in left'[t],
           row[r] = "PENDING"
    PROVE  row'[r] = "PENDING"
<1>0. StoredType /\ SlotType /\ OtherType /\ TypeInv /\ RowInv /\ LockInv /\ ApartInv
  BY TypeParts DEF TypeInv, FanOutInv
<1>1. r \in Rows
  BY <1>0 DEF SlotType
<1>2. ASSUME NEW s \in Slots, FanOut(s) PROVE row'[r] = "PENDING"
  BY <1>0, <1>1, <1>2, FanOutNew
<1>3. ASSUME NEW s \in Slots, NEW q \in left[s], pc[s] = "release",
             row' = [row EXCEPT ![q] = "QUEUED"], left' = [left EXCEPT ![s] = @ \ {q}]
      PROVE  row'[r] = "PENDING"
  <2>1. /\ key[s] \in Keys /\ run[key[s]] # "none" /\ id[s] = Decide(key[s]) /\ owner[id[s]] = s
        /\ key[t] \in Keys /\ run[key[t]] # "none" /\ id[t] = Decide(key[t]) /\ owner[id[t]] = t
    BY <1>3, Decider DEF Deciding
  <2>2. key[s] = key[t]
    BY <2>1, OneRun
  <2>3. s = t
    BY <2>1, <2>2
  <2>4. r # q
    BY <1>0, <1>3, <2>3 DEF SlotType
  <2>. QED
    BY <1>0, <1>1, <1>3, <2>4 DEF StoredType
<1>4. ASSUME NEW q \in Rows, NEW o, mail[q] # "none", row' = [row EXCEPT ![q] = o]
      PROVE  row'[r] = "PENDING"
  BY <1>0, <1>1, <1>4 DEF StoredType, HeldInv
<1>5. ASSUME NEW q \in Rows, CancelRow(q) PROVE FALSE
  BY <1>0, <1>5 DEF CancelRow, OtherType
<1>. QED
  BY <1>0, <1>2, <1>3, <1>4, <1>5, RowWrites

LEMMA LeftKept ==
    ASSUME FanOutInv, TestInv, HeldInv, LeftInv, OneShotRunsOnce, [Next]_vars, MaxCancels = 0
    PROVE  LeftInv'
<1>0. SlotType /\ TypeInv
  BY TypeParts DEF TypeInv, FanOutInv
<1> SUFFICES ASSUME NEW t \in Slots, pc'[t] = "release", NEW r \in left'[t]
             PROVE  row'[r] = "PENDING"
  BY DEF LeftInv
<1>1. ASSUME pc[t] = "release", r \in left[t] PROVE row'[r] = "PENDING"
  BY <1>1, HeldStays DEF LeftInv
<1>2. CASE /\ todo'[t] = todo[t] /\ left'[t] = left[t]
           /\ pc'[t] \in {pc[t], "throw"} \/ pc[t] \notin {"release", "throw"}
  BY <1>1, <1>2 DEF HeldInv
<1>3. CASE Upsert(t) \/ FanOut(t)
  BY <1>0, <1>3 DEF Upsert, FanOut, Goto, SlotType
<1>4. CASE ReadHeld(t)
  <2>1. \A q \in left'[t] : row[q] = "PENDING"
    BY <1>0, <1>4 DEF ReadHeld, SlotType
  <2>. QED
    BY <1>4, <2>1 DEF ReadHeld, stored
<1>5. CASE ReleaseRow(t)
  <2>1. pc[t] = "release" /\ left'[t] \subseteq left[t]
    BY <1>0, <1>5 DEF ReleaseRow, SlotType
  <2>. QED
    BY <1>1, <2>1
<1>. QED
  BY <1>0, <1>2, <1>3, <1>4, <1>5, Holds

\* The rows of a run after a step, and whether it is done then.
Later(k) == {r \in Rows : r.key = k /\ row'[r] # "none"}
DoneLater(k) ==
    /\ Later(k) # {} \/ Contacts = {}
    /\ \A r \in Later(k) : row'[r] \notin Pending

\* A row that left Pending does not come back.
LEMMA Leaves ==
    ASSUME FanOutInv, MailInv, LeftInv, [Next]_vars, MaxCancels = 0,
           NEW r \in Rows, row[r] \notin Pending \union {"none"}
    PROVE  row'[r] = row[r]
<1>0. StoredType /\ SlotType /\ OtherType /\ TypeInv /\ RowInv /\ LockInv /\ ApartInv
  BY TypeParts DEF TypeInv, FanOutInv
<1>1. ASSUME NEW s \in Slots, FanOut(s) PROVE row'[r] = row[r]
  BY <1>0, <1>1, FanOutNew
<1>2. ASSUME NEW s \in Slots, NEW q \in left[s], pc[s] = "release",
             row' = [row EXCEPT ![q] = "QUEUED"]
      PROVE  row'[r] = row[r]
  BY <1>0, <1>2 DEF LeftInv, StoredType, Pending
<1>3. ASSUME NEW q \in Rows, NEW o, mail[q] \in {"admit", "smtp"}, row' = [row EXCEPT ![q] = o]
      PROVE  row'[r] = row[r]
  BY <1>0, <1>3 DEF StoredType, MailInv, Pending
<1>4. ASSUME NEW q \in Rows, CancelRow(q) PROVE FALSE
  BY <1>0, <1>4 DEF CancelRow, OtherType
<1>. QED
  BY <1>0, <1>1, <1>2, <1>3, <1>4, RowWrites

LEMMA DoneStays ==
    ASSUME FanOutInv, MailInv, LeftInv, [Next]_vars, MaxCancels = 0, NEW k, Done(k)
    PROVE  DoneLater(k)
<1>1. RowsOf(k) \subseteq Later(k)
  BY RowsGrow DEF RowsOf, Later
<1>2. ASSUME NEW r \in Later(k) PROVE row'[r] \notin Pending
  <2>1. r \in Rows /\ r.key = k /\ row'[r] # "none"
    BY DEF Later
  <2>2. CASE row[r] = "none"
    <3>1. PICK s \in Slots : FanOut(s) /\ k = key[s]
      BY <2>1, <2>2, RowsGrow
    <3>2. RowsOf(k) = {} /\ Contacts # {}
      BY <3>1 DEF FanOut, FanOutInv, RowInv
    <3>. QED
      BY <3>2 DEF Done, HasRows
  <2>3. CASE row[r] # "none"
    BY <2>1, <2>3, Leaves DEF Done, RowsOf
  <2>. QED
    BY <2>2, <2>3
<1>. QED
  BY <1>1, <1>2 DEF Done, HasRows, DoneLater

\* Who closes a run, and what of a run stays.
LEMMA RunsClose ==
    ASSUME TypeInv, [Next]_vars, NEW k \in Keys
    PROVE  /\ run[k] = "SENT" => run'[k] = "SENT"
           /\ run[k] # "SENT" /\ run'[k] = "SENT" =>
                 \E a \in Slots \union Rows : SettleRun(a) /\ RunOf(a) = k
<1>0. StoredType
  BY TypeParts DEF TypeInv
<1>1. \/ UNCHANGED run
      \/ \E s \in Slots : Upsert(s)
      \/ \E a \in Slots \union Rows : SettleRun(a)
  BY DEF Next, SlotStep, Load, Defer, Start, Again, Refuse, NoRecipients, FanOut,
     EnqueueRows, ScheduleDecision, PickWinner, ReadHeld, ReleaseRow, Dispatch, CloseTest, Finish,
     Throw, Crash, Take, Settle, SettleCheck, SettleRead, SettleCampaign,
     MailStep, MailLost, CancelRow, MailRead, MailSuppress, MailClaim, MailOutcome, MailAmbiguous,
     MailRetry, LockExpires, RedisLoss, Fire, Tick, Recover, RecoverRead, RecoverAdd, StartCheck,
     ApiStep, SendNow, Schedule, SetRecurrence, StartAdd, PauseCheck, Pause, ResumeCheck, Resume,
     CallFails, stored, vars
<1>2. ASSUME NEW s \in Slots, Upsert(s) PROVE run[k] = "SENT" <=> run'[k] = "SENT"
  BY <1>0, <1>2 DEF Upsert, StoredType
<1>3. ASSUME NEW a \in Slots \union Rows, SettleRun(a)
      PROVE  /\ run[k] = "SENT" => run'[k] = "SENT"
             /\ run[k] # "SENT" /\ run'[k] = "SENT" => RunOf(a) = k
  BY <1>0, <1>3 DEF SettleRun, StoredType
<1>. QED
  BY <1>1, <1>2, <1>3

\* Who closes the campaign.
LEMMA CampaignCloses ==
    ASSUME [Next]_vars, campaign # "SENT", campaign' = "SENT"
    PROVE  \E a \in Slots \union Rows : SettleCampaign(a) /\ settling[a] = "close"
BY DEF Next, SlotStep, Load, Defer, Start, Upsert, Again, Refuse, NoRecipients, FanOut,
   EnqueueRows, ScheduleDecision, PickWinner, ReadHeld, ReleaseRow, Dispatch, CloseTest, Finish,
   Throw, Crash, Take, Settle, SettleCheck, SettleRun, SettleRead, SettleCampaign,
   MailStep, MailLost, CancelRow, MailRead, MailSuppress, MailClaim, MailOutcome, MailAmbiguous,
   MailRetry, LockExpires, RedisLoss, Fire, Tick, Recover, RecoverRead, RecoverAdd, StartCheck,
   ApiStep, SendNow, Schedule, SetRecurrence, StartAdd, PauseCheck, Pause, ResumeCheck, Resume,
   CallFails, stored, vars

\* How a slot comes to settle.
LEMMA SettleTurns ==
    ASSUME TypeInv, [Next]_vars, NEW t \in Slots, pc'[t] = "settle"
    PROVE  key'[t] = key[t] /\ (pc[t] = "settle" \/ NoRecipients(t) \/ CloseTest(t))
<1>0. SlotType
  BY TypeParts DEF TypeInv
<1>1. ASSUME NEW s \in Slots, Handles(s), s # t PROVE pc[t] = "settle" /\ key'[t] = key[t]
  BY <1>1, HandlerFacts
<1>2. CASE Handles(t)
  <2>1. key'[t] = key[t]
    BY <1>2, HandlerFacts
  <2>2. CASE SlotStep(t) /\ ~Finish(t) /\ ~NoRecipients(t) /\ ~CloseTest(t)
    <3>1. \/ UNCHANGED pc
          \/ \E p \in {"throw", "finish", "start", "decision", "upsert", "again", "compose",
                       "queue", "decide", "held", "release", "dispatch", "decided"} : Goto(t, p)
      BY <2>2 DEF SlotStep, Load, Defer, Start, Upsert, Again, Refuse, FanOut, EnqueueRows,
         ScheduleDecision, PickWinner, ReadHeld, ReleaseRow, Dispatch
    <3>. QED
      BY <1>0, <2>1, <3>1 DEF Goto, SlotType
  <2>3. CASE Settle(t)
    <3>1. pc[t] = "settle"
      BY <2>3 DEF Settle, SettleCheck, SettleRun, SettleRead, SettleCampaign, TypeInv, SlotKeys
    <3>. QED
      BY <2>1, <3>1
  <2>. QED
    BY <1>2, <2>1, <2>2, <2>3 DEF Handles
<1>3. CASE Others
  BY <1>3, OtherFacts
<1>4. ASSUME NEW s \in Slots, Finish(s) \/ Crash(s) \/ Throw(s) \/ \E j \in JobIds : Take(s, j)
      PROVE  pc[t] = "settle" /\ key'[t] = key[t]
  BY <1>0, <1>4 DEF Finish, Crash, Throw, Take, Release, SlotType
<1>5. CASE RedisLoss \/ (\E j \in JobIds : LockExpires(j)) \/ UNCHANGED vars
  BY <1>5 DEF RedisLoss, LockExpires, slots, vars
<1>. QED
  BY <1>1, <1>2, <1>3, <1>4, <1>5 DEF Next, Handles, Others, ApiCalls

\* Only who settles moves on in it; anybody else stands where he stood, at his run, or
\* begins, or is thrown out.
LEMMA SettlingTurns ==
    ASSUME TypeInv, [Next]_vars, NEW a \in Slots \union Rows, settling'[a] \notin {"no", "check"}
    PROVE  \/ Settle(a) /\ UNCHANGED key
           \/ settling'[a] = settling[a] /\ (a \in Slots => key'[a] = key[a])
<1>0. SlotType /\ MailType
  BY TypeParts DEF TypeInv
<1>1. ASSUME NEW s \in Slots, Handles(s), ~Settle(s)
      PROVE  settling'[a] = settling[a] /\ (a \in Slots => key'[a] = key[a])
  <2>1. UNCHANGED key
    BY <1>1, HandlerFacts
  <2>2. UNCHANGED settling \/ settling' = [settling EXCEPT ![s] = "check"]
    BY <1>1 DEF Handles, SlotStep, Load, Defer, Start, Upsert, Again, Refuse, NoRecipients, FanOut,
       EnqueueRows, ScheduleDecision, PickWinner, ReadHeld, ReleaseRow, Dispatch, CloseTest
  <2>. QED
    BY <1>0, <2>1, <2>2 DEF MailType
<1>2. ASSUME NEW b \in Slots \union Rows, Settle(b)
      PROVE  \/ Settle(a) /\ UNCHANGED key
             \/ settling'[a] = settling[a] /\ (a \in Slots => key'[a] = key[a])
  <2>1. UNCHANGED key /\ (Return(b) \/ \E to : Settling(b, to))
    BY <1>2 DEF Settle, SettleCheck, SettleRun, SettleRead, SettleCampaign
  <2>2. b # a => settling'[a] = settling[a]
    BY <1>0, <2>1 DEF Return, Settling, MailType
  <2>. QED
    BY <1>2, <2>1, <2>2
<1>3. ASSUME NEW r \in Rows, MailStep(r) \/ MailLost(r) \/ CancelRow(r)
      PROVE  settling'[a] = settling[a] /\ (a \in Slots => key'[a] = key[a])
  <2>1. UNCHANGED key
    BY <1>3 DEF MailStep, MailLost, CancelRow, MailRead, MailSuppress, MailClaim, MailOutcome,
       MailAmbiguous, MailRetry, slots
  <2>2. \/ UNCHANGED settling
        \/ \E to \in {"no", "check"} : settling' = [settling EXCEPT ![r] = to]
    BY <1>3 DEF MailStep, MailLost, CancelRow, MailRead, MailSuppress, MailClaim, MailOutcome,
       MailAmbiguous, MailRetry
  <2>. QED
    BY <1>0, <2>1, <2>2 DEF MailType
<1>4. ASSUME NEW s \in Slots, Finish(s) \/ \E j \in JobIds : Take(s, j)
      PROVE  settling'[a] = settling[a] /\ (a \in Slots => key'[a] = key[a])
  <2>1. UNCHANGED settling /\ pc[s] \in {"idle", "finish", "throw"}
    BY <1>4 DEF Finish, Take
  <2>2. a # s
    BY <2>1 DEF TypeInv, SlotKeys
  <2>. QED
    BY <1>0, <1>4, <2>1, <2>2 DEF Finish, Take, Release, SlotType
<1>5. ASSUME NEW s \in Slots, Crash(s) \/ Throw(s)
      PROVE  settling'[a] = settling[a] /\ (a \in Slots => key'[a] = key[a])
  <2>1. settling' = [settling EXCEPT ![s] = "no"]
    BY <1>5 DEF Crash, Throw
  <2>2. a # s /\ settling'[a] = settling[a]
    BY <1>0, <2>1 DEF MailType
  <2>. QED
    BY <1>0, <1>5, <2>2 DEF Crash, Throw, Release, SlotType
<1>6. CASE \/ Fire \/ Tick \/ Recover \/ ApiCalls \/ RedisLoss
           \/ \E j \in JobIds : LockExpires(j)
           \/ UNCHANGED vars
  BY <1>6 DEF Fire, Tick, Recover, RecoverRead, RecoverAdd, ApiCalls, ApiStep, StartCheck, SendNow,
     Schedule, SetRecurrence, StartAdd, PauseCheck, Pause, ResumeCheck, Resume, CallFails, ApiOnly,
     RedisLoss, LockExpires, slots, vars
<1>. QED
  BY <1>1, <1>2, <1>3, <1>4, <1>5, <1>6 DEF Next, Handles, ApiCalls

LEMMA SettleKept ==
    ASSUME FanOutInv, TestInv, MailInv, LeftInv, SettleInv, [Next]_vars, MaxCancels = 0, ~MayMiss
    PROVE  SettleInv'
<1>0. StoredType /\ SlotType /\ MailType /\ TypeInv /\ SenderInv /\ RowInv
  BY TypeParts DEF TypeInv, FanOutInv
<1>1. ASSUME NEW k PROVE RowsOf(k) # {} => Later(k) # {}
  BY RowsGrow DEF RowsOf, Later
<1>2. ASSUME NEW a \in Slots \union Rows, settling[a] # "no" PROVE RunOf(a) \in Keys /\ HasRows(RunOf(a))
  <2>1. CASE a \in Slots
    <3>1. pc[a] = "settle"
      BY <1>0, <1>2, <2>1 DEF TypeInv, SlotKeys
    <3>. QED
      BY <1>0, <2>1, <3>1 DEF TypeInv, SlotKeys, SettleInv, RunOf
  <2>2. CASE a \in Rows
    <3>1. row[a] # "none"
      BY <1>0, <1>2, <2>2 DEF SenderInv, RowInv
    <3>2. a \in RowsOf(a.key)
      BY <2>2, <3>1 DEF RowsOf
    <3>. QED
      BY <2>2, <3>2, ActorsAssumption, RowShape DEF RunOf, HasRows
  <2>. QED
    BY <2>1, <2>2
<1>3. ASSUME NEW t \in Slots, pc'[t] = "settle" PROVE Later(key'[t]) # {} \/ Contacts = {}
  <2>1. key'[t] = key[t] /\ (pc[t] = "settle" \/ NoRecipients(t) \/ CloseTest(t))
    BY <1>0, <1>3, SettleTurns
  <2>2. CloseTest(t) => RowsOf(key[t]) # {}
    BY DEF CloseTest, TestInv, Deciding
  <2>3. NoRecipients(t) => Contacts = {}
    BY DEF NoRecipients
  <2>4. RowsOf(key[t]) # {} \/ Contacts = {}
    BY <2>1, <2>2, <2>3 DEF SettleInv, HasRows
  <2>. QED
    BY <1>1, <2>1, <2>4
<1>4. ASSUME NEW a \in Slots \union Rows, settling'[a] \notin {"no", "check"}
      PROVE  LET k == IF a \in Slots THEN key'[a] ELSE a.key IN
             /\ settling'[a] = "run" => DoneLater(k)
             /\ settling'[a] \in {"read", "close", "reschedule"} => run'[k] = "SENT"
  <2>1. (IF a \in Slots THEN key'[a] ELSE a.key) = RunOf(a)
    BY <1>4, <1>0, SettlingTurns DEF RunOf
  <2> DEFINE k == RunOf(a)
  <2>2. CASE settling'[a] = settling[a]
    <3>1. k \in Keys
      BY <1>2, <1>4, <2>2
    <3>2. settling[a] = "run" => Done(k)
      BY DEF SettleInv
    <3>3. settling[a] \in {"read", "close", "reschedule"} => run[k] = "SENT"
      BY DEF SettleInv
    <3> HIDE DEF k
    <3>. QED
      BY <1>0, <2>1, <2>2, <3>1, <3>2, <3>3, DoneStays, RunsClose DEF k
  <2>3. CASE SettleCheck(a)
    <3>1. settling[a] = "check" /\ settling'[a] = "run"
      BY <1>0, <1>4, <2>3 DEF SettleCheck, Settling, Return, MailType
    <3>2. Done(k)
      BY <1>0, <1>2, <1>4, <2>3, <3>1 DEF SettleCheck, Settling, Return, MailType, Done
    <3> HIDE DEF k
    <3>. QED
      BY <2>1, <3>1, <3>2, DoneStays DEF k
  <2>4. CASE SettleRun(a)
    <3>1. settling[a] = "run" /\ settling'[a] = "read"
      BY <1>0, <2>4 DEF SettleRun, Settling, MailType
    <3>2. k \in Keys
      BY <1>2, <3>1
    <3>3. run'[k] = "SENT"
      BY <1>0, <2>4, <3>2 DEF SettleRun, StoredType
    <3>. QED
      BY <2>1, <3>1, <3>3
  <2>5. CASE SettleRead(a)
    <3>1. settling[a] = "read" /\ settling'[a] \in {"close", "reschedule"}
      BY <1>0, <1>4, <2>5 DEF SettleRead, Settling, Return, MailType
    <3>2. k \in Keys /\ run[k] = "SENT"
      BY <1>2, <3>1 DEF SettleInv
    <3> HIDE DEF k
    <3>. QED
      BY <1>0, <2>1, <3>1, <3>2, RunsClose DEF k
  <2>6. CASE SettleCampaign(a)
    BY <1>0, <1>4, <2>6 DEF SettleCampaign, Return, MailType
  <2>. QED
    BY <1>0, <1>4, <2>2, <2>3, <2>4, <2>5, <2>6, SettlingTurns DEF Settle
<1>5. ASSUME NEW k \in Keys, run'[k] = "SENT" PROVE DoneLater(k)
  <2>1. CASE run[k] = "SENT"
    BY <2>1, DoneStays DEF SettleInv
  <2>2. CASE run[k] # "SENT"
    <3>1. PICK a \in Slots \union Rows : SettleRun(a) /\ RunOf(a) = k
      BY <1>0, <1>5, <2>2, RunsClose
    <3>2. Done(k)
      BY <3>1 DEF SettleRun, SettleInv
    <3>. QED
      BY <3>2, DoneStays
  <2>. QED
    BY <2>1, <2>2
<1>6. ASSUME campaign' = "SENT" PROVE \E k \in Keys : run'[k] = "SENT"
  <2>1. CASE campaign = "SENT"
    BY <1>0, <2>1, RunsClose DEF SettleInv
  <2>2. CASE campaign # "SENT"
    <3>1. PICK a \in Slots \union Rows : SettleCampaign(a) /\ settling[a] = "close"
      BY <1>6, <2>2, CampaignCloses
    <3>2. RunOf(a) \in Keys /\ run[RunOf(a)] = "SENT"
      BY <1>2, <3>1 DEF SettleInv
    <3>3. UNCHANGED run
      BY <3>1 DEF SettleCampaign
    <3>. QED
      BY <3>2, <3>3
  <2>. QED
    BY <2>1, <2>2
<1>. QED
  BY <1>3, <1>4, <1>5, <1>6 DEF SettleInv, HasRows, Done, DoneLater, Later, RowsOf, RunOf

\* What the end of a run rests on, beyond the hypotheses of OneRow: a sender's job is not
\* lost and made anew after its row was decided, the audience of a run does not change
\* between two attempts, and nobody cancels a row that is being released.
Undisturbed ==
    {"stall", "redis"} \intersect FaultKinds = {} /\ ~MayMiss /\ MaxCancels = 0

\* A campaign that is run once and undisturbed is not closed, nor its run, while a row of it
\* is on its way or held, although the rows are counted several awaits before the writes, by
\* slots and senders at the same time (campaign-run.ts:15-65): what they counted stays so.
THEOREM Closed ==
    Spec /\ [][Completes]_vars /\ []OneShotRunsOnce /\ Undisturbed => []ClosedWhenDone
<1> SUFFICES ASSUME Undisturbed
             PROVE  Spec /\ [][Completes]_vars /\ []OneShotRunsOnce => []ClosedWhenDone
  OBVIOUS
<1>0. "stall" \notin FaultKinds /\ "redis" \notin FaultKinds /\ ~MayMiss /\ MaxCancels = 0
  BY DEF Undisturbed
<1> DEFINE Inv == FanOutInv /\ TestInv /\ HeldInv /\ MailInv /\ LeftInv /\ SettleInv
<1>1. Init => Inv
  <2> SUFFICES ASSUME Init PROVE Inv
    OBVIOUS
  <2>1. FanOutInv /\ TestInv /\ HeldInv
    BY FanOutInit, RemainderInit
  <2>2. MailInv /\ LeftInv
    BY DEF Init, MailInv, LeftInv
  <2>3. SettleInv
    BY DEF Init, SettleInv
  <2>. QED
    BY <2>1, <2>2, <2>3
<1>2. Inv /\ OneShotRunsOnce /\ [Next]_vars /\ [Completes]_vars => Inv'
  BY <1>0, FanOutTurn, TestKept, HeldKept, MailKept, LeftKept, SettleKept
<1>3. Inv /\ OneShotRunsOnce => ClosedWhenDone
  <2> SUFFICES ASSUME Inv, OneShotRunsOnce, NEW k \in Keys, run[k] = "SENT" \/ campaign = "SENT",
                      RowsOf(k) # {}
               PROVE  Done(k)
    BY DEF ClosedWhenDone, Done
  <2>1. PICK l \in Keys : run[l] = "SENT"
    BY DEF SettleInv
  <2>2. k = l
    BY <2>1, OneRun DEF TestInv
  <2>. QED
    BY <2>1, <2>2 DEF SettleInv
<1>. QED
  BY <1>1, <1>2, <1>3, PTL DEF Spec
=============================================================================
