---------------------------- MODULE CampaignRun ----------------------------
(***************************************************************************)
(* One campaign: how it is started, how a start becomes a run, how a run   *)
(* fans out into one EmailJob row per recipient, how an A/B test holds and *)
(* releases the remainder, and how the run and the campaign are closed.    *)
(*                                                                         *)
(* The actors are the API calls of campaigns/service.ts, the slots of the  *)
(* campaign-processing worker, one sender per row (the email-sending       *)
(* worker, of which only what touches the campaign is here: EmailDelivery  *)
(* has the rest), the recovery pass and the Outbox.  A step is what runs   *)
(* between two awaits; reads that follow each other with no write between  *)
(* them are one step.                                                      *)
(*                                                                         *)
(* External: BullMQ, as in EmailDelivery, and its job scheduler.  Left     *)
(* out: drafts and their edits, an operator's retry of a failed email.     *)
(***************************************************************************)
EXTENDS DeliveryStatus, FiniteSets

CONSTANTS
    Contacts,    \* the active, unsuppressed recipients
    Tested,      \* of them, the test fraction of the A/B test
    AbEnabled,   \* the campaign is an A/B test
    Slots,       \* slots of the campaign-processing worker
    NoSlot,      \* a queue job nobody holds the lock of
    Starts,      \* the calls a user may use to start it: send, schedule, recur
    MayMiss,     \* template, account, audience or its members may be gone at fire time
    MaxAttempts, \* opts.attempts of a process-campaign job
    FaultKinds,  \* as in EmailDelivery
    MaxFaults,   \* bound: faults
    MaxStarts,   \* bound: start calls
    MaxPauses,   \* bound: pause calls
    MaxCancels,  \* bound: Outbox cancellations
    MaxTime,     \* bound: the clock; a scheduledAt is one of its ticks
    MaxFires,    \* bound: fires of the job scheduler
    FirstAt      \* the time it was scheduled for before we look, or 0 for a draft

ASSUME CampaignAssumption ==
    /\ Tested \subseteq Contacts
    /\ AbEnabled \in BOOLEAN /\ MayMiss \in BOOLEAN
    /\ NoSlot \notin Slots
    /\ Starts \subseteq {"send", "schedule", "recur"}
    /\ FaultKinds \subseteq {"crash", "redis", "stall", "call"}
    /\ {MaxAttempts, MaxFaults, MaxStarts, MaxPauses, MaxCancels, MaxTime, MaxFires} \subseteq Nat
    /\ MaxAttempts > 0 /\ FirstAt \in 0..MaxTime

\* Occurrence keys: manual-<the call>, scheduled-<its time>, and the job id of a fire
\* or, where a fire was too early for a campaign scheduled since, of its copy.
Keys == [kind : {"manual"}, n : 1..MaxStarts]
          \union [kind : {"scheduled"}, n : 1..MaxTime]
          \union [kind : {"fire"}, n : 1..MaxFires]
          \union [kind : {"early"}, n : IF {"recur", "schedule"} \subseteq Starts
                                       THEN 1..MaxTime ELSE {}]
NoKey == [kind |-> "none", n |-> 0]

\* Queue jobs: the fan-out of a key (also the fires), the early-run guard's copy,
\* whose id only has the time in it, and the A/B decision of a key.
JobIds == [type : {"process", "early", "decide"}, of : Keys]
NoId == [type |-> "none", of |-> NoKey]

\* The rows a run may have: one for each contact, and those a second fan-out of it
\* would create (a third is not told from the second).
Rows == [key : Keys, contact : Contacts, copy : 1..2]

\* A name is a slot or a row, as RunOf tells them apart.
ASSUME ActorsAssumption == Slots \intersect Rows = {}

VARIABLES
    campaign,  \* Postgres: Campaign.status
    cron,      \* Postgres: has a cronExpression
    at,        \* Postgres: scheduledAt, 0 for null
    ab,        \* Postgres: abTestStatus
    run,       \* Postgres: CampaignRun.status by occurrence key
    row,       \* Postgres: EmailJob.status
    bull,      \* Redis: state of a campaign-processing job
    owner,     \* Redis: the slot that holds the job's lock
    attempts,  \* Redis: its attemptsMade
    carries,   \* Redis: the occurrence key in its data
    scheduler, \* Redis: the job scheduler is registered
    mail,      \* the email-sending job of a row, and where its handler stands
    pc,        \* slot: the await the handler stands at
    id,        \* slot: its job
    key,       \* slot: the occurrence key in the job's data
    seen,      \* slot: the abTestStatus it loaded
    todo,      \* slot: the rows it is to enqueue
    left,      \* slot: of them, those still to be released
    settling,  \* slot or row: where it stands in settleRunIfComplete
    call,      \* API: the call in progress and where it stands
    callAt,    \* API: the time it was given
    recovery,  \* recovery pass: where it stands
    found,     \* recovery pass: what it read
    now,       \* the clock
    starts, pauses, cancels, fires, faults \* counters of the bounded events

stored  == <<campaign, cron, at, ab, run, row>>
queue   == <<bull, owner, attempts, carries, scheduler>>
slots   == <<pc, id, key, seen, todo, left>>
api     == <<call, callAt, starts, pauses>>
pass    == <<recovery, found>>
world   == <<now, fires>>
vars    == <<stored, queue, mail, slots, settling, api, pass, world, cancels, faults>>

CampaignStatus == {"DRAFT", "SCHEDULED", "SENDING", "SENT", "PAUSED", "CANCELLED"}

SettlePC == {"no", "check", "run", "read", "close", "reschedule"}

TypeOK ==
    /\ campaign \in CampaignStatus
    /\ cron \in BOOLEAN
    /\ at \in 0..MaxTime
    /\ ab \in {"none", "TESTING", "DECIDED", "SENT"}
    /\ run \in [Keys -> {"none", "SENDING", "SENT"}]
    /\ row \in [Rows -> EmailJobStatus \union {"none"}]
    /\ bull \in [JobIds -> {"none", "delayed", "waiting", "active", "completed", "failed"}]
    /\ owner \in [JobIds -> Slots \union {NoSlot}]
    /\ attempts \in [JobIds -> 0..MaxAttempts]
    /\ carries \in [JobIds -> Keys]
    /\ scheduler \in BOOLEAN
    /\ mail \in [Rows -> {"none", "queued", "admit", "smtp", "settle", "done"}]
    /\ pc \in [Slots -> {"idle", "load", "start", "upsert", "again", "compose", "queue",
                         "decision", "decide", "held", "release", "dispatch",
                         "decided", "settle", "finish", "throw"}]
    /\ id \in [Slots -> JobIds \union {NoId}]
    /\ key \in [Slots -> Keys \union {NoKey}]
    /\ seen \in [Slots -> {"none", "TESTING", "DECIDED", "SENT"}]
    /\ todo \in [Slots -> SUBSET Rows]
    /\ left \in [Slots -> SUBSET Rows]
    /\ settling \in [Slots \union Rows -> SettlePC]
    /\ call \in {"idle", "send", "sendAdd", "schedule", "scheduleAdd", "recur", "recurAdd",
                 "pause", "resumeScheduled", "resumeSending"}
    /\ callAt \in 0..MaxTime
    /\ recovery \in {"idle", "add"}
    /\ found \in [at : 0..MaxTime, cron : BOOLEAN, rows : SUBSET Rows]
    /\ now \in 0..MaxTime
    /\ starts \in 0..MaxStarts /\ pauses \in 0..MaxPauses /\ cancels \in 0..MaxCancels
    /\ fires \in 0..MaxFires /\ faults \in 0..MaxFaults

NothingFound == [at |-> 0, cron |-> FALSE, rows |-> {}]

Process(k) == [type |-> "process", of |-> k]

\* A draft, or a campaign that a call has scheduled for FirstAt.
Init ==
    /\ campaign = IF FirstAt = 0 THEN "DRAFT" ELSE "SCHEDULED"
    /\ cron = FALSE /\ at = FirstAt /\ ab = "none"
    /\ run = [k \in Keys |-> "none"]
    /\ row = [r \in Rows |-> "none"]
    /\ bull = [j \in JobIds |->
           IF FirstAt # 0 /\ j = Process([kind |-> "scheduled", n |-> FirstAt])
           THEN "delayed" ELSE "none"]
    /\ owner = [j \in JobIds |-> NoSlot]
    /\ attempts = [j \in JobIds |-> 0]
    /\ carries = [j \in JobIds |-> j.of]
    /\ scheduler = FALSE
    /\ mail = [r \in Rows |-> "none"]
    /\ pc = [s \in Slots |-> "idle"]
    /\ id = [s \in Slots |-> NoId]
    /\ key = [s \in Slots |-> NoKey]
    /\ seen = [s \in Slots |-> "none"]
    /\ todo = [s \in Slots |-> {}]
    /\ left = [s \in Slots |-> {}]
    /\ settling = [a \in Slots \union Rows |-> "no"]
    /\ call = "idle" /\ callAt = 0
    /\ recovery = "idle" /\ found = NothingFound
    /\ now = 0 /\ starts = 0 /\ pauses = 0 /\ cancels = 0 /\ fires = 0 /\ faults = 0

Fault(kind) ==
    /\ kind \in FaultKinds
    /\ faults < MaxFaults
    /\ faults' = faults + 1
NoFault == UNCHANGED faults

RowsOf(k) == {r \in Rows : r.key = k /\ row[r] # "none"}

---------------------------------------------------------------------------
(* The queue and its scheduler. *)

\* add with a job id is a no-op while BullMQ retains a job of that id, and the
\* campaign's jobs are never removed.
AddJob(j, k) ==
    /\ bull' = [bull EXCEPT ![j] = IF @ = "none" THEN "delayed" ELSE @]
    /\ carries' = [carries EXCEPT ![j] = IF bull[j] = "none" THEN k ELSE @]

AddMail(these) ==
    mail' = [r \in Rows |-> IF r \in these /\ mail[r] = "none" THEN "queued" ELSE mail[r]]

Decide(k)  == [type |-> "decide", of |-> k]
Early(t)   == [type |-> "early", of |-> [kind |-> "scheduled", n |-> t]]

\* The delay of a job is over: the fan-out of scheduled-<t> and the guard's copy
\* are due at the time t, any other job at any time.
Due(j) == j.type = "decide" \/ j.of.kind # "scheduled" \/ now >= j.of.n

Take(s, j) ==
    /\ pc[s] = "idle"
    /\ \/ bull[j] = "waiting"
       \/ bull[j] = "delayed" /\ Due(j)
    /\ bull' = [bull EXCEPT ![j] = "active"]
    /\ owner' = [owner EXCEPT ![j] = s]
    /\ pc' = [pc EXCEPT ![s] = "load"]
    /\ id' = [id EXCEPT ![s] = j]
    /\ key' = [key EXCEPT ![s] = carries[j]]
    /\ UNCHANGED <<stored, attempts, carries, scheduler, mail, seen, todo, left, settling,
                   api, pass, world, cancels>>
    /\ NoFault

LockExpires(j) ==
    /\ bull[j] = "active"
    /\ bull' = [bull EXCEPT ![j] = "waiting"]
    /\ owner' = [owner EXCEPT ![j] = NoSlot]
    /\ UNCHANGED <<stored, attempts, carries, scheduler, mail, slots, settling, api, pass,
                   world, cancels>>
    /\ IF owner[j] = NoSlot THEN NoFault ELSE Fault("stall")

\* Redis comes back empty.  It takes the locks of the slots at work with it, so
\* these outlive them; that no sender is at work then is a bound.
RedisLoss ==
    /\ Fault("redis")
    /\ "stall" \in FaultKinds \/ \A j \in JobIds : owner[j] = NoSlot
    /\ \A r \in Rows : mail[r] \in {"none", "queued", "done"}
    /\ bull' = [j \in JobIds |-> "none"]
    /\ owner' = [j \in JobIds |-> NoSlot]
    /\ attempts' = [j \in JobIds |-> 0]
    /\ carries' = [j \in JobIds |-> j.of]
    /\ scheduler' = FALSE
    /\ mail' = [r \in Rows |-> "none"]
    /\ UNCHANGED <<stored, slots, settling, api, pass, world, cancels>>

\* The cron expression fires: a fan-out job whose job id is its occurrence key.
Fire ==
    /\ scheduler /\ fires < MaxFires
    /\ fires' = fires + 1
    /\ LET k == [kind |-> "fire", n |-> fires + 1] IN AddJob(Process(k), k)
    /\ UNCHANGED <<stored, owner, attempts, scheduler, mail, slots, settling, api, pass, now,
                   cancels>>
    /\ NoFault

Tick ==
    /\ now < MaxTime
    /\ now' = now + 1
    /\ UNCHANGED <<stored, queue, mail, slots, settling, api, pass, fires, cancels>>
    /\ NoFault

\* The slot is free; what it remembered is gone.
Release(s) ==
    /\ pc' = [pc EXCEPT ![s] = "idle"]
    /\ id' = [id EXCEPT ![s] = NoId]
    /\ key' = [key EXCEPT ![s] = NoKey]
    /\ seen' = [seen EXCEPT ![s] = "none"]
    /\ todo' = [todo EXCEPT ![s] = {}]
    /\ left' = [left EXCEPT ![s] = {}]

\* The handler's promise settles.  A fan-out has MaxAttempts; the decision and the
\* guard's copy, which are added without opts.attempts, have one.
Finish(s) ==
    /\ pc[s] \in {"finish", "throw"}
    /\ LET j == id[s]
           again == j.type = "process" /\ attempts[j] + 1 < MaxAttempts
       IN  IF owner[j] = s
           THEN /\ bull' = [bull EXCEPT ![j] = IF pc[s] = "finish" THEN "completed"
                                               ELSE IF again THEN "waiting" ELSE "failed"]
                /\ attempts' = [attempts EXCEPT ![j] =
                                   IF pc[s] = "throw" /\ @ < MaxAttempts THEN @ + 1 ELSE @]
                /\ owner' = [owner EXCEPT ![j] = NoSlot]
           ELSE UNCHANGED <<bull, attempts, owner>>
    /\ Release(s)
    /\ UNCHANGED <<stored, carries, scheduler, mail, settling, api, pass, world, cancels>>
    /\ NoFault

\* A call of the handler throws.
Throw(s) ==
    /\ pc[s] \notin {"idle", "finish", "throw"}
    /\ Fault("call")
    /\ pc' = [pc EXCEPT ![s] = "throw"]
    /\ settling' = [settling EXCEPT ![s] = "no"]
    /\ UNCHANGED <<stored, queue, mail, id, key, seen, todo, left, api, pass, world, cancels>>

\* The worker process dies; the lock dies with it.
Crash(s) ==
    /\ pc[s] # "idle"
    /\ Fault("crash")
    /\ Release(s)
    /\ settling' = [settling EXCEPT ![s] = "no"]
    /\ owner' = [j \in JobIds |-> IF owner[j] = s THEN NoSlot ELSE owner[j]]
    /\ UNCHANGED <<stored, bull, attempts, carries, scheduler, mail, api, pass, world, cancels>>

---------------------------------------------------------------------------
(* The campaign-processing worker: fan-out. *)

Goto(s, to) == pc' = [pc EXCEPT ![s] = to]

\* What every step of a handler leaves alone.
Elsewhere == UNCHANGED <<api, pass, world, cancels, faults>>

\* The campaign is loaded, and its status decides: a paused, cancelled, sent or
\* draft campaign ends the job.
Load(s) ==
    /\ pc[s] = "load"
    /\ seen' = [seen EXCEPT ![s] = ab]
    /\ IF id[s].type = "decide"
       THEN \/ /\ campaign \notin {"CANCELLED", "PAUSED"}
               /\ AbEnabled /\ ab = "TESTING" /\ run[key[s]] # "none"
               /\ Goto(s, "decide")
            \/ /\ \/ campaign \in {"CANCELLED", "PAUSED"}
                  \/ ~AbEnabled \/ ab # "TESTING" \/ run[key[s]] = "none"
               /\ Goto(s, "finish")
       ELSE \/ campaign = "SCHEDULED" /\ (cron \/ at <= now) /\ Goto(s, "start")
            \/ campaign = "SENDING" /\ Goto(s, "upsert")
            \/ campaign \notin {"SCHEDULED", "SENDING"} /\ Goto(s, "finish")
    /\ UNCHANGED <<stored, queue, mail, id, key, todo, left, settling>>
    /\ Elsewhere

\* Mutant: the copy gets the key of the time it is put off to.
DeferNewKey(s) ==
    /\ pc[s] = "load"
    /\ id[s].type # "decide"
    /\ campaign = "SCHEDULED" /\ ~cron /\ at > now
    /\ AddJob(Early(at), [kind |-> "scheduled", n |-> at])
    /\ Goto(s, "finish")
    /\ UNCHANGED <<stored, owner, attempts, scheduler, mail, id, key, seen, todo, left, settling>>
    /\ Elsewhere

\* The guard for a job that runs early: a copy of it at scheduledAt, with the key
\* in its data; a fire has none there.
Defer(s) ==
    /\ pc[s] = "load"
    /\ id[s].type # "decide"
    /\ campaign = "SCHEDULED" /\ ~cron /\ at > now
    /\ AddJob(Early(at), IF key[s].kind = "fire" THEN [kind |-> "early", n |-> at] ELSE key[s])
    /\ Goto(s, "finish")
    /\ UNCHANGED <<stored, owner, attempts, scheduler, mail, id, key, seen, todo, left, settling>>
    /\ Elsewhere

\* SCHEDULED becomes SENDING, on the strength of what was loaded.
Start(s) ==
    /\ pc[s] = "start"
    /\ campaign' = "SENDING"
    /\ Goto(s, "upsert")
    /\ UNCHANGED <<cron, at, ab, run, row, queue, mail, id, key, seen, todo, left, settling>>
    /\ Elsewhere

\* The run of this occurrence, and what an earlier execution left of it.
Upsert(s) ==
    /\ pc[s] = "upsert"
    /\ run' = [run EXCEPT ![key[s]] = IF @ = "none" THEN "SENDING" ELSE @]
    /\ IF RowsOf(key[s]) # {}
       THEN /\ todo' = [todo EXCEPT ![s] = {r \in RowsOf(key[s]) : row[r] = "QUEUED"}]
            /\ Goto(s, "again")
       ELSE /\ Goto(s, "compose")
            /\ UNCHANGED todo
    /\ UNCHANGED <<campaign, cron, at, ab, row, queue, mail, id, key, seen, left, settling>>
    /\ Elsewhere

\* A fire that fanned out before: its queued rows are enqueued once more, and the
\* decision if the test was on.
Again(s) ==
    /\ pc[s] = "again"
    /\ AddMail(todo[s])
    /\ Goto(s, IF AbEnabled /\ seen[s] = "TESTING" THEN "decision" ELSE "finish")
    /\ UNCHANGED <<stored, queue, id, key, seen, todo, left, settling>>
    /\ Elsewhere

\* The template or the audience is gone, which cancels the campaign, or there is
\* no account to send as, which only fails the attempt.
Refuse(s) ==
    /\ MayMiss /\ pc[s] = "compose"
    /\ campaign' \in {"CANCELLED", campaign}
    /\ Goto(s, "throw")
    /\ UNCHANGED <<cron, at, ab, run, row, queue, mail, id, key, seen, todo, left, settling>>
    /\ Elsewhere

\* Nobody to send to: the run settles at once.
NoRecipients(s) ==
    /\ pc[s] = "compose" /\ (MayMiss \/ Contacts = {})
    /\ Goto(s, "settle")
    /\ settling' = [settling EXCEPT ![s] = "check"]
    /\ UNCHANGED <<stored, queue, mail, id, key, seen, todo, left>>
    /\ Elsewhere

\* One transaction creates the rows: all of them QUEUED, or in a test the tested
\* fraction QUEUED and the remainder PENDING.
FanOut(s) ==
    /\ pc[s] = "compose" /\ Contacts # {}
    /\ LET copy == IF RowsOf(key[s]) = {} THEN 1 ELSE 2
           new == [key : {key[s]}, contact : Contacts, copy : {copy}] IN
       /\ row' = [r \in Rows |->
                    IF r \notin new THEN row[r]
                    ELSE IF ~AbEnabled \/ r.contact \in Tested THEN "QUEUED" ELSE "PENDING"]
       /\ todo' = [todo EXCEPT ![s] = IF AbEnabled THEN {} ELSE RowsOf(key[s]) \union new]
    /\ ab' = IF AbEnabled THEN "TESTING" ELSE ab
    /\ Goto(s, "queue")
    /\ UNCHANGED <<campaign, cron, at, run, queue, mail, id, key, seen, left, settling>>
    /\ Elsewhere

\* Mutant: the held rows of a test are enqueued with the tested ones.
EnqueueAll(s) ==
    /\ pc[s] = "queue"
    /\ AddMail(RowsOf(key[s]))
    /\ Goto(s, IF AbEnabled THEN "decision" ELSE "finish")
    /\ UNCHANGED <<stored, queue, id, key, seen, todo, left, settling>>
    /\ Elsewhere

\* In a test the queued rows are read anew.
EnqueueRows(s) ==
    /\ pc[s] = "queue"
    /\ AddMail(IF AbEnabled THEN {r \in RowsOf(key[s]) : row[r] = "QUEUED"} ELSE todo[s])
    /\ Goto(s, IF AbEnabled THEN "decision" ELSE "finish")
    /\ UNCHANGED <<stored, queue, id, key, seen, todo, left, settling>>
    /\ Elsewhere

ScheduleDecision(s) ==
    /\ pc[s] = "decision"
    /\ AddJob(Decide(key[s]), key[s])
    /\ Goto(s, "finish")
    /\ UNCHANGED <<stored, owner, attempts, scheduler, mail, id, key, seen, todo, left, settling>>
    /\ Elsewhere

---------------------------------------------------------------------------
(* The campaign-processing worker: the A/B decision. *)

\* The winner is written, and the test is DECIDED with it.
PickWinner(s) ==
    /\ pc[s] = "decide"
    /\ ab' = "DECIDED"
    /\ Goto(s, "held")
    /\ UNCHANGED <<campaign, cron, at, run, row, queue, mail, id, key, seen, todo, left, settling>>
    /\ Elsewhere

ReadHeld(s) ==
    /\ pc[s] = "held"
    /\ LET held == {r \in RowsOf(key[s]) : row[r] = "PENDING"} IN
       /\ todo' = [todo EXCEPT ![s] = held]
       /\ left' = [left EXCEPT ![s] = held]
    /\ Goto(s, "release")
    /\ UNCHANGED <<stored, queue, mail, id, key, seen, settling>>
    /\ Elsewhere

\* One held row after the other becomes QUEUED, whatever it became meanwhile.
ReleaseRow(s) ==
    /\ pc[s] = "release"
    /\ \/ \E r \in left[s] :
             /\ row' = [row EXCEPT ![r] = "QUEUED"]
             /\ left' = [left EXCEPT ![s] = @ \ {r}]
             /\ UNCHANGED pc
       \/ left[s] = {} /\ Goto(s, "dispatch") /\ UNCHANGED <<row, left>>
    /\ UNCHANGED <<campaign, cron, at, ab, run, queue, mail, id, key, seen, todo, settling>>
    /\ Elsewhere

Dispatch(s) ==
    /\ pc[s] = "dispatch"
    /\ AddMail(todo[s])
    /\ Goto(s, "decided")
    /\ UNCHANGED <<stored, queue, id, key, seen, todo, left, settling>>
    /\ Elsewhere

CloseTest(s) ==
    /\ pc[s] = "decided"
    /\ ab' = "SENT"
    /\ Goto(s, "settle")
    /\ settling' = [settling EXCEPT ![s] = "check"]
    /\ UNCHANGED <<campaign, cron, at, run, row, queue, mail, id, key, seen, todo, left>>
    /\ Elsewhere

---------------------------------------------------------------------------
(* settleRunIfComplete, called by a slot or by the sender of a row. *)

RunOf(a) == IF a \in Slots THEN key[a] ELSE a.key

\* It returns, and with it the handler that called it.
Return(a) ==
    /\ settling' = [settling EXCEPT ![a] = "no"]
    /\ IF a \in Slots
       THEN Goto(a, "finish") /\ UNCHANGED mail
       ELSE mail' = [mail EXCEPT ![a] = "done"] /\ UNCHANGED pc

Settling(a, to) ==
    /\ settling' = [settling EXCEPT ![a] = to]
    /\ UNCHANGED <<mail, pc>>

\* Mutant: a row at its sender does not count as active.
SettleByQueued(a) ==
    /\ settling[a] = "check"
    /\ IF run[RunOf(a)] = "SENDING" /\ \A r \in RowsOf(RunOf(a)) : row[r] \notin Cancellable
       THEN Settling(a, "run")
       ELSE Return(a)
    /\ UNCHANGED <<stored, queue, id, key, seen, todo, left>>
    /\ Elsewhere

\* The rows still active are counted, and the run is read.
SettleCheck(a) ==
    /\ settling[a] = "check"
    /\ IF run[RunOf(a)] = "SENDING" /\ \A r \in RowsOf(RunOf(a)) : row[r] \notin Pending
       THEN Settling(a, "run")
       ELSE Return(a)
    /\ UNCHANGED <<stored, queue, id, key, seen, todo, left>>
    /\ Elsewhere

SettleRun(a) ==
    /\ settling[a] = "run"
    /\ run' = [run EXCEPT ![RunOf(a)] = "SENT"]
    /\ Settling(a, "read")
    /\ UNCHANGED <<campaign, cron, at, ab, row, queue, id, key, seen, todo, left>>
    /\ Elsewhere

SettleRead(a) ==
    /\ settling[a] = "read"
    /\ IF campaign = "SENDING"
       THEN Settling(a, IF cron THEN "reschedule" ELSE "close")
       ELSE Return(a)
    /\ UNCHANGED <<stored, queue, id, key, seen, todo, left>>
    /\ Elsewhere

SettleCampaign(a) ==
    /\ settling[a] \in {"close", "reschedule"}
    /\ campaign' = IF settling[a] = "close" THEN "SENT" ELSE "SCHEDULED"
    /\ Return(a)
    /\ UNCHANGED <<cron, at, ab, run, row, queue, id, key, seen, todo, left>>
    /\ Elsewhere

---------------------------------------------------------------------------
(* The email-sending worker, as far as the campaign goes. *)

\* A paused campaign holds its rows, a decided row is skipped.
MailRead(r) ==
    /\ mail[r] = "queued"
    /\ \/ row[r] \in Decided /\ mail' = [mail EXCEPT ![r] = "done"]
       \/ /\ row[r] \notin Decided /\ campaign # "PAUSED"
          /\ mail' = [mail EXCEPT ![r] = "admit"]
    /\ UNCHANGED <<stored, queue, slots, settling>>
    /\ Elsewhere

\* Mutant: a suppressed row does not settle its run.
MailSuppressOnly(r) ==
    /\ mail[r] = "admit"
    /\ row' = [row EXCEPT ![r] = "SUPPRESSED"]
    /\ mail' = [mail EXCEPT ![r] = "done"]
    /\ UNCHANGED <<campaign, cron, at, ab, run, queue, slots, settling>>
    /\ Elsewhere

MailSuppress(r) ==
    /\ mail[r] = "admit"
    /\ row' = [row EXCEPT ![r] = "SUPPRESSED"]
    /\ mail' = [mail EXCEPT ![r] = "settle"]
    /\ settling' = [settling EXCEPT ![r] = "check"]
    /\ UNCHANGED <<campaign, cron, at, ab, run, queue, slots>>
    /\ Elsewhere

MailClaim(r) ==
    /\ mail[r] = "admit"
    /\ IF row[r] \in Claimable
       THEN row' = [row EXCEPT ![r] = "PROCESSING"] /\ mail' = [mail EXCEPT ![r] = "smtp"]
       ELSE mail' = [mail EXCEPT ![r] = "done"] /\ UNCHANGED row
    /\ UNCHANGED <<campaign, cron, at, ab, run, queue, slots, settling>>
    /\ Elsewhere

\* The SMTP result, or the error of the last attempt, is written, and settles.
MailOutcome(r) ==
    /\ mail[r] = "smtp"
    /\ \E o \in {"SENT", "FAILED", "UNCERTAIN"} : row' = [row EXCEPT ![r] = o]
    /\ mail' = [mail EXCEPT ![r] = "settle"]
    /\ settling' = [settling EXCEPT ![r] = "check"]
    /\ UNCHANGED <<campaign, cron, at, ab, run, queue, slots>>
    /\ Elsewhere

\* An ambiguous error, or a dead sender whose job is handed out again: UNCERTAIN,
\* and the handler returns without settling.
MailAmbiguous(r) ==
    /\ mail[r] = "smtp"
    /\ row' = [row EXCEPT ![r] = "UNCERTAIN"]
    /\ mail' = [mail EXCEPT ![r] = "done"]
    /\ UNCHANGED <<campaign, cron, at, ab, run, queue, slots, settling>>
    /\ Elsewhere

\* A safe error with attempts left.
MailRetry(r) ==
    /\ mail[r] = "smtp"
    /\ row' = [row EXCEPT ![r] = "QUEUED"]
    /\ mail' = [mail EXCEPT ![r] = "queued"]
    /\ UNCHANGED <<campaign, cron, at, ab, run, queue, slots, settling>>
    /\ Elsewhere

\* The sender dies or throws while it settles; handed out again, the job finds its
\* row decided and does not settle.
MailLost(r) ==
    /\ mail[r] = "settle"
    /\ Fault("crash") \/ Fault("call")
    /\ mail' = [mail EXCEPT ![r] = "done"]
    /\ settling' = [settling EXCEPT ![r] = "no"]
    /\ UNCHANGED <<stored, queue, slots, api, pass, world, cancels>>

---------------------------------------------------------------------------
(* outboxService.cancel of a row, and recoverQueuedWork. *)

\* The conditional write; the removal of the queue job is best effort.
CancelRow(r) ==
    /\ cancels < MaxCancels
    /\ row[r] \in Cancellable
    /\ row' = [row EXCEPT ![r] = "CANCELLED"]
    /\ mail' = [mail EXCEPT ![r] = IF @ = "queued" THEN "none" ELSE @]
    /\ cancels' = cancels + 1
    /\ UNCHANGED <<campaign, cron, at, ab, run, queue, slots, settling, api, pass, world>>
    /\ NoFault

RecoverRead ==
    /\ recovery = "idle"
    /\ recovery' = "add"
    /\ found' = [at   |-> IF campaign = "SCHEDULED" /\ ~cron THEN at ELSE 0,
                 cron |-> campaign = "SCHEDULED" /\ cron,
                 rows |-> {r \in Rows : row[r] = "QUEUED"}]
    /\ UNCHANGED <<stored, queue, mail, slots, settling, api, world, cancels>>
    /\ NoFault

\* Mutant: the scheduled campaigns are not added again.
RecoverRowsOnly ==
    /\ recovery = "add"
    /\ AddMail(found.rows)
    /\ recovery' = "idle"
    /\ found' = NothingFound
    /\ UNCHANGED <<stored, queue, slots, settling, api, world, cancels>>
    /\ NoFault

\* Mutant: the pass adds the fan-out under the id of the early-run guard.
RecoverOtherId ==
    /\ recovery = "add"
    /\ IF found.at # 0
       THEN AddJob(Early(found.at), [kind |-> "scheduled", n |-> found.at])
       ELSE UNCHANGED <<bull, carries>>
    /\ scheduler' = (scheduler \/ found.cron)
    /\ AddMail(found.rows)
    /\ recovery' = "idle"
    /\ found' = NothingFound
    /\ UNCHANGED <<stored, owner, attempts, slots, settling, api, world, cancels>>
    /\ NoFault

\* What was read is added again, in the state it had then.
RecoverAdd ==
    /\ recovery = "add"
    /\ IF found.at # 0
       THEN LET k == [kind |-> "scheduled", n |-> found.at] IN AddJob(Process(k), k)
       ELSE UNCHANGED <<bull, carries>>
    /\ scheduler' = (scheduler \/ found.cron)
    /\ AddMail(found.rows)
    /\ recovery' = "idle"
    /\ found' = NothingFound
    /\ UNCHANGED <<stored, owner, attempts, slots, settling, api, world, cancels>>
    /\ NoFault

---------------------------------------------------------------------------
(* The API.  A call reads, writes and then adds its queue job. *)

Calling(to) == call' = to /\ UNCHANGED <<pauses, starts>>
ApiOnly == UNCHANGED <<mail, slots, settling, pass, world, cancels, faults>>

\* sendNow, schedule and setRecurrence check what they read.
StartCheck(how, t) ==
    /\ call = "idle" /\ how \in Starts
    /\ starts < MaxStarts
    /\ campaign \in {"DRAFT", "SCHEDULED"} \union (IF how = "recur" THEN {"PAUSED"} ELSE {})
    /\ IF how = "schedule" THEN t > now ELSE t = 0
    /\ call' = how /\ callAt' = t
    /\ starts' = starts + 1
    /\ UNCHANGED <<stored, queue, pauses>>
    /\ ApiOnly

SendNow ==
    /\ call = "send"
    /\ campaign' = "SENDING" /\ at' = 0
    /\ Calling("sendAdd")
    /\ UNCHANGED <<cron, ab, run, row, queue, callAt>>
    /\ ApiOnly

\* Mutant: the campaign is written a tick late.
ScheduleLate ==
    /\ call = "schedule"
    /\ campaign' = "SCHEDULED" /\ at' = callAt + 1 /\ cron' = FALSE
    /\ Calling("scheduleAdd")
    /\ UNCHANGED <<ab, run, row, queue, callAt>>
    /\ ApiOnly

Schedule ==
    /\ call = "schedule"
    /\ campaign' = "SCHEDULED" /\ at' = callAt /\ cron' = FALSE
    /\ Calling("scheduleAdd")
    /\ UNCHANGED <<ab, run, row, queue, callAt>>
    /\ ApiOnly

SetRecurrence ==
    /\ call = "recur"
    /\ campaign' = "SCHEDULED" /\ at' = 0 /\ cron' = TRUE
    /\ Calling("recurAdd")
    /\ UNCHANGED <<ab, run, row, queue, callAt>>
    /\ ApiOnly

\* enqueueCampaign, or upsertJobScheduler.
StartAdd ==
    /\ \/ /\ call \in {"sendAdd", "scheduleAdd"}
          /\ LET k == IF call = "sendAdd" THEN [kind |-> "manual", n |-> starts]
                      ELSE [kind |-> "scheduled", n |-> callAt]
             IN AddJob(Process(k), k)
          /\ UNCHANGED scheduler
       \/ call = "recurAdd" /\ scheduler' = TRUE /\ UNCHANGED <<bull, carries>>
    /\ Calling("idle") /\ callAt' = 0
    /\ UNCHANGED <<stored, owner, attempts>>
    /\ ApiOnly

\* pause: a recurring campaign loses its scheduler first.
PauseCheck ==
    /\ call = "idle" /\ pauses < MaxPauses
    /\ campaign \in {"SCHEDULED", "SENDING"}
    /\ scheduler' = (scheduler /\ ~cron)
    /\ call' = "pause" /\ pauses' = pauses + 1
    /\ UNCHANGED <<stored, bull, owner, attempts, carries, callAt, starts>>
    /\ ApiOnly

Pause ==
    /\ call = "pause"
    /\ campaign' = "PAUSED"
    /\ Calling("idle")
    /\ UNCHANGED <<cron, at, ab, run, row, queue, callAt>>
    /\ ApiOnly

\* resume: a recurring campaign gets its scheduler back first, and what was read
\* decides what it resumes as.
ResumeCheck ==
    /\ call = "idle" /\ campaign = "PAUSED"
    /\ scheduler' = (scheduler \/ cron)
    /\ Calling(IF cron \/ at > now THEN "resumeScheduled" ELSE "resumeSending")
    /\ UNCHANGED <<stored, bull, owner, attempts, carries, callAt>>
    /\ ApiOnly

Resume ==
    /\ call \in {"resumeScheduled", "resumeSending"}
    /\ campaign' = IF call = "resumeScheduled" THEN "SCHEDULED" ELSE "SENDING"
    /\ Calling("idle")
    /\ UNCHANGED <<cron, at, ab, run, row, queue, callAt>>
    /\ ApiOnly

\* The API process dies, or Redis refuses, between the write and the add.
CallFails ==
    /\ call \in {"sendAdd", "scheduleAdd", "recurAdd"}
    /\ Fault("crash") \/ Fault("call")
    /\ Calling("idle") /\ callAt' = 0
    /\ UNCHANGED <<stored, queue, mail, slots, settling, pass, world, cancels>>

---------------------------------------------------------------------------

SlotStep(s) ==
    \/ Load(s) \/ Defer(s) \/ Start(s) \/ Upsert(s) \/ Again(s) \/ Refuse(s)
    \/ NoRecipients(s) \/ FanOut(s) \/ EnqueueRows(s)
    \/ ScheduleDecision(s) \/ PickWinner(s) \/ ReadHeld(s) \/ ReleaseRow(s) \/ Dispatch(s)
    \/ CloseTest(s) \/ Finish(s)

Settle(a) == SettleCheck(a) \/ SettleRun(a) \/ SettleRead(a) \/ SettleCampaign(a)

MailStep(r) ==
    \/ MailRead(r) \/ MailSuppress(r) \/ MailClaim(r) \/ MailOutcome(r) \/ MailAmbiguous(r)
    \/ MailRetry(r)

Recover == RecoverRead \/ RecoverAdd

ApiStep == SendNow \/ Schedule \/ SetRecurrence \/ StartAdd \/ Pause \/ Resume

Next ==
    \/ \E s \in Slots : SlotStep(s) \/ Throw(s) \/ Crash(s) \/ \E j \in JobIds : Take(s, j)
    \/ \E a \in Slots \union Rows : Settle(a)
    \/ \E r \in Rows : MailStep(r) \/ MailLost(r) \/ CancelRow(r)
    \/ \E j \in JobIds : LockExpires(j)
    \/ RedisLoss \/ Fire \/ Tick
    \/ Recover
    \/ \E how \in Starts, t \in 0..MaxTime : StartCheck(how, t)
    \/ ApiStep \/ PauseCheck \/ ResumeCheck \/ CallFails

Spec == Init /\ [][Next]_vars

---------------------------------------------------------------------------
(* Safety. *)

\* Within a run nobody gets a second email, however often the fan-out is executed:
\* by retries, after crashes, lost Redis data or a recovery pass
\* (campaign-processing.worker.ts:142-181).
OneRowPerRun ==
    \A k \in Keys, c \in Contacts :
        Cardinality({r \in RowsOf(k) : r.contact = c}) <= 1

\* A run, and a campaign, is not closed while a row of it is on its way or held for
\* the winner, although the rows are counted several awaits before the writes
\* (campaign-run.ts:15-65, DECISIONS.md:431-433).
ClosedWhenDone ==
    \A k \in Keys : run[k] = "SENT" \/ campaign = "SENT" =>
        \A r \in RowsOf(k) : row[r] \notin Pending

\* The remainder of a test waits for the decision: nothing but the release of the
\* decided test and the Outbox takes a row out of PENDING, and no sender has one.
HeldForWinner ==
    [][\A r \in Rows :
          row[r] = "PENDING" /\ row'[r] # "PENDING" =>
              ab = "DECIDED" \/ row'[r] = "CANCELLED"]_row

---------------------------------------------------------------------------
(* A claim of the comments that the code does not keep. *)

\* "Re-enqueue with the same occurrenceKey so we never create a second run"
\* (recovery.ts:23-25): a campaign that never recurred is run once.
OneShotRunsOnce ==
    Cardinality({k \in Keys : run[k] # "none"}) <= 1

---------------------------------------------------------------------------
(* Liveness. *)

\* Slots, senders, the recovery pass and API calls in progress go on, time passes,
\* dead slots' locks expire, BullMQ hands out jobs while there are any and a retried
\* email has its last attempt one day.
Fairness ==
    /\ \A s \in Slots : WF_vars(SlotStep(s))
    /\ \A a \in Slots \union Rows : WF_vars(Settle(a))
    /\ \A r \in Rows : WF_vars(MailStep(r)) /\ SF_vars(MailOutcome(r) \/ MailAmbiguous(r))
    /\ WF_vars(\E s \in Slots, j \in JobIds : Take(s, j))
    /\ WF_vars(\E j \in JobIds : owner[j] = NoSlot /\ LockExpires(j))
    /\ WF_vars(Recover) /\ WF_vars(ApiStep) /\ WF_vars(Tick)

FairSpec == Spec /\ Fairness

\* A campaign scheduled for a time does not stay SCHEDULED for ever, whether its
\* delayed job runs early, is lost with Redis, or was never added because the API
\* died after its write (campaign-processing.worker.ts:115-137, recovery.ts:97-116).
\* Not so a reschedule to the very time whose job has run: its id is retained.
ScheduledStarts ==
    \A t \in 1..MaxTime :
        LET j == Process([kind |-> "scheduled", n |-> t])
        IN  campaign = "SCHEDULED" /\ at = t /\ bull[j] \in {"none", "delayed"}
                ~> ~(campaign = "SCHEDULED" /\ at = t)

\* Where nothing failed, a campaign that sends is done one day, however its rows'
\* settlements and the decision of its test overlap: the last of them closes it, unless
\* a row was left UNCERTAIN (campaign-run.ts:26-64, worker 467-492).
SendingEnds ==
    campaign = "SENDING"
        ~> campaign # "SENDING" \/ faults > 0 \/ \E r \in Rows : row[r] = "UNCERTAIN"
=============================================================================
