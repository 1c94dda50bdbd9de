--------------------------- MODULE RecurringSend ---------------------------
(***************************************************************************)
(* One recurring compose send: its row in Postgres, the BullMQ job         *)
(* scheduler that fires it, the worker slots that turn a fire into one     *)
(* EmailJob a recipient, the API calls that pause, resume, reschedule and  *)
(* delete it, and the recovery pass that arms it again after Redis lost    *)
(* its data.  Postgres and Redis are written in separate steps, and any    *)
(* of these processes may stop between two of them.                        *)
(*                                                                         *)
(* An occurrence is numbered by its fire time, which is the job's id and   *)
(* the run's occurrenceKey.  What becomes of an EmailJob once it is in the *)
(* email-sending queue is EmailDelivery's.                                 *)
(***************************************************************************)
EXTENDS Naturals

CONSTANTS
    Recipients,  \* To recipients of an occurrence (one job each)
    Slots,       \* jobs the worker processes run at a time (concurrency 2)
    NoSlot,      \* no slot holds the job
    Callers,     \* API calls in progress at a time
    Crons,       \* schedules (cron expression and time zone)
    NoCron,      \* the scheduler is not armed
    MaxAttempts, \* attempts of a job (3 in the code)
    MaxStalls,   \* times a stalled job is taken again (BullMQ: 1)
    FaultKinds,  \* crash, stall, call (a statement throws), redis (data lost), api
    MaxFires,    \* bound: occurrences
    MaxCalls,    \* bound: API calls
    MaxFaults    \* bound: faults

ASSUME RecurringAssumption ==
    /\ NoSlot \notin Slots /\ NoCron \notin Crons /\ Crons # {}
    /\ FaultKinds \subseteq {"crash", "stall", "call", "redis", "api"}
    /\ {MaxAttempts, MaxStalls, MaxFires, MaxCalls, MaxFaults} \subseteq Nat

Occurrences == 1..MaxFires

VARIABLES
    status,    \* Postgres: RecurringSend.status, or "deleted"
    cron,      \* Postgres: its cronExpression and timezone
    runs,      \* Postgres: occurrences with a RecurringSendRun
    rows,      \* Postgres: EmailJob rows of an occurrence, by recipient
    scheduler, \* Redis: the schedule the job scheduler is armed with
    fires,     \* Redis: occurrences fired
    job,       \* Redis: the recurring-send jobs
    queued,    \* Redis: recipients of an occurrence whose email-sending job was added
    slot,      \* worker: what a slot is at
    recovery,  \* worker: the schedule the recovery pass read, or NoCron
    call,      \* API: the calls in progress
    broken,    \* history: occurrences a fault hit after their run was recorded
    calls, faults

rowVars == <<status, cron, runs, rows>>
redisVars == <<scheduler, fires, job, queued>>
vars == <<rowVars, redisVars, slot, recovery, call, broken, calls, faults>>

Steps == {"read", "create", "row", "add", "link", "touch"}
Idle == [at |-> "idle", n |-> 0, todo |-> {}, now |-> {}]
SlotStates == [at : Steps \union {"idle"}, n : 0..MaxFires,
               todo : SUBSET Recipients, now : SUBSET Recipients]
Jobs == [state : {"none", "waiting", "active", "done", "failed"},
         tries : Nat, stalls : Nat, holder : Slots \union {NoSlot}]
NoJob == [state |-> "none", tries |-> 0, stalls |-> 0, holder |-> NoSlot]
Ops == {"create", "update", "pause", "resume", "delete"}
NoCall == [op |-> "none", step |-> "done", cron |-> NoCron]
Calls == [op : Ops \union {"none"}, step : {"arm", "remove", "write", "done"},
          cron : Crons \union {NoCron}]

\* create has inserted the row and not armed its schedule.
Init ==
    /\ status = "ACTIVE" /\ cron \in Crons
    /\ runs = {} /\ rows = [n \in Occurrences |-> [r \in Recipients |-> 0]]
    /\ scheduler = NoCron /\ fires = 0
    /\ job = [n \in Occurrences |-> NoJob] /\ queued = [n \in Occurrences |-> {}]
    /\ slot = [s \in Slots |-> Idle]
    /\ recovery = NoCron
    /\ \E c \in Callers : call = [d \in Callers |->
           IF d = c THEN [op |-> "create", step |-> "arm", cron |-> cron] ELSE NoCall]
    /\ broken = {} /\ calls = 0 /\ faults = 0

----------------------------------------------------------------------------
(* BullMQ. *)

Fire ==
    /\ scheduler # NoCron /\ fires < MaxFires
    /\ fires' = fires + 1
    /\ job' = [job EXCEPT ![fires + 1].state = "waiting"]
    /\ UNCHANGED <<rowVars, scheduler, queued, slot, recovery, call, broken, calls, faults>>

Take(s, n) ==
    /\ slot[s].at = "idle" /\ job[n].state = "waiting"
    /\ job' = [job EXCEPT ![n].state = "active", ![n].holder = s]
    /\ slot' = [slot EXCEPT ![s] = [Idle EXCEPT !.at = "read", !.n = n]]
    /\ UNCHANGED <<rowVars, scheduler, fires, queued, recovery, call, broken, calls, faults>>

\* The slot's result counts only while it holds the job's lock.
Finish(s) ==
    LET n == slot[s].n
    IN  /\ job' = IF job[n].holder = s
                  THEN [job EXCEPT ![n].state = "done", ![n].holder = NoSlot] ELSE job
        /\ slot' = [slot EXCEPT ![s] = Idle]

Throw(s) ==
    LET n == slot[s].n
        left == IF job[n].tries + 1 < MaxAttempts THEN "waiting" ELSE "failed"
    IN  /\ job' = IF job[n].holder = s
                  THEN [job EXCEPT ![n].state = left, ![n].tries = @ + 1, ![n].holder = NoSlot]
                  ELSE job
        /\ slot' = [slot EXCEPT ![s] = Idle]

Goto(s, step) == slot' = [slot EXCEPT ![s].at = step]

----------------------------------------------------------------------------
(* processRecurringSend, a step for each write. *)

\* Deleted, paused, or an occurrence that was recorded before.
ReadSkip(s) ==
    /\ slot[s].at = "read"
    /\ status # "ACTIVE" \/ slot[s].n \in runs
    /\ Finish(s)
    /\ UNCHANGED <<rowVars, scheduler, fires, queued, recovery, call, broken, calls, faults>>

ReadSend(s) ==
    /\ slot[s].at = "read"
    /\ status = "ACTIVE" /\ slot[s].n \notin runs
    /\ Goto(s, "create")
    /\ UNCHANGED <<rowVars, redisVars, recovery, call, broken, calls, faults>>

\* Mutant: the unique key of the run is not enforced.
CreateRunAnyway(s) ==
    /\ slot[s].at = "create"
    /\ IF status = "deleted"
       THEN /\ Throw(s) /\ UNCHANGED runs
       ELSE /\ runs' = runs \union {slot[s].n}
            /\ slot' = [slot EXCEPT ![s].todo = Recipients,
                                    ![s].at = IF Recipients = {} THEN "touch" ELSE "row"]
            /\ UNCHANGED job
    /\ UNCHANGED <<status, cron, rows, scheduler, fires, queued, recovery, call, broken,
                   calls, faults>>

\* The run's unique key, and its foreign key to the send, make a loser throw.
CreateRun(s) ==
    /\ slot[s].at = "create"
    /\ IF slot[s].n \in runs \/ status = "deleted"
       THEN /\ Throw(s) /\ UNCHANGED runs
       ELSE /\ runs' = runs \union {slot[s].n}
            /\ slot' = [slot EXCEPT ![s].todo = Recipients,
                                    ![s].at = IF Recipients = {} THEN "touch" ELSE "row"]
            /\ UNCHANGED job
    /\ UNCHANGED <<status, cron, rows, scheduler, fires, queued, recovery, call, broken,
                   calls, faults>>

CreateRow(s, r) ==
    /\ slot[s].at = "row" /\ r \in slot[s].todo
    /\ rows' = [rows EXCEPT ![slot[s].n][r] = @ + 1]
    /\ slot' = [slot EXCEPT ![s].at = "add", ![s].todo = @ \ {r}, ![s].now = {r}]
    /\ UNCHANGED <<status, cron, runs, redisVars, recovery, call, broken, calls, faults>>

\* Mutant: the loop goes on after its last recipient.
AddJobOn(s) ==
    /\ slot[s].at = "add"
    /\ queued' = [queued EXCEPT ![slot[s].n] = @ \union slot[s].now]
    /\ slot' = [slot EXCEPT ![s].at = "row", ![s].now = {}]
    /\ UNCHANGED <<rowVars, scheduler, fires, job, recovery, call, broken, calls, faults>>

AddJob(s) ==
    /\ slot[s].at = "add"
    /\ queued' = [queued EXCEPT ![slot[s].n] = @ \union slot[s].now]
    /\ slot' = [slot EXCEPT ![s].at = IF slot[s].todo = {} THEN "link" ELSE "row",
                            ![s].now = {}]
    /\ UNCHANGED <<rowVars, scheduler, fires, job, recovery, call, broken, calls, faults>>

\* run.update with the first job, and send.update with lastRunAt and nextRunAt:
\* what they write is for display, and they throw when the send is gone.
Note(s) ==
    /\ slot[s].at \in {"link", "touch"}
    /\ IF status = "deleted" THEN Throw(s)
       ELSE IF slot[s].at = "link" THEN Goto(s, "touch") /\ UNCHANGED job
       ELSE Finish(s)
    /\ UNCHANGED <<rowVars, scheduler, fires, queued, recovery, call, broken, calls, faults>>

----------------------------------------------------------------------------
(* recurringSendService. *)

Begin(c, op, step, k) ==
    /\ call[c] = NoCall /\ calls < MaxCalls
    /\ calls' = calls + 1
    /\ call' = [call EXCEPT ![c] = [op |-> op, step |-> step, cron |-> k]]
    /\ UNCHANGED <<status, runs, rows, redisVars, slot, recovery, broken, faults>>

\* The row first; a paused send stays disarmed.
Update(c, k) ==
    /\ status # "deleted"
    /\ cron' = k
    /\ Begin(c, "update", IF status = "ACTIVE" THEN "arm" ELSE "done", k)

Pause(c) ==
    /\ status = "ACTIVE"
    /\ Begin(c, "pause", "remove", NoCron) /\ UNCHANGED cron

Resume(c) ==
    /\ status = "PAUSED"
    /\ Begin(c, "resume", "arm", cron) /\ UNCHANGED cron

Delete(c) ==
    /\ status # "deleted"
    /\ Begin(c, "delete", "remove", NoCron) /\ UNCHANGED cron

\* armScheduler replaces the schedule there is; removeJobScheduler takes it away.
Arm(c) ==
    /\ call[c].step = "arm"
    /\ scheduler' = call[c].cron
    /\ call' = [call EXCEPT ![c].step = IF call[c].op = "resume" THEN "write" ELSE "done"]
    /\ UNCHANGED <<rowVars, fires, job, queued, slot, recovery, broken, calls, faults>>

Remove(c) ==
    /\ call[c].step = "remove"
    /\ scheduler' = NoCron
    /\ call' = [call EXCEPT ![c].step = "write"]
    /\ UNCHANGED <<rowVars, fires, job, queued, slot, recovery, broken, calls, faults>>

\* The status, or the deletion with its runs; it throws when the row is gone.
Write(c) ==
    /\ call[c].step = "write"
    /\ status' = IF status = "deleted" THEN status
                 ELSE CASE call[c].op = "pause" -> "PAUSED"
                        [] call[c].op = "resume" -> "ACTIVE"
                        [] call[c].op = "delete" -> "deleted"
    /\ runs' = IF call[c].op = "delete" THEN {} ELSE runs
    /\ call' = [call EXCEPT ![c].step = "done"]
    /\ UNCHANGED <<cron, rows, redisVars, slot, recovery, broken, calls, faults>>

Return(c) ==
    /\ call[c].op # "none" /\ call[c].step = "done"
    /\ call' = [call EXCEPT ![c] = NoCall]
    /\ UNCHANGED <<rowVars, redisVars, slot, recovery, broken, calls, faults>>

----------------------------------------------------------------------------
(* recoverQueuedWork, every 30 seconds. *)

\* Mutant: only a send whose schedule is unchanged is registered again.
RecoverReadArmed ==
    /\ recovery = NoCron /\ status = "ACTIVE" /\ scheduler # NoCron
    /\ recovery' = cron
    /\ UNCHANGED <<rowVars, redisVars, slot, call, broken, calls, faults>>

RecoverRead ==
    /\ recovery = NoCron /\ status = "ACTIVE"
    /\ recovery' = cron
    /\ UNCHANGED <<rowVars, redisVars, slot, call, broken, calls, faults>>

RecoverArm ==
    /\ recovery # NoCron
    /\ scheduler' = recovery /\ recovery' = NoCron
    /\ UNCHANGED <<rowVars, fires, job, queued, slot, call, broken, calls, faults>>

\* Mutant: nothing is added for a row whose job is missing.
RecoverRowsNone ==
    /\ \E n \in Occurrences, r \in Recipients : rows[n][r] > 0 /\ r \notin queued[n]
    /\ UNCHANGED vars

\* The email-sending job of a QUEUED row that has none.
RecoverRows ==
    /\ \E n \in Occurrences, r \in Recipients : rows[n][r] > 0 /\ r \notin queued[n]
    /\ queued' = [n \in Occurrences |-> queued[n] \union {r \in Recipients : rows[n][r] > 0}]
    /\ UNCHANGED <<rowVars, scheduler, fires, job, slot, recovery, call, broken, calls, faults>>

----------------------------------------------------------------------------
(* Faults. *)

Fault(kind) ==
    /\ kind \in FaultKinds /\ faults < MaxFaults
    /\ faults' = faults + 1
    /\ UNCHANGED <<rowVars, fires, calls>>

\* The occurrence's run is recorded and its recipients are not all done.
Breaks(s) ==
    broken' = IF slot[s].at \in {"row", "add"} THEN broken \union {slot[s].n} ELSE broken

Crash(s) ==
    /\ slot[s].at # "idle"
    /\ Fault("crash")
    /\ slot' = [slot EXCEPT ![s] = Idle]
    /\ Breaks(s)
    /\ UNCHANGED <<scheduler, job, queued, recovery, call>>

\* A statement of the job throws before it takes effect.
CallFails(s) ==
    /\ slot[s].at # "idle"
    /\ Fault("call")
    /\ Throw(s)
    /\ Breaks(s)
    /\ UNCHANGED <<scheduler, queued, recovery, call>>

Stalled(n) ==
    job' = [job EXCEPT ![n].state = IF job[n].stalls < MaxStalls THEN "waiting" ELSE "failed",
                       ![n].stalls = @ + 1, ![n].holder = NoSlot]

Working(n) == \E s \in Slots : slot[s].at # "idle" /\ slot[s].n = n /\ job[n].holder = s

\* The lock of a slot that died runs out; or that of one that lives, a fault.
LockExpires(n) ==
    /\ job[n].state = "active" /\ ~Working(n)
    /\ Stalled(n)
    /\ UNCHANGED <<rowVars, scheduler, fires, queued, slot, recovery, call, broken, calls, faults>>

Stall(n) ==
    /\ job[n].state = "active" /\ Working(n)
    /\ Fault("stall")
    /\ Stalled(n)
    /\ UNCHANGED <<scheduler, queued, slot, recovery, call, broken>>

RedisLoss ==
    /\ Fault("redis")
    /\ scheduler' = NoCron
    /\ job' = [n \in Occurrences |-> NoJob]
    /\ queued' = [n \in Occurrences |-> {}]
    /\ UNCHANGED <<slot, recovery, call, broken>>

ApiDies(c) ==
    /\ call[c] # NoCall
    /\ Fault("api")
    /\ call' = [call EXCEPT ![c] = NoCall]
    /\ UNCHANGED <<scheduler, job, queued, slot, recovery, broken>>

----------------------------------------------------------------------------

SlotStep(s) ==
    \/ \E n \in Occurrences : Take(s, n)
    \/ ReadSkip(s) \/ ReadSend(s) \/ CreateRun(s) \/ Note(s) \/ AddJob(s)
    \/ \E r \in Recipients : CreateRow(s, r)

CallStep(c) == Arm(c) \/ Remove(c) \/ Write(c) \/ Return(c)

Recover == RecoverRead \/ RecoverArm

Faults ==
    \/ \E s \in Slots : Crash(s) \/ CallFails(s)
    \/ \E n \in Occurrences : Stall(n)
    \/ \E c \in Callers : ApiDies(c)
    \/ RedisLoss

Next ==
    \/ Fire
    \/ \E s \in Slots : SlotStep(s)
    \/ \E c \in Callers :
          \/ \E k \in Crons : Update(c, k)
          \/ Pause(c) \/ Resume(c) \/ Delete(c)
          \/ CallStep(c)
    \/ Recover \/ RecoverRows
    \/ \E n \in Occurrences : LockExpires(n)
    \/ Faults

Spec == Init /\ [][Next]_vars

\* BullMQ gives a waiting job to a free slot and finds a stalled one; a slot and a
\* call that do not die go on; the recovery pass runs every 30 seconds.
Fairness ==
    /\ \A s \in Slots : WF_vars(SlotStep(s))
    /\ \A c \in Callers : WF_vars(CallStep(c))
    /\ \A n \in Occurrences : WF_vars(LockExpires(n))
    /\ WF_vars(Recover) /\ WF_vars(RecoverRows)

FairSpec == Spec /\ Fairness

----------------------------------------------------------------------------

\* Every variable has its type; a slot that works has an occurrence, and one in the
\* loop a recipient to go.
TypeOK ==
    /\ status \in {"ACTIVE", "PAUSED", "deleted"} /\ cron \in Crons
    /\ runs \subseteq Occurrences
    /\ rows \in [Occurrences -> [Recipients -> Nat]]
    /\ scheduler \in Crons \union {NoCron} /\ fires \in 0..MaxFires
    /\ job \in [Occurrences -> Jobs]
    /\ queued \in [Occurrences -> SUBSET Recipients]
    /\ slot \in [Slots -> SlotStates]
    /\ \A s \in Slots : slot[s].at # "idle" => slot[s].n \in Occurrences
    /\ \A s \in Slots : slot[s].at = "row" => slot[s].todo # {}
    /\ recovery \in Crons \union {NoCron}
    /\ call \in [Callers -> Calls]
    /\ broken \subseteq Occurrences
    /\ calls \in 0..MaxCalls /\ faults \in 0..MaxFaults

\* A fire that is delivered more than once, retried or taken by two slots makes one
\* EmailJob a recipient: the run's unique key is the only thing between them.
OneRowPerOccurrence ==
    \A n \in Occurrences, r \in Recipients : rows[n][r] <= 1

\* Once the API and the faults are done, an active send is armed with its own
\* schedule: a stale recovery pass, a lost Redis or a call that died is repaired.
ArmedAsWritten == <>[](status = "ACTIVE" => scheduler = cron)

\* An occurrence that was recorded reaches every recipient, whatever pause, deletion
\* or lost Redis data comes next; only a fault inside its own loop can cut it short.
OccurrenceCompletes ==
    \A n \in Occurrences :
        n \in runs ~> n \in broken \/ \A r \in Recipients : rows[n][r] = 1 /\ r \in queued[n]

============================================================================
