----------------------- MODULE RecurringSendProofs -----------------------
(***************************************************************************)
(* For any recipients, slots, callers and bounds, an occurrence makes at   *)
(* most one EmailJob a recipient, although its job may be taken again, by  *)
(* several slots at once, after crashes, stalls and lost Redis data.       *)
(*                                                                         *)
(* The invariant is not inductive: it does not say why a second pass of    *)
(* the loop cannot start.  What does is the run, which is recorded before  *)
(* the first row and goes only with the send.                              *)
(***************************************************************************)
EXTENDS RecurringSend, TLAPS

\* What TypeOK does not say of a call: one about to write is one that writes.
WritersWrite == \A c \in Callers :
    /\ call[c].step = "write" => call[c].op \in {"pause", "resume", "delete"}
    /\ call[c].step = "remove" => call[c].op \in {"pause", "delete"}

TypeInv == TypeOK /\ WritersWrite

InLoop(s) == slot[s].at \in {"row", "add"}

\* An occurrence that no slot can start any more.
Recorded(n) == n \in runs \/ status = "deleted"

\* A slot in the loop has its occurrence for itself, and no row for whom is to come.
LoopInv ==
    /\ \A s \in Slots : InLoop(s) => Recorded(slot[s].n)
    /\ \A s, t \in Slots : InLoop(s) /\ InLoop(t) /\ slot[s].n = slot[t].n => s = t
    /\ \A s \in Slots : InLoop(s) => \A r \in slot[s].todo : rows[slot[s].n][r] = 0
    /\ \A n \in Occurrences : ~Recorded(n) => \A r \in Recipients : rows[n][r] = 0

Inv == TypeInv /\ LoopInv /\ OneRowPerOccurrence

---------------------------------------------------------------------------
(* Types. *)

LEMMA TypeInit == Init => TypeInv
BY RecurringAssumption
DEF Init, TypeInv, TypeOK, WritersWrite, Idle, SlotStates, Steps, Jobs, NoJob, Calls, Ops,
    NoCall, Occurrences

\* The parts of TypeOK about the slots and about the jobs, which the slots' steps change.
SlotType ==
    /\ slot \in [Slots -> SlotStates]
    /\ \A s \in Slots : slot[s].at # "idle" => slot[s].n \in Occurrences
    /\ \A s \in Slots : slot[s].at = "row" => slot[s].todo # {}
JobType == job \in [Occurrences -> Jobs]

\* A slot that goes to a state of its own leaves the others where they were.
LEMMA SlotMoves ==
    ASSUME SlotType, NEW s \in Slots, NEW v \in SlotStates,
           v.at # "idle" => v.n \in Occurrences, v.at = "row" => v.todo # {},
           slot' = [slot EXCEPT ![s] = v]
    PROVE  SlotType'
BY DEF SlotType

LEMMA JobMoves ==
    ASSUME JobType, NEW n \in Occurrences, NEW v \in Jobs, job' = [job EXCEPT ![n] = v]
    PROVE  JobType'
BY DEF JobType

\* What the two ways out of the job leave is a job and a slot.
LEMMA LeaveType ==
    ASSUME SlotType, JobType, NEW s \in Slots, slot[s].at # "idle", Finish(s) \/ Throw(s)
    PROVE  SlotType' /\ JobType' /\ slot' = [slot EXCEPT ![s] = Idle]
<1> DEFINE n == slot[s].n
           done == [job[n] EXCEPT !.state = "done", !.holder = NoSlot]
           left == IF job[n].tries + 1 < MaxAttempts THEN "waiting" ELSE "failed"
           thrown == [job[n] EXCEPT !.state = left, !.tries = @ + 1, !.holder = NoSlot]
<1>1. n \in Occurrences
  BY DEF SlotType
<1>2. job[n] \in Jobs
  BY <1>1 DEF JobType
<1>3. done \in Jobs /\ thrown \in Jobs
  <2>1. left \in {"waiting", "failed"} /\ job[n].tries + 1 \in Nat
    BY <1>2 DEF Jobs
  <2> HIDE DEF left
  <2>. QED
    BY <1>2, <2>1 DEF Jobs
<1>4. slot' = [slot EXCEPT ![s] = Idle]
  BY DEF Finish, Throw
<1>5. Idle \in SlotStates /\ Idle.at = "idle"
  BY RecurringAssumption DEF Idle, SlotStates
<1>6. \/ job' = [job EXCEPT ![n] = done]
      \/ job' = [job EXCEPT ![n] = thrown]
      \/ job' = job
  BY <1>1, <1>2 DEF Finish, Throw, JobType
<1>7. SlotType'
  BY <1>4, <1>5, SlotMoves
<1>8. JobType'
  BY <1>1, <1>3, <1>6, JobMoves DEF JobType
<1>. QED
  BY <1>4, <1>7, <1>8

\* Every step of a slot leaves slots and jobs.
LEMMA SlotStepType ==
    ASSUME TypeInv, NEW s \in Slots, SlotStep(s)
    PROVE  SlotType' /\ JobType'
<1>1. SlotType /\ JobType
  BY DEF TypeInv, TypeOK, SlotType, JobType
<1>2. slot[s] \in SlotStates
  BY <1>1 DEF SlotType
<1>3. ASSUME NEW n \in Occurrences, Take(s, n) PROVE SlotType' /\ JobType'
  <2>0. n \in 0..MaxFires
    BY RecurringAssumption DEF Occurrences
  <2>1. [Idle EXCEPT !.at = "read", !.n = n] \in SlotStates
    BY <2>0 DEF Idle, SlotStates, Steps
  <2>2. SlotType'
    BY <1>1, <1>3, <2>1, SlotMoves DEF Take, Idle
  <2>3. job[n] \in Jobs
    BY <1>1 DEF JobType
  <2>4. [job[n] EXCEPT !.state = "active", !.holder = s] \in Jobs
    BY <2>3 DEF Jobs
  <2>5. job' = [job EXCEPT ![n] = [job[n] EXCEPT !.state = "active", !.holder = s]]
    BY <1>1, <1>3, <2>3 DEF Take, JobType
  <2>. QED
    BY <1>1, <2>2, <2>4, <2>5, JobMoves
<1>4. CASE ReadSkip(s)
  BY <1>1, <1>4, LeaveType DEF ReadSkip
<1>5. CASE ReadSend(s)
  <2>1. [slot[s] EXCEPT !.at = "create"] \in SlotStates
    BY <1>2 DEF SlotStates, Steps
  <2>2. slot' = [slot EXCEPT ![s] = [slot[s] EXCEPT !.at = "create"]]
    BY <1>5 DEF ReadSend, Goto
  <2>3. slot[s].n \in Occurrences
    BY <1>1, <1>5 DEF ReadSend, SlotType
  <2>4. SlotType'
    BY <1>1, <1>2, <2>1, <2>2, <2>3, SlotMoves DEF SlotStates
  <2>. QED
    BY <1>1, <1>5, <2>4 DEF ReadSend, redisVars, JobType
<1>6. CASE CreateRun(s)
  <2>1. CASE Throw(s)
    BY <1>1, <1>6, <2>1, LeaveType DEF CreateRun
  <2>2. CASE ~Throw(s)
    <3> DEFINE v == [slot[s] EXCEPT !.todo = Recipients,
                                    !.at = IF Recipients = {} THEN "touch" ELSE "row"]
    <3>1. slot' = [slot EXCEPT ![s] = v] /\ UNCHANGED job
      BY <1>6, <2>2 DEF CreateRun
    <3>2. v \in SlotStates /\ v.n = slot[s].n /\ v.todo = Recipients
          /\ (v.at = "row" => Recipients # {})
      BY <1>2 DEF SlotStates, Steps
    <3>3. slot[s].n \in Occurrences
      BY <1>1, <1>6 DEF CreateRun, SlotType
    <3> HIDE DEF v
    <3>4. SlotType'
      BY <1>1, <3>1, <3>2, <3>3, SlotMoves
    <3>. QED
      BY <1>1, <3>1, <3>4 DEF JobType
  <2>. QED
    BY <2>1, <2>2
<1>7. CASE Note(s)
  <2>1. CASE Throw(s) \/ Finish(s)
    BY <1>1, <1>7, <2>1, LeaveType DEF Note
  <2>2. CASE Goto(s, "touch") /\ UNCHANGED job
    <3>1. [slot[s] EXCEPT !.at = "touch"] \in SlotStates
      BY <1>2 DEF SlotStates, Steps
    <3>2. slot' = [slot EXCEPT ![s] = [slot[s] EXCEPT !.at = "touch"]]
      BY <2>2 DEF Goto
    <3>3. slot[s].n \in Occurrences
      BY <1>1, <1>7 DEF Note, SlotType
    <3>4. SlotType'
      BY <1>1, <1>2, <3>1, <3>2, <3>3, SlotMoves DEF SlotStates
    <3>. QED
      BY <1>1, <2>2, <3>4 DEF JobType
  <2>. QED
    BY <1>7, <2>1, <2>2 DEF Note
<1>8. CASE AddJob(s)
  <2> DEFINE v == [slot[s] EXCEPT !.at = IF slot[s].todo = {} THEN "link" ELSE "row",
                                  !.now = {}]
  <2>1. slot' = [slot EXCEPT ![s] = v] /\ UNCHANGED job
    BY <1>8 DEF AddJob
  <2>2. v \in SlotStates /\ v.n = slot[s].n /\ v.todo = slot[s].todo
        /\ (v.at = "row" => slot[s].todo # {})
    BY <1>2 DEF SlotStates, Steps
  <2>3. slot[s].n \in Occurrences
    BY <1>1, <1>8 DEF AddJob, SlotType
  <2> HIDE DEF v
  <2>4. SlotType'
    BY <1>1, <2>1, <2>2, <2>3, SlotMoves
  <2>. QED
    BY <1>1, <2>1, <2>4 DEF JobType
<1>9. ASSUME NEW r \in Recipients, CreateRow(s, r) PROVE SlotType' /\ JobType'
  <2> DEFINE v == [slot[s] EXCEPT !.at = "add", !.todo = @ \ {r}, !.now = {r}]
  <2>1. slot' = [slot EXCEPT ![s] = v]
    BY <1>9 DEF CreateRow
  <2>2. v \in SlotStates /\ v.n = slot[s].n /\ v.at = "add"
    BY <1>2 DEF SlotStates, Steps
  <2>3. slot[s].n \in Occurrences
    BY <1>1, <1>9 DEF CreateRow, SlotType
  <2> HIDE DEF v
  <2>4. SlotType'
    BY <1>1, <2>1, <2>2, <2>3, SlotMoves
  <2>. QED
    BY <1>1, <1>9, <2>4 DEF CreateRow, redisVars, JobType
<1>. QED
  BY <1>3, <1>4, <1>5, <1>6, <1>7, <1>8, <1>9 DEF SlotStep

\* Every action keeps the types, by cases over Next.
LEMMA TypeStep == TypeInv /\ [Next]_vars => TypeInv'
<1> SUFFICES ASSUME TypeInv, [Next]_vars PROVE TypeInv'
  OBVIOUS
<1>0. SlotType /\ JobType
  BY DEF TypeInv, TypeOK, SlotType, JobType
<1> USE RecurringAssumption DEF TypeInv, TypeOK, WritersWrite, rowVars, redisVars, Fault
<1>1. CASE Fire
  <2>1. fires + 1 \in Occurrences /\ fires + 1 \in 0..MaxFires
    BY <1>1 DEF Fire, Occurrences
  <2>2. job[fires + 1] \in Jobs
    BY <2>1
  <2>3. [job[fires + 1] EXCEPT !.state = "waiting"] \in Jobs
    BY <2>2 DEF Jobs
  <2>4. job' = [job EXCEPT ![fires + 1] = [job[fires + 1] EXCEPT !.state = "waiting"]]
    BY <1>1, <2>1, <2>2 DEF Fire
  <2>5. JobType'
    BY <1>0, <2>1, <2>3, <2>4, JobMoves
  <2>. QED
    BY <1>1, <2>1, <2>5 DEF Fire, JobType
<1>2. ASSUME NEW s \in Slots, SlotStep(s) PROVE TypeInv'
  <2>1. SlotType' /\ JobType'
    BY <1>2, SlotStepType
  <2>2. CASE CreateRun(s)
    BY <2>1, <2>2 DEF CreateRun, SlotType, JobType
  <2>3. CASE AddJob(s)
    <3>1. slot[s].n \in Occurrences /\ slot[s].now \subseteq Recipients
      BY <2>3 DEF AddJob, SlotStates
    <3>. QED
      BY <2>1, <2>3, <3>1 DEF AddJob, SlotType, JobType
  <2>4. ASSUME NEW r \in Recipients, CreateRow(s, r) PROVE TypeInv'
    <3>1. slot[s].n \in Occurrences
      BY <2>4 DEF CreateRow
    <3>2. rows' \in [Occurrences -> [Recipients -> Nat]]
      BY <2>4, <3>1 DEF CreateRow
    <3>. QED
      BY <2>1, <2>4, <3>2 DEF CreateRow, SlotType, JobType
  <2>5. CASE \/ \E n \in Occurrences : Take(s, n)
             \/ ReadSkip(s) \/ ReadSend(s) \/ Note(s)
    BY <2>1, <2>5 DEF Take, ReadSkip, ReadSend, Note, SlotType, JobType
  <2>. QED
    BY <1>2, <2>2, <2>3, <2>4, <2>5 DEF SlotStep
<1>3. ASSUME NEW c \in Callers,
             \/ \E k \in Crons : Update(c, k)
             \/ Pause(c) \/ Resume(c) \/ Delete(c)
      PROVE  TypeInv'
  BY <1>3 DEF Update, Pause, Resume, Delete, Begin, Calls, Ops
<1>4. ASSUME NEW c \in Callers, CallStep(c) PROVE TypeInv'
  <2>0. call[c] \in Calls
    OBVIOUS
  <2>1. CASE Arm(c)
    <3>1. call[c].cron \in Crons \union {NoCron}
      BY <2>0 DEF Calls
    <3>. QED
      BY <2>1, <3>1 DEF Arm, Calls, Ops
  <2>2. CASE Remove(c)
    BY <2>2 DEF Remove, Calls, Ops
  <2>3. CASE Write(c)
    BY <2>3 DEF Write, Calls, Ops
  <2>4. CASE Return(c)
    BY <2>4 DEF Return, Calls, Ops, NoCall
  <2>. QED
    BY <1>4, <2>1, <2>2, <2>3, <2>4 DEF CallStep
<1>5. CASE Recover \/ RecoverRows
  BY <1>5 DEF Recover, RecoverRead, RecoverArm, RecoverRows
<1>6. ASSUME NEW n \in Occurrences, LockExpires(n) \/ Stall(n) PROVE TypeInv'
  BY <1>6 DEF LockExpires, Stall, Stalled, Jobs
<1>7. ASSUME NEW s \in Slots, Crash(s) \/ CallFails(s) PROVE TypeInv'
  <2>1. CASE Crash(s)
    BY <2>1 DEF Crash, Breaks, Idle, SlotStates
  <2>2. CASE CallFails(s)
    BY <1>0, <2>2, LeaveType DEF CallFails, Breaks, SlotType, JobType
  <2>. QED
    BY <1>7, <2>1, <2>2
<1>8. ASSUME NEW c \in Callers, ApiDies(c) PROVE TypeInv'
  BY <1>8 DEF ApiDies, Calls, NoCall
<1>9. CASE RedisLoss
  BY <1>9 DEF RedisLoss, Jobs, NoJob
<1>10. CASE UNCHANGED vars
  BY <1>10 DEF vars
<1>. QED
  BY <1>1, <1>2, <1>3, <1>4, <1>5, <1>6, <1>7, <1>8, <1>9, <1>10 DEF Next, Faults
---------------------------------------------------------------------------
(* One pass of the loop for each occurrence. *)

\* A slot that goes where it is not in the loop, or on with its todo shrinking, keeps
\* the invariant as long as runs, the send and the rows are what they were.
LEMMA LoopKept ==
    ASSUME TypeInv, LoopInv, OneRowPerOccurrence, UNCHANGED rows,
           \A n \in Occurrences : Recorded(n) => Recorded(n)',
           \A s \in Slots : InLoop(s)' =>
               /\ InLoop(s) /\ slot'[s].n = slot[s].n
               /\ slot'[s].todo \subseteq slot[s].todo
    PROVE  LoopInv' /\ OneRowPerOccurrence'
<1>1. \A s \in Slots : InLoop(s) => slot[s].n \in Occurrences
  BY DEF TypeInv, TypeOK, InLoop
<1>2. \A n \in Occurrences : ~Recorded(n)' => ~Recorded(n)
  OBVIOUS
<1>3. \A s \in Slots : (InLoop(s) => Recorded(slot[s].n))'
  BY <1>1 DEF LoopInv, Recorded
<1>4. \A s, t \in Slots :
          InLoop(s)' /\ InLoop(t)' /\ slot'[s].n = slot'[t].n => s = t
  BY DEF LoopInv
<1>5. \A s \in Slots : InLoop(s)' => \A r \in slot'[s].todo : rows'[slot'[s].n][r] = 0
  BY DEF LoopInv
<1>6. \A n \in Occurrences : ~Recorded(n)' => \A r \in Recipients : rows'[n][r] = 0
  BY <1>2 DEF LoopInv
<1>7. OneRowPerOccurrence'
  BY DEF OneRowPerOccurrence
<1>. QED
  BY <1>3, <1>4, <1>5, <1>6, <1>7 DEF LoopInv, InLoop, Recorded

LEMMA LoopInit == Init => LoopInv /\ OneRowPerOccurrence
BY DEF Init, LoopInv, OneRowPerOccurrence, InLoop, Idle

\* The run of an occurrence is recorded: the first slot to do so is the only one that
\* enters its loop, and it has no row yet.
LEMMA CreateRunStep ==
    ASSUME TypeInv, LoopInv, OneRowPerOccurrence, NEW s \in Slots, CreateRun(s)
    PROVE  LoopInv' /\ OneRowPerOccurrence'
<1> DEFINE n == slot[s].n
<1>1. n \in Occurrences /\ s \in DOMAIN slot
  BY DEF TypeInv, TypeOK, CreateRun
<1>2. CASE n \in runs \/ status = "deleted"
  <2>1. slot' = [slot EXCEPT ![s] = Idle] /\ UNCHANGED <<runs, status, rows>>
    BY <1>2 DEF CreateRun, Throw
  <2>2. \A t \in Slots : t # s => slot'[t] = slot[t]
    BY <2>1 DEF TypeInv, TypeOK
  <2>3. ~InLoop(s)'
    BY <1>1, <2>1 DEF InLoop, Idle
  <2>. QED
    BY <2>1, <2>2, <2>3, LoopKept DEF InLoop, Recorded
<1>3. CASE n \notin runs /\ status # "deleted"
  <2>1. /\ runs' = runs \union {n}
        /\ slot'[s].n = n /\ slot'[s].todo = Recipients
        /\ \A t \in Slots : t # s => slot'[t] = slot[t]
        /\ UNCHANGED <<status, rows>>
    BY <1>1, <1>3 DEF CreateRun, TypeInv, TypeOK, SlotStates
  <2>2. ~Recorded(n) /\ Recorded(n)'
    BY <1>3, <2>1 DEF Recorded
  <2>3. \A t \in Slots : t # s /\ InLoop(t) => slot[t].n # n
    BY <2>2 DEF LoopInv
  <2>4. \A r \in Recipients : rows'[n][r] = 0
    BY <1>1, <2>1, <2>2 DEF LoopInv
  <2>5. \A m \in Occurrences : Recorded(m) => Recorded(m)'
    BY <2>1 DEF Recorded
  <2>6. \A t \in Slots : t # s => (InLoop(t)' <=> InLoop(t))
    BY <2>1 DEF InLoop
  <2>7. \A t \in Slots : (InLoop(t) => Recorded(slot[t].n))'
    BY <2>1, <2>2, <2>5, <2>6 DEF LoopInv, TypeInv, TypeOK, InLoop, Recorded
  <2>8. \A t, u \in Slots :
            InLoop(t)' /\ InLoop(u)' /\ slot'[t].n = slot'[u].n => t = u
    BY <2>1, <2>3, <2>6 DEF LoopInv
  <2>9. \A t \in Slots : InLoop(t)' => \A r \in slot'[t].todo : rows'[slot'[t].n][r] = 0
    BY <2>1, <2>4, <2>6 DEF LoopInv
  <2>10. \A m \in Occurrences : ~Recorded(m)' => \A r \in Recipients : rows'[m][r] = 0
    BY <2>1, <2>5 DEF LoopInv
  <2>11. OneRowPerOccurrence'
    BY <2>1 DEF OneRowPerOccurrence
  <2>. QED
    BY <2>7, <2>8, <2>9, <2>10, <2>11 DEF LoopInv, InLoop, Recorded
<1>. QED
  BY <1>2, <1>3

\* A row is created for one the loop has yet to come to, who has none.
LEMMA CreateRowStep ==
    ASSUME TypeInv, LoopInv, OneRowPerOccurrence,
           NEW s \in Slots, NEW r \in Recipients, CreateRow(s, r)
    PROVE  LoopInv' /\ OneRowPerOccurrence'
<1> DEFINE n == slot[s].n
<1>1. n \in Occurrences /\ InLoop(s) /\ r \in slot[s].todo
  BY DEF TypeInv, TypeOK, CreateRow, InLoop
<1>2. Recorded(n) /\ rows[n][r] = 0
  BY <1>1 DEF LoopInv
<1>3. /\ slot'[s].n = n /\ slot'[s].at = "add" /\ slot'[s].todo = slot[s].todo \ {r}
      /\ \A t \in Slots : t # s => slot'[t] = slot[t]
      /\ UNCHANGED <<status, runs>>
  BY DEF CreateRow, TypeInv, TypeOK, SlotStates
<1>4. rows'[n][r] = 1
  BY <1>1, <1>2 DEF CreateRow, TypeInv, TypeOK
<1>5. \A m \in Occurrences, q \in Recipients : m # n \/ q # r => rows'[m][q] = rows[m][q]
  BY <1>1 DEF CreateRow, TypeInv, TypeOK
<1>6. \A t \in Slots : InLoop(t)' => InLoop(t) /\ slot'[t].n = slot[t].n
  BY <1>1, <1>3 DEF InLoop
<1>7. \A t \in Slots : InLoop(t) => slot[t].n \in Occurrences /\ slot[t].todo \subseteq Recipients
  BY DEF TypeInv, TypeOK, InLoop, SlotStates
<1>8. \A t \in Slots : (InLoop(t) => Recorded(slot[t].n))'
  BY <1>3, <1>6 DEF LoopInv, Recorded
<1>9. \A t, u \in Slots : InLoop(t)' /\ InLoop(u)' /\ slot'[t].n = slot'[u].n => t = u
  BY <1>6 DEF LoopInv
<1>10. ASSUME NEW t \in Slots, InLoop(t)', NEW q \in slot'[t].todo
       PROVE  rows'[slot'[t].n][q] = 0
  <2>1. CASE t = s
    BY <1>1, <1>3, <1>5, <1>7, <1>10, <2>1 DEF LoopInv
  <2>2. CASE t # s
    <3>1. slot[t].n # n
      BY <1>1, <1>6, <1>10, <2>2 DEF LoopInv
    <3>. QED
      BY <1>3, <1>5, <1>6, <1>7, <1>10, <2>2, <3>1 DEF LoopInv
  <2>. QED
    BY <2>1, <2>2
<1>11. \A m \in Occurrences : ~Recorded(m)' => \A q \in Recipients : rows'[m][q] = 0
  BY <1>2, <1>3, <1>5 DEF LoopInv, Recorded
<1>12. OneRowPerOccurrence'
  BY <1>4, <1>5 DEF OneRowPerOccurrence
<1>. QED
  BY <1>8, <1>9, <1>10, <1>11, <1>12 DEF LoopInv, InLoop, Recorded

\* The deletion of a send takes its runs, and no slot can start an occurrence of it.
LEMMA WriteStep ==
    ASSUME TypeInv, LoopInv, OneRowPerOccurrence, NEW c \in Callers, Write(c)
    PROVE  LoopInv' /\ OneRowPerOccurrence'
<1>1. status = "deleted" => status' = "deleted"
  BY DEF Write
<1>2. call[c].op = "delete" => status' = "deleted"
  BY DEF Write
<1>3. call[c].op # "delete" => runs' = runs
  BY DEF Write
<1>4. \A n \in Occurrences : Recorded(n) => Recorded(n)'
  BY <1>1, <1>2, <1>3 DEF Recorded
<1>. QED
  BY <1>4, LoopKept DEF Write, redisVars, InLoop

\* A slot that leaves the job is not in its loop.
LEMMA OutStep ==
    ASSUME TypeInv, LoopInv, OneRowPerOccurrence, NEW s \in Slots,
           slot' = [slot EXCEPT ![s] = Idle], UNCHANGED rowVars
    PROVE  LoopInv' /\ OneRowPerOccurrence'
<1>1. \A t \in Slots : t # s => slot'[t] = slot[t]
  BY DEF TypeInv, TypeOK
<1>2. ~InLoop(s)'
  BY DEF InLoop, Idle, TypeInv, TypeOK
<1>. QED
  BY <1>1, <1>2, LoopKept DEF InLoop, Recorded, rowVars

\* The other steps of a slot.
LEMMA SlotStepLoop ==
    ASSUME TypeInv, LoopInv, OneRowPerOccurrence, NEW s \in Slots, SlotStep(s)
    PROVE  LoopInv' /\ OneRowPerOccurrence'
<1>1. ASSUME NEW n \in Occurrences, Take(s, n) PROVE LoopInv' /\ OneRowPerOccurrence'
  <2>1. \A t \in Slots : t # s => slot'[t] = slot[t]
    BY <1>1 DEF Take, TypeInv, TypeOK
  <2>2. ~InLoop(s)'
    BY <1>1 DEF Take, InLoop, Idle, TypeInv, TypeOK
  <2>. QED
    BY <1>1, <2>1, <2>2, LoopKept DEF Take, InLoop, Recorded, rowVars
<1>2. CASE ReadSkip(s)
  BY <1>2, OutStep DEF ReadSkip, Finish
<1>3. CASE ReadSend(s)
  <2>1. \A t \in Slots : t # s => slot'[t] = slot[t]
    BY <1>3 DEF ReadSend, Goto, TypeInv, TypeOK
  <2>2. ~InLoop(s)'
    BY <1>3 DEF ReadSend, Goto, InLoop, TypeInv, TypeOK, SlotStates
  <2>. QED
    BY <1>3, <2>1, <2>2, LoopKept DEF ReadSend, InLoop, Recorded, rowVars
<1>4. CASE CreateRun(s)
  BY <1>4, CreateRunStep
<1>5. CASE Note(s)
  <2>1. CASE Throw(s) \/ Finish(s)
    BY <1>5, <2>1, OutStep DEF Note, Throw, Finish
  <2>2. CASE Goto(s, "touch")
    <3>1. \A t \in Slots : t # s => slot'[t] = slot[t]
      BY <2>2 DEF Goto, TypeInv, TypeOK
    <3>2. ~InLoop(s)'
      BY <2>2 DEF Goto, InLoop, TypeInv, TypeOK, SlotStates
    <3>. QED
      BY <1>5, <3>1, <3>2, LoopKept DEF Note, InLoop, Recorded, rowVars
  <2>. QED
    BY <1>5, <2>1, <2>2 DEF Note
<1>6. CASE AddJob(s)
  <2>1. \A t \in Slots : t # s => slot'[t] = slot[t]
    BY <1>6 DEF AddJob, TypeInv, TypeOK
  <2>2. InLoop(s) /\ slot'[s].n = slot[s].n /\ slot'[s].todo = slot[s].todo
    BY <1>6 DEF AddJob, InLoop, TypeInv, TypeOK, SlotStates
  <2>. QED
    BY <1>6, <2>1, <2>2, LoopKept DEF AddJob, InLoop, Recorded, rowVars
<1>7. ASSUME NEW r \in Recipients, CreateRow(s, r) PROVE LoopInv' /\ OneRowPerOccurrence'
  BY <1>7, CreateRowStep
<1>. QED
  BY <1>1, <1>2, <1>3, <1>4, <1>5, <1>6, <1>7 DEF SlotStep

LEMMA LoopStep ==
    TypeInv /\ LoopInv /\ OneRowPerOccurrence /\ [Next]_vars
        => LoopInv' /\ OneRowPerOccurrence'
<1> SUFFICES ASSUME TypeInv, LoopInv, OneRowPerOccurrence, [Next]_vars
             PROVE  LoopInv' /\ OneRowPerOccurrence'
  OBVIOUS
<1>1. ASSUME UNCHANGED <<status, runs, rows, slot>> PROVE LoopInv' /\ OneRowPerOccurrence'
  BY <1>1 DEF LoopInv, OneRowPerOccurrence, InLoop, Recorded
<1>2. CASE Fire
  BY <1>1, <1>2 DEF Fire, rowVars
<1>3. ASSUME NEW s \in Slots, SlotStep(s) PROVE LoopInv' /\ OneRowPerOccurrence'
  BY <1>3, SlotStepLoop
<1>4. ASSUME NEW c \in Callers,
             \/ \E k \in Crons : Update(c, k)
             \/ Pause(c) \/ Resume(c) \/ Delete(c)
      PROVE  LoopInv' /\ OneRowPerOccurrence'
  BY <1>1, <1>4 DEF Update, Pause, Resume, Delete, Begin
<1>5. ASSUME NEW c \in Callers, CallStep(c) PROVE LoopInv' /\ OneRowPerOccurrence'
  BY <1>1, <1>5, WriteStep DEF CallStep, Arm, Remove, Return, rowVars
<1>6. CASE Recover \/ RecoverRows
  BY <1>1, <1>6 DEF Recover, RecoverRead, RecoverArm, RecoverRows, rowVars
<1>7. ASSUME NEW n \in Occurrences, LockExpires(n) \/ Stall(n)
      PROVE  LoopInv' /\ OneRowPerOccurrence'
  BY <1>1, <1>7 DEF LockExpires, Stall, Fault, rowVars
<1>8. ASSUME NEW s \in Slots, Crash(s) \/ CallFails(s) PROVE LoopInv' /\ OneRowPerOccurrence'
  BY <1>8, OutStep DEF Crash, CallFails, Throw, Fault
<1>9. ASSUME NEW c \in Callers, ApiDies(c) PROVE LoopInv' /\ OneRowPerOccurrence'
  BY <1>1, <1>9 DEF ApiDies, Fault, rowVars
<1>10. CASE RedisLoss
  BY <1>1, <1>10 DEF RedisLoss, Fault, rowVars
<1>11. CASE UNCHANGED vars
  BY <1>1, <1>11 DEF vars, rowVars
<1>. QED
  BY <1>2, <1>3, <1>4, <1>5, <1>6, <1>7, <1>8, <1>9, <1>10, <1>11 DEF Next, Faults

---------------------------------------------------------------------------

LEMMA InvHolds == Spec => []Inv
<1>1. Init => Inv
  BY TypeInit, LoopInit DEF Inv
<1>2. Inv /\ [Next]_vars => Inv'
  BY TypeStep, LoopStep DEF Inv
<1>. QED
  BY <1>1, <1>2, PTL DEF Spec

\* Every variable has its type, and a slot that works has an occurrence and, in the
\* loop, a recipient to go (recurring-send.worker.ts:101-233).
THEOREM TypeCorrect == Spec => []TypeOK
<1>1. Inv => TypeOK
  BY DEF Inv, TypeInv
<1>. QED
  BY <1>1, InvHolds, PTL

\* An occurrence makes at most one EmailJob a recipient, for any number of slots,
\* retries, stalls and losses: the run's unique key is enough, also when the send is
\* deleted, runs and all, under a slot that is in the loop.
THEOREM RowOnce == Spec => []OneRowPerOccurrence
<1>1. Inv => OneRowPerOccurrence
  BY DEF Inv
<1>. QED
  BY <1>1, InvHolds, PTL

=============================================================================
