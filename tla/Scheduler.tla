----------------------------- MODULE Scheduler -----------------------------
(***************************************************************************)
(* The preemptive scheduler: kernel/sched.c with the two assembly paths    *)
(* that switch stacks (sched_do_yield in sched_asm.asm, the IRQ stub in    *)
(* isr.asm) and the 1 kHz timer interrupt that drives it (timer.c).        *)
(*                                                                         *)
(* The kernel is uniprocessor.  Inside an interrupt handler and inside     *)
(* sched_do_yield interrupts are off, so each of those is one action; the  *)
(* code of sched_sleep, sched_wait_period and sched_exit runs with         *)
(* interrupts ON, so a tick may fall between any two of its stores, and    *)
(* each stretch between two shared accesses is an action of its own.       *)
(*                                                                         *)
(* Time is relative: wake[t] is sleep_until_ms - now (0 once passed) and   *)
(* due[t] is next_wake_ms - now, saturated at -Period[t] because the code  *)
(* tells apart no two values below that.  No counter is unbounded.         *)
(***************************************************************************)
EXTENDS Integers

CONSTANTS
    NumTasks,     \* how many tasks kmain creates before sched_start
    MaxTasks,     \* SCHED_MAX_TASKS
    MaxPrio,      \* SCHED_PRIO_MAX; 0 is the most urgent
    Quantum,      \* SCHED_DEFAULT_QUANTUM_MS, in ticks
    Prio,         \* the priority each task is created with
    Period,       \* its period_ms; 0 for sched_create
    Calls,        \* the scheduler calls the body of each task makes
    Delays,       \* the arguments of sched_sleep
    Horizon,      \* bound on how far ahead next_wake_ms may be
    NewPrios,     \* the arguments of sched_set_priority
    Prompt        \* tasks that pass through kernel code in less than two ticks

Tid == 0 .. NumTasks - 1
NoTask == -1
CallNames == {"yield", "sleep", "period", "exit", "return", "wake", "renice"}

ASSUME TasksAssumption ==
    /\ NumTasks \in Nat \ {0} /\ MaxTasks \in Nat /\ NumTasks <= MaxTasks
    /\ MaxPrio \in Nat
    /\ Quantum \in Nat \ {0}
    /\ Prio \in [Tid -> Int]
    /\ Period \in [Tid -> Nat]
    /\ Calls \in [Tid -> SUBSET CallNames]
    /\ Delays \subseteq Nat
    /\ Horizon \in Nat /\ \A t \in Tid : 2 * Period[t] <= Horizon
    /\ NewPrios \subseteq Int
    /\ Prompt \subseteq Tid

(* kmain always creates idle_task, whose body only executes hlt. *)
ASSUME IdleAssumption == \E i \in Tid : Calls[i] = {}

VARIABLES
    count,        \* g_task_count
    current,      \* g_current
    state,        \* tcb.state
    prio,         \* tcb.priority
    remaining,    \* tcb.remaining_ms
    wake,         \* tcb.sleep_until_ms - now, at least 0
    due,          \* tcb.next_wake_ms - now, at least -Period
    phased,       \* tcb.next_wake_ms # 0
    maxJitter,    \* tcb.max_jitter_ms, at most Period
    frame,        \* tcb.rsp addresses a frame saved after the task last ran
    pc,           \* where the task is in the scheduler's own code
    call,         \* the call it is in
    struck        \* a tick hit the kernel code the task is in the middle of

tcb == <<state, prio, remaining, wake, due, phased, maxJitter, frame>>
vars == <<count, current, tcb, pc, call, struck>>

States == {"FREE", "READY", "RUNNING", "SLEEPING", "DEAD"}

(* "run": in its own code.  "armed": sleep_until_ms stored, state not yet. *)
(* "marked": state stored, sched_do_yield not yet reached.  "resumed":     *)
(* switched back to inside sched_sleep or sched_wait_period.  "halted":    *)
(* in the hlt loop that ends task_entry_stub.                              *)
PCs == {"run", "armed", "marked", "resumed", "halted"}

TypeOK ==
    /\ count \in 0 .. NumTasks
    /\ current \in Tid \cup {NoTask}
    /\ state \in [Tid -> States]
    /\ prio \in [Tid -> 0 .. MaxPrio]
    /\ remaining \in [Tid -> 0 .. Quantum]
    /\ wake \in [Tid -> Nat]
    /\ due \in [Tid -> Int]
    /\ \A t \in Tid : -Period[t] <= due[t] /\ due[t] <= Horizon
    /\ phased \in [Tid -> BOOLEAN]
    /\ maxJitter \in [Tid -> Nat]
    /\ \A t \in Tid : maxJitter[t] <= Period[t]
    /\ frame \in [Tid -> BOOLEAN]
    /\ pc \in [Tid -> PCs]
    /\ call \in [Tid -> CallNames]
    /\ struck \in [Tid -> BOOLEAN]

-----------------------------------------------------------------------------
(* Choosing a task *)

(* Bug: the priority is stored as given. *)
ClampMissing(p) == p

Clamp(p) == IF p < 0 THEN 0 ELSE IF p > MaxPrio THEN MaxPrio ELSE p

ReadyIn(st) == {t \in Tid : st[t] = "READY"}

(* Position in the scan that starts after g_current and wraps at count. *)
Rotation(t) == (t + count - (current + 1)) % count

(* Bug: the next READY task in rotation, whatever its priority. *)
PickNextInRotation(st) ==
    {t \in ReadyIn(st) : \A u \in ReadyIn(st) : Rotation(t) <= Rotation(u)}

(* The task pick_next returns given the states st; {} is NULL. *)
PickNext(st) ==
    {t \in ReadyIn(st) : \A u \in ReadyIn(st) :
        \/ prio[t] < prio[u]
        \/ prio[t] = prio[u] /\ Rotation(t) <= Rotation(u)}

(* The task pick_higher_than returns: it scans from task 0 every time. *)
PickHigher(st, p) ==
    {t \in ReadyIn(st) : prio[t] < p /\ \A u \in ReadyIn(st) :
        \/ prio[t] < prio[u]
        \/ prio[t] = prio[u] /\ t <= u}

(* Bug: the path forgets cur->rsp = r. *)
SwitchToUnsaved(next, st) ==
    /\ state' = [st EXCEPT ![next] = "RUNNING"]
    /\ frame' = [frame EXCEPT ![next] = FALSE]
    /\ current' = next

(* Bug: the path forgets g_current = next->id. *)
SwitchToStale(next, st) ==
    /\ state' = [st EXCEPT ![next] = "RUNNING"]
    /\ frame' = [frame EXCEPT ![current] = TRUE, ![next] = FALSE]
    /\ UNCHANGED current

(* The running task's registers go to its stack and the stack pointer to   *)
(* its tcb; the chosen task is marked RUNNING and its frame is popped.     *)
SwitchTo(next, st) ==
    /\ state' = [st EXCEPT ![next] = "RUNNING"]
    /\ frame' = [frame EXCEPT ![current] = TRUE, ![next] = FALSE]
    /\ current' = next

-----------------------------------------------------------------------------
(* Boot: kmain creates the tasks, enables interrupts and starts the first. *)

Init ==
    /\ count = 0
    /\ current = NoTask
    /\ state = [t \in Tid |-> "FREE"]
    /\ prio = [t \in Tid |-> 0]
    /\ remaining = [t \in Tid |-> 0]
    /\ wake = [t \in Tid |-> 0]
    /\ due = [t \in Tid |-> 0]
    /\ phased = [t \in Tid |-> FALSE]
    /\ maxJitter = [t \in Tid |-> 0]
    /\ frame = [t \in Tid |-> FALSE]
    /\ pc = [t \in Tid |-> "run"]
    /\ call = [t \in Tid |-> "yield"]
    /\ struck = [t \in Tid |-> FALSE]

(* sched_create and sched_create_periodic *)
Create(t) ==
    /\ current = NoTask
    /\ t = count /\ count < MaxTasks
    /\ count' = count + 1
    /\ state' = [state EXCEPT ![t] = "READY"]
    /\ prio' = [prio EXCEPT ![t] = Clamp(Prio[t])]
    /\ remaining' = [remaining EXCEPT ![t] = Quantum]
    /\ frame' = [frame EXCEPT ![t] = TRUE]
    /\ UNCHANGED <<current, wake, due, phased, maxJitter, pc, call, struck>>

(* sched_start: g_current is -1, so the scan starts at task 0. *)
Start ==
    /\ current = NoTask
    /\ count = NumTasks
    /\ \E first \in PickNext(state) :
        /\ current' = first
        /\ state' = [state EXCEPT ![first] = "RUNNING"]
        /\ frame' = [frame EXCEPT ![first] = FALSE]
    /\ UNCHANGED <<count, prio, remaining, wake, due, phased, maxJitter, pc, call, struck>>

-----------------------------------------------------------------------------
(* The timer interrupt: timer_irq, then sched_timer_tick, then the stub    *)
(* that loads sched_switch_rsp if the handler set it.                      *)

Elapse ==
    /\ wake' = [t \in Tid |-> IF wake[t] > 0 THEN wake[t] - 1 ELSE 0]
    /\ due' = [t \in Tid |-> IF due[t] > -Period[t] THEN due[t] - 1 ELSE due[t]]

(* Bug: sleepers wake a tick before their time. *)
WokenSoon == [t \in Tid |-> IF state[t] = "SLEEPING" /\ wake'[t] <= 1
                            THEN "READY" ELSE state[t]]

(* Bug: sleepers wake only on the very tick of sleep_until_ms. *)
WokenOnTime == [t \in Tid |-> IF state[t] = "SLEEPING" /\ wake[t] = 1
                              THEN "READY" ELSE state[t]]

(* tcb.state after the loop that wakes the sleepers whose time has come *)
Woken == [t \in Tid |-> IF state[t] = "SLEEPING" /\ wake'[t] = 0
                        THEN "READY" ELSE state[t]]

KeepRunning(st, rem) ==
    /\ state' = st
    /\ remaining' = [remaining EXCEPT ![current] = rem]
    /\ UNCHANGED <<current, frame>>

(* Bug: nothing preempts within the quantum. *)
TickWithinPatient ==
    LET left == remaining[current] - 1
    IN  left > 0 /\ KeepRunning(Woken, left)

(* Some of the quantum is left: only a strictly more urgent task preempts. *)
TickWithin ==
    LET left == remaining[current] - 1
        higher == PickHigher(Woken, prio[current])
    IN  /\ left > 0
        /\ \/ higher = {} /\ KeepRunning(Woken, left)
           \/ \E next \in higher :
                /\ SwitchTo(next, [Woken EXCEPT ![current] = "READY"])
                /\ remaining' = [remaining EXCEPT ![current] = left]

(* The quantum is used up: the task goes back among its peers. *)
TickExpired ==
    LET requeued == [Woken EXCEPT ![current] = "READY"]
        chosen == PickNext(requeued)
    IN  /\ remaining[current] <= 1
        /\ \/ chosen \subseteq {current} /\ KeepRunning(Woken, Quantum)
           \/ \E next \in chosen \ {current} :
                /\ SwitchTo(next, requeued)
                /\ remaining' = [remaining EXCEPT ![current] = Quantum]

(* The interrupted task has already given up the processor: no accounting. *)
TickIgnored ==
    /\ state' = Woken
    /\ UNCHANGED <<current, remaining, frame>>

(* Scheduler code, and the whole body of a task that does nothing but call *)
(* sched_wait_period.  It is a few dozen instructions and a tick is a      *)
(* millisecond: at most one tick hits a prompt task on its way through.    *)
BodyIsEmpty(t) == Calls[t] = {"period"}
InKernel(t) ==
    pc[t] \in {"armed", "marked", "resumed"} \cup (IF BodyIsEmpty(t) THEN {"run"} ELSE {})

Tick ==
    /\ current # NoTask
    /\ current \in Prompt => ~struck[current]
    /\ Elapse
    /\ IF Woken[current] = "RUNNING" THEN TickWithin \/ TickExpired ELSE TickIgnored
    /\ struck' = [struck EXCEPT ![current] = InKernel(current)]
    /\ UNCHANGED <<count, prio, phased, maxJitter, pc, call>>

-----------------------------------------------------------------------------
(* Calls of the running task *)

Executes(t, where) == current = t /\ pc[t] = where

Goes(t, where, what, hit) ==
    /\ pc' = [pc EXCEPT ![t] = where]
    /\ call' = [call EXCEPT ![t] = what]
    /\ struck' = [struck EXCEPT ![t] = hit]

(* sched_sleep up to the store of sleep_until_ms *)
Sleep(t) ==
    /\ Executes(t, "run") /\ "sleep" \in Calls[t]
    /\ \E ms \in Delays : wake' = [wake EXCEPT ![t] = ms]
    /\ Goes(t, "armed", "sleep", struck[t])
    /\ UNCHANGED <<count, current, state, prio, remaining, due, phased, maxJitter, frame>>

(* sched_wait_period of an aperiodic task is sched_sleep(1). *)
WaitNoPeriod(t) ==
    /\ Executes(t, "run") /\ "period" \in Calls[t] /\ Period[t] = 0
    /\ wake' = [wake EXCEPT ![t] = 1]
    /\ Goes(t, "armed", "sleep", struck[t])
    /\ UNCHANGED <<count, current, state, prio, remaining, due, phased, maxJitter, frame>>

(* The release the next activation waits for, relative to now *)
NextRelease(t) ==
    IF phased[t] /\ due[t] + Period[t] > 0 THEN due[t] + Period[t] ELSE Period[t]

(* sched_wait_period up to the store of sleep_until_ms.  Each early        *)
(* sched_wake puts the release a period further ahead: Horizon caps that.  *)
WaitPeriod(t) ==
    /\ Executes(t, "run") /\ "period" \in Calls[t] /\ Period[t] > 0
    /\ NextRelease(t) <= Horizon
    /\ due' = [due EXCEPT ![t] = NextRelease(t)]
    /\ wake' = [wake EXCEPT ![t] = NextRelease(t)]
    /\ phased' = [phased EXCEPT ![t] = TRUE]
    /\ Goes(t, "armed", "period", struck[t])
    /\ UNCHANGED <<count, current, state, prio, remaining, maxJitter, frame>>

(* cur->state = TASK_SLEEPING, interrupts still on *)
MarkSleeping(t) ==
    /\ Executes(t, "armed")
    /\ state' = [state EXCEPT ![t] = "SLEEPING"]
    /\ Goes(t, "marked", call[t], struck[t])
    /\ UNCHANGED <<count, current, prio, remaining, wake, due, phased, maxJitter, frame>>

(* cur->state = TASK_DEAD: in sched_exit, or in task_entry_stub after the  *)
(* entry function returned                                                 *)
MarkDead(t) ==
    /\ Executes(t, "run")
    /\ state' = [state EXCEPT ![t] = "DEAD"]
    /\ \E how \in Calls[t] \cap {"exit", "return"} : Goes(t, "marked", how, struck[t])
    /\ UNCHANGED <<count, current, prio, remaining, wake, due, phased, maxJitter, frame>>

(* Where the task continues when sched_do_yield returns to it *)
Continuation(what) ==
    CASE what = "return" -> "halted"
      [] what \in {"sleep", "period"} -> "resumed"
      [] OTHER -> "run"

(* sched_do_yield: cli, save a frame, sched_yield_impl, switch or return.  *)
(* Without another READY task the caller is RUNNING again whatever it was. *)
DoYield(t, what) ==
    LET running == state[t] = "RUNNING"
        left == [state EXCEPT ![t] = IF running THEN "READY" ELSE @]
        chosen == PickNext(left)
    IN  /\ remaining' = [remaining EXCEPT ![t] = IF running THEN Quantum ELSE @]
        /\ \/ /\ chosen \subseteq {t}
              /\ state' = [state EXCEPT ![t] = "RUNNING"]
              /\ UNCHANGED <<current, frame>>
           \/ \E next \in chosen \ {t} : SwitchTo(next, left)
        /\ Goes(t, Continuation(what), what, FALSE)
        /\ UNCHANGED <<count, prio, wake, due, phased, maxJitter>>

(* sched_yield, and the SYS_YIELD system call *)
Yield(t) == Executes(t, "run") /\ "yield" \in Calls[t] /\ DoYield(t, "yield")

(* the sched_do_yield that ends sched_sleep, sched_wait_period, sched_exit *)
GiveUp(t) == Executes(t, "marked") /\ DoYield(t, call[t])

(* Bug: a task that overran is given an extra period to recover. *)
ResumeLater(t) ==
    LET jitter == IF call[t] = "period" /\ due[t] < 0 THEN -due[t] ELSE 0
    IN  /\ Executes(t, "resumed")
        /\ state' = [state EXCEPT ![t] = "RUNNING"]
        /\ maxJitter' = [maxJitter EXCEPT ![t] = IF jitter > @ THEN jitter ELSE @]
        /\ due' = [due EXCEPT ![t] = IF jitter > 0 /\ jitter >= Period[t] THEN 2 * Period[t] ELSE @]
        /\ Goes(t, "run", call[t], struck[t] /\ BodyIsEmpty(t))
        /\ UNCHANGED <<count, current, prio, remaining, wake, phased, frame>>

(* What follows sched_do_yield in sched_sleep and sched_wait_period *)
Resume(t) ==
    LET jitter == IF call[t] = "period" /\ due[t] < 0 THEN -due[t] ELSE 0
    IN  /\ Executes(t, "resumed")
        /\ state' = [state EXCEPT ![t] = "RUNNING"]
        /\ maxJitter' = [maxJitter EXCEPT ![t] = IF jitter > @ THEN jitter ELSE @]
        /\ due' = [due EXCEPT ![t] = IF jitter > 0 /\ jitter >= Period[t] THEN Period[t] ELSE @]
        /\ Goes(t, "run", call[t], struck[t] /\ BodyIsEmpty(t))
        /\ UNCHANGED <<count, current, prio, remaining, wake, phased, frame>>

(* sched_wake(u), called by task t *)
WakeTask(t, u) ==
    /\ Executes(t, "run") /\ "wake" \in Calls[t]
    /\ state[u] = "SLEEPING"
    /\ state' = [state EXCEPT ![u] = "READY"]
    /\ UNCHANGED <<count, current, prio, remaining, wake, due, phased, maxJitter, frame, pc, call, struck>>

(* sched_set_priority(u, p), called by task t: nothing is rescheduled *)
SetPriority(t, u) ==
    /\ Executes(t, "run") /\ "renice" \in Calls[t]
    /\ \E p \in NewPrios : prio' = [prio EXCEPT ![u] = Clamp(p)]
    /\ UNCHANGED <<count, current, state, remaining, wake, due, phased, maxJitter, frame, pc, call, struck>>

-----------------------------------------------------------------------------

KernelStep(t) == MarkSleeping(t) \/ GiveUp(t) \/ Resume(t)

BodyStep(t) ==
    \/ Sleep(t) \/ WaitNoPeriod(t) \/ WaitPeriod(t) \/ MarkDead(t) \/ Yield(t)
    \/ \E u \in Tid : WakeTask(t, u) \/ SetPriority(t, u)

Boot == Start \/ \E t \in Tid : Create(t)

Next == Boot \/ Tick \/ \E t \in Tid : KernelStep(t) \/ BodyStep(t)

Spec == Init /\ [][Next]_vars

(* The timer keeps ticking and the processor keeps executing: a task that  *)
(* is dispatched again and again gets through the scheduler's own code.    *)
(* Nothing is assumed of the body of a task.                               *)
FairSpec == Spec /\ WF_vars(Boot) /\ WF_vars(Tick)
                 /\ \A t \in Tid : SF_vars(KernelStep(t))

(* In addition every loop body comes back to its sleep or wait. *)
LoopingSpec == FairSpec /\ \A t \in Tid : SF_vars(BodyStep(t))

-----------------------------------------------------------------------------
(* Properties *)

(* At most one task is RUNNING and it is g_current; and the task whose     *)
(* code executes is RUNNING except between the store that gives the        *)
(* processor up and the cli of sched_do_yield.                             *)
RunningIsCurrent ==
    /\ \A t \in Tid : state[t] = "RUNNING" => t = current
    /\ current # NoTask =>
        (state[current] = "RUNNING" <=> pc[current] # "marked")

(* Every task that can be switched to has a stack frame saved after it     *)
(* last ran: no path of yield, tick or preemption forgets cur->rsp = r,    *)
(* and no task is resumed twice from one frame.                            *)
FreshFrames ==
    \A t \in Tid : t # current /\ state[t] \in {"READY", "SLEEPING"} => frame[t]

(* Where a task can be, given its state: what makes the properties above   *)
(* and below inductive.  Only the running task is between its state store  *)
(* and sched_do_yield; a sleeper is there or past its switch; and idle is  *)
(* always runnable once created, so sched_yield_impl never has to resume a *)
(* task that asked to sleep.                                               *)
Placed ==
    /\ \A t \in Tid : state[t] = "FREE" <=> t >= count
    /\ current # NoTask => count = NumTasks
    /\ \A t \in Tid : pc[t] = "marked" => t = current
    /\ \A t \in Tid : pc[t] \in {"armed", "resumed"} => call[t] \in {"sleep", "period"}
    /\ \A t \in Tid : state[t] = "SLEEPING" =>
          pc[t] \in {"marked", "resumed"} /\ call[t] \in {"sleep", "period"}
    /\ \A t \in Tid : pc[t] \in {"armed", "marked", "resumed", "halted"} => Calls[t] # {}
    /\ \A t \in Tid : Calls[t] = {} => state[t] \in {"FREE", "READY", "RUNNING"}
    /\ current = NoTask => \A t \in Tid : pc[t] = "run"

(* sched_sleep and sched_wait_period never return early: a task past its   *)
(* sched_do_yield is runnable only when its time has come, whichever of    *)
(* the windows the ticks hit.  Only sched_wake may cut a sleep short.      *)
NoEarlyReturn ==
    \A t \in Tid :
        /\ pc[t] = "resumed" /\ state[t] \in {"READY", "RUNNING"}
        /\ \A u \in Tid : "wake" \notin Calls[u]
        => wake[t] = 0

(* A periodic task nobody wakes by hand is released within two periods:    *)
(* one that overran by a period or more skips one release, never more, and *)
(* one that overran by less is back on its grid.                           *)
ReleaseNear ==
    \A t \in Tid :
        (\A u \in Tid : "wake" \notin Calls[u]) =>
            due[t] <= (IF pc[t] = "run" THEN Period[t] ELSE 2 * Period[t])

(* No READY task is strictly more urgent than the running one. *)
TopPriority ==
    current # NoTask /\ state[current] = "RUNNING" =>
        \A u \in ReadyIn(state) : prio[current] <= prio[u]

(* Strict priority: every tick and every yield leaves a most urgent task   *)
(* running, so a task made READY by anything else waits at most a tick.    *)
StrictPriority ==
    [][Tick \/ Start \/ (\E t \in Tid : Yield(t) \/ GiveUp(t)) => TopPriority']_vars

(* Whoever calls sched_sleep or sched_wait_period gets back to its code,   *)
(* whatever its priority, if the bodies of the others come back to a       *)
(* sleep of theirs.                                                        *)
SleepReturns == \A t \in Tid : pc[t] = "armed" ~> pc[t] = "run"

(* A periodic task of priority 0 that nobody shares the priority with is   *)
(* at its sched_wait_period at most a tick after its release.              *)
RealTime == \A t \in Tid :
    /\ Calls[t] = {"period"} /\ Clamp(Prio[t]) = 0
    /\ \A u \in Tid \ {t} : Clamp(Prio[u]) > 0 /\ "renice" \notin Calls[u]
    => maxJitter[t] <= 1

=============================================================================
