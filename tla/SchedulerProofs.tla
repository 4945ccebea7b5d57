-------------------------- MODULE SchedulerProofs --------------------------
(* Proofs about the scheduler for every task set that satisfies the        *)
(* assumptions of module Scheduler.                                        *)
EXTENDS Scheduler, WellFoundedInduction, TLAPS

-----------------------------------------------------------------------------
(* Choosing a task *)

(* A nonempty set of naturals has a least element. *)
LEMMA LeastNat ==
    ASSUME NEW S \in SUBSET Nat, S # {}
    PROVE  \E n \in S : \A m \in S : n <= m
<1>1. \E n \in S : \A m \in S : ~ (<<m, n>> \in OpToRel(<, Nat))
  BY NatLessThanWellFounded, WFMin, Zenon
<1>2. PICK n \in S : \A m \in S : ~ (<<m, n>> \in OpToRel(<, Nat))
  BY <1>1
<1>3. ASSUME NEW m \in S PROVE n <= m
  <2>1. n \in Nat /\ m \in Nat
    OBVIOUS
  <2>2. ~ (m < n)
    BY <1>2, <2>1 DEF OpToRel
  <2> QED
    BY <2>1, <2>2
<1> QED
  BY <1>3

(* A scan that keeps the smallest key and then the smallest position finds *)
(* somebody whenever there is somebody: pick_next and pick_higher_than     *)
(* return NULL only when no task qualifies.                                *)
LEMMA ScanFinds ==
    ASSUME NEW R, R # {},
           NEW key \in [R -> Nat], NEW pos \in [R -> Nat]
    PROVE  \E t \in R : \A u \in R :
              \/ key[t] < key[u]
              \/ key[t] = key[u] /\ pos[t] <= pos[u]
<1> DEFINE K == {key[t] : t \in R}
<1>1. PICK k \in K : \A m \in K : k <= m
  <2>1. K \in SUBSET Nat /\ K # {}
    OBVIOUS
  <2> QED
    BY <2>1, LeastNat
<1> DEFINE P == {pos[t] : t \in {u \in R : key[u] = k}}
<1>2. PICK p \in P : \A m \in P : p <= m
  <2>1. P \in SUBSET Nat /\ P # {}
    OBVIOUS
  <2> QED
    BY <2>1, LeastNat
<1>3. PICK t \in R : key[t] = k /\ pos[t] = p
  BY <1>2
<1>4. ASSUME NEW u \in R
      PROVE  \/ key[t] < key[u]
             \/ key[t] = key[u] /\ pos[t] <= pos[u]
  <2>1. key[t] <= key[u] /\ key[t] \in Nat /\ key[u] \in Nat
    BY <1>1, <1>3
  <2>2. key[u] = k => pos[t] <= pos[u]
    BY <1>2, <1>3
  <2> QED
    BY <2>1, <2>2, <1>3
<1> QED
  BY <1>4
(* pick_next finds a task whenever one is READY. *)
LEMMA NextExists ==
    ASSUME TypeOK, count > 0, NEW st, ReadyIn(st) # {}
    PROVE  PickNext(st) # {}
<1> DEFINE R == ReadyIn(st)
           key == [t \in R |-> prio[t]]
           pos == [t \in R |-> Rotation(t)]
<1>1. R \subseteq Tid /\ Tid \subseteq Nat
  BY TasksAssumption DEF ReadyIn, Tid
<1>2. key \in [R -> Nat]
  <2>1. \A t \in Tid : prio[t] \in Nat
    BY TasksAssumption DEF TypeOK
  <2> QED
    BY <2>1, <1>1
<1>3. pos \in [R -> Nat]
  <2>1. \A t \in Tid : Rotation(t) \in Nat
    BY TasksAssumption DEF TypeOK, Rotation, Tid, NoTask
  <2> QED
    BY <2>1, <1>1
<1>4. \E t \in R : \A u \in R :
        \/ key[t] < key[u]
        \/ key[t] = key[u] /\ pos[t] <= pos[u]
  <2> HIDE DEF key, pos, R
  <2> QED
    BY <1>2, <1>3, ScanFinds DEF R
<1>5. QED
  BY <1>4, <1>1 DEF PickNext

(* pick_higher_than finds a task whenever a READY one is more urgent. *)
LEMMA HigherExists ==
    ASSUME TypeOK, NEW st, NEW p \in Nat, NEW v \in ReadyIn(st), prio[v] < p
    PROVE  PickHigher(st, p) # {}
<1> DEFINE R == {t \in ReadyIn(st) : prio[t] < p}
           key == [t \in R |-> prio[t]]
           pos == [t \in R |-> t]
<1>1. R \subseteq Tid /\ Tid \subseteq Nat /\ R # {}
  <2>1. v \in R
    OBVIOUS
  <2>2. R \subseteq Tid
    BY DEF ReadyIn
  <2> QED
    BY <2>1, <2>2, TasksAssumption DEF Tid
<1>2. key \in [R -> Nat] /\ pos \in [R -> Nat]
  <2>1. \A t \in Tid : prio[t] \in Nat
    BY TasksAssumption DEF TypeOK
  <2> QED
    BY <2>1, <1>1
<1>3. PICK t \in R : \A u \in R :
        \/ key[t] < key[u]
        \/ key[t] = key[u] /\ pos[t] <= pos[u]
  <2>1. R # {} /\ key \in [R -> Nat] /\ pos \in [R -> Nat]
    BY <1>1, <1>2
  <2> HIDE DEF key, pos, R
  <2> QED
    BY <2>1, ScanFinds
<1>4. ASSUME NEW u \in ReadyIn(st)
      PROVE  \/ prio[t] < prio[u]
             \/ prio[t] = prio[u] /\ t <= u
  <2>1. CASE u \in R
    BY <1>3, <2>1
  <2>2. CASE u \notin R
    <3>1. prio[t] < p /\ ~ (prio[u] < p)
      BY <2>2, <1>3
    <3>2. prio[t] \in Nat /\ prio[u] \in Nat
      BY <1>1, <1>3, TasksAssumption DEF TypeOK, ReadyIn
    <3> QED
      BY <3>1, <3>2
  <2> QED
    BY <2>1, <2>2
<1> QED
  BY <1>3, <1>4 DEF PickHigher

(* Whoever a scan returns is a READY task. *)
LEMMA PickedIsReady ==
    ASSUME NEW st, NEW p
    PROVE  /\ PickNext(st) \subseteq ReadyIn(st)
           /\ PickHigher(st, p) \subseteq ReadyIn(st)
           /\ ReadyIn(st) \subseteq Tid
BY DEF PickNext, PickHigher, ReadyIn

-----------------------------------------------------------------------------
(* The inductive invariant *)

IInv == TypeOK /\ RunningIsCurrent /\ FreshFrames /\ Placed

LEMMA InitIInv == Init => IInv
<1> SUFFICES ASSUME Init PROVE IInv
  OBVIOUS
<1> USE TasksAssumption DEF Init, Tid, NoTask
<1>1. TypeOK
  BY DEF TypeOK, States, PCs, CallNames
<1>2. RunningIsCurrent /\ FreshFrames
  BY DEF RunningIsCurrent, FreshFrames
<1>3. Placed
  BY DEF Placed
<1> QED
  BY <1>1, <1>2, <1>3 DEF IInv

(* Boot *)
LEMMA CreateStep ==
    ASSUME IInv, NEW t \in Tid, Create(t)
    PROVE  IInv'
<1> USE TasksAssumption DEF IInv, Create
<1>1. TypeOK'
  <2>1. Clamp(Prio[t]) \in 0 .. MaxPrio
    BY DEF Clamp
  <2>2. count' \in 0 .. NumTasks
    BY DEF TypeOK, Tid
  <2> QED
    BY <2>1, <2>2 DEF TypeOK, States
<1>2. RunningIsCurrent' /\ FreshFrames'
  BY DEF RunningIsCurrent, FreshFrames, TypeOK
<1>3. Placed'
  <2>1. \A u \in Tid : state'[u] = IF u = t THEN "READY" ELSE state[u]
    BY DEF TypeOK
  <2>2. (\A u \in Tid : state[u] = "FREE" <=> u >= count)'
    <3>1. \A u \in Tid : u \in Int
      BY DEF Tid
    <3> QED
      BY <2>1, <3>1 DEF Placed, TypeOK
  <2>3. UNCHANGED <<pc, call, current>>
    OBVIOUS
  <2> QED
    BY <2>1, <2>2, <2>3 DEF Placed
<1> QED
  BY <1>1, <1>2, <1>3

LEMMA StartStep ==
    ASSUME IInv, Start
    PROVE  IInv'
<1> USE TasksAssumption DEF IInv
<1>1. PICK first \in Tid :
        /\ state[first] = "READY"
        /\ current' = first
        /\ state' = [state EXCEPT ![first] = "RUNNING"]
        /\ frame' = [frame EXCEPT ![first] = FALSE]
  BY DEF Start, PickNext, ReadyIn
<1>2. UNCHANGED <<count, prio, remaining, wake, due, phased, maxJitter, pc, call, struck>>
      /\ count = NumTasks /\ current = NoTask
  BY DEF Start
<1>3. TypeOK'
  BY <1>1, <1>2 DEF TypeOK, States
<1>4. RunningIsCurrent' /\ FreshFrames'
  <2>1. \A u \in Tid : state'[u] = IF u = first THEN "RUNNING" ELSE state[u]
    BY <1>1 DEF TypeOK
  <2>2. \A u \in Tid : u # first => frame'[u] = frame[u]
    BY <1>1 DEF TypeOK
  <2>3. \A u \in Tid : u # NoTask
    BY DEF Tid, NoTask
  <2>4. pc[first] = "run"
    BY <1>2 DEF Placed
  <2>5. RunningIsCurrent'
    BY <1>1, <1>2, <2>1, <2>3, <2>4 DEF RunningIsCurrent
  <2>6. FreshFrames'
    BY <1>1, <1>2, <2>1, <2>2, <2>3 DEF FreshFrames
  <2> QED
    BY <2>5, <2>6
<1>5. Placed'
  BY <1>1, <1>2 DEF Placed, TypeOK, Tid
<1> QED
  BY <1>3, <1>4, <1>5

(* Calls up to sched_do_yield change the task's own entries only. *)
LEMMA CallStep ==
    ASSUME IInv, NEW t \in Tid,
           Sleep(t) \/ WaitNoPeriod(t) \/ WaitPeriod(t) \/ MarkSleeping(t) \/ MarkDead(t)
    PROVE  IInv'
<1> USE TasksAssumption DEF IInv, Executes, Goes
<1>0. t # NoTask
  BY DEF Tid, NoTask
<1>1. CASE Sleep(t) \/ WaitNoPeriod(t)
  <2> USE DEF Sleep, WaitNoPeriod
  <2>1. TypeOK'
    BY <1>1 DEF TypeOK, PCs, CallNames
  <2>2. RunningIsCurrent' /\ FreshFrames'
    BY <1>1, <1>0 DEF RunningIsCurrent, FreshFrames, TypeOK
  <2>3. Placed'
    <3>1. /\ \A u \in Tid : pc'[u] = IF u = t THEN "armed" ELSE pc[u]
          /\ \A u \in Tid : call'[u] = IF u = t THEN call'[t] ELSE call[u]
          /\ call'[t] = "sleep" /\ UNCHANGED state
      BY <1>1 DEF TypeOK
    <3>2. Calls[t] # {} /\ current = t /\ UNCHANGED <<count, current>> /\ state[t] = "RUNNING"
      BY <1>1, <1>0 DEF Placed, RunningIsCurrent
    <3> HIDE DEF Sleep, WaitNoPeriod, WaitPeriod, MarkSleeping, MarkDead, Executes, Goes
    <3> QED
      BY <1>0, <3>1, <3>2 DEF Placed
  <2> QED
    BY <2>1, <2>2, <2>3
<1>2. CASE WaitPeriod(t)
  <2> USE DEF WaitPeriod
  <2>1. TypeOK'
    <3>1. NextRelease(t) \in Nat /\ -Period[t] <= NextRelease(t)
      BY <1>2 DEF TypeOK, NextRelease
    <3> QED
      BY <1>2, <3>1 DEF TypeOK, PCs, CallNames
  <2>2. RunningIsCurrent' /\ FreshFrames'
    BY <1>2, <1>0 DEF RunningIsCurrent, FreshFrames, TypeOK
  <2>3. Placed'
    <3>1. /\ \A u \in Tid : pc'[u] = IF u = t THEN "armed" ELSE pc[u]
          /\ \A u \in Tid : call'[u] = IF u = t THEN call'[t] ELSE call[u]
          /\ call'[t] = "period" /\ UNCHANGED state
      BY <1>2 DEF TypeOK
    <3>2. Calls[t] # {} /\ current = t /\ UNCHANGED <<count, current>> /\ state[t] = "RUNNING"
      BY <1>2, <1>0 DEF Placed, RunningIsCurrent
    <3> HIDE DEF Sleep, WaitNoPeriod, WaitPeriod, MarkSleeping, MarkDead, Executes, Goes
    <3> QED
      BY <1>0, <3>1, <3>2 DEF Placed
  <2> QED
    BY <2>1, <2>2, <2>3
<1>3. CASE MarkSleeping(t)
  <2> USE DEF MarkSleeping
  <2>1. TypeOK'
    BY <1>3 DEF TypeOK, PCs, States
  <2>2. RunningIsCurrent' /\ FreshFrames'
    BY <1>3, <1>0 DEF RunningIsCurrent, FreshFrames, TypeOK
  <2>3. Placed'
    <3>1. /\ \A u \in Tid : pc'[u] = IF u = t THEN "marked" ELSE pc[u]
          /\ \A u \in Tid : call'[u] = IF u = t THEN call'[t] ELSE call[u]
          /\ call'[t] = call[t] /\ pc[t] = "armed" /\ \A u \in Tid : state'[u] = IF u = t THEN "SLEEPING" ELSE state[u]
      BY <1>3 DEF TypeOK
    <3>2. Calls[t] # {} /\ current = t /\ UNCHANGED <<count, current>> /\ state[t] = "RUNNING"
      BY <1>3, <1>0 DEF Placed, RunningIsCurrent
    <3> HIDE DEF Sleep, WaitNoPeriod, WaitPeriod, MarkSleeping, MarkDead, Executes, Goes
    <3> QED
      BY <1>0, <3>1, <3>2 DEF Placed
  <2> QED
    BY <2>1, <2>2, <2>3
<1>4. CASE MarkDead(t)
  <2> USE DEF MarkDead
  <2>1. TypeOK'
    BY <1>4 DEF TypeOK, PCs, States, CallNames
  <2>2. RunningIsCurrent' /\ FreshFrames'
    BY <1>4, <1>0 DEF RunningIsCurrent, FreshFrames, TypeOK
  <2>3. Placed'
    <3>1. /\ \A u \in Tid : pc'[u] = IF u = t THEN "marked" ELSE pc[u]
          /\ \A u \in Tid : call'[u] = IF u = t THEN call'[t] ELSE call[u]
          /\ \A u \in Tid : state'[u] = IF u = t THEN "DEAD" ELSE state[u]
      BY <1>4 DEF TypeOK
    <3>2. Calls[t] # {} /\ current = t /\ UNCHANGED <<count, current>> /\ state[t] = "RUNNING"
      BY <1>4, <1>0 DEF Placed, RunningIsCurrent
    <3> HIDE DEF Sleep, WaitNoPeriod, WaitPeriod, MarkSleeping, MarkDead, Executes, Goes
    <3> QED
      BY <1>0, <3>1, <3>2 DEF Placed
  <2> QED
    BY <2>1, <2>2, <2>3
<1> QED
  BY <1>1, <1>2, <1>3, <1>4

(* The return from sched_do_yield and the calls on other tasks *)
LEMMA ResumeStep ==
    ASSUME IInv, NEW t \in Tid, Resume(t)
    PROVE  IInv'
<1> USE TasksAssumption DEF IInv
<1> DEFINE jitter == IF call[t] = "period" /\ due[t] < 0 THEN -due[t] ELSE 0
<1>0. t # NoTask
  BY DEF Tid, NoTask
<1>1. current = t /\ pc[t] = "resumed" /\ state[t] = "RUNNING"
  BY <1>0 DEF Resume, Executes, RunningIsCurrent
<1>2. jitter \in Nat /\ jitter <= Period[t]
  BY DEF TypeOK
<1>3. TypeOK'
  <2>1. maxJitter' = [maxJitter EXCEPT ![t] = IF jitter > @ THEN jitter ELSE @]
    BY DEF Resume
  <2>2. due' = [due EXCEPT ![t] = IF jitter > 0 /\ jitter >= Period[t] THEN Period[t] ELSE @]
    BY DEF Resume
  <2>3. maxJitter' \in [Tid -> Nat] /\ \A u \in Tid : maxJitter'[u] <= Period[u]
    <3> HIDE DEF jitter
    <3> QED
      BY <1>2, <2>1 DEF TypeOK
  <2>4. due' \in [Tid -> Int] /\ \A u \in Tid : -Period[u] <= due'[u] /\ due'[u] <= Horizon
    <3> HIDE DEF jitter
    <3> QED
      BY <1>2, <2>2 DEF TypeOK
  <2>5. state' \in [Tid -> States] /\ pc' \in [Tid -> PCs] /\ call' \in [Tid -> CallNames]
        /\ struck' \in [Tid -> BOOLEAN]
    BY DEF Resume, Goes, TypeOK, States, PCs, BodyIsEmpty
  <2> QED
    BY <2>3, <2>4, <2>5 DEF TypeOK, Resume
<1>4. /\ \A u \in Tid : state'[u] = state[u]
      /\ \A u \in Tid : call'[u] = call[u]
      /\ \A u \in Tid : pc'[u] = IF u = t THEN "run" ELSE pc[u]
      /\ UNCHANGED <<count, current, frame>>
  BY <1>1 DEF Resume, Goes, TypeOK
<1>5. RunningIsCurrent' /\ FreshFrames'
  BY <1>0, <1>1, <1>4 DEF RunningIsCurrent, FreshFrames
<1>6. Placed'
  BY <1>0, <1>1, <1>4 DEF Placed
<1> QED
  BY <1>3, <1>5, <1>6

LEMMA WakeTaskStep ==
    ASSUME IInv, NEW t \in Tid, NEW u \in Tid, WakeTask(t, u)
    PROVE  IInv'
<1> USE TasksAssumption DEF IInv
<1>0. t # NoTask
  BY DEF Tid, NoTask
<1>1. current = t /\ pc[t] = "run" /\ state[t] = "RUNNING" /\ u # t
  BY <1>0 DEF WakeTask, Executes, RunningIsCurrent
<1>2. /\ state[u] = "SLEEPING"
      /\ \A v \in Tid : state'[v] = IF v = u THEN "READY" ELSE state[v]
      /\ state' \in [Tid -> States]
      /\ UNCHANGED <<count, current, prio, remaining, wake, due, phased, maxJitter, frame, pc, call, struck>>
  BY DEF WakeTask, TypeOK, States
<1>3. TypeOK'
  BY <1>2 DEF TypeOK
<1>4. RunningIsCurrent' /\ FreshFrames'
  BY <1>0, <1>1, <1>2 DEF RunningIsCurrent, FreshFrames
<1>5. Placed'
  BY <1>0, <1>1, <1>2 DEF Placed
<1> QED
  BY <1>3, <1>4, <1>5

LEMMA SetPriorityStep ==
    ASSUME IInv, NEW t \in Tid, NEW u \in Tid, SetPriority(t, u)
    PROVE  IInv'
<1> USE TasksAssumption DEF IInv
<1>1. PICK p \in NewPrios : prio' = [prio EXCEPT ![u] = Clamp(p)]
  BY DEF SetPriority
<1>2. Clamp(p) \in 0 .. MaxPrio
  BY DEF Clamp
<1>3. UNCHANGED <<count, current, state, remaining, wake, due, phased, maxJitter, frame, pc, call, struck>>
  BY DEF SetPriority
<1>4. TypeOK'
  BY <1>1, <1>2, <1>3 DEF TypeOK
<1> QED
  BY <1>3, <1>4 DEF RunningIsCurrent, FreshFrames, Placed

-----------------------------------------------------------------------------
(* sched_do_yield *)

(* What sched_do_yield is entered with and what it does to the task states *)
LEMMA YieldStates ==
    ASSUME IInv, NEW t \in Tid, Yield(t) \/ GiveUp(t)
    PROVE  /\ t # NoTask /\ current = t /\ count = NumTasks
           /\ \A u \in Tid : state[u] = "RUNNING" => u = t
           /\ state[t] = "SLEEPING" => call'[t] \in {"sleep", "period"}
           /\ Calls[t] # {}
           /\ call' = [call EXCEPT ![t] = call'[t]] /\ call'[t] \in CallNames
           /\ pc' = [pc EXCEPT ![t] = Continuation(call'[t])]
           /\ UNCHANGED <<count, prio, wake, due, phased, maxJitter>>
           /\ struck' = [struck EXCEPT ![t] = FALSE]
           /\ remaining' \in [Tid -> 0 .. Quantum]
           /\ \E left \in [Tid -> States] :
                /\ \A u \in Tid : u # t => left[u] = state[u]
                /\ left[t] = IF state[t] = "RUNNING" THEN "READY" ELSE state[t]
                /\ \/ /\ PickNext(left) \subseteq {t}
                      /\ state' = [state EXCEPT ![t] = "RUNNING"]
                      /\ UNCHANGED <<current, frame>>
                   \/ \E next \in PickNext(left) \ {t} : SwitchTo(next, left)
<1> USE TasksAssumption DEF IInv
<1>0. t # NoTask /\ current = t
  BY DEF Tid, NoTask, Yield, GiveUp, Executes
<1>1. PICK what \in CallNames :
        /\ DoYield(t, what)
        /\ \/ pc[t] = "run" /\ Calls[t] # {}
           \/ pc[t] = "marked" /\ what = call[t]
  <2>1. CASE Yield(t)
    <3>1. DoYield(t, "yield") /\ pc[t] = "run" /\ Calls[t] # {}
      BY <2>1 DEF Yield, Executes
    <3> QED
      BY <3>1 DEF CallNames
  <2>2. CASE GiveUp(t)
    <3>1. DoYield(t, call[t]) /\ pc[t] = "marked" /\ call[t] \in CallNames
      BY <2>2 DEF GiveUp, Executes, TypeOK
    <3> QED
      BY <3>1
  <2> QED
    BY <2>1, <2>2
<1>2. Calls[t] # {}
  BY <1>1 DEF Placed
<1>3. state[t] = "SLEEPING" => what \in {"sleep", "period"}
  BY <1>1 DEF Placed
<1>4. /\ call' = [call EXCEPT ![t] = what]
      /\ pc' = [pc EXCEPT ![t] = Continuation(what)]
      /\ struck' = [struck EXCEPT ![t] = FALSE]
      /\ UNCHANGED <<count, prio, wake, due, phased, maxJitter>>
  BY <1>1 DEF DoYield, Goes
<1>5. call'[t] = what
  BY <1>4 DEF TypeOK
<1>6. remaining' \in [Tid -> 0 .. Quantum]
  BY <1>1 DEF DoYield, TypeOK
<1> DEFINE left == [state EXCEPT ![t] = IF state[t] = "RUNNING" THEN "READY" ELSE @]
<1>7. /\ left \in [Tid -> States]
      /\ \A u \in Tid : u # t => left[u] = state[u]
      /\ left[t] = IF state[t] = "RUNNING" THEN "READY" ELSE state[t]
  BY DEF TypeOK, States
<1>8. \/ /\ PickNext(left) \subseteq {t}
         /\ state' = [state EXCEPT ![t] = "RUNNING"]
         /\ UNCHANGED <<current, frame>>
      \/ \E next \in PickNext(left) \ {t} : SwitchTo(next, left)
  BY <1>1 DEF DoYield
<1>9. \A u \in Tid : state[u] = "RUNNING" => u = t
  BY <1>0 DEF RunningIsCurrent
<1>10. count = NumTasks
  BY <1>0 DEF Placed
<1> HIDE DEF left
<1> QED
  BY <1>0, <1>1, <1>2, <1>3, <1>4, <1>5, <1>6, <1>7, <1>8, <1>9, <1>10

LEMMA YieldStep ==
    ASSUME IInv, NEW t \in Tid, Yield(t) \/ GiveUp(t)
    PROVE  IInv'
<1> USE TasksAssumption
<1>0. /\ t # NoTask /\ current = t /\ count = NumTasks
      /\ \A u \in Tid : state[u] = "RUNNING" => u = t
      /\ state[t] = "SLEEPING" => call'[t] \in {"sleep", "period"}
      /\ Calls[t] # {}
      /\ call' = [call EXCEPT ![t] = call'[t]] /\ call'[t] \in CallNames
      /\ pc' = [pc EXCEPT ![t] = Continuation(call'[t])]
      /\ UNCHANGED <<count, prio, wake, due, phased, maxJitter>>
      /\ struck' = [struck EXCEPT ![t] = FALSE]
      /\ remaining' \in [Tid -> 0 .. Quantum]
  BY YieldStates
<1>1. PICK left \in [Tid -> States] :
        /\ \A u \in Tid : u # t => left[u] = state[u]
        /\ left[t] = IF state[t] = "RUNNING" THEN "READY" ELSE state[t]
        /\ \/ /\ PickNext(left) \subseteq {t}
              /\ state' = [state EXCEPT ![t] = "RUNNING"]
              /\ UNCHANGED <<current, frame>>
           \/ \E next \in PickNext(left) \ {t} : SwitchTo(next, left)
  BY YieldStates
<1>2. PICK next \in Tid :
        /\ current' = next
        /\ state'[next] = "RUNNING"
        /\ \A u \in Tid : u # next => state'[u] = left[u]
        /\ state' \in [Tid -> States] /\ frame' \in [Tid -> BOOLEAN]
        /\ \A u \in Tid : u # next => frame'[u] = IF u = t THEN TRUE ELSE frame[u]
        /\ next # t => left[next] = "READY"
  <2>1. CASE \E n \in PickNext(left) \ {t} : SwitchTo(n, left)
    <3>1. PICK n \in Tid \ {t} : SwitchTo(n, left) /\ left[n] = "READY"
      BY <2>1 DEF PickNext, ReadyIn
    <3>2. /\ state' = [left EXCEPT ![n] = "RUNNING"]
          /\ frame' = [frame EXCEPT ![t] = TRUE, ![n] = FALSE]
          /\ current' = n
      BY <3>1, <1>0 DEF SwitchTo
    <3>3. frame \in [Tid -> BOOLEAN] /\ "RUNNING" \in States
      BY DEF IInv, TypeOK, States
    <3>4. /\ frame' \in [Tid -> BOOLEAN]
          /\ \A u \in Tid : u # n => frame'[u] = IF u = t THEN TRUE ELSE frame[u]
      BY <3>1, <3>2, <3>3
    <3>5. /\ state' \in [Tid -> States] /\ state'[n] = "RUNNING"
          /\ \A u \in Tid : u # n => state'[u] = left[u]
      BY <3>1, <3>2, <3>3, <1>1
    <3> QED
      BY <3>1, <3>2, <3>4, <3>5
  <2>2. CASE /\ state' = [state EXCEPT ![t] = "RUNNING"]
             /\ UNCHANGED <<current, frame>>
    BY <2>2, <1>1, <1>0 DEF IInv, TypeOK, States
  <2> QED
    BY <1>1, <2>1, <2>2
<1>3. /\ \A u \in Tid : call'[u] = IF u = t THEN call'[t] ELSE call[u]
      /\ \A u \in Tid : pc'[u] = IF u = t THEN Continuation(call'[t]) ELSE pc[u]
      /\ pc' \in [Tid -> PCs] /\ call' \in [Tid -> CallNames] /\ struck' \in [Tid -> BOOLEAN]
  <2>1. call \in [Tid -> CallNames] /\ pc \in [Tid -> PCs] /\ struck \in [Tid -> BOOLEAN]
    BY DEF IInv, TypeOK
  <2>2. Continuation(call'[t]) \in PCs
    BY DEF Continuation, PCs
  <2> QED
    BY <1>0, <2>1, <2>2
<1>4. TypeOK'
  BY <1>2, <1>3, <1>0 DEF IInv, TypeOK
<1>5. RunningIsCurrent'
  <2>1. pc'[next] # "marked"
    BY <1>2, <1>3, <1>0 DEF IInv, Placed, Continuation
  <2>2. \A u \in Tid : u # next => state'[u] # "RUNNING"
    BY <1>1, <1>2, <1>0
  <2> QED
    BY <1>2, <2>1, <2>2 DEF RunningIsCurrent
<1>6. FreshFrames'
  BY <1>1, <1>2, <1>0 DEF IInv, FreshFrames
<1>7. Placed'
  <2>1. \A u \in Tid : state'[u] = "FREE" <=> u >= count'
    <3>1. \A u \in Tid : ~ (u >= NumTasks)
      BY DEF Tid
    <3>2. \A u \in Tid : state[u] # "FREE"
      BY <3>1, <1>0 DEF IInv, Placed
    <3> QED
      BY <3>1, <3>2, <1>0, <1>1, <1>2
  <2>2. \A u \in Tid : pc'[u] = "marked" => u = current'
    BY <1>2, <1>3, <1>0 DEF IInv, Placed, Continuation
  <2>3. \A u \in Tid : pc'[u] \in {"armed", "resumed"} => call'[u] \in {"sleep", "period"}
    BY <1>3, <1>0 DEF IInv, Placed, Continuation
  <2>4. \A u \in Tid : state'[u] = "SLEEPING" =>
          pc'[u] \in {"marked", "resumed"} /\ call'[u] \in {"sleep", "period"}
    BY <1>1, <1>2, <1>3, <1>0 DEF IInv, Placed, Continuation
  <2>5. \A u \in Tid : pc'[u] \in {"armed", "marked", "resumed", "halted"} => Calls[u] # {}
    BY <1>3, <1>0 DEF IInv, Placed, Continuation
  <2>6. \A u \in Tid : Calls[u] = {} => state'[u] \in {"FREE", "READY", "RUNNING"}
    BY <1>1, <1>2, <1>0 DEF IInv, Placed
  <2>7. current' # NoTask /\ count' = NumTasks
    BY <1>2, <1>0 DEF Tid, NoTask
  <2> QED
    BY <2>1, <2>2, <2>3, <2>4, <2>5, <2>6, <2>7 DEF Placed
<1> QED
  BY <1>4, <1>5, <1>6, <1>7 DEF IInv

-----------------------------------------------------------------------------
(* The timer interrupt *)

(* Waking the sleepers changes no state but SLEEPING to READY. *)
LEMMA WokenStates ==
    ASSUME IInv, Elapse
    PROVE  /\ Woken \in [Tid -> States]
           /\ \A u \in Tid : \/ Woken[u] = state[u]
                             \/ /\ state[u] = "SLEEPING" /\ Woken[u] = "READY"
                                /\ wake'[u] = 0
           /\ \A u \in Tid : Woken[u] = "RUNNING" <=> state[u] = "RUNNING"
           /\ wake' \in [Tid -> Nat] /\ due' \in [Tid -> Int]
           /\ \A u \in Tid : -Period[u] <= due'[u] /\ due'[u] <= Horizon
           /\ \A u \in Tid : wake[u] = 0 => wake'[u] = 0
<1> USE TasksAssumption DEF IInv, Elapse
<1>1. Woken \in [Tid -> States]
  BY DEF Woken, TypeOK, States
<1>2. \A u \in Tid : Woken[u] = IF state[u] = "SLEEPING" /\ wake'[u] = 0
                               THEN "READY" ELSE state[u]
  BY DEF Woken
<1>3. wake' \in [Tid -> Nat] /\ \A u \in Tid : wake[u] = 0 => wake'[u] = 0
  BY DEF TypeOK
<1>4. due' \in [Tid -> Int] /\ \A u \in Tid : -Period[u] <= due'[u] /\ due'[u] <= Horizon
  BY DEF TypeOK
<1> QED
  BY <1>1, <1>2, <1>3, <1>4

(* What a tick does to the task states: either nobody is switched, or the  *)
(* interrupted task is READY and another READY one takes the processor.    *)
LEMMA TickStates ==
    ASSUME IInv, Tick
    PROVE  /\ current \in Tid /\ current # NoTask /\ Elapse
           /\ UNCHANGED <<count, prio, phased, maxJitter, pc, call>>
           /\ struck' = [struck EXCEPT ![current] = InKernel(current)]
           /\ remaining' \in [Tid -> 0 .. Quantum]
           /\ \/ state' = Woken /\ UNCHANGED <<current, frame>>
              \/ \E next \in Tid \ {current} :
                    /\ state[current] = "RUNNING"
                    /\ Woken[next] = "READY"
                    /\ SwitchTo(next, [Woken EXCEPT ![current] = "READY"])
<1> USE TasksAssumption DEF IInv
<1>1. /\ current \in Tid /\ current # NoTask /\ Elapse
      /\ UNCHANGED <<count, prio, phased, maxJitter, pc, call>>
      /\ struck' = [struck EXCEPT ![current] = InKernel(current)]
  BY DEF Tick, TypeOK
<1>2. /\ Woken \in [Tid -> States]
      /\ Woken[current] = "RUNNING" <=> state[current] = "RUNNING"
  BY <1>1, WokenStates
<1> DEFINE W == Woken
           requeued == [W EXCEPT ![current] = "READY"]
<1>3. \A n \in Tid \ {current} : requeued[n] = "READY" => W[n] = "READY"
  BY <1>2
<1>4. remaining \in [Tid -> 0 .. Quantum] /\ Quantum \in Nat
  BY DEF TypeOK
<1>5. CASE TickIgnored
  BY <1>1, <1>4, <1>5 DEF TickIgnored
<1>6. CASE TickWithin /\ Woken[current] = "RUNNING"
  <2>1. remaining' \in [Tid -> 0 .. Quantum]
    <3>1. remaining' = [remaining EXCEPT ![current] = remaining[current] - 1]
          /\ remaining[current] - 1 > 0
      BY <1>6 DEF TickWithin, KeepRunning
    <3> QED
      BY <3>1, <1>1, <1>4
  <2>2. CASE state' = Woken /\ UNCHANGED <<current, frame>>
    BY <2>1, <2>2, <1>1
  <2>3. CASE \E n \in PickHigher(W, prio[current]) : SwitchTo(n, requeued)
    <3>1. PICK n \in PickHigher(W, prio[current]) : SwitchTo(n, requeued)
      BY <2>3
    <3>2. n \in Tid /\ W[n] = "READY"
      BY <3>1 DEF PickHigher, ReadyIn
    <3>3. n # current
      BY <3>2, <1>6
    <3> QED
      BY <2>1, <3>1, <3>2, <3>3, <1>1, <1>2, <1>6
  <2> QED
    BY <1>6, <2>2, <2>3 DEF TickWithin, KeepRunning
<1>7. CASE TickExpired /\ Woken[current] = "RUNNING"
  <2>1. remaining' \in [Tid -> 0 .. Quantum]
    <3>1. remaining' = [remaining EXCEPT ![current] = Quantum]
      BY <1>7 DEF TickExpired, KeepRunning
    <3> QED
      BY <3>1, <1>1, <1>4
  <2>2. CASE state' = Woken /\ UNCHANGED <<current, frame>>
    BY <2>1, <2>2, <1>1
  <2>3. CASE \E n \in PickNext(requeued) \ {current} : SwitchTo(n, requeued)
    <3>1. PICK n \in PickNext(requeued) \ {current} : SwitchTo(n, requeued)
      BY <2>3
    <3>2. n \in Tid \ {current} /\ requeued[n] = "READY"
      BY <3>1 DEF PickNext, ReadyIn
    <3> QED
      BY <2>1, <3>1, <3>2, <1>1, <1>2, <1>3, <1>7
  <2> QED
    BY <1>7, <2>2, <2>3 DEF TickExpired, KeepRunning
<1> QED
  BY <1>5, <1>6, <1>7 DEF Tick

LEMMA TickStep ==
    ASSUME IInv, Tick
    PROVE  IInv'
<1> USE TasksAssumption
<1>0. /\ current \in Tid /\ current # NoTask /\ Elapse
      /\ UNCHANGED <<count, prio, phased, maxJitter, pc, call>>
      /\ struck' = [struck EXCEPT ![current] = InKernel(current)]
      /\ remaining' \in [Tid -> 0 .. Quantum]
      /\ struck' \in [Tid -> BOOLEAN]
  <2>1. InKernel(current) \in BOOLEAN /\ struck \in [Tid -> BOOLEAN]
    BY DEF InKernel, IInv, TypeOK
  <2>2. /\ current \in Tid /\ current # NoTask /\ Elapse
        /\ UNCHANGED <<count, prio, phased, maxJitter, pc, call>>
        /\ struck' = [struck EXCEPT ![current] = InKernel(current)]
        /\ remaining' \in [Tid -> 0 .. Quantum]
    BY TickStates
  <2> QED
    BY <2>1, <2>2
<1>1. /\ Woken \in [Tid -> States]
      /\ \A u \in Tid : \/ Woken[u] = state[u]
                        \/ state[u] = "SLEEPING" /\ Woken[u] = "READY"
      /\ wake' \in [Tid -> Nat] /\ due' \in [Tid -> Int]
      /\ \A u \in Tid : -Period[u] <= due'[u] /\ due'[u] <= Horizon
  <2>1. /\ Woken \in [Tid -> States]
        /\ \A u \in Tid : \/ Woken[u] = state[u]
                          \/ /\ state[u] = "SLEEPING" /\ Woken[u] = "READY"
                             /\ wake'[u] = 0
        /\ wake' \in [Tid -> Nat] /\ due' \in [Tid -> Int]
        /\ \A u \in Tid : -Period[u] <= due'[u] /\ due'[u] <= Horizon
    BY <1>0, WokenStates
  <2>2. \A u \in Tid : \/ Woken[u] = state[u]
                       \/ state[u] = "SLEEPING" /\ Woken[u] = "READY"
    BY <2>1, Zenon
  <2> QED
    BY <2>1, <2>2, Zenon
<1> DEFINE W == Woken
<1>2. CASE state' = Woken /\ UNCHANGED <<current, frame>>
  <2>2. TypeOK'
    BY <1>0, <1>1, <1>2 DEF IInv, TypeOK
  <2>3. RunningIsCurrent' /\ FreshFrames'
    BY <1>0, <1>1, <1>2 DEF IInv, RunningIsCurrent, FreshFrames
  <2>4. Placed'
    BY <1>0, <1>1, <1>2 DEF IInv, Placed
  <2> QED
    BY <2>2, <2>3, <2>4 DEF IInv
<1>3. CASE \E next \in Tid \ {current} :
              /\ state[current] = "RUNNING"
              /\ Woken[next] = "READY"
              /\ SwitchTo(next, [Woken EXCEPT ![current] = "READY"])
  <2>1. PICK n \in Tid \ {current} :
              /\ state[current] = "RUNNING"
              /\ W[n] = "READY"
              /\ SwitchTo(n, [W EXCEPT ![current] = "READY"])
    BY <1>3
  <2>2. /\ state' = [[W EXCEPT ![current] = "READY"] EXCEPT ![n] = "RUNNING"]
        /\ frame' = [frame EXCEPT ![current] = TRUE, ![n] = FALSE]
        /\ current' = n
    BY <2>1 DEF SwitchTo
  <2>3. frame \in [Tid -> BOOLEAN] /\ "RUNNING" \in States /\ "READY" \in States
    BY DEF IInv, TypeOK, States
  <2>4. W \in [Tid -> States]
    BY <1>1
  <2>5. \A u \in Tid : \/ W[u] = state[u]
                       \/ state[u] = "SLEEPING" /\ W[u] = "READY"
    BY <1>1
  <2> HIDE DEF W
  <2>6. /\ frame' \in [Tid -> BOOLEAN]
        /\ \A u \in Tid : u # n => frame'[u] = IF u = current THEN TRUE ELSE frame[u]
    BY <2>1, <2>2, <2>3, <1>0
  <2>7. /\ state' \in [Tid -> States] /\ state'[n] = "RUNNING" /\ state'[current] = "READY"
        /\ \A u \in Tid : u # n /\ u # current => state'[u] = W[u]
    BY <2>1, <2>2, <2>3, <2>4, <1>0
  <2>8. TypeOK'
    BY <1>0, <1>1, <2>2, <2>6, <2>7 DEF IInv, TypeOK
  <2>9. pc[n] # "marked" /\ n # NoTask
    <3>1. \A u \in Tid : u # NoTask
      BY DEF Tid, NoTask
    <3> QED
      BY <2>1, <3>1 DEF IInv, Placed
  <2>10. RunningIsCurrent'
    BY <1>0, <2>1, <2>2, <2>5, <2>7, <2>9 DEF IInv, RunningIsCurrent
  <2>11. FreshFrames'
    BY <1>0, <2>1, <2>2, <2>5, <2>6, <2>7 DEF IInv, FreshFrames
  <2>12. Placed'
    <3>1. pc[current] # "marked"
      BY <1>0, <2>1 DEF IInv, RunningIsCurrent
    <3>2. state[n] # "FREE" /\ state[current] # "FREE"
      BY <2>1, <2>5
    <3>3. \A u \in Tid : state'[u] = "FREE" <=> state[u] = "FREE"
      BY <1>0, <2>1, <2>5, <2>7, <3>2
    <3>4. \A u \in Tid : state'[u] = "SLEEPING" => state[u] = "SLEEPING"
      BY <1>0, <2>1, <2>5, <2>7
    <3>5. \A u \in Tid : Calls[u] = {} => state'[u] \in {"FREE", "READY", "RUNNING"}
      BY <1>0, <2>1, <2>5, <2>7 DEF IInv, Placed
    <3>6. \A u \in Tid : pc[u] # "marked"
      BY <3>1 DEF IInv, Placed
    <3> QED
      BY <1>0, <2>1, <2>2, <2>9, <3>3, <3>4, <3>5, <3>6 DEF IInv, Placed
  <2> QED
    BY <2>8, <2>10, <2>11, <2>12 DEF IInv
<1> QED
  BY <1>2, <1>3, TickStates

-----------------------------------------------------------------------------
(* The invariant, and what follows from it *)

LEMMA Inductive == IInv /\ [Next]_vars => IInv'
<1> SUFFICES ASSUME IInv, [Next]_vars PROVE IInv'
  OBVIOUS
<1>1. CASE Boot
  BY <1>1, StartStep, CreateStep DEF Boot
<1>2. CASE Tick
  BY <1>2, TickStep
<1>3. ASSUME NEW t \in Tid, KernelStep(t) PROVE IInv'
  BY <1>3, CallStep, YieldStep, ResumeStep DEF KernelStep
<1>4. ASSUME NEW t \in Tid, BodyStep(t) PROVE IInv'
  <2>1. CASE Sleep(t) \/ WaitNoPeriod(t) \/ WaitPeriod(t) \/ MarkDead(t)
    BY <2>1, CallStep
  <2>2. CASE Yield(t)
    BY <2>2, YieldStep
  <2>3. ASSUME NEW u \in Tid, WakeTask(t, u) \/ SetPriority(t, u) PROVE IInv'
    BY <2>3, WakeTaskStep, SetPriorityStep
  <2> QED
    BY <1>4, <2>1, <2>2, <2>3 DEF BodyStep
<1>5. CASE UNCHANGED vars
  BY <1>5 DEF IInv, TypeOK, RunningIsCurrent, FreshFrames, Placed, vars, tcb
<1> QED
  BY <1>1, <1>2, <1>3, <1>4, <1>5 DEF Next

LEMMA Invariant == Spec => []IInv
<1>1. Init => IInv
  BY InitIInv
<1>2. IInv /\ [Next]_vars => IInv'
  BY Inductive
<1> QED
  BY <1>1, <1>2, PTL DEF Spec

(* Every task control block keeps its range: priorities are clamped,       *)
(* quanta and jitters stay within their bounds.                            *)
THEOREM TypeCorrect == Spec => []TypeOK
<1>1. IInv => TypeOK
  BY DEF IInv
<1> QED
  BY <1>1, Invariant, PTL

(* g_current, and no other task, is RUNNING.                               *)
THEOREM OneRunning == Spec => []RunningIsCurrent
<1>1. IInv => RunningIsCurrent
  BY DEF IInv
<1> QED
  BY <1>1, Invariant, PTL

(* Whoever is switched to has a frame saved after it last ran.             *)
THEOREM ValidFrames == Spec => []FreshFrames
<1>1. IInv => FreshFrames
  BY DEF IInv
<1> QED
  BY <1>1, Invariant, PTL

-----------------------------------------------------------------------------
(* No sleep returns early *)

(* NoEarlyReturn before the task reaches its sched_do_yield as well        *)
Rested ==
    (\A u \in Tid : "wake" \notin Calls[u]) =>
        \A t \in Tid : /\ pc[t] \in {"marked", "resumed"}
                       /\ state[t] \in {"READY", "RUNNING"}
                       => wake[t] = 0

(* Idle is READY whenever another task executes, so sched_yield_impl finds *)
(* somebody and never resumes a caller that is SLEEPING or DEAD.           *)
LEMMA FallbackIsReady ==
    ASSUME IInv, NEW t \in Tid, current = t, Calls[t] # {},
           NEW left, \A u \in Tid : u # t => left[u] = state[u],
           PickNext(left) \subseteq {t}
    PROVE  left[t] = "READY"
<1> USE TasksAssumption DEF IInv
<1>1. PICK i \in Tid : Calls[i] = {}
  BY IdleAssumption
<1>2. i # t /\ t # NoTask
  BY <1>1 DEF Tid, NoTask
<1>3. count = NumTasks /\ count > 0 /\ ~ (i >= count)
  BY <1>2 DEF Placed, Tid
<1>4. state[i] = "READY"
  BY <1>1, <1>2, <1>3 DEF Placed, RunningIsCurrent
<1>5. i \in ReadyIn(left)
  BY <1>2, <1>4 DEF ReadyIn
<1>6. PickNext(left) # {}
  BY <1>3, <1>5, NextExists
<1> QED
  BY <1>6 DEF PickNext, ReadyIn

LEMMA RestedStep == IInv /\ Rested /\ [Next]_vars => Rested'
<1> SUFFICES ASSUME IInv, Rested, [Next]_vars,
                    \A u \in Tid : "wake" \notin Calls[u],
                    NEW t \in Tid,
                    pc'[t] \in {"marked", "resumed"},
                    state'[t] \in {"READY", "RUNNING"}
             PROVE  wake'[t] = 0
  BY DEF Rested
<1> USE TasksAssumption
<1>0. pc[t] \in {"marked", "resumed"} /\ state[t] \in {"READY", "RUNNING"} => wake[t] = 0
  BY DEF Rested
<1>1. CASE Boot
  <2>1. UNCHANGED <<pc, wake>> /\ current = NoTask
    BY <1>1 DEF Boot, Start, Create
  <2> QED
    BY <2>1 DEF IInv, Placed
<1>2. CASE Tick
  <2>1. /\ current \in Tid /\ Elapse /\ UNCHANGED pc
        /\ \/ state' = Woken
           \/ \E n \in Tid \ {current} :
                 /\ state[current] = "RUNNING"
                 /\ Woken[n] = "READY"
                 /\ SwitchTo(n, [Woken EXCEPT ![current] = "READY"])
    BY <1>2, TickStates
  <2>2. /\ Woken \in [Tid -> States]
        /\ \/ Woken[t] = state[t]
           \/ state[t] = "SLEEPING" /\ Woken[t] = "READY" /\ wake'[t] = 0
        /\ wake[t] = 0 => wake'[t] = 0
    BY <2>1, WokenStates
  <2>3. CASE state' = Woken
    BY <2>1, <2>2, <2>3, <1>0
  <2>4. CASE \E n \in Tid \ {current} :
                 /\ state[current] = "RUNNING"
                 /\ Woken[n] = "READY"
                 /\ SwitchTo(n, [Woken EXCEPT ![current] = "READY"])
    <3> DEFINE W == Woken
    <3>1. PICK n \in Tid \ {current} :
                 /\ state[current] = "RUNNING"
                 /\ W[n] = "READY"
                 /\ state' = [[W EXCEPT ![current] = "READY"] EXCEPT ![n] = "RUNNING"]
      BY <2>4 DEF SwitchTo
    <3>2. W \in [Tid -> States]
      BY <2>2
    <3>3. \/ W[t] = state[t]
          \/ state[t] = "SLEEPING" /\ W[t] = "READY" /\ wake'[t] = 0
      BY <2>2
    <3> HIDE DEF W
    <3>4. t = current \/ W[t] \in {"READY", "RUNNING"}
      BY <3>1, <3>2, <2>1
    <3> QED
      BY <3>1, <3>3, <3>4, <2>1, <2>2, <1>0
  <2> QED
    BY <2>1, <2>3, <2>4
<1>3. ASSUME NEW v \in Tid, Yield(v) \/ GiveUp(v) PROVE wake'[t] = 0
  <2>1. /\ v # NoTask /\ current = v /\ Calls[v] # {}
        /\ \A u \in Tid : state[u] = "RUNNING" => u = v
        /\ pc' = [pc EXCEPT ![v] = Continuation(call'[v])]
        /\ UNCHANGED wake
    BY <1>3, YieldStates
  <2>2. PICK left \in [Tid -> States] :
           /\ \A u \in Tid : u # v => left[u] = state[u]
           /\ left[v] = IF state[v] = "RUNNING" THEN "READY" ELSE state[v]
           /\ \/ /\ PickNext(left) \subseteq {v}
                 /\ state' = [state EXCEPT ![v] = "RUNNING"]
              \/ \E next \in PickNext(left) \ {v} : state' = [left EXCEPT ![next] = "RUNNING"]
    BY <1>3, YieldStates, ZenonT(60) DEF SwitchTo
  <2>3. left[t] \in {"READY", "RUNNING"}
    <3>1. CASE PickNext(left) \subseteq {v} /\ state' = [state EXCEPT ![v] = "RUNNING"]
      <4>1. left[v] = "READY"
        BY <3>1, <2>1, <2>2, FallbackIsReady
      <4> QED
        BY <4>1, <3>1, <2>2 DEF IInv, TypeOK
    <3>2. CASE \E next \in PickNext(left) \ {v} : state' = [left EXCEPT ![next] = "RUNNING"]
      BY <3>2, <2>2 DEF PickNext, ReadyIn
    <3> QED
      BY <3>1, <3>2, <2>2
  <2>4. state[t] \in {"READY", "RUNNING"}
    BY <2>2, <2>3
  <2>5. CASE t # v
    BY <2>1, <2>4, <2>5, <1>0 DEF IInv, TypeOK
  <2>6. CASE t = v
    <3>1. Continuation(call'[v]) \in {"marked", "resumed"}
      BY <2>1, <2>6 DEF IInv, TypeOK
    <3>2. GiveUp(v)
      <4>1. Yield(v) => call'[v] = "yield"
        BY DEF Yield, DoYield, Goes, IInv, TypeOK
      <4> QED
        BY <4>1, <3>1, <1>3 DEF Continuation
    <3> QED
      BY <3>2, <2>1, <2>4, <2>6, <1>0 DEF GiveUp, Executes
  <2> QED
    BY <2>5, <2>6
<1>4. ASSUME NEW v \in Tid,
             Sleep(v) \/ WaitNoPeriod(v) \/ WaitPeriod(v) \/ Resume(v)
      PROVE  wake'[t] = 0
  <2>1. /\ pc'[v] \in {"armed", "run"}
        /\ t # v => pc'[t] = pc[t] /\ state'[t] = state[t] /\ wake'[t] = wake[t]
    BY <1>4 DEF Sleep, WaitNoPeriod, WaitPeriod, Resume, Goes, IInv, TypeOK
  <2> QED
    BY <2>1, <1>0
<1>5. ASSUME NEW v \in Tid, MarkSleeping(v) \/ MarkDead(v) PROVE wake'[t] = 0
  <2>1. /\ state'[v] \in {"SLEEPING", "DEAD"}
        /\ t # v => pc'[t] = pc[t] /\ state'[t] = state[t]
        /\ UNCHANGED wake
    BY <1>5 DEF MarkSleeping, MarkDead, Goes, IInv, TypeOK
  <2> QED
    BY <2>1, <1>0
<1>6. ASSUME NEW v \in Tid, NEW u \in Tid, WakeTask(v, u) \/ SetPriority(v, u)
      PROVE  wake'[t] = 0
  <2>1. UNCHANGED <<pc, state, wake>>
    BY <1>6 DEF WakeTask, SetPriority
  <2> QED
    BY <2>1, <1>0
<1>7. CASE UNCHANGED vars
  BY <1>7, <1>0 DEF vars, tcb
<1>8. ASSUME NEW v \in Tid, KernelStep(v) PROVE wake'[t] = 0
  BY <1>8, <1>3, <1>4, <1>5 DEF KernelStep
<1>9. ASSUME NEW v \in Tid, BodyStep(v) PROVE wake'[t] = 0
  BY <1>9, <1>3, <1>4, <1>5, <1>6 DEF BodyStep
<1> QED
  BY <1>1, <1>2, <1>7, <1>8, <1>9 DEF Next

(* sched_sleep and sched_wait_period return no earlier than asked, for     *)
(* every task set with an idle task, wherever the ticks fall.              *)
THEOREM SleepNotEarly == Spec => []NoEarlyReturn
<1>1. Init => Rested
  BY DEF Init, Rested
<1>2. IInv /\ Rested /\ [Next]_vars => Rested'
  BY RestedStep
<1>3. Rested => NoEarlyReturn
  BY DEF Rested, NoEarlyReturn
<1> QED
  BY <1>1, <1>2, <1>3, Invariant, PTL DEF Spec

-----------------------------------------------------------------------------
(* Strict priority *)

(* What the two scans promise of priorities *)
LEMMA PickedIsTop ==
    ASSUME TypeOK, NEW st, NEW p \in Nat
    PROVE  /\ \A n \in PickNext(st) : \A u \in ReadyIn(st) : prio[n] <= prio[u]
           /\ \A n \in PickHigher(st, p) :
                prio[n] < p /\ \A u \in ReadyIn(st) : prio[n] <= prio[u]
           /\ count > 0 /\ ReadyIn(st) # {} => PickNext(st) # {}
           /\ PickHigher(st, p) = {} => \A u \in ReadyIn(st) : p <= prio[u]
<1> USE TasksAssumption
<1>1. \A u \in ReadyIn(st) : u \in Tid /\ prio[u] \in Nat
  BY DEF ReadyIn, TypeOK
<1>2. \A n \in PickNext(st) : \A u \in ReadyIn(st) : prio[n] <= prio[u]
  BY <1>1 DEF PickNext
<1>3. \A n \in PickHigher(st, p) :
        prio[n] < p /\ \A u \in ReadyIn(st) : prio[n] <= prio[u]
  BY <1>1 DEF PickHigher
<1>4. count > 0 /\ ReadyIn(st) # {} => PickNext(st) # {}
  BY NextExists
<1>5. PickHigher(st, p) = {} => \A u \in ReadyIn(st) : p <= prio[u]
  BY <1>1, HigherExists
<1> QED
  BY <1>2, <1>3, <1>4, <1>5

LEMMA DispatchByYield ==
    ASSUME IInv, NEW t \in Tid, Yield(t) \/ GiveUp(t)
    PROVE  TopPriority'
<1> USE TasksAssumption
<1>1. /\ t # NoTask /\ current = t /\ count > 0 /\ UNCHANGED prio
      /\ \A u \in Tid : state[u] = "RUNNING" => u = t
  <2>1. /\ t # NoTask /\ current = t /\ count = NumTasks /\ UNCHANGED prio
        /\ \A u \in Tid : state[u] = "RUNNING" => u = t
    BY YieldStates
  <2> QED
    BY <2>1
<1>2. PICK left \in [Tid -> States] :
        /\ \A u \in Tid : u # t => left[u] = state[u]
        /\ left[t] = IF state[t] = "RUNNING" THEN "READY" ELSE state[t]
        /\ \/ /\ PickNext(left) \subseteq {t}
              /\ state' = [state EXCEPT ![t] = "RUNNING"]
              /\ UNCHANGED current
           \/ \E n \in PickNext(left) \ {t} :
              /\ state' = [left EXCEPT ![n] = "RUNNING"] /\ current' = n
  BY YieldStates DEF SwitchTo
<1>3. /\ \A n \in PickNext(left) : \A u \in ReadyIn(left) : prio[n] <= prio[u]
      /\ ReadyIn(left) # {} => PickNext(left) # {}
  BY <1>1, PickedIsTop DEF IInv
<1>4. state \in [Tid -> States]
  BY DEF IInv, TypeOK
<1>5. CASE /\ PickNext(left) \subseteq {t}
           /\ state' = [state EXCEPT ![t] = "RUNNING"]
           /\ UNCHANGED current
  <2>1. \A u \in ReadyIn(state') : u \in ReadyIn(left)
    BY <1>2, <1>4, <1>5 DEF ReadyIn
  <2>2. \A u \in ReadyIn(left) : prio[t] <= prio[u]
    BY <1>3, <1>5
  <2> QED
    BY <2>1, <2>2, <1>1, <1>5 DEF TopPriority
<1>6. CASE \E n \in PickNext(left) \ {t} :
              /\ state' = [left EXCEPT ![n] = "RUNNING"] /\ current' = n
  <2>1. PICK n \in PickNext(left) : state' = [left EXCEPT ![n] = "RUNNING"] /\ current' = n
    BY <1>6
  <2>2. \A u \in ReadyIn(state') : u \in ReadyIn(left)
    BY <1>2, <2>1 DEF ReadyIn
  <2> QED
    BY <1>1, <1>3, <2>1, <2>2 DEF TopPriority
<1> QED
  BY <1>2, <1>5, <1>6

LEMMA DispatchByTick ==
    ASSUME IInv, Tick
    PROVE  TopPriority'
<1> USE TasksAssumption
<1>1. /\ current \in Tid /\ current # NoTask /\ Elapse /\ UNCHANGED prio
  BY TickStates
<1>2. /\ Woken \in [Tid -> States]
      /\ Woken[current] = "RUNNING" <=> state[current] = "RUNNING"
  BY <1>1, WokenStates
<1>3. count > 0 /\ prio \in [Tid -> 0 .. MaxPrio] /\ prio[current] \in Nat
  BY <1>1 DEF IInv, TypeOK, Placed
<1> DEFINE W == Woken
           requeued == [W EXCEPT ![current] = "READY"]
<1>4. /\ PickHigher(W, prio[current]) = {} => \A u \in ReadyIn(W) : prio[current] <= prio[u]
      /\ \A n \in PickHigher(W, prio[current]) :
            prio[n] < prio[current] /\ \A u \in ReadyIn(W) : prio[n] <= prio[u]
  BY <1>3, PickedIsTop DEF IInv
<1>5. /\ \A n \in PickNext(requeued) : \A u \in ReadyIn(requeued) : prio[n] <= prio[u]
      /\ ReadyIn(requeued) # {} => PickNext(requeued) # {}
  BY <1>3, PickedIsTop DEF IInv
<1>6. CASE TickIgnored /\ Woken[current] # "RUNNING"
  BY <1>6 DEF TickIgnored, TopPriority
<1>7. CASE TickWithin
  <2>1. CASE PickHigher(W, prio[current]) = {} /\ KeepRunning(W, remaining[current] - 1)
    BY <2>1, <1>1, <1>4 DEF KeepRunning, TopPriority
  <2>2. CASE \E n \in PickHigher(W, prio[current]) : SwitchTo(n, requeued)
    <3>1. PICK n \in PickHigher(W, prio[current]) :
             current' = n /\ state' = [requeued EXCEPT ![n] = "RUNNING"]
      BY <2>2 DEF SwitchTo
    <3>2. \A u \in ReadyIn(state') : u \in ReadyIn(W) \/ u = current
      BY <3>1, <1>2 DEF ReadyIn
    <3>3. prio[n] <= prio[current]
      <4>1. n \in Tid /\ prio[n] < prio[current]
        BY <3>1, <1>4 DEF PickHigher, ReadyIn
      <4>2. prio[n] \in Nat
        BY <4>1, <1>3
      <4> QED
        BY <4>1, <4>2, <1>3
    <3>4. \A u \in ReadyIn(W) : prio[n] <= prio[u]
      BY <3>1, <1>4
    <3> QED
      BY <3>1, <3>2, <3>3, <3>4, <1>1 DEF TopPriority
  <2> QED
    BY <1>7, <2>1, <2>2 DEF TickWithin
<1>8. CASE TickExpired
  <2>1. CASE PickNext(requeued) \subseteq {current} /\ KeepRunning(W, Quantum)
    <3>1. current \in ReadyIn(requeued)
      BY <1>1, <1>2 DEF ReadyIn
    <3>2. \A u \in ReadyIn(requeued) : prio[current] <= prio[u]
      BY <3>1, <2>1, <1>5
    <3>3. \A u \in ReadyIn(W) : u \in ReadyIn(requeued)
      BY <1>2 DEF ReadyIn
    <3> QED
      BY <2>1, <3>2, <3>3, <1>1 DEF KeepRunning, TopPriority
  <2>2. CASE \E n \in PickNext(requeued) \ {current} : SwitchTo(n, requeued)
    <3>1. PICK n \in PickNext(requeued) :
             current' = n /\ state' = [requeued EXCEPT ![n] = "RUNNING"]
      BY <2>2 DEF SwitchTo
    <3>2. \A u \in ReadyIn(state') : u \in ReadyIn(requeued)
      BY <3>1, <1>2 DEF ReadyIn
    <3>3. \A u \in ReadyIn(requeued) : prio[n] <= prio[u]
      BY <3>1, <1>5
    <3> QED
      BY <3>1, <3>2, <3>3, <1>1 DEF TopPriority
  <2> QED
    BY <1>8, <2>1, <2>2 DEF TickExpired
<1> QED
  BY <1>6, <1>7, <1>8 DEF Tick

LEMMA DispatchByStart ==
    ASSUME IInv, Start
    PROVE  TopPriority'
<1>1. PICK first \in PickNext(state) :
        current' = first /\ state' = [state EXCEPT ![first] = "RUNNING"]
  BY DEF Start
<1>2. UNCHANGED prio /\ state \in [Tid -> States]
  BY DEF Start, IInv, TypeOK
<1>3. \A u \in ReadyIn(state) : prio[first] <= prio[u]
  BY <1>1, PickedIsTop DEF IInv
<1>4. \A u \in ReadyIn(state') : u \in ReadyIn(state)
  BY <1>1, <1>2 DEF ReadyIn
<1> QED
  BY <1>1, <1>2, <1>3, <1>4 DEF TopPriority

(* Every dispatch, by start, yield, sleep, exit or tick, leaves a task     *)
(* running that no READY task is more urgent than, for any priorities.     *)
THEOREM StrictDispatch == Spec => StrictPriority
<1>1. IInv /\ [Next]_vars =>
        [Tick \/ Start \/ (\E t \in Tid : Yield(t) \/ GiveUp(t)) => TopPriority']_vars
  BY DispatchByTick, DispatchByStart, DispatchByYield
<1> QED
  BY <1>1, Invariant, PTL DEF Spec, StrictPriority

-----------------------------------------------------------------------------
(* Releases *)

(* ReleaseNear for a task that waits as well: with nobody to wake it, it   *)
(* is past sched_do_yield only when the release is due.                    *)
Near ==
    (\A u \in Tid : "wake" \notin Calls[u]) =>
        \A t \in Tid :
            IF pc[t] \in {"armed", "marked", "resumed"} /\ call[t] = "period"
            THEN due[t] <= wake[t] /\ due[t] <= 2 * Period[t]
            ELSE due[t] <= Period[t]

LEMMA NearStep == IInv /\ Rested /\ Near /\ [Next]_vars => Near'
<1> USE TasksAssumption
<1> DEFINE P(t) == IF pc[t] \in {"armed", "marked", "resumed"} /\ call[t] = "period"
                   THEN due[t] <= wake[t] /\ due[t] <= 2 * Period[t]
                   ELSE due[t] <= Period[t]
<1> SUFFICES ASSUME IInv, Rested, Near, [Next]_vars,
                    \A u \in Tid : "wake" \notin Calls[u],
                    NEW t \in Tid
             PROVE  P(t)'
  BY DEF Near
<1>0. /\ P(t) /\ due[t] \in Int /\ wake[t] \in Nat /\ Period[t] \in Nat
      /\ pc \in [Tid -> PCs] /\ call \in [Tid -> CallNames]
      /\ due \in [Tid -> Int] /\ wake \in [Tid -> Nat]
  BY DEF Near, IInv, TypeOK
<1>1. CASE UNCHANGED <<pc[t], call[t], due[t], wake[t]>>
  BY <1>1, <1>0
<1>2. CASE Boot
  BY <1>2, <1>1 DEF Boot, Start, Create
<1>3. CASE Tick
  <2>1. Elapse /\ UNCHANGED <<pc, call>>
    BY <1>3, TickStates
  <2>2. /\ wake'[t] = IF wake[t] > 0 THEN wake[t] - 1 ELSE 0
        /\ due'[t] = IF due[t] > -Period[t] THEN due[t] - 1 ELSE due[t]
    BY <2>1 DEF Elapse
  <2> QED
    BY <2>1, <2>2, <1>0
<1>4. ASSUME NEW v \in Tid, Yield(v) \/ GiveUp(v) PROVE P(t)'
  <2>1. CASE t # v
    <3>1. UNCHANGED <<pc[t], call[t], due, wake>>
      BY <1>4, <2>1, <1>0 DEF Yield, GiveUp, DoYield, Goes
    <3> QED
      BY <3>1, <1>0
  <2>2. CASE t = v /\ Yield(v)
    <3>1. pc[t] = "run" /\ call'[t] = "yield" /\ UNCHANGED <<due, wake>>
      BY <2>2, <1>0 DEF Yield, DoYield, Goes, Executes
    <3> QED
      BY <3>1, <1>0
  <2>3. CASE t = v /\ GiveUp(v)
    <3>1. /\ pc[t] = "marked" /\ call'[t] = call[t] /\ UNCHANGED <<due, wake>>
          /\ pc'[t] = Continuation(call[t])
      BY <2>3, <1>0 DEF GiveUp, DoYield, Goes, Executes
    <3> QED
      BY <3>1, <1>0 DEF Continuation
  <2> QED
    BY <1>4, <2>1, <2>2, <2>3
<1>5. ASSUME NEW v \in Tid, Resume(v) PROVE P(t)'
  <2>1. CASE t # v
    <3>1. UNCHANGED <<pc[t], call[t], due[t], wake>>
      BY <1>5, <2>1, <1>0 DEF Resume, Goes
    <3> QED
      BY <3>1, <1>0
  <2>2. CASE t = v
    <3>1. pc[t] = "resumed" /\ current = t /\ pc'[t] = "run" /\ t # NoTask
      BY <1>5, <2>2, <1>0 DEF Resume, Goes, Executes, Tid, NoTask
    <3>2. state[t] = "RUNNING"
      BY <3>1 DEF IInv, RunningIsCurrent
    <3>3. wake[t] = 0
      BY <3>1, <3>2 DEF Rested
    <3>4. due[t] <= Period[t]
      BY <3>1, <3>3, <1>0
    <3>5. due'[t] = Period[t] \/ due'[t] = due[t]
      BY <1>5, <2>2, <1>0 DEF Resume
    <3> QED
      BY <3>1, <3>4, <3>5, <1>0
  <2> QED
    BY <2>1, <2>2
<1>6. ASSUME NEW v \in Tid, Sleep(v) \/ WaitNoPeriod(v) \/ WaitPeriod(v)
      PROVE  P(t)'
  <2>1. CASE t # v
    <3>1. UNCHANGED <<pc[t], call[t], due[t], wake[t]>>
      BY <1>6, <2>1, <1>0 DEF Sleep, WaitNoPeriod, WaitPeriod, Goes
    <3> QED
      BY <3>1, <1>0
  <2>2. CASE t = v /\ (Sleep(v) \/ WaitNoPeriod(v))
    <3>1. pc[t] = "run" /\ call'[t] = "sleep" /\ due'[t] = due[t]
      BY <2>2, <1>0 DEF Sleep, WaitNoPeriod, Goes, Executes
    <3> QED
      BY <3>1, <1>0
  <2>3. CASE t = v /\ WaitPeriod(v)
    <3>1. /\ pc[t] = "run" /\ call'[t] = "period" /\ pc'[t] = "armed"
          /\ due'[t] = NextRelease(t) /\ wake'[t] = NextRelease(t)
      BY <2>3, <1>0 DEF WaitPeriod, Goes, Executes
    <3>2. NextRelease(t) \in Int /\ NextRelease(t) <= 2 * Period[t]
      BY <3>1, <1>0 DEF NextRelease
    <3> QED
      BY <3>1, <3>2, <1>0
  <2> QED
    BY <1>6, <2>1, <2>2, <2>3
<1>7. ASSUME NEW v \in Tid, MarkSleeping(v) \/ MarkDead(v) PROVE P(t)'
  <2>1. UNCHANGED <<due, wake>>
    BY <1>7 DEF MarkSleeping, MarkDead
  <2>2. CASE t # v
    <3>1. UNCHANGED <<pc[t], call[t]>>
      BY <1>7, <2>2, <1>0 DEF MarkSleeping, MarkDead, Goes
    <3> QED
      BY <2>1, <3>1, <1>0
  <2>3. CASE t = v /\ MarkSleeping(v)
    <3>1. pc[t] = "armed" /\ pc'[t] = "marked" /\ call'[t] = call[t]
      BY <2>3, <1>0 DEF MarkSleeping, Goes, Executes
    <3> QED
      BY <2>1, <3>1, <1>0
  <2>4. CASE t = v /\ MarkDead(v)
    <3>1. pc[t] = "run" /\ call'[t] \in {"exit", "return"}
      BY <2>4, <1>0 DEF MarkDead, Goes, Executes
    <3> QED
      BY <2>1, <3>1, <1>0
  <2> QED
    BY <1>7, <2>2, <2>3, <2>4
<1>8. ASSUME NEW v \in Tid, NEW u \in Tid, WakeTask(v, u) \/ SetPriority(v, u)
      PROVE  P(t)'
  <2>1. UNCHANGED <<pc, call, due, wake>>
    BY <1>8 DEF WakeTask, SetPriority
  <2> QED
    BY <2>1, <1>0
<1>9. CASE UNCHANGED vars
  BY <1>9, <1>0 DEF vars, tcb
<1>10. ASSUME NEW v \in Tid, KernelStep(v) PROVE P(t)'
  BY <1>10, <1>4, <1>5, <1>7 DEF KernelStep
<1>11. ASSUME NEW v \in Tid, BodyStep(v) PROVE P(t)'
  BY <1>11, <1>4, <1>6, <1>7, <1>8 DEF BodyStep
<1> QED
  BY <1>2, <1>3, <1>9, <1>10, <1>11 DEF Next

(* A periodic task that nobody wakes by hand is due within two periods at  *)
(* any time, and within one while it works, for any task set: an overrun   *)
(* costs one release at most.                                              *)
THEOREM ReleasesNear == Spec => []ReleaseNear
<1>1. Init => Rested /\ Near
  BY TasksAssumption DEF Init, Rested, Near
<1>2. IInv /\ Rested /\ [Next]_vars => Rested'
  BY RestedStep
<1>3. IInv /\ Rested /\ Near /\ [Next]_vars => Near'
  BY NearStep
<1>4. IInv /\ Near => ReleaseNear
  <2> SUFFICES ASSUME IInv, Near, \A u \in Tid : "wake" \notin Calls[u], NEW t \in Tid
               PROVE  due[t] <= (IF pc[t] = "run" THEN Period[t] ELSE 2 * Period[t])
    BY DEF ReleaseNear
  <2>1. due[t] \in Int /\ Period[t] \in Nat
    BY TasksAssumption DEF IInv, TypeOK
  <2>2. due[t] <= Period[t] \/ (pc[t] # "run" /\ due[t] <= 2 * Period[t])
    BY DEF Near
  <2> QED
    BY <2>1, <2>2
<1> QED
  BY <1>1, <1>2, <1>3, <1>4, Invariant, PTL DEF Spec

-----------------------------------------------------------------------------
(* The most urgent task *)

(* The hypothesis of RealTime *)
MostUrgent(t) ==
    /\ Calls[t] = {"period"} /\ Clamp(Prio[t]) = 0
    /\ \A u \in Tid \ {t} : Clamp(Prio[u]) > 0 /\ "renice" \notin Calls[u]

(* The task has the processor: not late on its way to sched_wait_period,   *)
(* or a tick late if one hit it there; and on its way out of it with at    *)
(* least a tick to spare.                                                  *)
Here(t) ==
    \/ /\ pc[t] = "run" \/ (pc[t] = "resumed" /\ call[t] = "period")
       /\ due[t] >= -1 /\ (struck[t] \/ due[t] >= 0)
    \/ /\ pc[t] = "armed" \/ (pc[t] = "marked" /\ state[t] = "SLEEPING")
       /\ call[t] = "period"
       /\ due[t] = wake[t] /\ due[t] >= 1 /\ (struck[t] \/ due[t] >= 2)

(* Another task has it: the release is ahead, or it is now and the tick    *)
(* that brought it found the other on its way into sched_do_yield.         *)
Away(t) ==
    /\ pc[t] = "resumed" /\ call[t] = "period"
    /\ \/ state[t] = "SLEEPING" /\ due[t] = wake[t] /\ due[t] >= 1
       \/ /\ state[t] = "READY" /\ due[t] >= 0
          /\ due[t] = 0 => (pc[current] = "marked" /\ struck[current])

Unborn(t) == state[t] \in {"FREE", "READY"} /\ due[t] = 0 /\ pc[t] = "run"

(* Nobody is given another priority than the one it was created with. *)
AsCreated == \A u \in Tid : u < count => prio[u] = Clamp(Prio[u])

OnTime(t) ==
    /\ maxJitter[t] <= 1
    /\ AsCreated
    /\ current = NoTask => Unborn(t)
    /\ current = t => Here(t)
    /\ current # t /\ current # NoTask => Away(t)

(* What a dispatch guarantees the most urgent task *)
LEMMA Outranked ==
    ASSUME IInv', TopPriority', AsCreated', NEW t \in Tid, MostUrgent(t),
           current' # t, current' # NoTask, state'[t] = "READY"
    PROVE  pc'[current'] = "marked" /\ state'[current'] # "RUNNING"
<1> USE TasksAssumption
<1>1. current' \in Tid /\ count' = NumTasks /\ current' < count' /\ t < count'
  BY DEF IInv, TypeOK, Placed, Tid
<1>2. prio'[t] = 0 /\ prio'[current'] = Clamp(Prio[current'])
  BY <1>1 DEF AsCreated, MostUrgent
<1>3. Clamp(Prio[current']) > 0 /\ Clamp(Prio[current']) \in Nat
  BY <1>1 DEF MostUrgent, Clamp
<1>4. ~ (prio'[current'] <= prio'[t])
  BY <1>2, <1>3
<1>5. t \in ReadyIn(state)'
  BY DEF ReadyIn
<1>6. state'[current'] # "RUNNING"
  BY <1>4, <1>5 DEF TopPriority
<1> QED
  BY <1>6 DEF IInv, RunningIsCurrent

LEMMA OnTimeBoot ==
    ASSUME IInv, IInv', NEW t \in Tid, MostUrgent(t), OnTime(t), Boot
    PROVE  OnTime(t)'
<1> USE TasksAssumption
<1>0. current = NoTask /\ t # NoTask /\ Unborn(t) /\ AsCreated
  BY DEF Boot, Create, Start, OnTime, Tid, NoTask
<1>1. CASE \E u \in Tid : Create(u)
  <2>1. PICK u \in Tid : Create(u)
    BY <1>1
  <2>2. UNCHANGED <<current, due, pc, maxJitter>>
    BY <2>1 DEF Create
  <2>3. state'[t] \in {"FREE", "READY"}
    BY <2>1, <1>0 DEF Create, Unborn, IInv, TypeOK
  <2>4. AsCreated'
    <3> SUFFICES ASSUME NEW w \in Tid, w < count' PROVE prio'[w] = Clamp(Prio[w])
      BY DEF AsCreated
    <3>1. w \in Int /\ count \in Int /\ count' = count + 1 /\ u = count
      BY <2>1 DEF Create, Tid, IInv, TypeOK
    <3>2. w = u \/ w < count
      BY <3>1
    <3> QED
      BY <2>1, <1>0, <3>2 DEF Create, AsCreated, IInv, TypeOK
  <2> QED
    BY <2>2, <2>3, <2>4, <1>0 DEF OnTime, Unborn
<1>2. CASE Start
  <2>1. UNCHANGED <<count, prio, due, pc, call, maxJitter, struck>> /\ count = NumTasks
    BY <1>2 DEF Start
  <2>2. AsCreated' /\ TopPriority'
    BY <2>1, <1>0, <1>2, DispatchByStart DEF AsCreated
  <2>3. PICK first \in Tid :
           current' = first /\ state' = [state EXCEPT ![first] = "RUNNING"]
    BY <1>2 DEF Start, PickNext, ReadyIn
  <2>4. state[t] = "READY"
    BY <2>1, <1>0 DEF Unborn, IInv, Placed, Tid
  <2>5. current' = t
    <3>1. SUFFICES ASSUME current' # t PROVE FALSE
      OBVIOUS
    <3>2. state'[t] = "READY" /\ current' # NoTask
      BY <2>3, <2>4, <3>1 DEF IInv, TypeOK, Tid, NoTask
    <3>3. pc'[current'] = "marked"
      BY <3>1, <3>2, <2>2, Outranked
    <3> QED
      BY <3>3, <2>1, <2>3, <1>0 DEF IInv, Placed
  <2>6. Here(t)'
    BY <2>1, <1>0 DEF Unborn, Here
  <2> QED
    BY <2>1, <2>2, <2>5, <2>6, <1>0 DEF OnTime
<1> QED
  BY <1>1, <1>2 DEF Boot

(* The task's own way from sched_wait_period to sched_do_yield and back *)
LEMMA OnTimeOwn ==
    ASSUME IInv, NEW t \in Tid, MostUrgent(t), Period[t] >= 2, OnTime(t),
           \/ Sleep(t) \/ WaitNoPeriod(t) \/ WaitPeriod(t) \/ MarkSleeping(t)
           \/ MarkDead(t) \/ Resume(t) \/ Yield(t)
           \/ \E u \in Tid : WakeTask(t, u) \/ SetPriority(t, u)
    PROVE  OnTime(t)'
<1> USE TasksAssumption
<1>0. /\ current = t /\ t # NoTask /\ Here(t) /\ AsCreated /\ maxJitter[t] <= 1
      /\ due \in [Tid -> Int] /\ wake \in [Tid -> Nat] /\ Period[t] \in Nat
      /\ pc \in [Tid -> PCs] /\ call \in [Tid -> CallNames]
      /\ maxJitter \in [Tid -> Nat] /\ struck \in [Tid -> BOOLEAN]
      /\ state \in [Tid -> States]
  <2>1. current = t /\ t # NoTask
    BY DEF Sleep, WaitNoPeriod, WaitPeriod, MarkSleeping, MarkDead, Resume, Yield,
           WakeTask, SetPriority, Executes, Tid, NoTask
  <2> QED
    BY <2>1 DEF OnTime, IInv, TypeOK
<1> SUFFICES UNCHANGED <<current, count, prio>> /\ maxJitter'[t] <= 1 /\ Here(t)'
  BY <1>0 DEF OnTime, AsCreated
<1>1. ~ Sleep(t) /\ ~ WaitNoPeriod(t) /\ ~ MarkDead(t) /\ ~ Yield(t)
      /\ \A u \in Tid : ~ WakeTask(t, u) /\ ~ SetPriority(t, u)
  BY <1>0 DEF Sleep, WaitNoPeriod, MarkDead, Yield, WakeTask, SetPriority, MostUrgent
<1>2. CASE WaitPeriod(t)
  <2>1. /\ pc[t] = "run" /\ pc'[t] = "armed" /\ call'[t] = "period"
        /\ due'[t] = NextRelease(t) /\ wake'[t] = NextRelease(t)
        /\ UNCHANGED <<current, count, prio, maxJitter>> /\ struck'[t] = struck[t]
    BY <1>0, <1>2 DEF WaitPeriod, Executes, Goes
  <2>2. due[t] >= -1 /\ (struck[t] \/ due[t] >= 0)
    BY <2>1, <1>0 DEF Here
  <2>3. NextRelease(t) \in Int /\ NextRelease(t) >= 1 /\ (struck[t] \/ NextRelease(t) >= 2)
    BY <2>2, <1>0 DEF NextRelease
  <2> QED
    BY <2>1, <2>3, <1>0 DEF Here
<1>3. CASE MarkSleeping(t)
  <2>1. /\ pc[t] = "armed" /\ pc'[t] = "marked" /\ call'[t] = call[t]
        /\ state'[t] = "SLEEPING"
        /\ UNCHANGED <<current, count, prio, maxJitter, due, wake>> /\ struck'[t] = struck[t]
    BY <1>0, <1>3 DEF MarkSleeping, Executes, Goes
  <2> QED
    BY <2>1, <1>0 DEF Here
<1>4. CASE Resume(t)
  <2> DEFINE jitter == IF call[t] = "period" /\ due[t] < 0 THEN -due[t] ELSE 0
  <2>1. /\ pc[t] = "resumed" /\ pc'[t] = "run" /\ call[t] = "period"
        /\ due[t] >= -1 /\ (struck[t] \/ due[t] >= 0)
    BY <1>0, <1>4 DEF Resume, Executes, Goes, Here
  <2>2. jitter \in Nat /\ jitter <= 1 /\ ~ (jitter >= Period[t])
    BY <2>1, <1>0
  <2>3. maxJitter' = [maxJitter EXCEPT ![t] = IF jitter > @ THEN jitter ELSE @]
    BY <1>4 DEF Resume
  <2>4. due' = [due EXCEPT ![t] = IF jitter > 0 /\ jitter >= Period[t] THEN Period[t] ELSE @]
    BY <1>4 DEF Resume
  <2>5. maxJitter'[t] <= 1 /\ due'[t] = due[t]
    <3> HIDE DEF jitter
    <3> QED
      BY <2>2, <2>3, <2>4, <1>0
  <2>6. struck'[t] = struck[t] /\ UNCHANGED <<current, count, prio>>
    BY <1>4, <1>0 DEF Resume, Goes, BodyIsEmpty, MostUrgent
  <2> QED
    BY <2>1, <2>5, <2>6 DEF Here
<1> QED
  BY <1>1, <1>2, <1>3, <1>4

(* The calls of the task that has the processor instead *)
LEMMA OnTimeOther ==
    ASSUME IInv, NEW t \in Tid, MostUrgent(t), OnTime(t), NEW v \in Tid, v # t,
           \/ Sleep(v) \/ WaitNoPeriod(v) \/ WaitPeriod(v) \/ MarkSleeping(v)
           \/ MarkDead(v) \/ Resume(v)
           \/ \E u \in Tid : WakeTask(v, u) \/ SetPriority(v, u)
    PROVE  OnTime(t)'
<1> USE TasksAssumption
<1>0. /\ current = v /\ v # NoTask /\ pc[v] # "marked" /\ AsCreated /\ Away(t)
      /\ due \in [Tid -> Int] /\ wake \in [Tid -> Nat] /\ maxJitter[t] <= 1
      /\ pc \in [Tid -> PCs] /\ call \in [Tid -> CallNames]
      /\ maxJitter \in [Tid -> Nat] /\ state \in [Tid -> States]
  <2>1. current = v /\ v # NoTask /\ pc[v] # "marked"
    <3>1. \E at \in {"run", "armed", "resumed"} : Executes(v, at)
      BY DEF Sleep, WaitNoPeriod, WaitPeriod, MarkSleeping, MarkDead, Resume,
             WakeTask, SetPriority
    <3>2. current = v /\ pc[v] \in {"run", "armed", "resumed"}
      BY ONLY <3>1 DEF Executes
    <3>3. v # NoTask
      BY DEF Tid, NoTask
    <3> QED
      BY ONLY <3>2, <3>3
  <2> QED
    BY <2>1 DEF OnTime, IInv, TypeOK
<1>1. \A u \in Tid : ~ SetPriority(v, u)
  BY DEF SetPriority, MostUrgent
<1>2. state[t] = "READY" => due[t] # 0
  BY <1>0 DEF Away
<1>3. /\ UNCHANGED <<current, count, prio>>
      /\ UNCHANGED <<pc[t], call[t], due[t], wake[t], maxJitter[t]>>
  <2>1. CASE Sleep(v) \/ WaitNoPeriod(v) \/ WaitPeriod(v)
    BY <2>1, <1>0 DEF Sleep, WaitNoPeriod, WaitPeriod, Goes
  <2>2. CASE MarkSleeping(v) \/ MarkDead(v) \/ Resume(v)
    BY <2>2, <1>0 DEF MarkSleeping, MarkDead, Resume, Goes
  <2>3. CASE \E u \in Tid : WakeTask(v, u)
    BY <2>3 DEF WakeTask
  <2> QED
    BY <2>1, <2>2, <2>3, <1>1
<1>4. state'[t] = state[t] \/ (state[t] = "SLEEPING" /\ state'[t] = "READY")
  <2>1. CASE Sleep(v) \/ WaitNoPeriod(v) \/ WaitPeriod(v)
    BY <2>1 DEF Sleep, WaitNoPeriod, WaitPeriod
  <2>2. CASE MarkSleeping(v) \/ MarkDead(v) \/ Resume(v)
    BY <2>2, <1>0 DEF MarkSleeping, MarkDead, Resume
  <2>3. CASE \E u \in Tid : WakeTask(v, u)
    BY <2>3, <1>0 DEF WakeTask
  <2> QED
    BY <2>1, <2>2, <2>3, <1>1
<1>5. Away(t)'
  <2>1. due[t] \in Int
    BY <1>0
  <2>2. CASE state[t] = "SLEEPING"
    BY <2>1, <2>2, <1>0, <1>3, <1>4 DEF Away
  <2>3. CASE state[t] = "READY"
    BY <2>1, <2>3, <1>0, <1>2, <1>3, <1>4 DEF Away
  <2> QED
    BY <2>2, <2>3, <1>0 DEF Away
<1> QED
  BY <1>0, <1>3, <1>5 DEF OnTime, AsCreated

(* sched_do_yield of either *)
LEMMA OnTimeYield ==
    ASSUME IInv, IInv', NEW t \in Tid, MostUrgent(t), OnTime(t), NEW v \in Tid,
           Yield(v) \/ GiveUp(v)
    PROVE  OnTime(t)'
<1> USE TasksAssumption
<1>0. /\ v # NoTask /\ current = v
      /\ UNCHANGED <<count, prio, due, wake, maxJitter>>
      /\ call' = [call EXCEPT ![v] = call'[v]]
      /\ pc' = [pc EXCEPT ![v] = Continuation(call'[v])]
      /\ struck' = [struck EXCEPT ![v] = FALSE]
      /\ Calls[v] # {}
  BY YieldStates
<1>1. PICK left \in [Tid -> States] :
        /\ \A u \in Tid : u # v => left[u] = state[u]
        /\ left[v] = IF state[v] = "RUNNING" THEN "READY" ELSE state[v]
        /\ \/ /\ PickNext(left) \subseteq {v}
              /\ state' = [state EXCEPT ![v] = "RUNNING"]
              /\ UNCHANGED current
           \/ \E n \in PickNext(left) \ {v} :
              /\ state' = [left EXCEPT ![n] = "RUNNING"] /\ current' = n
  BY YieldStates DEF SwitchTo
<1>2. /\ TopPriority' /\ AsCreated' /\ maxJitter'[t] <= 1 /\ current' \in Tid
      /\ state \in [Tid -> States] /\ pc \in [Tid -> PCs] /\ call \in [Tid -> CallNames]
      /\ due[t] \in Int
  <2>1. AsCreated' /\ maxJitter'[t] <= 1
    BY <1>0 DEF OnTime, AsCreated
  <2>2. current' \in Tid
    BY <1>0, <1>1 DEF PickNext, ReadyIn
  <2> QED
    BY <2>1, <2>2, DispatchByYield DEF IInv, TypeOK
<1>3. current' # NoTask
  BY <1>2 DEF Tid, NoTask
<1>4. CASE v = t
  <2>1. GiveUp(t) /\ pc[t] = "marked" /\ ~ Yield(t)
    BY <1>4, <1>0 DEF GiveUp, Yield, Executes, MostUrgent
  <2>2. call'[t] = call[t]
    BY <2>1, <1>2 DEF GiveUp, DoYield, Goes
  <2>3. /\ state[t] = "SLEEPING" /\ call[t] = "period"
        /\ due[t] = wake[t] /\ due[t] >= 1
    BY <2>1, <1>0, <1>4 DEF OnTime, Here
  <2>4. ~ (PickNext(left) \subseteq {t})
    <3>1. left[t] # "READY"
      BY <2>3, <1>1, <1>4
    <3> QED
      BY <3>1, <1>0, <1>1, <1>4, FallbackIsReady
  <2>5. PICK n \in PickNext(left) \ {t} : state' = [left EXCEPT ![n] = "RUNNING"] /\ current' = n
    BY <2>4, <1>1, <1>4
  <2>6. state'[t] = "SLEEPING" /\ current' # t
    BY <2>3, <2>5, <1>1, <1>4
  <2>7. pc'[t] = "resumed" /\ call'[t] = "period"
    BY <2>2, <2>3, <1>0, <1>2, <1>4 DEF Continuation
  <2> QED
    BY <2>3, <2>6, <2>7, <1>0, <1>2, <1>3 DEF OnTime, Away
<1>5. CASE v # t
  <2>1. Away(t) /\ UNCHANGED <<pc[t], call[t]>>
    BY <1>5, <1>0, <1>2 DEF OnTime
  <2>2. CASE current' = t
    <3>1. t \in PickNext(left) /\ state[t] = "READY"
      BY <2>2, <1>5, <1>0, <1>1 DEF PickNext, ReadyIn
    <3>2. due[t] >= 0
      BY <3>1, <2>1 DEF Away
    <3>3. Here(t)'
      <4>1. due'[t] >= -1 /\ due'[t] >= 0
        BY <3>2, <1>0, <1>2
      <4> QED
        BY <4>1, <2>1 DEF Here, Away
    <3> QED
      BY <3>3, <2>2, <1>2, <1>3 DEF OnTime
  <2>3. CASE current' # t
    <3>1. state'[t] = state[t]
      BY <2>3, <1>5, <1>1, <1>2
    <3>2. state'[current'] = "RUNNING"
      BY <1>0, <1>1, <1>2
    <3>3. state[t] # "READY"
      BY <3>1, <3>2, <2>3, <1>2, <1>3, Outranked
    <3>4. Away(t)'
      BY <3>1, <3>3, <2>1, <1>0 DEF Away
    <3> QED
      BY <3>4, <2>3, <1>2, <1>3 DEF OnTime
  <2> QED
    BY <2>2, <2>3
<1> QED
  BY <1>4, <1>5

(* A tick while the task has the processor, and while another has it *)
LEMMA OnTimeTick ==
    ASSUME IInv, IInv', Prompt = Tid, NEW t \in Tid, MostUrgent(t), OnTime(t), Tick
    PROVE  OnTime(t)'
<1> USE TasksAssumption
<1>0. /\ current \in Tid /\ current # NoTask /\ ~ struck[current]
      /\ UNCHANGED <<count, prio, maxJitter, pc, call>>
      /\ struck' = [struck EXCEPT ![current] = InKernel(current)]
      /\ maxJitter'[t] <= 1 /\ AsCreated'
      /\ TopPriority'
      /\ state \in [Tid -> States] /\ due[t] \in Int /\ wake[t] \in Nat
      /\ Period[t] \in Nat /\ -Period[t] <= due[t]
      /\ struck \in [Tid -> BOOLEAN]
  <2>1. /\ current \in Tid /\ current # NoTask
        /\ UNCHANGED <<count, prio, maxJitter, pc, call>>
        /\ struck' = [struck EXCEPT ![current] = InKernel(current)]
    BY TickStates
  <2>2. ~ struck[current]
    BY <2>1 DEF Tick
  <2>3. maxJitter'[t] <= 1 /\ AsCreated'
    BY <2>1 DEF OnTime, AsCreated
  <2>4. state \in [Tid -> States] /\ due[t] \in Int /\ wake[t] \in Nat
        /\ Period[t] \in Nat /\ -Period[t] <= due[t] /\ struck \in [Tid -> BOOLEAN]
    BY DEF IInv, TypeOK
  <2> QED
    BY <2>1, <2>2, <2>3, <2>4, DispatchByTick
<1>1. \/ state' = Woken /\ UNCHANGED current
      \/ \E n \in Tid \ {current} :
            /\ state[current] = "RUNNING"
            /\ Woken[n] = "READY"
            /\ SwitchTo(n, [Woken EXCEPT ![current] = "READY"])
  BY TickStates
<1>2. /\ Woken \in [Tid -> States]
      /\ Woken[t] = IF state[t] = "SLEEPING" /\ wake'[t] = 0 THEN "READY" ELSE state[t]
  BY TickStates, WokenStates DEF Woken
<1>3. /\ wake'[t] = IF wake[t] > 0 THEN wake[t] - 1 ELSE 0
      /\ due'[t] = IF due[t] > -Period[t] THEN due[t] - 1 ELSE due[t]
  BY TickStates DEF Elapse
<1>4. current' \in Tid /\ current' # NoTask
  <2>1. current' \in Tid
    BY <1>0, <1>1 DEF SwitchTo
  <2> QED
    BY <2>1 DEF Tid, NoTask
<1>5. CASE current = t
  <2>1. Here(t) /\ ~ struck[t] /\ struck'[t] = InKernel(t)
    BY <1>5, <1>0 DEF OnTime
  <2>2. struck'[t]
    BY <2>1 DEF Here, InKernel, BodyIsEmpty, MostUrgent
  <2>3. current' = t /\ state' = Woken
    <3>1. SUFFICES ASSUME current' # t PROVE FALSE
      BY <1>1, <1>5 DEF SwitchTo
    <3>2. PICK n \in Tid \ {t} :
            /\ current' = n
            /\ state' = [[Woken EXCEPT ![t] = "READY"] EXCEPT ![n] = "RUNNING"]
      BY <3>1, <1>1, <1>5 DEF SwitchTo
    <3>3. state'[t] = "READY" /\ state'[current'] = "RUNNING"
      BY <3>2, <1>2
    <3> QED
      BY <3>1, <3>3, <1>0, <1>4, Outranked
  <2>4. Here(t)'
    <3>1. CASE /\ pc[t] = "run" \/ (pc[t] = "resumed" /\ call[t] = "period")
               /\ due[t] >= -1 /\ (struck[t] \/ due[t] >= 0)
      <4>1. due'[t] >= -1
        BY <3>1, <2>1, <1>0, <1>3
      <4> QED
        BY <3>1, <4>1, <2>2, <1>0 DEF Here
    <3>2. CASE /\ pc[t] = "armed" \/ (pc[t] = "marked" /\ state[t] = "SLEEPING")
               /\ call[t] = "period"
               /\ due[t] = wake[t] /\ due[t] >= 1 /\ (struck[t] \/ due[t] >= 2)
      <4>1. due'[t] = wake'[t] /\ due'[t] >= 1 /\ wake'[t] # 0
        BY <3>2, <2>1, <1>0, <1>3
      <4>2. state'[t] = state[t]
        BY <4>1, <2>3, <1>2
      <4> QED
        BY <3>2, <4>1, <4>2, <2>2, <1>0 DEF Here
    <3> QED
      BY <2>1, <3>1, <3>2 DEF Here
  <2> QED
    BY <2>3, <2>4, <1>0, <1>4 DEF OnTime
<1>6. CASE current # t
  <2>1. Away(t)
    BY <1>6, <1>0 DEF OnTime
  <2>2. /\ state'[t] = "SLEEPING" => due'[t] = wake'[t] /\ due'[t] >= 1
        /\ state[t] = "SLEEPING" => due'[t] >= 0
    <3>1. state'[t] = "SLEEPING" => Woken[t] = "SLEEPING"
      BY <1>1, <1>2, <1>6, <1>0 DEF SwitchTo
    <3>2. CASE state[t] = "SLEEPING"
      <4>1. due'[t] = wake'[t] /\ wake'[t] >= 0 /\ wake'[t] \in Int
        BY <3>2, <2>1, <1>0, <1>3 DEF Away
      <4> QED
        BY <4>1, <3>1, <1>2
    <3>3. CASE state[t] # "SLEEPING"
      BY <3>1, <3>3, <1>2
    <3> QED
      BY <3>2, <3>3
  <2>3. due'[t] >= 0
    <3>1. CASE state[t] = "READY"
      <4>1. due[t] >= 0 /\ due[t] # 0
        BY <3>1, <2>1, <1>0 DEF Away
      <4> QED
        BY <4>1, <1>0, <1>3
    <3> QED
      BY <3>1, <2>1, <2>2 DEF Away
  <2>4. CASE current' = t
    <3>1. Here(t)'
      <4>1. due'[t] >= -1
        BY <2>3, <1>0, <1>3
      <4> QED
        BY <4>1, <2>1, <2>3, <1>0 DEF Here, Away
    <3> QED
      BY <3>1, <2>4, <1>0, <1>4 DEF OnTime
  <2>5. CASE current' # t
    <3>1. state'[t] \in {"SLEEPING", "READY"}
      BY <2>1, <2>5, <1>0, <1>1, <1>2, <1>6 DEF Away, SwitchTo
    <3>2. CASE state'[t] = "READY"
      <4>1. pc'[current'] = "marked" /\ state'[current'] # "RUNNING"
        BY <3>2, <2>5, <1>0, <1>4, Outranked
      <4>2. current' = current
        BY <4>1, <1>0, <1>1, <1>2 DEF SwitchTo
      <4>3. struck'[current']
        BY <4>1, <4>2, <1>0 DEF InKernel
      <4> QED
        BY <4>1, <4>3, <3>2, <2>1, <2>3, <2>5, <1>0, <1>4 DEF OnTime, Away
    <3>3. CASE state'[t] = "SLEEPING"
      BY <3>3, <2>1, <2>2, <2>5, <1>0, <1>4 DEF OnTime, Away
    <3> QED
      BY <3>1, <3>2, <3>3
  <2> QED
    BY <2>4, <2>5
<1> QED
  BY <1>5, <1>6

LEMMA OnTimeStep ==
    ASSUME IInv, IInv', Prompt = Tid, NEW t \in Tid, MostUrgent(t), Period[t] >= 2,
           OnTime(t), [Next]_vars
    PROVE  OnTime(t)'
<1>1. CASE Boot
  BY <1>1, OnTimeBoot
<1>2. CASE Tick
  BY <1>2, OnTimeTick
<1>3. ASSUME NEW v \in Tid, KernelStep(v) PROVE OnTime(t)'
  BY <1>3, OnTimeOwn, OnTimeOther, OnTimeYield DEF KernelStep
<1>4. ASSUME NEW v \in Tid, BodyStep(v) PROVE OnTime(t)'
  <2>1. CASE Yield(v)
    BY <2>1, OnTimeYield
  <2>2. CASE v = t /\ ~ Yield(v)
    BY <2>2, <1>4, OnTimeOwn DEF BodyStep
  <2>3. CASE v # t /\ ~ Yield(v)
    BY <2>3, <1>4, OnTimeOther DEF BodyStep
  <2> QED
    BY <2>1, <2>2, <2>3
<1>5. CASE UNCHANGED vars
  BY <1>5 DEF vars, tcb, OnTime, AsCreated, Unborn, Here, Away
<1> QED
  BY <1>1, <1>2, <1>3, <1>4, <1>5 DEF Next

(* A periodic task of priority 0, alone at it, is at its sched_wait_period *)
(* at most a tick after its release, whatever the other tasks do short of  *)
(* sched_set_priority, if no task needs two ticks to get through the       *)
(* scheduler's own code.                                                   *)
THEOREM RealTimeBound ==
    ASSUME Prompt = Tid
    PROVE  Spec => []RealTime
<1> USE TasksAssumption
<1> DEFINE Late == \A t \in Tid : MostUrgent(t) /\ Period[t] >= 2 => OnTime(t)
<1>1. Init => Late
  BY DEF Init, Late, OnTime, AsCreated, Unborn, Here, Away, Tid, NoTask
<1>2. IInv /\ IInv' /\ Late /\ [Next]_vars => Late'
  BY OnTimeStep DEF MostUrgent
<1>3. IInv /\ Late => RealTime
  <2> SUFFICES ASSUME IInv, Late, NEW t \in Tid, MostUrgent(t)
               PROVE  maxJitter[t] <= 1
    BY DEF RealTime, MostUrgent
  <2>1. maxJitter[t] \in Nat /\ maxJitter[t] <= Period[t] /\ Period[t] \in Nat
    BY DEF IInv, TypeOK
  <2>2. CASE Period[t] >= 2
    BY <2>2 DEF OnTime
  <2>3. CASE ~ (Period[t] >= 2)
    BY <2>1, <2>3
  <2> QED
    BY <2>2, <2>3
<1> HIDE DEF Late
<1> QED
  BY <1>1, <1>2, <1>3, Invariant, PTL DEF Spec
=============================================================================
