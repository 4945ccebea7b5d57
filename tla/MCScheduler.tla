---------------------------- MODULE MCScheduler ----------------------------
(* Task sets for the scheduler's runs; task numbers follow creation order. *)
EXTENDS Scheduler

Pick(a, b, c) == [t \in 0 .. 2 |-> CASE t = 0 -> a [] t = 1 -> b [] OTHER -> c]

(* Three tasks that use every call, two of them of equal priority. *)
ApiPrio == Pick(-1, 1, 1)
ApiPeriod == Pick(2, 0, 0)
ApiCalls == Pick({"period", "return"}, {"sleep", "yield", "period", "wake", "renice", "exit"}, {})

(* The shape of kmain: rt, a task below it that sleeps and has a period   *)
(* that is no multiple of rt's, and idle.                                  *)
KernPrio == Pick(0, 1, 40)
KernPeriod == Pick(3, 2, 0)
KernCalls == Pick({"period"}, {"sleep", "period"}, {})

All == Tid
=============================================================================
