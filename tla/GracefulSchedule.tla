--------------------------- MODULE GracefulSchedule ---------------------------
(***************************************************************************)
(* What Scheduler promises its owner, without cron instances, locks or     *)
(* call stacks: a set of jobs is active, a job may only begin while it is  *)
(* active, and a set of jobs is installed only once every run of the set   *)
(* before it has ended.                                                    *)
(***************************************************************************)

CONSTANT Job

VARIABLES
  active,    \* the jobs that can begin; empty while nothing is scheduled
  busy,      \* the jobs that have a run in flight
  closed     \* no set will be installed any more

vars == <<active, busy, closed>>

TypeOK ==
  /\ active \subseteq Job
  /\ busy \subseteq Job
  /\ closed \in BOOLEAN

Init ==
  /\ active = {}
  /\ busy = {}
  /\ closed = FALSE

Begin(j) ==
  /\ j \in active
  /\ busy' = busy \cup {j}
  /\ UNCHANGED <<active, closed>>

End(j) ==
  /\ busy' = busy \ {j}
  /\ UNCHANGED <<active, closed>>

Suspend ==
  /\ active' = {}
  /\ UNCHANGED <<busy, closed>>

Install(S) ==
  /\ ~closed
  /\ active = {}
  /\ busy = {}
  /\ active' = S
  /\ UNCHANGED <<busy, closed>>

Close ==
  /\ active' = {}
  /\ closed' = TRUE
  /\ UNCHANGED busy

Next ==
  \/ \E j \in Job : Begin(j) \/ End(j)
  \/ \E S \in SUBSET Job : Install(S)
  \/ Suspend
  \/ Close

Spec == Init /\ [][Next]_vars

(* Runs of two configurations never overlap: whatever is in flight while   *)
(* something is active belongs to the active set (what ReplaceJobs'        *)
(* comment calls a graceful replacement).                                  *)
OneConfiguration == active # {} => busy \subseteq active
===============================================================================
