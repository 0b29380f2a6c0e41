------------------------------ MODULE JobGroup ------------------------------
(***************************************************************************)
(* What Generics::ThreadRunner promises its owner (comments of start and   *)
(* wait_for_completion, Generics/ThreadRunner.hpp): a group of jobs is     *)
(* launched as a whole or not at all, jobs run only in a launched group,   *)
(* and the group is over only when every one of its jobs has ended.        *)
(***************************************************************************)
EXTENDS FiniteSets

CONSTANT Worker

VARIABLES phase,     \* "idle", "starting" or "launched"
          members,   \* workers of the group that have not ended
          running    \* members that are executing their job

groupVars == <<phase, members, running>>

Init == phase = "idle" /\ members = {} /\ running = {}

BeginStart == phase = "idle" /\ phase' = "starting" /\ UNCHANGED <<members, running>>

Recruit(w) ==
  /\ phase \in {"starting", "launched"}
  /\ w \notin members
  /\ members' = members \cup {w}
  /\ UNCHANGED <<phase, running>>

Launch == phase = "starting" /\ members # {} /\ phase' = "launched" /\ UNCHANGED <<members, running>>

\* A failed start dismisses the workers it had recruited; none of them runs.
Dismiss(w) ==
  /\ phase = "starting"
  /\ w \in members
  /\ members' = members \ {w}
  /\ UNCHANGED <<phase, running>>

GiveUp == phase = "starting" /\ members = {} /\ phase' = "idle" /\ UNCHANGED <<members, running>>

Run(w) ==
  /\ phase = "launched"
  /\ w \in members \ running
  /\ running' = running \cup {w}
  /\ UNCHANGED <<phase, members>>

End(w) ==
  /\ w \in running
  /\ running' = running \ {w}
  /\ members' = members \ {w}
  /\ UNCHANGED phase

Over == phase = "launched" /\ members = {} /\ phase' = "idle" /\ UNCHANGED <<members, running>>

Next ==
  \/ BeginStart \/ Launch \/ GiveUp \/ Over
  \/ \E w \in Worker : Recruit(w) \/ Dismiss(w) \/ Run(w) \/ End(w)

Spec == Init /\ [][Next]_groupVars

=============================================================================
