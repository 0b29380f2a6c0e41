------------------------- MODULE ThreadRunnerProofs -------------------------
(***************************************************************************)
(* Proofs about ThreadRunnerUse for any number of jobs and any set of      *)
(* threads, under the one condition the code needs: the first              *)
(* pthread_create of a start does not fail.                                *)
(***************************************************************************)
EXTENDS ThreadRunnerUse, TLAPS

\* The start gate has been opened and not yet shut by wait_for_completion.
GateOpen == owner = "joining" \/ (owner = "idle" /\ number_running # 0)

\* One token goes round: it is in the semaphore or with the thread that has
\* acquired it and not yet released it.
OneToken ==
  /\ start_semaphore \in {0, 1}
  /\ start_semaphore = 1 => \A t \in Thread : thread[t] # "gate"
  /\ \A t, u \in Thread : thread[t] = "gate" /\ thread[u] = "gate" => t = u

\* A shut gate holds no token and no thread has gone past it.
GateShut == start_semaphore = 0 /\ \A t \in Thread : thread[t] \in {"free", "created"}

Counters ==
  /\ owner = "creating" => number_running \in 0 .. to_start /\ to_start > 0
  /\ owner = "idle" => number_running >= 0
  /\ owner = "joining" => number_running # 0 /\ joined <= Abs(number_running)
  /\ \A s \in Slot : s < Abs(number_running) => jobs[s] \in Thread
  /\ owner = "creating" => \A s \in Slot : s < number_running => thread[jobs[s]] = "created"

IInv ==
  /\ TypeOK
  /\ Counters
  /\ GateOpen => OneToken
  /\ ~GateOpen => GateShut
  /\ number_running < 0 => \A t \in Thread : thread[t] # "working"
  /\ EveryThreadWillBeJoined

-----------------------------------------------------------------------------
\* The constructor's state satisfies the inductive invariant.
LEMMA InitIInv == Init => IInv
BY JobsAssumption
   DEF Init, ThreadRunnerInit, IInv, TypeOK, ThreadRunnerType, ThreadState, Counters, Abs,
       Slot, GateOpen, OneToken, GateShut, EveryThreadWillBeJoined

\* Every step of the owner and of the threads preserves it.
LEMMA StepIInv ==
  ASSUME ~FirstCreateMayFail, IInv, [Next]_vars
  PROVE  IInv'
<1> USE JobsAssumption DEF IInv, TypeOK, ThreadRunnerType, ThreadState, Counters, Abs, Slot,
                           GateOpen, OneToken, GateShut, EveryThreadWillBeJoined
<1>1. ASSUME NEW n \in 0 .. NumberOfJobs + 1, Start(n)
      PROVE  IInv'
  BY <1>1 DEF Start, ToStart, threadRunnerVars
<1>2. ASSUME NEW t \in Thread, Create(t)
      PROVE  IInv'
  BY <1>2 DEF Create, CreateThread
<1>3. ASSUME NEW t \in Thread, StartOne(t)
      PROVE  IInv'
  BY <1>3 DEF StartOne, CreateThread
<1>4. CASE CreateFails
  BY <1>4 DEF CreateFails
<1>5. CASE Started
  BY <1>5 DEF Started
<1>6. CASE WaitForCompletion
  BY <1>6 DEF WaitForCompletion, threadRunnerVars
<1>7. CASE Join
  BY <1>7 DEF Join, JoinThread
<1>8. CASE Completed
  BY <1>8 DEF Completed
<1>9. ASSUME NEW t \in Thread, GateAcquire(t), UNCHANGED <<owner, to_start, joined>>
      PROVE  IInv'
  BY <1>9 DEF GateAcquire
<1>10. ASSUME NEW t \in Thread, GateRelease(t), UNCHANGED <<owner, to_start, joined>>
       PROVE  IInv'
  BY <1>10 DEF GateRelease
<1>11. ASSUME NEW t \in Thread, EnterJob(t), UNCHANGED <<owner, to_start, joined>>
       PROVE  IInv'
  BY <1>11 DEF EnterJob
<1>12. ASSUME NEW t \in Thread, LeaveJob(t), UNCHANGED <<owner, to_start, joined>>
       PROVE  IInv'
  BY <1>12 DEF LeaveJob
<1>13. CASE UNCHANGED vars
  BY <1>13 DEF vars
<1>14. QED
  BY <1>1, <1>2, <1>3, <1>4, <1>5, <1>6, <1>7, <1>8, <1>9, <1>10, <1>11, <1>12, <1>13
     DEF Next, ThreadStep

\* IInv holds in every reachable state.
THEOREM Invariance ==
  ASSUME ~FirstCreateMayFail
  PROVE  Spec => []IInv
BY InitIInv, StepIInv, PTL DEF Spec

\* Type correctness of the runner under one owner.
THEOREM TypeCorrect ==
  ASSUME ~FirstCreateMayFail
  PROVE  Spec => []TypeOK
<1>1. IInv => TypeOK
  BY DEF IInv
<1>2. QED
  BY <1>1, Invariance, PTL

\* start is all or nothing: no job runs while threads are still being created,
\* nor after one of the creations failed.
THEOREM AllOrNothing ==
  ASSUME ~FirstCreateMayFail
  PROVE  Spec => []NoJobUnlessAllCreated
<1>1. IInv => NoJobUnlessAllCreated
  BY DEF IInv, NoJobUnlessAllCreated, GateOpen, GateShut
<1>2. QED
  BY <1>1, Invariance, PTL

\* After wait_for_completion, or a start that threw, the runner is as the
\* constructor left it: no thread exists and the gate is shut.
THEOREM FreshWhenIdle ==
  ASSUME ~FirstCreateMayFail
  PROVE  Spec => []IdleRunnerIsFresh
<1>1. IInv => IdleRunnerIsFresh
  BY JobsAssumption DEF IInv, TypeOK, ThreadRunnerType, IdleRunnerIsFresh, GateOpen, GateShut,
                        EveryThreadWillBeJoined, Slot, Abs
<1>2. QED
  BY <1>1, Invariance, PTL

\* Every thread that exists sits in a slot that wait_for_completion will join.
THEOREM NoThreadForgotten ==
  ASSUME ~FirstCreateMayFail
  PROVE  Spec => []EveryThreadWillBeJoined
<1>1. IInv => EveryThreadWillBeJoined
  BY DEF IInv
<1>2. QED
  BY <1>1, Invariance, PTL

-----------------------------------------------------------------------------
\* Each step of the runner is a step of the abstract job group, or leaves it
\* unchanged.
LEMMA StepRefines ==
  ASSUME ~FirstCreateMayFail, IInv, IInv', [Next]_vars
  PROVE  [Group!Next]_(Group!groupVars)
<1> USE JobsAssumption DEF IInv, TypeOK, ThreadRunnerType, ThreadState, Counters, Abs, Slot,
                           GateOpen, OneToken, GateShut, EveryThreadWillBeJoined,
                           Group!Next, Group!groupVars
<1>1. ASSUME NEW n \in 0 .. NumberOfJobs + 1, Start(n)
      PROVE  Group!BeginStart
  BY <1>1 DEF Start, ToStart, threadRunnerVars, Group!BeginStart
<1>2. ASSUME NEW t \in Thread, Create(t)
      PROVE  Group!Recruit(t)
  BY <1>2 DEF Create, CreateThread, Group!Recruit
<1>3. ASSUME NEW t \in Thread, StartOne(t)
      PROVE  Group!Recruit(t)
  BY <1>3 DEF StartOne, CreateThread, Group!Recruit
<1>4. CASE CreateFails
  BY <1>4 DEF CreateFails
<1>5. ASSUME Started
      PROVE  Group!Launch
  <2>1. 0 \in Slot /\ jobs[0] \in Thread /\ thread[jobs[0]] = "created"
    BY <1>5 DEF Started
  <2>2. QED
    BY <1>5, <2>1 DEF Started, Group!Launch
<1>6. CASE WaitForCompletion
  BY <1>6 DEF WaitForCompletion, threadRunnerVars
<1>7. CASE Join
  BY <1>7 DEF Join, JoinThread
<1>8. ASSUME Completed
      PROVE  Group!Over \/ Group!GiveUp
  BY <1>8 DEF Completed, Group!Over, Group!GiveUp
<1>9. ASSUME NEW t \in Thread, GateAcquire(t), UNCHANGED <<owner, to_start, joined>>
      PROVE  UNCHANGED Group!groupVars
  BY <1>9 DEF GateAcquire
<1>10. ASSUME NEW t \in Thread, GateRelease(t), UNCHANGED <<owner, to_start, joined>>
       PROVE  UNCHANGED Group!groupVars
  BY <1>10 DEF GateRelease
<1>11. ASSUME NEW t \in Thread, EnterJob(t), UNCHANGED <<owner, to_start, joined>>
       PROVE  Group!Run(t) \/ Group!Dismiss(t)
  BY <1>11 DEF EnterJob, Group!Run, Group!Dismiss
<1>12. ASSUME NEW t \in Thread, LeaveJob(t), UNCHANGED <<owner, to_start, joined>>
       PROVE  Group!End(t)
  BY <1>12 DEF LeaveJob, Group!End
<1>13. CASE UNCHANGED vars
  BY <1>13 DEF vars
<1>14. QED
  BY <1>1, <1>2, <1>3, <1>4, <1>5, <1>6, <1>7, <1>8, <1>9, <1>10, <1>11, <1>12, <1>13
     DEF Next, ThreadStep

\* The runner implements the job group its comments describe.
THEOREM Refinement ==
  ASSUME ~FirstCreateMayFail
  PROVE  Spec => ImplementsJobGroup
<1>1. Init => Group!Init
  BY DEF Init, ThreadRunnerInit, Group!Init
<1>2. QED
  BY <1>1, Invariance, StepRefines, PTL DEF Spec, ImplementsJobGroup, Group!Spec

=============================================================================
