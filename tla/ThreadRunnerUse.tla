--------------------------- MODULE ThreadRunnerUse ---------------------------
(***************************************************************************)
(* ThreadRunner driven by one owner thread, which is what its comments     *)
(* require ("Thread unsafe"): start, start_one and wait_for_completion in  *)
(* any order, thread creation failing at any point.                        *)
(***************************************************************************)
EXTENDS ThreadRunner

CONSTANT FirstCreateMayFail   \* may pthread_create fail for slot 0 of a start?

ASSUME FailAssumption == FirstCreateMayFail \in BOOLEAN

VARIABLES owner,      \* idle, creating (in start), joining (in wait_for_completion)
          to_start,   \* argument of start after the clamping
          joined      \* loop counter of wait_for_completion

vars == <<number_running, start_semaphore, jobs, thread, owner, to_start, joined>>

TypeOK ==
  /\ ThreadRunnerType
  /\ owner \in {"idle", "creating", "joining"}
  /\ to_start \in 0 .. NumberOfJobs
  /\ joined \in 0 .. NumberOfJobs

Init ==
  /\ ThreadRunnerInit
  /\ owner = "idle"
  /\ to_start = 0
  /\ joined = 0

-----------------------------------------------------------------------------
\* start: AlreadyStarted unless number_running_ is 0.
Start(n) ==
  /\ owner = "idle"
  /\ number_running = 0
  /\ owner' = "creating"
  /\ to_start' = ToStart(n)
  /\ UNCHANGED <<threadRunnerVars, joined>>

\* One turn of start's loop: start_one_thread_ succeeds.
Create(t) ==
  /\ owner = "creating"
  /\ number_running < to_start
  /\ CreateThread(number_running, t)
  /\ number_running' = number_running + 1
  /\ UNCHANGED <<start_semaphore, owner, to_start, joined>>

\* start_one_thread_ throws: the handler negates number_running_, opens the
\* gate and calls wait_for_completion, which returns at once on a zero counter.
CreateFails ==
  /\ owner = "creating"
  /\ number_running < to_start
  /\ number_running > 0 \/ FirstCreateMayFail
  /\ number_running' = -number_running
  /\ start_semaphore' = start_semaphore + 1
  /\ owner' = IF number_running = 0 THEN "idle" ELSE "joining"
  /\ joined' = 0
  /\ UNCHANGED <<jobs, thread, to_start>>

\* Mutant: start returns without opening the gate.
Started_GateShut ==
  /\ owner = "creating"
  /\ number_running = to_start
  /\ owner' = "idle"
  /\ UNCHANGED <<number_running, start_semaphore, jobs, thread, to_start, joined>>

\* The loop is over: start opens the gate and returns.
Started ==
  /\ owner = "creating"
  /\ number_running = to_start
  /\ start_semaphore' = start_semaphore + 1
  /\ owner' = "idle"
  /\ UNCHANGED <<number_running, jobs, thread, to_start, joined>>

\* Mutant: the additional thread is not counted.
StartOne_NotCounted(t) ==
  /\ owner = "idle"
  /\ number_running > 0
  /\ number_running # NumberOfJobs
  /\ CreateThread(number_running, t)
  /\ UNCHANGED <<number_running, start_semaphore, owner, to_start, joined>>

\* start_one on a started runner (its only caller, TaskRunnerJob::add_thread,
\* returns when running() is 0); it throws when every slot is taken.
StartOne(t) ==
  /\ owner = "idle"
  /\ number_running > 0
  /\ number_running # NumberOfJobs
  /\ CreateThread(number_running, t)
  /\ number_running' = number_running + 1
  /\ UNCHANGED <<start_semaphore, owner, to_start, joined>>

WaitForCompletion ==
  /\ owner = "idle"
  /\ number_running # 0
  /\ owner' = "joining"
  /\ joined' = 0
  /\ UNCHANGED <<threadRunnerVars, to_start>>

Join ==
  /\ owner = "joining"
  /\ joined < Abs(number_running)
  /\ JoinThread(joined)
  /\ joined' = joined + 1
  /\ UNCHANGED <<number_running, start_semaphore, jobs, owner, to_start>>

\* Mutant: the gate is left open.
Completed_GateOpen ==
  /\ owner = "joining"
  /\ joined = Abs(number_running)
  /\ number_running' = 0
  /\ owner' = "idle"
  /\ UNCHANGED <<start_semaphore, jobs, thread, to_start, joined>>

\* Mutant: the join loop stops one thread early.
Completed_OneUnjoined ==
  /\ owner = "joining"
  /\ joined >= Abs(number_running) - 1
  /\ start_semaphore > 0
  /\ start_semaphore' = start_semaphore - 1
  /\ number_running' = 0
  /\ owner' = "idle"
  /\ UNCHANGED <<jobs, thread, to_start, joined>>

\* All joined: close the gate, forget the threads, return (or rethrow).
Completed ==
  /\ owner = "joining"
  /\ joined = Abs(number_running)
  /\ start_semaphore > 0
  /\ start_semaphore' = start_semaphore - 1
  /\ number_running' = 0
  /\ owner' = "idle"
  /\ UNCHANGED <<jobs, thread, to_start, joined>>

ThreadStep(t) == GateAcquire(t) \/ GateRelease(t) \/ EnterJob(t) \/ LeaveJob(t)

Next ==
  \/ \E n \in 0 .. NumberOfJobs + 1 : Start(n)
  \/ \E t \in Thread : Create(t) \/ StartOne(t)
  \/ CreateFails \/ Started \/ WaitForCompletion \/ Join \/ Completed
  \/ \E t \in Thread : ThreadStep(t) /\ UNCHANGED <<owner, to_start, joined>>

Spec == Init /\ [][Next]_vars

\* The owner finishes the call it is in; threads run; every job ends.
Fairness ==
  /\ WF_vars((\E t \in Thread : Create(t)) \/ CreateFails \/ Started \/ Join \/ Completed)
  /\ \A t \in Thread :
       /\ SF_vars(GateAcquire(t) /\ UNCHANGED <<owner, to_start, joined>>)
       /\ WF_vars((GateRelease(t) \/ EnterJob(t) \/ LeaveJob(t)) /\ UNCHANGED <<owner, to_start, joined>>)

FairSpec == Spec /\ Fairness

-----------------------------------------------------------------------------
(* Properties. *)

\* "If creation of a thread fails, no jobs will run" (ThreadRunner.hpp, start):
\* no thread is inside job.work() while start still creates threads or while
\* it unwinds after a failure.
NoJobUnlessAllCreated ==
  owner = "creating" \/ number_running < 0 => \A t \in Thread : thread[t] # "working"

\* Between a completed wait_for_completion (or failed start) and the next start
\* no thread of the runner exists and the gate is shut again, so the next start
\* begins from the state the constructor left.
IdleRunnerIsFresh ==
  owner = "idle" /\ number_running = 0
    => start_semaphore = 0 /\ \A t \in Thread : thread[t] = "free"

\* start_one_thread_ stores each thread_id in jobs_[number_running_] and
\* wait_for_completion joins the first abs(number_running_) slots: every thread
\* that exists is in a slot still to be joined, so none outlives the wait.
EveryThreadWillBeJoined ==
  \A t \in Thread : thread[t] # "free" =>
    \E s \in Slot : /\ jobs[s] = t
                    /\ s < Abs(number_running)
                    /\ owner = "joining" => joined <= s

\* start and wait_for_completion return, whichever pthread_create fails, as
\* long as every job ends.
CallsReturn == owner # "idle" ~> owner = "idle"

\* Group of jobs the runner stands for: a failed start is still "starting"
\* until its threads are joined.
Group == INSTANCE JobGroup WITH
  Worker <- Thread,
  phase <- IF owner = "creating" \/ number_running < 0 THEN "starting"
           ELSE IF number_running > 0 THEN "launched" ELSE "idle",
  members <- {t \in Thread : thread[t] \in {"created", "gate", "passed", "working"}},
  running <- {t \in Thread : thread[t] = "working"}

\* The runner implements JobGroup: all-or-nothing launch, jobs only in a
\* launched group, completion only after the last job.
ImplementsJobGroup == Group!Spec

=============================================================================
