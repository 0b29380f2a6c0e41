---------------------------- MODULE ThreadRunner ----------------------------
(***************************************************************************)
(* State and steps of Generics::ThreadRunner (Generics/ThreadRunner.cpp):  *)
(* an array of job slots, the pthreads created for them, the counter       *)
(* number_running_ and the semaphore every new thread passes before it     *)
(* looks at that counter and runs its job.                                 *)
(*                                                                         *)
(* The steps are those of the created threads (thread_func_) and the       *)
(* pieces of start, start_one and wait_for_completion.  Who calls them is  *)
(* left to the modules that extend this one: ThreadRunnerUse (one owner,   *)
(* as the class comment demands) and TaskRunner (two mutexes).             *)
(***************************************************************************)
EXTENDS Integers

CONSTANTS NumberOfJobs,   \* number_of_jobs_
          Thread          \* identities pthread_create can return

ASSUME JobsAssumption == NumberOfJobs \in Nat \ {0}

VARIABLES number_running,   \* number_running_: started threads, negated by a failed start
          start_semaphore,  \* value of start_semaphore_
          jobs,             \* slot -> thread_id stored in jobs_[slot]
          thread            \* where each thread is in thread_func_

threadRunnerVars == <<number_running, start_semaphore, jobs, thread>>

NoThread == "none"          \* jobs_[slot].thread_id before the slot is used
Slot == 0 .. NumberOfJobs - 1

\* free: not created, or joined.  created: before start_semaphore_.acquire().
\* gate: between acquire and release.  passed: before the test of
\* number_running_.  working: in job.work().  done: returned, not yet joined.
ThreadState == {"free", "created", "gate", "passed", "working", "done"}

Abs(n) == IF n < 0 THEN -n ELSE n

ThreadRunnerType ==
  /\ number_running \in -NumberOfJobs .. NumberOfJobs
  /\ start_semaphore \in Nat
  /\ jobs \in [Slot -> Thread \cup {NoThread}]
  /\ thread \in [Thread -> ThreadState]

ThreadRunnerInit ==
  /\ number_running = 0
  /\ start_semaphore = 0
  /\ jobs = [s \in Slot |-> NoThread]
  /\ thread = [t \in Thread |-> "free"]

-----------------------------------------------------------------------------
\* pthread_create of start_one_thread_: slot n gets a new thread t.  The
\* increment of number_running_ that follows belongs to the caller's step.
CreateThread(n, t) ==
  /\ thread[t] = "free"
  /\ jobs' = [jobs EXCEPT ![n] = t]
  /\ thread' = [thread EXCEPT ![t] = "created"]

\* Mutant: more threads asked for than there are slots.
ToStart_NoClamp(to_start) ==
  IF to_start = 0 THEN NumberOfJobs ELSE to_start

\* start's choice of how many threads to create.
ToStart(to_start) ==
  IF to_start = 0 \/ to_start > NumberOfJobs THEN NumberOfJobs ELSE to_start

\* pthread_join of wait_for_completion for slot i: blocks until the thread ends.
JoinThread(i) ==
  /\ thread[jobs[i]] = "done"
  /\ thread' = [thread EXCEPT ![jobs[i]] = "free"]

-----------------------------------------------------------------------------
(* thread_func_ of thread t. *)

GateAcquire(t) ==
  /\ thread[t] = "created"
  /\ start_semaphore > 0
  /\ start_semaphore' = start_semaphore - 1
  /\ thread' = [thread EXCEPT ![t] = "gate"]
  /\ UNCHANGED <<number_running, jobs>>

GateRelease(t) ==
  /\ thread[t] = "gate"
  /\ start_semaphore' = start_semaphore + 1
  /\ thread' = [thread EXCEPT ![t] = "passed"]
  /\ UNCHANGED <<number_running, jobs>>

\* Mutant: the job is run without looking at number_running_.
EnterJob_Unchecked(t) ==
  /\ thread[t] = "passed"
  /\ thread' = [thread EXCEPT ![t] = "working"]
  /\ UNCHANGED <<number_running, start_semaphore, jobs>>

EnterJob(t) ==
  /\ thread[t] = "passed"
  /\ thread' = [thread EXCEPT ![t] = IF number_running > 0 THEN "working" ELSE "done"]
  /\ UNCHANGED <<number_running, start_semaphore, jobs>>

\* job.work() and on_stop() return.
LeaveJob(t) ==
  /\ thread[t] = "working"
  /\ thread' = [thread EXCEPT ![t] = "done"]
  /\ UNCHANGED <<number_running, start_semaphore, jobs>>

=============================================================================
