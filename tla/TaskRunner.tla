----------------------------- MODULE TaskRunner -----------------------------
(***************************************************************************)
(* Generics::TaskRunner (Generics/TaskRunner.cpp): an ActiveObject whose   *)
(* threads take tasks from a queue.  new_task_ counts wake-ups for the     *)
(* workers, not_full_ the free places of a limited queue; both semaphores  *)
(* are used outside the mutex that protects the queue.                     *)
(***************************************************************************)
EXTENDS ActiveObjectCommonImpl, Sequences, FiniteSets

CONSTANTS Task,          \* tasks clients enqueue
          Producer,      \* clients that call enqueue_task and clear
          Controller,    \* clients that call activate_object and wait_object
          Stopper,       \* clients that call deactivate_object
          MaxPending,    \* max_pending_tasks, 0 for no limit
          UnusedModulus, \* 2^width of number_of_unused_threads_
          MaxTokens      \* bound: no activation and no new task while new_task_ is above it

ASSUME TaskRunnerAssumption ==
  /\ MaxPending \in Nat
  /\ UnusedModulus \in Nat /\ StartThreads < UnusedModulus
  /\ MaxTokens \in Nat
  /\ Producer \cup Controller \cup Stopper \subseteq Client
  /\ IsFiniteSet(Client) /\ IsFiniteSet(Thread) /\ Client \cap Thread = {}
  /\ Nobody \notin Client

VARIABLES tasks,      \* tasks_
          new_task,   \* value of new_task_
          not_full,   \* value of not_full_
          unused,     \* number_of_unused_threads_
          worker,     \* where each thread is in TaskRunnerJob::work
          hand        \* task a client or a thread holds in a local variable

taskVars == <<tasks, new_task, not_full, unused, worker, hand>>
vars == <<threadRunnerVars, activeObjectVars, taskVars>>

NoTask == "no task"
LIMITED == MaxPending # 0
NUMBER_OF_THREADS == NumberOfJobs
Unsigned(n) == n % UnusedModulus   \* arithmetic of number_of_unused_threads_

ProducerLabel == {"push", "add", "count", "wake"}
WorkerLabel == {"out", "acquire", "lock", "release", "execute", "finish"}

Queued == {tasks[i] : i \in 1 .. Len(tasks)}

TypeOK ==
  /\ ThreadRunnerType
  /\ active_state \in {"ACTIVE", "DEACTIVATING", "NOT_ACTIVE"}
  /\ terminating \in BOOLEAN
  /\ work_mutex \in Client \cup {Nobody}
  /\ termination_mutex \in Client \cup {Nobody}
  /\ pc \in [Client -> CommonLabel \cup ProducerLabel]
  /\ slot \in [Client -> 0 .. NumberOfJobs]
  /\ tasks \in Seq(Task)
  /\ new_task \in Nat
  /\ not_full \in 0 .. MaxPending
  /\ unused \in 0 .. UnusedModulus - 1
  /\ worker \in [Thread -> WorkerLabel]
  /\ hand \in [Client \cup Thread -> Task \cup {NoTask}]

Init ==
  /\ ActiveObjectInit
  /\ tasks = <<>>
  /\ new_task = 0
  /\ not_full = MaxPending
  /\ unused = 0
  /\ worker = [t \in Thread |-> "out"]
  /\ hand = [x \in Client \cup Thread |-> NoTask]

-----------------------------------------------------------------------------
(* ActiveObjectCommonImpl with the job's started() and terminate(). *)

ActivateRunner(c) ==
  /\ new_task <= MaxTokens
  /\ Activate(c)
  /\ UNCHANGED taskVars

ActivateRunnerEnd(c) ==
  /\ ActivateEnd(c)
  /\ unused' = StartThreads
  /\ UNCHANGED <<tasks, new_task, not_full, worker, hand>>

\* Mutant: terminate() wakes one worker instead of all.
DeactivateRunner_OneToken(c) ==
  /\ Deactivate(c)
  /\ new_task' = new_task + 1
  /\ UNCHANGED <<tasks, not_full, unused, worker, hand>>

DeactivateRunner(c) ==
  /\ Deactivate(c)
  /\ new_task' = new_task + NUMBER_OF_THREADS
  /\ UNCHANGED <<tasks, not_full, unused, worker, hand>>

\* Mutant: the places are released but the tasks stay.
Clear_KeepsTasks(c) ==
  /\ pc[c] = "idle"
  /\ Unlocked
  /\ not_full' = IF LIMITED THEN not_full + Len(tasks) ELSE not_full
  /\ UNCHANGED <<threadRunnerVars, activeObjectVars, tasks, new_task, unused, worker, hand>>

Clear(c) ==
  /\ pc[c] = "idle"
  /\ Unlocked
  /\ tasks' = <<>>
  /\ not_full' = IF LIMITED THEN not_full + Len(tasks) ELSE not_full
  /\ UNCHANGED <<threadRunnerVars, activeObjectVars, new_task, unused, worker, hand>>

-----------------------------------------------------------------------------
(* enqueue_task *)

\* Mutant: the result of timed_acquire is ignored.
EnqueueTask_NoOverflow(c, task) ==
  /\ pc[c] = "idle"
  /\ task \notin Queued /\ \A x \in Client \cup Thread : hand[x] # task
  /\ new_task <= MaxTokens
  /\ not_full' = IF LIMITED /\ not_full > 0 THEN not_full - 1 ELSE not_full
  /\ hand' = [hand EXCEPT ![c] = task]
  /\ Goto(c, "push")
  /\ UNCHANGED <<threadRunnerVars, active_state, terminating, work_mutex, termination_mutex,
                 slot, tasks, new_task, unused, worker>>

\* A place in the queue is taken before the mutex; without one (at once, or
\* until the timeout) enqueue_task throws Overflow and nothing has changed.
EnqueueTask(c, task) ==
  /\ pc[c] = "idle"
  /\ task \notin Queued /\ \A x \in Client \cup Thread : hand[x] # task   \* bound: one copy of each task
  /\ new_task <= MaxTokens
  /\ LIMITED => not_full > 0
  /\ not_full' = IF LIMITED THEN not_full - 1 ELSE not_full
  /\ hand' = [hand EXCEPT ![c] = task]
  /\ Goto(c, "push")
  /\ UNCHANGED <<threadRunnerVars, active_state, terminating, work_mutex, termination_mutex,
                 slot, tasks, new_task, unused, worker>>

\* Mutant: the exception path forgets the place.
PushFails_LeaksPlace(c) ==
  /\ pc[c] = "push"
  /\ Unlocked
  /\ hand' = [hand EXCEPT ![c] = NoTask]
  /\ Goto(c, "idle")
  /\ UNCHANGED <<threadRunnerVars, active_state, terminating, work_mutex, termination_mutex,
                 slot, tasks, new_task, not_full, unused, worker>>

\* push_back throws: the place is given back and the exception goes on.
PushFails(c) ==
  /\ pc[c] = "push"
  /\ Unlocked
  /\ not_full' = IF LIMITED THEN not_full + 1 ELSE not_full
  /\ hand' = [hand EXCEPT ![c] = NoTask]
  /\ Goto(c, "idle")
  /\ UNCHANGED <<threadRunnerVars, active_state, terminating, work_mutex, termination_mutex,
                 slot, tasks, new_task, unused, worker>>

\* add_thread's tests, made with the new task in the queue.
WantsThread(queue) ==
  /\ number_running # 0
  /\ number_running # NumberOfJobs
  /\ Len(queue) > unused

Push(c) ==
  /\ pc[c] = "push"
  /\ Unlocked
  /\ tasks' = Append(tasks, hand[c])
  /\ hand' = [hand EXCEPT ![c] = NoTask]
  /\ work_mutex' = IF WantsThread(tasks') THEN c ELSE Nobody
  /\ Goto(c, IF WantsThread(tasks') THEN "add" ELSE "wake")
  /\ UNCHANGED <<threadRunnerVars, active_state, terminating, termination_mutex,
                 slot, new_task, not_full, unused, worker>>

\* start_one creates the thread for the slot number_running_ names now.
AddThread(c, t) ==
  /\ pc[c] = "add"
  /\ number_running # NumberOfJobs
  /\ CreateThread(number_running, t)
  /\ slot' = [slot EXCEPT ![c] = number_running]
  /\ Goto(c, "count")
  /\ UNCHANGED <<number_running, start_semaphore, active_state, terminating, work_mutex,
                 termination_mutex, taskVars>>

\* start_one throws (no slot left, or pthread_create failed): a warning.
AddThreadFails(c) ==
  /\ pc[c] = "add"
  /\ number_running = NumberOfJobs \/ CreateMayFail
  /\ work_mutex' = Nobody
  /\ Goto(c, "wake")
  /\ UNCHANGED <<threadRunnerVars, active_state, terminating, termination_mutex, slot, taskVars>>

\* Mutant: add_thread does not count the new thread as unused.
CountThread_NotUnused(c) ==
  /\ pc[c] = "count"
  /\ number_running' \in {slot[c] + 1, number_running + 1}
  /\ work_mutex' = Nobody
  /\ Goto(c, "wake")
  /\ UNCHANGED <<start_semaphore, jobs, thread, active_state, terminating, termination_mutex,
                 slot, tasks, new_task, not_full, unused, worker, hand>>

\* number_running_++ of start_one_thread_, and the end of add_thread.  The
\* increment reads the counter again, before or after wait_for_completion, which
\* does not take the mutex, resets it.
CountThread(c) ==
  /\ pc[c] = "count"
  /\ number_running' \in {slot[c] + 1, number_running + 1}
  /\ unused' = Unsigned(unused + 1)
  /\ work_mutex' = Nobody
  /\ Goto(c, "wake")
  /\ UNCHANGED <<start_semaphore, jobs, thread, active_state, terminating, termination_mutex,
                 slot, tasks, new_task, not_full, worker, hand>>

\* Mutant: no wake-up for a task enqueued while the object is not active.
Wake_IfActive(c) ==
  /\ pc[c] = "wake"
  /\ new_task' = IF active_state = "ACTIVE" THEN new_task + 1 ELSE new_task
  /\ Goto(c, "idle")
  /\ UNCHANGED <<threadRunnerVars, active_state, terminating, work_mutex, termination_mutex,
                 slot, tasks, not_full, unused, worker, hand>>

Wake(c) ==
  /\ pc[c] = "wake"
  /\ new_task' = new_task + 1
  /\ Goto(c, "idle")
  /\ UNCHANGED <<threadRunnerVars, active_state, terminating, work_mutex, termination_mutex,
                 slot, tasks, not_full, unused, worker, hand>>

-----------------------------------------------------------------------------
(* TaskRunnerJob::work of thread t *)

WorkBegin(t) ==
  /\ EnterJob(t)
  /\ worker' = [worker EXCEPT ![t] = IF thread'[t] = "working" THEN "acquire" ELSE "out"]
  /\ UNCHANGED <<activeObjectVars, tasks, new_task, not_full, unused, hand>>

AcquireTask(t) ==
  /\ worker[t] = "acquire"
  /\ new_task > 0
  /\ new_task' = new_task - 1
  /\ worker' = [worker EXCEPT ![t] = "lock"]
  /\ UNCHANGED <<threadRunnerVars, activeObjectVars, tasks, not_full, unused, hand>>

WorkEnd(t) ==
  /\ worker[t] = "lock"
  /\ Unlocked
  /\ terminating
  /\ LeaveJob(t)
  /\ worker' = [worker EXCEPT ![t] = "out"]
  /\ UNCHANGED <<activeObjectVars, tasks, new_task, not_full, unused, hand>>

\* Mutant: an empty queue ends the worker (break instead of continue).
NothingToDo_Leaves(t) ==
  /\ worker[t] = "lock"
  /\ Unlocked
  /\ ~terminating
  /\ tasks = <<>>
  /\ LeaveJob(t)
  /\ worker' = [worker EXCEPT ![t] = "out"]
  /\ UNCHANGED <<activeObjectVars, tasks, new_task, not_full, unused, hand>>

NothingToDo(t) ==
  /\ worker[t] = "lock"
  /\ Unlocked
  /\ ~terminating
  /\ tasks = <<>>
  /\ worker' = [worker EXCEPT ![t] = "acquire"]
  /\ UNCHANGED <<threadRunnerVars, activeObjectVars, tasks, new_task, not_full, unused, hand>>

TakeTask(t) ==
  /\ worker[t] = "lock"
  /\ Unlocked
  /\ ~terminating
  /\ tasks # <<>>
  /\ hand' = [hand EXCEPT ![t] = Head(tasks)]
  /\ tasks' = Tail(tasks)
  /\ unused' = Unsigned(unused - 1)
  /\ worker' = [worker EXCEPT ![t] = "release"]
  /\ UNCHANGED <<threadRunnerVars, activeObjectVars, new_task, not_full>>

ReleasePlace(t) ==
  /\ worker[t] = "release"
  /\ not_full' = IF LIMITED THEN not_full + 1 ELSE not_full
  /\ worker' = [worker EXCEPT ![t] = "execute"]
  /\ UNCHANGED <<threadRunnerVars, activeObjectVars, tasks, new_task, unused, hand>>

\* task->execute() returns or throws; the exception only goes to the callback.
Execute(t) ==
  /\ worker[t] = "execute"
  /\ hand' = [hand EXCEPT ![t] = NoTask]
  /\ worker' = [worker EXCEPT ![t] = "finish"]
  /\ UNCHANGED <<threadRunnerVars, activeObjectVars, tasks, new_task, not_full, unused>>

FinishTask(t) ==
  /\ worker[t] = "finish"
  /\ Unlocked
  /\ unused' = Unsigned(unused + 1)
  /\ worker' = [worker EXCEPT ![t] = "acquire"]
  /\ UNCHANGED <<threadRunnerVars, activeObjectVars, tasks, new_task, not_full, hand>>

-----------------------------------------------------------------------------
GateStep(t) == (GateAcquire(t) \/ GateRelease(t)) /\ UNCHANGED <<activeObjectVars, taskVars>>

WorkerStep(t) ==
  \/ GateStep(t) \/ WorkBegin(t) \/ WorkEnd(t)
  \/ AcquireTask(t) \/ NothingToDo(t) \/ TakeTask(t) \/ ReleasePlace(t) \/ Execute(t) \/ FinishTask(t)

\* Steps that go on with the call client c is in.
EnqueueStep(c) ==
  \/ PushFails(c) \/ Push(c) \/ AddThreadFails(c) \/ CountThread(c) \/ Wake(c)
  \/ \E t \in Thread : AddThread(c, t)

ControlStep(c) == (LifeCycleStep(c) /\ UNCHANGED taskVars) \/ ActivateRunnerEnd(c)

Next ==
  \/ \E c \in Producer : EnqueueStep(c) \/ Clear(c) \/ \E task \in Task : EnqueueTask(c, task)
  \/ \E c \in Controller : ControlStep(c) \/ ActivateRunner(c) \/ (Wait(c) /\ UNCHANGED taskVars)
  \/ \E c \in Stopper : DeactivateRunner(c)
  \/ \E t \in Thread : WorkerStep(t)

Spec == Init /\ [][Next]_vars

\* Every thread goes on with the call it is in; a thread that waits for a
\* mutex or a semaphore is not passed over for ever; tasks end.  Nobody is
\* forced to make a new call.
Fairness ==
  /\ \A c \in Producer : SF_vars(EnqueueStep(c))
  /\ \A c \in Controller : SF_vars(ControlStep(c))
  /\ \A t \in Thread : SF_vars(WorkerStep(t))

FairSpec == Spec /\ Fairness

-----------------------------------------------------------------------------
(* Properties. *)

ThreadsAt(labels) == {t \in Thread : worker[t] \in labels}
ClientsAt(labels) == {c \in Client : pc[c] \in labels}

\* Every place of a limited queue is free, promised to an enqueue_task that
\* has not pushed yet, holds a task, or belongs to a worker that has taken its
\* task and not yet called not_full_.release(): none leaks and none is made up
\* by an Overflow, a failed push, clear() or a restart.
PlacesConserved ==
  LIMITED => not_full + Cardinality(ClientsAt({"push"})) + Len(tasks)
               + Cardinality(ThreadsAt({"release"})) = MaxPending

\* "maximum task queue length" (TaskRunner.hpp, max_pending_tasks).
QueueBounded == LIMITED => Len(tasks) <= MaxPending

\* No lost wake-up: every queued task is backed by a token of new_task_, by an
\* enqueue_task about to release one or by a worker about to look at the queue,
\* across clear(), termination and restart.
WakeupsCoverTasks ==
  Len(tasks) <= new_task + Cardinality(ClientsAt({"add", "count", "wake"}))
                  + Cardinality(ThreadsAt({"lock"}))

\* wait_object "waits for threads completion" (ActiveObject.hpp): an object that
\* is not active, with no activation under way, has no thread left and can be
\* activated again.
StoppedMeansJoined ==
  active_state = "NOT_ACTIVE" /\ Unlocked
    => number_running = 0 /\ \A t \in Thread : thread[t] = "free"

\* While the object is active number_of_unused_threads_ is the number of
\* started threads not occupied with a task (activation with a given number of
\* threads), so add_thread starts a thread exactly when tasks outnumber them.
UnusedCountsFreeThreads ==
  active_state = "ACTIVE" /\ Unlocked /\ StartThreads \in 1 .. NumberOfJobs
    => unused = number_running - Cardinality(ThreadsAt({"release", "execute", "finish"}))

\* A queued task is taken by a worker, or cleared, unless the object is
\* deactivated.
TasksAreTaken ==
  \A task \in Task : task \in Queued ~> task \notin Queued \/ active_state # "ACTIVE"

\* wait_object "waits for deactivation completion" (ActiveObject.hpp): once
\* deactivate_object has been called it returns.
DeactivationCompletes ==
  \A c \in Controller : pc[c] = "join" /\ active_state = "DEACTIVATING" ~> pc[c] = "idle"

=============================================================================
