----------------------- MODULE ActiveObjectCommonImpl -----------------------
(***************************************************************************)
(* Generics::ActiveObjectCommonImpl (Generics/ActiveObject.cpp): the       *)
(* activate / deactivate / wait life cycle of an object whose job runs in  *)
(* the threads of a ThreadRunner.  activate_object and deactivate_object   *)
(* run under work_mutex_; wait_object holds termination_mutex_ and joins   *)
(* the threads without work_mutex_, reading active_state_ and writing      *)
(* terminating_ unlocked, so those are steps of their own here.            *)
(*                                                                         *)
(* The virtual calls into the job, started() and terminate(), are added by *)
(* the modules that extend this one, in the steps that make them.          *)
(***************************************************************************)
EXTENDS ThreadRunner

CONSTANTS Client,          \* threads that use the object
          StartThreads,    \* start_threads_
          CreateMayFail    \* may pthread_create fail after the first thread of a start?

ASSUME ActiveObjectAssumption ==
  StartThreads \in Nat /\ CreateMayFail \in BOOLEAN

VARIABLES active_state,       \* active_state_
          terminating,        \* terminating_ of the SingleJob
          work_mutex,         \* holder of work_mutex_ between steps
          termination_mutex,  \* holder of termination_mutex_
          pc,                 \* where each client is
          slot                \* client's loop counter over jobs_

activeObjectVars == <<active_state, terminating, work_mutex, termination_mutex, pc, slot>>

Nobody == "nobody"
Unlocked == work_mutex = Nobody

CommonLabel == {"idle", "start", "creating", "unwind", "unreset",
                "waiting", "join", "reset", "terminated", "settle"}

Goto(c, label) == pc' = [pc EXCEPT ![c] = label]

ActiveObjectInit ==
  /\ ThreadRunnerInit
  /\ active_state = "NOT_ACTIVE"
  /\ terminating = FALSE
  /\ work_mutex = Nobody
  /\ termination_mutex = Nobody
  /\ pc = [c \in Client |-> "idle"]
  /\ slot = [c \in Client |-> 0]

-----------------------------------------------------------------------------
(* activate_object: holds work_mutex from Activate to ActivateEnd, to      *)
(* StartRejects or to ActivateFails.                                       *)

Activate(c) ==
  /\ pc[c] = "idle"
  /\ Unlocked
  /\ active_state = "NOT_ACTIVE"
  /\ active_state' = "ACTIVE"
  /\ work_mutex' = c
  /\ Goto(c, "start")
  /\ UNCHANGED <<threadRunnerVars, terminating, termination_mutex, slot>>

\* ThreadRunner::start throws AlreadyStarted and activation is undone.
StartRejects(c) ==
  /\ pc[c] = "start"
  /\ number_running # 0
  /\ active_state' = "NOT_ACTIVE"
  /\ work_mutex' = Nobody
  /\ Goto(c, "idle")
  /\ UNCHANGED <<threadRunnerVars, terminating, termination_mutex, slot>>

StartAccepts(c) ==
  /\ pc[c] = "start"
  /\ number_running = 0
  /\ Goto(c, "creating")
  /\ UNCHANGED <<threadRunnerVars, active_state, terminating, work_mutex, termination_mutex, slot>>

CreateOne(c, t) ==
  /\ pc[c] = "creating"
  /\ number_running < ToStart(StartThreads)
  /\ CreateThread(number_running, t)
  /\ number_running' = number_running + 1
  /\ UNCHANGED <<start_semaphore, activeObjectVars>>

CreateFails(c) ==
  /\ pc[c] = "creating"
  /\ CreateMayFail
  /\ 0 < number_running
  /\ number_running < ToStart(StartThreads)
  /\ number_running' = -number_running
  /\ start_semaphore' = start_semaphore + 1
  /\ slot' = [slot EXCEPT ![c] = 0]
  /\ Goto(c, "unwind")
  /\ UNCHANGED <<jobs, thread, active_state, terminating, work_mutex, termination_mutex>>

ActivateFails(c) ==
  /\ pc[c] = "unreset"
  /\ number_running' = 0
  /\ active_state' = "NOT_ACTIVE"
  /\ work_mutex' = Nobody
  /\ Goto(c, "idle")
  /\ UNCHANGED <<start_semaphore, jobs, thread, terminating, termination_mutex, slot>>

ActivateEnd(c) ==
  /\ pc[c] = "creating"
  /\ number_running = ToStart(StartThreads)
  /\ start_semaphore' = start_semaphore + 1
  /\ work_mutex' = Nobody
  /\ Goto(c, "idle")
  /\ UNCHANGED <<number_running, jobs, thread, active_state, terminating, termination_mutex, slot>>

-----------------------------------------------------------------------------
(* deactivate_object *)

Deactivate(c) ==
  /\ pc[c] = "idle"
  /\ Unlocked
  /\ active_state = "ACTIVE"
  /\ active_state' = "DEACTIVATING"
  /\ terminating' = TRUE
  /\ UNCHANGED <<threadRunnerVars, work_mutex, termination_mutex, pc, slot>>

-----------------------------------------------------------------------------
(* wait_object: holds termination_mutex from Wait to Settle. *)

Wait(c) ==
  /\ pc[c] = "idle"
  /\ termination_mutex = Nobody
  /\ termination_mutex' = c
  /\ Goto(c, IF active_state = "NOT_ACTIVE" THEN "settle" ELSE "waiting")
  /\ UNCHANGED <<threadRunnerVars, active_state, terminating, work_mutex, slot>>

WaitRunning(c) ==
  /\ pc[c] = "waiting"
  /\ Goto(c, IF number_running = 0 THEN "terminated" ELSE "join")
  /\ slot' = [slot EXCEPT ![c] = 0]
  /\ UNCHANGED <<threadRunnerVars, active_state, terminating, work_mutex, termination_mutex>>

\* One pthread_join of wait_for_completion, called by wait_object or by a
\* failed start.
JoinNext(c) ==
  /\ pc[c] \in {"join", "unwind"}
  /\ slot[c] < Abs(number_running)
  /\ JoinThread(slot[c])
  /\ slot' = [slot EXCEPT ![c] = @ + 1]
  /\ UNCHANGED <<number_running, start_semaphore, jobs, active_state, terminating,
                 work_mutex, termination_mutex, pc>>

\* Mutant: the join loop stops one thread short.
CloseGate_OneUnjoined(c) ==
  /\ pc[c] \in {"join", "unwind"}
  /\ slot[c] + 1 >= Abs(number_running)
  /\ start_semaphore > 0
  /\ start_semaphore' = start_semaphore - 1
  /\ Goto(c, IF pc[c] = "join" THEN "reset" ELSE "unreset")
  /\ UNCHANGED <<number_running, jobs, thread, active_state, terminating,
                 work_mutex, termination_mutex, slot>>

CloseGate(c) ==
  /\ pc[c] \in {"join", "unwind"}
  /\ slot[c] >= Abs(number_running)
  /\ start_semaphore > 0
  /\ start_semaphore' = start_semaphore - 1
  /\ Goto(c, IF pc[c] = "join" THEN "reset" ELSE "unreset")
  /\ UNCHANGED <<number_running, jobs, thread, active_state, terminating,
                 work_mutex, termination_mutex, slot>>

ResetRunning(c) ==
  /\ pc[c] = "reset"
  /\ number_running' = 0
  /\ Goto(c, "terminated")
  /\ UNCHANGED <<start_semaphore, jobs, thread, active_state, terminating,
                 work_mutex, termination_mutex, slot>>

Terminated(c) ==
  /\ pc[c] = "terminated"
  /\ terminating' = FALSE
  /\ Goto(c, "settle")
  /\ UNCHANGED <<threadRunnerVars, active_state, work_mutex, termination_mutex, slot>>

Settle(c) ==
  /\ pc[c] = "settle"
  /\ Unlocked
  /\ active_state' = IF active_state = "DEACTIVATING" THEN "NOT_ACTIVE" ELSE active_state
  /\ termination_mutex' = Nobody
  /\ Goto(c, "idle")
  /\ UNCHANGED <<threadRunnerVars, terminating, work_mutex, slot>>

-----------------------------------------------------------------------------
\* Steps that go on with the activate_object or wait_object client c is in
\* and make no virtual call.
LifeCycleStep(c) ==
  \/ StartRejects(c) \/ StartAccepts(c) \/ CreateFails(c) \/ ActivateFails(c)
  \/ \E t \in Thread : CreateOne(c, t)
  \/ WaitRunning(c) \/ JoinNext(c) \/ CloseGate(c) \/ ResetRunning(c)
  \/ Terminated(c) \/ Settle(c)

=============================================================================
