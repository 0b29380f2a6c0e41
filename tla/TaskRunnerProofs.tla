-------------------------- MODULE TaskRunnerProofs --------------------------
(***************************************************************************)
(* Proofs about TaskRunner for any number of clients, threads, jobs and    *)
(* tasks, any roles of the clients and any queue limit: the interleavings  *)
(* that lose a thread included.                                            *)
(***************************************************************************)
EXTENDS TaskRunner, FiniteSetTheorems, TLAPS

\* Labels at which a client holds work_mutex_ between two steps.
Locked == {"start", "creating", "unwind", "unreset", "add", "count"}

MutualExclusion ==
  /\ \A c \in Client : work_mutex = c <=> pc[c] \in Locked
  /\ number_running < 0 => \E c \in Client : pc[c] \in {"unwind", "unreset"}

LocalsValid ==
  /\ \A c \in Client : /\ pc[c] = "push" => hand[c] \in Task
                       /\ pc[c] = "count" => slot[c] < NumberOfJobs /\ number_running < NumberOfJobs
  /\ \A t \in Thread : worker[t] # "out" <=> thread[t] = "working"

\* TypeOK but for the range of not_full, which PlacesConserved gives.
StateType ==
  /\ ThreadRunnerType
  /\ active_state \in {"ACTIVE", "DEACTIVATING", "NOT_ACTIVE"}
  /\ terminating \in BOOLEAN
  /\ work_mutex \in Client \cup {Nobody}
  /\ termination_mutex \in Client \cup {Nobody}
  /\ pc \in [Client -> CommonLabel \cup ProducerLabel]
  /\ slot \in [Client -> 0 .. NumberOfJobs]
  /\ tasks \in Seq(Task)
  /\ new_task \in Nat
  /\ unused \in 0 .. UnusedModulus - 1
  /\ worker \in [Thread -> WorkerLabel]
  /\ hand \in [Client \cup Thread -> Task \cup {NoTask}]

ControlInv == StateType /\ MutualExclusion /\ LocalsValid

PlacesInv ==
  /\ not_full \in Nat
  /\ ~LIMITED => not_full = 0
  /\ PlacesConserved

IInv == ControlInv /\ PlacesInv

-----------------------------------------------------------------------------
(* Counting the processes that are at given places of their programs. *)

One(x, S) == IF x \in S THEN 1 ELSE 0

\* When one process moves, the number of processes in a place changes by
\* whether it is there now and whether it was there before.
LEMMA CountMoves ==
  ASSUME NEW A, NEW B, NEW x, IsFiniteSet(A), A \ {x} = B \ {x}
  PROVE  /\ Cardinality(A) \in Nat
         /\ Cardinality(B) \in Nat
         /\ Cardinality(B) = Cardinality(A) + One(x, B) - One(x, A)
<1> DEFINE C == A \ {x}
<1>1. IsFiniteSet(C) /\ x \notin C
  BY FS_Subset
<1>2. Cardinality(C) \in Nat
  BY <1>1, FS_CardinalityType
<1>3. Cardinality(C \cup {x}) = Cardinality(C) + 1
  BY <1>1, FS_AddElement
<1>4. ASSUME NEW S, S \ {x} = C
      PROVE  Cardinality(S) = Cardinality(C) + One(x, S)
  <2>1. CASE x \in S
    <3>1. S = C \cup {x}
      BY <1>4, <2>1
    <3>2. QED
      BY <1>3, <2>1, <3>1 DEF One
  <2>2. CASE x \notin S
    <3>1. S = C
      BY <1>4, <2>2
    <3>2. QED
      BY <1>2, <2>2, <3>1 DEF One
  <2>3. QED
    BY <2>1, <2>2
<1>5. Cardinality(A) = Cardinality(C) + One(x, A) /\ Cardinality(B) = Cardinality(C) + One(x, B)
  BY <1>4
<1>6. QED
  BY <1>2, <1>5 DEF One

-----------------------------------------------------------------------------
(* Types, locals and mutual exclusion. *)

\* number_of_unused_threads_ stays in the range of its type.
LEMMA UnusedRange == \A n \in Int : Unsigned(n) \in 0 .. UnusedModulus - 1
BY TaskRunnerAssumption, ActiveObjectAssumption DEF Unsigned

\* The constructors' state satisfies the inductive invariant.
LEMMA InitIInv == Init => IInv
<1> SUFFICES ASSUME Init
             PROVE  IInv
  OBVIOUS
<1> USE TaskRunnerAssumption, ActiveObjectAssumption, JobsAssumption
<1>1. ControlInv
  <2>1. ThreadRunnerType
    BY DEF Init, ActiveObjectInit, ThreadRunnerInit, ThreadRunnerType, Slot, ThreadState
  <2>2. tasks \in Seq(Task) /\ unused \in 0 .. UnusedModulus - 1
    BY DEF Init
  <2>3. StateType
    <3>1. pc \in [Client -> CommonLabel \cup ProducerLabel] /\ slot \in [Client -> 0 .. NumberOfJobs]
      BY DEF Init, ActiveObjectInit, CommonLabel
    <3>2. worker \in [Thread -> WorkerLabel] /\ hand \in [Client \cup Thread -> Task \cup {NoTask}]
      BY DEF Init, WorkerLabel
    <3>3. QED
      BY <2>1, <2>2, <3>1, <3>2, Zenon DEF Init, ActiveObjectInit, StateType
  <2>4. MutualExclusion /\ LocalsValid
    BY DEF Init, ActiveObjectInit, ThreadRunnerInit, MutualExclusion, LocalsValid, Locked
  <2>5. QED
    BY <2>3, <2>4 DEF ControlInv
<1>2. ClientsAt({"push"}) = {} /\ ThreadsAt({"release"}) = {}
  BY DEF Init, ActiveObjectInit, ClientsAt, ThreadsAt
<1>3. PlacesInv
  <2>1. Cardinality(ClientsAt({"push"})) = 0 /\ Cardinality(ThreadsAt({"release"})) = 0
    BY <1>2, FS_EmptySet, Zenon
  <2>2. not_full = MaxPending /\ Len(tasks) = 0
    BY DEF Init
  <2>3. QED
    BY <2>1, <2>2 DEF PlacesInv, PlacesConserved, LIMITED
<1>4. QED
  BY <1>1, <1>3 DEF IInv

\* A step of activate_object, deactivate_object or wait_object keeps the types
\* and the exclusive use of work_mutex_.
LEMMA LifeCycleControl ==
  ASSUME ControlInv, NEW c \in Client, LifeCycleStep(c), UNCHANGED taskVars
  PROVE  ControlInv'
<1> USE TaskRunnerAssumption, ActiveObjectAssumption, JobsAssumption
    DEF ControlInv, StateType, ThreadRunnerType, Slot, ThreadState, MutualExclusion, LocalsValid,
        Locked, CommonLabel, ProducerLabel, WorkerLabel, Goto, Unlocked, taskVars
<1>1. CASE StartRejects(c)
  BY <1>1 DEF StartRejects, threadRunnerVars
<1>2. CASE StartAccepts(c)
  BY <1>2 DEF StartAccepts, threadRunnerVars
<1>3. CASE CreateFails(c)
  BY <1>3 DEF CreateFails, ToStart
<1>4. CASE ActivateFails(c)
  BY <1>4 DEF ActivateFails
<1>5. ASSUME NEW t \in Thread, CreateOne(c, t)
      PROVE  ControlInv'
  BY <1>5 DEF CreateOne, CreateThread, ToStart, activeObjectVars
<1>6. CASE WaitRunning(c)
  BY <1>6 DEF WaitRunning, threadRunnerVars
<1>7. CASE JoinNext(c)
  <2>1. slot'[c] \in 0 .. NumberOfJobs
    BY <1>7 DEF JoinNext, Abs
  <2>2. /\ thread' \in [Thread -> ThreadState]
        /\ \A t \in Thread : thread'[t] = "working" <=> thread[t] = "working"
    BY <1>7, Zenon DEF JoinNext, JoinThread
  <2>3. QED
    BY <1>7, <2>1, <2>2 DEF JoinNext
<1>8. CASE CloseGate(c)
  BY <1>8 DEF CloseGate
<1>9. CASE ResetRunning(c)
  BY <1>9 DEF ResetRunning
<1>10. CASE Terminated(c)
  <2>1. /\ pc' = [pc EXCEPT ![c] = "settle"] /\ terminating' = FALSE
        /\ UNCHANGED <<threadRunnerVars, active_state, work_mutex, termination_mutex, slot>>
    BY <1>10 DEF Terminated
  <2>2. UNCHANGED <<number_running, start_semaphore, jobs, thread>>
    BY <2>1 DEF threadRunnerVars
  <2>3. StateType'
    BY <2>1, <2>2, Zenon
  <2>4. /\ pc[c] = "terminated"
        /\ \A d \in Client : pc'[d] = IF d = c THEN "settle" ELSE pc[d]
    BY <1>10, <2>1 DEF Terminated
  <2>5. MutualExclusion'
    BY <2>1, <2>2, <2>4
  <2>6. LocalsValid'
    BY <2>1, <2>2, <2>4
  <2>7. QED
    BY <2>3, <2>5, <2>6, Zenon
<1>11. CASE Settle(c)
  BY <1>11 DEF Settle, threadRunnerVars
<1>12. QED
  BY <1>1, <1>2, <1>3, <1>4, <1>5, <1>6, <1>7, <1>8, <1>9, <1>10, <1>11, Zenon DEF LifeCycleStep

\* The same for every other step.
LEMMA StepControl ==
  ASSUME ControlInv, [Next]_vars
  PROVE  ControlInv'
<1> USE TaskRunnerAssumption, ActiveObjectAssumption, JobsAssumption
    DEF ControlInv, StateType, ThreadRunnerType, Slot, ThreadState, MutualExclusion, LocalsValid,
        Locked, CommonLabel, ProducerLabel, WorkerLabel, Goto, Unlocked
<1>1. ASSUME NEW c \in Client, EnqueueStep(c)
      PROVE  ControlInv'
  <2>1. CASE PushFails(c)
    BY <2>1 DEF PushFails, threadRunnerVars
  <2>2. CASE Push(c)
    <3>1. tasks' \in Seq(Task)
      BY <2>2 DEF Push
    <3>2. QED
      BY <2>2, <3>1 DEF Push, WantsThread, threadRunnerVars
  <2>3. ASSUME NEW t \in Thread, AddThread(c, t)
        PROVE  ControlInv'
    BY <2>3 DEF AddThread, CreateThread, taskVars
  <2>4. CASE AddThreadFails(c)
    BY <2>4 DEF AddThreadFails, threadRunnerVars, taskVars
  <2>5. CASE CountThread(c)
    <3>1. unused' \in 0 .. UnusedModulus - 1
      BY <2>5, UnusedRange DEF CountThread
    <3>2. QED
      BY <2>5, <3>1 DEF CountThread
  <2>6. CASE Wake(c)
    BY <2>6 DEF Wake, threadRunnerVars
  <2>7. QED
    BY <1>1, <2>1, <2>2, <2>3, <2>4, <2>5, <2>6, Zenon DEF EnqueueStep
<1>2. ASSUME NEW c \in Client, Clear(c)
      PROVE  ControlInv'
  BY <1>2 DEF Clear, threadRunnerVars, activeObjectVars
<1>3. ASSUME NEW c \in Client, NEW task \in Task, EnqueueTask(c, task)
      PROVE  ControlInv'
  BY <1>3 DEF EnqueueTask, threadRunnerVars
<1>4. ASSUME NEW c \in Client, ControlStep(c)
      PROVE  ControlInv'
  <2>1. CASE ActivateRunnerEnd(c)
    BY <2>1 DEF ActivateRunnerEnd, ActivateEnd
  <2>2. QED
    BY <1>4, <2>1, LifeCycleControl, Zenon DEF ControlStep
<1>5. ASSUME NEW c \in Client, ActivateRunner(c)
      PROVE  ControlInv'
  BY <1>5 DEF ActivateRunner, Activate, threadRunnerVars, taskVars
<1>6. ASSUME NEW c \in Client, Wait(c), UNCHANGED taskVars
      PROVE  ControlInv'
  BY <1>6 DEF Wait, threadRunnerVars, taskVars
<1>7. ASSUME NEW c \in Client, DeactivateRunner(c)
      PROVE  ControlInv'
  BY <1>7 DEF DeactivateRunner, Deactivate, threadRunnerVars, NUMBER_OF_THREADS
<1>8. ASSUME NEW t \in Thread, WorkerStep(t)
      PROVE  ControlInv'
  <2>1. CASE GateStep(t)
    <3>1. CASE GateAcquire(t)
      BY <2>1, <3>1 DEF GateStep, GateAcquire, activeObjectVars, taskVars
    <3>2. CASE GateRelease(t)
      BY <2>1, <3>2 DEF GateStep, GateRelease, activeObjectVars, taskVars
    <3>3. QED
      BY <2>1, <3>1, <3>2, Zenon DEF GateStep
  <2>2. CASE WorkBegin(t)
    BY <2>2 DEF WorkBegin, EnterJob, activeObjectVars
  <2>3. CASE WorkEnd(t)
    BY <2>3 DEF WorkEnd, LeaveJob, activeObjectVars
  <2>4. CASE TakeTask(t)
    <3>1. unused' \in 0 .. UnusedModulus - 1
      BY <2>4, UnusedRange DEF TakeTask
    <3>2. tasks' \in Seq(Task) /\ hand' = [hand EXCEPT ![t] = hand'[t]] /\ hand'[t] \in Task
      BY <2>4 DEF TakeTask
    <3>3. QED
      BY <2>4, <3>1, <3>2 DEF TakeTask, threadRunnerVars, activeObjectVars
  <2>5. CASE AcquireTask(t)
    BY <2>5 DEF AcquireTask, threadRunnerVars, activeObjectVars
  <2>6. CASE NothingToDo(t)
    BY <2>6 DEF NothingToDo, threadRunnerVars, activeObjectVars
  <2>7. CASE ReleasePlace(t)
    BY <2>7 DEF ReleasePlace, threadRunnerVars, activeObjectVars
  <2>8. CASE Execute(t)
    BY <2>8 DEF Execute, threadRunnerVars, activeObjectVars
  <2>9. CASE FinishTask(t)
    <3>1. unused' \in 0 .. UnusedModulus - 1
      BY <2>9, UnusedRange DEF FinishTask
    <3>2. QED
      BY <2>9, <3>1 DEF FinishTask, threadRunnerVars, activeObjectVars
  <2>10. QED
    BY <1>8, <2>1, <2>2, <2>3, <2>4, <2>5, <2>6, <2>7, <2>8, <2>9, Zenon DEF WorkerStep
<1>9. CASE UNCHANGED vars
  BY <1>9 DEF vars, threadRunnerVars, activeObjectVars, taskVars
<1>10. QED
  BY <1>1, <1>2, <1>3, <1>4, <1>5, <1>6, <1>7, <1>8, <1>9, Zenon DEF Next

-----------------------------------------------------------------------------
(* The places of a limited queue. *)

\* The number of enqueue_task calls that hold a place and have not pushed.
Promised == Cardinality(ClientsAt({"push"}))

\* The number of workers that have not given back their task's place.
Unreturned == Cardinality(ThreadsAt({"release"}))

\* The counts in PlacesConserved are numbers: the sets counted are finite.
LEMMA CountsAreNumbers == Promised \in Nat /\ Unreturned \in Nat
<1>1. IsFiniteSet(ClientsAt({"push"})) /\ IsFiniteSet(ThreadsAt({"release"}))
  BY FS_Subset, TaskRunnerAssumption DEF ClientsAt, ThreadsAt
<1>2. QED
  BY <1>1, FS_CardinalityType DEF Promised, Unreturned

\* How the two counts move with a client and with a worker.
LEMMA PromisedMoves ==
  ASSUME ControlInv, NEW c \in Client, NEW label, pc' = [pc EXCEPT ![c] = label]
  PROVE  /\ Promised \in Nat /\ Promised' \in Nat
         /\ Promised' = Promised + One(label, {"push"}) - One(pc[c], {"push"})
<1> DEFINE A == ClientsAt({"push"})
           B == A'
<1>1. /\ A \ {c} = B \ {c}
      /\ c \in A <=> pc[c] \in {"push"}
      /\ c \in B <=> label \in {"push"}
  BY DEF ControlInv, StateType, ClientsAt
<1>2. IsFiniteSet(A)
  BY FS_Subset, TaskRunnerAssumption DEF ClientsAt
<1> HIDE DEF A, B
<1>3. /\ Cardinality(A) \in Nat /\ Cardinality(B) \in Nat
      /\ Cardinality(B) = Cardinality(A) + One(c, B) - One(c, A)
  BY <1>1, <1>2, CountMoves, Zenon
<1>4. QED
  BY <1>1, <1>3 DEF Promised, One, A, B

\* What a step of one worker does to the number of places the workers owe.
LEMMA UnreturnedMoves ==
  ASSUME ControlInv, NEW t \in Thread, NEW label, worker' = [worker EXCEPT ![t] = label]
  PROVE  /\ Unreturned \in Nat /\ Unreturned' \in Nat
         /\ Unreturned' = Unreturned + One(label, {"release"}) - One(worker[t], {"release"})
<1> DEFINE A == ThreadsAt({"release"})
           B == A'
<1>1. /\ A \ {t} = B \ {t}
      /\ t \in A <=> worker[t] \in {"release"}
      /\ t \in B <=> label \in {"release"}
  BY DEF ControlInv, StateType, ThreadsAt
<1>2. IsFiniteSet(A)
  BY FS_Subset, TaskRunnerAssumption DEF ThreadsAt
<1> HIDE DEF A, B
<1>3. /\ Cardinality(A) \in Nat /\ Cardinality(B) \in Nat
      /\ Cardinality(B) = Cardinality(A) + One(t, B) - One(t, A)
  BY <1>1, <1>2, CountMoves
<1>4. QED
  BY <1>1, <1>3 DEF Unreturned, One, A, B

\* A client or a worker that moves between labels at which it owns no place.
ClientMoves(c) ==
  \/ pc' = pc
  \/ \E label \in (CommonLabel \cup ProducerLabel) \ {"push"} :
        pc[c] # "push" /\ pc' = [pc EXCEPT ![c] = label]

WorkerMoves(t) ==
  \/ worker' = worker
  \/ \E label \in WorkerLabel \ {"release"} :
        worker[t] # "release" /\ worker' = [worker EXCEPT ![t] = label]

\* Such a move that leaves the queue and not_full_ alone keeps the places.
LEMMA PlacesKept ==
  ASSUME ControlInv, PlacesInv, UNCHANGED <<tasks, not_full>>,
         \/ UNCHANGED worker /\ \E c \in Client : ClientMoves(c)
         \/ UNCHANGED pc /\ \E t \in Thread : WorkerMoves(t)
  PROVE  PlacesInv'
<1>1. Promised' = Promised
  <2>1. CASE UNCHANGED pc
    BY <2>1 DEF Promised, ClientsAt
  <2>2. ASSUME NEW c \in Client, NEW label, label # "push", pc[c] # "push",
               pc' = [pc EXCEPT ![c] = label]
        PROVE  Promised' = Promised
    <3>1. Promised \in Nat /\ Promised' = Promised + One(label, {"push"}) - One(pc[c], {"push"})
      BY <2>2, PromisedMoves, Zenon
    <3>2. QED
      BY <2>2, <3>1 DEF One
  <2>3. QED
    BY <2>1, <2>2 DEF ClientMoves
<1>2. Unreturned' = Unreturned
  <2>1. CASE UNCHANGED worker
    BY <2>1 DEF Unreturned, ThreadsAt
  <2>2. ASSUME NEW t \in Thread, NEW label, label # "release", worker[t] # "release",
               worker' = [worker EXCEPT ![t] = label]
        PROVE  Unreturned' = Unreturned
    <3>1. Unreturned \in Nat
          /\ Unreturned' = Unreturned + One(label, {"release"}) - One(worker[t], {"release"})
      BY <2>2, UnreturnedMoves, Zenon
    <3>2. QED
      BY <2>2, <3>1 DEF One
  <2>3. QED
    BY <2>1, <2>2 DEF WorkerMoves
<1>3. QED
  BY <1>1, <1>2 DEF PlacesInv, PlacesConserved, Promised, Unreturned, LIMITED

\* Only the steps of enqueue_task, clear and the workers touch the places.
LEMMA LifeCyclePlaces ==
  ASSUME ControlInv, PlacesInv, NEW c \in Client,
         \/ LifeCycleStep(c) /\ UNCHANGED taskVars
         \/ ActivateRunnerEnd(c) \/ ActivateRunner(c) \/ DeactivateRunner(c)
         \/ Wait(c) /\ UNCHANGED taskVars
  PROVE  PlacesInv'
<1>1. UNCHANGED <<tasks, not_full, worker>>
  BY DEF ActivateRunnerEnd, ActivateRunner, DeactivateRunner, taskVars
<1>2. ClientMoves(c)
  <2> USE DEF ClientMoves, CommonLabel, Goto
  <2>1. CASE StartRejects(c) \/ StartAccepts(c) \/ CreateFails(c) \/ ActivateFails(c)
    BY <2>1 DEF StartRejects, StartAccepts, CreateFails, ActivateFails
  <2>2. CASE \E t \in Thread : CreateOne(c, t)
    BY <2>2 DEF CreateOne, activeObjectVars
  <2>3. CASE WaitRunning(c) \/ JoinNext(c) \/ CloseGate(c) \/ ResetRunning(c)
    BY <2>3 DEF WaitRunning, JoinNext, CloseGate, ResetRunning
  <2>4. CASE Terminated(c) \/ Settle(c) \/ Wait(c)
    BY <2>4 DEF Terminated, Settle, Wait
  <2>5. CASE ActivateRunnerEnd(c) \/ ActivateRunner(c) \/ DeactivateRunner(c)
    BY <2>5 DEF ActivateRunnerEnd, ActivateRunner, DeactivateRunner, Activate, ActivateEnd, Deactivate
  <2>6. QED
    BY <2>1, <2>2, <2>3, <2>4, <2>5 DEF LifeCycleStep
<1>3. QED
  BY <1>1, <1>2, PlacesKept

\* Every step preserves the accounting of the places.
LEMMA StepPlaces ==
  ASSUME ControlInv, PlacesInv, [Next]_vars
  PROVE  PlacesInv'
<1> DEFINE Sum == not_full + Promised + Len(tasks) + Unreturned
<1>0. Promised \in Nat /\ Unreturned \in Nat
  BY CountsAreNumbers
<1>1. /\ not_full \in Nat /\ Len(tasks) \in Nat
      /\ LIMITED => Sum = MaxPending
      /\ ~LIMITED => not_full = 0
  BY DEF ControlInv, StateType, PlacesInv, PlacesConserved, Promised, Unreturned
<1>2. ASSUME not_full' \in Nat, LIMITED => Sum' = MaxPending, ~LIMITED => not_full' = 0
      PROVE  PlacesInv'
  BY <1>2 DEF PlacesInv, PlacesConserved, Promised, Unreturned, LIMITED
<1>3. ASSUME NEW c \in Client, EnqueueStep(c)
      PROVE  PlacesInv'
  <2>1. CASE PushFails(c) \/ Push(c)
    <3>1. Promised \in Nat /\ Promised' \in Nat /\ Promised' = Promised - 1
      <4>1. PICK label \in {"idle", "add", "wake"} : pc' = [pc EXCEPT ![c] = label]
        BY <2>1 DEF PushFails, Push, Goto
      <4>2. Promised \in Nat /\ Promised' \in Nat
            /\ Promised' = Promised + One(label, {"push"}) - One(pc[c], {"push"})
        BY <4>1, PromisedMoves, Zenon
      <4>3. QED
        BY <2>1, <4>2 DEF One, PushFails, Push
    <3>2. Unreturned' = Unreturned
      BY <2>1, Zenon DEF PushFails, Push, Unreturned, ThreadsAt
    <3>3. CASE PushFails(c)
      BY <1>1, <1>2, <3>1, <3>2, <3>3 DEF PushFails
    <3>4. CASE Push(c)
      <4>1. Len(tasks') = Len(tasks) + 1
        BY <3>4 DEF Push, ControlInv, StateType
      <4>2. QED
        BY <1>1, <1>2, <3>1, <3>2, <3>4, <4>1 DEF Push
    <3>5. QED
      BY <2>1, <3>3, <3>4
  <2>2. CASE \/ \E t \in Thread : AddThread(c, t)
             \/ AddThreadFails(c) \/ CountThread(c) \/ Wake(c)
    <3>1. UNCHANGED <<tasks, not_full, worker>> /\ ClientMoves(c)
      BY <2>2 DEF AddThread, AddThreadFails, CountThread, Wake, ClientMoves, Goto, CommonLabel,
                  ProducerLabel, taskVars
    <3>2. QED
      BY <3>1, PlacesKept
  <2>3. QED
    BY <1>3, <2>1, <2>2 DEF EnqueueStep
<1>4. ASSUME NEW c \in Client, Clear(c)
      PROVE  PlacesInv'
  <2>1. Promised' = Promised /\ Unreturned' = Unreturned
    BY <1>4 DEF Clear, activeObjectVars, Promised, ClientsAt, Unreturned, ThreadsAt
  <2>2. Len(tasks') = 0
    BY <1>4 DEF Clear
  <2>3. QED
    BY <1>0, <1>1, <1>2, <1>4, <2>1, <2>2 DEF Clear
<1>5. ASSUME NEW c \in Client, NEW task \in Task, EnqueueTask(c, task)
      PROVE  PlacesInv'
  <2>1. pc' = [pc EXCEPT ![c] = "push"] /\ pc[c] = "idle"
    BY <1>5 DEF EnqueueTask, Goto
  <2>2. Promised \in Nat /\ Promised' \in Nat
        /\ Promised' = Promised + One("push", {"push"}) - One(pc[c], {"push"})
    BY <2>1, PromisedMoves, Zenon
  <2>3. Promised' = Promised + 1
    BY <2>1, <2>2 DEF One
  <2>4. Unreturned' = Unreturned
    BY <1>5 DEF EnqueueTask, Unreturned, ThreadsAt
  <2>5. QED
    BY <1>1, <1>2, <1>5, <2>2, <2>3, <2>4 DEF EnqueueTask
<1>6. ASSUME NEW t \in Thread, WorkerStep(t)
      PROVE  PlacesInv'
  <2>1. CASE TakeTask(t) \/ ReleasePlace(t)
    <3>1. PICK label \in {"release", "execute"} :
            /\ worker' = [worker EXCEPT ![t] = label]
            /\ TakeTask(t) => label = "release"
            /\ ReleasePlace(t) => label = "execute"
      BY <2>1 DEF TakeTask, ReleasePlace
    <3>2. Unreturned \in Nat /\ Unreturned' \in Nat
          /\ Unreturned' = Unreturned + One(label, {"release"}) - One(worker[t], {"release"})
      BY <3>1, UnreturnedMoves, Zenon
    <3>3. Promised' = Promised
      BY <2>1, Zenon DEF TakeTask, ReleasePlace, activeObjectVars, Promised, ClientsAt
    <3>4. CASE TakeTask(t)
      <4>0. worker[t] = "lock" /\ label = "release"
        BY <3>1, <3>4, Zenon DEF TakeTask
      <4>1. Unreturned' = Unreturned + 1
        BY <3>2, <4>0 DEF One
      <4>2. Len(tasks') = Len(tasks) - 1
        BY <3>4 DEF TakeTask, ControlInv, StateType
      <4>3. QED
        BY <1>0, <1>1, <1>2, <3>2, <3>3, <3>4, <4>1, <4>2 DEF TakeTask
    <3>5. CASE ReleasePlace(t)
      <4>0. worker[t] = "release" /\ label = "execute"
        BY <3>1, <3>5, Zenon DEF ReleasePlace
      <4>1. Unreturned' = Unreturned - 1
        BY <3>2, <4>0 DEF One
      <4>2. QED
        BY <1>0, <1>1, <1>2, <3>2, <3>3, <3>5, <4>1 DEF ReleasePlace
    <3>6. QED
      BY <2>1, <3>4, <3>5
  <2>2. CASE \/ GateStep(t) \/ WorkBegin(t) \/ WorkEnd(t)
             \/ AcquireTask(t) \/ NothingToDo(t) \/ Execute(t) \/ FinishTask(t)
    <3>1. UNCHANGED <<tasks, not_full, pc>>
      BY <2>2 DEF GateStep, WorkBegin, WorkEnd, AcquireTask, NothingToDo, Execute, FinishTask,
                  activeObjectVars, taskVars
    <3>2. WorkerMoves(t)
      <4> USE DEF WorkerMoves, WorkerLabel
      <4>1. CASE GateStep(t) \/ AcquireTask(t) \/ NothingToDo(t)
        BY <4>1 DEF GateStep, AcquireTask, NothingToDo, taskVars
      <4>2. CASE WorkEnd(t) \/ Execute(t) \/ FinishTask(t)
        BY <4>2 DEF WorkEnd, Execute, FinishTask
      <4>3. CASE WorkBegin(t)
        <5>1. PICK label \in {"acquire", "out"} : worker' = [worker EXCEPT ![t] = label]
          BY <4>3, Zenon DEF WorkBegin
        <5>2. worker[t] # "release"
          BY <4>3 DEF WorkBegin, EnterJob, ControlInv, LocalsValid
        <5>3. QED
          BY <5>1, <5>2, Zenon
      <4>4. QED
        BY <2>2, <4>1, <4>2, <4>3
    <3>3. QED
      BY <3>1, <3>2, PlacesKept
  <2>3. QED
    BY <1>6, <2>1, <2>2 DEF WorkerStep
<1>7. CASE UNCHANGED vars
  BY <1>1, <1>2, <1>7 DEF vars, activeObjectVars, taskVars, Promised, ClientsAt, Unreturned, ThreadsAt
<1>8. Producer \subseteq Client /\ Controller \subseteq Client /\ Stopper \subseteq Client
  BY TaskRunnerAssumption
<1>9. QED
  BY <1>3, <1>4, <1>5, <1>6, <1>7, <1>8, LifeCyclePlaces DEF Next, ControlStep

-----------------------------------------------------------------------------
\* IInv holds in every reachable state.
THEOREM Invariance == Spec => []IInv
<1>1. IInv /\ [Next]_vars => IInv'
  BY StepControl, StepPlaces DEF IInv
<1>2. QED
  BY <1>1, InitIInv, PTL DEF Spec

\* The state of the object, its threads and its clients keeps its type: no
\* counter leaves its range and no loop over jobs_ leaves the array, whatever
\* enqueue_task, clear, activate_object, deactivate_object and wait_object
\* calls run at the same time.
THEOREM TypeCorrect == Spec => []TypeOK
<1>1. IInv => TypeOK
  <2> SUFFICES ASSUME IInv
               PROVE  TypeOK
    OBVIOUS
  <2>1. not_full \in 0 .. MaxPending
    <3>1. Promised \in Nat /\ Unreturned \in Nat /\ Len(tasks) \in Nat
      BY CountsAreNumbers DEF IInv, ControlInv, StateType
    <3>2. QED
      BY <3>1, TaskRunnerAssumption DEF IInv, PlacesInv, PlacesConserved, Promised, Unreturned, LIMITED
  <2>2. QED
    BY <2>1 DEF IInv, ControlInv, StateType, TypeOK
<1>2. QED
  BY <1>1, Invariance, PTL

\* No place of a limited queue is lost or invented.
THEOREM Places == Spec => []PlacesConserved
<1>1. IInv => PlacesConserved
  BY DEF IInv, PlacesInv
<1>2. QED
  BY <1>1, Invariance, PTL

\* A queue with a limit never holds more tasks than max_pending_tasks.
THEOREM Bounded == Spec => []QueueBounded
<1>1. IInv => QueueBounded
  <2> SUFFICES ASSUME IInv
               PROVE  QueueBounded
    OBVIOUS
  <2>1. Promised \in Nat /\ Unreturned \in Nat /\ Len(tasks) \in Nat
    BY CountsAreNumbers DEF IInv, ControlInv, StateType
  <2>2. QED
    BY <2>1 DEF IInv, PlacesInv, PlacesConserved, Promised, Unreturned, QueueBounded
<1>2. QED
  BY <1>1, Invariance, PTL

=============================================================================
