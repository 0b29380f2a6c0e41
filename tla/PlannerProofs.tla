--------------------------- MODULE PlannerProofs ---------------------------
(***************************************************************************)
(* Proofs about Planner for any set of clients, goals and threads and any  *)
(* bounds on time and messages, with and without delivery time adjustment. *)
(***************************************************************************)
EXTENDS Planner, TLAPS

Waiting == {"waiting", "join", "reset", "terminated", "settle"}
Locked == {"start", "creating", "erase"}

\* The types the proof needs.
PlannerType ==
  /\ pc \in [Client -> (CommonLabel \cup {"signal", "erase"}) \ {"unwind", "unreset"}]
  /\ slot \in [Client -> Nat]
  /\ jobs \in [Slot -> Thread \cup {NoThread}]
  /\ thread \in [Thread -> ThreadState]
  /\ worker \in [Thread -> WorkerLabel]
  /\ messages \in Seq(Message)
  /\ pending \in Seq(Message)
  /\ have_new_events \in BOOLEAN
  /\ abs_time \in Time \cup {NoTime}
  /\ shift \in Time
  /\ now \in Time

\* The two mutexes exclude.
Mutexes ==
  \A c \in Client : /\ pc[c] \in Locked => work_mutex = c
                    /\ pc[c] \in Waiting => termination_mutex = c

\* At most one thread exists: the one in slot 0, and only while it is counted
\* and not yet joined.
OneThread ==
  /\ number_running \in {0, 1}
  /\ number_running = 1 => jobs[0] \in Thread
  /\ \A t \in Thread : thread[t] # "free" => number_running = 1 /\ jobs[0] = t
  /\ \A c \in Client :
       /\ pc[c] \in {"join", "reset"} => number_running = 1
       /\ pc[c] = "reset" \/ (pc[c] = "join" /\ slot[c] > 0) => \A t \in Thread : thread[t] = "free"
  /\ \A t \in Thread : worker[t] # "out" => thread[t] = "working"

\* The thread's timeout is not later than the first message.
Covered == messages = <<>> \/ (abs_time # NoTime /\ abs_time <= Shifted(messages[1]))

\* Sleep coverage, and what it needs before the thread goes to sleep.
WakeUps ==
  \A t \in Thread :
    /\ worker[t] = "svc2" => Covered \/ have_new_events
    /\ worker[t] = "wait" => Covered \/ (have_new_events /\ \E c \in Client : pc[c] = "signal")

\* pending is in use only while its messages are delivered.
PendingUse ==
  /\ \A t \in Thread : worker[t] = "deliver" => pending # <<>>
  /\ pending # <<>> => \E t \in Thread : worker[t] = "deliver"

IInv == PlannerType /\ Mutexes /\ OneThread /\ Sorted /\ WakeUps /\ PendingUse /\ NotEarly

-----------------------------------------------------------------------------
(* What the operations on the list do to its elements. *)

\* A list with e inserted at p, and a list with its element at p erased.
Inserted(s, p, e) == SubSeq(s, 1, p - 1) \o <<e>> \o SubSeq(s, p, Len(s))

Erased(s, p) == SubSeq(s, 1, p - 1) \o SubSeq(s, p + 1, Len(s))

\* The elements of a list after an insertion.
LEMMA InsertFacts ==
  ASSUME NEW S, NEW s \in Seq(S), NEW p \in 1 .. Len(s) + 1, NEW e \in S
  PROVE  /\ Inserted(s, p, e) \in Seq(S)
         /\ Len(Inserted(s, p, e)) = Len(s) + 1
         /\ \A i \in 1 .. Len(s) + 1 :
              Inserted(s, p, e)[i] = IF i < p THEN s[i] ELSE IF i = p THEN e ELSE s[i - 1]
<1> DEFINE a == SubSeq(s, 1, p - 1)
           b == SubSeq(s, p, Len(s))
           ae == a \o <<e>>
<1>1. a \in Seq(S) /\ Len(a) = p - 1 /\ \A i \in 1 .. p - 1 : a[i] = s[i]
  OBVIOUS
<1>2. b \in Seq(S) /\ Len(b) = Len(s) - p + 1 /\ \A i \in 1 .. Len(s) - p + 1 : b[i] = s[p + i - 1]
  OBVIOUS
<1> HIDE DEF a, b
<1>3. ae \in Seq(S) /\ Len(ae) = p /\ (\A i \in 1 .. p - 1 : ae[i] = s[i]) /\ ae[p] = e
  BY <1>1
<1> HIDE DEF ae
<1>4. /\ ae \o b \in Seq(S) /\ Len(ae \o b) = Len(s) + 1
      /\ \A i \in 1 .. Len(s) + 1 : (ae \o b)[i] = IF i <= p THEN ae[i] ELSE b[i - p]
  BY <1>2, <1>3
<1>5. Inserted(s, p, e) = ae \o b
  BY DEF Inserted, ae, a, b
<1>6. \A i \in 1 .. Len(s) + 1 : i > p => b[i - p] = s[i - 1]
  BY <1>2
<1>7. QED
  BY <1>3, <1>4, <1>5, <1>6

\* The elements of a list after one is erased.
LEMMA RemoveFacts ==
  ASSUME NEW S, NEW s \in Seq(S), NEW p \in 1 .. Len(s)
  PROVE  /\ Erased(s, p) \in Seq(S)
         /\ Len(Erased(s, p)) = Len(s) - 1
         /\ \A i \in 1 .. Len(s) - 1 : Erased(s, p)[i] = IF i < p THEN s[i] ELSE s[i + 1]
<1> DEFINE a == SubSeq(s, 1, p - 1)
           b == SubSeq(s, p + 1, Len(s))
<1>1. a \in Seq(S) /\ Len(a) = p - 1 /\ \A i \in 1 .. p - 1 : a[i] = s[i]
  OBVIOUS
<1>2. b \in Seq(S) /\ Len(b) = Len(s) - p /\ \A i \in 1 .. Len(s) - p : b[i] = s[p + i]
  OBVIOUS
<1> HIDE DEF a, b
<1>3. /\ a \o b \in Seq(S) /\ Len(a \o b) = Len(s) - 1
      /\ \A i \in 1 .. Len(s) - 1 : (a \o b)[i] = IF i <= p - 1 THEN a[i] ELSE b[i - (p - 1)]
  <2>0. a \in Seq(S) /\ b \in Seq(S)
    BY <1>1, <1>2
  <2>1. a \o b \in Seq(S) /\ Len(a \o b) = Len(a) + Len(b)
    BY <2>0
  <2>2. \A i \in 1 .. Len(a) + Len(b) : (a \o b)[i] = IF i <= Len(a) THEN a[i] ELSE b[i - Len(a)]
    BY <2>0
  <2>3. QED
    BY <1>1, <1>2, <2>1, <2>2
<1>4. Erased(s, p) = a \o b
  BY DEF Erased, a, b
<1>5. \A i \in 1 .. Len(s) - 1 : i >= p => b[i - (p - 1)] = s[i + 1]
  BY <1>2
<1>6. QED
  BY <1>1, <1>3, <1>4, <1>5

\* The elements of the front and of the rest of a list.
LEMMA SubSeqFacts ==
  ASSUME NEW S, NEW s \in Seq(S), NEW n \in 0 .. Len(s)
  PROVE  /\ SubSeq(s, 1, n) \in Seq(S) /\ Len(SubSeq(s, 1, n)) = n
         /\ \A i \in 1 .. n : SubSeq(s, 1, n)[i] = s[i]
         /\ SubSeq(s, n + 1, Len(s)) \in Seq(S) /\ Len(SubSeq(s, n + 1, Len(s))) = Len(s) - n
         /\ \A i \in 1 .. Len(s) - n : SubSeq(s, n + 1, Len(s))[i] = s[n + i]
OBVIOUS

-----------------------------------------------------------------------------
(* The life cycle: one thread. *)

LifeInv == PlannerType /\ Mutexes /\ OneThread

\* A step of activate_object or wait_object.
LEMMA ControlLife ==
  ASSUME LifeInv, NEW c \in Client,
         LifeCycleStep(c) \/ ActivateEnd(c) \/ Activate(c) \/ Wait(c), UNCHANGED plannerVars
  PROVE  LifeInv'
<1> USE PlannerAssumption, ActiveObjectAssumption
    DEF LifeInv, PlannerType, Mutexes, OneThread, CommonLabel, ThreadState, WorkerLabel, Waiting,
        Locked, Goto, Unlocked, plannerVars
<1>1. CASE StartRejects(c)
  BY <1>1 DEF StartRejects, threadRunnerVars
<1>12. CASE StartAccepts(c)
  BY <1>12 DEF StartAccepts, threadRunnerVars
<1>2. ~CreateFails(c) /\ ~ActivateFails(c)
  BY DEF CreateFails, ActivateFails, ToStart
<1>3. ASSUME NEW t \in Thread, CreateOne(c, t)
      PROVE  LifeInv'
  <2>1. number_running = 0 /\ number_running' = 1
    BY <1>3 DEF CreateOne, ToStart
  <2>2. jobs' \in [Slot -> Thread \cup {NoThread}] /\ jobs'[0] = t
    BY <1>3, <2>1 DEF CreateOne, CreateThread, Slot
  <2>3. thread' \in [Thread -> ThreadState] /\ \A u \in Thread : u # t => thread'[u] = thread[u]
    BY <1>3 DEF CreateOne, CreateThread
  <2>4. \A u \in Thread : thread[u] = "free" /\ worker[u] = "out"
    BY <2>1
  <2>5. QED
    BY <1>3, <2>1, <2>2, <2>3, <2>4 DEF CreateOne, activeObjectVars
<1>4. CASE WaitRunning(c)
  BY <1>4 DEF WaitRunning, threadRunnerVars
<1>5. CASE JoinNext(c)
  <2>1. slot[c] = 0 /\ number_running = 1 /\ slot'[c] = 1
    BY <1>5 DEF JoinNext, Abs
  <2>2. /\ thread' \in [Thread -> ThreadState]
        /\ \A t \in Thread : thread'[t] = "free" /\ worker[t] = "out"
    BY <1>5, <2>1 DEF JoinNext, JoinThread
  <2>3. QED
    BY <1>5, <2>1, <2>2 DEF JoinNext
<1>6. CASE CloseGate(c)
  BY <1>6 DEF CloseGate, Abs
<1>7. CASE ResetRunning(c)
  BY <1>7 DEF ResetRunning
<1>8. CASE Terminated(c)
  BY <1>8 DEF Terminated, threadRunnerVars
<1>13. CASE Settle(c)
  BY <1>13 DEF Settle, threadRunnerVars
<1>9. CASE ActivateEnd(c)
  BY <1>9 DEF ActivateEnd
<1>10. CASE Activate(c)
  BY <1>10 DEF Activate, threadRunnerVars
<1>14. CASE Wait(c)
  BY <1>14 DEF Wait, threadRunnerVars
<1>11. QED
  BY <1>1, <1>2, <1>3, <1>4, <1>5, <1>6, <1>7, <1>8, <1>9, <1>10, <1>12, <1>13, <1>14, Zenon
     DEF LifeCycleStep

\* A step of the thread.  It never moves another thread.
LEMMA WorkerLife ==
  ASSUME LifeInv, NEW t \in Thread,
         \/ WorkerStep(t) \/ SpuriousWakeup(t)
         \/ \E goal \in Goal, tm \in Time : DeliverSchedules(t, goal, tm)
  PROVE  /\ Mutexes' /\ OneThread'
         /\ pc' \in [Client -> (CommonLabel \cup {"signal", "erase"}) \ {"unwind", "unreset"}]
         /\ slot' \in [Client -> Nat] /\ jobs' \in [Slot -> Thread \cup {NoThread}]
         /\ thread' \in [Thread -> ThreadState] /\ worker' \in [Thread -> WorkerLabel]
<1> USE DEF LifeInv, PlannerType, Mutexes, OneThread, ThreadState, WorkerLabel, activeObjectVars
<1>1. CASE GateStep(t)
  <2>1. UNCHANGED <<jobs, pc, slot, worker, work_mutex, termination_mutex, active_state, terminating>>
    BY <1>1, Zenon DEF GateStep, GateAcquire, GateRelease, plannerVars
  <2>2. CASE GateAcquire(t)
    BY <2>1, <2>2 DEF GateAcquire
  <2>3. CASE GateRelease(t)
    BY <2>1, <2>3 DEF GateRelease
  <2>4. QED
    BY <1>1, <2>2, <2>3, Zenon DEF GateStep
<1>2. CASE WorkBegin(t)
  BY <1>2 DEF WorkBegin, EnterJob, Enter
<1>3. CASE Terminate(t)
  BY <1>3 DEF Terminate, Leave, LeaveJob, Enter
<1>4. ASSUME NEW label \in WorkerLabel, worker' = [worker EXCEPT ![t] = label], worker[t] # "out",
             UNCHANGED <<threadRunnerVars, activeObjectVars>>
      PROVE  /\ Mutexes' /\ OneThread'
             /\ pc' \in [Client -> (CommonLabel \cup {"signal", "erase"}) \ {"unwind", "unreset"}]
             /\ slot' \in [Client -> Nat] /\ jobs' \in [Slot -> Thread \cup {NoThread}]
             /\ thread' \in [Thread -> ThreadState] /\ worker' \in [Thread -> WorkerLabel]
  BY <1>4 DEF threadRunnerVars
<1>5. CASE Pump(t) \/ Sleep(t) \/ SleepExpires(t) \/ NewEvents(t)
  BY <1>4, <1>5 DEF Pump, Sleep, SleepExpires, NewEvents, Enter
<1>6. CASE NoNewEvents(t) \/ Adjust(t) \/ Deliver(t) \/ SpuriousWakeup(t)
  BY <1>4, <1>6 DEF NoNewEvents, Adjust, Deliver, SpuriousWakeup, Enter
<1>7. CASE \E goal \in Goal, tm \in Time : DeliverSchedules(t, goal, tm)
  BY <1>4, <1>7, Zenon DEF DeliverSchedules, Enter
<1>8. QED
  BY <1>1, <1>2, <1>3, <1>5, <1>6, <1>7, Zenon DEF WorkerStep

-----------------------------------------------------------------------------
(* The list, the sleep and the pending messages. *)

ListInv == Sorted /\ WakeUps /\ PendingUse /\ NotEarly

\* The times of messages, the clock and the shift are natural numbers.
LEMMA TimesAreNumbers ==
  ASSUME LifeInv
  PROVE  /\ \A j \in 1 .. Len(messages) : messages[j].time \in Int
         /\ now \in Int /\ now >= 0 /\ shift \in Int
<1>1. \A j \in 1 .. Len(messages) : messages[j] \in Message
  BY DEF LifeInv, PlannerType
<1>2. Time \subseteq Int /\ \A x \in Time : x >= 0
  BY DEF Time
<1>3. now \in Time /\ shift \in Time
  BY DEF LifeInv, PlannerType
<1>4. QED
  BY <1>1, <1>2, <1>3, Zenon DEF Message

\* The first of a nonempty list of messages has a time.
LEMMA FirstTime ==
  ASSUME NEW s \in Seq(Message), s # <<>>
  PROVE  s[1].time \in Int
<1>1. s[1] \in Message
  OBVIOUS
<1>2. Time \subseteq Int
  BY DEF Time
<1>3. QED
  BY <1>1, <1>2, Zenon DEF Message

\* The shift keeps the order of two times.
LEMMA ShiftOrder ==
  ASSUME NEW m, NEW l, m.time \in Int, l.time \in Int, shift \in Int
  PROVE  /\ Shifted(m) \in Int /\ Shifted(l) \in Int
         /\ m.time <= l.time => Shifted(m) <= Shifted(l)
BY DEF Shifted

\* The first message after an insertion or an erasure, and the order.
LEMMA InsertList ==
  ASSUME LifeInv, Sorted, NEW goal \in Goal, NEW tm \in Time, NEW p \in 1 .. Len(messages) + 1,
         Insert(goal, tm, p)
  PROVE  /\ messages' \in Seq(Message) /\ messages' # <<>> /\ Sorted'
         /\ p > 1 => messages # <<>> /\ messages'[1] = messages[1]
         /\ have_new_events' = (have_new_events \/ p = 1)
<1> DEFINE m == [time |-> tm, goal |-> goal]
<1>1. m \in Message /\ messages \in Seq(Message)
  BY DEF Message, LifeInv, PlannerType
<1>2. /\ messages' \in Seq(Message) /\ Len(messages') = Len(messages) + 1
      /\ \A i \in 1 .. Len(messages) + 1 :
           messages'[i] = IF i < p THEN messages[i] ELSE IF i = p THEN m ELSE messages[i - 1]
  <2> HIDE DEF m
  <2>1. messages' = Inserted(messages, p, m)
    BY DEF Insert, Inserted, m
  <2>2. /\ Inserted(messages, p, m) \in Seq(Message)
        /\ Len(Inserted(messages, p, m)) = Len(messages) + 1
        /\ \A i \in 1 .. Len(messages) + 1 :
             Inserted(messages, p, m)[i]
               = IF i < p THEN messages[i] ELSE IF i = p THEN m ELSE messages[i - 1]
    BY <1>1, InsertFacts
  <2>3. QED
    BY <2>1, <2>2
<1>3. Sorted'
  <2> SUFFICES ASSUME NEW i \in 1 .. Len(messages)
               PROVE  messages'[i].time <= messages'[i + 1].time
    BY <1>2 DEF Sorted
  <2>1. m.time = tm
    OBVIOUS
  <2>2. /\ p > 1 => messages[p - 1].time < tm
        /\ \A j \in p .. Len(messages) : messages[j].time >= tm
    BY DEF Insert, IsPosition
  <2>3. \A j \in 1 .. Len(messages) : messages[j].time \in Int
    BY TimesAreNumbers
  <2> HIDE DEF m
  <2>4. CASE i + 1 < p
    <3>1. messages'[i] = messages[i] /\ messages'[i + 1] = messages[i + 1]
      BY <1>1, <1>2, <2>4
    <3>2. i \in 1 .. Len(messages) - 1
      BY <1>1, <2>4
    <3>3. messages[i].time <= messages[i + 1].time
      BY <3>2 DEF Sorted
    <3>4. QED
      BY <3>1, <3>3
  <2>5. CASE i + 1 = p
    <3>1. messages'[i] = messages[i] /\ messages'[i + 1] = m /\ messages[i].time < tm
      BY <1>1, <1>2, <2>2, <2>5
    <3>2. tm \in Int /\ messages[i].time \in Int
      BY <2>3 DEF Time
    <3>3. QED
      BY <2>1, <3>1, <3>2
  <2>6. CASE i = p
    BY <1>1, <1>2, <2>1, <2>2, <2>3, <2>6
  <2>7. CASE i > p
    <3>1. messages'[i] = messages[i - 1] /\ messages'[i + 1] = messages[(i - 1) + 1]
      BY <1>1, <1>2, <2>7
    <3>2. i - 1 \in 1 .. Len(messages) - 1
      BY <1>1, <2>7
    <3>3. messages[i - 1].time <= messages[(i - 1) + 1].time
      BY <3>2 DEF Sorted
    <3>4. QED
      BY <3>1, <3>3
  <2>8. QED
    BY <2>4, <2>5, <2>6, <2>7
<1>4. messages' # <<>> /\ (p > 1 => messages # <<>> /\ messages'[1] = messages[1])
  BY <1>1, <1>2
<1>5. QED
  BY <1>2, <1>3, <1>4, Zenon DEF Insert

\* Erasing a message keeps the list sorted and does not make the first time earlier.
LEMMA EraseList ==
  ASSUME LifeInv, Sorted, NEW i \in 1 .. Len(messages), messages' = Erased(messages, i)
  PROVE  /\ messages' \in Seq(Message) /\ Sorted'
         /\ messages' # <<>> => messages # <<>> /\ messages[1].time <= messages'[1].time
<1>1. messages \in Seq(Message) /\ \A j \in 1 .. Len(messages) : messages[j].time \in Int
  BY TimesAreNumbers DEF LifeInv, PlannerType
<1>2. /\ messages' \in Seq(Message) /\ Len(messages') = Len(messages) - 1
      /\ \A j \in 1 .. Len(messages) - 1 : messages'[j] = IF j < i THEN messages[j] ELSE messages[j + 1]
  BY <1>1, RemoveFacts, Zenon
<1>3. Sorted'
  <2> SUFFICES ASSUME NEW j \in 1 .. Len(messages) - 2
               PROVE  messages'[j].time <= messages'[j + 1].time
    BY <1>1, <1>2 DEF Sorted
  <2>1. CASE j + 1 < i
    BY <1>1, <1>2, <2>1 DEF Sorted
  <2>2. CASE j + 1 = i
    <3>1. messages[j].time <= messages[j + 1].time /\ messages[j + 1].time <= messages[j + 2].time
      BY <1>1 DEF Sorted
    <3>2. messages'[j] = messages[j] /\ messages'[j + 1] = messages[j + 2]
      BY <1>1, <1>2, <2>2
    <3>3. messages[j].time \in Int /\ messages[j + 1].time \in Int /\ messages[j + 2].time \in Int
      BY <1>1
    <3>4. QED
      BY <3>1, <3>2, <3>3
  <2>3. CASE j >= i
    <3>1. messages'[j] = messages[j + 1] /\ messages'[j + 1] = messages[(j + 1) + 1]
      BY <1>1, <1>2, <2>3
    <3>2. messages[j + 1].time <= messages[(j + 1) + 1].time
      BY <1>1 DEF Sorted
    <3>3. QED
      BY <3>1, <3>2
  <2>4. QED
    BY <1>1, <2>1, <2>2, <2>3
<1>4. QED
  BY <1>1, <1>2, <1>3 DEF Sorted

\* A step of a client.
LEMMA ClientList ==
  ASSUME LifeInv, ListInv, NEW c \in Client,
         \/ ScheduleStep(c) \/ Clear(c) \/ DeactivatePlanner(c)
         \/ \E goal \in Goal : Unschedule(c, goal)
         \/ \E goal \in Goal, time \in -1 .. MaxTime : Schedule(c, goal, time)
  PROVE  LifeInv' /\ ListInv'
<1> USE DEF ListInv
<1>1. ASSUME NEW goal \in Goal, NEW time \in -1 .. MaxTime, Schedule(c, goal, time)
      PROVE  LifeInv' /\ ListInv'
  <2> DEFINE tm == IF time > 0 THEN time ELSE 0
  <2>1. tm \in Time
    BY PlannerAssumption DEF Time
  <2> HIDE DEF tm
  <2>2. PICK p \in 1 .. Len(messages) + 1 :
          Insert(goal, tm, p) /\ pc' = [pc EXCEPT ![c] = IF p = 1 THEN "signal" ELSE "idle"]
    BY <1>1, Zenon DEF Schedule, Goto, tm
  <2>3. /\ messages' \in Seq(Message) /\ messages' # <<>> /\ Sorted'
        /\ p > 1 => messages # <<>> /\ messages'[1] = messages[1]
        /\ have_new_events' = (have_new_events \/ p = 1)
    BY <2>1, <2>2, InsertList
  <2>4. /\ pc[c] = "idle"
        /\ UNCHANGED <<threadRunnerVars, active_state, terminating, work_mutex, termination_mutex, slot,
                       pending, abs_time, shift, worker, now>>
    BY <1>1 DEF Schedule
  <2>5. LifeInv'
    BY <2>2, <2>3, <2>4 DEF LifeInv, PlannerType, Mutexes, OneThread, CommonLabel, Waiting, Locked,
                             threadRunnerVars
  <2>6. PendingUse' /\ NotEarly'
    BY <2>4, Zenon DEF PendingUse, NotEarly
  <2>7. WakeUps'
    <3>1. CASE p = 1
      <4>1. have_new_events' /\ pc'[c] = "signal"
        BY <2>2, <2>3, <3>1, Zenon DEF LifeInv, PlannerType
      <4>2. QED
        BY <4>1 DEF WakeUps
    <3>2. CASE p > 1
      <4>1. Covered => Covered'
        BY <2>3, <2>4, <3>2 DEF Covered, Shifted
      <4>2. \A d \in Client : pc[d] = "signal" => pc'[d] = "signal"
        BY <2>2, <2>4 DEF LifeInv, PlannerType
      <4>3. QED
        BY <2>3, <2>4, <4>1, <4>2, Zenon DEF WakeUps
    <3>3. QED
      BY <3>1, <3>2
  <2>8. QED
    BY <2>3, <2>5, <2>6, <2>7
<1>2. CASE ScheduleSignal(c)
  <2>1. LifeInv'
    BY <1>2 DEF ScheduleSignal, Signal, Goto, LifeInv, PlannerType, Mutexes, OneThread, CommonLabel,
                WorkerLabel, Waiting, Locked, threadRunnerVars
  <2>2. Sorted' /\ NotEarly'
    BY <1>2, Zenon DEF ScheduleSignal, Sorted, NotEarly
  <2>3. \A t \in Thread : worker'[t] # "wait" /\ \A l \in {"svc2", "deliver"} : worker'[t] = l <=> worker[t] = l
    BY <1>2 DEF ScheduleSignal, Signal
  <2>4. PendingUse' /\ WakeUps'
    BY <1>2, <2>3 DEF ScheduleSignal, PendingUse, WakeUps, Covered, Shifted
  <2>5. QED
    BY <2>1, <2>2, <2>4
<1>3. CASE UnscheduleErase(c)
  <2>1. PICK i \in 1 .. Len(messages) : messages' = Erased(messages, i)
    BY <1>3, Zenon DEF UnscheduleErase, Erased
  <2>2. /\ messages' \in Seq(Message) /\ Sorted'
        /\ messages' # <<>> => messages # <<>> /\ messages[1].time <= messages'[1].time
    BY <2>1, EraseList
  <2>3. UNCHANGED <<threadRunnerVars, activeObjectVars, pending, have_new_events, abs_time, shift, worker, now>>
    BY <1>3 DEF UnscheduleErase
  <2>4. LifeInv'
    BY <2>2, <2>3 DEF LifeInv, PlannerType, Mutexes, OneThread, threadRunnerVars, activeObjectVars
  <2>5. Covered => Covered'
    <3>1. CASE messages' = <<>>
      BY <3>1 DEF Covered
    <3>2. CASE messages' # <<>>
      <4>1. messages[1].time \in Int /\ messages'[1].time \in Int /\ shift \in Int
        <5>1. messages \in Seq(Message) /\ messages # <<>>
          BY <2>2, <3>2, Zenon DEF LifeInv, PlannerType
        <5>2. messages[1].time \in Int
          BY <5>1, FirstTime
        <5>3. messages'[1].time \in Int
          BY <2>2, <3>2, FirstTime
        <5>4. QED
          BY <5>2, <5>3, TimesAreNumbers, Zenon
      <4>2. /\ Shifted(messages[1]) \in Int /\ Shifted(messages'[1]) \in Int
            /\ Shifted(messages[1]) <= Shifted(messages'[1])
        BY <2>2, <3>2, <4>1, ShiftOrder
      <4>3. Shifted(messages'[1]) = Shifted(messages[1])'
        BY <2>3, Zenon DEF Shifted
      <4>4. abs_time \in Int
        <5>1. Time \cup {NoTime} \subseteq Int
          BY DEF Time, NoTime
        <5>2. QED
          BY <5>1, Zenon DEF LifeInv, PlannerType
      <4>5. ASSUME Covered
            PROVE  abs_time # NoTime /\ abs_time <= Shifted(messages'[1])
        <5>1. abs_time # NoTime /\ abs_time <= Shifted(messages[1])
          BY <2>2, <3>2, <4>5, Zenon DEF Covered
        <5>2. \A a, b, d \in Int : a <= b /\ b <= d => a <= d
          OBVIOUS
        <5>3. QED
          BY <4>2, <4>4, <5>1, <5>2, Zenon
      <4>6. QED
        BY <2>3, <4>3, <4>5, Zenon DEF Covered
    <3>3. QED
      BY <3>1, <3>2
  <2>6. WakeUps'
    BY <2>3, <2>5 DEF WakeUps, activeObjectVars
  <2>7. PendingUse' /\ NotEarly'
    BY <2>3 DEF PendingUse, NotEarly
  <2>8. QED
    BY <2>2, <2>4, <2>6, <2>7
<1>4. ASSUME UNCHANGED <<threadRunnerVars, active_state, terminating, termination_mutex, slot,
                         messages, pending, have_new_events, abs_time, shift, worker, now>>,
             \/ \E goal \in Goal : Unschedule(c, goal)
             \/ UnscheduleEnd(c)
      PROVE  LifeInv' /\ ListInv'
  <2>1. LifeInv'
    <3> USE DEF LifeInv, PlannerType, Mutexes, OneThread, CommonLabel, Waiting, Locked,
                threadRunnerVars, Goto, Unlocked
    <3>1. ASSUME NEW goal \in Goal, Unschedule(c, goal)
          PROVE  LifeInv'
      <4>1. \A d \in Client : pc[d] \notin Locked
        BY <3>1, PlannerAssumption DEF Unschedule
      <4>2. QED
        BY <1>4, <3>1, <4>1 DEF Unschedule
    <3>2. CASE UnscheduleEnd(c)
      <4>1. \A d \in Client : d # c => pc[d] \notin Locked
        BY <3>2 DEF UnscheduleEnd
      <4>2. QED
        BY <1>4, <3>2, <4>1 DEF UnscheduleEnd
    <3>3. QED
      BY <1>4, <3>1, <3>2
  <2>2. \A d \in Client : pc[d] = "signal" => pc'[d] = "signal"
    BY <1>4 DEF Unschedule, UnscheduleEnd, Goto, LifeInv, PlannerType
  <2>3. Sorted' /\ WakeUps' /\ PendingUse' /\ NotEarly'
    BY <1>4, <2>2 DEF Sorted, WakeUps, Covered, Shifted, PendingUse, NotEarly
  <2>4. QED
    BY <2>1, <2>3
<1>5. CASE Clear(c)
  <2>1. LifeInv'
    BY <1>5 DEF Clear, LifeInv, PlannerType, Mutexes, OneThread, threadRunnerVars, activeObjectVars
  <2>2. messages' = <<>> /\ UNCHANGED <<pending, shift, worker, now>>
    BY <1>5 DEF Clear
  <2>3. Sorted' /\ Covered'
    BY <2>2 DEF Sorted, Covered
  <2>4. PendingUse' /\ NotEarly'
    BY <2>2 DEF PendingUse, NotEarly
  <2>5. WakeUps'
    BY <2>3, Zenon DEF WakeUps
  <2>6. QED
    BY <2>1, <2>3, <2>4, <2>5
<1>6. CASE DeactivatePlanner(c)
  <2>1. LifeInv'
    BY <1>6 DEF DeactivatePlanner, Deactivate, Signal, LifeInv, PlannerType, Mutexes, OneThread,
                WorkerLabel, threadRunnerVars
  <2>2. Sorted' /\ NotEarly'
    BY <1>6, Zenon DEF DeactivatePlanner, Sorted, NotEarly
  <2>3. \A t \in Thread : worker'[t] # "wait" /\ \A l \in {"svc2", "deliver"} : worker'[t] = l <=> worker[t] = l
    BY <1>6 DEF DeactivatePlanner, Signal
  <2>4. PendingUse' /\ WakeUps'
    BY <1>6, <2>3, Zenon DEF DeactivatePlanner, PendingUse, WakeUps
  <2>5. QED
    BY <2>1, <2>2, <2>4
<1>7. QED
  BY <1>1, <1>2, <1>3, <1>4, <1>5, <1>6 DEF ScheduleStep, Unschedule, UnscheduleEnd, plannerVars

\* When the last message of a list is taken off.
LEMMA LastTaken ==
  ASSUME NEW s \in Seq(Message), NEW r \in Seq(Message), Len(r) = Len(s) - 1
  PROVE  r = <<>> <=> Len(s) = 1
OBVIOUS

\* At most one thread is in work().
LEMMA Alone ==
  ASSUME LifeInv, NEW t \in Thread, NEW u \in Thread, worker[t] # "out", worker[u] # "out"
  PROVE  t = u
BY DEF LifeInv, OneThread

\* Delivering the first of the pending messages leaves only messages that were due.
LEMMA RestNotEarly ==
  ASSUME NotEarly, pending \in Seq(Message), Len(pending') = Len(pending) - 1,
         \A i \in 1 .. Len(pending') : pending'[i] = pending[i + 1], UNCHANGED <<now, shift>>
  PROVE  NotEarly'
<1> SUFFICES ASSUME NEW i \in 1 .. Len(pending')
             PROVE  pending'[i].time <= now' + shift'
  BY DEF NotEarly
<1>1. i + 1 \in 1 .. Len(pending) /\ pending'[i] = pending[i + 1]
  OBVIOUS
<1>2. pending[i + 1].time <= now + shift
  BY <1>1 DEF NotEarly
<1>3. QED
  BY <1>1, <1>2

\* What stays when the first n messages are taken is sorted.
LEMMA RestSorted ==
  ASSUME Sorted, NEW n \in 0 .. Len(messages), messages \in Seq(Message),
         Len(messages') = Len(messages) - n,
         \A i \in 1 .. Len(messages) - n : messages'[i] = messages[n + i]
  PROVE  Sorted'
<1> SUFFICES ASSUME NEW i \in 1 .. Len(messages') - 1
             PROVE  messages'[i].time <= messages'[i + 1].time
  BY DEF Sorted
<1>1. messages'[i] = messages[n + i] /\ messages'[i + 1] = messages[n + i + 1]
  OBVIOUS
<1>2. n + i \in 1 .. Len(messages) - 1
  OBVIOUS
<1>3. messages[n + i].time <= messages[n + i + 1].time
  BY <1>2 DEF Sorted
<1>4. QED
  BY <1>1, <1>3

\* Taking the first n messages of a list to an empty one.
LEMMA TakeFirst ==
  ASSUME NEW s \in Seq(Message), NEW n \in 0 .. Len(s)
  PROVE  /\ <<>> \o SubSeq(s, 1, n) \in Seq(Message) /\ Len(<<>> \o SubSeq(s, 1, n)) = n
         /\ \A i \in 1 .. n : (<<>> \o SubSeq(s, 1, n))[i] = s[i]
         /\ SubSeq(s, n + 1, Len(s)) \in Seq(Message) /\ Len(SubSeq(s, n + 1, Len(s))) = Len(s) - n
         /\ \A i \in 1 .. Len(s) - n : SubSeq(s, n + 1, Len(s))[i] = s[n + i]
<1>1. \A q \in Seq(Message) : <<>> \o q = q
  OBVIOUS
<1>2. SubSeq(s, 1, n) \in Seq(Message)
  BY SubSeqFacts
<1>3. <<>> \o SubSeq(s, 1, n) = SubSeq(s, 1, n)
  BY <1>1, <1>2
<1>4. QED
  BY <1>3, SubSeqFacts

\* A time whose shifted value is not after now is not after now + shift.
LEMMA DueNotEarly ==
  ASSUME NEW m, m.time \in Int, now \in Int, now >= 0, shift \in Int, Shifted(m) <= now
  PROVE  m.time <= now + shift
BY DEF Shifted

\* A step of the thread.
LEMMA WorkerList ==
  ASSUME LifeInv, ListInv, NEW t \in Thread,
         \/ WorkerStep(t) \/ SpuriousWakeup(t)
         \/ \E goal \in Goal, tm \in Time : DeliverSchedules(t, goal, tm)
  PROVE  LifeInv' /\ ListInv'
<1> USE DEF ListInv
<1> DEFINE DataType == /\ messages' \in Seq(Message) /\ pending' \in Seq(Message)
                       /\ have_new_events' \in BOOLEAN /\ abs_time' \in Time \cup {NoTime}
                       /\ shift' \in Time /\ now' \in Time
<1>1. ASSUME DataType, ListInv'
      PROVE  LifeInv' /\ ListInv'
  BY <1>1, WorkerLife DEF LifeInv, PlannerType
<1>2. worker \in [Thread -> WorkerLabel] /\ \A u \in Thread \ {t} : worker[t] # "out" => worker[u] = "out"
  BY Alone DEF LifeInv, PlannerType
\* Steps that leave the lists and the times alone and do not go to sleep.
<1>3. ASSUME UNCHANGED <<messages, pending, have_new_events, abs_time, shift, now, pc>>,
             NEW label \in WorkerLabel \ {"svc2", "wait", "deliver"},
             worker' = [worker EXCEPT ![t] = label], worker[t] # "deliver"
      PROVE  LifeInv' /\ ListInv'
  <2>1. DataType
    BY <1>3 DEF LifeInv, PlannerType
  <2>2. Sorted' /\ NotEarly' /\ PendingUse' /\ WakeUps'
    BY <1>2, <1>3, Zenon DEF Sorted, NotEarly, PendingUse, WakeUps, Covered, Shifted
  <2>3. QED
    BY <1>1, <2>1, <2>2
<1>4. CASE GateStep(t)
  <2>1. UNCHANGED <<messages, pending, have_new_events, abs_time, shift, now, pc, worker>>
    BY <1>4 DEF GateStep, activeObjectVars, plannerVars
  <2>2. DataType /\ Sorted' /\ NotEarly' /\ PendingUse' /\ WakeUps'
    BY <2>1, Zenon DEF LifeInv, PlannerType, Sorted, NotEarly, PendingUse, WakeUps, Covered, Shifted
  <2>3. QED
    BY <1>1, <2>2
<1>5. CASE WorkBegin(t)
  <2>1. worker[t] # "deliver"
    BY <1>5, Zenon DEF WorkBegin, EnterJob, LifeInv, OneThread
  <2>2. PICK label \in {"svc1", "out"} : worker' = [worker EXCEPT ![t] = label]
    BY <1>5, Zenon DEF WorkBegin, Enter
  <2>3. QED
    BY <1>3, <1>5, <2>1, <2>2, Zenon DEF WorkBegin, activeObjectVars, WorkerLabel
<1>6. CASE Terminate(t) \/ SleepExpires(t) \/ NoNewEvents(t) \/ SpuriousWakeup(t)
  <2>1. PICK label \in {"out", "expired", "svc1", "woken"} : worker' = [worker EXCEPT ![t] = label]
    BY <1>6 DEF Terminate, Leave, SleepExpires, NoNewEvents, SpuriousWakeup, Enter
  <2>2. worker[t] # "deliver" /\ UNCHANGED <<messages, pending, have_new_events, abs_time, shift, now, pc>>
    BY <1>6 DEF Terminate, SleepExpires, NoNewEvents, SpuriousWakeup, activeObjectVars
  <2>3. QED
    BY <1>3, <2>1, <2>2, Zenon DEF WorkerLabel
<1>7. CASE Sleep(t)
  <2>1. DataType
    BY <1>7 DEF Sleep, LifeInv, PlannerType
  <2>2. Sorted' /\ NotEarly' /\ PendingUse'
    BY <1>2, <1>7, Zenon DEF Sleep, Enter, Sorted, NotEarly, PendingUse
  <2>3. WakeUps'
    BY <1>2, <1>7, Zenon DEF Sleep, Enter, WakeUps, Covered, Shifted
  <2>4. QED
    BY <1>1, <2>1, <2>2, <2>3
<1>8. CASE NewEvents(t)
  <2>1. DataType
    BY <1>8, Zenon DEF NewEvents, LifeInv, PlannerType
  <2>2. Sorted' /\ NotEarly' /\ PendingUse' /\ WakeUps'
    BY <1>2, <1>8, Zenon DEF NewEvents, Enter, Sorted, NotEarly, PendingUse, WakeUps
  <2>3. QED
    BY <1>1, <2>1, <2>2
<1>9. CASE Adjust(t)
  <2>1. pending = <<>>
    BY <1>2, <1>9 DEF Adjust, PendingUse
  <2>2. DataType
    <3>1. shift' \in Time
      BY <1>9, PlannerAssumption DEF Adjust, LifeInv, PlannerType, Time, NoTime
    <3>2. QED
      BY <1>9, <3>1 DEF Adjust, LifeInv, PlannerType
  <2>3. Sorted' /\ NotEarly' /\ PendingUse' /\ WakeUps'
    BY <1>2, <1>9, <2>1 DEF Adjust, Enter, Sorted, NotEarly, PendingUse, WakeUps
  <2>4. QED
    BY <1>1, <2>2, <2>3
<1>10. CASE Deliver(t)
  <2>1. pending # <<>> /\ pending \in Seq(Message)
    BY <1>10 DEF Deliver, PendingUse, LifeInv, PlannerType
  <2>2. DataType /\ Len(pending') = Len(pending) - 1 /\ \A i \in 1 .. Len(pending') : pending'[i] = pending[i + 1]
    BY <1>10, <2>1 DEF Deliver, LifeInv, PlannerType
  <2>3. worker' = [worker EXCEPT ![t] = IF pending' = <<>> THEN "svc1" ELSE "deliver"]
    <3>1. pending' = <<>> <=> Len(pending) = 1
      BY <2>1, <2>2, LastTaken
    <3>2. QED
      BY <1>10, <3>1, Zenon DEF Deliver, Enter
  <2>4. Sorted' /\ PendingUse' /\ WakeUps'
    BY <1>2, <1>10, <2>3, Zenon DEF Deliver, Sorted, PendingUse, WakeUps
  <2>5. NotEarly'
    <3>1. UNCHANGED <<now, shift>>
      BY <1>10 DEF Deliver
    <3>2. QED
      BY <2>1, <2>2, <3>1, RestNotEarly
  <2>6. QED
    BY <1>1, <2>2, <2>4, <2>5, Zenon
<1>11. ASSUME NEW goal \in Goal, NEW tm \in Time, DeliverSchedules(t, goal, tm)
       PROVE  LifeInv' /\ ListInv'
  <2>1. pending # <<>> /\ pending \in Seq(Message)
    BY <1>11 DEF DeliverSchedules, PendingUse, LifeInv, PlannerType
  <2>2. PICK p \in 1 .. Len(messages) + 1 : Insert(goal, tm, p)
    BY <1>11 DEF DeliverSchedules
  <2>3. messages' \in Seq(Message) /\ Sorted' /\ have_new_events' = (have_new_events \/ p = 1)
    BY <2>2, InsertList
  <2>4. DataType /\ Len(pending') = Len(pending) - 1 /\ \A i \in 1 .. Len(pending') : pending'[i] = pending[i + 1]
    BY <1>11, <2>1, <2>3 DEF DeliverSchedules, LifeInv, PlannerType
  <2>5. worker' = [worker EXCEPT ![t] = IF pending' = <<>> THEN "svc1" ELSE "deliver"]
    <3>1. pending' = <<>> <=> Len(pending) = 1
      BY <2>1, <2>4, LastTaken, Zenon
    <3>2. QED
      BY <1>11, <3>1, Zenon DEF DeliverSchedules, Enter
  <2>6. PendingUse' /\ WakeUps'
    BY <1>2, <1>11, <2>5, Zenon DEF DeliverSchedules, PendingUse, WakeUps
  <2>7. NotEarly'
    <3>1. UNCHANGED <<now, shift>>
      BY <1>11 DEF DeliverSchedules
    <3>2. QED
      BY <2>1, <2>4, <3>1, RestNotEarly
  <2>8. QED
    BY <1>1, <2>3, <2>4, <2>6, <2>7
<1>12. CASE Pump(t)
  <2>1. PICK n \in 0 .. Len(messages) :
          /\ IsPumped(n)
          /\ pending' = pending \o SubSeq(messages, 1, n)
          /\ messages' = SubSeq(messages, n + 1, Len(messages))
          /\ abs_time' = IF n < Len(messages) THEN Shifted(messages[n + 1]) ELSE NoTime
    BY <1>12, Zenon DEF Pump
  <2>2. pending = <<>> /\ messages \in Seq(Message)
    BY <1>2, <1>12, Zenon DEF Pump, PendingUse, LifeInv, PlannerType
  <2>3. /\ pending' \in Seq(Message) /\ Len(pending') = n
        /\ \A i \in 1 .. n : pending'[i] = messages[i]
        /\ messages' \in Seq(Message) /\ Len(messages') = Len(messages) - n
        /\ \A i \in 1 .. Len(messages) - n : messages'[i] = messages[n + i]
    BY <2>1, <2>2, TakeFirst
  <2>4. \A i \in 1 .. Len(messages) : messages[i].time \in Time
    <3>1. \A i \in 1 .. Len(messages) : messages[i] \in Message
      BY <2>2
    <3>2. QED
      BY <3>1 DEF Message
  <2>5. DataType
    <3>1. abs_time' \in Time \cup {NoTime}
      <4>1. ASSUME NEW m, m.time \in Time
            PROVE  Shifted(m) \in Time
        BY <4>1, PlannerAssumption DEF Shifted, Time, LifeInv, PlannerType
      <4>2. QED
        BY <2>1, <2>4, <4>1
    <3>2. QED
      BY <1>12, <2>3, <3>1, Zenon DEF Pump, LifeInv, PlannerType
  <2>6. Sorted'
    BY <2>2, <2>3, RestSorted, Zenon
  <2>7. NotEarly'
    <3> SUFFICES ASSUME NEW i \in 1 .. Len(pending')
                 PROVE  pending'[i].time <= now' + shift'
      BY Zenon DEF NotEarly
    <3>1. pending'[i] = messages[i] /\ i \in 1 .. n /\ i \in 1 .. Len(messages)
      BY <2>1, <2>2, <2>3
    <3>2. messages[i].time \in Int /\ now \in Int /\ shift \in Int /\ now >= 0
      BY <3>1, TimesAreNumbers, Zenon
    <3>3. Shifted(messages[i]) <= now
      BY <2>1, <3>1 DEF IsPumped, Due
    <3>4. messages[i].time <= now + shift
      BY <3>2, <3>3, DueNotEarly
    <3>5. QED
      BY <1>12, <3>1, <3>4, Zenon DEF Pump
  <2>8. worker' = [worker EXCEPT ![t] = IF pending' = <<>> THEN "svc2" ELSE "deliver"]
    BY <1>12 DEF Pump, Enter
  <2>9. PendingUse'
    BY <1>2, <1>12, <2>8, Zenon DEF Pump, PendingUse
  <2>10. Covered'
    <3>1. CASE n = Len(messages)
      <4>1. messages' \in Seq(Message) /\ Len(messages') = 0
        BY <2>2, <2>3, <3>1
      <4>2. messages' = <<>>
        BY <4>1
      <4>3. QED
        BY <4>2, Zenon DEF Covered
    <3>2. CASE n < Len(messages)
      <4>1. abs_time' = Shifted(messages[n + 1]) /\ messages'[1] = messages[n + 1] /\ shift' = shift
        BY <1>12, <2>1, <2>2, <2>3, <3>2 DEF Pump
      <4>2. Shifted(messages[n + 1]) \in Int /\ Shifted(messages[n + 1]) >= 0
        BY <2>4, <3>2, TimesAreNumbers DEF Shifted, Time
      <4>3. QED
        BY <4>1, <4>2 DEF Covered, Shifted, NoTime
    <3>3. QED
      BY <2>2, <3>1, <3>2
  <2>11. WakeUps'
    BY <1>2, <1>12, <2>8, <2>10, Zenon DEF Pump, WakeUps
  <2>12. QED
    BY <1>1, <2>5, <2>6, <2>7, <2>9, <2>11
<1>13. QED
  BY <1>4, <1>5, <1>6, <1>7, <1>8, <1>9, <1>10, <1>11, <1>12 DEF WorkerStep

-----------------------------------------------------------------------------
\* The initial states satisfy the inductive invariant.
LEMMA InitIInv == Init => IInv
<1> SUFFICES ASSUME Init PROVE IInv
  OBVIOUS
<1>1. PlannerType
  <2>1. 0 \in Time /\ 0 \in Nat /\ <<>> \in Seq(Message)
    BY PlannerAssumption DEF Time
  <2>2. NoThread \in Thread \cup {NoThread} /\ "free" \in ThreadState /\ "out" \in WorkerLabel
    BY DEF ThreadState, WorkerLabel
  <2>3. "idle" \in (CommonLabel \cup {"signal", "erase"}) \ {"unwind", "unreset"}
    BY DEF CommonLabel
  <2>4. QED
    BY <2>1, <2>2, <2>3, Zenon DEF Init, ActiveObjectInit, ThreadRunnerInit, PlannerType
<1>2. Mutexes /\ OneThread
  BY DEF Init, ActiveObjectInit, ThreadRunnerInit, Mutexes, OneThread, Locked, Waiting
<1>3. Sorted /\ WakeUps /\ PendingUse /\ NotEarly
  BY DEF Init, ActiveObjectInit, ThreadRunnerInit, Sorted, WakeUps, Covered, PendingUse, NotEarly
<1>4. QED
  BY <1>1, <1>2, <1>3 DEF IInv

\* A step of the life cycle leaves the planner alone and forgets no signal.
LEMMA ControlList ==
  ASSUME LifeInv, ListInv, NEW c \in Controller,
         ControlStep(c) \/ ((Activate(c) \/ Wait(c)) /\ UNCHANGED plannerVars)
  PROVE  LifeInv' /\ ListInv'
<1>2. UNCHANGED plannerVars
  BY DEF ControlStep
<1>1. LifeInv'
  <2>1. c \in Client /\ (LifeCycleStep(c) \/ ActivateEnd(c) \/ Activate(c) \/ Wait(c))
    BY PlannerAssumption DEF ControlStep
  <2>2. QED
    BY <1>2, <2>1, ControlLife
<1>3. pc[c] # "signal" /\ \E label \in CommonLabel : pc' = pc \/ pc' = [pc EXCEPT ![c] = label]
  <2>1. CASE LifeCycleStep(c)
    BY <2>1 DEF LifeCycleStep, StartRejects, StartAccepts, CreateOne, CreateFails, ActivateFails, WaitRunning,
                JoinNext, CloseGate, ResetRunning, Terminated, Settle, Goto, CommonLabel, activeObjectVars
  <2>2. CASE Activate(c) \/ Wait(c) \/ ActivateEnd(c)
    BY <2>2 DEF Activate, Wait, ActivateEnd, Goto, CommonLabel
  <2>3. QED
    BY <2>1, <2>2 DEF ControlStep
<1>4. pc \in [Client -> (CommonLabel \cup {"signal", "erase"}) \ {"unwind", "unreset"}]
  BY DEF LifeInv, PlannerType
<1>5. \A d \in Client : pc[d] = "signal" => pc'[d] = "signal"
  BY <1>3, <1>4
<1>6. ListInv'
  BY <1>2, <1>5 DEF ListInv, plannerVars, Sorted, WakeUps, Covered, Shifted, PendingUse, NotEarly
<1>7. QED
  BY <1>1, <1>6

\* Time passes.
LEMMA TickList ==
  ASSUME LifeInv, ListInv, Tick
  PROVE  LifeInv' /\ ListInv'
<1>1. now \in Nat /\ now' = now + 1 /\ now' \in Time /\ shift \in Nat /\ shift' = shift
  BY PlannerAssumption DEF Tick, LifeInv, PlannerType, Time
<1>2. LifeInv'
  <2>1. PlannerType'
    BY <1>1 DEF LifeInv, PlannerType, Tick, threadRunnerVars, activeObjectVars
  <2>2. Mutexes' /\ OneThread'
    BY DEF LifeInv, Mutexes, OneThread, Tick, threadRunnerVars, activeObjectVars
  <2>3. QED
    BY <2>1, <2>2 DEF LifeInv
<1>3. Sorted' /\ WakeUps' /\ PendingUse'
  BY DEF ListInv, Tick, activeObjectVars, Sorted, WakeUps, Covered, Shifted, PendingUse
<1>4. NotEarly'
  <2> SUFFICES ASSUME NEW i \in 1 .. Len(pending) PROVE pending[i].time <= now' + shift'
    BY DEF Tick, NotEarly
  <2>1. pending[i] \in Message
    BY DEF LifeInv, PlannerType
  <2>2. pending[i].time \in Int
    BY <2>1, PlannerAssumption DEF Message, Time
  <2>3. pending[i].time <= now + shift
    BY DEF ListInv, NotEarly
  <2>4. QED
    BY <1>1, <2>2, <2>3
<1>5. QED
  BY <1>2, <1>3, <1>4 DEF ListInv

\* The inductive invariant.
THEOREM Invariance == Spec => []IInv
<1>1. IInv /\ [Next]_vars => IInv'
  <2> SUFFICES ASSUME LifeInv, ListInv, [Next]_vars PROVE LifeInv' /\ ListInv'
    BY DEF IInv, LifeInv, ListInv
  <2>1. CASE UNCHANGED vars
    <3>1. LifeInv'
      BY <2>1 DEF LifeInv, PlannerType, Mutexes, OneThread, vars, threadRunnerVars, activeObjectVars, plannerVars
    <3>2. ListInv'
      BY <2>1 DEF ListInv, Sorted, WakeUps, Covered, Shifted, PendingUse, NotEarly, vars, activeObjectVars, plannerVars
    <3>3. QED
      BY <3>1, <3>2
  <2>2. ASSUME NEW c \in Scheduler,
               \/ ScheduleStep(c) \/ Clear(c)
               \/ \E goal \in Goal : Unschedule(c, goal)
               \/ \E goal \in Goal, time \in -1 .. MaxTime : Schedule(c, goal, time)
        PROVE  LifeInv' /\ ListInv'
    BY <2>2, ClientList, PlannerAssumption
  <2>3. ASSUME NEW c \in Controller,
               ControlStep(c) \/ ((Activate(c) \/ Wait(c)) /\ UNCHANGED plannerVars)
        PROVE  LifeInv' /\ ListInv'
    BY <2>3, ControlList
  <2>4. ASSUME NEW c \in Stopper, DeactivatePlanner(c)
        PROVE  LifeInv' /\ ListInv'
    BY <2>4, ClientList, PlannerAssumption
  <2>5. ASSUME NEW t \in Thread,
               \/ WorkerStep(t) \/ SpuriousWakeup(t)
               \/ \E goal \in Goal, tm \in Time : DeliverSchedules(t, goal, tm)
        PROVE  LifeInv' /\ ListInv'
    BY <2>5, WorkerList
  <2>6. CASE Tick
    BY <2>6, TickList
  <2>7. QED
    BY <2>1, <2>2, <2>3, <2>4, <2>5, <2>6 DEF Next
<1>2. QED
  BY <1>1, InitIInv, PTL DEF Spec

\* The list of messages is always in the order of time.
THEOREM ListSorted == Spec => []Sorted
<1>1. IInv => Sorted
  BY DEF IInv
<1>2. QED
  BY <1>1, Invariance, PTL

\* No wake-up is lost: a sleeping thread wakes up no later than the first
\* message of the list asks for, or a signal is on its way.
THEOREM NoLostWakeup == Spec => []SleepCoversSchedule
<1>1. IInv => SleepCoversSchedule
  <2>1. ASSUME PlannerType, messages # <<>>
        PROVE  Head(messages) = messages[1]
    BY <2>1 DEF PlannerType
  <2>2. QED
    BY <2>1 DEF IInv, WakeUps, Covered, SleepCoversSchedule
<1>2. QED
  BY <1>1, Invariance, PTL

\* No message is delivered before its time but for delivery_time_shift_.
THEOREM NeverEarly == Spec => []NotEarly
<1>1. IInv => NotEarly
  BY DEF IInv
<1>2. QED
  BY <1>1, Invariance, PTL

\* The thread leaves work() with every message it took off the list delivered.
THEOREM NoneLost == Spec => []NoneLostAtEnd
<1>1. IInv => NoneLostAtEnd
  BY DEF IInv, PendingUse, NoneLostAtEnd
<1>2. QED
  BY <1>1, Invariance, PTL

=============================================================================
