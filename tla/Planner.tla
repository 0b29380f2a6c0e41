------------------------------- MODULE Planner -------------------------------
(***************************************************************************)
(* Generics::Planner (Generics/Scheduler.cpp): an ActiveObject with one    *)
(* thread that calls goals at the times they were scheduled for.  The      *)
(* thread sleeps on a condition variable until the first time in the list; *)
(* schedule() tells it, through have_new_events_, that the first time has  *)
(* changed.                                                                *)
(***************************************************************************)
EXTENDS ActiveObjectCommonImpl, Sequences

CONSTANTS Goal,                     \* goals that can be scheduled
          Scheduler,                \* clients that call schedule, unschedule and clear
          Controller,               \* clients that call activate_object and wait_object
          Stopper,                  \* clients that call deactivate_object
          DeliveryTimeAdjustment,   \* delivery_time_adjustment_
          MaxTime,                  \* bound: the clock stops here
          MaxMessages               \* bound: messages planned at one time

ASSUME PlannerAssumption ==
  /\ NumberOfJobs = 1
  /\ DeliveryTimeAdjustment \in BOOLEAN
  /\ MaxTime \in Nat /\ MaxMessages \in Nat
  /\ Scheduler \cup Controller \cup Stopper \subseteq Client
  /\ Nobody \notin Client

VARIABLES messages,             \* messages_
          pending,              \* local list of work()
          have_new_events,      \* have_new_events_
          abs_time,             \* *pabs_time of work(), NoTime when the pointer is null
          shift,                \* delivery_time_shift_
          worker,               \* where each thread is in work()
          now,                  \* Time::get_time_of_day()
          target                \* the goal the unschedule call under way erases

plannerVars == <<messages, pending, have_new_events, abs_time, shift, worker, now, target>>
vars == <<threadRunnerVars, activeObjectVars, plannerVars>>

NoTime == -1
Time == 0 .. MaxTime
Message == [time : Time, goal : Goal]
WorkerLabel == {"out", "svc1", "svc2", "wait", "woken", "expired", "adjust", "deliver"}

TypeOK ==
  /\ ThreadRunnerType
  /\ active_state \in {"ACTIVE", "DEACTIVATING", "NOT_ACTIVE"}
  /\ terminating \in BOOLEAN
  /\ work_mutex \in Client \cup {Nobody}
  /\ termination_mutex \in Client \cup {Nobody}
  /\ pc \in [Client -> CommonLabel \cup {"signal", "erase"}]
  /\ slot \in [Client -> 0 .. NumberOfJobs]
  /\ messages \in Seq(Message)
  /\ pending \in Seq(Message)
  /\ have_new_events \in BOOLEAN
  /\ abs_time \in Time \cup {NoTime}
  /\ shift \in Time
  /\ worker \in [Thread -> WorkerLabel]
  /\ now \in Time
  /\ target \in Goal

Init ==
  /\ ActiveObjectInit
  /\ messages = <<>>
  /\ pending = <<>>
  /\ have_new_events = FALSE
  /\ abs_time = NoTime
  /\ shift = 0
  /\ worker = [t \in Thread |-> "out"]
  /\ now = 0
  /\ target \in Goal

-----------------------------------------------------------------------------
\* new_event_in_schedule_.signal(): wakes the thread if it sleeps.
Signal == worker' = [t \in Thread |-> IF worker[t] = "wait" THEN "woken" ELSE worker[t]]

\* Mutant: new messages go to the end of the list.
IsPosition_AtEnd(p, tm) == p = Len(messages) + 1

\* schedule's scan from the end of the list: p is the place behind the last
\* message with an earlier time.
IsPosition(p, tm) ==
  /\ p > 1 => messages[p - 1].time < tm
  /\ \A i \in p .. Len(messages) : messages[i].time >= tm

\* sch 1.  bound: MaxMessages.
Insert(goal, tm, p) ==
  /\ Len(messages) + Len(pending) < MaxMessages
  /\ IsPosition(p, tm)
  /\ messages' = SubSeq(messages, 1, p - 1) \o <<[time |-> tm, goal |-> goal]>> \o SubSeq(messages, p, Len(messages))
  /\ have_new_events' = (have_new_events \/ p = 1)

\* Mutant: the thread is signalled only when the list was empty.
Schedule_SignalsIfEmpty(c, goal, time) ==
  /\ pc[c] = "idle"
  /\ Unlocked
  /\ \E p \in 1 .. Len(messages) + 1 :
       /\ Insert(goal, IF time > 0 THEN time ELSE 0, p)
       /\ Goto(c, IF p = 1 /\ messages = <<>> THEN "signal" ELSE "idle")
  /\ UNCHANGED <<threadRunnerVars, active_state, terminating, work_mutex, termination_mutex, slot,
                 pending, abs_time, shift, worker, now, target>>

\* Mutant: a time in the past is kept.
Schedule_NoClamp(c, goal, time) ==
  /\ pc[c] = "idle"
  /\ Unlocked
  /\ \E p \in 1 .. Len(messages) + 1 :
       /\ Insert(goal, time, p)
       /\ Goto(c, IF p = 1 THEN "signal" ELSE "idle")
  /\ UNCHANGED <<threadRunnerVars, active_state, terminating, work_mutex, termination_mutex, slot,
                 pending, abs_time, shift, worker, now, target>>

Schedule(c, goal, time) ==
  /\ pc[c] = "idle"
  /\ Unlocked
  /\ \E p \in 1 .. Len(messages) + 1 :
       /\ Insert(goal, IF time > 0 THEN time ELSE 0, p)
       /\ Goto(c, IF p = 1 THEN "signal" ELSE "idle")
  /\ UNCHANGED <<threadRunnerVars, active_state, terminating, work_mutex, termination_mutex, slot,
                 pending, abs_time, shift, worker, now, target>>

\* sch 2: the signal, after the mutex has been released.
ScheduleSignal(c) ==
  /\ pc[c] = "signal"
  /\ Signal
  /\ Goto(c, "idle")
  /\ UNCHANGED <<threadRunnerVars, active_state, terminating, work_mutex, termination_mutex, slot,
                 messages, pending, have_new_events, abs_time, shift, now, target>>

\* unschedule: erases the messages of a goal one by one under the mutex.
Unschedule(c, goal) ==
  /\ pc[c] = "idle"
  /\ Unlocked
  /\ work_mutex' = c
  /\ target' = goal
  /\ Goto(c, "erase")
  /\ UNCHANGED <<threadRunnerVars, active_state, terminating, termination_mutex, slot,
                 messages, pending, have_new_events, abs_time, shift, worker, now>>

UnscheduleErase(c) ==
  /\ pc[c] = "erase"
  /\ \E i \in 1 .. Len(messages) :
       /\ messages[i].goal = target
       /\ \A j \in 1 .. i - 1 : messages[j].goal # target
       /\ messages' = SubSeq(messages, 1, i - 1) \o SubSeq(messages, i + 1, Len(messages))
  /\ UNCHANGED <<threadRunnerVars, activeObjectVars,
                 pending, have_new_events, abs_time, shift, worker, now, target>>

UnscheduleEnd(c) ==
  /\ pc[c] = "erase"
  /\ \A i \in 1 .. Len(messages) : messages[i].goal # target
  /\ work_mutex' = Nobody
  /\ Goto(c, "idle")
  /\ UNCHANGED <<threadRunnerVars, active_state, terminating, termination_mutex, slot, plannerVars>>

Clear(c) ==
  /\ pc[c] = "idle"
  /\ Unlocked
  /\ messages' = <<>>
  /\ UNCHANGED <<threadRunnerVars, activeObjectVars,
                 pending, have_new_events, abs_time, shift, worker, now, target>>

\* Mutant: terminate() signals without setting the predicate.
DeactivatePlanner_NoPredicate(c) ==
  /\ Deactivate(c)
  /\ Signal
  /\ UNCHANGED <<messages, pending, have_new_events, abs_time, shift, now, target>>

\* deactivate_object with PlannerJob::terminate().
DeactivatePlanner(c) ==
  /\ Deactivate(c)
  /\ have_new_events' = TRUE
  /\ Signal
  /\ UNCHANGED <<messages, pending, abs_time, shift, now, target>>

-----------------------------------------------------------------------------
(* PlannerJob::work of thread t *)

Enter(t, label) == worker' = [worker EXCEPT ![t] = label]

Leave(t) == LeaveJob(t) /\ Enter(t, "out")

WorkBegin(t) ==
  /\ EnterJob(t)
  /\ Enter(t, IF thread'[t] = "working" THEN "svc1" ELSE "out")
  /\ UNCHANGED <<activeObjectVars, messages, pending, have_new_events, abs_time, shift, now, target>>

\* The time at which a message may be delivered.
Shifted(m) == IF m.time > shift THEN m.time - shift ELSE 0

\* Mutant: a tick of tolerance.
Due_Early(m) == Shifted(m) <= now + 1

Due(m) == Shifted(m) <= now

\* The number of messages from the front of the list that are due.
IsPumped(n) ==
  /\ \A i \in 1 .. n : Due(messages[i])
  /\ n < Len(messages) => ~Due(messages[n + 1])

\* svc 1: the due messages go to pending.
Pump(t) ==
  /\ worker[t] = "svc1"
  /\ Unlocked
  /\ ~terminating
  /\ \E n \in 0 .. Len(messages) :
       /\ IsPumped(n)
       /\ pending' = pending \o SubSeq(messages, 1, n)
       /\ messages' = SubSeq(messages, n + 1, Len(messages))
       /\ abs_time' = IF n < Len(messages) THEN Shifted(messages[n + 1]) ELSE NoTime
  /\ Enter(t, IF pending' = <<>> THEN "svc2" ELSE "deliver")
  /\ UNCHANGED <<threadRunnerVars, activeObjectVars, have_new_events, shift, now, target>>

\* Mutant: the end is also looked for between two deliveries.
Terminate_Delivering(t) ==
  /\ worker[t] \in {"svc1", "woken", "expired", "deliver"} \/ (worker[t] = "svc2" /\ have_new_events)
  /\ Unlocked
  /\ terminating
  /\ Leave(t)
  /\ UNCHANGED <<activeObjectVars, messages, pending, have_new_events, abs_time, shift, now, target>>

Terminate(t) ==
  /\ worker[t] \in {"svc1", "woken", "expired"} \/ (worker[t] = "svc2" /\ have_new_events)
  /\ Unlocked
  /\ terminating
  /\ Leave(t)
  /\ UNCHANGED <<activeObjectVars, messages, pending, have_new_events, abs_time, shift, now, target>>

\* Mutant: the thread sleeps without looking at have_new_events_.
Sleep_Always(t) ==
  /\ worker[t] = "svc2"
  /\ Unlocked
  /\ Enter(t, "wait")
  /\ UNCHANGED <<threadRunnerVars, activeObjectVars, messages, pending, have_new_events, abs_time, shift, now, target>>

\* svc 2: sleep, unless there are new events already.
Sleep(t) ==
  /\ worker[t] = "svc2"
  /\ Unlocked
  /\ ~have_new_events
  /\ Enter(t, "wait")
  /\ UNCHANGED <<threadRunnerVars, activeObjectVars, messages, pending, have_new_events, abs_time, shift, now, target>>

SleepExpires(t) ==
  /\ worker[t] = "wait"
  /\ abs_time # NoTime /\ now >= abs_time
  /\ Enter(t, "expired")
  /\ UNCHANGED <<threadRunnerVars, activeObjectVars, messages, pending, have_new_events, abs_time, shift, now, target>>

\* timed_wait returns early, or fails.
SpuriousWakeup(t) ==
  /\ worker[t] = "wait"
  /\ \E label \in {"woken", "expired"} : Enter(t, label)
  /\ UNCHANGED <<threadRunnerVars, activeObjectVars, messages, pending, have_new_events, abs_time, shift, now, target>>

\* The mutex is taken again, or was never given up; new_event_in_schedule is
\* true for a wake-up with new events.
NewEvents(t) ==
  /\ worker[t] \in {"svc2", "woken"}
  /\ Unlocked
  /\ ~terminating
  /\ have_new_events
  /\ have_new_events' = FALSE
  /\ Enter(t, "adjust")
  /\ UNCHANGED <<threadRunnerVars, activeObjectVars, messages, pending, abs_time, shift, now, target>>

NoNewEvents(t) ==
  /\ worker[t] = "expired" \/ (worker[t] = "woken" /\ ~have_new_events)
  /\ Unlocked
  /\ ~terminating
  /\ Enter(t, "svc1")
  /\ UNCHANGED <<threadRunnerVars, activeObjectVars, messages, pending, have_new_events, abs_time, shift, now, target>>

Adjust(t) ==
  /\ worker[t] = "adjust"
  /\ shift' = IF DeliveryTimeAdjustment /\ abs_time # NoTime /\ now > abs_time
                THEN (now - abs_time) \div 2 ELSE shift
  /\ Enter(t, "svc1")
  /\ UNCHANGED <<threadRunnerVars, activeObjectVars, messages, pending, have_new_events, abs_time, now, target>>

\* Mutant: an exception of deliver() leaves the message in the list.
Deliver_NotPopped(t) ==
  /\ worker[t] = "deliver"
  /\ Enter(t, IF Len(pending) = 1 THEN "svc1" ELSE "deliver")
  /\ UNCHANGED <<threadRunnerVars, activeObjectVars, messages, pending, have_new_events, abs_time, shift, now, target>>

\* svc 3: deliver() returns or throws (the exception goes to the callback).
Deliver(t) ==
  /\ worker[t] = "deliver"
  /\ pending' = Tail(pending)
  /\ Enter(t, IF Len(pending) = 1 THEN "svc1" ELSE "deliver")
  /\ UNCHANGED <<threadRunnerVars, activeObjectVars, messages, have_new_events, abs_time, shift, now, target>>

\* A goal whose deliver() schedules a goal; nobody sleeps who could be signalled.
DeliverSchedules(t, goal, tm) ==
  /\ worker[t] = "deliver"
  /\ Unlocked
  /\ \E p \in 1 .. Len(messages) + 1 : Insert(goal, tm, p)
  /\ pending' = Tail(pending)
  /\ Enter(t, IF Len(pending) = 1 THEN "svc1" ELSE "deliver")
  /\ UNCHANGED <<threadRunnerVars, activeObjectVars, abs_time, shift, now, target>>

-----------------------------------------------------------------------------
Tick ==
  /\ now < MaxTime
  /\ now' = now + 1
  /\ UNCHANGED <<threadRunnerVars, activeObjectVars,
                 messages, pending, have_new_events, abs_time, shift, worker, target>>

GateStep(t) == (GateAcquire(t) \/ GateRelease(t)) /\ UNCHANGED <<activeObjectVars, plannerVars>>

WorkerStep(t) ==
  \/ GateStep(t) \/ WorkBegin(t) \/ Pump(t) \/ Terminate(t) \/ Sleep(t) \/ SleepExpires(t)
  \/ NewEvents(t) \/ NoNewEvents(t) \/ Adjust(t) \/ Deliver(t)

ScheduleStep(c) == ScheduleSignal(c) \/ UnscheduleErase(c) \/ UnscheduleEnd(c)

ControlStep(c) == (LifeCycleStep(c) \/ ActivateEnd(c)) /\ UNCHANGED plannerVars

Next ==
  \/ \E c \in Scheduler : \/ ScheduleStep(c) \/ Clear(c)
                          \/ \E goal \in Goal : Unschedule(c, goal)
                          \/ \E goal \in Goal, time \in -1 .. MaxTime : Schedule(c, goal, time)
  \/ \E c \in Controller : ControlStep(c) \/ ((Activate(c) \/ Wait(c)) /\ UNCHANGED plannerVars)
  \/ \E c \in Stopper : DeactivatePlanner(c)
  \/ \E t \in Thread : \/ WorkerStep(t) \/ SpuriousWakeup(t)
                       \/ \E goal \in Goal, tm \in Time : DeliverSchedules(t, goal, tm)
  \/ Tick

Spec == Init /\ [][Next]_vars

\* Threads go on with what they do, and the clock runs.  Calls are not forced,
\* nor are spurious wake-ups.
Fairness ==
  /\ WF_vars(Tick)
  /\ \A c \in Scheduler : WF_vars(ScheduleStep(c))
  /\ \A c \in Controller : SF_vars(ControlStep(c))
  /\ \A t \in Thread : SF_vars(WorkerStep(t))

FairSpec == Spec /\ Fairness

-----------------------------------------------------------------------------
(* Properties. *)

\* messages_ is in the order of time, whatever mix of schedule, unschedule and
\* delivery produced it: the pump stops at the first message that is not due.
Sorted == \A i \in 1 .. Len(messages) - 1 : messages[i].time <= messages[i + 1].time

\* No lost wake-up: while the thread sleeps, its timeout is not later than the
\* first message, or it has been told of new events and the signal is coming.
SleepCoversSchedule ==
  \A t \in Thread : worker[t] = "wait" =>
    \/ messages = <<>>
    \/ abs_time # NoTime /\ abs_time <= Shifted(Head(messages))
    \/ have_new_events /\ \E c \in Client : pc[c] = "signal"

\* A message is never delivered before its time but for delivery_time_shift_.
NotEarly == \A i \in 1 .. Len(pending) : pending[i].time <= now + shift

\* The messages taken off messages_ are delivered before the thread ends:
\* deactivation loses none of them (they live in a local variable of work()).
NoneLostAtEnd == (\A t \in Thread : worker[t] = "out") => pending = <<>>

\* Every message that is due is pumped, removed, or waits for the planner to be
\* activated again.
DueIsDelivered ==
  (messages # <<>> /\ Due(messages[1])) ~>
     (messages = <<>> \/ ~Due(messages[1]) \/ pending # <<>> \/ active_state # "ACTIVE")

\* What has been pumped is delivered, even while the planner is deactivated.
PendingIsDelivered == pending # <<>> ~> pending = <<>>

\* wait_object returns once deactivate_object has been called: the sleeping
\* thread notices.
DeactivationCompletes ==
  \A c \in Controller : pc[c] = "join" /\ active_state = "DEACTIVATING" ~> pc[c] = "idle"

=============================================================================
