# Models of UnixCommons

UnixCommons is a C++ library of building blocks for servers. This directory
holds TLA+ models of its concurrency core, the part where correctness depends on
the order of the steps of several threads: the runner of threads, the life cycle
of active objects, the task queue, the scheduler, the bounded cache map and the
composite of active objects. TLC checks the models on small instances; TLAPS
proves the main safety properties for every instance.

## The system

### Parts and how they interact

| Part (`src/src/...`) | State | Operations | Built on |
|---|---|---|---|
| `ThreadRunner` (Generics) | `jobs_`, `number_running_`, `start_semaphore_` | `start`, `start_one`, `wait_for_completion`; `thread_func_` in each thread | pthreads, `Sync::Semaphore` |
| `ActiveObjectCommonImpl` (Generics) | `active_state_`, the job's `terminating_`, `work_mutex_`, `termination_mutex_` | `activate_object`, `deactivate_object`, `wait_object` | `ThreadRunner` |
| `TaskRunner` (Generics) | `tasks_`, `new_task_`, `not_full_`, `number_of_unused_threads_` | `enqueue_task`, `clear`; `work` in each thread | `ActiveObjectCommonImpl`, `start_one` |
| `Planner` (Generics) | `messages_`, `have_new_events_`, `delivery_time_shift_` | `schedule`, `unschedule`, `clear`; `work` in one thread | `ActiveObjectCommonImpl`, `Sync::Condition` |
| `BoundedMap` (Generics) | `container_`, `queue_`, `size_`, `bound_`, `timeout_`, `stat_` | `find`, `insert`, `insert_or_update`, `update`, `erase`, `clear`, setters, `statistics` | one mutex, the clock |
| `SimpleActiveObject`, `CompositeActiveObject` (Generics) | `state_`, `child_objects_`, the children | `activate_object`, `deactivate_object`, `wait_object`, `add_child_object`, `clear_children` | `Sync::Condition` |
| `CompositeSetActiveObject`, `RemovableActiveObject` (Generics) | a set of unowned children | a child removes itself when its last reference goes | reference counts |
| `PeriodicTask`, `PeriodicRunner` (Generics) | `quit_`, `start_`, the list of jobs | `add_task`, `enforce_start`, `clear`, the life cycle | `ThreadRunner`, `Sync::Condition` |
| `Cache`, `CacheManager` (Generics/FileCache) | a buffer shared by reference count, the last check | `get`, release of the buffer | `BoundedMap`, `Sync::Condition` |
| `ObjectPool` (CORBACommons) | per object: `is_bad`, `use_count`, the reference; the policies | `get_object`, release of a handle, `release_bad` | one mutex and one per object |
| `HttpAsyncPool` (HTTP) | threads, connections, requests | `add_request`, the decision policies | `ActiveObject`, descriptor listener |
| `PlainStorage` | blocks of a file, an index | open, read, write, erase, close | file I/O |
| Logger, Stream, String, XMLUtility, SNMPAgent, Apache, Language, GeoIP, ... | little or none that threads share | formatting, parsing, look-up, adapters | |

Other parts of the library use these: a server is typically a
`CompositeActiveObject` whose children are `TaskRunner`s, `Planner`s and CORBA or
HTTP adapters.

### The hard behaviours, and what correctness means

* **Start of a group of threads.** Threads are created one by one and must not
  run before the last one is there; a failure half-way has to take back the
  others. `ThreadRunner.hpp`: "If creation of a thread fails, no jobs will run."
* **Stop and restart.** `wait_object` joins without `work_mutex_` while
  `enqueue_task` may add a thread with it. A stopped object must have no thread
  and be ready for another activation.
* **Wake-ups.** `TaskRunner` counts them in a semaphore used outside the mutex,
  `Planner` combines a flag, a condition signalled after the mutex is released
  and an absolute timeout computed before it is taken. No task and no message
  may be slept over, and termination has to reach every thread.
* **Places of a bounded queue.** They are taken before and given back after the
  critical section, with exceptions, `clear` and restarts in between.
* **Accounting under eviction.** `BoundedMap` counts before it removes, skips the
  item it works for, reads the clock before it has the mutex, and its items
  change size behind its back.
* **Order and all-or-nothing in composites.** Children are activated in order
  and deactivated in reverse order, an activation that fails is undone, children
  fail, and waiters sleep without the mutex.

The hazards, each at its line of code with the properties that watch it, are
listed in `PROJECT.json`.

## The modules

    JobGroup                      what ThreadRunner promises
    ThreadRunner                  slots, threads, start gate
      ThreadRunnerUse             + one owner; implements JobGroup
        ThreadRunnerProofs
      ActiveObjectCommonImpl      + clients with the two mutexes
        TaskRunner                + queue, semaphores, workers
          TaskRunnerProofs
        Planner                   + list, clock, the sleeping thread
          PlannerProofs
    BoundedMap                    the map and concurrent clients
      MCBoundedMap                symmetry for TLC
    CompositeActiveObject         the composite on SimpleActiveObject

`TaskRunner` and `Planner` are compositions: they extend the life cycle, which
extends the thread runner, and conjoin the job's virtual calls (`started`,
`terminate`, `work`) to the steps that make them. A thread that is created in
one module is the thread that takes tasks in another.

**ThreadRunner.** `thread[t]` is the place of thread t in `thread_func_`:
created, holding the token of `start_semaphore_` (`gate`), about to look at
`number_running_` (`passed`), in `job.work()`, done. `number_running` is negative
while a failed start is unwound, as in the code. `ThreadRunnerUse` adds the loops
of `start` and `wait_for_completion` for the single caller that the class asks
for. The thread that a `start_one` adds passes the same gate. In `start`,
`pthread_create` and the `number_running_++` after it are one step: the new thread
reads the counter only past the gate, which is shut until `start` ends. (If the
gate was left open, see `thread_runner_first_fails`, it could also read the counter
before the increment.)

**ActiveObjectCommonImpl.** `pc[c]` is the place of client c in
`activate_object` or `wait_object`, `slot[c]` its loop counter. A critical section
is one step unless it blocks inside or reads what others write without its
mutex; `work_mutex` records who holds it across steps. `wait_object` is cut at
each access to shared data, because it has none of it protected: the test of
`active_state_`, the test of `number_running_`, each `pthread_join`, the shutting
of the gate, the reset of `number_running_` and of `terminating_`, and the last
part under `work_mutex_`.

**TaskRunner.** `EnqueueTask` takes a place, `Push` is the critical section (or
`PushFails`, when `push_back` throws), `AddThread` and `CountThread` are the two
halves of `start_one` (the thread is created, then `number_running_++` reads and
writes the counter; the read comes before or after the reset by
`wait_for_completion`, which does not take the mutex, so `CountThread` has both
outcomes), `Wake` releases `new_task_`. A worker goes through
acquire, lock, release, execute, finish. `number_of_unused_threads_` is unsigned and
computed modulo `UnusedModulus`.

**Planner.** `svc1`, `svc2`, `deliver` are the phases the source marks svc 1 to
svc 3. `Pump` moves the due messages to the local list `pending`; the thread then
delivers, or sleeps until `abs_time`. A wait may end by signal, by timeout, early
or by an exception. `DeliverSchedules` is a goal that schedules from its own
`deliver`. Time is a counter that `Tick` advances.

**BoundedMap.** An operation is one step after `ReadClock`, which is made outside
the mutex. `Sweeps` says how far the loop over `queue_` goes; an item records the
size accounted for and the size its data has now (`Mutate` changes the latter,
`update` tells the map). The second alternative of `InsertNew` is also the path of
an exception of `container_.insert`. Two history variables say where a property
stops: `held` is the number of items there were when `statistics(true)` set the
counters to 0, `outrun` that an operation found items used after it had read the
clock.

**CompositeActiveObject.** Children are known by their state. `list` and `todo` are
the children a loop goes through and those it still has to; the labels are the loops of
`activate_object`, of its undo, of `deactivate_object`, of `clear_children` and of
`wait_object`. `synchronous` is `SYNCHRONOUS_`, chosen once. A child may be in any
state when it is handed over, since `add_child_object` tests only `active()`, and may
be added again while it is in the list. Two history variables, emptied with the
list: `refused` says that a child refused to be deactivated, `late` holds the
children that were still stopping when they were added.

Definitions named `X_Y` and marked "Mutant" are wrong versions of `X`. Nothing
uses them; put in place of `X`, each breaks the property `PROJECT.json` pairs it
with, which shows that the property depends on that part of the code.

## What the runs check

Each run is `tlc -config X.cfg Module`. States are distinct states.

| Run (module, cfg) | Instance | Shows |
|---|---|---|
| `thread_runner` (ThreadRunnerUse, ThreadRunner.cfg) | 3 slots, 3 threads, creation may fail but for the first thread of a start | no job runs before or without all threads; an idle runner is as constructed; every thread will be joined; calls return; `JobGroup` is implemented |
| `task_runner` (TaskRunner, TaskRunner.cfg) | 2 threads, all started; 2 tasks; a queue of 1; one client enqueues and clears, one controls, both deactivate | places are conserved, the queue is bounded, every task has its wake-up, a stopped object has no thread, tasks are taken, `wait_object` returns |
| `task_runner_growing` (TaskRunner, TaskRunnerGrowing.cfg) | 1 of 2 threads started, the other added on demand; the client that enqueues also activates and waits | the count of unused threads is right, added threads are joined, tasks are taken |
| `planner` (Planner, Planner.cfg) | 1 goal, times 0 to 3, 2 messages planned at a time, adjustment on; one client schedules, one controls, both deactivate; 84,031 states | the list is sorted, no message is slept over, delivered early or lost; due messages are delivered; `wait_object` returns |
| `bounded_map` (MCBoundedMap, BoundedMap.cfg) | two clients, 3 keys, 2 sizes, bounds and timeouts, one statistics reset; 160,592 states | the queue indexes the container, `size_` is the sum of the sizes, growth stays within the bound, fresh items stay, items thrown out were inserted, the queue is in order of use and the least recently used go first |
| `composite` (CompositeActiveObject, CompositeActiveObject.cfg) | 2 children in lists of up to 3, both modes, children that fail to activate and to deactivate; one client controls, one waits; 225,624 states | the children follow the composite, in order; nobody waits with the mutex for a child that runs on; a deactivation reaches the waiter |

Six runs end in a violation. Each shows where the code does not do what a
comment says; `PROJECT.json` quotes the comments.

| Run | What happens |
|---|---|
| `thread_runner_first_fails` | The first `pthread_create` of a `start` fails. The handler releases `start_semaphore_`, and `wait_for_completion` returns before it takes the token back, because `number_running_` is 0. The gate is open in the next `start`: its first threads run their jobs while others are still created, and although a later creation fails. |
| `task_runner_enqueue_race` | `enqueue_task` adds a thread while `wait_object` is past its last comparison with `number_running_` and about to set it to 0. The two hold different mutexes. The thread is never joined. |
| `task_runner_wait_race` | `wait_object` finds the object inactive and has nothing to join. Before it takes `work_mutex_`, the object is activated and deactivated by another client; `wait_object` then sets `AS_NOT_ACTIVE` while the thread runs. |
| `composite_clear_race` | `clear_children` of an active object makes it inactive without a broadcast. A client asleep in `wait_object` is woken by the next deactivation at the earliest. |
| `composite_wait_race` | `wait_object` finds the composite inactive and without children. Before it takes the mutex again, another client activates it, adds a child and deactivates it; `wait_object` then sets `AS_NOT_ACTIVE`, and `clear_children` drops the child, still stopping, without waiting for it. |
| `bounded_map_counters` | An `insert` throws out the only item and `container_.insert` then throws: `removed_outdated` and `inserted_new` are both 1, and the comment on `BoundedMapStat` says the first is less than the second "always!". The run counts only maps into which something was inserted. |

The passing runs state what holds outside these cases, and the constants, the
roles and the history variables say which case is excluded:

* `FirstCreateMayFail` and the guard `0 < number_running` of `CreateFails`: the first
  creation of a start succeeds.
* The roles `Producer`, `Controller` and `Stopper` of `TaskRunner`: the client that
  adds a thread also waits, or all threads are started at once; one client activates
  and waits.
* `UnusedCountsFreeThreads` is about a start with a given number of threads. With
  `start_threads` = 0, which starts all of them, the code sets the count to 0; it then
  wraps, and nothing reads it.
* `QueueInTimeOrder` and `LeastRecentGoes` end with the first operation that was
  overtaken after it read the clock (`outrun`): it puts its item, with the older
  time, behind newer ones. The other properties of the map hold with such calls.
* `StatRelation` is the second relation of the comment on `BoundedMapStat`,
  `removed_outdated + removed_updated <= inserted_new`, with the items held at the last
  `statistics(true)` added on the right. Of the other two relations, the first is
  the finding above; the third, about the calls of `insert`, is not modelled.
* `ConsistentState` and `RunsWithThoseBefore` end when a child refuses to be
  deactivated (`refused`): it runs on in an object that calls itself inactive.
  `WaitsOnlyForStopped` is about such children. The order claimed of two children
  is that of the list when one stands before the other wherever it is in it; a child
  that was `late` may still be stopping when the one before it does.
* `DeactivationReachesWaiters` is what is left of `WaitersReturn` when `clear_children`
  may be called at any time.

### Bounds, and why they are enough

* *Threads.* Two are the fewest for which a token can go to the wrong thread, a
  slot can be overwritten and `start_one` can meet a join; three let a creation
  fail with others before and after it.
* *Clients.* Each race found is between two calls. Roles, not numbers, decide
  what can overlap, so the runs give each role to one or two clients.
* *Tasks and places.* Two tasks for one place fill the queue; `MaxTokens` stops
  new calls while the tokens left over from `clear` and from terminations are more
  than it, so that the state space is finite; a restart with leftover tokens
  still happens.
* *Time.* Four instants hold a message before, at and after the time the thread
  sleeps until, and a lateness of 2 or 3, which gives a shift of 1. With
  `MaxMessages` = 2 one is in the list while another is delivered. The clock stops
  at `MaxTime`, the liveness properties speak of messages already due.
* *Map.* Keys of sizes 1 and 2 under bounds 2 and 3 give no eviction, eviction of
  one and of several items, of the updated item, and items that do not fit.
  `MaxInserts` = 2 insertions before and 2 after the reset put up to three items of
  three keys in the map; the counters of a map with items are reset once. Times 0 to 2
  with timeouts 1 and 2 give items that are outdated for one timeout and not for
  the other.
* *Composite.* `MaxChildren` = 3 with two children: an activation fails with none, one
  or two children to undo (the third place is a child added again, whose second
  activation fails), and lists have a child twice. Everything but `wait_object` holds
  the mutex, so one client that makes all those calls and one that waits give
  every overlap of a wait with the rest.
* *Unsigned.* `UnusedModulus` = 8 is larger than any count that occurs; a count
  below zero would wrap to 7, and `UnusedCountsFreeThreads` would see it.

### Fairness

A thread that is inside a call goes on with it, jobs and tasks end, a mutex or
semaphore that is free again and again is not refused to one thread for ever
(strong fairness of the steps of a client or thread; POSIX promises no such
order, but the code relies on it wherever it blocks), and the clock runs. No
call is forced to be made, and neither a spurious wake-up nor a creation failure
ever is. In particular nobody has to call `deactivate_object`, which is why the
liveness properties begin with the deactivation.

## What is proved

The proofs hold for every number of clients, threads, jobs, tasks, goals, and
every limit. Each module defines `IInv`, shows that `Init` implies it, that every
action preserves it, one lemma or step per action, and that it implies the
property.

* **ThreadRunnerProofs** (assumes `~FirstCreateMayFail`, which the first finding
  shows to be necessary): `TypeCorrect`, `AllOrNothing`, `FreshWhenIdle`,
  `NoThreadForgotten`, `Refinement` (of `JobGroup`). "No job runs too early" is not
  inductive: it needs the one token. `GateOpen` holds from the end of `start` to
  the end of `wait_for_completion`; while it holds exactly one token is in the
  semaphore or with one thread, and before it no token exists and no thread has
  gone past the gate. The second part, `Counters`, ties `number_running_` to the
  slots in use.
* **TaskRunnerProofs**: `TypeCorrect`, `Places`, `Bounded`. They assume nothing of
  the roles: they hold in the interleavings of the findings too. `IInv` adds
  mutual exclusion by `work_mutex_` and what the locals hold at each label. The
  sum in `PlacesConserved` counts processes by cardinality; `CountMoves` says how
  such a count changes when one process moves, and `PlacesKept` covers at once the
  actions that touch no place. `QueueBounded` follows from `PlacesConserved`.
* **PlannerProofs** (`NumberOfJobs` = 1, as the constructor sets it; any number of
  clients of all roles, with and without adjustment): `ListSorted`, `NoLostWakeup`,
  `NeverEarly`, `NoneLost`. `SleepCoversSchedule` needs what holds before the thread
  sleeps (`WakeUps`: at svc 2 the timeout covers the first message or the flag is
  set), that only one thread runs `work` (`OneThread`, from the slot and the join),
  and that the list is sorted. Lemmas on sequences say what an insertion and an
  erasure do to the first element and to the order.

The constants' assumptions are the `ASSUME`s of the modules, which TLC evaluates in
every run: roles are sets of clients, clients and threads are finite and
disjoint, and bounds are natural numbers.

**Only model-checked.** The liveness properties, because the prover does not do
fairness. `WakeupsCoverTasks`, `StoppedMeansJoined` and `UnusedCountsFreeThreads` of
`TaskRunner` (the latter two depend on roles). All of `BoundedMap` and
`CompositeActiveObject`: `SizeIsSum` is a sum over the items, which needs induction
over data, the others are next in the plan.

## What is not modelled

* Of the modelled parts: errors of `pthread_join`, of mutexes and semaphores;
  children that call their composite while they stop;
  destructors of objects still active; `wait_for_queue_exhausting`, `copy_to`,
  `size` and other operations that only read; messages to the callbacks; children
  whose `wait_object` throws; the statistics of `BoundedMap` other than the three
  counters its comment relates.
* `CompositeSetActiveObject`, `PeriodicRunner`, `FileCache`, `ObjectPool`, `LastPtr`:
  planned, see below. Their hazards are listed with the lines.
* `HttpAsyncPool`, `PlainStorage`: large, and built on the above or on files;
  candidates after them.
* Wrappers of system calls and libraries, adapters to other programs, formatting,
  parsing, look-up tables, generated tables: no shared state to get wrong, or
  none that the code here decides about.

## Plan

1. Periodic (on `ThreadRunner`): a stop or an enforced start that comes while the task
   runs; tasks added and cleared while active; liveness of stop.
2. FileCache: one buffer shared by reference count, the wait for its holders, the
   update that fails; with `BoundedMap` as the table of `CacheManager`, deadlock.
3. ObjectPool: use counts, bad references and their timeout, reresolving,
   for the three policies.
4. Reference counts with `LastPtr` and `CompositeSetActiveObject`: removal by the
   last release against a wait that takes a new reference.
5. An abstract active object that `ActiveObjectCommonImpl` and
   `CompositeActiveObject` implement.
6. Proofs: `WakeupsCoverTasks` by the counting lemmas; `QueueIndexesContainer`,
   `GrowsWithinBound` and `FreshStays` of the map; `RunsWithThoseBefore` and
   `WaitsOnlyForStopped` of the composite; `StoppedMeansJoined` under the roles of
   the runs.
