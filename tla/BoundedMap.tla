----------------------------- MODULE BoundedMap -----------------------------
(***************************************************************************)
(* Generics::BoundedMap (Generics/BoundedMap.hpp): a map whose items have  *)
(* sizes and whose total size is bounded; the least recently used items    *)
(* give way to new ones once they have not been used for a timeout.        *)
(*                                                                         *)
(* Every operation runs under the mutex and is one step, but for the clock *)
(* that find, insert, insert_or_update and update read before they take    *)
(* the mutex.  Data are smart pointers: the user may change what the size  *)
(* policy says of an item at any time, and calls update to tell the map.   *)
(***************************************************************************)
EXTENDS Integers, FiniteSets, Sequences, SequencesExt

CONSTANTS Key, Client,
          Size,             \* what the size policy may say of an item
          Bounds, Timeouts, \* values for bound_ and timeout_
          Resets,           \* is statistics(true) called?
          MaxTime,          \* bound: the clock stops here
          MaxInserts        \* bound: items inserted between two resets

ASSUME BoundedMapAssumption ==
  /\ Size \subseteq Nat /\ Bounds \subseteq Nat /\ Timeouts \subseteq Nat
  /\ Resets \in BOOLEAN /\ MaxTime \in Nat /\ MaxInserts \in Nat

VARIABLES container,   \* container_: key -> the size accounted for and the one the policy gives
          queue,       \* queue_
          size,        \* size_
          bound,       \* bound_
          timeout,     \* timeout_
          stat,        \* stat_, as far as the comment on BoundedMapStat relates its fields
          clock,       \* Time::get_time_of_day()
          now,         \* local variable of the operation each client is in
          held,        \* history: how many items there were when stat_ was reset
          outrun       \* history: did an operation find items used after it read the clock?

history == <<held, outrun>>
vars == <<container, queue, size, bound, timeout, stat, clock, now, history>>

NoTime == -1
Time == 0 .. MaxTime
Item == [size : Size, data : Size]
Ordered == [key : Key, last_used : Time]
Keys == DOMAIN container

\* The state has its types, and no size underflows.
TypeOK ==
  /\ Keys \subseteq Key /\ \A k \in Keys : container[k] \in Item
  /\ queue \in Seq(Ordered)
  /\ size \in Nat
  /\ bound \in Bounds /\ timeout \in Timeouts
  /\ stat \in [inserted_new : Nat, removed_outdated : Nat, removed_updated : Nat]
  /\ clock \in Time
  /\ now \in [Client -> Time \cup {NoTime}]
  /\ held \in Nat /\ outrun \in BOOLEAN

NoStat == [inserted_new |-> 0, removed_outdated |-> 0, removed_updated |-> 0]

Init ==
  /\ container = << >> /\ queue = << >> /\ size = 0
  /\ bound \in Bounds /\ timeout \in Timeouts
  /\ stat = NoStat
  /\ clock = 0
  /\ now = [c \in Client |-> NoTime]
  /\ held = 0 /\ outrun = FALSE

-----------------------------------------------------------------------------
Position(k) == CHOOSE i \in 1 .. Len(queue) : queue[i].key = k

\* Mutant: the item keeps its place in the queue.
Touched_NotMoved(k, t) == ReplaceAt(queue, Position(k), [key |-> k, last_used |-> t])

\* find_ of a key that is there: the queue with the item used at time t.
Touched(k, t) == Append(RemoveAt(queue, Position(k)), [key |-> k, last_used |-> t])

Outdated(e, t) == e.last_used + timeout <= t

\* The size the first n items of queue q give free, the item self excepted.
Freed(q, n, self) ==
  SumFunctionOnSet([i \in 1 .. n |-> container[q[i].key].size], {i \in 1 .. n : q[i].key # self})

\* Mutant: the loop looks for outdated items without stopping at a fresh one.
Sweeps_Any(q, n, total, self, t) ==
  /\ n = Len(q) \/ total - Freed(q, n, self) <= bound
  /\ \A i \in 1 .. n : total - Freed(q, i - 1, self) > bound

\* The loops of insert_ and update_ walk over the n oldest items: as many as
\* make the total fit, or as are outdated.
Sweeps(q, n, total, self, t) ==
  /\ \A i \in 1 .. n : total - Freed(q, i - 1, self) > bound /\ Outdated(q[i], t)
  /\ n < Len(q) => ~(total - Freed(q, n, self) > bound /\ Outdated(q[n + 1], t))

Without(q, gone) == SelectSeq(q, LAMBDA e : e.key \notin gone)

\* Mutant: when the items that could be removed are not enough, their size is
\* not taken off.
InsertNew_KeepsSize(k, d, t) ==
  /\ stat.inserted_new < MaxInserts
  /\ IF d > bound THEN UNCHANGED <<container, queue, size, stat>>
     ELSE \E n \in 0 .. Len(queue) :
            LET gone == {queue[i].key : i \in 1 .. n}
                left == size - Freed(queue, n, k)
                swept == [stat EXCEPT !.removed_outdated = @ + n]
            IN /\ Sweeps(queue, n, size + d, k, t)
               /\ \/ /\ left + d <= bound
                     /\ container' = [j \in (Keys \ gone) \cup {k} |->
                                        IF j = k THEN [size |-> d, data |-> d] ELSE container[j]]
                     /\ queue' = Append(Without(queue, gone), [key |-> k, last_used |-> t])
                     /\ size' = left + d
                     /\ stat' = [swept EXCEPT !.inserted_new = @ + 1]
                  \/ /\ container' = Restrict(container, Keys \ gone)
                     /\ queue' = Without(queue, gone)
                     /\ size' = size
                     /\ stat' = swept

\* insert_(key, data, now) of a key that is not there.  bound: MaxInserts.
InsertNew(k, d, t) ==
  /\ stat.inserted_new < MaxInserts
  /\ IF d > bound THEN UNCHANGED <<container, queue, size, stat>>
     ELSE \E n \in 0 .. Len(queue) :
            LET gone == {queue[i].key : i \in 1 .. n}
                left == size - Freed(queue, n, k)
                swept == [stat EXCEPT !.removed_outdated = @ + n]
            IN /\ Sweeps(queue, n, size + d, k, t)
               /\ \/ /\ left + d <= bound
                     /\ container' = [j \in (Keys \ gone) \cup {k} |->
                                        IF j = k THEN [size |-> d, data |-> d] ELSE container[j]]
                     /\ queue' = Append(Without(queue, gone), [key |-> k, last_used |-> t])
                     /\ size' = left + d
                     /\ stat' = [swept EXCEPT !.inserted_new = @ + 1]
                  \* The bound, or an exception of container_.insert.
                  \/ /\ container' = Restrict(container, Keys \ gone)
                     /\ queue' = Without(queue, gone)
                     /\ size' = left
                     /\ stat' = swept

\* Mutant: the bound is not looked at.
UpdateItem_NoBound(q, k, d, t) ==
  LET total == size + d - container[k].size IN
    /\ queue' = q
    /\ container' = [container EXCEPT ![k] = [size |-> d, data |-> d]]
    /\ size' = total
    /\ UNCHANGED stat

\* Mutant: an item that must go is left in the queue.
UpdateItem_LeavesOrder(q, k, d, t) ==
  LET total == size + d - container[k].size IN
    \E n \in 0 .. Len(q) :
      LET gone == {q[i].key : i \in 1 .. n} \ {k}
          left == total - Freed(q, n, k)
      IN /\ Sweeps(q, n, total, k, t)
         /\ IF d <= bound /\ left <= bound
              THEN /\ container' = [Restrict(container, Keys \ gone) EXCEPT ![k] = [size |-> d, data |-> d]]
                   /\ queue' = Without(q, gone)
                   /\ size' = left
                   /\ stat' = [stat EXCEPT !.removed_outdated = @ + Cardinality(gone)]
              ELSE /\ container' = Restrict(container, Keys \ {k})
                   /\ queue' = q
                   /\ size' = size - container[k].size
                   /\ stat' = [stat EXCEPT !.removed_updated = @ + 1]

\* Mutant: items are counted as removed while they are only looked at.
UpdateItem_CountsEarly(q, k, d, t) ==
  LET total == size + d - container[k].size IN
    \E n \in 0 .. Len(q) :
      LET gone == {q[i].key : i \in 1 .. n} \ {k}
          left == total - Freed(q, n, k)
          swept == [stat EXCEPT !.removed_outdated = @ + Cardinality(gone)]
      IN /\ Sweeps(q, n, total, k, t)
         /\ IF d <= bound /\ left <= bound
              THEN /\ container' = [Restrict(container, Keys \ gone) EXCEPT ![k] = [size |-> d, data |-> d]]
                   /\ queue' = Without(q, gone)
                   /\ size' = left
                   /\ stat' = swept
              ELSE /\ container' = Restrict(container, Keys \ {k})
                   /\ queue' = Without(q, {k})
                   /\ size' = size - container[k].size
                   /\ stat' = [swept EXCEPT !.removed_updated = @ + 1]

\* update_ of item k, whose size is now d, on queue q: older items give way,
\* all that is needed or none, and in the latter case the item itself goes.
UpdateItem(q, k, d, t) ==
  LET total == size + d - container[k].size IN
    \E n \in 0 .. Len(q) :
      LET gone == {q[i].key : i \in 1 .. n} \ {k}
          left == total - Freed(q, n, k)
      IN /\ Sweeps(q, n, total, k, t)
         /\ IF d <= bound /\ left <= bound
              THEN /\ container' = [Restrict(container, Keys \ gone) EXCEPT ![k] = [size |-> d, data |-> d]]
                   /\ queue' = Without(q, gone)
                   /\ size' = left
                   /\ stat' = [stat EXCEPT !.removed_outdated = @ + Cardinality(gone)]
              ELSE /\ container' = Restrict(container, Keys \ {k})
                   /\ queue' = Without(q, {k})
                   /\ size' = size - container[k].size
                   /\ stat' = [stat EXCEPT !.removed_updated = @ + 1]

-----------------------------------------------------------------------------
(* Operations of client c. *)

ReadClock(c) ==
  /\ now[c] = NoTime
  /\ now' = [now EXCEPT ![c] = clock]
  /\ UNCHANGED <<container, queue, size, bound, timeout, stat, clock, history>>

Returns(c) ==
  /\ now[c] # NoTime
  /\ now' = [now EXCEPT ![c] = NoTime]
  /\ outrun' = (outrun \/ \E i \in 1 .. Len(queue) : queue[i].last_used > now[c])
  /\ UNCHANGED held

Find(c, k) ==
  /\ Returns(c)
  /\ queue' = IF k \in Keys THEN Touched(k, now[c]) ELSE queue
  /\ UNCHANGED <<container, size, bound, timeout, stat, clock>>

Insert(c, k, d) ==
  /\ Returns(c)
  /\ \/ k \in Keys /\ queue' = Touched(k, now[c]) /\ UNCHANGED <<container, size, stat>>
     \/ k \notin Keys /\ InsertNew(k, d, now[c])
  /\ UNCHANGED <<bound, timeout, clock>>

InsertOrUpdate(c, k, d) ==
  /\ Returns(c)
  /\ \/ k \in Keys /\ UpdateItem(Touched(k, now[c]), k, d, now[c])
     \/ k \notin Keys /\ InsertNew(k, d, now[c])
  /\ UNCHANGED <<bound, timeout, clock>>

Update(c, k) ==
  /\ Returns(c)
  /\ \/ k \in Keys /\ UpdateItem(queue, k, container[k].data, now[c])
     \/ k \notin Keys /\ UNCHANGED <<container, queue, size, stat>>
  /\ UNCHANGED <<bound, timeout, clock>>

\* Mutant: the size the policy gives now is taken off, not the accounted one.
Erase_DataSize(k) ==
  /\ k \in Keys
  /\ size' = size - container[k].data
  /\ container' = Restrict(container, Keys \ {k})
  /\ queue' = RemoveAt(queue, Position(k))
  /\ UNCHANGED <<bound, timeout, stat, clock, now, history>>

Erase(k) ==
  /\ k \in Keys
  /\ size' = size - container[k].size
  /\ container' = Restrict(container, Keys \ {k})
  /\ queue' = RemoveAt(queue, Position(k))
  /\ UNCHANGED <<bound, timeout, stat, clock, now, history>>

Clear ==
  /\ container' = << >> /\ queue' = << >> /\ size' = 0
  /\ UNCHANGED <<bound, timeout, stat, clock, now, history>>

\* The user changes the data an item points to.
Mutate(k, d) ==
  /\ k \in Keys
  /\ container' = [container EXCEPT ![k].data = d]
  /\ UNCHANGED <<queue, size, bound, timeout, stat, clock, now, history>>

SetBound(b) ==
  /\ bound' = b
  /\ UNCHANGED <<container, queue, size, timeout, stat, clock, now, history>>

SetTimeout(x) ==
  /\ timeout' = x
  /\ UNCHANGED <<container, queue, size, bound, stat, clock, now, history>>

\* bound: the counters of a map with items are reset once.
ResetStatistics ==
  /\ Resets /\ held = 0
  /\ stat' = NoStat
  /\ held' = Cardinality(Keys)
  /\ UNCHANGED <<container, queue, size, bound, timeout, clock, now, outrun>>

Tick ==
  /\ clock < MaxTime
  /\ clock' = clock + 1
  /\ UNCHANGED <<container, queue, size, bound, timeout, stat, now, history>>

Next ==
  \/ \E c \in Client : ReadClock(c)
  \/ \E c \in Client, k \in Key : Find(c, k) \/ Update(c, k)
  \/ \E c \in Client, k \in Key, d \in Size : Insert(c, k, d) \/ InsertOrUpdate(c, k, d)
  \/ \E k \in Key : Erase(k)
  \/ \E k \in Key, d \in Size : Mutate(k, d)
  \/ \E b \in Bounds : SetBound(b)
  \/ \E x \in Timeouts : SetTimeout(x)
  \/ Clear \/ ResetStatistics \/ Tick

Spec == Init /\ [][Next]_vars

-----------------------------------------------------------------------------
(* Properties. *)

\* container_ and queue_ hold the same keys, each once: the assertions of
\* insert_ and update_ on container_.find(order->key) hold.
QueueIndexesContainer ==
  /\ {queue[i].key : i \in 1 .. Len(queue)} = Keys
  /\ Len(queue) = Cardinality(Keys)

\* size_ is the sum of the accounted sizes, whatever the user did to the data
\* and however many items an operation threw out.
SizeIsSum == size = SumFunctionOnSet([k \in Keys |-> container[k].size], Keys)

\* An operation that makes the map larger leaves it within the bound, lowered
\* at run time or not.
GrowsWithinBound == [][size' > size => size' <= bound']_vars

\* insert and update throw out only items unused for the timeout, except that
\* update may throw out the updated item itself.
FreshStays ==
  [][\A c \in Client : now[c] # NoTime /\ now'[c] = NoTime =>
       Cardinality({i \in 1 .. Len(queue) : queue[i].key \notin Keys' /\ queue[i].last_used + timeout > now[c]})
         <= stat'.removed_updated - stat.removed_updated]_vars

\* The queue is in the order of the last use, unless a call that read the clock
\* first got the mutex second.
QueueInTimeOrder ==
  outrun \/ \A i \in 1 .. Len(queue) - 1 : queue[i].last_used <= queue[i + 1].last_used

\* Least recently used first: when insert, insert_or_update or update of key k
\* throws out other items, every item that stays was used no earlier than each
\* of them, but for the updated item k itself, which update_ passes over.  (In
\* the order the queue has, see QueueInTimeOrder.)
LeastRecentGoes ==
  [][stat'.removed_outdated > stat.removed_outdated /\ ~outrun =>
       \A c \in Client, k \in Key, d \in Size :
         Insert(c, k, d) \/ InsertOrUpdate(c, k, d) \/ Update(c, k) =>
           \A i, j \in 1 .. Len(queue) :
             queue[i].key \in Keys' \ {k} /\ queue[j].key \notin Keys' \cup {k}
               => queue[j].last_used <= queue[i].last_used]_vars

\* "removed_outdated + removed_updated is less than or equal to inserted_new"
\* (BoundedMapStat), counted from the last statistics(true): it sets the
\* counters to 0 while the items they counted are still there to be removed.
StatRelation == stat.removed_outdated + stat.removed_updated <= stat.inserted_new + held

\* "removed_outdated is less than inserted_new always!" (BoundedMapStat), read
\* as a claim about a map into which something was inserted.
OutdatedBelowNew == stat.inserted_new > 0 => stat.removed_outdated < stat.inserted_new

=============================================================================
