------------------------ MODULE CompositeActiveObject ------------------------
(***************************************************************************)
(* Generics::CompositeActiveObject (Generics/CompositeActiveObject.hpp) on *)
(* its base Generics::SimpleActiveObject (Generics/ActiveObject.cpp): one  *)
(* object that activates, deactivates and waits for an ordered list of     *)
(* children.                                                               *)
(*                                                                         *)
(* All operations but wait_object hold the mutex of cond_ throughout and   *)
(* go through the children one by one; wait_object gives it up while it    *)
(* sleeps and while it waits for the children.  A child is known by its    *)
(* state: it may fail to activate or deactivate, and its wait_object       *)
(* returns when it is not active.                                          *)
(***************************************************************************)
EXTENDS Integers, FiniteSets, Sequences, SequencesExt

CONSTANTS Child,
          Controller, Waiter, Stopper, Clearer,  \* clients, by what they call
          Modes,             \* values for SYNCHRONOUS_
          DeactivateFails,   \* may a child's deactivate_object throw?
          MaxChildren        \* bound: length of child_objects_

ASSUME CompositeAssumption ==
  Modes \subseteq BOOLEAN /\ DeactivateFails \in BOOLEAN /\ MaxChildren \in Nat

VARIABLES state,      \* state_
          children,   \* child_objects_
          child,      \* the state of each child
          mutex,      \* holder of the mutex of cond_ between steps
          pc,         \* where each client is
          list,       \* the children the client's loop under the mutex goes through
          todo,       \* those its present loop has not handled yet
          errors,     \* did a child throw in the loop?
          synchronous,\* SYNCHRONOUS_
          refused,    \* history: did a child of the list refuse to be deactivated?
          late        \* history: children of the list that were still stopping when added

history == <<refused, late>>
vars == <<state, children, child, mutex, pc, list, todo, errors, synchronous, history>>

Client == Controller \cup Waiter \cup Stopper \cup Clearer
State == {"ACTIVE", "DEACTIVATING", "NOT_ACTIVE"}
Nobody == "nobody"

Label == {"idle", "activating", "undo", "undowait", "deactivating", "clearing", "clearwait",
          "asleep", "woken", "copying", "waiting"}
\* Labels of the loops under the mutex that deactivate and that wait.
Deactivating == {"undo", "deactivating", "clearing"}
Joining == {"undowait", "clearwait", "waiting"}

\* The state has its types, and whoever goes through child_objects_ under the
\* mutex is the one who holds it.
TypeOK ==
  /\ state \in State
  /\ children \in Seq(Child)
  /\ child \in [Child -> State]
  /\ mutex \in Client \cup {Nobody}
  /\ pc \in [Client -> Label]
  /\ \A c \in Client : mutex = c <=> pc[c] \in {"activating", "undowait", "clearwait"} \cup Deactivating
  /\ list \in [Client -> Seq(Child)] /\ todo \in [Client -> Seq(Child)]
  /\ errors \in [Client -> BOOLEAN]
  /\ synchronous \in BOOLEAN
  /\ refused \in BOOLEAN /\ late \subseteq Child

Init ==
  /\ state = "NOT_ACTIVE"
  /\ children = << >>
  /\ child = [ch \in Child |-> "NOT_ACTIVE"]
  /\ mutex = Nobody
  /\ pc = [c \in Client |-> "idle"]
  /\ list = [c \in Client |-> << >>] /\ todo = [c \in Client |-> << >>]
  /\ errors = [c \in Client |-> FALSE]
  /\ synchronous \in Modes
  /\ refused = FALSE /\ late = {}

Goto(c, label) == pc' = [pc EXCEPT ![c] = label]
Unlocked == mutex = Nobody

\* A loop over s begins.
Loop(c, s) ==
  /\ list' = [list EXCEPT ![c] = s]
  /\ todo' = [todo EXCEPT ![c] = s]
  /\ errors' = [errors EXCEPT ![c] = FALSE]

NoLoop(c) == Loop(c, << >>)

Advance(c) == todo' = [todo EXCEPT ![c] = Tail(@)]

-----------------------------------------------------------------------------
(* activate_object *)

Activate(c) ==
  /\ pc[c] = "idle" /\ Unlocked
  /\ state = "NOT_ACTIVE"
  /\ mutex' = c
  /\ Goto(c, "activating")
  /\ Loop(c, children)
  /\ UNCHANGED <<state, children, child>>

ActivateChild(c) ==
  /\ pc[c] = "activating" /\ todo[c] # << >>
  /\ child[Head(todo[c])] = "NOT_ACTIVE"
  /\ child' = [child EXCEPT ![Head(todo[c])] = "ACTIVE"]
  /\ Advance(c)
  /\ UNCHANGED <<state, children, mutex, pc, list, errors>>

\* Mutant: the children activated so far are left active.
ActivateChildFails_UndoNone(c) ==
  /\ pc[c] = "activating" /\ todo[c] # << >>
  /\ state' = "DEACTIVATING"
  /\ Goto(c, "undo")
  /\ NoLoop(c)
  /\ UNCHANGED <<children, child, mutex>>

\* The child is already active, or cannot be activated: the ones before it are
\* deactivated again.
ActivateChildFails(c) ==
  /\ pc[c] = "activating" /\ todo[c] # << >>
  /\ state' = "DEACTIVATING"
  /\ Goto(c, "undo")
  /\ Loop(c, Reverse(SubSeq(list[c], 1, Len(list[c]) - Len(todo[c]))))
  /\ UNCHANGED <<children, child, mutex>>

ActivateEnd(c) ==
  /\ pc[c] = "activating" /\ todo[c] = << >>
  /\ state' = "ACTIVE"
  /\ mutex' = Nobody
  /\ Goto(c, "idle")
  /\ NoLoop(c)
  /\ UNCHANGED <<children, child>>

-----------------------------------------------------------------------------
(* deactivate_object and the loops of deactivate_object_ and               *)
(* wait_for_some_objects_                                                  *)

\* cond_.broadcast()
Wake(newpc) == [c \in Client |-> IF newpc[c] = "asleep" THEN "woken" ELSE newpc[c]]

\* Mutant: nobody is woken.
Deactivate_NoBroadcast(c) ==
  /\ pc[c] = "idle" /\ Unlocked
  /\ state = "ACTIVE"
  /\ state' = "DEACTIVATING"
  /\ mutex' = c
  /\ Goto(c, "deactivating")
  /\ Loop(c, Reverse(children))
  /\ UNCHANGED <<children, child>>

\* Mutant: the children are deactivated in the order they were activated in.
Deactivate_InOrder(c) ==
  /\ pc[c] = "idle" /\ Unlocked
  /\ state = "ACTIVE"
  /\ state' = "DEACTIVATING"
  /\ mutex' = c
  /\ pc' = Wake([pc EXCEPT ![c] = "deactivating"])
  /\ Loop(c, children)
  /\ UNCHANGED <<children, child>>

Deactivate(c) ==
  /\ pc[c] = "idle" /\ Unlocked
  /\ state = "ACTIVE"
  /\ state' = "DEACTIVATING"
  /\ mutex' = c
  /\ pc' = Wake([pc EXCEPT ![c] = "deactivating"])
  /\ Loop(c, Reverse(children))
  /\ UNCHANGED <<children, child>>

\* deactivate_object of the next child; with SYNCHRONOUS_ it is then waited for.
DeactivateChild(c) ==
  /\ pc[c] \in Deactivating /\ todo[c] # << >>
  /\ LET ch == Head(todo[c]) IN
       \/ /\ child[ch] = "ACTIVE"
          /\ child' = [child EXCEPT ![ch] = "DEACTIVATING"]
          /\ IF synchronous THEN UNCHANGED todo ELSE Advance(c)
       \/ /\ child[ch] # "ACTIVE"
          /\ child' = IF synchronous THEN [child EXCEPT ![ch] = "NOT_ACTIVE"] ELSE child
          /\ Advance(c)
  /\ UNCHANGED <<state, children, mutex, pc, list, errors>>

DeactivateChildFails(c) ==
  /\ DeactivateFails
  /\ pc[c] \in Deactivating /\ todo[c] # << >>
  /\ child[Head(todo[c])] = "ACTIVE"
  /\ errors' = [errors EXCEPT ![c] = TRUE]
  /\ refused' = TRUE
  /\ Advance(c)
  /\ UNCHANGED <<state, children, child, mutex, pc, list, late>>

\* Mutant: the children are waited for although some could not be deactivated.
AllDeactivated_DespiteErrors(c) ==
  /\ pc[c] \in Deactivating /\ todo[c] = << >>
  /\ \/ /\ pc[c] = "deactivating"
        /\ mutex' = Nobody
        /\ Goto(c, "idle")
        /\ NoLoop(c)
     \/ /\ pc[c] # "deactivating"
        /\ Goto(c, IF pc[c] = "undo" THEN "undowait" ELSE "clearwait")
        /\ Loop(c, list[c])
        /\ UNCHANGED mutex
  /\ UNCHANGED <<state, children, child>>

\* All children were told to stop: deactivate_object returns, the others wait.
AllDeactivated(c) ==
  /\ pc[c] \in Deactivating /\ todo[c] = << >> /\ ~errors[c]
  /\ \/ /\ pc[c] = "deactivating"
        /\ mutex' = Nobody
        /\ Goto(c, "idle")
        /\ NoLoop(c)
     \/ /\ pc[c] # "deactivating"
        /\ Goto(c, IF pc[c] = "undo" THEN "undowait" ELSE "clearwait")
        /\ Loop(c, list[c])
        /\ UNCHANGED mutex
  /\ UNCHANGED <<state, children, child>>

\* The exception of deactivate_object_ leaves the operation.
DeactivationFails(c) ==
  /\ pc[c] \in Deactivating /\ todo[c] = << >> /\ errors[c]
  /\ state' = CASE pc[c] = "undo" -> "NOT_ACTIVE"
                [] pc[c] = "deactivating" -> "ACTIVE"
                [] pc[c] = "clearing" -> state
  /\ mutex' = Nobody
  /\ Goto(c, "idle")
  /\ NoLoop(c)
  /\ UNCHANGED <<children, child>>

WaitChild(c) ==
  /\ pc[c] \in Joining /\ todo[c] # << >>
  /\ child[Head(todo[c])] # "ACTIVE"
  /\ child' = [child EXCEPT ![Head(todo[c])] = "NOT_ACTIVE"]
  /\ Advance(c)
  /\ UNCHANGED <<state, children, mutex, pc, list, errors>>

UndoEnd(c) ==
  /\ pc[c] = "undowait" /\ todo[c] = << >>
  /\ state' = "NOT_ACTIVE"
  /\ mutex' = Nobody
  /\ Goto(c, "idle")
  /\ NoLoop(c)
  /\ UNCHANGED <<children, child>>

-----------------------------------------------------------------------------
(* wait_object *)

\* The loop at the beginning of wait_object.  The mutex is free again after it.
Wait(c) ==
  /\ pc[c] \in {"idle", "woken"} /\ Unlocked
  /\ Goto(c, IF state = "ACTIVE" THEN "asleep" ELSE "copying")
  /\ UNCHANGED <<state, children, child, mutex, list, todo, errors>>

SpuriousWakeup(c) ==
  /\ pc[c] = "asleep"
  /\ Goto(c, "woken")
  /\ UNCHANGED <<state, children, child, mutex, list, todo, errors>>

WaitCopy(c) ==
  /\ pc[c] = "copying" /\ Unlocked
  /\ Goto(c, "waiting")
  /\ todo' = [todo EXCEPT ![c] = Reverse(children)]
  /\ UNCHANGED <<state, children, child, mutex, list, errors>>

WaitEnd(c) ==
  /\ pc[c] = "waiting" /\ todo[c] = << >> /\ Unlocked
  /\ state' = IF state = "DEACTIVATING" THEN "NOT_ACTIVE" ELSE state
  /\ Goto(c, "idle")
  /\ NoLoop(c)
  /\ UNCHANGED <<children, child, mutex>>

-----------------------------------------------------------------------------
(* The list of children *)

\* Child ch is in state was: its user may have activated and deactivated it
\* before it is added, not while it is in the list ("do not change active
\* status").  The same child may be added again.  A child that cannot be
\* activated, or deactivated, is not added, which changes nothing.
\* bound: MaxChildren.
AddChild(c, ch, was, add_to_head) ==
  /\ pc[c] = "idle" /\ Unlocked
  /\ Len(children) < MaxChildren
  /\ ch \in Range(children) => was = child[ch]
  /\ state = "ACTIVE" => was # "DEACTIVATING"
  /\ child' = [child EXCEPT ![ch] = IF state = "ACTIVE" THEN "ACTIVE"
                                    ELSE IF was = "ACTIVE" THEN "NOT_ACTIVE" ELSE was]
  /\ children' = IF add_to_head THEN << ch >> \o children ELSE children \o << ch >>
  /\ late' = IF was = "DEACTIVATING" THEN late \cup {ch} ELSE late
  /\ UNCHANGED <<state, mutex, pc, list, todo, errors, refused>>

\* Mutant: the guard is missing.
ClearChildren_NoGuard(c) ==
  /\ pc[c] = "idle"
  /\ \/ /\ state # "NOT_ACTIVE"
        /\ Goto(c, "clearing")
        /\ Loop(c, Reverse(children))
        /\ UNCHANGED <<children, mutex, history>>
     \/ /\ state = "NOT_ACTIVE"
        /\ children' = << >>
        /\ refused' = FALSE /\ late' = {}
        /\ UNCHANGED <<mutex, pc, list, todo, errors>>
  /\ UNCHANGED <<state, child>>

ClearChildren(c) ==
  /\ pc[c] = "idle" /\ Unlocked
  /\ \/ /\ state # "NOT_ACTIVE"
        /\ mutex' = c
        /\ Goto(c, "clearing")
        /\ Loop(c, Reverse(children))
        /\ UNCHANGED <<children, history>>
     \/ /\ state = "NOT_ACTIVE"
        /\ children' = << >>
        /\ refused' = FALSE /\ late' = {}
        /\ UNCHANGED <<mutex, pc, list, todo, errors>>
  /\ UNCHANGED <<state, child>>

ClearEnd(c) ==
  /\ pc[c] = "clearwait" /\ todo[c] = << >>
  /\ state' = "NOT_ACTIVE"
  /\ children' = << >>
  /\ refused' = FALSE /\ late' = {}
  /\ mutex' = Nobody
  /\ Goto(c, "idle")
  /\ NoLoop(c)
  /\ UNCHANGED child

-----------------------------------------------------------------------------
\* Steps that go on with the call client c is in.
Continue(c) ==
  /\ UNCHANGED synchronous
  /\ \/ DeactivateChildFails(c) \/ ClearEnd(c)
     \/ /\ \/ ActivateChild(c) \/ ActivateChildFails(c) \/ ActivateEnd(c)
           \/ DeactivateChild(c) \/ AllDeactivated(c) \/ DeactivationFails(c)
           \/ WaitChild(c) \/ UndoEnd(c)
           \/ (pc[c] = "woken" /\ Wait(c)) \/ WaitCopy(c) \/ WaitEnd(c)
        /\ UNCHANGED history

Call ==
  /\ UNCHANGED synchronous
  /\ \/ \E c \in Controller, ch \in Child, was \in State, add_to_head \in BOOLEAN :
          AddChild(c, ch, was, add_to_head)
     \/ \E c \in Clearer : ClearChildren(c)
     \/ /\ \/ \E c \in Client : SpuriousWakeup(c)
           \/ \E c \in Controller : Activate(c)
           \/ \E c \in Stopper : Deactivate(c)
           \/ \E c \in Waiter : pc[c] = "idle" /\ Wait(c)
        /\ UNCHANGED history

Next == Call \/ \E c \in Client : Continue(c)

Spec == Init /\ [][Next]_vars

\* Clients go on with their calls, and get the mutex if it is free often enough.
FairSpec == Spec /\ \A c \in Client : SF_vars(Continue(c))

-----------------------------------------------------------------------------
(* Properties. *)

\* "Any time all object that it own must be active or not active"
\* (add_child_object), whoever calls what and whatever state a child was added
\* in: while no operation holds the mutex, the children of an active composite
\* are active, and those of any other one are not, as long as none of them
\* refuses to be deactivated.
ConsistentState ==
  Unlocked /\ ~refused =>
    \A i \in 1 .. Len(children) : child[children[i]] = "ACTIVE" <=> state = "ACTIVE"

\* Child a is before child b in the list, wherever they are in it.
Before(a, b) ==
  /\ {a, b} \subseteq Range(children)
  /\ \A i, j \in 1 .. Len(children) : children[i] = a /\ children[j] = b => i < j

\* First added, first activated; last added, first deactivated, and with
\* sync_termination waited for before the next: also when an activation is
\* undone half-way, when children are added to either end and when one is added
\* twice, as long as no child refuses to be deactivated.
RunsWithThoseBefore ==
  ~refused => \A a, b \in Child : Before(a, b) /\ child[a] # "ACTIVE" =>
    /\ child[b] # "ACTIVE"
    /\ synchronous /\ b \notin late => child[b] = "NOT_ACTIVE"

\* A client that waits in wait_object returns once the object is not active.
WaitersReturn ==
  \A c \in Waiter : pc[c] \in {"asleep", "woken"} /\ state # "ACTIVE" ~> pc[c] = "idle"

\* What is left of it when children are cleared at any time: deactivate_object
\* reaches every client that waits in wait_object, and it returns, unless the
\* object is activated again or a child refuses to be deactivated.
DeactivationReachesWaiters ==
  \A c \in Waiter :
    pc[c] \in {"asleep", "woken"} /\ state = "DEACTIVATING" /\ Unlocked
      ~> pc[c] = "idle" \/ state = "ACTIVE" \/ refused

\* "Deactivate and wait for stop for all owned Active Objects" (clear_children):
\* no child the composite has stopped is dropped before it was waited for.
ClearedMeansStopped ==
  [][children' = << >> => \A i \in 1 .. Len(children) :
       refused \/ children[i] \in late \/ child[children[i]] = "NOT_ACTIVE"]_vars

\* An operation that holds the mutex waits only for children that were told to
\* stop, however many of them failed to: else every other client would be
\* locked out for good.
WaitsOnlyForStopped ==
  \A c \in Client : pc[c] \in {"undowait", "clearwait"} =>
    \A i \in 1 .. Len(list[c]) : child[list[c][i]] # "ACTIVE"

=============================================================================
