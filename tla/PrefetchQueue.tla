--------------------------- MODULE PrefetchQueue ---------------------------
(***************************************************************************)
(* The prefetch queue of SSDPagingManager and the thread that serves it:   *)
(* prefetch_queue_, prefetch_mutex_, prefetch_cv_ and prefetch_running_ of *)
(* engine/paging_manager.{h,cpp}.                                          *)
(*                                                                         *)
(* The worker holds prefetch_mutex_ from the moment wait() evaluates its   *)
(* predicate to the moment wait() suspends it, which releases the mutex:   *)
(* that window is the control point "suspending".  A caller's critical     *)
(* section is one step that the window excludes.  The destructor stores    *)
(* prefetch_running_ and notifies without the mutex.                       *)
(***************************************************************************)
EXTENDS Integers, FiniteSets

CONSTANTS
    Request,        \* what is queued
    Priority(_),    \* the priority of a request
    MaxQueued       \* bound: copies of one request in the queue

ASSUME PrefetchQueueAssumption ==
    /\ \A r \in Request : Priority(r) \in Int
    /\ MaxQueued \in Nat \ {0}

VARIABLES
    prefetch_queue_,     \* Request -> how many copies are queued
    prefetch_running_,
    worker,              \* where the worker thread is
    taken,               \* the requests the worker serves: at most one
    destroyer            \* how far the destructor is

queueVars == <<prefetch_queue_, prefetch_running_, worker, taken, destroyer>>

WorkerPlaces ==
    {"loop", "waiting", "suspending", "asleep", "serving", "stopped"}
DestroyerPlaces == {"alive", "flagged", "joining", "joined"}

Pending == {r \in Request : prefetch_queue_[r] > 0}

QueueInit ==
    /\ prefetch_queue_ = [r \in Request |-> 0]
    /\ prefetch_running_ = TRUE
    /\ worker = "loop"
    /\ taken = {}
    /\ destroyer = "alive"

-----------------------------------------------------------------------------
\* Mutant of Woken: nobody is notified.
WokenNever == worker

\* notify_one and notify_all: there is one waiter.
Woken == IF worker = "asleep" THEN "waiting" ELSE worker

\* Mutant of Push: without prefetch_mutex_.
PushUnlocked(r) ==
    /\ prefetch_queue_[r] < MaxQueued
    /\ prefetch_queue_' = [prefetch_queue_ EXCEPT ![r] = @ + 1]
    /\ worker' = Woken
    /\ UNCHANGED <<prefetch_running_, taken, destroyer>>

\* prefetch_tensor once it holds prefetch_mutex_.
Push(r) ==
    /\ worker # "suspending"
    /\ prefetch_queue_[r] < MaxQueued
    /\ prefetch_queue_' = [prefetch_queue_ EXCEPT ![r] = @ + 1]
    /\ worker' = Woken
    /\ UNCHANGED <<prefetch_running_, taken, destroyer>>

\* while (prefetch_running_)
WorkerLoop ==
    /\ worker = "loop"
    /\ worker' = IF prefetch_running_ THEN "waiting" ELSE "stopped"
    /\ UNCHANGED <<prefetch_queue_, prefetch_running_, taken, destroyer>>

\* The predicate of wait() is false: the worker is about to be suspended.
WorkerFindsNothing ==
    /\ worker = "waiting"
    /\ prefetch_running_
    /\ Pending = {}
    /\ worker' = "suspending"
    /\ UNCHANGED <<prefetch_queue_, prefetch_running_, taken, destroyer>>

WorkerSuspends ==
    /\ worker = "suspending"
    /\ worker' = "asleep"
    /\ UNCHANGED <<prefetch_queue_, prefetch_running_, taken, destroyer>>

\* wait() returns, or wakes without a notification and evaluates again.
SpuriousWakeup ==
    /\ worker = "asleep"
    /\ worker' = "waiting"
    /\ UNCHANGED <<prefetch_queue_, prefetch_running_, taken, destroyer>>

\* The predicate holds because the manager is going away.
WorkerStops ==
    /\ worker = "waiting"
    /\ ~prefetch_running_
    /\ worker' = "stopped"
    /\ UNCHANGED <<prefetch_queue_, prefetch_running_, taken, destroyer>>

\* Mutant of WorkerTakes: the queue is not tested for being empty.
WorkerTakesAny(r) ==
    /\ worker = "waiting"
    /\ prefetch_running_
    /\ \A other \in Pending : Priority(other) <= Priority(r)
    /\ prefetch_queue_' = [prefetch_queue_ EXCEPT ![r] = @ - 1]
    /\ taken' = {r}
    /\ worker' = "serving"
    /\ UNCHANGED <<prefetch_running_, destroyer>>

\* top() and pop(): requests of equal priority come in any order.
WorkerTakes(r) ==
    /\ worker = "waiting"
    /\ prefetch_running_
    /\ r \in Pending
    /\ \A other \in Pending : Priority(other) <= Priority(r)
    /\ prefetch_queue_' = [prefetch_queue_ EXCEPT ![r] = @ - 1]
    /\ taken' = {r}
    /\ worker' = "serving"
    /\ UNCHANGED <<prefetch_running_, destroyer>>

\* The request is served (SSDPagingManager says how); the loop starts over.
WorkerServed ==
    /\ worker = "serving"
    /\ worker' = "loop"
    /\ taken' = {}
    /\ UNCHANGED <<prefetch_queue_, prefetch_running_, destroyer>>

WorkerStep ==
    \/ WorkerLoop
    \/ WorkerFindsNothing
    \/ WorkerSuspends
    \/ WorkerStops
    \/ \E r \in Request : WorkerTakes(r)

\* ~SSDPagingManager: prefetch_running_ = false ...
ClearRunning ==
    /\ destroyer = "alive"
    /\ prefetch_running_' = FALSE
    /\ destroyer' = "flagged"
    /\ UNCHANGED <<prefetch_queue_, worker, taken>>

\* ... prefetch_cv_.notify_all() ...
NotifyAll ==
    /\ destroyer = "flagged"
    /\ worker' = Woken
    /\ destroyer' = "joining"
    /\ UNCHANGED <<prefetch_queue_, prefetch_running_, taken>>

\* Mutant of Join: the thread is detached.
JoinNothing ==
    /\ destroyer = "joining"
    /\ destroyer' = "joined"
    /\ UNCHANGED <<prefetch_queue_, prefetch_running_, worker, taken>>

\* ... prefetch_thread_.join().
Join ==
    /\ destroyer = "joining"
    /\ worker = "stopped"
    /\ destroyer' = "joined"
    /\ UNCHANGED <<prefetch_queue_, prefetch_running_, worker, taken>>

-----------------------------------------------------------------------------
\* Nobody calls the manager once its destructor runs.
QueueNext ==
    \/ \E r \in Request : destroyer = "alive" /\ Push(r)
    \/ WorkerStep
    \/ WorkerServed
    \/ SpuriousWakeup
    \/ ClearRunning
    \/ NotifyAll
    \/ Join

\* The operating system runs every thread that can run; nobody has to call
\* the manager, and no wakeup has to be spurious.
QueueFairness ==
    /\ WF_queueVars(WorkerStep)
    /\ WF_queueVars(WorkerServed)
    /\ WF_queueVars(NotifyAll)
    /\ WF_queueVars(Join)

QueueSpec == QueueInit /\ [][QueueNext]_queueVars /\ QueueFairness

-----------------------------------------------------------------------------
QueueTypeOK ==
    /\ prefetch_queue_ \in [Request -> 0..MaxQueued]
    /\ prefetch_running_ \in BOOLEAN
    /\ worker \in WorkerPlaces
    /\ taken \in SUBSET Request
    /\ destroyer \in DestroyerPlaces

(* No lost wakeup of a caller (paging_manager.cpp:311-316, 405-407): while  *)
(* the manager lives, a suspended worker has nothing to do, although it     *)
(* tests the queue in one step and is suspended in another.                 *)
NoRequestSleeps ==
    prefetch_running_ /\ worker \in {"suspending", "asleep"} => Pending = {}

(* A request the worker took is served exactly while it is "serving", and   *)
(* it stops only for the destructor, whose join therefore never returns     *)
(* with a request half served (paging_manager.cpp:103-108).                 *)
NothingHalfServed ==
    /\ worker = "serving" <=> taken # {}
    /\ worker = "stopped" => ~prefetch_running_
    /\ destroyer = "joined" => worker = "stopped" /\ taken = {}

(* "Schedule prefetch of tensor" (paging_manager.h:139): a queue that holds *)
(* requests is served until it is empty or the manager goes away.           *)
EveryRequestServed ==
    \A r \in Request :
        prefetch_queue_[r] > 0 ~> prefetch_queue_[r] = 0 \/ ~prefetch_running_

(* ~SSDPagingManager returns: its join is not left waiting for a worker     *)
(* that nobody wakes (paging_manager.cpp:103-108).                          *)
DestructorReturns == destroyer = "flagged" ~> destroyer = "joined"

=============================================================================
