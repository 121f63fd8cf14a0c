---------------------------- MODULE SSDStreamer ----------------------------
(***************************************************************************)
(* The overlapped I/O engine: class AsyncSSDStreamer of                    *)
(* engine/ssd_streamer.{h,cpp}.  Any number of threads submit reads, one   *)
(* owner opens, closes and flushes, and the completion worker takes the    *)
(* packets of the completion port and runs the callbacks.                  *)
(*                                                                         *)
(* The operating system completes a read that was accepted, at once or     *)
(* later, and posts a packet in either case; it completes what is still    *)
(* outstanding when the file is closed.                                    *)
(***************************************************************************)
EXTENDS Integers, FiniteSets

CONSTANTS
    Read,       \* the reads that are submitted, each by a thread of its own
    MaxOpens    \* bound: how often the file is opened

ASSUME StreamerAssumption == IsFiniteSet(Read) /\ MaxOpens \in Nat \ {0}

VARIABLES
    io,              \* Read -> how far it is
    pending_count_,
    running_,
    worker,          \* where completion_worker is
    owner,           \* what the owner is doing
    open_,           \* file_handle_ # INVALID_HANDLE_VALUE
    opens,           \* how often the file was opened
    owed             \* the reads submitted before the flush that runs

vars == <<io, pending_count_, running_, worker, owner, open_, opens, owed>>

(* new       not submitted           failed    refused: its submitter calls back
   counted   in pending_count_       reporting its submitter's callback has run
   pending   at the disk             taken     its packet is with the worker
   posted    its packet waits        calling   the worker's callback runs
   answered  its callback has run                                           *)
Stages == {"new", "counted", "pending", "posted", "failed", "reporting", "taken",
           "calling", "answered"}

Init ==
    /\ io = [r \in Read |-> "new"]
    /\ pending_count_ = 0
    /\ running_ = FALSE
    /\ worker = "none"
    /\ owner = "idle"
    /\ open_ = FALSE
    /\ opens = 0
    /\ owed = {}

Move(r, from, to) == io[r] = from /\ io' = [io EXCEPT ![r] = to]

-----------------------------------------------------------------------------
(* submit_read *)

\* The context is made and counted.
Submit(r) ==
    /\ Move(r, "new", "counted")
    /\ pending_count_' = pending_count_ + 1
    /\ UNCHANGED <<running_, worker, owner, open_, opens, owed>>

\* ReadFile accepts the read, which may be complete already, or refuses it.
Issue(r) ==
    /\ \/ open_ /\ (Move(r, "counted", "pending") \/ Move(r, "counted", "posted"))
       \/ Move(r, "counted", "failed")
    /\ UNCHANGED <<pending_count_, running_, worker, owner, open_, opens, owed>>

\* A refused read: the submitter runs the callback itself ...
ReportFailure(r) ==
    /\ Move(r, "failed", "reporting")
    /\ UNCHANGED <<pending_count_, running_, worker, owner, open_, opens, owed>>

\* Mutant of SubmitFails: a refused read stays in the count.
SubmitFailsCounted(r) ==
    /\ Move(r, "reporting", "answered")
    /\ UNCHANGED <<pending_count_, running_, worker, owner, open_, opens, owed>>

\* ... and then takes the read out of the count.
SubmitFails(r) ==
    /\ Move(r, "reporting", "answered")
    /\ pending_count_' = pending_count_ - 1
    /\ UNCHANGED <<running_, worker, owner, open_, opens, owed>>

SubmitterStep(r) == Issue(r) \/ ReportFailure(r) \/ SubmitFails(r)

\* The disk.
Complete(r) ==
    /\ Move(r, "pending", "posted")
    /\ UNCHANGED <<pending_count_, running_, worker, owner, open_, opens, owed>>

-----------------------------------------------------------------------------
(* completion_worker *)

\* while (running_)
WorkerLoop ==
    /\ worker = "loop"
    /\ worker' = IF running_ THEN "dequeue" ELSE "stopped"
    /\ UNCHANGED <<io, pending_count_, running_, owner, open_, opens, owed>>

\* GetQueuedCompletionStatus returns a packet ...
Dequeue(r) ==
    /\ worker = "dequeue"
    /\ Move(r, "posted", "taken")
    /\ worker' = "count"
    /\ UNCHANGED <<pending_count_, running_, owner, open_, opens, owed>>

\* Mutant of DequeueTimesOut: the worker ends when nothing comes.
DequeueGivesUp ==
    /\ worker = "dequeue"
    /\ \A r \in Read : io[r] # "posted"
    /\ worker' = "stopped"
    /\ UNCHANGED <<io, pending_count_, running_, owner, open_, opens, owed>>

\* ... or none comes for 100 ms.
DequeueTimesOut ==
    /\ worker = "dequeue"
    /\ \A r \in Read : io[r] # "posted"
    /\ worker' = "loop"
    /\ UNCHANGED <<io, pending_count_, running_, owner, open_, opens, owed>>

\* The read leaves the count before its callback runs.
Uncount(r) ==
    /\ worker = "count"
    /\ Move(r, "taken", "calling")
    /\ pending_count_' = pending_count_ - 1
    /\ worker' = "call"
    /\ UNCHANGED <<running_, owner, open_, opens, owed>>

\* The callback returns; the context is deleted.
Called(r) ==
    /\ worker = "call"
    /\ Move(r, "calling", "answered")
    /\ worker' = "loop"
    /\ UNCHANGED <<pending_count_, running_, owner, open_, opens, owed>>

WorkerStep ==
    \/ WorkerLoop
    \/ \E r \in Read : Dequeue(r) \/ Uncount(r) \/ Called(r)
    \/ DequeueTimesOut

-----------------------------------------------------------------------------
(* open, close, flush *)

\* The file is opened when it is closed; it may be missing.
Open ==
    /\ owner = "idle" /\ ~open_
    /\ opens < MaxOpens
    /\ opens' = opens + 1
    /\ \/ UNCHANGED <<running_, worker, open_>>
       \/ running_' = TRUE /\ worker' = "loop" /\ open_' = TRUE
    /\ UNCHANGED <<io, pending_count_, owner, owed>>

BeginClose ==
    /\ owner = "idle"
    /\ running_' = FALSE
    /\ owner' = "joining"
    /\ UNCHANGED <<io, pending_count_, worker, open_, opens, owed>>

\* Mutant of JoinWorker: the worker is detached.
DetachWorker ==
    /\ owner = "joining"
    /\ owner' = "closing"
    /\ UNCHANGED <<io, pending_count_, running_, worker, open_, opens, owed>>

\* The worker is joined, if there is one.
JoinWorker ==
    /\ owner = "joining"
    /\ worker \in {"stopped", "none"}
    /\ worker' = "none"
    /\ owner' = "closing"
    /\ UNCHANGED <<io, pending_count_, running_, open_, opens, owed>>

\* CloseHandle: what the disk still has is cancelled, which posts it.
EndClose ==
    /\ owner = "closing"
    /\ open_' = FALSE
    /\ io' = [r \in Read |-> IF io[r] = "pending" THEN "posted" ELSE io[r]]
    /\ owner' = "idle"
    /\ UNCHANGED <<pending_count_, running_, worker, opens, owed>>

\* flush: `owed` are the reads whose submission has returned or got so far
\* that the count includes them.
BeginFlush ==
    /\ owner = "idle"
    /\ owner' = "flushing"
    /\ owed' = {r \in Read : io[r] # "new"}
    /\ UNCHANGED <<io, pending_count_, running_, worker, open_, opens>>

\* Mutant of EndFlush: the loop ends when one read is left.
EndFlushEarly ==
    /\ owner = "flushing"
    /\ pending_count_ <= 1
    /\ owner' = "flushed"
    /\ UNCHANGED <<io, pending_count_, running_, worker, open_, opens, owed>>

\* The loop ends when it reads a zero.
EndFlush ==
    /\ owner = "flushing"
    /\ pending_count_ = 0
    /\ owner' = "flushed"
    /\ UNCHANGED <<io, pending_count_, running_, worker, open_, opens, owed>>

AfterFlush ==
    /\ owner = "flushed"
    /\ owner' = "idle"
    /\ owed' = {}
    /\ UNCHANGED <<io, pending_count_, running_, worker, open_, opens>>

OwnerStep == JoinWorker \/ EndClose \/ EndFlush \/ AfterFlush

-----------------------------------------------------------------------------
Next ==
    \/ \E r \in Read : Submit(r) \/ SubmitterStep(r) \/ Complete(r)
    \/ WorkerStep
    \/ Open \/ BeginClose \/ BeginFlush
    \/ OwnerStep

\* Threads that can run do, the disk answers, the port delivers its packets.
Fairness ==
    /\ \A r \in Read : WF_vars(SubmitterStep(r)) /\ WF_vars(Complete(r))
    /\ WF_vars(WorkerStep)
    /\ WF_vars(OwnerStep)

Spec == Init /\ [][Next]_vars /\ Fairness

-----------------------------------------------------------------------------
(* pending_io_count (ssd_streamer.h:59) counts exactly the reads between    *)
(* their submission and the worker's or the submitter's decrement, whoever  *)
(* submits, completes, closes and reopens in between.  It can then neither  *)
(* wrap around nor stay above zero when everything has been answered.       *)
Outstanding ==
    {r \in Read : io[r] \in {"counted", "pending", "posted", "failed",
                             "reporting", "taken"}}

CountIsExact == pending_count_ = Cardinality(Outstanding)

(* close joins the worker (ssd_streamer.cpp:63-72): while the owner closes  *)
(* the handle and until it opens the file again, the worker neither holds a *)
(* packet nor runs a callback.                                              *)
QuietWhenClosed ==
    owner = "closing" \/ ~open_ =>
        \A r \in Read : io[r] \notin {"taken", "calling"}

(* "Wait for all pending I/O to complete" (ssd_streamer.h:53): of the reads *)
(* that flush waited for, at most the one whose callback the worker is in   *)
(* is not yet answered when flush returns.                                  *)
FlushLeavesOne ==
    owner = "flushed" => Cardinality({r \in owed : io[r] # "answered"}) <= 1

(* A read that is submitted while the file stays open is answered           *)
(* (ssd_streamer.h:47), however the others interleave.                      *)
AnsweredWhileOpen ==
    \A r \in Read : io[r] = "counted" ~> io[r] = "answered" \/ ~running_

=============================================================================
