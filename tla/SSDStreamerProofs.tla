------------------------- MODULE SSDStreamerProofs -------------------------
(***************************************************************************)
(* Proofs about SSDStreamer, for any finite set of reads and any number of *)
(* times the file is opened.                                               *)
(***************************************************************************)
EXTENDS SSDStreamer, FiniteSetTheorems, TLAPS

WorkerPlaces == {"none", "loop", "dequeue", "count", "call", "stopped"}
OwnerPlaces == {"idle", "joining", "closing", "flushing", "flushed"}

Typed ==
    /\ io \in [Read -> Stages]
    /\ worker \in WorkerPlaces
    /\ owner \in OwnerPlaces
    /\ owed \in SUBSET Read

\* The worker has one packet or one callback at a time, and the place says which.
OneAtATime ==
    /\ \A r \in Read : io[r] = "taken" => worker = "count"
    /\ \A r \in Read : io[r] = "calling" => worker = "call"
    /\ \A r, s \in Read :
          io[r] \in {"taken", "calling"} /\ io[s] \in {"taken", "calling"} => r = s

\* There is no worker while the file is closed.
NoWorker == owner = "closing" \/ ~open_ => worker = "none"

\* What flush waited for has been submitted, and is uncounted when it ends.
FlushWaits ==
    /\ owner = "flushing" => \A r \in owed : io[r] # "new"
    /\ owner = "flushed" => \A r \in owed : io[r] \in {"calling", "answered"}

IInv == Typed /\ OneAtATime /\ NoWorker /\ FlushWaits /\ CountIsExact

-----------------------------------------------------------------------------
(* The count. *)

Counted == {"counted", "pending", "posted", "failed", "reporting", "taken"}

LEMMA OutstandingFinite == IsFiniteSet(Outstanding) /\ Cardinality(Outstanding) \in Nat
  <1>1. Outstanding \subseteq Read
    BY DEF Outstanding
  <1> QED BY <1>1, StreamerAssumption, FS_Subset, FS_CardinalityType

\* A read that enters, leaves or stays in the count.
LEMMA Enters ==
    ASSUME Typed, NEW r \in Read, NEW to \in Counted, io[r] \notin Counted,
           io' = [io EXCEPT ![r] = to]
    PROVE  Cardinality(Outstanding)' = Cardinality(Outstanding) + 1
  <1>1. Outstanding' = Outstanding \cup {r} /\ r \notin Outstanding
    BY DEF Typed, Outstanding, Counted
  <1> QED BY <1>1, OutstandingFinite, FS_AddElement

LEMMA Leaves ==
    ASSUME Typed, NEW r \in Read, NEW to \in Stages \ Counted, io[r] \in Counted,
           io' = [io EXCEPT ![r] = to]
    PROVE  Cardinality(Outstanding)' = Cardinality(Outstanding) - 1
  <1>1. Outstanding' = Outstanding \ {r} /\ r \in Outstanding
    BY DEF Typed, Outstanding, Counted
  <1> QED BY <1>1, OutstandingFinite, FS_RemoveElement

LEMMA Stays ==
    ASSUME \A r \in Read : (io[r] \in Counted) <=> (io'[r] \in Counted)
    PROVE  Cardinality(Outstanding)' = Cardinality(Outstanding)
  <1>1. Outstanding' = Outstanding
    BY DEF Outstanding, Counted
  <1> QED BY <1>1

LEMMA CountNext == Typed /\ CountIsExact /\ [Next]_vars => CountIsExact'
  <1> SUFFICES ASSUME Typed, CountIsExact, [Next]_vars PROVE CountIsExact'
    OBVIOUS
  <1> USE DEF Move
  <1>1. \A r \in Read : io[r] \in Stages
    BY DEF Typed
  <1>2. ASSUME NEW r \in Read, NEW from \in Counted, NEW to \in Counted, Move(r, from, to),
               UNCHANGED pending_count_
        PROVE  CountIsExact'
    <2>1. \A s \in Read : (io[s] \in Counted) <=> (io'[s] \in Counted)
      BY <1>2 DEF Typed
    <2> QED BY <1>2, <2>1, Stays DEF CountIsExact
  <1>3. ASSUME UNCHANGED <<io, pending_count_>> PROVE CountIsExact'
    BY <1>3, Stays DEF CountIsExact
  <1>4. ASSUME NEW r \in Read, Submit(r) PROVE CountIsExact'
    BY <1>4, Enters DEF Submit, CountIsExact, Counted
  <1>5. ASSUME NEW r \in Read, SubmitFails(r) \/ Uncount(r) PROVE CountIsExact'
    <2>1. PICK to \in Stages \ Counted :
             io[r] \in Counted /\ io' = [io EXCEPT ![r] = to]
      BY <1>5 DEF SubmitFails, Uncount, Counted, Stages
    <2> QED BY <1>5, <2>1, Leaves DEF SubmitFails, Uncount, CountIsExact
  <1>6. ASSUME NEW r \in Read,
               Issue(r) \/ ReportFailure(r) \/ Complete(r) \/ Dequeue(r)
        PROVE  CountIsExact'
    BY <1>2, <1>6 DEF Issue, ReportFailure, Complete, Dequeue, Counted
  <1>7. ASSUME NEW r \in Read, Called(r) PROVE CountIsExact'
    <2>1. \A s \in Read : (io[s] \in Counted) <=> (io'[s] \in Counted)
      BY <1>7 DEF Typed, Called, Counted
    <2> QED BY <1>7, <2>1, Stays DEF CountIsExact, Called
  <1>8. CASE EndClose
    <2>1. \A s \in Read : (io[s] \in Counted) <=> (io'[s] \in Counted)
      BY <1>8 DEF EndClose, Counted
    <2> QED BY <1>8, <2>1, Stays DEF CountIsExact, EndClose
  <1>9. CASE \/ WorkerLoop \/ DequeueTimesOut
             \/ Open \/ BeginClose \/ BeginFlush \/ JoinWorker \/ EndFlush \/ AfterFlush
    BY <1>3, <1>9 DEF WorkerLoop, DequeueTimesOut, Open, BeginClose, BeginFlush,
                      JoinWorker, EndFlush, AfterFlush
  <1>10. CASE UNCHANGED vars
    BY <1>3, <1>10 DEF vars
  <1> QED BY <1>4, <1>5, <1>6, <1>7, <1>8, <1>9, <1>10
          DEF Next, SubmitterStep, WorkerStep, OwnerStep

-----------------------------------------------------------------------------
(* The other parts of the invariant. *)

LEMMA StreamerInit == Init => IInv
  <1> SUFFICES ASSUME Init PROVE IInv
    OBVIOUS
  <1>1. Outstanding = {}
    BY DEF Init, Outstanding
  <1>2. CountIsExact
    BY <1>1, FS_EmptySet DEF Init, CountIsExact
  <1> QED BY <1>2 DEF Init, IInv, Typed, Stages, WorkerPlaces, OwnerPlaces, OneAtATime,
                      NoWorker, FlushWaits

LEMMA StreamerNext == IInv /\ [Next]_vars => IInv'
  <1> SUFFICES ASSUME IInv, [Next]_vars PROVE IInv'
    OBVIOUS
  <1>1. CountIsExact'
    BY CountNext DEF IInv
  <1>2. pending_count_ = 0 => \A r \in Read : io[r] \notin Counted
    <2>1. pending_count_ = 0 => Outstanding = {}
      BY OutstandingFinite, FS_EmptySet DEF IInv, CountIsExact
    <2> QED BY <2>1 DEF Outstanding, Counted
  <1> SUFFICES (Typed /\ OneAtATime /\ NoWorker /\ FlushWaits)'
    BY <1>1 DEF IInv
  <1> USE DEF IInv, Typed, OneAtATime, NoWorker, FlushWaits, WorkerPlaces, OwnerPlaces,
              Stages, Move
  <1>3. CASE \E r \in Read : Submit(r) \/ SubmitterStep(r) \/ Complete(r)
    BY <1>3 DEF Submit, SubmitterStep, Issue, ReportFailure, SubmitFails, Complete
  <1>4. ASSUME NEW r \in Read, Dequeue(r) \/ Uncount(r) \/ Called(r)
        PROVE  (Typed /\ OneAtATime /\ NoWorker /\ FlushWaits)'
    BY <1>4 DEF Dequeue, Uncount, Called
  <1>5. CASE WorkerLoop \/ DequeueTimesOut
    BY <1>5 DEF WorkerLoop, DequeueTimesOut
  <1>6. CASE Open
    BY <1>6 DEF Open
  <1>7. CASE BeginClose \/ JoinWorker \/ EndClose
    BY <1>7 DEF BeginClose, JoinWorker, EndClose
  <1>8. CASE BeginFlush \/ AfterFlush
    BY <1>8 DEF BeginFlush, AfterFlush
  <1>9. CASE EndFlush
    BY <1>2, <1>9 DEF EndFlush, Counted
  <1>10. CASE UNCHANGED vars
    BY <1>10 DEF vars
  <1> QED BY <1>3, <1>4, <1>5, <1>6, <1>7, <1>8, <1>9, <1>10
          DEF Next, WorkerStep, OwnerStep

LEMMA StreamerInvariant == Spec => []IInv
  BY StreamerInit, StreamerNext, PTL DEF Spec

-----------------------------------------------------------------------------
(* The theorems. *)

(* pending_io_count (ssd_streamer.h:59) is exactly the number of reads that *)
(* are submitted and not yet uncounted: the unsigned counter never wraps     *)
(* around, for any number of submitters.                                     *)
THEOREM StreamerCountIsExact == Spec => []CountIsExact
  <1>1. IInv => CountIsExact
    BY DEF IInv
  <1> QED BY <1>1, StreamerInvariant, PTL

(* From close's join (ssd_streamer.cpp:63-72) until the next open, the      *)
(* worker holds no packet and runs no callback.                              *)
THEOREM StreamerQuietWhenClosed == Spec => []QuietWhenClosed
  <1>1. IInv => QuietWhenClosed
    BY DEF IInv, OneAtATime, NoWorker, QuietWhenClosed
  <1> QED BY <1>1, StreamerInvariant, PTL

(* When flush returns (ssd_streamer.cpp:210-217), at most one of the reads  *)
(* submitted before it is not answered: the one whose callback runs.         *)
THEOREM StreamerFlushLeavesOne == Spec => []FlushLeavesOne
  <1>1. IInv => FlushLeavesOne
    <2> SUFFICES ASSUME IInv, owner = "flushed"
                 PROVE  Cardinality({r \in owed : io[r] # "answered"}) <= 1
      BY DEF FlushLeavesOne
    <2> DEFINE Left == {r \in owed : io[r] # "answered"}
    <2>1. \A r, s \in Left : r = s
      BY DEF IInv, Typed, OneAtATime, FlushWaits
    <2>2. CASE Left = {}
      BY <2>2, FS_EmptySet
    <2>3. CASE Left # {}
      <3>1. PICK r : Left = {r}
        BY <2>1, <2>3
      <3> HIDE DEF Left
      <3>2. Cardinality(Left) = 1
        BY <3>1, FS_Singleton
      <3> QED BY <3>2 DEF Left
    <2> QED BY <2>2, <2>3
  <1> QED BY <1>1, StreamerInvariant, PTL

=============================================================================
