-------------------------- MODULE MCPrefetchQueue --------------------------
(* PrefetchQueue with a bounded number of calls. *)
EXTENDS PrefetchQueue

CONSTANTS High, Low,    \* requests: the priorities prefetch_layer and
          MaxCalls      \* prefetch_tensor's callers use; bound: calls made

Level(r) == IF r \in High THEN 10 ELSE 0
AllRequests == High \cup Low

VARIABLE calls          \* how many calls were made

MCInit == QueueInit /\ calls = 0

Call(r) ==
    /\ destroyer = "alive"
    /\ calls < MaxCalls
    /\ Push(r)
    /\ calls' = calls + 1

MCNext ==
    \/ \E r \in Request : Call(r)
    \/ /\ \/ WorkerStep
          \/ WorkerServed
          \/ SpuriousWakeup
          \/ ClearRunning
          \/ NotifyAll
          \/ Join
       /\ UNCHANGED calls

MCSpec == MCInit /\ [][MCNext]_<<queueVars, calls>> /\ QueueFairness

=============================================================================
