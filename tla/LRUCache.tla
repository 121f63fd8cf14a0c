------------------------------ MODULE LRUCache ------------------------------
(***************************************************************************)
(* What a byte-bounded LRU cache of pages promises, without lists, maps,   *)
(* iterators or memory, to callers that never store a page that is already *)
(* resident: the first such store ends the promise.                        *)
(***************************************************************************)
EXTENDS Integers, FiniteSets, Functions

CONSTANTS Pages, Sizes, Limit

VARIABLES
    resident,   \* resident page -> its size
    newer,      \* newer[p]: the resident pages used more recently than p
    latest,     \* the page used last, unless it has left
    void        \* the promise has ended

vars == <<resident, newer, latest, void>>

Total(S) == SumFunctionOnSet(resident, S)

Init ==
    /\ resident = [p \in {} |-> 0]
    /\ newer = [p \in {} |-> {}]
    /\ latest = {}
    /\ void = FALSE

\* p becomes the most recently used page.
Use(p) ==
    /\ p \in DOMAIN resident
    /\ newer' = [q \in DOMAIN newer |->
                    IF q = p THEN {}
                    ELSE IF q \in newer[p] THEN newer[q] \cup {p}
                    ELSE newer[q]]
    /\ latest' = {p}
    /\ UNCHANGED resident

\* p leaves.
Drop(p) ==
    /\ p \in DOMAIN resident
    /\ resident' = [q \in DOMAIN resident \ {p} |-> resident[q]]
    /\ newer' = [q \in DOMAIN newer \ {p} |-> newer[q] \ {p}]
    /\ latest' = latest \ {p}

\* A set of pages that is kept together with everything newer.
Recent(keep) == \A q \in keep : newer[q] \subseteq keep

\* p enters.  Of the resident pages it displaces only old ones, and no more
\* than its size requires.
Store(p, size) ==
    /\ p \notin DOMAIN resident
    /\ \E keep \in SUBSET DOMAIN resident :
          /\ Recent(keep)
          /\ keep = {} \/ Total(keep) + size <= Limit
          /\ \A more \in SUBSET DOMAIN resident :
                (Recent(more) /\ keep \subseteq more /\ keep # more)
                    => Total(more) + size > Limit
          /\ resident' = [q \in keep \cup {p} |->
                             IF q = p THEN size ELSE resident[q]]
          /\ newer' = [q \in keep \cup {p} |->
                          IF q = p THEN {} ELSE newer[q] \cup {p}]
          /\ latest' = {p}

\* Nothing is promised of a store of a resident page, nor of what follows.
Next ==
    \/ /\ ~void /\ UNCHANGED void
       /\ \/ \E p \in Pages : Use(p) \/ Drop(p)
          \/ \E p \in Pages, size \in Sizes : Store(p, size)
    \/ void' /\ (void \/ DOMAIN resident # {})

Spec == Init /\ [][Next]_vars

=============================================================================
