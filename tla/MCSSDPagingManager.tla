------------------------- MODULE MCSSDPagingManager -------------------------
(***************************************************************************)
(* SSDPagingManager on a few pages: one per kind of place a page can have  *)
(* in a model and in its file.                                             *)
(***************************************************************************)
EXTENDS SSDPagingManager, TLC

CONSTANTS
    Early,      \* pages of layer 0
    Near,       \* pages of layer 4
    Global,     \* pages that belong to no layer (layer_idx 0xFFFFFFFF)
    Far,        \* pages of layer 0 behind the first chunk of the file
    FirstModel, SecondModel

Pages == Early \cup Near \cup Global \cup Far
Models == {FirstModel, SecondModel}
Requests == [page_id : Pages, priority : {0, 10}]

PriorityOf(r) == r.priority
ModelOfPage(p) == FirstModel
LayerOfPage(p) ==
    IF p \in Global THEN UInt - 1 ELSE IF p \in Near THEN 4 ELSE 0
SizeOfPage(p) == 1
EndOfPage(p) == IF p \in Far THEN FileSize ELSE ChunkSize

-----------------------------------------------------------------------------
\* The first model is open and wholly mapped, as after ModelLoader::load.
OpenedSpec == StartWith(FirstModel, 1, FileSize, FileSize) /\ [][Next]_vars

\* Nothing is open yet.
ClosedSpec == Init /\ [][Next]_vars

Symmetric == Permutations(Node) \cup Permutations(Caller)

=============================================================================
