----------------------------- MODULE MCCatalog -----------------------------
(* A legacy upstream that announces its changes and a modern one that      *)
(* gives its listings a lifetime, over tools of which two differ in an     *)
(* annotation only and one is refused.                                     *)
EXTENDS Catalog

MCUpstreams == 1..2
MCTools == {"old", "annotated", "new", "poisoned"}
MCShapeOf(t) == IF t = "annotated" THEN "old" ELSE t
MCRefused == {"poisoned"}
MCFirst == [u \in MCUpstreams |-> "old"]
MCAnnouncing == {1}
MCLived == {2}
=============================================================================
