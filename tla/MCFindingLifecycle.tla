------------------------- MODULE MCFindingLifecycle -------------------------
(* Small instances of FindingLifecycle.                                    *)
EXTENDS FindingLifecycle

MCOneOrigin == [s \in Snapshots |-> 1]
=============================================================================
