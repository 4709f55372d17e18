------------------------- MODULE MCSnapshotAcceptance -------------------------
(***************************************************************************)
(* SnapshotAcceptance with its constants as model values.  Processes,      *)
(* identities and source heads are interchangeable.                        *)
(***************************************************************************)
EXTENDS SnapshotAcceptance, TLC

Symmetric == Permutations(Worker) \cup Permutations(Id) \cup Permutations(SourceHead)

=============================================================================
