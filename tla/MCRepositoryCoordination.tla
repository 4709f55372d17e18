----------------------- MODULE MCRepositoryCoordination -----------------------
(***************************************************************************)
(* RepositoryCoordination with its constants as model values.  The nodes   *)
(* are interchangeable.                                                    *)
(***************************************************************************)
EXTENDS RepositoryCoordination, TLC

Symmetric == Permutations(Node)

=============================================================================
