-------------------------- MODULE MCAuthorityActions --------------------------
(***************************************************************************)
(* AuthorityActions with its constants as model values.  The workers are   *)
(* interchangeable, and so are the requests and the intents.               *)
(***************************************************************************)
EXTENDS AuthorityActions, TLC

Symmetric == Permutations(Worker) \cup Permutations(Request) \cup Permutations(Intent)

=============================================================================
