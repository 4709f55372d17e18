------------------------- MODULE MCProviderDispatch -------------------------
(* Two workers, leases of two instants, challenges of one instant; a call  *)
(* may be one instant old when it gets the lock.                            *)
EXTENDS ProviderDispatch, TLC

CONSTANTS w1, w2

MCSymmetry == Permutations(Workers)
=============================================================================
