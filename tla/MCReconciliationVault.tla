------------------------ MODULE MCReconciliationVault ------------------------
(* ReconciliationVault for model checking: one worker, leases and challenges *)
(* of one instant.                                                           *)
EXTENDS ReconciliationVault, TLC

=============================================================================
