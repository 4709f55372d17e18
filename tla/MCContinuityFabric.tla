-------------------------- MODULE MCContinuityFabric --------------------------
(***************************************************************************)
(* ContinuityFabric with two commands: a draft and an effect that waits    *)
(* for it in c1, and in c2 a report that waits for the effect.             *)
(***************************************************************************)
EXTENDS ContinuityFabric

CONSTANTS c1, c2, draft, effect, report

MCCommandOf == [l \in Lane |-> IF l = report THEN c2 ELSE c1]

MCDependsOn ==
    [l \in Lane |-> CASE l = effect -> {draft} \cap Lane
                      [] l = report -> {effect}
                      [] OTHER -> {}]

MCEffectClass ==
    [l \in Lane |-> IF l = effect THEN "REVERSIBLE_EXTERNAL" ELSE "NO_EFFECT"]

=============================================================================
