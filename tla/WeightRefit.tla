------------------------------ MODULE WeightRefit ------------------------------
(***************************************************************************)
(* What a refit of the generation engine promises to the training loop: it *)
(* ends in success only when every parameter has this refit's value, and   *)
(* the engine's weights do not change again until the next refit begins.   *)
(* A refit that ends in an error promises nothing about the weights, and   *)
(* no refit follows it.                                                    *)
(***************************************************************************)
EXTENDS Integers

CONSTANTS
  NumParams,      \* parameters of the policy
  MaxRefits       \* bound on the refits

ASSUME RefitAssumption == NumParams \in Nat \ {0} /\ MaxRefits \in Nat \ {0}

VARIABLES
  weights,        \* per parameter, the refit whose value the engine holds
  refit,          \* the refit under way or just ended
  outcome         \* "none" while it is under way, then "success" or "error"

refitVars == <<weights, refit, outcome>>

Params == 1 .. NumParams
Corrupt == -1       \* bytes of another parameter, or of none

RefitInit ==
  /\ weights = [p \in Params |-> 0]
  /\ refit = 1 /\ outcome = "none"

(* The engine loads parameters; before an error is reported, and after it, *)
(* the bytes may be anything.                                              *)
RefitLoad ==
  /\ outcome # "success"
  /\ DOMAIN weights' = Params
  /\ \A p \in Params : weights'[p] \in {weights[p], refit, Corrupt}
  /\ UNCHANGED <<refit, outcome>>

RefitSucceeds ==
  /\ outcome = "none" /\ outcome' = "success"
  /\ \A p \in Params : weights[p] = refit
  /\ UNCHANGED <<weights, refit>>

RefitFails ==
  /\ outcome = "none" /\ outcome' = "error"
  /\ UNCHANGED <<weights, refit>>

RefitBegins ==
  /\ outcome = "success" /\ outcome' = "none"
  /\ refit < MaxRefits /\ refit' = refit + 1
  /\ UNCHANGED weights

RefitNext == RefitLoad \/ RefitSucceeds \/ RefitFails \/ RefitBegins

RefitSpec == RefitInit /\ [][RefitNext]_refitVars

=============================================================================
