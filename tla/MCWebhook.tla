----------------------------- MODULE MCWebhook -----------------------------
(* Small instances of Webhook: deliveries with one key to two routes, and  *)
(* with another key.                                                       *)
EXTENDS Webhook, TLC

CONSTANTS push, issue, k, other

MCRequests == {[route |-> push, key |-> k], [route |-> issue, key |-> k],
               [route |-> push, key |-> other]}
Symmetry == Permutations(Deliveries)
=============================================================================
