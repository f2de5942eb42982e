--------------------------- MODULE MCDeployments ---------------------------
EXTENDS Deployments

CONSTANTS x, y, p1, p2, p3

(* Two plans that have nothing in common and one that conflicts with both. *)
Affected == [p \in Plans |-> CASE p = p1 -> {x} [] p = p2 -> {x, y} [] OTHER -> {y}]
=============================================================================
