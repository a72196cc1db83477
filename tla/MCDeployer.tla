------------------------------ MODULE MCDeployer ------------------------------
(* Instances of Deployer: an application that is pushed five times and     *)
(* changes its dependencies in between, once back to what they were, and   *)
(* becomes a static site in the end.                                       *)
EXTENDS Deployer

MCReleases == {"a", "b", "c", "site"}
MCStatic == {"site"}
MCIgniterOf ==
    [c \in 0..MaxCode |-> CASE c = 1 -> "a" [] c = 2 -> "b" [] c = 3 -> "c"
                            [] c = 4 -> "a" [] OTHER -> "site"]

dir(c) == [name |-> MCIgniterOf[c], code |-> c]

(* The first deployments, and those after three that were kept. *)
MCDeployed == {<<>>, <<dir(3), dir(2), dir(1)>>}
Fresh == {<<>>}

(* Every push leads to the same igniter. *)
SameIgniter == [c \in 0..MaxCode |-> IF c = 0 THEN "site" ELSE "a"]
=============================================================================
