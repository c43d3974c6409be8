------------------------------ MODULE MCAdChain -------------------------------
(***************************************************************************)
(* AdChain for TLC: an ad with two versions that the policy has on the     *)
(* lock screen or not at all, and one that it always has elsewhere.        *)
(***************************************************************************)
EXTENDS AdChain

MCPolicies == {[lock |-> {1}, other |-> {2}], [lock |-> {}, other |-> {2}]}

MCLists == {[id \in Ids |-> 1], [id \in Ids |-> IF id = 1 THEN 2 ELSE 1]}
==============================================================================
