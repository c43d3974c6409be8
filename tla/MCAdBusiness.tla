---------------------------- MODULE MCAdBusiness -----------------------------
(***************************************************************************)
(* AdBusiness for TLC: two ads, ad 1 with two versions of its file, and    *)
(* lists that may lack ad 2.                                               *)
(***************************************************************************)
EXTENDS AdBusiness

(* Ad 2 is always a lock screen ad.                                        *)
MCPolicies == {[lock |-> {}, other |-> {1}], [lock |-> {2}, other |-> {1}],
               [lock |-> {2}, other |-> {}]}

MCLists == {[id \in Ids |-> 1],
            [id \in Ids |-> IF id = 1 THEN 2 ELSE 1],
            [id \in Ids |-> IF id = 1 THEN 1 ELSE None]}
==============================================================================
