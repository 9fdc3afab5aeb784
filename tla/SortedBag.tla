----------------------------- MODULE SortedBag -----------------------------
(***************************************************************************)
(* What XTL::BTree promises its caller: a bag of keys (a set, when          *)
(* UNIQUE_KEYS) in which Insert and Delete say whether they did something.  *)
(***************************************************************************)
EXTENDS Naturals

CONSTANTS Keys, UNIQUE_KEYS

VARIABLES
    bag,        \* how often each key is in the tree
    result      \* what the last call returned

BagInit == bag = [k \in Keys |-> 0] /\ result = "none"

Insert(k) ==
    LET refused == UNIQUE_KEYS /\ bag[k] > 0
    IN  /\ bag' = IF refused THEN bag ELSE [bag EXCEPT ![k] = @ + 1]
        /\ result' = IF refused THEN "false" ELSE "true"

Delete(k) ==
    /\ bag' = IF bag[k] = 0 THEN bag ELSE [bag EXCEPT ![k] = @ - 1]
    /\ result' = IF bag[k] = 0 THEN "false" ELSE "true"

Clear == bag' = [k \in Keys |-> 0] /\ result' = "none"

BagNext == Clear \/ \E k \in Keys : Insert(k) \/ Delete(k)

BagSpec == BagInit /\ [][BagNext]_<<bag, result>>
=============================================================================
