-------------------------- MODULE MCTriggerManager --------------------------
(* Small instance of TriggerManager: two IDs, named one at a time or not   *)
(* at all (as the host does to read the mask), and selections with and     *)
(* without the Ethernet input.                                             *)
EXTENDS TriggerManager

MCIdSets == {{}} \cup {{id} : id \in Ids}

MCInputLists == {<<>>, <<EthA>>, <<EthB, EthA>>}

Symmetry == Permutations(Ids)

(* The theorems are about this instance, too. *)
ASSUME ReadableInstance == Readable
=============================================================================
