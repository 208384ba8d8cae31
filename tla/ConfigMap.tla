------------------------------ MODULE ConfigMap ------------------------------
(* What the configuration dictionary of leap-fpga-ctrl promises: it behaves     *)
(* like a partial function from names to values, changed at one name at a time. *)
CONSTANTS Keys, Values

VARIABLE map

Init == map = [k \in {} |-> CHOOSE v \in Values : TRUE]

Set(k, v) == map' = [x \in DOMAIN map \cup {k} |-> IF x = k THEN v ELSE map[x]]
Unset(k) == map' = [x \in DOMAIN map \ {k} |-> map[x]]

Next == \E k \in Keys : Unset(k) \/ \E v \in Values : Set(k, v)

Spec == Init /\ [][Next]_map
==============================================================================
