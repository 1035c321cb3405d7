--------------------------- MODULE MCDefragmentNids ---------------------------
(* Values of the constants of DefragmentNids for model checking: a slot with  *)
(* two nodes and a slot with one.                                             *)
EXTENDS DefragmentNids

MCOrder  == <<"s0b0n0", "s0b1n0", "s1b0n0">>
MCSlotOf == [n \in {"s0b0n0", "s0b1n0", "s1b0n0"} |-> IF n = "s1b0n0" THEN "s1" ELSE "s0"]
MCLead   == [s \in {"s0", "s1"} |-> IF s = "s0" THEN <<"s0b0n0", "s0b1n0">> ELSE <<"s1b0n0">>]
\* The first node has model A; the second the same, or B as a leftover; the
\* third may not be in the inventory.
MCInventories == {[n \in {"s0b0n0", "s0b1n0", "s1b0n0"} |->
                     IF n = "s0b0n0" THEN "A" ELSE IF n = "s0b1n0" THEN b ELSE c] :
                  b \in {"A", "B"}, c \in {"A", "none"}}
MCEnabled  == {{}}
MCDisabled == {{}, {"s1"}}
=============================================================================
