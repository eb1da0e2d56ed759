-------------------------- MODULE MCReceiveSession --------------------------
(* A receiver session over one BIP 77 and one BIP 78 payload of each kind of  *)
(* input, and proposals that differ in their number of outputs.               *)
EXTENDS ReceiveSession

CONSTANTS o1, o2, p1, p2

MCOutputCount == [x \in {o1, o2, p1, p2} |-> IF x = p2 THEN 1 ELSE 2]
=============================================================================
