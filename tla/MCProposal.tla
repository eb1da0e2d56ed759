----------------------------- MODULE MCProposal ------------------------------
(* Small amounts and weights. Scripts r1 to r4 are the receiver's, r1 the
   payee's, r2 lighter and r3 heavier than it; s1 and s2 are the sender's. *)
EXTENDS Proposal

Utxo(value, script, kind, weight) ==
    [value |-> value, script |-> script, kind |-> kind, weight |-> weight]

MCCoin ==
    [c \in {"a", "b", "x", "y"} |->
        CASE c = "a" -> Utxo(15, "s1", "p2wpkh", 3)
          [] c = "b" -> Utxo(4, "s2", "p2tr", 2)
          [] c = "x" -> Utxo(6, "r1", "p2wpkh", 3)
          [] c = "y" -> Utxo(1, "r4", "p2tr", 2)]

MCOutputWeight ==
    [s \in {"r1", "r2", "r3", "r4", "s1", "s2"} |->
        CASE s = "r2" -> 1 [] s = "r3" -> 3 [] OTHER -> 2]

Out(script, value, keypaths) == [script |-> script, value |-> value, keypaths |-> keypaths]

In(outpoint, sequence, fields) == [outpoint |-> outpoint, sequence |-> sequence, fields |-> fields]

Own(outpoint) == In(outpoint, "rbf", {"utxo", "final", "bip32_derivation"})

Psbt(inputs, outputs, header) == [inputs |-> inputs, outputs |-> outputs, header |-> header]

MCOriginals ==
    {Psbt(<<Own("a")>>, <<Out("r1", 4, FALSE), Out("s1", 3, TRUE)>>, "h"),
     Psbt(<<Own("a")>>, <<Out("s1", 1, TRUE), Out("r1", 6, FALSE)>>, "h"),
     Psbt(<<Own("a")>>, <<Out("s1", 1, TRUE), Out("r1", 4, FALSE), Out("s1", 3, TRUE)>>, "h"),
     Psbt(<<Own("a"), Own("b")>>, <<Out("r1", 8, FALSE)>>, "h"),
     Psbt(<<Own("a"), Own("b")>>,
          <<Out("r4", 2, FALSE), Out("r1", 4, FALSE), Out("s2", 2, TRUE)>>, "h")}

Replace(outputs, drain) == [outputs |-> outputs, drain |-> drain]

MCReplacements ==
    {Replace(<<Out("r1", 6, FALSE)>>, "r1"),
     Replace(<<Out("r1", 4, FALSE), Out("r3", 2, FALSE)>>, "r3"),
     Replace(<<Out("r1", 8, FALSE), Out("r3", 0, FALSE)>>, "r3"),
     Replace(<<Out("r1", 1, FALSE), Out("r4", 1, FALSE)>>, "r1")}

(* Proposals of other receivers: outputs changed, dropped, swapped, added;
   inputs dropped, swapped, signed, unsigned, with the wrong sequence. *)
OtherOutputs ==
    UNION {TupleOf({Out("r1", 4, FALSE), Out("r1", 3, FALSE), Out("r3", 7, FALSE),
                    Out("s1", 3, FALSE), Out("s1", 1, FALSE), Out("s2", 2, FALSE)}, n) : n \in 1..3}

Theirs == In("x", "rbf", {"utxo", "final"})

OtherInputs ==
    {<<In("a", "rbf", {"utxo"})>>,
     <<In("a", "rbf", {}), Theirs>>,
     <<Theirs, In("a", "rbf", {"utxo"}), In("b", "rbf", {"utxo"})>>}

BadInputs ==
    {<<In("b", "rbf", {"utxo"}), Theirs, In("a", "rbf", {"utxo"})>>,
     <<In("a", "rbf", {"utxo", "final"}), Theirs>>,
     <<In("a", "max", {"utxo"}), Theirs>>,
     <<In("a", "rbf", {"utxo"}), In("x", "rbf", {"utxo"})>>,
     <<In("a", "rbf", {"utxo"}), In("x", "max", {"utxo", "final"})>>,
     <<In("a", "rbf", {"utxo", "sighash_single"}), Theirs>>,
     <<In("a", "rbf", {"utxo", "bip32_derivation"}), Theirs>>,
     <<Theirs>>}

MCOtherProposals ==
    {Psbt(i, o, "h") : i \in OtherInputs, o \in OtherOutputs} \union
    {Psbt(i, <<Out("r1", 4, FALSE), Out("s1", 3, FALSE)>>, "h") : i \in BadInputs} \union
    {Psbt(<<In("a", "rbf", {})>>, <<Out("r1", 4, FALSE), Out("s1", 3, FALSE)>>, "other"),
     Psbt(<<In("a", "rbf", {})>>, <<Out("r1", 4, FALSE), Out("s1", 3, TRUE)>>, "h")}

(* The conditions the theorems of Proposal_proofs put on the receiver's
   replacements hold of these. *)
ASSUME ReplacementsAssumption == NoSenderScript /\ OwnReplacements
=============================================================================
