------------------------------- MODULE Psbts --------------------------------
(***************************************************************************)
(* What both sides of a payjoin compute of a PSBT: amounts, weights, fees  *)
(* (payjoin/src/core/psbt/mod.rs and the arithmetic of the bitcoin crate). *)
(*                                                                         *)
(* A PSBT is [inputs, outputs, header]: the header stands for version and  *)
(* lock time. An input is [outpoint, sequence, fields] where fields are    *)
(* the PSBT input fields that are set; an output is [script, value,        *)
(* keypaths], the last one saying whether it carries key derivations.      *)
(***************************************************************************)
EXTENDS Integers, Sequences, FiniteSets, FiniteSetsExt, Functions

CONSTANTS
    Coin,          \* [outpoints -> [value, script, kind, weight]]: the UTXO set
    OutputWeight,  \* [scripts -> Nat]: weight of an output paying the script
    Overhead,      \* weight of a transaction without inputs and outputs
    BareWeight,    \* weight of an input that carries no signature
    Signals,       \* sequence numbers an input may have
    Headers,       \* versions and lock times
    Scale,         \* weight units a FeeRate refers to (1000 in the code)
    Word           \* 2^64 in the code: weights and rates wrap

ASSUME PsbtsAssumption ==
    /\ \A o \in DOMAIN Coin : Coin[o].value \in Nat /\ Coin[o].weight \in Nat
    /\ \A s \in DOMAIN OutputWeight : OutputWeight[s] \in Nat
    /\ BareWeight \in Nat
    /\ {Overhead, Scale, Word} \subseteq Nat \ {0}

Inputs ==
    [outpoint : DOMAIN Coin, sequence : Signals,
     fields : SUBSET {"utxo", "final", "partial_sigs", "bip32_derivation", "sighash_single"}]

Outputs == [script : DOMAIN OutputWeight, value : Nat, keypaths : BOOLEAN]

PSBTs == [inputs : Seq(Inputs), outputs : Seq(Outputs), header : Headers]

SumOf(f(_), s) == SumFunction([i \in DOMAIN s |-> f(s[i])])

(* Weight * FeeRate rounds up, Amount / Weight rounds down. *)
FeeAt(weight, rate) == ((((weight * rate) % Word) + Scale - 1) % Word) \div Scale

RateOf(fee, weight) == (fee * Scale) \div weight

InputAmount(inputs) == SumOf(LAMBDA i : Coin[i.outpoint].value, inputs)

OutputAmount(outputs) == SumOf(LAMBDA o : o.value, outputs)

OutputsWeight(outputs) == SumOf(LAMBDA o : OutputWeight[o.script], outputs)

(* Psbt::fee; it is an error when negative. *)
Fee(psbt) == InputAmount(psbt.inputs) - OutputAmount(psbt.outputs)

(* The transaction extracted from a PSBT has the signatures that are there. *)
TxWeight(psbt) ==
    LET weight(i) == IF "final" \in i.fields THEN Coin[i.outpoint].weight ELSE BareWeight
    IN  Overhead + SumOf(weight, psbt.inputs) + OutputsWeight(psbt.outputs)

(* InternalInputPair::expected_input_weight, given by the kind of script. *)
expected_input_weight(outpoint) == Coin[outpoint].weight

ScriptsOf(inputs) == {Coin[inputs[i].outpoint].script : i \in DOMAIN inputs}

(* Iterator::position of the first output that pays a script. *)
Position(outputs, script) == Min({i \in DOMAIN outputs : outputs[i].script = script})
=============================================================================
