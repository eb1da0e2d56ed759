---------------------------- MODULE ProposalCheck ----------------------------
(***************************************************************************)
(* The sender's half of a payjoin (payjoin/src/core/send/mod.rs): the      *)
(* context built around an Original PSBT and the checks a Proposal PSBT    *)
(* must pass before the sender signs it. Output indexes count from 1.      *)
(*                                                                         *)
(* A builder method that can fail is the set of its possible results,      *)
(* empty when it returns an error.                                         *)
(***************************************************************************)
EXTENDS Psbts, SequencesExt

CONSTANTS
    Payee,        \* the script of the payjoin URI
    MixedWeight   \* weight assumed for an input when the input types are mixed

NoContribution == [max_amount |-> 0, vout |-> 0]

-----------------------------------------------------------------------------
(* PsbtContextBuilder *)

check_single_payee(outputs, amount) ==
    /\ Cardinality({i \in DOMAIN outputs : outputs[i].script = Payee}) = 1
    /\ \A i \in DOMAIN outputs :
          outputs[i].script = Payee /\ amount # {} => outputs[i].value \in amount

(* Bug: the contribution is offered without looking at the output's value. *)
check_fee_output_amount_Unclamped(output, fee, clamp) == {fee}

check_fee_output_amount(output, fee, clamp) ==
    CASE output.value >= fee -> {fee}
      [] output.value < fee /\ clamp -> {output.value}
      [] OTHER -> {}

Contribution(output, vout, fee, clamp) ==
    {[max_amount |-> a, vout |-> vout] : a \in check_fee_output_amount(output, fee, clamp)}

find_change_index(outputs, fee, clamp) ==
    LET change == {i \in DOMAIN outputs : outputs[i].script # Payee}
    IN  CASE Len(outputs) = 1 /\ change = {} /\ clamp -> {NoContribution}
          [] Len(outputs) = 2 /\ change # {} ->
                Contribution(outputs[Min(change)], Min(change), fee, clamp)
          [] OTHER -> {}

check_change_index(outputs, fee, index, clamp) ==
    IF index \in DOMAIN outputs /\ outputs[index].script # Payee
    THEN Contribution(outputs[index], index, fee, clamp)
    ELSE {}

(* index 0 is None. *)
determine_fee_contribution(outputs, fee, index, clamp) ==
    IF index = 0 THEN find_change_index(outputs, fee, clamp)
                 ELSE check_change_index(outputs, fee, index, clamp)

(* build_recommended: one input's worth of fees from the first output that is
   not the payee's, or as much of it as there is. *)
RecommendedContribution(psbt, rate) ==
    LET change == {i \in DOMAIN psbt.outputs : psbt.outputs[i].script # Payee}
        kinds  == {Coin[psbt.inputs[i].outpoint].kind : i \in DOMAIN psbt.inputs}
        weight == IF Cardinality(kinds) = 1
                  THEN expected_input_weight(psbt.inputs[1].outpoint)
                  ELSE MixedWeight
        fee    == FeeAt(weight, rate)
        value  == psbt.outputs[Min(change)].value
    IN  IF change = {}
        THEN {NoContribution}
        ELSE determine_fee_contribution(psbt.outputs, Min({fee, value}), Min(change), value < fee)

(* PsbtContextBuilder::build *)
SignsEverything(psbt) == \A i \in DOMAIN psbt.inputs : "sighash_single" \notin psbt.inputs[i].fields

build(psbt, amount, enabled, contribution, rate) ==
    IF SignsEverything(psbt) /\ check_single_payee(psbt.outputs, amount)
    THEN {[original_psbt |-> psbt, output_substitution |-> enabled,
           fee_contribution |-> c, min_fee_rate |-> rate] : c \in contribution}
    ELSE {}

-----------------------------------------------------------------------------
(* PsbtContext::process_proposal *)

basic_checks(context, proposal) == proposal.header = context.original_psbt.header

(* One proposed input against the next input of the Original PSBT. *)
CheckInput(context, acc, input) ==
    LET inputs == context.original_psbt.inputs
        ours   == acc.next \in DOMAIN inputs /\ inputs[acc.next].outpoint = input.outpoint
        clean  == {"bip32_derivation", "partial_sigs"} \intersect input.fields = {}
    IN  IF ours
        THEN [next |-> acc.next + 1,
              ok   |-> /\ acc.ok /\ clean
                       /\ input.sequence = inputs[acc.next].sequence
                       /\ "final" \notin input.fields
                       /\ "sighash_single" \notin input.fields]
        ELSE [acc EXCEPT !.ok = /\ acc.ok /\ clean
                                /\ {"final", "utxo"} \subseteq input.fields
                                /\ input.sequence = inputs[1].sequence]

(* Bug: inputs of the sender may be missing. *)
check_inputs_Missing(context, proposal) ==
    FoldLeft(LAMBDA acc, i : CheckInput(context, acc, i),
             [next |-> 1, ok |-> TRUE], proposal.inputs).ok

check_inputs(context, proposal) ==
    LET end == FoldLeft(LAMBDA acc, i : CheckInput(context, acc, i),
                        [next |-> 1, ok |-> TRUE], proposal.inputs)
    IN  end.ok /\ end.next > Len(context.original_psbt.inputs)

(* One proposed output against the next output of the Original PSBT: the fee
   output, the payee's output, another output of ours, or an additional one. *)
CheckOutput(context, acc, output) ==
    LET original == context.original_psbt.outputs[acc.next]
        given    == original.value - output.value
        ours     == output.script = original.script
        fee      == acc.next = context.fee_contribution.vout
        Match(contributed, ok) ==
            [next |-> acc.next + 1, fee |-> contributed, ok |-> acc.ok /\ ok]
    IN  IF acc.next > Len(context.original_psbt.outputs) THEN acc
        ELSE IF ours /\ fee
        THEN Match(IF given > 0 THEN given ELSE acc.fee,
                   given <= context.fee_contribution.max_amount)
        ELSE IF original.script = Payee
        THEN Match(acc.fee, context.output_substitution \/ (ours /\ given <= 0))
        ELSE IF ours THEN Match(acc.fee, given <= 0)
        ELSE acc

(* Bug: outputs of the sender may be missing. *)
check_outputs_Missing(context, proposal) ==
    LET end == FoldLeft(LAMBDA acc, o : CheckOutput(context, acc, o),
                        [next |-> 1, fee |-> 0, ok |-> TRUE], proposal.outputs)
    IN  [fee |-> end.fee, ok |-> end.ok]

(* The outputs are acceptable and `fee` is what the sender contributes. *)
check_outputs(context, proposal) ==
    LET end == FoldLeft(LAMBDA acc, o : CheckOutput(context, acc, o),
                        [next |-> 1, fee |-> 0, ok |-> TRUE], proposal.outputs)
    IN  [fee |-> end.fee,
         ok  |-> /\ end.ok /\ \A i \in DOMAIN proposal.outputs : ~proposal.outputs[i].keypaths
                 /\ end.next > Len(context.original_psbt.outputs)]

AdditionalInputWeight(context, proposal) ==
    LET ours == ScriptsOf(context.original_psbt.inputs)
        weight(i) == IF Coin[i.outpoint].script \in ours THEN 0
                     ELSE expected_input_weight(i.outpoint)
    IN  SumOf(weight, proposal.inputs)

(* Bug: the contribution may pay for the receiver's outputs. *)
check_fees_Outputs(context, proposal, contributed_fee) ==
    /\ Fee(context.original_psbt) <= Fee(proposal)
    /\ contributed_fee <= Fee(proposal) - Fee(context.original_psbt)

check_fees(context, proposal, contributed_fee) ==
    LET original_fee == Fee(context.original_psbt)
        proposed_fee == Fee(proposal)
        original_fee_rate == RateOf(original_fee, TxWeight(context.original_psbt))
    IN  /\ original_fee <= proposed_fee
        /\ contributed_fee <= proposed_fee - original_fee
        /\ contributed_fee <= FeeAt(AdditionalInputWeight(context, proposal), original_fee_rate)
        /\ context.min_fee_rate > 0 =>
              RateOf(proposed_fee, TxWeight(proposal)) >= context.min_fee_rate

Acceptable(context, proposal) ==
    /\ basic_checks(context, proposal)
    /\ check_inputs(context, proposal)
    /\ check_outputs(context, proposal).ok
    /\ Fee(proposal) >= 0 /\ Fee(context.original_psbt) >= 0
    /\ check_fees(context, proposal, check_outputs(context, proposal).fee)

(* The indexes of our inputs in a proposal, in the order of the Original PSBT. *)
OwnInputs(original, proposal) ==
    LET step(acc, i) ==
            IF /\ Len(acc) < Len(original.inputs)
               /\ proposal.inputs[i].outpoint = original.inputs[Len(acc) + 1].outpoint
            THEN Append(acc, i) ELSE acc
    IN  FoldLeft(step, <<>>, [i \in DOMAIN proposal.inputs |-> i])

(* The same for our outputs, which are recognised while they are unchanged. *)
OwnOutputs(original, proposal) ==
    LET same(i, k) == /\ proposal.outputs[i].script = original.outputs[k].script
                      /\ proposal.outputs[i].value = original.outputs[k].value
        step(acc, i) == IF Len(acc) < Len(original.outputs) /\ same(i, Len(acc) + 1)
                        THEN Append(acc, i) ELSE acc
    IN  FoldLeft(step, <<>>, [i \in DOMAIN proposal.outputs |-> i])

IndexIn(s, e) == CHOOSE k \in DOMAIN s : s[k] = e

restore_original_utxos(original, proposal) ==
    LET own == OwnInputs(original, proposal)
        restored == {"utxo", "bip32_derivation"}
    IN  [i \in DOMAIN proposal.inputs |->
            IF i \notin ToSet(own) THEN proposal.inputs[i]
            ELSE [proposal.inputs[i] EXCEPT !.fields =
                    (@ \ restored) \union (original.inputs[IndexIn(own, i)].fields \intersect restored)]]

restore_original_outputs(original, proposal) ==
    LET own == OwnOutputs(original, proposal)
    IN  [i \in DOMAIN proposal.outputs |->
            IF i \notin ToSet(own) THEN proposal.outputs[i]
            ELSE [proposal.outputs[i] EXCEPT !.keypaths = original.outputs[IndexIn(own, i)].keypaths]]

(* What our wallet needs to sign comes back from the Original PSBT. *)
Restored(context, proposal) ==
    [proposal EXCEPT !.inputs = restore_original_utxos(context.original_psbt, proposal),
                     !.outputs = restore_original_outputs(context.original_psbt, proposal)]

(* What is sent of the Original PSBT. *)
clear_unneeded_fields(psbt) ==
    [inputs  |-> [i \in DOMAIN psbt.inputs |->
                    [psbt.inputs[i] EXCEPT !.fields = @ \ {"bip32_derivation"}]],
     outputs |-> [i \in DOMAIN psbt.outputs |-> [psbt.outputs[i] EXCEPT !.keypaths = FALSE]],
     header  |-> psbt.header]
=============================================================================
