------------------------------ MODULE Proposal -------------------------------
(***************************************************************************)
(* The money of a payjoin, from the sender's builder through the receiver's *)
(* construction of the proposal (payjoin/src/core/receive/common/mod.rs,   *)
(* payjoin/src/core/receive/mod.rs) to the sender's verdict. The sessions   *)
(* of ReceiveSession and SendSession carry these values without looking    *)
(* at them; here they are followed, without crashes or replay.             *)
(*                                                                         *)
(* A call that returns an error and leaves the session where it was takes  *)
(* no step. Amounts panic when they would become negative, weights wrap as *)
(* in a release build.                                                     *)
(***************************************************************************)
EXTENDS ProposalCheck

CONSTANTS
    Originals,        \* Original PSBTs of the sender's wallet
    OwnScripts,       \* scripts the receiver's wallet recognises
    ReceiverCoins,    \* outpoints the receiver can contribute
    Replacements,     \* [outputs, drain]: arguments of replace_receiver_outputs
    Rates,            \* fee rates either side may ask for
    BroadcastMin,     \* FeeRate::BROADCAST_MIN
    MaxFees,          \* contributions a sender may offer
    OtherProposals,   \* proposals of other receivers
    MaxContributions, \* how often contribute_inputs is called
    None

ASSUME ProposalAssumption ==
    /\ Originals \subseteq PSBTs /\ OtherProposals \subseteq PSBTs
    /\ \A psbt \in Originals : psbt.inputs # <<>>
    /\ Payee \in OwnScripts /\ OwnScripts \subseteq DOMAIN OutputWeight
    /\ Replacements \subseteq [outputs : Seq(Outputs), drain : DOMAIN OutputWeight]
    /\ ReceiverCoins \subseteq DOMAIN Coin
    /\ Rates \subseteq Nat /\ MaxFees \subseteq Nat
    /\ {MixedWeight, BroadcastMin, MaxContributions} \subseteq Nat

VARIABLES
    context,          \* the sender's PsbtContext
    params,           \* the Params the receiver parsed and sanitised
    stage,            \* the receiver's typestate, then the sender's verdict
    proposal,         \* payjoin_psbt
    change_vout,      \* the receiver output that takes excess and pays fees
    receiver_inputs,  \* the outpoints contributed
    contributions,    \* calls of contribute_inputs so far
    fee_range,        \* the rate applied and the limit given to apply_fee_range
    committed         \* total of the outputs committed

vars == <<context, params, stage, proposal, change_vout, receiver_inputs,
          contributions, fee_range, committed>>

Original == clear_unneeded_fields(context.original_psbt)

Owned == {i \in DOMAIN Original.outputs : Original.outputs[i].script \in OwnScripts}

Init ==
    /\ context = None /\ params = None /\ stage = "Start" /\ proposal = None
    /\ change_vout = 0 /\ receiver_inputs = {} /\ contributions = 0
    /\ fee_range = [min |-> 0, max |-> 0] /\ committed = 0

-----------------------------------------------------------------------------
(* The sender builds its context *)

Contributions(psbt, rate) ==
    {{NoContribution}, RecommendedContribution(psbt, rate)} \union
    {determine_fee_contribution(psbt.outputs, fee, index, clamp) :
        fee \in MaxFees, index \in 0..(Len(psbt.outputs) + 1), clamp \in BOOLEAN}

BuildContext(psbt) ==
    /\ stage = "Start"
    /\ \E enabled \in BOOLEAN, rate \in Rates, value \in {{}, {psbt.outputs[1].value}} :
       \E c \in Contributions(psbt, rate) :
       \E built \in build(psbt, value, enabled, c, rate) : context' = built
    /\ stage' = "Original"
    /\ UNCHANGED <<params, proposal, change_vout, receiver_inputs, contributions, fee_range, committed>>

-----------------------------------------------------------------------------
(* OriginalPayload::identify_receiver_outputs, WantsOutputs::new *)

(* The parameters the sender adds to the URL; a zero rate is left out. *)
serialize_url ==
    [output_substitution |-> context.output_substitution,
     fee_contribution    |-> context.fee_contribution,
     min_fee_rate        |-> {context.min_fee_rate} \ {0}]

(* A rate travels as an f32 in sat/vB and what is read is rounded up, so that
   it can gain one unit (below 2^24 it cannot lose one). *)
from_query_pairs(query) ==
    LET rates == IF query.min_fee_rate = {} THEN {BroadcastMin}
                 ELSE {rate + gain : rate \in query.min_fee_rate, gain \in 0..1}
    IN  {[query EXCEPT !.min_fee_rate = rate] : rate \in rates}

(* OriginalContext::new: a fee output that is out of bounds, or the receiver's
   own, is ignored. *)
Sanitized(contribution) ==
    IF contribution.vout \in DOMAIN Original.outputs \ Owned THEN contribution
    ELSE NoContribution

identify_receiver_outputs ==
    /\ stage = "Original"
    /\ Owned # {}
    /\ \E parsed \in from_query_pairs(serialize_url) :
          params' = [parsed EXCEPT !.fee_contribution = Sanitized(@)]
    /\ proposal' = Original
    /\ change_vout' = Min(Owned)
    /\ stage' = "WantsOutputs"
    /\ UNCHANGED <<context, receiver_inputs, contributions, fee_range, committed>>

-----------------------------------------------------------------------------
(* WantsOutputs *)

(* Which replacement takes the place of which owned output: one with the same
   script if there is one left, else any. *)
Assignments(outputs) ==
    {f \in Injection(Owned, DOMAIN outputs) : \A i \in Owned :
        LET left == DOMAIN outputs \ {f[j] : j \in {j \in Owned : j < i}}
            same == {k \in left : outputs[k].script = Original.outputs[i].script}
        IN  same # {} => f[i] \in same}

(* Without output substitution a receiver output keeps its script and at
   least its value. *)
Substitutable(outputs, f) ==
    params.output_substitution \/ \A i \in Owned :
        /\ outputs[f[i]].script = Original.outputs[i].script
        /\ outputs[f[i]].value >= Original.outputs[i].value

(* interleave_shuffle: where the elements of `original` and `new` end up. *)
Shuffles(original, new) ==
    {p \in Bijection(1..(original + new), 1..(original + new)) :
        \A i, j \in 1..original : i < j => p[i] < p[j]}

replace_receiver_outputs(outputs, drain) ==
    /\ stage = "WantsOutputs"
    /\ \E f \in Assignments(outputs) :
        LET kept  == [i \in DOMAIN Original.outputs |->
                        IF i \in Owned THEN outputs[f[i]] ELSE Original.outputs[i]]
            extra == SetToSeq(DOMAIN outputs \ {f[i] : i \in Owned})
            all   == kept \o [k \in DOMAIN extra |-> outputs[extra[k]]]
        IN  /\ Substitutable(outputs, f)
            /\ \E k \in DOMAIN all : all[k].script = drain
            /\ \E p \in Shuffles(Len(kept), Len(extra)) :
                LET shuffled == [k \in DOMAIN all |-> all[IndexIn(p, k)]]
                IN  /\ proposal' = [Original EXCEPT !.outputs = shuffled]
                    /\ change_vout' = Position(shuffled, drain)
    /\ UNCHANGED <<context, params, stage, receiver_inputs, contributions, fee_range, committed>>

(* change_vout is an index of the proposal, and is used in the Original PSBT:
   after an earlier replacement it may be another output's, or nobody's. *)
substitute_receiver_script(script) ==
    /\ stage = "WantsOutputs"
    /\ \/ /\ change_vout \in DOMAIN Original.outputs
          /\ replace_receiver_outputs(
                <<[Original.outputs[change_vout] EXCEPT !.script = script]>>, script)
       \/ /\ change_vout \notin DOMAIN Original.outputs
          /\ stage' = "OutOfBounds"
          /\ UNCHANGED <<context, params, proposal, change_vout, receiver_inputs, contributions, fee_range, committed>>

commit_outputs ==
    /\ stage = "WantsOutputs"
    /\ stage' = "WantsInputs"
    /\ committed' = OutputAmount(proposal.outputs)
    /\ UNCHANGED <<context, params, proposal, change_vout, receiver_inputs, contributions, fee_range>>

-----------------------------------------------------------------------------
(* WantsInputs *)

receiver_min_input_amount ==
    Max({0, OutputAmount(proposal.outputs) - OutputAmount(Original.outputs)})

(* Inputs go in one after another, each anywhere among those that were there. *)
Inserted(new, index) ==
    FoldLeft(LAMBDA s, k : InsertAt(s, index[k], new[k]),
             proposal.inputs, [k \in DOMAIN new |-> k])

(* Bug: it keeps the sequence number it came with. *)
ContributedInput_Mixed(coin, sequence) ==
    [outpoint |-> coin, sequence |-> sequence, fields |-> {"utxo"}]

(* A contributed input takes over the sequence number of the Original PSBT. *)
ContributedInput(coin, sequence) ==
    [outpoint |-> coin, sequence |-> Original.inputs[1].sequence, fields |-> {"utxo"}]

(* What a contribution leaves for the change output, if it covers the outputs. *)
ChangeAmount(amount) ==
    IF amount >= receiver_min_input_amount THEN {amount - receiver_min_input_amount} ELSE {}

contribute_inputs(coins, sequence) ==
    /\ stage = "WantsInputs" /\ contributions < MaxContributions
    /\ ToSet(coins) \intersect {proposal.inputs[i].outpoint : i \in DOMAIN proposal.inputs} = {}
    /\ \E index \in [DOMAIN coins -> 1..(Len(proposal.inputs) + 1)],
          change \in ChangeAmount(SumOf(LAMBDA c : Coin[c].value, coins)) :
            proposal' = [proposal EXCEPT
                !.inputs = Inserted([k \in DOMAIN coins |-> ContributedInput(coins[k], sequence)], index),
                !.outputs[change_vout].value = @ + change]
    /\ receiver_inputs' = receiver_inputs \union ToSet(coins)
    /\ contributions' = contributions + 1
    /\ UNCHANGED <<context, params, stage, change_vout, fee_range, committed>>

commit_inputs ==
    /\ stage = "WantsInputs"
    /\ stage' = "WantsFeeRange"
    /\ UNCHANGED <<context, params, proposal, change_vout, receiver_inputs, contributions, fee_range, committed>>

-----------------------------------------------------------------------------
(* WantsFeeRange *)

additional_input_weight == SumFunction([c \in receiver_inputs |-> expected_input_weight(c)])

additional_output_weight ==
    (OutputsWeight(proposal.outputs) - OutputsWeight(Original.outputs)) % Word

(* Where the fee output of the Original PSBT is in the proposal. *)
SenderFeeVout == Position(proposal.outputs, Original.outputs[params.fee_contribution.vout].script)

SenderAdditionalFee(fee) ==
    IF fee >= 1 /\ params.fee_contribution.vout # 0
    THEN Min({params.fee_contribution.max_amount, fee}) ELSE 0

(* Bug: the limit is not applied. *)
MaxFee_Unlimited(rate) == 1000 + rate

MaxFee(rate) == FeeAt((additional_input_weight + additional_output_weight) % Word, rate)

apply_fee_range(min_rate, max_rate) ==
    LET rate         == Max({min_rate, params.min_fee_rate})
        fee          == FeeAt(additional_input_weight, rate)
        sender_fee   == SenderAdditionalFee(fee)
        receiver_fee == fee - sender_fee + FeeAt(additional_output_weight, rate)
        paid == IF sender_fee = 0 THEN proposal.outputs
                ELSE [proposal.outputs EXCEPT ![SenderFeeVout].value = @ - sender_fee]
        final == [paid EXCEPT ![change_vout].value = @ - receiver_fee]
    IN  /\ stage = "WantsFeeRange"
        /\ fee_range' = [min |-> rate, max |-> max_rate]
        /\ \/ /\ sender_fee > 0 /\ paid[SenderFeeVout].value < 0
              /\ stage' = "SenderUnderflow"
              /\ UNCHANGED proposal
           \/ /\ \A i \in DOMAIN paid : paid[i].value >= 0
              /\ receiver_fee > MaxFee(max_rate)
              /\ stage' = "FeeTooHigh"
              /\ UNCHANGED proposal
           \/ /\ \A i \in DOMAIN paid : paid[i].value >= 0
              /\ receiver_fee <= MaxFee(max_rate)
              /\ final[change_vout].value < 0
              /\ stage' = "DrainUnderflow"
              /\ UNCHANGED proposal
           \/ /\ \A i \in DOMAIN final : final[i].value >= 0
              /\ receiver_fee <= MaxFee(max_rate)
              /\ stage' = "ProvisionalProposal"
              /\ proposal' = [proposal EXCEPT !.outputs = final]
        /\ UNCHANGED <<context, params, change_vout, receiver_inputs, contributions, committed>>

-----------------------------------------------------------------------------
(* PsbtContext::finalize_proposal *)

psbt_to_sign ==
    LET own == ToSet(OwnInputs(Original, proposal))
        cleared(input) == [input EXCEPT !.fields = @ \ {"final", "partial_sigs"}]
    IN  [proposal EXCEPT !.inputs = [i \in DOMAIN @ |-> IF i \in own THEN cleared(@[i]) ELSE @[i]]]

prepare_psbt(psbt) ==
    LET cleared(input) == [input EXCEPT !.fields = @ \intersect {"utxo", "final"}]
        plain(output) == [output EXCEPT !.keypaths = FALSE]
    IN  [psbt EXCEPT !.inputs = [i \in DOMAIN @ |-> cleared(@[i])],
                     !.outputs = [i \in DOMAIN @ |-> plain(@[i])]]

(* The wallet signs the receiver's inputs. *)
Signed(psbt) ==
    LET signed(input) == [input EXCEPT !.fields = @ \union {"final", "partial_sigs"}]
    IN  [psbt EXCEPT !.inputs = [i \in DOMAIN @ |->
            IF @[i].outpoint \in receiver_inputs THEN signed(@[i]) ELSE @[i]]]

finalize_proposal ==
    /\ stage = "ProvisionalProposal"
    /\ proposal' = prepare_psbt(Signed(psbt_to_sign))
    /\ stage' = "PayjoinProposal"
    /\ UNCHANGED <<context, params, change_vout, receiver_inputs, contributions, fee_range, committed>>

(* Some other receiver answers. *)
Answer(psbt) ==
    /\ stage = "Original"
    /\ proposal' = psbt
    /\ stage' = "OtherProposal"
    /\ UNCHANGED <<context, params, change_vout, receiver_inputs, contributions, fee_range, committed>>

(* The sender's verdict; a refused proposal is kept to look at. *)
process_proposal ==
    /\ stage \in {"PayjoinProposal", "OtherProposal"}
    /\ IF Acceptable(context, proposal)
       THEN stage' = "Accepted" /\ proposal' = Restored(context, proposal)
       ELSE stage' = "Refused" /\ UNCHANGED proposal
    /\ UNCHANGED <<context, params, change_vout, receiver_inputs, contributions, fee_range, committed>>

CoinLists == {s \in TupleOf(ReceiverCoins, 1) \union TupleOf(ReceiverCoins, 2) : IsInjective(s)}

Next ==
    \/ \E psbt \in Originals : BuildContext(psbt)
    \/ identify_receiver_outputs
    \/ \E r \in Replacements : replace_receiver_outputs(r.outputs, r.drain)
    \/ \E script \in OwnScripts : substitute_receiver_script(script)
    \/ commit_outputs
    \/ \E coins \in CoinLists, sequence \in Signals : contribute_inputs(coins, sequence)
    \/ commit_inputs
    \/ \E min_rate, max_rate \in {BroadcastMin} \union Rates : apply_fee_range(min_rate, max_rate)
    \/ finalize_proposal
    \/ \E psbt \in OtherProposals : Answer(psbt)
    \/ process_proposal

Spec == Init /\ [][Next]_vars

-----------------------------------------------------------------------------
SentOutputs == context.original_psbt.outputs

SentInputs == context.original_psbt.inputs

DistinctScripts ==
    \A i, j \in DOMAIN SentOutputs : SentOutputs[i].script = SentOutputs[j].script => i = j

(* What a receiver application does with replace_receiver_outputs: no output it
   puts in pays a script of the sender's, or all of them pay its own. *)
NoSenderScript ==
    \A psbt \in Originals : \A i \in DOMAIN psbt.outputs :
        psbt.outputs[i].script \notin OwnScripts =>
            \A r \in Replacements : \A k \in DOMAIN r.outputs :
                r.outputs[k].script # psbt.outputs[i].script

OwnReplacements ==
    \A r \in Replacements : /\ r.drain \in OwnScripts
                            /\ \A k \in DOMAIN r.outputs : r.outputs[k].script \in OwnScripts

(* How the originals can reappear in a longer sequence, in order. *)
Embeddings(original, proposed) ==
    {f \in Injection(DOMAIN original, DOMAIN proposed) :
        \A i, j \in DOMAIN original : i < j => f[i] < f[j]}

(***************************************************************************)
(* What the sender signs keeps its outputs. Whatever the proposal, if      *)
(* process_proposal accepts it, every output of the Original PSBT that is  *)
(* not the payee's is still there, in order, and pays no less, except the  *)
(* fee output, which pays at most the offered contribution less; and       *)
(* without output substitution the payee is paid at its script in full.    *)
(***************************************************************************)
SenderOutputsKept ==
    stage = "Accepted" =>
        \E f \in Embeddings(SentOutputs, proposal.outputs) : \A i \in DOMAIN SentOutputs :
            LET offered == IF i = context.fee_contribution.vout
                           THEN context.fee_contribution.max_amount ELSE 0
            IN  SentOutputs[i].script # Payee \/ ~context.output_substitution =>
                    /\ proposal.outputs[f[i]].script = SentOutputs[i].script
                    /\ proposal.outputs[f[i]].value >= SentOutputs[i].value - offered

(***************************************************************************)
(* What the sender signs keeps its inputs: all are there, in order, with   *)
(* their sequence numbers, unsigned and with the UTXO the wallet needs     *)
(* (restore_original_utxos); every other input is signed by someone else   *)
(* already and does not mix sequence numbers (check_inputs).               *)
(***************************************************************************)
SenderInputsKept ==
    stage = "Accepted" =>
        \E f \in Embeddings(SentInputs, proposal.inputs) :
            /\ \A i \in DOMAIN SentInputs :
                  /\ proposal.inputs[f[i]].outpoint = SentInputs[i].outpoint
                  /\ proposal.inputs[f[i]].sequence = SentInputs[i].sequence
                  /\ proposal.inputs[f[i]].fields = SentInputs[i].fields \ {"final", "partial_sigs"}
            /\ \A k \in DOMAIN proposal.inputs \ {f[i] : i \in DOMAIN SentInputs} :
                  /\ "final" \in proposal.inputs[k].fields
                  /\ proposal.inputs[k].sequence = SentInputs[1].sequence

SenderTotal(outputs) ==
    LET ours == {SentOutputs[i].script : i \in DOMAIN SentOutputs} \ {Payee}
    IN  SumOf(LAMBDA o : IF o.script \in ours THEN o.value ELSE 0, outputs)

(***************************************************************************)
(* What the sender gives up goes to fees, for inputs of the receiver, at   *)
(* no more than the fee rate of the Original PSBT (check_fees): it cannot  *)
(* pay for outputs and the receiver cannot pocket it.                      *)
(***************************************************************************)
ContributionPaysInputs ==
    stage = "Accepted" =>
        LET given  == SenderTotal(SentOutputs) - SenderTotal(proposal.outputs)
            theirs == {k \in DOMAIN proposal.inputs :
                          \A i \in DOMAIN SentInputs : proposal.inputs[k].outpoint # SentInputs[i].outpoint}
            weight == SumFunction([k \in theirs |-> Coin[proposal.inputs[k].outpoint].weight])
        IN  /\ given <= Fee(proposal) - Fee(context.original_psbt)
            /\ given * TxWeight(context.original_psbt) <
                  weight * Fee(context.original_psbt) + TxWeight(context.original_psbt)

(***************************************************************************)
(* The sender's own offer never underflows its output: the receiver takes  *)
(* the contribution from an output that holds that much, because the       *)
(* builder refuses or clamps an offer the output does not cover            *)
(* (check_fee_output_amount against calculate_psbt_with_fee_range).        *)
(***************************************************************************)
OfferCovered == stage = "SenderUnderflow" => ~DistinctScripts

(***************************************************************************)
(* The receiver stayed within the sender's terms: it recognised only the   *)
(* payee's output, funded what it added, asked for no higher fee rate than *)
(* the Original PSBT pays, and touched the payee's output only if it was   *)
(* allowed to.                                                             *)
(***************************************************************************)
WithinTerms ==
    /\ DistinctScripts
    /\ Cardinality(Owned) = 1
    /\ contributions = 1 \/ committed <= OutputAmount(SentOutputs)
    /\ contributions <= 1
    /\ fee_range.min <= RateOf(Fee(context.original_psbt), TxWeight(context.original_psbt))
    /\ \/ context.output_substitution
       \/ /\ Len(proposal.outputs) = Len(SentOutputs)
          /\ \A i \in Owned : proposal.outputs[i].value >= SentOutputs[i].value

(***************************************************************************)
(* The two halves fit: a proposal this receiver builds within the terms of *)
(* the sender is one this sender accepts (WantsOutputs to finalize_proposal *)
(* against process_proposal).                                              *)
(***************************************************************************)
TermsAccepted == stage = "Refused" /\ params # None => ~WithinTerms

(***************************************************************************)
(* The receiver pays at most max_effective_fee_rate for what it added, if  *)
(* it contributed in one call and replaced its outputs by no less: what it *)
(* put in, and was to be paid, less what its outputs hold in the end, is   *)
(* at most the fee of the added weight (calculate_psbt_with_fee_range).    *)
(***************************************************************************)
ReceiverFeeBounded ==
    /\ stage \in {"ProvisionalProposal", "PayjoinProposal"}
    /\ contributions <= 1
    /\ committed >= OutputAmount(SentOutputs)
    /\ contributions = 1 \/ committed = OutputAmount(SentOutputs)
    => LET owned(outputs) == SumOf(LAMBDA o : IF o.script \in OwnScripts THEN o.value ELSE 0, outputs)
           added == SumFunction([c \in receiver_inputs |-> Coin[c].weight])
                    + OutputsWeight(proposal.outputs) - OutputsWeight(SentOutputs)
           put   == SumFunction([c \in receiver_inputs |-> Coin[c].value])
       IN  (put + owned(SentOutputs) - owned(proposal.outputs)) * Scale
              < Max({0, added}) * fee_range.max + Scale
=============================================================================
