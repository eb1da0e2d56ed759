--------------------------- MODULE ReceiverContract ---------------------------
(***************************************************************************)
(* What a BIP 77 receiver session promises the rest of the system, without *)
(* its log, handles, retries and crashes: it takes one Original PSBT, puts *)
(* one message in the sender's mailbox however often it posts it, and      *)
(* records one outcome that says what happened.                            *)
(***************************************************************************)
CONSTANTS Payloads, NoPayload, NoPsbt, Fallback

VARIABLES
    original,  \* the Original PSBT taken from the directory
    answers,   \* messages handed to the network for the sender
    outcome,   \* the outcome recorded, "PendingFallback" on the way to it, or "None"
    settled    \* per Original PSBT, the transaction that spends its inputs

contractVars == <<original, answers, outcome, settled>>

Init ==
    /\ original = NoPayload /\ answers = {}
    /\ outcome = "None" /\ settled = [o \in Payloads |-> NoPsbt]

Proposed == {m \in answers : m.kind = "PayjoinProposal"}

Retrieve(p) ==
    /\ outcome = "None" /\ original = NoPayload
    /\ original' = p
    /\ UNCHANGED <<answers, outcome, settled>>

(* The same message may be posted again, another one never. *)
Answer(m) ==
    /\ outcome = "None" /\ original # NoPayload
    /\ answers \subseteq {m} /\ answers' = {m}
    /\ UNCHANGED <<original, outcome, settled>>

(* No answer is posted, and none of the other outcomes recorded, after it. *)
GiveUp ==
    /\ outcome = "None" /\ original # NoPayload
    /\ outcome' = "PendingFallback"
    /\ UNCHANGED <<original, answers, settled>>

Justified(o) ==
    CASE o = "Success" -> \E m \in Proposed : m.psbt = settled[original]
      [] o = "FallbackBroadcasted" -> Proposed # {} /\ settled[original] = Fallback
      [] o = "PayjoinProposalSent" -> Proposed # {}
      [] o = "Aborted" -> TRUE

End(o) ==
    /\ outcome = "None" \/ (outcome = "PendingFallback" /\ o = "Aborted")
    /\ Justified(o)
    /\ outcome' = o
    /\ UNCHANGED <<original, answers, settled>>

(* The environment: an Original PSBT or a proposal that was sent is broadcast. *)
Settle ==
    /\ \A o \in Payloads :
          \/ settled'[o] = settled[o]
          \/ settled[o] = NoPsbt /\ settled'[o] \in {Fallback} \cup {m.psbt : m \in Proposed}
    /\ UNCHANGED <<original, answers, outcome>>

Outcomes == {"Success", "FallbackBroadcasted", "PayjoinProposalSent", "Aborted"}

Next ==
    \/ \E p \in Payloads : Retrieve(p)
    \/ \E m \in answers' : Answer(m)
    \/ GiveUp
    \/ \E o \in Outcomes : End(o)
    \/ Settle

Spec == Init /\ [][Next]_contractVars

=============================================================================
