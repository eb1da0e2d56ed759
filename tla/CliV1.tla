------------------------------- MODULE CliV1 -------------------------------
(***************************************************************************)
(* BIP 78 payments at the command line client: the HTTP server that        *)
(* `receive --bip78` runs (payjoin-cli/src/app/v1.rs over                  *)
(* payjoin/src/core/receive/v1/mod.rs) and the senders that post to it     *)
(* (send_payjoin of both apps over payjoin/src/core/send/v1.rs).  The      *)
(* server shares the database, and with it inputs_seen, with the BIP 77    *)
(* sessions of CliReceive.  It keeps nothing else: a request that is       *)
(* interrupted is gone.                                                    *)
(***************************************************************************)
EXTENDS CliReceive

CONSTANTS
    Exchanges,   \* BIP 78 requests, each with its sender
    MaxPayments  \* bound on sessions and exchanges together

ASSUME ExchangesAssumption == Ids \cap Exchanges = {}

VARIABLES
    exchange,   \* exchange[x]: where the handler of x is, and with which inputs
    payer,      \* payer[x]: how far the sender of x got; "Unpaid" without a payjoin
    passed_v1   \* history: exchanges that passed check_no_inputs_seen_before

v1Vars == <<exchange, payer, passed_v1>>
appVars == <<vars, v1Vars>>

NoRequest == [at |-> "None", inputs |-> {}, checked |-> {}]
Payments == Cardinality(Rows) + Cardinality({x \in Exchanges : payer[x] # "None"})

-----------------------------------------------------------------------------
(* The server *)

(* receive_payjoin of the v1 app. *)
start_http_server ==
    /\ Idle
    /\ command' = "receive_v1"
    /\ UNCHANGED <<storeVars, mailroomVars, task, expired, broadcast, sessionVars, v1Vars>>

(* The handler of x goes on, or answers with an error as JSON. *)
StepTo(x, step) ==
    exchange' = [exchange EXCEPT ![x].at = step,
                                 ![x].checked = IF step = "SomeInputsNew" THEN @ ELSE {}]
Handler(x, from, to) ==
    /\ exchange[x].at = from
    /\ \E step \in {to, "Error"} : StepTo(x, step)
    /\ UNCHANGED <<vars, payer, passed_v1>>

(* handle_payjoin_post and process_v1_proposal, one typestate after the       *)
(* other.  Requests are tasks of their own, so their steps interleave.        *)
from_request(x) == Handler(x, "Posted", "UncheckedOriginalPayload")
v1_check_broadcast_suitability(x) ==
    Handler(x, "UncheckedOriginalPayload", "MaybeInputsOwned")
v1_check_inputs_not_owned(x) == Handler(x, "MaybeInputsOwned", "MaybeInputsSeen")

v1_check_no_inputs_seen_before(x) ==
    /\ exchange[x].at \in {"MaybeInputsSeen", "SomeInputsNew"}
    /\ \/ StepTo(x, "Error") /\ UNCHANGED <<seen, passed_v1>>
       \/ \E o \in exchange[x].inputs \ exchange[x].checked, was_seen_before \in BOOLEAN :
             LET all == exchange[x].checked \cup {o} = exchange[x].inputs
             IN  /\ insert_input_seen_before(o, was_seen_before)
                 /\ passed_v1' = IF all /\ ~was_seen_before THEN passed_v1 \cup {x}
                                                            ELSE passed_v1
                 /\ exchange' = [exchange EXCEPT
                      ![x].at = IF was_seen_before THEN "Error"
                                ELSE IF all THEN "OutputsUnknown" ELSE "SomeInputsNew",
                      ![x].checked = IF was_seen_before \/ all THEN {} ELSE @ \cup {o}]
    /\ UNCHANGED <<row, completed, events, processVars, expired, broadcast,
                   sessionVars, payer>>

v1_identify_receiver_outputs(x) == Handler(x, "OutputsUnknown", "WantsOutputs")
v1_commit_outputs(x) == Handler(x, "WantsOutputs", "WantsInputs")
try_contributing_inputs(x) == Handler(x, "WantsInputs", "WantsFeeRange")
v1_apply_fee_range(x) == Handler(x, "WantsFeeRange", "ProvisionalProposal")
v1_finalize_proposal(x) == Handler(x, "ProvisionalProposal", "PayjoinProposal")

(* A request ends: what is left of it are the inputs it made known. *)
Ended(x) == [NoRequest EXCEPT !.inputs = IF x \in passed_v1 THEN exchange[x].inputs ELSE {}]

(* The answer of handle_web_request; the sender may be gone, or not get it. *)
respond(x) ==
    /\ exchange[x].at \in {"PayjoinProposal", "Error"}
    /\ exchange' = [exchange EXCEPT ![x] = Ended(x)]
    /\ IF payer[x] = "Waiting"
       THEN \E p \in {exchange[x].at, "Unpaid"} : payer' = [payer EXCEPT ![x] = p]
       ELSE UNCHANGED payer
    /\ UNCHANGED <<vars, passed_v1>>

ServerStep(x) ==
    \/ from_request(x) \/ v1_check_broadcast_suitability(x)
    \/ v1_check_inputs_not_owned(x) \/ v1_check_no_inputs_seen_before(x)
    \/ v1_identify_receiver_outputs(x) \/ v1_commit_outputs(x)
    \/ try_contributing_inputs(x) \/ v1_apply_fee_range(x) \/ v1_finalize_proposal(x)
    \/ respond(x)

-----------------------------------------------------------------------------
(* The senders *)

(* send_payjoin posts the Original PSBT to a server that runs.  Exchanges are *)
(* interchangeable: the first unused one is taken.                            *)
post_v1(x, O) ==
    /\ command = "receive_v1" /\ Payments < MaxPayments
    /\ payer[x] = "None" /\ x = CHOOSE y \in Exchanges : payer[y] = "None"
    /\ exchange' = [exchange EXCEPT ![x].at = "Posted", ![x].inputs = O]
    /\ payer' = [payer EXCEPT ![x] = "Waiting"]
    /\ UNCHANGED <<vars, passed_v1>>

(* The HTTP request fails while the server is still at work on it: the sender *)
(* prints its fallback transaction.                                           *)
request_fails(x) ==
    /\ payer[x] = "Waiting"
    /\ payer' = [payer EXCEPT ![x] = "Unpaid"]
    /\ UNCHANGED <<vars, exchange, passed_v1>>

(* V1Context::process_response: a proposal that passes is signed and          *)
(* broadcast, unless the wallet fails; one that does not pass, and an error   *)
(* reply, print the fallback.                                                 *)
process_response(x) ==
    /\ payer[x] \in {"PayjoinProposal", "Error"}
    /\ \E p \in {"Unpaid"} \cup (IF payer[x] = "Error" THEN {} ELSE {"Paid"}) :
          payer' = [payer EXCEPT ![x] = p]
    /\ UNCHANGED <<vars, exchange, passed_v1>>

-----------------------------------------------------------------------------
AppInit ==
    /\ Init
    /\ exchange = [x \in Exchanges |-> NoRequest]
    /\ payer = [x \in Exchanges |-> "None"]
    /\ passed_v1 = {}

(* The commands of the v2 app and the end of a process, with which the        *)
(* handlers end; their senders see the connection drop.                       *)
Commands ==
    /\ Next /\ UNCHANGED passed_v1
    /\ IF command = "receive_v1" /\ command' = "None"
       THEN /\ exchange' = [x \in Exchanges |-> Ended(x)]
            /\ payer' = [x \in Exchanges |->
                             IF payer[x] = "Waiting" THEN "Unpaid" ELSE payer[x]]
       ELSE UNCHANGED <<exchange, payer>>
    /\ Payments' <= MaxPayments

AppNext ==
    \/ Commands \/ start_http_server
    \/ \E x \in Exchanges :
          \/ ServerStep(x) \/ request_fails(x) \/ process_response(x)
          \/ \E O \in Originals : post_v1(x, O)

(* The user of a BIP 78 server stops it at some time. *)
AppSpec ==
    /\ AppInit /\ [][AppNext]_appVars
    /\ Fairness
    /\ WF_vars(command = "receive_v1" /\ ProcessStops)

-----------------------------------------------------------------------------
(* A sender cannot probe the receiver's coins with the same inputs twice: no  *)
(* two Original PSBTs with a common outpoint get past                         *)
(* check_no_inputs_seen_before, whether they come through BIP 77 sessions or  *)
(* BIP 78 requests, at the same time or one after the other, and however      *)
(* often the process is stopped and the sessions resumed in between.          *)
InputsProbedOnce ==
    LET inputs(p) == IF p \in Ids THEN original[p] ELSE exchange[p].inputs
    IN  \A p, q \in passed \cup passed_v1 : p # q => inputs(p) \cap inputs(q) = {}
=============================================================================
