------------------------------- MODULE Payjoin -------------------------------
(***************************************************************************)
(* One receiver, the senders its URI was shown to and the directory        *)
(* between them.  The sessions are their contracts (ReceiverContract and   *)
(* SenderContract, which ReceiveSession and SendSession implement); here   *)
(* are the requests they put on the network, what the directory's OHTTP    *)
(* gateway does with them, and the chain.                                  *)
(***************************************************************************)
EXTENDS KeyConfig

CONSTANTS
    Senders,        \* each is its Original PSBT, and its reply key and mailbox
    StableSenders,  \* those whose inputs are all segwit (txid_is_stable)
    Receiver,       \* the receiver's mailbox
    Proposals, NoPsbt, Fallback, NoMessage

ASSUME NamesAssumption ==
    /\ Receiver \notin Senders /\ NoMessage \notin Senders
    /\ NoPsbt \notin Proposals /\ Fallback \notin Proposals \cup {NoPsbt}

VARIABLES
    session_keys,  \* the OHTTP keys the receiver fetched, part of its URI
    box,           \* mailbox -> the message stored in it
    net,           \* posts on their way
    acked,         \* posts whose OK was received
    polls,         \* mailboxes with a GET on its way
    expired,       \* the deadline of the URI has passed
    original, answers, r_outcome,   \* the receiver's contract
    s_keys, s_outcome, s_given,     \* the senders' contracts
    settled        \* sender -> the transaction that spends its inputs

directoryVars == <<box, net, acked, polls>>
receiverVars == <<original, answers, r_outcome>>
senderVars == <<s_keys, s_outcome, s_given>>
vars == <<keyVars, session_keys, expired, directoryVars, receiverVars, senderVars, settled>>

R == INSTANCE ReceiverContract WITH
    Payloads <- Senders, NoPayload <- NoMessage, outcome <- r_outcome

S(s) == INSTANCE SenderContract WITH
    ReplyKeys <- Senders, NoKey <- NoMessage,
    keys <- s_keys[s], outcome <- s_outcome[s], given <- s_given[s]

Mailboxes == Senders \cup {Receiver}

Proposal(p) == [kind |-> "PayjoinProposal", psbt |-> p]
ErrorReply == [kind |-> "HasReplyableError", psbt |-> NoPsbt]

Post(to, body) == [to |-> to, body |-> body]

Undecided(s) == s_outcome[s].kind = "None"

-----------------------------------------------------------------------------
(* The directory *)

(* decapsulate needs the key the client encapsulated to.  Any other answer,   *)
(* a refused connection and a 4xx or 5xx outside the encapsulation included,  *)
(* is InvalidSize to the client, which keeps its state and tries again.       *)
handle_ohttp_gateway == server \in Keys /\ server = session_keys

(* The first writer wins and every writer is told OK. *)
post_v2_payload(m) ==
    box' = IF box[m.to] = NoMessage THEN [box EXCEPT ![m.to] = m.body] ELSE box

(* The request arrives; its answer may be lost. *)
post_mailbox(m) ==
    /\ m \in net /\ net' = net \ {m}
    /\ handle_ohttp_gateway
    /\ post_v2_payload(m)
    /\ acked' \in {acked, acked \cup {m}}
    /\ UNCHANGED <<polls, keyVars, session_keys, expired, receiverVars, senderVars, settled>>

LosePost(m) ==
    /\ m \in net /\ net' = net \ {m}
    /\ UNCHANGED <<box, acked, polls, keyVars, session_keys, expired,
                   receiverVars, senderVars, settled>>

(* The payload stored for x, given to the client that polls for it. *)
get_mailbox(x) ==
    /\ x \in polls /\ polls' = polls \ {x}
    /\ handle_ohttp_gateway
    /\ box[x] # NoMessage
    /\ UNCHANGED <<box, net, acked, keyVars, session_keys, expired, settled>>

(* 202 after the long poll, a failed request or a lost answer. *)
NothingYet(x) ==
    /\ x \in polls /\ polls' = polls \ {x}
    /\ UNCHANGED <<box, net, acked, keyVars, session_keys, expired,
                   receiverVars, senderVars, settled>>

(* The mailboxes are files: they outlive the process, its requests do not.    *)
Mailroom ==
    /\ init_ohttp_config \/ MailroomCrash
    /\ UNCHANGED <<session_keys, expired, directoryVars, receiverVars, senderVars, settled>>

-----------------------------------------------------------------------------
(* The receiver *)

(* fetch_ohttp_keys, and a session with the keys that are served now. *)
fetch_ohttp_keys ==
    /\ session_keys = "None" /\ server \in Keys
    /\ session_keys' = server
    /\ UNCHANGED <<keyVars, expired, directoryVars, receiverVars, senderVars, settled>>

(* A request is refused once the session has expired (create_*_request).      *)
SendPost(m) ==
    /\ ~expired /\ m \notin net \cup acked
    /\ net' = net \cup {m}
    /\ UNCHANGED <<box, acked, polls>>

SendPoll(x) ==
    /\ ~expired /\ x \notin polls
    /\ polls' = polls \cup {x}
    /\ UNCHANGED <<box, net, acked>>

receiver_poll ==
    /\ session_keys # "None" /\ original = NoMessage /\ r_outcome = "None"
    /\ SendPoll(Receiver)
    /\ UNCHANGED <<keyVars, session_keys, expired, receiverVars, senderVars, settled>>

receiver_retrieve ==
    /\ get_mailbox(Receiver)
    /\ R!Retrieve(box[Receiver])
    /\ UNCHANGED senderVars

(* The message goes to the mailbox of the reply key that came with the        *)
(* Original PSBT.                                                             *)
ReplyTo == original

receiver_post ==
    /\ \E m \in {Proposal(p) : p \in Proposals} \cup {ErrorReply} :
          R!Answer(m) /\ SendPost(Post(ReplyTo, m))
    /\ UNCHANGED <<keyVars, session_keys, expired, senderVars>>

Posted == \E m \in answers : Post(ReplyTo, m) \in acked

receiver_give_up ==
    /\ R!GiveUp
    /\ UNCHANGED <<keyVars, session_keys, expired, directoryVars, senderVars>>

(* Receiver<Monitor>: after the proposal was posted. *)
check_for_transaction ==
    /\ Posted
    /\ IF original \in StableSenders
       THEN R!End("Success") \/ R!End("FallbackBroadcasted")
       ELSE R!End("PayjoinProposalSent")
    /\ UNCHANGED <<keyVars, session_keys, expired, directoryVars, senderVars>>

(* A session cancelled before its payload was checked, closed after the       *)
(* fallback, or whose error reply was posted.                                 *)
receiver_close ==
    /\ answers = {} \/ r_outcome = "PendingFallback" \/ (Posted /\ R!Proposed = {})
    /\ R!End("Aborted")
    /\ UNCHANGED <<keyVars, session_keys, expired, directoryVars, senderVars>>

-----------------------------------------------------------------------------
(* A sender *)

Record(s, o, g) ==
    /\ s_outcome' = [s_outcome EXCEPT ![s] = o]
    /\ s_given' = [s_given EXCEPT ![s] = g]
    /\ UNCHANGED s_keys

Asks(s) ==
    /\ session_keys # "None"
    /\ s_keys' = [s_keys EXCEPT ![s] = {s}]
    /\ UNCHANGED <<s_outcome, s_given>>
    /\ S(s)!Request(s)
    /\ UNCHANGED <<keyVars, session_keys, expired, receiverVars, settled>>

Polling(s) == Post(Receiver, s) \in acked

(* Variant: the sender goes on to poll without waiting for the OK. *)
sender_post_once(s) ==
    /\ ~Polling(s) /\ ~expired
    /\ net' = net \cup {Post(Receiver, s)} /\ acked' = acked \cup {Post(Receiver, s)}
    /\ Asks(s)
    /\ UNCHANGED <<box, polls>>

sender_post(s) ==
    /\ SendPost(Post(Receiver, s))
    /\ Asks(s)

sender_poll(s) ==
    /\ Polling(s)
    /\ SendPoll(s)
    /\ Asks(s)

(* A proposal is accepted or refused, an error reply ends the session. *)
sender_answered(s) ==
    /\ get_mailbox(s)
    /\ \/ /\ box[s].kind = "PayjoinProposal"
          /\ \E g \in {{}, {box[s].psbt}} : Record(s, S(s)!Success(box[s].psbt), g)
          /\ S(s)!Accept(box[s].psbt)
       \/ Record(s, S(s)!Aborted, s_given[s]) /\ S(s)!Abort
    /\ UNCHANGED receiverVars

(* The session is resumed and its proposal returned again. *)
sender_resume(s) ==
    /\ Record(s, s_outcome[s], {s_outcome[s].psbt}) /\ s_given' # s_given
    /\ S(s)!Give
    /\ UNCHANGED <<keyVars, session_keys, expired, directoryVars, receiverVars, settled>>

sender_give_up(s) ==
    /\ \/ Record(s, S(s)!PendingFallback, s_given[s]) /\ S(s)!GiveUp
       \/ s_outcome[s] = S(s)!PendingFallback
            /\ Record(s, S(s)!Aborted, s_given[s]) /\ S(s)!Abort
    /\ UNCHANGED <<keyVars, session_keys, expired, directoryVars, receiverVars, settled>>

-----------------------------------------------------------------------------
(* The chain *)

Broadcast(s, tx) ==
    /\ settled[s] = NoPsbt
    /\ settled' = [settled EXCEPT ![s] = tx]
    /\ UNCHANGED <<keyVars, session_keys, expired, directoryVars, receiverVars, senderVars>>

broadcast_payjoin(s) == \E p \in s_given[s] : Broadcast(s, p)

GaveUp(o) == o \in {"PendingFallback", "Aborted"}

(* Variant: the sender's fallback is broadcast before the session is          *)
(* cancelled.                                                                 *)
broadcast_fallback_early(s) == s_keys[s] # {} /\ Broadcast(s, Fallback)

(* By its sender or by the receiver that has it, once that session is         *)
(* cancelled or failed, or after the deadline by hand.                        *)
broadcast_fallback(s) ==
    /\ \/ GaveUp(s_outcome[s].kind)
       \/ original = s /\ GaveUp(r_outcome)
       \/ expired /\ Undecided(s)
       \/ expired /\ original = s /\ r_outcome = "None"
    /\ Broadcast(s, Fallback)

Expire ==
    /\ session_keys # "None" /\ ~expired /\ expired' = TRUE
    /\ UNCHANGED <<keyVars, session_keys, directoryVars, receiverVars, senderVars, settled>>

-----------------------------------------------------------------------------
Init ==
    /\ KeyInit
    /\ session_keys = "None" /\ expired = FALSE
    /\ box = [x \in Mailboxes |-> NoMessage] /\ net = {} /\ acked = {} /\ polls = {}
    /\ original = NoMessage /\ answers = {} /\ r_outcome = "None"
    /\ s_keys = [s \in Senders |-> {}] /\ s_given = [s \in Senders |-> {}]
    /\ s_outcome = [s \in Senders |-> [kind |-> "None", psbt |-> NoPsbt]]
    /\ settled = [s \in Senders |-> NoPsbt]

ReceiverStep ==
    \/ fetch_ohttp_keys \/ receiver_poll \/ receiver_retrieve \/ receiver_post
    \/ receiver_give_up \/ check_for_transaction \/ receiver_close

SenderStep(s) ==
    \/ sender_post(s) \/ sender_poll(s) \/ sender_answered(s) \/ sender_resume(s)
    \/ sender_give_up(s) \/ broadcast_payjoin(s) \/ broadcast_fallback(s)

Next ==
    \/ Mailroom \/ Expire
    \/ \E m \in net : post_mailbox(m) \/ LosePost(m)
    \/ \E x \in polls : NothingYet(x)
    \/ ReceiverStep
    \/ \E s \in Senders : SenderStep(s)

Spec == Init /\ [][Next]_vars

(* The operator restarts the process; both sides keep retrying, and a request *)
(* that is repeated for ever is answered at last; a proposal that was given   *)
(* is signed and broadcast, and the receiver watches the chain.               *)
Fairness ==
    /\ WF_vars(Mailroom /\ crashes' = crashes)
    /\ WF_vars(fetch_ohttp_keys) /\ WF_vars(receiver_poll) /\ WF_vars(receiver_post)
    /\ SF_vars(receiver_retrieve) /\ WF_vars(check_for_transaction)
    /\ \A s \in Senders :
          /\ WF_vars(sender_post(s)) /\ WF_vars(sender_poll(s))
          /\ SF_vars(sender_answered(s)) /\ WF_vars(sender_resume(s))
          /\ WF_vars(broadcast_payjoin(s))
          /\ SF_vars(\E m \in net : m.to = Receiver /\ m.body = s
                                    /\ post_mailbox(m) /\ acked' # acked)
          /\ SF_vars(\E m \in net : m.to = s /\ post_mailbox(m) /\ acked' # acked)

FairSpec == Spec /\ Fairness

-----------------------------------------------------------------------------
(* Properties *)

(* The two sides never contradict each other: a sender accepts only the       *)
(* proposal the receiver made of its own Original PSBT; a payjoin is on chain *)
(* or recorded by the receiver (Closed(Success)) only when its sender         *)
(* recorded the same one; and before the deadline the receiver takes the      *)
(* payment for a fallback only when the sender gave the payjoin up.           *)
OutcomesAgree ==
    /\ \A s \in Senders :
          /\ s_outcome[s].kind = "Success" =>
                original = s /\ Proposal(s_outcome[s].psbt) \in answers
          /\ settled[s] \in Proposals => s_outcome[s] = S(s)!Success(settled[s])
    /\ r_outcome = "Success" => s_outcome[original] = S(original)!Success(settled[original])
    /\ r_outcome = "FallbackBroadcasted" /\ ~expired => GaveUp(s_outcome[original].kind)

Abandoned ==
    \/ expired \/ GaveUp(r_outcome)
    \/ \E s \in Senders : GaveUp(s_outcome[s].kind)

Completed ==
    \E s \in Senders :
        /\ settled[s] \in Proposals
        /\ r_outcome = IF s \in StableSenders THEN "Success" ELSE "PayjoinProposalSent"

(* Over a network that loses requests and answers, and a directory that       *)
(* crashes and restarts, a payjoin nobody abandons is completed: broadcast by *)
(* the sender and recorded by the receiver; as long as the restarted          *)
(* directory still has the keys of the session.                               *)
PayjoinCompletes ==
    <>[]handle_ohttp_gateway => <>(Abandoned \/ Completed)

(* key_config.rs:18: "The ServerKeyConfig.ikm is persisted to the configured  *)
(* path, and the server is used to run the directory server": a directory     *)
(* that restarts serves the sessions begun before.                            *)
KeysSurviveRestart ==
    session_keys # "None" /\ server \in Keys => server = session_keys
=============================================================================
