--------------------------- MODULE Payjoin_proofs ---------------------------
(***************************************************************************)
(* A theorem about the whole system, for any number of senders and         *)
(* proposals and any loss, delay and repetition of requests: the two sides *)
(* never contradict each other (OutcomesAgree).                            *)
(*                                                                         *)
(* OutcomesAgree is about what is recorded at the two ends; between them   *)
(* are the posts and the mailboxes, so the invariant follows a message on  *)
(* its way (Delivered), a proposal to the wallet and the chain (Signed),   *)
(* and says who may have broadcast a fallback (FallbackExcused).           *)
(***************************************************************************)
EXTENDS Payjoin, TLAPS

Messages == {Proposal(p) : p \in Proposals} \cup {ErrorReply}
Outcomes == [kind : {"None", "PendingFallback", "Aborted", "Success"},
             psbt : Proposals \cup {NoPsbt}]

(* Every variable the argument is about has its type. *)
TypeInv ==
    /\ original \in Senders \cup {NoMessage} /\ answers \subseteq Messages
    /\ original = NoMessage => answers = {}
    /\ s_outcome \in [Senders -> Outcomes] /\ s_given \in [Senders -> SUBSET Proposals]
    /\ settled \in [Senders -> Proposals \cup {Fallback, NoPsbt}]
    /\ box = [x \in Mailboxes |-> box[x]]

(* What may be sent to a mailbox: an Original PSBT to the receiver's, and the *)
(* receiver's one answer to the mailbox of the Original PSBT it took.         *)
Addressed(x, b) == IF x = Receiver THEN b \in Senders ELSE x = original /\ b \in answers

(* The posts on their way and the mailboxes hold nothing else. *)
Delivered ==
    /\ \A m \in net : m.to \in Mailboxes /\ Addressed(m.to, m.body)
    /\ \A x \in Mailboxes : box[x] # NoMessage => Addressed(x, box[x])

(* A sender signs and broadcasts only the proposal it recorded, which is the  *)
(* receiver's answer to it.                                                   *)
Signed(s) ==
    /\ s_outcome[s].kind = "Success" => original = s /\ Proposal(s_outcome[s].psbt) \in answers
    /\ \A p \in s_given[s] : s_outcome[s] = S(s)!Success(p)
    /\ settled[s] \in Proposals => s_outcome[s] = S(s)!Success(settled[s])

(* Before the deadline a fallback is broadcast only by a side that gave up. *)
FallbackExcused(s) ==
    settled[s] = Fallback /\ ~expired =>
        GaveUp(s_outcome[s].kind) \/ (original = s /\ GaveUp(r_outcome))

(* What the receiver recorded of the payment. *)
Recorded ==
    /\ r_outcome = "Success" => original \in Senders /\ settled[original] \in Proposals
    /\ r_outcome = "FallbackBroadcasted" =>
           /\ original \in Senders
           /\ expired \/ GaveUp(s_outcome[original].kind)

(* The inductive invariant. *)
IInv ==
    /\ TypeInv
    /\ Delivered
    /\ \A s \in Senders : Signed(s) /\ FallbackExcused(s)
    /\ Recorded

-----------------------------------------------------------------------------
(* It says what the two sides agree on. *)
LEMMA Agree == IInv => OutcomesAgree
<1> SUFFICES ASSUME IInv PROVE OutcomesAgree
  OBVIOUS
<1>1. \A s \in Senders :
          /\ s_outcome[s].kind = "Success" =>
                original = s /\ Proposal(s_outcome[s].psbt) \in answers
          /\ settled[s] \in Proposals => s_outcome[s] = S(s)!Success(settled[s])
  BY DEF IInv, Signed
<1>2. r_outcome = "Success" => s_outcome[original] = S(original)!Success(settled[original])
  BY <1>1 DEF IInv, Recorded
<1>3. r_outcome = "FallbackBroadcasted" /\ ~expired => GaveUp(s_outcome[original].kind)
  BY DEF IInv, Recorded
<1> QED  BY <1>1, <1>2, <1>3 DEF OutcomesAgree

-----------------------------------------------------------------------------
(* The directory *)

(* Requests that arrive, are lost or are answered; time that passes. *)
LEMMA NetworkInv ==
    ASSUME IInv, UNCHANGED <<receiverVars, senderVars, settled>>, expired => expired',
           box' = [x \in Mailboxes |-> box'[x]], Delivered'
    PROVE  IInv'
<1>1. UNCHANGED <<original, answers, r_outcome, s_outcome, s_given, settled>>
  BY DEF receiverVars, senderVars
<1>2. TypeInv'
  BY <1>1 DEF IInv, TypeInv
<1>3. Recorded'
  BY <1>1 DEF IInv, Recorded
<1>4. ASSUME NEW s \in Senders PROVE Signed(s)' /\ FallbackExcused(s)'
  <2>1. Signed(s) /\ FallbackExcused(s)
    BY DEF IInv
  <2> QED  BY <1>1, <2>1 DEF Signed, FallbackExcused, S!Success
<1> QED  BY <1>2, <1>3, <1>4 DEF IInv

(* Steps that leave the messages alone, or take some from the network. *)
LEMMA QuietInv ==
    ASSUME IInv, UNCHANGED <<box, receiverVars, senderVars, settled>>, expired => expired',
           net' \subseteq net
    PROVE  IInv'
<1>1. Delivered' /\ box' = [x \in Mailboxes |-> box'[x]]
  BY DEF IInv, TypeInv, Delivered, Addressed, receiverVars
<1> QED  BY <1>1, NetworkInv

(* A post that arrives is stored only where nothing was. *)
LEMMA PostInv ==
    ASSUME IInv, NEW m \in net, post_mailbox(m)
    PROVE  IInv'
<1>1. /\ UNCHANGED <<expired, receiverVars, senderVars, settled>> /\ net' \subseteq net
      /\ box' = IF box[m.to] = NoMessage THEN [box EXCEPT ![m.to] = m.body] ELSE box
  BY DEF post_mailbox, post_v2_payload
<1>2. m.to \in Mailboxes /\ Addressed(m.to, m.body) /\ box = [x \in Mailboxes |-> box[x]]
  BY DEF IInv, Delivered, TypeInv
<1>3. UNCHANGED <<original, answers>>
  BY <1>1 DEF receiverVars
<1>4. \A x \in Mailboxes : box'[x] = box[x] \/ (x = m.to /\ box'[x] = m.body)
  BY <1>1, <1>2
<1>5. box' = [x \in Mailboxes |-> box'[x]]
  BY <1>1, <1>2
<1>6. Delivered'
  BY <1>1, <1>2, <1>3, <1>4 DEF IInv, Delivered, Addressed
<1> QED  BY <1>1, <1>5, <1>6, NetworkInv

-----------------------------------------------------------------------------
(* The receiver *)

(* The receiver takes an Original PSBT: there was no answer to anybody. *)
LEMMA RetrieveInv ==
    ASSUME IInv, receiver_retrieve
    PROVE  IInv'
<1>1. /\ r_outcome = "None" /\ original = NoMessage /\ original' = box[Receiver]
      /\ box[Receiver] # NoMessage
      /\ UNCHANGED <<box, net, expired, answers, r_outcome, s_outcome, s_given, settled>>
  BY DEF receiver_retrieve, get_mailbox, R!Retrieve, senderVars
<1>2. original' \in Senders /\ answers = {} /\ original \notin Senders
  BY <1>1, NamesAssumption DEF IInv, TypeInv, Delivered, Addressed, Mailboxes
<1>3. TypeInv'
  BY <1>1, <1>2, NamesAssumption DEF IInv, TypeInv
<1>4. Delivered'
  BY <1>1, <1>2 DEF IInv, Delivered, Addressed
<1>5. ASSUME NEW s \in Senders PROVE Signed(s)' /\ FallbackExcused(s)'
  <2>1. Signed(s) /\ FallbackExcused(s) /\ s_outcome[s].kind # "Success"
    BY <1>2 DEF IInv, Signed
  <2> QED  BY <1>1, <1>2, <2>1 DEF Signed, FallbackExcused, S!Success
<1>6. Recorded'
  BY <1>1 DEF Recorded
<1> QED  BY <1>3, <1>4, <1>5, <1>6 DEF IInv

(* The receiver posts its one answer. *)
LEMMA AnswerInv ==
    ASSUME IInv, receiver_post
    PROVE  IInv'
<1>1. PICK m \in Messages : R!Answer(m) /\ SendPost(Post(ReplyTo, m))
  BY DEF receiver_post, Messages
<1>2. /\ original # NoMessage /\ answers \subseteq {m} /\ answers' = {m} /\ r_outcome = "None"
      /\ net' = net \cup {[to |-> original, body |-> m]}
      /\ UNCHANGED <<box, expired, original, r_outcome, s_outcome, s_given, settled>>
  BY <1>1 DEF receiver_post, R!Answer, SendPost, Post, ReplyTo, senderVars
<1>3. TypeInv'
  BY <1>1, <1>2 DEF IInv, TypeInv
<1>4. Delivered'
  <2>1. original \in Senders /\ original # Receiver
    BY <1>2, NamesAssumption DEF IInv, TypeInv
  <2>2. \A x, b : Addressed(x, b) => Addressed(x, b)'
    BY <1>2 DEF Addressed
  <2>3. ASSUME NEW n \in net' PROVE n.to \in Mailboxes /\ Addressed(n.to, n.body)'
    <3>1. CASE n \in net
      BY <2>2, <3>1 DEF IInv, Delivered
    <3>2. CASE n = [to |-> original, body |-> m]
      <4>1. n.to = original /\ n.body = m
        BY <3>2
      <4> QED  BY <1>2, <2>1, <4>1 DEF Mailboxes, Addressed
    <3> QED  BY <1>2, <3>1, <3>2
  <2>4. \A x \in Mailboxes : box'[x] # NoMessage => Addressed(x, box[x])'
    BY <1>2, <2>2 DEF IInv, Delivered
  <2> QED  BY <1>2, <2>3, <2>4 DEF Delivered, Addressed
<1>5. ASSUME NEW s \in Senders PROVE Signed(s)' /\ FallbackExcused(s)'
  <2>1. Signed(s) /\ FallbackExcused(s)
    BY DEF IInv
  <2> QED  BY <1>2, <2>1 DEF Signed, FallbackExcused, S!Success
<1>6. Recorded'
  BY <1>2 DEF Recorded
<1> QED  BY <1>3, <1>4, <1>5, <1>6 DEF IInv

(* The receiver records an outcome, or that it waits for its fallback. *)
LEMMA OutcomeInv ==
    ASSUME IInv,
           UNCHANGED <<box, net, expired, original, answers, s_outcome, s_given, settled>>,
           GaveUp(r_outcome) => GaveUp(r_outcome'), Recorded'
    PROVE  IInv'
<1>1. TypeInv' /\ Delivered'
  BY DEF IInv, TypeInv, Delivered, Addressed
<1>2. ASSUME NEW s \in Senders PROVE Signed(s)' /\ FallbackExcused(s)'
  <2>1. Signed(s) /\ FallbackExcused(s)
    BY DEF IInv
  <2> QED  BY <2>1 DEF Signed, FallbackExcused, S!Success
<1> QED  BY <1>1, <1>2 DEF IInv

(* check_for_transaction records what the chain shows. *)
LEMMA MonitorInv ==
    ASSUME IInv, check_for_transaction
    PROVE  IInv'
<1>1. PICK o \in {"Success", "FallbackBroadcasted", "PayjoinProposalSent"} : R!End(o)
  BY DEF check_for_transaction
<1>2. /\ r_outcome = "None" /\ r_outcome' = o /\ R!Justified(o)
      /\ UNCHANGED <<box, net, expired, original, answers, s_outcome, s_given, settled>>
  BY <1>1 DEF R!End, check_for_transaction, directoryVars, senderVars
<1>3. R!Proposed # {} /\ original \in Senders
  <2>1. R!Proposed # {}
    BY <1>2 DEF R!Justified
  <2>2. answers # {}
    BY <2>1 DEF R!Proposed
  <2> QED  BY <2>1, <2>2 DEF IInv, TypeInv
<1>4. CASE o = "Success"
  <2>1. PICK m \in R!Proposed : m.psbt = settled[original]
    BY <1>2, <1>4 DEF R!Justified
  <2>2. m \in Messages /\ m.kind = "PayjoinProposal"
    BY <2>1 DEF R!Proposed, IInv, TypeInv
  <2>3. settled[original] \in Proposals
    BY <2>1, <2>2 DEF Messages, Proposal, ErrorReply
  <2>4. Recorded'
    BY <1>2, <1>3, <1>4, <2>3 DEF Recorded
  <2> QED  BY <1>2, <2>4, OutcomeInv DEF GaveUp
<1>5. CASE o = "FallbackBroadcasted"
  <2>1. settled[original] = Fallback
    BY <1>2, <1>5 DEF R!Justified
  <2>2. expired \/ GaveUp(s_outcome[original].kind)
    BY <1>2, <1>3, <2>1 DEF IInv, FallbackExcused, GaveUp
  <2>3. Recorded'
    BY <1>2, <1>3, <1>5, <2>2 DEF Recorded, GaveUp
  <2> QED  BY <1>2, <2>3, OutcomeInv DEF GaveUp
<1>6. CASE o = "PayjoinProposalSent"
  <2>1. Recorded'
    BY <1>2, <1>6 DEF Recorded
  <2> QED  BY <1>2, <2>1, OutcomeInv DEF GaveUp
<1> QED  BY <1>4, <1>5, <1>6

(* The receiver gives up, or closes the session. *)
LEMMA ReceiverEndInv ==
    ASSUME IInv, receiver_give_up \/ receiver_close
    PROVE  IInv'
<1>1. /\ r_outcome' \in {"PendingFallback", "Aborted"}
      /\ UNCHANGED <<box, net, expired, original, answers, s_outcome, s_given, settled>>
  BY DEF receiver_give_up, receiver_close, R!GiveUp, R!End, directoryVars, senderVars
<1>2. Recorded'
  BY <1>1 DEF Recorded
<1> QED  BY <1>1, <1>2, OutcomeInv DEF GaveUp

-----------------------------------------------------------------------------
(* The senders and the chain *)

(* A step of sender s that records o and gives the proposals g. *)
LEMMA RecordInv ==
    ASSUME IInv, NEW s \in Senders, NEW o \in Outcomes, NEW g \in SUBSET Proposals,
           Record(s, o, g),
           UNCHANGED <<box, net, expired, original, answers, r_outcome, settled>>,
           o.kind = "Success" => original = s /\ Proposal(o.psbt) \in answers,
           \A p \in g : o = S(s)!Success(p),
           s_outcome[s].kind = "Success" => o = s_outcome[s],
           GaveUp(s_outcome[s].kind) => GaveUp(o.kind)
    PROVE  IInv'
<1>1. /\ s_outcome' = [s_outcome EXCEPT ![s] = o] /\ s_given' = [s_given EXCEPT ![s] = g]
      /\ s_outcome \in [Senders -> Outcomes] /\ s_given \in [Senders -> SUBSET Proposals]
  BY DEF Record, IInv, TypeInv
<1>2. s_outcome'[s] = o /\ s_given'[s] = g
  BY <1>1
<1>3. \A t \in Senders \ {s} : s_outcome'[t] = s_outcome[t] /\ s_given'[t] = s_given[t]
  BY <1>1
<1>4. TypeInv' /\ Delivered'
  BY <1>1 DEF IInv, TypeInv, Delivered, Addressed
<1>5. ASSUME NEW t \in Senders PROVE Signed(t)' /\ FallbackExcused(t)'
  <2>1. Signed(t) /\ FallbackExcused(t)
    BY DEF IInv
  <2>2. CASE t = s
    <3>1. settled[s] \in Proposals => s_outcome[s].kind = "Success"
      BY <2>1, <2>2 DEF Signed, S!Success
    <3> QED  BY <1>2, <2>1, <2>2, <3>1 DEF Signed, FallbackExcused, S!Success
  <2>3. CASE t # s
    BY <1>3, <2>1, <2>3 DEF Signed, FallbackExcused, S!Success
  <2> QED  BY <2>2, <2>3
<1>6. Recorded'
  BY <1>2, <1>3 DEF IInv, Recorded
<1> QED  BY <1>4, <1>5, <1>6 DEF IInv

(* The records of a sender. *)
LEMMA Kinds ==
    /\ \A s : S(s)!Aborted = [kind |-> "Aborted", psbt |-> NoPsbt]
    /\ \A s : S(s)!PendingFallback = [kind |-> "PendingFallback", psbt |-> NoPsbt]
    /\ \A s : S(s)!Undecided = [kind |-> "None", psbt |-> NoPsbt]
    /\ \A s, p : S(s)!Success(p) = [kind |-> "Success", psbt |-> p]
BY DEF S!Aborted, S!PendingFallback, S!Undecided, S!Success

(* The sender gets the answer that is in its mailbox. *)
LEMMA AnsweredInv ==
    ASSUME IInv, NEW s \in Senders, sender_answered(s)
    PROVE  IInv'
<1>1. /\ UNCHANGED <<box, net, expired, original, answers, r_outcome, settled>>
      /\ box[s] # NoMessage
  BY DEF sender_answered, get_mailbox, receiverVars
<1>2. original = s /\ box[s] \in answers /\ box[s] \in Messages
  BY <1>1, NamesAssumption DEF IInv, Delivered, Addressed, Mailboxes, TypeInv
<1>3. CASE /\ box[s].kind = "PayjoinProposal"
           /\ \E g \in {{}, {box[s].psbt}} : Record(s, S(s)!Success(box[s].psbt), g)
           /\ S(s)!Accept(box[s].psbt)
  <2>1. PICK g \in {{}, {box[s].psbt}} : Record(s, S(s)!Success(box[s].psbt), g)
    BY <1>3
  <2>2. box[s].psbt \in Proposals /\ Proposal(box[s].psbt) = box[s]
    BY <1>2, <1>3 DEF Messages, Proposal, ErrorReply
  <2>3. s_outcome[s] = [kind |-> "None", psbt |-> NoPsbt]
    BY <1>3, Kinds DEF S!Accept
  <2> DEFINE o == [kind |-> "Success", psbt |-> box[s].psbt]
  <2>4. S(s)!Success(box[s].psbt) = o /\ o \in Outcomes /\ g \in SUBSET Proposals
    BY <2>2, Kinds DEF Outcomes
  <2>5. o.kind = "Success" /\ o.psbt = box[s].psbt /\ s_outcome[s].kind = "None"
    BY <2>3
  <2>6. \A p \in g : o = S(s)!Success(p)
    BY <2>4
  <2> HIDE DEF o
  <2> QED  BY <1>1, <1>2, <2>1, <2>2, <2>4, <2>5, <2>6, RecordInv DEF GaveUp
<1>4. CASE Record(s, S(s)!Aborted, s_given[s]) /\ S(s)!Abort
  <2> DEFINE o == [kind |-> "Aborted", psbt |-> NoPsbt]
  <2>1. s_outcome[s].kind # "Success" /\ s_given[s] = {} /\ s_given[s] \in SUBSET Proposals
    <3>1. \/ s_outcome[s] = [kind |-> "None", psbt |-> NoPsbt]
          \/ s_outcome[s] = [kind |-> "PendingFallback", psbt |-> NoPsbt]
      BY <1>4, Kinds DEF S!Abort
    <3>2. s_outcome[s].kind # "Success"
      BY <3>1
    <3> QED  BY <3>2, Kinds DEF IInv, Signed, TypeInv
  <2>2. S(s)!Aborted = o /\ o \in Outcomes /\ o.kind = "Aborted"
    BY Kinds DEF Outcomes
  <2> HIDE DEF o
  <2> QED  BY <1>1, <1>4, <2>1, <2>2, RecordInv DEF GaveUp
<1> QED  BY <1>3, <1>4 DEF sender_answered

(* A resumed session gives its proposal again. *)
LEMMA ResumeInv ==
    ASSUME IInv, NEW s \in Senders, sender_resume(s)
    PROVE  IInv'
<1>1. /\ UNCHANGED <<box, net, expired, original, answers, r_outcome, settled>>
      /\ Record(s, s_outcome[s], {s_outcome[s].psbt}) /\ s_outcome[s].kind = "Success"
  BY DEF sender_resume, directoryVars, receiverVars, S!Give
<1>2. s_outcome[s] \in Outcomes
  BY DEF IInv, TypeInv
<1>3. original = s /\ Proposal(s_outcome[s].psbt) \in answers
  BY <1>1 DEF IInv, Signed
<1>4. s_outcome[s].psbt \in Proposals
  <2>1. Proposal(s_outcome[s].psbt) \in Messages
    BY <1>3 DEF IInv, TypeInv
  <2> QED  BY <2>1 DEF Messages, Proposal, ErrorReply
<1>5. s_outcome[s] = [kind |-> "Success", psbt |-> s_outcome[s].psbt]
  BY <1>1, <1>2 DEF Outcomes
<1>6. \A p \in {s_outcome[s].psbt} : s_outcome[s] = S(s)!Success(p)
  BY <1>5, Kinds
<1>7. {s_outcome[s].psbt} \in SUBSET Proposals
  BY <1>4
<1> QED  BY <1>1, <1>2, <1>3, <1>6, <1>7, RecordInv

(* The sender gives up, and closes its session. *)
LEMMA GiveUpInv ==
    ASSUME IInv, NEW s \in Senders, sender_give_up(s)
    PROVE  IInv'
<1>1. UNCHANGED <<box, net, expired, original, answers, r_outcome, settled>>
  BY DEF sender_give_up, directoryVars, receiverVars
<1>2. PICK k \in {"PendingFallback", "Aborted"} :
        Record(s, [kind |-> k, psbt |-> NoPsbt], s_given[s])
  BY Kinds DEF sender_give_up
<1>3. s_outcome[s].kind # "Success"
  <2>1. \/ s_outcome[s] = [kind |-> "None", psbt |-> NoPsbt]
        \/ s_outcome[s] = [kind |-> "PendingFallback", psbt |-> NoPsbt]
    BY Kinds DEF sender_give_up, S!GiveUp, S!Abort
  <2> QED  BY <2>1
<1>4. s_given[s] = {} /\ s_given[s] \in SUBSET Proposals
  BY <1>3, Kinds DEF IInv, Signed, TypeInv
<1> DEFINE o == [kind |-> k, psbt |-> NoPsbt]
<1>5. o \in Outcomes /\ o.kind = k
  BY DEF Outcomes
<1>6. Record(s, o, s_given[s])
  BY <1>2
<1> HIDE DEF o
<1> QED  BY <1>1, <1>3, <1>4, <1>5, <1>6, RecordInv DEF GaveUp

(* The requests of a sender. *)
LEMMA AsksInv ==
    ASSUME IInv, NEW s \in Senders, sender_post(s) \/ sender_poll(s)
    PROVE  IInv'
<1>1. UNCHANGED <<expired, original, answers, r_outcome, s_outcome, s_given, settled>>
  BY DEF sender_post, sender_poll, Asks, receiverVars
<1>2. Delivered' /\ box' = box
  <2>1. CASE sender_post(s)
    <3>1. net' = net \cup {[to |-> Receiver, body |-> s]} /\ box' = box
      BY <2>1 DEF sender_post, SendPost, Post
    <3>2. ASSUME NEW n \in net'
          PROVE  n.to \in Mailboxes /\ Addressed(n.to, n.body)'
      <4>1. CASE n \in net
        BY <1>1, <4>1 DEF IInv, Delivered, Addressed
      <4>2. CASE n = [to |-> Receiver, body |-> s]
        <5>1. n.to = Receiver /\ n.body = s
          BY <4>2
        <5> QED  BY <5>1 DEF Mailboxes, Addressed
      <4> QED  BY <3>1, <4>1, <4>2
    <3> QED  BY <1>1, <3>1, <3>2 DEF IInv, Delivered, Addressed
  <2>2. CASE sender_poll(s)
    BY <1>1, <2>2 DEF sender_poll, SendPoll, IInv, Delivered, Addressed
  <2> QED  BY <2>1, <2>2
<1>3. TypeInv' /\ Recorded'
  BY <1>1, <1>2 DEF IInv, TypeInv, Recorded
<1>4. ASSUME NEW t \in Senders PROVE Signed(t)' /\ FallbackExcused(t)'
  <2>1. Signed(t) /\ FallbackExcused(t)
    BY DEF IInv
  <2> QED  BY <1>1, <2>1 DEF Signed, FallbackExcused, S!Success
<1> QED  BY <1>2, <1>3, <1>4 DEF IInv

(* A transaction that is broadcast stays. *)
LEMMA BroadcastInv ==
    ASSUME IInv, NEW s \in Senders, broadcast_payjoin(s) \/ broadcast_fallback(s)
    PROVE  IInv'
<1>1. PICK tx \in Proposals \cup {Fallback} :
        /\ Broadcast(s, tx)
        /\ tx \in Proposals => s_outcome[s] = S(s)!Success(tx)
        /\ tx = Fallback => \/ expired
                            \/ GaveUp(s_outcome[s].kind)
                            \/ original = s /\ GaveUp(r_outcome)
  <2>1. CASE broadcast_payjoin(s)
    <3>1. PICK p \in s_given[s] : Broadcast(s, p)
      BY <2>1 DEF broadcast_payjoin
    <3>2. p \in Proposals /\ s_outcome[s] = S(s)!Success(p)
      BY DEF IInv, TypeInv, Signed
    <3> QED  BY <3>1, <3>2, NamesAssumption
  <2>2. CASE broadcast_fallback(s)
    BY <2>2, NamesAssumption DEF broadcast_fallback
  <2> QED  BY <2>1, <2>2
<1>2. /\ settled[s] = NoPsbt /\ settled' = [settled EXCEPT ![s] = tx]
      /\ UNCHANGED <<box, net, expired, original, answers, r_outcome, s_outcome, s_given>>
  BY <1>1 DEF Broadcast, directoryVars, receiverVars, senderVars
<1>3. settled \in [Senders -> Proposals \cup {Fallback, NoPsbt}]
  BY DEF IInv, TypeInv
<1>4. settled'[s] = tx /\ \A t \in Senders \ {s} : settled'[t] = settled[t]
  BY <1>2, <1>3
<1>5. TypeInv' /\ Delivered'
  BY <1>2, <1>3 DEF IInv, TypeInv, Delivered, Addressed
<1>6. ASSUME NEW t \in Senders PROVE Signed(t)' /\ FallbackExcused(t)'
  <2>1. Signed(t) /\ FallbackExcused(t)
    BY DEF IInv
  <2>2. CASE t = s
    BY <1>1, <1>2, <1>4, <2>1, <2>2 DEF Signed, FallbackExcused, S!Success
  <2>3. CASE t # s
    BY <1>2, <1>4, <2>1, <2>3 DEF Signed, FallbackExcused, S!Success
  <2> QED  BY <2>2, <2>3
<1>7. Recorded'
  BY <1>2, <1>4, NamesAssumption DEF IInv, Recorded
<1> QED  BY <1>5, <1>6, <1>7 DEF IInv

-----------------------------------------------------------------------------
(* Every step of the system keeps the invariant. *)
LEMMA NextInv == IInv /\ [Next]_vars => IInv'
<1> SUFFICES ASSUME IInv, [Next]_vars PROVE IInv'
  OBVIOUS
<1>1. CASE Mailroom
  BY <1>1, QuietInv DEF Mailroom, directoryVars
<1>2. CASE Expire
  BY <1>2, QuietInv DEF Expire, directoryVars
<1>3. ASSUME NEW m \in net, post_mailbox(m) \/ LosePost(m) PROVE IInv'
  <2>1. CASE post_mailbox(m)
    BY <2>1, PostInv
  <2>2. CASE LosePost(m)
    BY <2>2, QuietInv DEF LosePost
  <2> QED  BY <1>3, <2>1, <2>2
<1>4. ASSUME NEW x \in polls, NothingYet(x) PROVE IInv'
  BY <1>4, QuietInv DEF NothingYet
<1>5. CASE ReceiverStep
  <2>1. CASE fetch_ohttp_keys
    BY <2>1, QuietInv DEF fetch_ohttp_keys, directoryVars
  <2>2. CASE receiver_poll
    BY <2>2, QuietInv DEF receiver_poll, SendPoll
  <2> QED
    BY <1>5, <2>1, <2>2, RetrieveInv, AnswerInv, MonitorInv, ReceiverEndInv DEF ReceiverStep
<1>6. ASSUME NEW s \in Senders, SenderStep(s) PROVE IInv'
  BY <1>6, AsksInv, AnsweredInv, ResumeInv, GiveUpInv, BroadcastInv DEF SenderStep
<1>7. CASE UNCHANGED vars
  BY <1>7, QuietInv DEF vars, directoryVars
<1> QED  BY <1>1, <1>2, <1>3, <1>4, <1>5, <1>6, <1>7 DEF Next

(* Nothing has been sent or recorded at the start. *)
LEMMA InitInv == Init => IInv
<1> SUFFICES ASSUME Init PROVE IInv
  OBVIOUS
<1>1. /\ box = [x \in Mailboxes |-> NoMessage] /\ net = {}
      /\ original = NoMessage /\ answers = {} /\ r_outcome = "None"
      /\ s_given = [s \in Senders |-> {}] /\ settled = [s \in Senders |-> NoPsbt]
      /\ s_outcome = [s \in Senders |-> [kind |-> "None", psbt |-> NoPsbt]]
  BY DEF Init
<1>2. [kind |-> "None", psbt |-> NoPsbt] \in Outcomes
  BY DEF Outcomes
<1>3. TypeInv /\ Delivered /\ Recorded
  BY <1>1, <1>2 DEF TypeInv, Delivered, Recorded
<1>4. ASSUME NEW s \in Senders PROVE Signed(s) /\ FallbackExcused(s)
  <2>1. s_outcome[s].kind = "None" /\ s_given[s] = {} /\ settled[s] = NoPsbt
    BY <1>1
  <2> QED  BY <2>1, NamesAssumption DEF Signed, FallbackExcused
<1> QED  BY <1>3, <1>4 DEF IInv

-----------------------------------------------------------------------------
(* Whatever the network loses, repeats or delays, whoever gives up and when,  *)
(* the sender and the receiver record outcomes that agree with each other and *)
(* with the chain.                                                            *)
THEOREM SidesAgree == Spec => []OutcomesAgree
<1>1. Spec => []IInv
  BY InitInv, NextInv, PTL DEF Spec
<1> QED  BY <1>1, Agree, PTL
=============================================================================
