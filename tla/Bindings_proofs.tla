--------------------------- MODULE Bindings_proofs ---------------------------
(***************************************************************************)
(* Proofs about Bindings, for any number of transition objects, payloads,  *)
(* proposals and reply keys, and a log of any length.                      *)
(*                                                                         *)
(* The inductive invariant BindInv says that every event of the log        *)
(* applies to the state before it (LogInv), that a transition object holds *)
(* a transition of its handle until it is saved (ValueInv), that there is  *)
(* at most one current handle or save in progress, at the end of the log   *)
(* (HandleInv), and that what was told, or an old handle could still tell, *)
(* is what the session tells there, or told before it fell silent          *)
(* (SentInv).  It holds until the host forks the session (ForkInv).        *)
(***************************************************************************)
EXTENDS Bindings, WellFoundedInduction, TLAPS

-----------------------------------------------------------------------------
(* Sessions and their transitions *)

(* The transition objects that can be made from a handle. *)
Methods(h) == IF role = "Receiver" THEN ReceiverMethods(h) ELSE SenderMethods(h)

(* The typestates of a receiver in which a proposal is being worked on. *)
Working == {"WantsOutputs", "WantsInputs", "WantsFeeRange", "ProvisionalProposal", "PayjoinProposal"}

(* The typestates in which the Original PSBT is being checked. *)
Checking == {"UncheckedOriginalPayload", "MaybeInputsOwned", "MaybeInputsSeen", "OutputsUnknown"}

(* The typestates of a receiver session. *)
ReceiverTags == {"Initialized", "Monitor", "HasReplyableError", "PendingFallback", "Closed"}
                    \cup Working \cup Checking

(* The records those typestates are. *)
ReceiverStates ==
    [tag : ReceiverTags, original : Payloads \cup {NoPayload}, fallback : BOOLEAN,
     psbt : Payloads \cup Proposals \cup {NoPsbt}, change : {0},
     outcome : {"None", "Success", "Aborted", "FallbackBroadcasted"}]

(* A receiver session of the bindings. *)
ReceiverState(s) ==
    /\ s \in ReceiverStates
    /\ s.tag \in Working \cup Checking \cup {"HasReplyableError"} => s.original \in Payloads
    /\ s.tag \in Working => s.psbt \in Payloads \cup Proposals
    /\ s.tag = "HasReplyableError" => s.psbt = NoPsbt

(* The typestates of a sender session. *)
SenderTags == {"WithReplyKey", "PollingForProposal", "PendingFallback", "Closed"}

(* A sender session of the bindings. *)
SenderState(s) ==
    s \in [tag : SenderTags, key : ReplyKeys \cup {NoKey}, psbt : Proposals \cup {NoPsbt},
           outcome : {"None", "Success", "Aborted"}]

(* A session of either role. *)
Session(s) == IF role = "Receiver" THEN ReceiverState(s) ELSE SenderState(s)

(* The tags of a session in which a request tells the other side something, and
   those before it. *)
Speaking == IF role = "Receiver" THEN {"PayjoinProposal", "HasReplyableError"}
            ELSE {"WithReplyKey", "PollingForProposal"}

(* The tags of a session that has told nothing yet. *)
Silent == IF role = "Receiver"
          THEN {"Builder", "Initialized", "WantsOutputs", "WantsInputs", "WantsFeeRange",
                "ProvisionalProposal"} \cup Checking
          ELSE {"Builder"}

(* What a state tells. *)
Telling(s) == IF role = "Receiver" THEN RS!Message(s) ELSE [kind |-> "reply key", key |-> s.key]

(* A step of the session from s to n, by event e. *)
Step(s, e, n) ==
    /\ n = apply(s, e)
    /\ Session(n)
    /\ e.kind = "Created" <=> s.tag = "Builder"
    /\ n.tag \in Silent => s.tag \in Silent
    /\ s.tag \in Speaking => n.tag \notin Silent
    /\ s.tag \in Speaking /\ n.tag \in Speaking => Telling(n) = Telling(s)
    /\ s.tag \notin Silent \cup Speaking => n.tag \notin Speaking

(* A handle has the same place in the session as the state s, from which it may
   have been reworked. *)
SamePlace(h, s) ==
    \/ h = s
    \/ /\ role = "Receiver" /\ h.tag \in {"WantsOutputs", "WantsInputs"}
       /\ \E p \in Payloads \cup Proposals : h = [s EXCEPT !.psbt = p]

(* A transition that reports what its event makes of the session. *)
Sound(tr, h) ==
    /\ tr.from = h
    /\ \/ tr.event = <<>> /\ ~tr.closes /\ tr.result \in {"Ok", "Transient"}
       \/ \E e : tr.event = <<e>> /\ tr.result \in {"Ok", "Fatal"} /\ Step(h, e, apply(h, e))

(* A session is created, and is not in error. *)
LEMMA SessionTag ==
    ASSUME NEW s, Session(s)
    PROVE  s.tag \notin {"Builder", "Invalid"}
BY DEF Session, ReceiverState, ReceiverStates, ReceiverTags, SenderState, SenderTags, Working,
       Checking

(* The builder's tag. *)
LEMMA BuilderTag == Builder.tag = "Builder"
BY DEF Builder, RS!Move, RS!Initialized

(* A transition of each kind. *)
LEMMA SoundForms ==
    ASSUME NEW h, NEW e, Step(h, e, apply(h, e))
    PROVE  /\ Sound(Progress(h, e), h)
           /\ \A closes \in BOOLEAN : \A result \in {"Ok", "Fatal"} : Sound(Transition(h, <<e>>, closes, result), h)
<1>1. ASSUME NEW closes \in BOOLEAN, NEW result \in {"Ok", "Fatal"}
      PROVE  Sound(Transition(h, <<e>>, closes, result), h)
    <2> DEFINE tr == Transition(h, <<e>>, closes, result)
    <2>1. tr.from = h /\ tr.event = <<e>> /\ tr.result = result
        BY Zenon DEF Transition
    <2> HIDE DEF tr
    <2>2. \E x : tr.event = <<x>> /\ tr.result \in {"Ok", "Fatal"} /\ Step(h, x, apply(h, x))
        BY <2>1, Zenon
    <2>3. Sound(tr, h)
        BY <2>1, <2>2, Zenon DEF Sound
    <2> QED BY <2>3 DEF tr
<1> QED BY <1>1 DEF Progress

(* Answers without an event. *)
LEMMA SoundStay ==
    ASSUME NEW h
    PROVE  Sound(Stasis(h), h) /\ Sound(Transient(h), h)
BY DEF Sound, Stasis, Transient, Transition

(* A receiver session ends. *)
LEMMA ReceiverClose ==
    ASSUME role = "Receiver", NEW h, ReceiverState(h), NEW o \in {"Success", "Aborted", "FallbackBroadcasted"},
           NEW result \in {"Ok", "Fatal"}
    PROVE  Sound(Ended(h, o, result), h)
<1> DEFINE e == [kind |-> "Closed", outcome |-> o]
<1>0. h.tag \notin {"Builder", "Invalid"}
    BY SessionTag DEF Session
<1>1. apply(h, e) = RS!Closed(o)
    BY <1>0 DEF apply, RS!process_event
<1>2. Step(h, e, apply(h, e))
    BY <1>1 DEF Step, RS!Closed, RS!Initialized, Session, ReceiverState, ReceiverStates,
       ReceiverTags, Silent, Speaking, Working, Checking
<1> QED BY <1>2, SoundForms DEF Ended

(* A typestate with a fallback transaction. *)
CanFallBack(h) == h.tag \in RS!FallbackTags \/ (h.tag = "HasReplyableError" /\ h.fallback)

(* It gives up for its fallback. *)
LEMMA ReceiverPending ==
    ASSUME role = "Receiver", NEW h, ReceiverState(h), NEW k \in {"Cancelled", "ProtocolFailed"},
           CanFallBack(h)
    PROVE  Step(h, RS!Event(k), apply(h, RS!Event(k)))
<1>0. h.tag \notin {"Builder", "Invalid"}
    BY SessionTag DEF Session
<1>1. apply(h, RS!Event(k)) = RS!PendingFallback(h)
    BY <1>0 DEF apply, RS!process_event, RS!Event, RS!try_pending_fallback, CanFallBack
<1> QED BY <1>1 DEF CanFallBack, RS!FallbackTags, RS!Event, Step, RS!PendingFallback, Session,
           ReceiverState, ReceiverStates, ReceiverTags, Silent, Speaking, Working, Checking

(* A check failed. *)
LEMMA ReceiverError ==
    ASSUME role = "Receiver", NEW h, ReceiverState(h), h.tag \in Checking
    PROVE  Sound(Replyable(h), h)
<1> DEFINE e == RS!Event("GotReplyableError")
<1>1. apply(h, e) = RS!HasReplyableError(h, h.tag # "UncheckedOriginalPayload")
    BY DEF apply, RS!process_event, RS!Event, RS!apply_got_replyable_error, Checking
<1>2. Step(h, e, apply(h, e))
    BY <1>1 DEF RS!Event, Step, RS!HasReplyableError, Session, ReceiverState, ReceiverStates,
       ReceiverTags, Silent, Speaking, Working, Checking
<1> QED BY <1>2, SoundForms DEF Replyable

(* Cancelling reports what its event does. *)
LEMMA ReceiverCancelSound ==
    ASSUME role = "Receiver", NEW h, ReceiverState(h), NEW tr \in ReceiverCancel(h)
    PROVE  Sound(tr, h)
<1>1. CASE h.tag \in {"Initialized", "UncheckedOriginalPayload"}
    <2>1. ReceiverCancel(h) = {Ended(h, "Aborted", "Ok")}
        BY <1>1 DEF ReceiverCancel, RS!FallbackTags
    <2> QED BY <2>1, ReceiverClose
<1>2. CASE h.tag \in RS!FallbackTags
    <2>1. ReceiverCancel(h) = {Progress(h, RS!Event("Cancelled"))}
        BY <1>2 DEF ReceiverCancel, RS!FallbackTags
    <2>2. Step(h, RS!Event("Cancelled"), apply(h, RS!Event("Cancelled")))
        <3>1. "Cancelled" \in {"Cancelled", "ProtocolFailed"}
            OBVIOUS
        <3>2. CanFallBack(h)
            BY <1>2 DEF CanFallBack
        <3> QED BY <3>1, <3>2, ReceiverPending, Zenon
    <2> QED BY <2>1, <2>2, SoundForms, Zenon
<1>3. CASE h.tag = "HasReplyableError"
    <2>1. ReceiverCancel(h) = {IF h.fallback THEN Progress(h, RS!Event("Cancelled")) ELSE Ended(h, "Aborted", "Ok")}
        BY <1>3 DEF ReceiverCancel, RS!FallbackTags
    <2>2. Sound(Ended(h, "Aborted", "Ok"), h)
        BY ReceiverClose
    <2>3. h.fallback => Step(h, RS!Event("Cancelled"), apply(h, RS!Event("Cancelled")))
        <3>1. "Cancelled" \in {"Cancelled", "ProtocolFailed"}
            OBVIOUS
        <3>2. h.fallback => CanFallBack(h)
            BY <1>3 DEF CanFallBack
        <3> QED BY <3>1, <3>2, ReceiverPending, Zenon
    <2> QED BY <2>1, <2>2, <2>3, SoundForms, Zenon
<1>4. CASE h.tag \in {"PendingFallback", "Closed"}
    <2>1. ReceiverCancel(h) = {}
        BY <1>4 DEF ReceiverCancel, RS!FallbackTags
    <2> QED BY <2>1
<1>5. h.tag \in ReceiverTags
    BY DEF ReceiverState, ReceiverStates
<1> QED BY <1>1, <1>2, <1>3, <1>4, <1>5 DEF ReceiverTags, RS!FallbackTags, Working, Checking

(* The handle of a session that does not exist yet. *)
LEMMA ReceiverCreated ==
    ASSUME role = "Receiver", NEW tr \in ReceiverMethods(Builder)
    PROVE  Sound(tr, Builder)
<1> DEFINE e == RS!Event("Created")
<1>0. Builder.tag = "Builder"
    BY DEF Builder, RS!Move, RS!Initialized
<1>1. ReceiverCancel(Builder) = {}
    BY <1>0 DEF ReceiverCancel, RS!FallbackTags
<1>2. tr = Progress(Builder, e)
    BY <1>0, <1>1 DEF ReceiverMethods, ReceiverBuilder
<1>3. apply(Builder, e) = RS!Initialized /\ e.kind = "Created"
    BY <1>0 DEF apply, RS!Event
<1>4. Step(Builder, e, apply(Builder, e))
    <2> HIDE DEF e
    <2> QED BY <1>0, <1>3 DEF RS!Initialized, Step, Session, ReceiverState, ReceiverStates,
               ReceiverTags, Silent, Speaking, Working, Checking
<1> QED BY <1>2, <1>4, SoundForms

(* The receiver works on the proposal p in the typestate t. *)
WorksOn(h, t, p) == [h EXCEPT !.tag = t, !.psbt = p, !.change = 0]

(* That is a state of a session. *)
LEMMA ReceiverWorks ==
    ASSUME NEW h, ReceiverState(h), h.original \in Payloads,
           NEW t \in Working, NEW p \in Payloads \cup Proposals
    PROVE  ReceiverState(WorksOn(h, t, p))
<1> DEFINE n == WorksOn(h, t, p)
<1>1. h \in ReceiverStates
    BY DEF ReceiverState
<1>2. t \in ReceiverTags
    BY DEF ReceiverTags
<1>3. n \in ReceiverStates
    BY <1>1, <1>2 DEF ReceiverStates, WorksOn
<1>4. n.tag = t /\ n.original = h.original /\ n.psbt = p
    BY <1>1 DEF ReceiverStates, WorksOn
<1>5. t # "HasReplyableError"
    BY DEF Working
<1>6. ReceiverState(n)
    <2> HIDE DEF n
    <2> QED BY <1>3, <1>4, <1>5, Zenon DEF ReceiverState
<1> QED BY <1>6

(* A step that leaves a silent typestate, or leads to one after the last message. *)
LEMMA ReceiverMoves ==
    ASSUME role = "Receiver", NEW h, ReceiverState(h), NEW e, e.kind # "Created",
           ReceiverState(apply(h, e)),
           h.tag \in Silent \/ apply(h, e).tag \in {"Monitor", "PendingFallback", "Closed"}
    PROVE  Step(h, e, apply(h, e))
<1> DEFINE n == apply(h, e)
<1>1. h.tag # "Builder"
    BY DEF ReceiverState, ReceiverStates, ReceiverTags, Working, Checking
<1>2. ReceiverState(n) /\ (h.tag \in Silent \/ n.tag \in {"Monitor", "PendingFallback", "Closed"})
    OBVIOUS
<1> HIDE DEF n
<1>3. /\ n.tag \in Silent => h.tag \in Silent
      /\ h.tag \in Speaking => n.tag \notin Silent \cup Speaking
      /\ h.tag \notin Silent \cup Speaking => n.tag \notin Speaking
    BY <1>2 DEF Silent, Speaking, Checking
<1>4. Session(n)
    BY <1>2 DEF Session
<1> QED BY <1>1, <1>3, <1>4, Zenon DEF Step, n

(* The events that move a receiver forward, and the typestate each moves to. *)
LEMMA ReceiverForward ==
    ASSUME role = "Receiver", NEW h, ReceiverState(h), NEW e,
           \/ h.tag = "Initialized" /\ e.kind = "RetrievedOriginalPayload" /\ e.original \in Payloads
           \/ h.tag = "UncheckedOriginalPayload" /\ e.kind = "CheckedBroadcastSuitability"
           \/ h.tag = "MaybeInputsOwned" /\ e.kind = "CheckedInputsNotOwned"
           \/ h.tag = "MaybeInputsSeen" /\ e.kind = "CheckedNoInputsSeenBefore"
           \/ h.tag = "OutputsUnknown" /\ e.kind = "IdentifiedReceiverOutputs" /\ e.change = 0
           \/ h.tag = "WantsOutputs" /\ e.kind = "CommittedOutputs" /\ e.psbt = h.psbt /\ e.change = h.change
           \/ h.tag = "WantsInputs" /\ e.kind = "CommittedInputs" /\ e.psbt = h.psbt
           \/ h.tag = "WantsFeeRange" /\ e.kind = "AppliedFeeRange" /\ e.psbt \in RS!Reworked(h.psbt)
           \/ h.tag = "ProvisionalProposal" /\ e.kind = "FinalizedProposal" /\ e.psbt \in RS!Reworked(h.psbt)
           \/ h.tag = "PayjoinProposal" /\ e.kind = "PostedPayjoinProposal"
    PROVE  Step(h, e, apply(h, e))
<1>0. apply(h, e) = RS!process_event(h, e) /\ e.kind # "Created"
    BY DEF apply
<1>1. CASE h.tag = "Initialized" /\ e.kind = "RetrievedOriginalPayload" /\ e.original \in Payloads
    <2>1. RS!process_event(h, e) = [h EXCEPT !.tag = "UncheckedOriginalPayload", !.original = e.original]
        BY <1>1 DEF RS!process_event
    <2>2. ReceiverState(apply(h, e))
        BY <1>0, <1>1, <2>1 DEF ReceiverState, ReceiverStates, ReceiverTags, Working, Checking
    <2>3. h.tag \in Silent \/ apply(h, e).tag \in {"Monitor", "PendingFallback", "Closed"}
        BY <1>0, <1>1, <2>1 DEF ReceiverState, ReceiverStates, Silent, Checking
    <2> QED BY <1>0, <2>2, <2>3, ReceiverMoves
<1>2. CASE h.tag = "UncheckedOriginalPayload" /\ e.kind = "CheckedBroadcastSuitability"
    <2>1. RS!process_event(h, e) = [h EXCEPT !.tag = "MaybeInputsOwned", !.fallback = TRUE]
        BY <1>2 DEF RS!process_event
    <2>2. ReceiverState(apply(h, e))
        BY <1>0, <1>2, <2>1 DEF ReceiverState, ReceiverStates, ReceiverTags, Working, Checking
    <2>3. h.tag \in Silent \/ apply(h, e).tag \in {"Monitor", "PendingFallback", "Closed"}
        BY <1>0, <1>2, <2>1 DEF ReceiverState, ReceiverStates, Silent, Checking
    <2> QED BY <1>0, <2>2, <2>3, ReceiverMoves
<1>3. CASE h.tag = "MaybeInputsOwned" /\ e.kind = "CheckedInputsNotOwned"
    <2>1. RS!process_event(h, e) = [h EXCEPT !.tag = "MaybeInputsSeen"]
        BY <1>3 DEF RS!process_event, RS!Move
    <2>2. ReceiverState(apply(h, e))
        BY <1>0, <1>3, <2>1 DEF ReceiverState, ReceiverStates, ReceiverTags, Working, Checking
    <2>3. h.tag \in Silent \/ apply(h, e).tag \in {"Monitor", "PendingFallback", "Closed"}
        BY <1>0, <1>3, <2>1 DEF ReceiverState, ReceiverStates, Silent, Checking
    <2> QED BY <1>0, <2>2, <2>3, ReceiverMoves
<1>4. CASE h.tag = "MaybeInputsSeen" /\ e.kind = "CheckedNoInputsSeenBefore"
    <2>1. RS!process_event(h, e) = [h EXCEPT !.tag = "OutputsUnknown"]
        BY <1>4 DEF RS!process_event, RS!Move
    <2>2. ReceiverState(apply(h, e))
        BY <1>0, <1>4, <2>1 DEF ReceiverState, ReceiverStates, ReceiverTags, Working, Checking
    <2>3. h.tag \in Silent \/ apply(h, e).tag \in {"Monitor", "PendingFallback", "Closed"}
        BY <1>0, <1>4, <2>1 DEF ReceiverState, ReceiverStates, Silent, Checking
    <2> QED BY <1>0, <2>2, <2>3, ReceiverMoves
<1>5. CASE h.tag = "OutputsUnknown" /\ e.kind = "IdentifiedReceiverOutputs" /\ e.change = 0
    <2>0. RS!process_event(h, e) = RS!apply_identified_receiver_outputs(h, e)
        BY <1>5 DEF RS!process_event
    <2>1. RS!apply_identified_receiver_outputs(h, e) = WorksOn(h, "WantsOutputs", h.original)
        BY <1>5 DEF WorksOn, RS!apply_identified_receiver_outputs, ReceiverState,
           ReceiverStates, Working, Checking
    <2>2. h.original \in Payloads /\ h.original \in Payloads \cup Proposals /\ "WantsOutputs" \in Working
        BY <1>5 DEF ReceiverState, Working, Checking
    <2>3. ReceiverState(apply(h, e))
        BY <1>0, <2>0, <2>1, <2>2, ReceiverWorks, Zenon
    <2>4. h.tag \in Silent
        BY <1>5 DEF Silent, Checking
    <2> QED BY <1>0, <2>3, <2>4, ReceiverMoves
<1>6. CASE h.tag = "WantsOutputs" /\ e.kind = "CommittedOutputs" /\ e.psbt = h.psbt /\ e.change = h.change
    <2>0. RS!process_event(h, e) = RS!apply_committed_outputs(h, e)
        BY <1>6 DEF RS!process_event
    <2>1. RS!apply_committed_outputs(h, e) = WorksOn(h, "WantsInputs", e.psbt)
        <3>1. h.change = 0 /\ h.psbt \in Payloads \cup Proposals
            BY <1>6 DEF ReceiverState, ReceiverStates, Working
        <3> QED BY <1>6, <3>1 DEF WorksOn, RS!apply_committed_outputs
    <2>2. h.original \in Payloads /\ e.psbt \in Payloads \cup Proposals /\ "WantsInputs" \in Working
        BY <1>6 DEF ReceiverState, Working, Checking
    <2>3. ReceiverState(apply(h, e))
        BY <1>0, <2>0, <2>1, <2>2, ReceiverWorks, Zenon
    <2>4. h.tag \in Silent
        BY <1>6 DEF Silent, Checking
    <2> QED BY <1>0, <2>3, <2>4, ReceiverMoves
<1>7. CASE h.tag = "WantsInputs" /\ e.kind = "CommittedInputs" /\ e.psbt = h.psbt
    <2>0. RS!process_event(h, e) = RS!apply_committed_inputs(h, e)
        BY <1>7 DEF RS!process_event
    <2>1. RS!apply_committed_inputs(h, e) = WorksOn(h, "WantsFeeRange", e.psbt)
        <3>1. h \in ReceiverStates /\ h.psbt \in Payloads \cup Proposals
            BY <1>7 DEF ReceiverState, Working
        <3>2. RS!apply_committed_inputs(h, e) = [h EXCEPT !.tag = "WantsFeeRange", !.psbt = e.psbt]
            BY <1>7, <3>1 DEF RS!apply_committed_inputs, ReceiverStates
        <3> QED BY <3>1, <3>2 DEF WorksOn, ReceiverStates
    <2>2. h.original \in Payloads /\ e.psbt \in Payloads \cup Proposals /\ "WantsFeeRange" \in Working
        BY <1>7 DEF ReceiverState, Working, Checking
    <2>3. ReceiverState(apply(h, e))
        BY <1>0, <2>0, <2>1, <2>2, ReceiverWorks, Zenon
    <2>4. h.tag \in Silent
        BY <1>7 DEF Silent, Checking
    <2> QED BY <1>0, <2>3, <2>4, ReceiverMoves
<1>8. CASE h.tag = "WantsFeeRange" /\ e.kind = "AppliedFeeRange" /\ e.psbt \in RS!Reworked(h.psbt)
    <2>1. RS!process_event(h, e) = WorksOn(h, "ProvisionalProposal", e.psbt)
        BY <1>8 DEF WorksOn, RS!process_event
    <2>2. h.original \in Payloads /\ e.psbt \in Payloads \cup Proposals /\ "ProvisionalProposal" \in Working
        BY <1>8 DEF ReceiverState, Working, Checking, RS!Reworked
    <2>3. ReceiverState(apply(h, e))
        BY <1>0, <2>1, <2>2, ReceiverWorks, Zenon
    <2>4. h.tag \in Silent
        BY <1>8 DEF Silent, Checking
    <2> QED BY <1>0, <2>3, <2>4, ReceiverMoves
<1>9. CASE h.tag = "ProvisionalProposal" /\ e.kind = "FinalizedProposal" /\ e.psbt \in RS!Reworked(h.psbt)
    <2>1. RS!process_event(h, e) = WorksOn(h, "PayjoinProposal", e.psbt)
        BY <1>9 DEF WorksOn, RS!process_event, ReceiverState, ReceiverStates
    <2>2. h.original \in Payloads /\ e.psbt \in Payloads \cup Proposals /\ "PayjoinProposal" \in Working
        BY <1>9 DEF ReceiverState, Working, Checking, RS!Reworked
    <2>3. ReceiverState(apply(h, e))
        BY <1>0, <2>1, <2>2, ReceiverWorks, Zenon
    <2>4. h.tag \in Silent
        BY <1>9 DEF Silent, Checking
    <2> QED BY <1>0, <2>3, <2>4, ReceiverMoves
<1>10. CASE h.tag = "PayjoinProposal" /\ e.kind = "PostedPayjoinProposal"
    <2>1. RS!process_event(h, e) = [h EXCEPT !.tag = "Monitor"]
        BY <1>10 DEF RS!process_event, RS!Move
    <2>2. ReceiverState(apply(h, e))
        BY <1>0, <1>10, <2>1 DEF ReceiverState, ReceiverStates, ReceiverTags, Working, Checking
    <2>3. h.tag \in Silent \/ apply(h, e).tag \in {"Monitor", "PendingFallback", "Closed"}
        BY <1>0, <1>10, <2>1 DEF ReceiverState, ReceiverStates, Silent, Checking
    <2> QED BY <1>0, <2>2, <2>3, ReceiverMoves
<1> QED BY <1>1, <1>2, <1>3, <1>4, <1>5, <1>6, <1>7, <1>8, <1>9, <1>10

(* Progress with an event that moves the session. *)
LEMMA SoundProgress ==
    ASSUME NEW h, NEW e, Step(h, e, apply(h, e))
    PROVE  Sound(Progress(h, e), h)
BY SoundForms

(* Every transition object of a receiver handle reports what its event does. *)
LEMMA ReceiverSound ==
    ASSUME role = "Receiver", NEW h, ReceiverState(h), NEW tr \in ReceiverMethods(h)
    PROVE  Sound(tr, h)
<1>0. CASE tr \in ReceiverCancel(h)
    BY <1>0, ReceiverCancelSound
<1> SUFFICES ASSUME tr \notin ReceiverCancel(h) PROVE Sound(tr, h)
    BY <1>0
<1>00. Sound(Stasis(h), h) /\ Sound(Transient(h), h)
    BY SoundStay
<1>c. Sound(Ended(h, "Aborted", "Ok"), h) /\ Sound(Ended(h, "Aborted", "Fatal"), h)
      /\ Sound(Ended(h, "Success", "Ok"), h) /\ Sound(Ended(h, "FallbackBroadcasted", "Ok"), h)
    BY ReceiverClose
<1>1. CASE h.tag = "Initialized"
    <2>1. ReceiverMethods(h) = ReceiverCancel(h) \cup Initialized(h)
        BY <1>1 DEF ReceiverMethods
    <2>2. tr \in Initialized(h)
        BY <2>1
    <2>3. CASE tr \in {Stasis(h), Transient(h), Ended(h, "Aborted", "Fatal")}
        BY <1>00, <1>c, <2>3
    <2>4. CASE \E p \in Payloads : tr = Progress(h, [kind |-> "RetrievedOriginalPayload", original |-> p])
        <3>1. PICK p \in Payloads : tr = Progress(h, [kind |-> "RetrievedOriginalPayload", original |-> p])
            BY <2>4
        <3> DEFINE e == [kind |-> "RetrievedOriginalPayload", original |-> p]
        <3>2. e.kind = "RetrievedOriginalPayload" /\ e.original \in Payloads
            OBVIOUS
        <3> HIDE DEF e
        <3>3. Step(h, e, apply(h, e))
            BY <1>1, <3>2, ReceiverForward
        <3> QED BY <3>1, <3>3, SoundProgress DEF e
    <2> QED BY <2>2, <2>3, <2>4 DEF Initialized
<1>2. CASE h.tag = "UncheckedOriginalPayload"
    <2>1. ReceiverMethods(h) = ReceiverCancel(h) \cup UncheckedOriginalPayload(h)
        BY <1>2 DEF ReceiverMethods
    <2>2. tr \in UncheckedOriginalPayload(h)
        BY <2>1
    <2> DEFINE e == RS!Event("CheckedBroadcastSuitability")
    <2>3. tr \in {Progress(h, e), Replyable(h), Transient(h)}
        BY <2>2 DEF UncheckedOriginalPayload
    <2>4. e.kind = "CheckedBroadcastSuitability"
        BY DEF RS!Event
    <2> HIDE DEF e
    <2>5. Step(h, e, apply(h, e))
        BY <1>2, <2>4, ReceiverForward
    <2>6. h.tag \in Checking
        BY <1>2 DEF Checking
    <2> QED BY <1>00, <2>3, <2>5, <2>6, ReceiverError, SoundProgress
<1>3. CASE h.tag = "MaybeInputsOwned"
    <2>1. ReceiverMethods(h) = ReceiverCancel(h) \cup MaybeInputsOwned(h)
        BY <1>3 DEF ReceiverMethods
    <2>2. tr \in MaybeInputsOwned(h)
        BY <2>1
    <2> DEFINE e == RS!Event("CheckedInputsNotOwned")
    <2>3. tr \in {Progress(h, e), Replyable(h), Transient(h)}
        BY <2>2 DEF MaybeInputsOwned
    <2>4. e.kind = "CheckedInputsNotOwned"
        BY DEF RS!Event
    <2> HIDE DEF e
    <2>5. Step(h, e, apply(h, e))
        BY <1>3, <2>4, ReceiverForward
    <2>6. h.tag \in Checking
        BY <1>3 DEF Checking
    <2> QED BY <1>00, <2>3, <2>5, <2>6, ReceiverError, SoundProgress
<1>4. CASE h.tag = "MaybeInputsSeen"
    <2>1. ReceiverMethods(h) = ReceiverCancel(h) \cup MaybeInputsSeen(h)
        BY <1>4 DEF ReceiverMethods
    <2>2. tr \in MaybeInputsSeen(h)
        BY <2>1
    <2> DEFINE e == RS!Event("CheckedNoInputsSeenBefore")
    <2>3. tr \in {Progress(h, e), Replyable(h), Transient(h)}
        BY <2>2 DEF MaybeInputsSeen
    <2>4. e.kind = "CheckedNoInputsSeenBefore"
        BY DEF RS!Event
    <2> HIDE DEF e
    <2>5. Step(h, e, apply(h, e))
        BY <1>4, <2>4, ReceiverForward
    <2>6. h.tag \in Checking
        BY <1>4 DEF Checking
    <2> QED BY <1>00, <2>3, <2>5, <2>6, ReceiverError, SoundProgress
<1>5. CASE h.tag = "OutputsUnknown"
    <2>1. ReceiverMethods(h) = ReceiverCancel(h) \cup OutputsUnknown(h)
        BY <1>5 DEF ReceiverMethods
    <2>2. tr \in OutputsUnknown(h)
        BY <2>1
    <2> DEFINE e == [kind |-> "IdentifiedReceiverOutputs", change |-> 0]
    <2>3. tr \in {Progress(h, e), Replyable(h), Transient(h)}
        BY <2>2 DEF OutputsUnknown
    <2>4. e.kind = "IdentifiedReceiverOutputs" /\ e.change = 0
        BY DEF RS!Event
    <2> HIDE DEF e
    <2>5. Step(h, e, apply(h, e))
        BY <1>5, <2>4, ReceiverForward
    <2>6. h.tag \in Checking
        BY <1>5 DEF Checking
    <2> QED BY <1>00, <2>3, <2>5, <2>6, ReceiverError, SoundProgress
<1>6. CASE h.tag = "WantsOutputs"
    <2>1. ReceiverMethods(h) = ReceiverCancel(h) \cup WantsOutputs(h)
        BY <1>6 DEF ReceiverMethods
    <2>2. tr \in WantsOutputs(h)
        BY <2>1
    <2> DEFINE e == [kind |-> "CommittedOutputs", psbt |-> h.psbt, change |-> h.change]
    <2>3. tr = Progress(h, e)
        BY <2>2 DEF WantsOutputs
    <2>4. e.kind = "CommittedOutputs" /\ e.psbt = h.psbt /\ e.change = h.change
        OBVIOUS
    <2> HIDE DEF e
    <2>5. Step(h, e, apply(h, e))
        BY <1>6, <2>4, ReceiverForward
    <2> QED BY <2>3, <2>5, SoundProgress
<1>7. CASE h.tag = "WantsInputs"
    <2>1. ReceiverMethods(h) = ReceiverCancel(h) \cup WantsInputs(h)
        BY <1>7 DEF ReceiverMethods
    <2>2. tr \in WantsInputs(h)
        BY <2>1
    <2> DEFINE e == [kind |-> "CommittedInputs", psbt |-> h.psbt]
    <2>3. tr = Progress(h, e)
        BY <2>2 DEF WantsInputs
    <2>4. e.kind = "CommittedInputs" /\ e.psbt = h.psbt
        OBVIOUS
    <2> HIDE DEF e
    <2>5. Step(h, e, apply(h, e))
        BY <1>7, <2>4, ReceiverForward
    <2> QED BY <2>3, <2>5, SoundProgress
<1>8. CASE h.tag = "WantsFeeRange"
    <2>1. ReceiverMethods(h) = ReceiverCancel(h) \cup WantsFeeRange(h)
        BY <1>8 DEF ReceiverMethods
    <2>2. tr \in WantsFeeRange(h)
        BY <2>1
    <2>3. CASE tr = Transient(h)
        BY <1>00, <2>3
    <2>4. CASE \E p \in RS!Reworked(h.psbt) : tr = Progress(h, [kind |-> "AppliedFeeRange", psbt |-> p])
        <3>1. PICK p \in RS!Reworked(h.psbt) : tr = Progress(h, [kind |-> "AppliedFeeRange", psbt |-> p])
            BY <2>4
        <3> DEFINE e == [kind |-> "AppliedFeeRange", psbt |-> p]
        <3>2. e.kind = "AppliedFeeRange" /\ e.psbt \in RS!Reworked(h.psbt)
            OBVIOUS
        <3> HIDE DEF e
        <3>3. Step(h, e, apply(h, e))
            BY <1>8, <3>2, ReceiverForward
        <3> QED BY <3>1, <3>3, SoundProgress DEF e
    <2> QED BY <2>2, <2>3, <2>4 DEF WantsFeeRange
<1>9. CASE h.tag = "ProvisionalProposal"
    <2>1. ReceiverMethods(h) = ReceiverCancel(h) \cup ProvisionalProposal(h)
        BY <1>9 DEF ReceiverMethods
    <2>2. tr \in ProvisionalProposal(h)
        BY <2>1
    <2>3. CASE tr = Transient(h)
        BY <1>00, <2>3
    <2>4. CASE \E p \in RS!Reworked(h.psbt) : tr = Progress(h, [kind |-> "FinalizedProposal", psbt |-> p])
        <3>1. PICK p \in RS!Reworked(h.psbt) : tr = Progress(h, [kind |-> "FinalizedProposal", psbt |-> p])
            BY <2>4
        <3> DEFINE e == [kind |-> "FinalizedProposal", psbt |-> p]
        <3>2. e.kind = "FinalizedProposal" /\ e.psbt \in RS!Reworked(h.psbt)
            OBVIOUS
        <3> HIDE DEF e
        <3>3. Step(h, e, apply(h, e))
            BY <1>9, <3>2, ReceiverForward
        <3> QED BY <3>1, <3>3, SoundProgress DEF e
    <2> QED BY <2>2, <2>3, <2>4 DEF ProvisionalProposal
<1>10. CASE h.tag = "PayjoinProposal"
    <2>1. ReceiverMethods(h) = ReceiverCancel(h) \cup PayjoinProposal(h)
        BY <1>10 DEF ReceiverMethods
    <2>2. tr \in PayjoinProposal(h)
        BY <2>1
    <2> DEFINE e == RS!Event("PostedPayjoinProposal")
               f == RS!Event("ProtocolFailed")
    <2>3. tr \in {Progress(h, e), Transient(h), Transition(h, <<f>>, FALSE, "Fatal")}
        BY <2>2 DEF PayjoinProposal
    <2>4. e.kind = "PostedPayjoinProposal" /\ CanFallBack(h) /\ "ProtocolFailed" \in {"Cancelled", "ProtocolFailed"}
        BY <1>10 DEF RS!Event, CanFallBack, RS!FallbackTags
    <2>5. Step(h, f, apply(h, f))
        BY <2>4, ReceiverPending, Zenon
    <2> HIDE DEF e, f
    <2>6. Step(h, e, apply(h, e))
        BY <1>10, <2>4, ReceiverForward
    <2>7. Sound(Transition(h, <<f>>, FALSE, "Fatal"), h)
        BY <2>5, SoundForms
    <2> QED BY <1>00, <2>3, <2>6, <2>7, SoundProgress
<1>11. CASE h.tag = "HasReplyableError"
    <2>1. ReceiverMethods(h) = ReceiverCancel(h) \cup HasReplyableError(h)
        BY <1>11 DEF ReceiverMethods
    <2>2. tr \in HasReplyableError(h)
        BY <2>1
    <2> DEFINE f == RS!Event("ProtocolFailed")
    <2>3. tr \in {Transient(h), IF h.fallback THEN Progress(h, f) ELSE Ended(h, "Aborted", "Ok")}
        BY <2>2, Zenon DEF HasReplyableError
    <2>4. "ProtocolFailed" \in {"Cancelled", "ProtocolFailed"}
        OBVIOUS
    <2>5. h.fallback => CanFallBack(h)
        BY <1>11 DEF CanFallBack
    <2>6. h.fallback => Step(h, f, apply(h, f))
        BY <2>4, <2>5, ReceiverPending, Zenon
    <2> HIDE DEF f
    <2> QED BY <1>00, <1>c, <2>3, <2>6, SoundProgress, Zenon
<1>12. CASE h.tag = "Monitor"
    <2>1. ReceiverMethods(h) = ReceiverCancel(h) \cup Monitor(h)
        BY <1>12 DEF ReceiverMethods
    <2>2. tr \in Monitor(h)
        BY <2>1
    <2> QED BY <1>00, <1>c, <2>2 DEF Monitor
<1>13. CASE h.tag = "PendingFallback"
    <2>1. ReceiverMethods(h) = ReceiverCancel(h) \cup ReceiverPendingFallback(h)
        BY <1>13 DEF ReceiverMethods
    <2>2. tr \in ReceiverPendingFallback(h)
        BY <2>1
    <2> QED BY <1>00, <1>c, <2>2 DEF ReceiverPendingFallback
<1>14. CASE h.tag = "Closed"
    <2>1. ReceiverMethods(h) = ReceiverCancel(h) \cup {}
        BY <1>14 DEF ReceiverMethods
    <2> QED BY <2>1
<1>t. h.tag \in ReceiverTags
    BY DEF ReceiverState, ReceiverStates
<1> QED BY <1>1, <1>2, <1>3, <1>4, <1>5, <1>6, <1>7, <1>8, <1>9, <1>10, <1>11, <1>12, <1>13,
           <1>14, <1>t DEF ReceiverTags, Working, Checking

(* The end of a sender session. *)
LEMMA SenderClose ==
    ASSUME role # "Receiver", NEW h, SenderState(h), NEW o \in {"Success", "Aborted"},
           NEW p \in Proposals \cup {NoPsbt}, NEW result \in {"Ok", "Fatal"}
    PROVE  Sound(Transition(h, <<[kind |-> "Closed", outcome |-> o, psbt |-> p]>>, TRUE, result), h)
<1> DEFINE e == [kind |-> "Closed", outcome |-> o, psbt |-> p]
<1>1. e.kind = "Closed" /\ e.outcome = o /\ e.psbt = p
    OBVIOUS
<1> HIDE DEF e
<1>2. apply(h, e) = SS!Closed(o, p)
    <2>1. h.tag \notin {"Builder", "Invalid"}
        BY SessionTag DEF Session
    <2> QED BY <1>1, <2>1 DEF apply, SS!process_event
<1>3. SenderState(SS!Closed(o, p)) /\ SS!Closed(o, p).tag = "Closed"
    BY DEF SenderState, SS!Closed, SenderTags
<1>4. h.tag # "Builder"
    BY DEF SenderState, SenderTags
<1>5. Step(h, e, apply(h, e))
    BY <1>1, <1>2, <1>3, <1>4 DEF Step, Session, Silent, Speaking
<1> QED BY <1>5, SoundForms DEF e

(* A sender session is posted, or cancelled. *)
LEMMA SenderMoves ==
    ASSUME role # "Receiver", NEW h, SenderState(h), NEW e,
           \/ h.tag = "WithReplyKey" /\ e.kind = "PostedOriginalPsbt"
           \/ h.tag \in {"WithReplyKey", "PollingForProposal"} /\ e.kind = "Cancelled"
    PROVE  Step(h, e, apply(h, e))
<1> DEFINE t == IF e.kind = "Cancelled" THEN "PendingFallback" ELSE "PollingForProposal"
           n == [h EXCEPT !.tag = t]
<1>1. apply(h, e) = SS!process_event(h, e) /\ e.kind # "Created"
    BY DEF apply
<1>2. SS!process_event(h, e) = n
    <2>1. CASE e.kind = "Cancelled"
        BY <2>1 DEF SS!process_event, SS!Move
    <2>2. CASE e.kind = "PostedOriginalPsbt"
        BY <2>2 DEF SS!process_event, SS!Move
    <2> QED BY <2>1, <2>2
<1>3. SenderState(n) /\ n.tag = t /\ n.key = h.key
    BY DEF SenderState, SenderTags
<1>4. h.tag # "Builder"
    BY DEF SenderState, SenderTags
<1>5. t \in {"PendingFallback", "PollingForProposal"}
    OBVIOUS
<1> HIDE DEF n, t
<1>6. n.tag \notin Silent /\ h.tag \in Speaking
    BY <1>3, <1>5 DEF Silent, Speaking
<1>7. Telling(n) = Telling(h)
    BY <1>3 DEF Telling
<1>8. Session(n)
    BY <1>3 DEF Session
<1> QED BY <1>1, <1>2, <1>4, <1>6, <1>7, <1>8 DEF Step

(* A builder makes a session with a reply key. *)
LEMMA SenderCreated ==
    ASSUME role # "Receiver", NEW tr \in SenderMethods(Builder)
    PROVE  Sound(tr, Builder)
<1>0. Builder.tag = "Builder"
    BY DEF Builder, RS!Move, RS!Initialized
<1>1. SenderCancel(Builder) = {}
    BY <1>0 DEF SenderCancel
<1>2. SenderMethods(Builder) = SenderCancel(Builder) \cup SenderBuilder(Builder)
    BY <1>0 DEF SenderMethods
<1>3. PICK k \in ReplyKeys : tr = Progress(Builder, [kind |-> "Created", key |-> k])
    BY <1>1, <1>2 DEF SenderBuilder
<1> DEFINE e == [kind |-> "Created", key |-> k]
<1>4. e.kind = "Created" /\ e.key = k
    OBVIOUS
<1> HIDE DEF e
<1>5. apply(Builder, e) = SS!WithReplyKey(k)
    BY <1>4, BuilderTag DEF apply
<1>6. SenderState(SS!WithReplyKey(k)) /\ SS!WithReplyKey(k).tag = "WithReplyKey"
    BY DEF SenderState, SS!WithReplyKey, SenderTags
<1>7. Step(Builder, e, apply(Builder, e))
    BY <1>0, <1>4, <1>5, <1>6 DEF Step, Session, Silent, Speaking
<1> QED BY <1>3, <1>7, SoundProgress DEF e

(* Every transition object of a sender handle reports what its event does. *)
LEMMA SenderSound ==
    ASSUME role # "Receiver", NEW h, SenderState(h), NEW tr \in SenderMethods(h)
    PROVE  Sound(tr, h)
<1>1. Sound(Stasis(h), h) /\ Sound(Transient(h), h)
    BY SoundStay
<1>2. ASSUME NEW result \in {"Ok", "Fatal"} PROVE Sound(Ended(h, "Aborted", result), h)
    BY SenderClose DEF Ended
<1>3. h.tag \in SenderTags
    BY DEF SenderState
<1>4. CASE h.tag \in {"WithReplyKey", "PollingForProposal"} /\ tr = Progress(h, SS!Event("Cancelled"))
    <2>1. SS!Event("Cancelled").kind = "Cancelled"
        BY DEF SS!Event
    <2>2. Step(h, SS!Event("Cancelled"), apply(h, SS!Event("Cancelled")))
        BY <1>4, <2>1, SenderMoves
    <2> QED BY <1>4, <2>2, SoundProgress
<1>5. CASE h.tag = "WithReplyKey" /\ tr \in WithReplyKey(h)
    <2> DEFINE e == SS!Event("PostedOriginalPsbt")
    <2>1. e.kind = "PostedOriginalPsbt"
        BY DEF SS!Event
    <2>2. tr \in {Progress(h, e), Transient(h), Ended(h, "Aborted", "Fatal")}
        BY <1>5 DEF WithReplyKey
    <2> HIDE DEF e
    <2>3. Step(h, e, apply(h, e))
        BY <1>5, <2>1, SenderMoves
    <2> QED BY <1>1, <1>2, <2>2, <2>3, SoundProgress
<1>6. CASE h.tag = "PollingForProposal" /\ tr \in PollingForProposal(h)
    <2>1. CASE tr \in {Stasis(h), Transient(h), Ended(h, "Aborted", "Fatal")}
        BY <1>1, <1>2, <2>1
    <2>2. CASE \E p \in Proposals :
                  tr = Transition(h, <<[kind |-> "Closed", outcome |-> "Success", psbt |-> p]>>, TRUE, "Ok")
        BY <2>2, SenderClose
    <2> QED BY <1>6, <2>1, <2>2 DEF PollingForProposal
<1>7. CASE h.tag = "PendingFallback" /\ tr \in SenderPendingFallback(h)
    BY <1>2, <1>7 DEF SenderPendingFallback
<1>8. SenderCancel(h) = IF h.tag \in {"WithReplyKey", "PollingForProposal"}
                        THEN {Progress(h, SS!Event("Cancelled"))} ELSE {}
    BY DEF SenderCancel
<1>9. /\ h.tag = "WithReplyKey" => SenderMethods(h) = SenderCancel(h) \cup WithReplyKey(h)
      /\ h.tag = "PollingForProposal" => SenderMethods(h) = SenderCancel(h) \cup PollingForProposal(h)
      /\ h.tag = "PendingFallback" => SenderMethods(h) = SenderCancel(h) \cup SenderPendingFallback(h)
      /\ h.tag = "Closed" => SenderMethods(h) = SenderCancel(h) \cup {}
    BY DEF SenderMethods
<1> QED BY <1>3, <1>4, <1>5, <1>6, <1>7, <1>8, <1>9 DEF SenderTags

-----------------------------------------------------------------------------
(* Handles that were reworked *)

(* A transition from the handle h of a session whose log ends in s. *)
SoundFrom(tr, h, s) ==
    /\ tr.from = h
    /\ \/ tr.event = <<>> /\ ~tr.closes /\ tr.result \in {"Ok", "Transient"}
       \/ \E e : tr.event = <<e>> /\ tr.result \in {"Ok", "Fatal"} /\ Step(s, e, apply(h, e))

(* The events of a handle that can be reworked. *)
Commits(h, e) ==
    \/ e.kind = "Cancelled"
    \/ e.kind = "CommittedOutputs" /\ h.tag = "WantsOutputs"
    \/ e.kind = "CommittedInputs" /\ h.tag = "WantsInputs"

(* It has no others. *)
LEMMA ReworkedEvents ==
    ASSUME role = "Receiver", NEW h, ReceiverState(h), h.tag \in {"WantsOutputs", "WantsInputs"},
           NEW tr \in ReceiverMethods(h)
    PROVE  \E e : tr = Progress(h, e) /\ Commits(h, e)
<1>1. ReceiverCancel(h) = {Progress(h, RS!Event("Cancelled"))}
    BY DEF ReceiverCancel, RS!FallbackTags
<1>2. CASE tr \in ReceiverCancel(h)
    <2>1. Commits(h, RS!Event("Cancelled"))
        BY DEF Commits, RS!Event
    <2> QED BY <1>1, <1>2, <2>1
<1>3. CASE h.tag = "WantsOutputs" /\ tr \notin ReceiverCancel(h)
    <2>1. ReceiverMethods(h) = ReceiverCancel(h) \cup WantsOutputs(h)
        BY <1>3 DEF ReceiverMethods
    <2> QED BY <1>3, <2>1 DEF WantsOutputs, Commits
<1>4. CASE h.tag = "WantsInputs" /\ tr \notin ReceiverCancel(h)
    <2>1. ReceiverMethods(h) = ReceiverCancel(h) \cup WantsInputs(h)
        BY <1>4 DEF ReceiverMethods
    <2> QED BY <1>4, <2>1 DEF WantsInputs, Commits
<1> QED BY <1>2, <1>3, <1>4

(* A proposal that was reworked. *)
WithPsbt(s, p) == [s EXCEPT !.psbt = p]

(* They make the same of the state the log ends in. *)
LEMMA ReworkedApply ==
    ASSUME role = "Receiver", NEW s \in ReceiverStates, NEW p, NEW h, h = WithPsbt(s, p),
           h.tag \in {"WantsOutputs", "WantsInputs"}, NEW e, Commits(h, e)
    PROVE  apply(s, e) = apply(h, e)
<1>0. h.tag = s.tag /\ h.change = s.change
    BY DEF ReceiverStates, WithPsbt
<1>1. apply(s, e) = RS!process_event(s, e) /\ apply(h, e) = RS!process_event(h, e)
    BY <1>0 DEF apply, Commits
<1>2. CASE e.kind = "Cancelled"
    <2>1. RS!process_event(s, e) = RS!PendingFallback(s)
        BY <1>0, <1>2 DEF RS!process_event, RS!try_pending_fallback, RS!FallbackTags
    <2>2. RS!process_event(h, e) = RS!PendingFallback(h)
        BY <1>2 DEF RS!process_event, RS!try_pending_fallback, RS!FallbackTags
    <2>3. RS!PendingFallback(s) = RS!PendingFallback(h)
        BY DEF RS!PendingFallback, ReceiverStates, WithPsbt
    <2> QED BY <1>1, <2>1, <2>2, <2>3
<1>3. CASE e.kind = "CommittedOutputs" /\ h.tag = "WantsOutputs"
    <2>1. RS!process_event(s, e) = RS!apply_committed_outputs(s, e)
        BY <1>0, <1>3 DEF RS!process_event
    <2>2. RS!process_event(h, e) = RS!apply_committed_outputs(h, e)
        BY <1>3 DEF RS!process_event
    <2>3. [s EXCEPT !.tag = "WantsInputs", !.psbt = e.psbt, !.change = e.change]
            = [h EXCEPT !.tag = "WantsInputs", !.psbt = e.psbt, !.change = e.change]
        BY DEF ReceiverStates, WithPsbt
    <2>4. RS!apply_committed_outputs(s, e) = RS!apply_committed_outputs(h, e)
        BY <2>3, Zenon DEF RS!apply_committed_outputs
    <2> QED BY <1>1, <2>1, <2>2, <2>4
<1>4. CASE e.kind = "CommittedInputs" /\ h.tag = "WantsInputs"
    <2>1. RS!process_event(s, e) = RS!apply_committed_inputs(s, e)
        BY <1>0, <1>4 DEF RS!process_event
    <2>2. RS!process_event(h, e) = RS!apply_committed_inputs(h, e)
        BY <1>4 DEF RS!process_event
    <2>3. [s EXCEPT !.tag = "WantsFeeRange", !.psbt = e.psbt]
            = [h EXCEPT !.tag = "WantsFeeRange", !.psbt = e.psbt]
        BY DEF ReceiverStates, WithPsbt
    <2>4. RS!apply_committed_inputs(s, e) = RS!apply_committed_inputs(h, e)
        BY <1>0, <2>3, Zenon DEF RS!apply_committed_inputs
    <2> QED BY <1>1, <2>1, <2>2, <2>4
<1> QED BY <1>2, <1>3, <1>4 DEF Commits

-----------------------------------------------------------------------------
(* A step that keeps the role keeps what is defined from it *)

(* Events apply as before. *)
LEMMA SameApply ==
    ASSUME role' = role
    PROVE  \A s, e : apply(s, e)' = apply(s, e)
BY DEF apply

(* The builder is the same. *)
LEMMA SameBuilder == Builder' = Builder
BY DEF Builder, RS!Move, RS!Initialized

(* Sessions are sessions. *)
LEMMA SameSession ==
    ASSUME role' = role
    PROVE  \A s : Session(s)' = Session(s)
BY DEF Session, ReceiverState, SenderState

(* They tell the same. *)
LEMMA SameTalk ==
    ASSUME role' = role
    PROVE  /\ Silent' = Silent /\ Speaking' = Speaking
           /\ \A s : Telling(s)' = Telling(s)
BY DEF Silent, Speaking, Telling

(* A closing transition is the same. *)
LEMMA SameEnded ==
    ASSUME role' = role
    PROVE  \A h, o, result : Ended(h, o, result)' = Ended(h, o, result)
BY DEF Ended

(* So are all the transitions of a handle. *)
LEMMA SameMethods ==
    ASSUME role' = role
    PROVE  \A h : Methods(h)' = Methods(h)
<1>1. ASSUME NEW h PROVE ReceiverCancel(h)' = ReceiverCancel(h)
    BY SameEnded, Zenon DEF ReceiverCancel
<1>2. ASSUME NEW h PROVE /\ Initialized(h)' = Initialized(h)
                         /\ HasReplyableError(h)' = HasReplyableError(h)
                         /\ Monitor(h)' = Monitor(h)
                         /\ ReceiverPendingFallback(h)' = ReceiverPendingFallback(h)
    BY SameEnded, Zenon DEF Initialized, HasReplyableError, Monitor, ReceiverPendingFallback
<1>3. ASSUME NEW h PROVE /\ WithReplyKey(h)' = WithReplyKey(h)
                         /\ PollingForProposal(h)' = PollingForProposal(h)
                         /\ SenderPendingFallback(h)' = SenderPendingFallback(h)
    BY SameEnded, Zenon DEF WithReplyKey, PollingForProposal, SenderPendingFallback
<1>4. ASSUME NEW h PROVE ReceiverMethods(h)' = ReceiverMethods(h)
    BY <1>1, <1>2, Zenon DEF ReceiverMethods
<1>5. ASSUME NEW h PROVE SenderMethods(h)' = SenderMethods(h)
    BY <1>3, Zenon DEF SenderMethods, SenderCancel
<1> QED BY <1>4, <1>5 DEF Methods

-----------------------------------------------------------------------------
(* Where a handle is *)

(* A handle at the place of a session's state is a state of a session, and its
   transitions continue the session. *)
LEMMA MethodsSound ==
    ASSUME NEW s, s = Builder \/ Session(s), NEW h, SamePlace(h, s)
    PROVE  /\ h = Builder \/ Session(h)
           /\ h.tag = s.tag
           /\ \A tr \in Methods(h) : SoundFrom(tr, h, s)
<1>0. Builder.tag = "Builder" /\ \A p : [Builder EXCEPT !.psbt = p].tag = "Builder"
    BY DEF Builder, RS!Move, RS!Initialized
<1>1. CASE h = s
    <2>1. ASSUME NEW tr \in Methods(h) PROVE Sound(tr, h)
        BY <1>1, <2>1, ReceiverCreated, ReceiverSound, SenderCreated, SenderSound DEF Methods,
           Session
    <2> QED BY <1>1, <2>1, Zenon DEF Sound, SoundFrom
<1>2. CASE h # s
    <2>1. role = "Receiver" /\ h.tag \in {"WantsOutputs", "WantsInputs"}
        BY <1>2 DEF SamePlace
    <2>2. PICK p \in Payloads \cup Proposals : h = [s EXCEPT !.psbt = p]
        BY <1>2 DEF SamePlace
    <2>3. ReceiverState(s)
        BY <1>0, <2>1, <2>2 DEF Session
    <2>4. s \in ReceiverStates
        BY <2>3 DEF ReceiverState
    <2>5. h.tag = s.tag /\ h.original = s.original /\ h.psbt = p /\ h \in ReceiverStates
        BY <2>2, <2>4 DEF ReceiverStates
    <2>6. ReceiverState(h)
        BY <2>1, <2>3, <2>5 DEF ReceiverState, Working
    <2>7. ASSUME NEW tr \in Methods(h) PROVE SoundFrom(tr, h, s)
        <3>1. tr \in ReceiverMethods(h)
            BY <2>1, <2>7 DEF Methods
        <3>2. PICK e : tr = Progress(h, e) /\ Commits(h, e)
            BY <2>1, <2>6, <3>1, ReworkedEvents
        <3>3. tr.from = h /\ tr.event = <<e>> /\ tr.result = "Ok"
            BY <3>2, Zenon DEF Progress, Transition
        <3>4. Sound(tr, h)
            BY <2>1, <2>6, <3>1, ReceiverSound
        <3>5. Step(h, e, apply(h, e))
            <4>1. tr.event # <<>>
                BY <3>3
            <4>2. PICK x : tr.event = <<x>> /\ Step(h, x, apply(h, x))
                BY <3>4, <4>1, Zenon DEF Sound
            <4>3. x = e
                BY <3>3, <4>2
            <4> QED BY <4>2, <4>3
        <3>6. apply(s, e) = apply(h, e)
            <4>1. h = WithPsbt(s, p)
                BY <2>2 DEF WithPsbt
            <4> QED BY <2>1, <2>4, <3>2, <4>1, ReworkedApply, Zenon
        <3>7. h.tag \notin Speaking
            BY <2>1 DEF Speaking
        <3>8. Step(s, e, apply(h, e))
            BY <2>5, <3>5, <3>6, <3>7, Zenon DEF Step
        <3> QED BY <3>3, <3>8 DEF SoundFrom
    <2>8. Session(h)
        BY <2>1, <2>6 DEF Session
    <2> QED BY <2>5, <2>7, <2>8
<1> QED BY <1>1, <1>2

-----------------------------------------------------------------------------
(* Sequences *)

(* A sequence, of whatever elements. *)
IsSeq(q) == \E T : q \in Seq(T)

(* One more element at the end. *)
LEMMA Appended ==
    ASSUME NEW q, IsSeq(q), NEW e
    PROVE  /\ IsSeq(q \o <<e>>) /\ q \o <<e>> = Append(q, e)
           /\ Len(q) \in Nat /\ Len(q \o <<e>>) = Len(q) + 1
           /\ \A i \in 1..Len(q) : (q \o <<e>>)[i] = q[i]
           /\ (q \o <<e>>)[Len(q) + 1] = e
           /\ q = <<>> <=> Len(q) = 0
           /\ DOMAIN q = 1..Len(q)
<1>1. PICK T : q \in Seq(T)
    BY DEF IsSeq
<1>2. q \in Seq(T \cup {e}) /\ <<e>> \in Seq(T \cup {e}) /\ Len(<<e>>) = 1
    BY <1>1
<1>3. q \o <<e>> \in Seq(T \cup {e})
    BY <1>2
<1>4. q \o <<e>> = Append(q, e)
    BY <1>2
<1> QED BY <1>1, <1>2, <1>3, <1>4 DEF IsSeq

(* The order on the naturals, as a relation. *)
Less == {p \in Nat \X Nat : p[1] < p[2]}

(* A set of naturals has a least element. *)
LEMMA LeastIndex ==
    ASSUME NEW T \in SUBSET Nat, T # {}
    PROVE  \E m \in T : \A k \in T : m <= k
<1>1. IsWellFoundedOn(Less, Nat)
    BY NatLessThanWellFounded DEF OpToRel, Less
<1>2. PICK m \in T : \A k \in T : ~ (<<k, m>> \in Less)
    BY <1>1, WFMin
<1>3. ASSUME NEW k \in T PROVE m <= k
    <2>1. <<k, m>> \in Nat \X Nat
        OBVIOUS
    <2>2. ~ (k < m)
        BY <1>2, <2>1 DEF Less
    <2> QED BY <2>2
<1> QED BY <1>3

-----------------------------------------------------------------------------
(* The inductive invariant *)

(* The state the log ends in. *)
Ending == IF log = <<>> THEN Builder ELSE trace[Len(log)]

(* Every event applies to the state the log before it replays to. *)
LogInv ==
    /\ IsSeq(log) /\ IsSeq(trace) /\ Len(trace) = Len(log)
    /\ \A i \in 1..Len(log) :
          /\ trace[i] = apply(IF i = 1 THEN Builder ELSE trace[i - 1], log[i])
          /\ Session(trace[i])
          /\ log[i].kind = "Created" <=> i = 1

(* A transition object holds a transition of its handle until it is saved. *)
ValueInv ==
    /\ value = [t \in Cells |-> value[t]]
    /\ \A t \in Cells : /\ t \in begun => value[t] = {}
                        /\ \A tr \in value[t] : tr \in Methods(tr.from) /\ (tr.from = Builder \/ Session(tr.from))

(* A save in progress. *)
Saving(v) ==
    /\ v = [tr |-> v.tr, step |-> v.step]
    /\ v.tr \in Methods(v.tr.from)
    /\ \/ v.step = "save" /\ SamePlace(v.tr.from, Ending)
       \/ v.step = "close" /\ v.tr.closes /\ v.tr.result # "Transient"

(* There is one handle, or one save in progress, or neither. *)
HandleInv ==
    \/ live = {} /\ saves = {}
    \/ saves = {} /\ \E h : live = {h} /\ SamePlace(h, Ending)
    \/ live = {} /\ \E v : saves = {v} /\ Saving(v)

(* What was told, or a request of a handle the host has can tell. *)
Said == sent \cup {Telling(h) : h \in {x \in Handles : x.tag \in Speaking}}

(* It is what the session tells now, or told last. *)
SentInv ==
    \A m \in Said : /\ \A n \in Said : m = n
                    /\ Ending.tag \notin Silent
                    /\ Ending.tag \in Speaking => m = Telling(Ending)

(* All of it. *)
BindInv == LogInv /\ ValueInv /\ HandleInv /\ SentInv

(* It holds as long as the host has not forked the session. *)
ForkInv == forks \in Nat /\ (forks = 0 => BindInv)

(* Only what a state s tells may become sayable. *)
SaysNoMore(s) ==
    \A m \in Said' : m \in Said \/ (s.tag \in Speaking /\ m = Telling(s))

(* The log ends in a state of a session. *)
LEMMA EndingSession ==
    ASSUME LogInv
    PROVE  /\ Ending = Builder \/ Session(Ending)
           /\ log = <<>> => Ending = Builder
           /\ log # <<>> => Ending = trace[Len(log)] /\ Session(Ending)
           /\ Len(log) \in Nat
           /\ log = <<>> <=> Len(log) = 0
           /\ DOMAIN log = 1..Len(log)
           /\ Ending.tag = "Builder" <=> log = <<>>
<1>1. Len(log) \in Nat /\ (log = <<>> <=> Len(log) = 0) /\ DOMAIN log = 1..Len(log)
    BY Appended DEF LogInv
<1>2. log # <<>> => Ending = trace[Len(log)] /\ Session(Ending)
    BY <1>1 DEF LogInv, Ending
<1>3. Builder.tag = "Builder" /\ \A s : Session(s) => s.tag # "Builder"
    BY DEF Builder, RS!Move, RS!Initialized, Session, ReceiverState, ReceiverStates, ReceiverTags,
           SenderState, SenderTags, Working, Checking
<1> QED BY <1>1, <1>2, <1>3 DEF Ending

(* Saving an event e of the session, with the log ending in the state n. *)
LEMMA StoredKeeps ==
    ASSUME LogInv, SentInv, role' = role, NEW e, NEW n, Step(Ending, e, n), SaysNoMore(n),
           log' = log \o <<e>>, trace' = Append(trace, n)
    PROVE  LogInv' /\ SentInv' /\ Ending' = n
<1>1. /\ IsSeq(log') /\ IsSeq(trace') /\ Len(log) \in Nat /\ Len(log') = Len(log) + 1
      /\ Len(trace') = Len(trace) + 1 /\ Len(trace) = Len(log)
      /\ \A i \in 1..Len(log) : log'[i] = log[i] /\ trace'[i] = trace[i]
      /\ log'[Len(log) + 1] = e /\ trace'[Len(log) + 1] = n
    <2>1. IsSeq(log) /\ IsSeq(trace) /\ Len(trace) = Len(log)
        BY DEF LogInv
    <2>2. trace' = trace \o <<n>>
        BY <2>1, Appended
    <2>3. /\ IsSeq(log') /\ Len(log) \in Nat /\ Len(log') = Len(log) + 1
          /\ \A i \in 1..Len(log) : log'[i] = log[i]
          /\ log'[Len(log) + 1] = e
        BY <2>1, Appended
    <2>4. /\ IsSeq(trace') /\ Len(trace') = Len(trace) + 1
          /\ \A i \in 1..Len(trace) : trace'[i] = trace[i]
          /\ trace'[Len(trace) + 1] = n
        <3> DEFINE q == trace \o <<n>>
        <3>1. /\ IsSeq(q) /\ Len(q) = Len(trace) + 1
              /\ \A i \in 1..Len(trace) : q[i] = trace[i]
              /\ q[Len(trace) + 1] = n
            BY <2>1, Appended
        <3>2. trace' = q
            BY <2>2
        <3> HIDE DEF q
        <3> QED BY <3>1, <3>2, Zenon
    <2> QED BY <2>1, <2>3, <2>4
<1>2. Ending' = n
    <2>1. log' # <<>>
        BY <1>1
    <2> QED BY <1>1, <2>1 DEF Ending
<1>3. ASSUME NEW i \in 1..Len(log')
      PROVE  /\ trace'[i] = apply(IF i = 1 THEN Builder ELSE trace'[i - 1], log'[i])
             /\ Session(trace'[i])
             /\ log'[i].kind = "Created" <=> i = 1
    <2>1. CASE i \in 1..Len(log)
        <3>1. /\ trace[i] = apply(IF i = 1 THEN Builder ELSE trace[i - 1], log[i])
              /\ Session(trace[i]) /\ (log[i].kind = "Created" <=> i = 1)
            BY <2>1 DEF LogInv
        <3>2. trace'[i] = trace[i] /\ log'[i] = log[i] /\ (i # 1 => trace'[i - 1] = trace[i - 1])
            BY <1>1, <2>1
        <3>3. (IF i = 1 THEN Builder ELSE trace'[i - 1]) = (IF i = 1 THEN Builder ELSE trace[i - 1])
            BY <3>2
        <3> QED BY <3>1, <3>2, <3>3, Zenon
    <2>2. CASE i = Len(log) + 1
        <3>1. Ending = IF i = 1 THEN Builder ELSE trace'[i - 1]
            BY <1>1, <2>2, EndingSession
        <3>2. n = apply(Ending, e) /\ Session(n) /\ (e.kind = "Created" <=> Ending.tag = "Builder")
            BY DEF Step
        <3>3. trace'[i] = n /\ log'[i] = e
            BY <1>1, <2>2
        <3>4. Ending.tag = "Builder" <=> i = 1
            BY <1>1, <2>2, EndingSession
        <3> QED BY <3>1, <3>2, <3>3, <3>4, Zenon
    <2> QED BY <1>1, <2>1, <2>2
<1>4. LogInv'
    <2>1. \A i \in 1..Len(log') :
             /\ trace'[i] = apply(IF i = 1 THEN Builder ELSE trace[i - 1], log[i])'
             /\ Session(trace[i])'
        BY <1>3 DEF apply, Session, ReceiverState, SenderState
    <2> QED BY <1>1, <1>3, <2>1 DEF LogInv
<1>5. ASSUME NEW m \in Said
      PROVE  n.tag \notin Silent /\ (n.tag \in Speaking => m = Telling(n))
    <2>1. Ending.tag \notin Silent /\ (Ending.tag \in Speaking => m = Telling(Ending))
        BY DEF SentInv
    <2> QED BY <2>1 DEF Step
<1>6. SentInv'
    <2>1. n.tag \in Speaking => n.tag \notin Silent
        BY DEF Step, Speaking, Silent, Checking
    <2>2. ASSUME NEW m \in Said'
          PROVE  n.tag \notin Silent /\ (n.tag \in Speaking => m = Telling(n))
        BY <1>5, <2>1 DEF SaysNoMore
    <2>3. ASSUME NEW m \in Said', NEW k \in Said' PROVE m = k
        BY <2>2 DEF SaysNoMore, SentInv
    <2>4. Silent' = Silent /\ Speaking' = Speaking /\ Telling(Ending)' = Telling(n)
        BY <1>2, SameTalk DEF Telling
    <2> QED BY <1>2, <2>2, <2>3, <2>4 DEF SentInv
<1> QED BY <1>2, <1>4, <1>6

(* A step that saves nothing. *)
LEMMA LogUnchanged ==
    ASSUME LogInv, UNCHANGED <<log, trace, role>>
    PROVE  /\ LogInv' /\ Ending' = Ending
           /\ (SentInv /\ SaysNoMore(Ending)) => SentInv'
           /\ \A h : SamePlace(h, Ending)' <=> SamePlace(h, Ending)
<1>1. Ending' = Ending
    BY DEF Ending
<1>2. LogInv'
    BY SameApply, SameSession DEF LogInv
<1>3. ASSUME SentInv, SaysNoMore(Ending) PROVE SentInv'
    <2>1. Ending.tag \in Speaking => Ending.tag \notin Silent
        BY DEF Speaking, Silent, Checking
    <2>2. ASSUME NEW m \in Said'
          PROVE  Ending.tag \notin Silent /\ (Ending.tag \in Speaking => m = Telling(Ending))
        BY <1>3, <2>1 DEF SaysNoMore, SentInv
    <2>3. ASSUME NEW m \in Said', NEW k \in Said' PROVE m = k
        BY <1>3, <2>2 DEF SaysNoMore, SentInv
    <2>4. Silent' = Silent /\ Speaking' = Speaking /\ Telling(Ending)' = Telling(Ending)
        BY <1>1, SameTalk DEF Telling
    <2> QED BY <1>1, <2>2, <2>3, <2>4 DEF SentInv
<1>4. \A h : SamePlace(h, Ending)' <=> SamePlace(h, Ending)
    BY <1>1 DEF SamePlace
<1> QED BY <1>1, <1>2, <1>3, <1>4

-----------------------------------------------------------------------------
(* The host makes and uses transition objects *)

(* What is held does not change while the log does not. *)
LEMMA HeldUnchanged ==
    ASSUME LogInv, UNCHANGED <<log, trace, role>>
    PROVE  /\ \A v : Saving(v)' <=> Saving(v)
           /\ (HandleInv /\ UNCHANGED <<live, saves>>) => HandleInv'
<1>1. \A v : Saving(v)' <=> Saving(v)
    BY LogUnchanged, SameMethods DEF Saving
<1> QED BY <1>1, LogUnchanged DEF HandleInv

(* Transition objects are kept or emptied. *)
LEMMA ValuesKept ==
    ASSUME ValueInv, UNCHANGED role, value' = [t \in Cells |-> value'[t]],
           \A t \in Cells : \/ value'[t] = {}
                            \/ value'[t] = value[t] /\ (t \in begun' => t \in begun)
    PROVE  ValueInv'
<1>1. ASSUME NEW t \in Cells PROVE /\ t \in begun' => value'[t] = {}
                                   /\ \A tr \in value'[t] : tr \in Methods(tr.from) /\ (tr.from = Builder \/ Session(tr.from))
    BY <1>1 DEF ValueInv
<1> QED BY <1>1, SameMethods, SameSession, SameBuilder DEF ValueInv

(* No handle but the one at s becomes available. *)
LEMMA HandlesKept ==
    ASSUME UNCHANGED <<role, sent>>, NEW s,
           \A h \in Handles' : h \in Handles \/ h.tag \notin Speaking \/ h = s
    PROVE  SaysNoMore(s)
<1>1. Speaking' = Speaking /\ \A h : Telling(h)' = Telling(h)
    BY SameTalk
<1>2. ASSUME NEW m \in Said', m \notin sent PROVE m \in Said \/ (s.tag \in Speaking /\ m = Telling(s))
    <2>1. PICK h \in Handles' : h.tag \in Speaking' /\ m = Telling(h)'
        BY <1>2 DEF Said
    <2>2. h.tag \in Speaking /\ m = Telling(h)
        BY <1>1, <2>1
    <2> QED BY <2>1, <2>2 DEF Said
<1> QED BY <1>2 DEF SaysNoMore, Said

(* The same, when objects are kept or emptied. *)
LEMMA ObjectsKept ==
    ASSUME UNCHANGED <<role, sent>>, NEW s, \A t \in Cells : value'[t] \in {{}, value[t]},
           \A h \in live' : h \in live \/ h.tag \notin Speaking \/ h = s
    PROVE  SaysNoMore(s)
<1>1. \A h \in Handles' : h \in Handles \/ h.tag \notin Speaking \/ h = s
    BY DEF Handles
<1> QED BY <1>1, HandlesKept

(* A state at the end of the log tells what the end of the log tells. *)
LEMMA SpeakingEnding ==
    ASSUME NEW h, SamePlace(h, Ending)
    PROVE  h.tag \notin Speaking \/ h = Ending
BY DEF SamePlace, Speaking

(* A handle that is held. *)
LEMMA LiveHandle ==
    ASSUME LogInv, HandleInv, NEW h \in live
    PROVE  /\ live = {h} /\ saves = {} /\ SamePlace(h, Ending)
           /\ h.tag = Ending.tag
           /\ h = Builder \/ Session(h)
           /\ \A tr \in Methods(h) : SoundFrom(tr, h, Ending)
<1>1. live = {h} /\ saves = {} /\ SamePlace(h, Ending)
    BY DEF HandleInv
<1>2. Ending = Builder \/ Session(Ending)
    BY EndingSession
<1> QED BY <1>1, <1>2, MethodsSound

(* A save in progress. *)
LEMMA LiveSave ==
    ASSUME LogInv, HandleInv, NEW v \in saves
    PROVE  /\ live = {} /\ saves = {v} /\ Saving(v)
           /\ v.step = "save" => SoundFrom(v.tr, v.tr.from, Ending)
<1>1. live = {} /\ saves = {v} /\ Saving(v)
    BY DEF HandleInv
<1>2. Ending = Builder \/ Session(Ending)
    BY EndingSession
<1>3. v.step = "save" => SamePlace(v.tr.from, Ending)
    BY <1>1 DEF Saving
<1> QED BY <1>1, <1>2, <1>3, MethodsSound DEF Saving

(* A method is called on a handle. *)
LEMMA CallKeeps ==
    ASSUME BindInv, NEW t \in Cells, call(t)
    PROVE  BindInv'
<1>0. LogInv /\ ValueInv /\ HandleInv /\ SentInv
    BY DEF BindInv
<1>1. UNCHANGED <<log, trace, live, role, begun, saves, sent>>
    BY DEF call, persistVars
<1>2. PICK h \in Handles : \E tr \in Methods(h) : value' = [value EXCEPT ![t] = {tr}]
    BY DEF call, Methods
<1>3. PICK tr \in Methods(h) : value' = [value EXCEPT ![t] = {tr}]
    BY <1>2
<1>4. tr.from = h /\ (h = Builder \/ Session(h))
    <2>1. h = Builder \/ Session(h)
        BY <1>0, LiveHandle DEF Handles, ValueInv
    <2>2. SamePlace(h, h)
        BY DEF SamePlace
    <2> QED BY <2>1, <2>2, MethodsSound DEF SoundFrom
<1>5. t \notin begun
    BY DEF call
<1>6. value' = [c \in Cells |-> value'[c]] /\ \A c \in Cells : value'[c] = IF c = t THEN {tr} ELSE value[c]
    BY <1>0, <1>3 DEF ValueInv
<1>7. ASSUME NEW c \in Cells PROVE /\ c \in begun' => value'[c] = {}
                                   /\ \A x \in value'[c] : x \in Methods(x.from) /\ (x.from = Builder \/ Session(x.from))
    BY <1>0, <1>1, <1>3, <1>4, <1>5, <1>6 DEF ValueInv
<1>8. ValueInv'
    BY <1>1, <1>6, <1>7, SameMethods, SameSession, SameBuilder DEF ValueInv
<1>9. SaysNoMore(Ending)
    <2>1. \A x \in Handles' : x \in Handles
        <3>1. ASSUME NEW c \in Cells, NEW x \in value'[c] PROVE x.from \in Handles
            BY <1>4, <1>6 DEF Handles
        <3> QED BY <1>1, <3>1 DEF Handles
    <2> QED BY <1>1, <2>1, HandlesKept
<1> QED BY <1>0, <1>1, <1>8, <1>9, LogUnchanged, HeldUnchanged DEF BindInv

(* A handle is reworked: it stays at the same place. *)
LEMMA ReworkKeeps ==
    ASSUME BindInv, NEW h \in live, rework(h)
    PROVE  BindInv'
<1>0. LogInv /\ ValueInv /\ HandleInv /\ SentInv
    BY DEF BindInv
<1>1. /\ UNCHANGED <<log, trace, role, value, begun, saves, sent>>
      /\ h.tag \in {"WantsOutputs", "WantsInputs"}
    BY DEF rework, bindVars
<1>2. PICK p \in RS!Reworked(h.psbt) : live' = (live \ {h}) \cup {[h EXCEPT !.psbt = p]}
    BY DEF rework
<1>3. live = {h} /\ saves = {} /\ SamePlace(h, Ending) /\ (h = Builder \/ Session(h))
    BY <1>0, LiveHandle
<1>4. role = "Receiver" /\ ReceiverState(h)
    BY <1>1, <1>3 DEF Session, SenderState, SenderTags, Builder, RS!Move, RS!Initialized
<1>5. h.psbt \in Payloads \cup Proposals /\ h \in ReceiverStates
    BY <1>1, <1>4 DEF ReceiverState, Working
<1>6. p \in Payloads \cup Proposals
    BY <1>5 DEF RS!Reworked
<1>7. PICK q : h = [Ending EXCEPT !.psbt = q] \/ h = Ending
    BY <1>3 DEF SamePlace
<1>8. [h EXCEPT !.psbt = p] = [Ending EXCEPT !.psbt = p]
    <2>1. [[Ending EXCEPT !.psbt = q] EXCEPT !.psbt = p] = [Ending EXCEPT !.psbt = p]
        OBVIOUS
    <2> QED BY <1>7, <2>1
<1>9. [h EXCEPT !.psbt = p].tag = h.tag
    BY <1>5 DEF ReceiverStates
<1>10. SamePlace([h EXCEPT !.psbt = p], Ending)
    BY <1>1, <1>4, <1>6, <1>8, <1>9 DEF SamePlace
<1>11. live' = {[h EXCEPT !.psbt = p]}
    BY <1>2, <1>3
<1>12. HandleInv'
    <2> DEFINE n == [h EXCEPT !.psbt = p]
    <2>1. SamePlace(n, Ending) /\ live' = {n} /\ saves' = {}
        BY <1>1, <1>3, <1>10, <1>11
    <2> HIDE DEF n
    <2>2. SamePlace(n, Ending)'
        BY <1>0, <1>1, <2>1, LogUnchanged
    <2> QED BY <2>1, <2>2 DEF HandleInv
<1>13. ValueInv'
    BY <1>0, <1>1, ValuesKept DEF ValueInv
<1>14. SaysNoMore(Ending)
    <2>1. [h EXCEPT !.psbt = p].tag \notin Speaking
        BY <1>1, <1>9 DEF Speaking
    <2> QED BY <1>1, <1>11, <2>1, ObjectsKept
<1> QED BY <1>0, <1>1, <1>12, <1>13, <1>14, LogUnchanged DEF BindInv

(* A request tells what its handle could tell. *)
LEMMA RequestKeeps ==
    ASSUME BindInv, NEW h \in Handles, create_request(h)
    PROVE  BindInv'
<1>0. LogInv /\ ValueInv /\ HandleInv /\ SentInv
    BY DEF BindInv
<1>1. UNCHANGED <<log, trace, live, role, value, begun, saves>> /\ Tells(h)
    BY DEF create_request, persistVars
<1>2. h = Builder \/ Session(h)
    BY <1>0, LiveHandle DEF Handles, ValueInv
<1>3. h.tag \in Speaking /\ sent' = sent \cup {Telling(h)}
    BY <1>1, <1>2 DEF Tells, Speaking, Telling, Session, SenderState, SenderTags, ReceiverState,
       ReceiverStates, ReceiverTags, Working, Checking, Builder, RS!Move, RS!Initialized
<1>4. Telling(h) \in Said
    BY <1>3 DEF Said
<1>5. Handles' = Handles /\ Speaking' = Speaking /\ \A x : Telling(x)' = Telling(x)
    BY <1>1, SameTalk DEF Handles
<1>6. Said' \subseteq Said
    <2>1. ASSUME NEW m \in Said' PROVE m \in Said
        <3>1. CASE m \in sent'
            BY <1>3, <1>4, <3>1 DEF Said
        <3>2. CASE m \notin sent'
            <4>1. PICK x \in Handles' : x.tag \in Speaking' /\ m = Telling(x)'
                BY <3>2 DEF Said
            <4> QED BY <1>5, <4>1 DEF Said
        <3> QED BY <3>1, <3>2
    <2> QED BY <2>1
<1>7. SaysNoMore(Ending)
    BY <1>6 DEF SaysNoMore
<1>8. ValueInv'
    BY <1>0, <1>1, ValuesKept DEF ValueInv
<1> QED BY <1>0, <1>1, <1>7, <1>8, LogUnchanged, HeldUnchanged DEF BindInv

-----------------------------------------------------------------------------
(* Saving *)

(* save() takes the transition out of its object, and the handle from the host. *)
LEMMA SaveKeeps ==
    ASSUME BindInv, forks = 0, forks' = 0, NEW t \in Cells, save(t)
    PROVE  BindInv'
<1>0. LogInv /\ ValueInv /\ HandleInv /\ SentInv
    BY DEF BindInv
<1>1. UNCHANGED <<log, trace, role, sent>> /\ take(t)
    BY DEF save
<1>2. PICK tr \in value[t] :
         /\ tr.from \in live \/ t \in begun
         /\ value' = [value EXCEPT ![t] = {}]
         /\ saves' = saves \cup {[tr |-> tr, step |-> "save"]}
         /\ live' = live \ {tr.from} /\ begun' = begun \cup {t}
    BY <1>1 DEF take, Begin, ForksUnless
<1>3. tr.from \in live /\ tr \in Methods(tr.from)
    BY <1>0, <1>2 DEF ValueInv
<1>4. live = {tr.from} /\ saves = {} /\ SamePlace(tr.from, Ending)
    BY <1>0, <1>3, LiveHandle
<1> DEFINE v == [tr |-> tr, step |-> "save"]
<1>5. live' = {} /\ saves' = {v} /\ v.tr = tr /\ v.step = "save" /\ v = [tr |-> v.tr, step |-> v.step]
    BY <1>2, <1>4
<1> HIDE DEF v
<1>6. Saving(v)
    BY <1>3, <1>4, <1>5 DEF Saving
<1>7. HandleInv'
    <2>1. Saving(v)'
        BY <1>0, <1>1, <1>6, HeldUnchanged
    <2> QED BY <1>5, <2>1 DEF HandleInv
<1>8. ValueInv'
    <2>1. value' = [c \in Cells |-> value'[c]] /\ \A c \in Cells : value'[c] = IF c = t THEN {} ELSE value[c]
        BY <1>0, <1>2 DEF ValueInv
    <2>2. \A c \in Cells : \/ value'[c] = {}
                           \/ value'[c] = value[c] /\ (c \in begun' => c \in begun)
        BY <1>2, <2>1
    <2> QED BY <1>0, <1>1, <2>1, <2>2, ValuesKept
<1>9. SaysNoMore(Ending)
    <2>1. \A c \in Cells : value'[c] \in {{}, value[c]}
        BY <1>0, <1>2 DEF ValueInv
    <2> QED BY <1>1, <1>5, <2>1, ObjectsKept
<1> QED BY <1>0, <1>1, <1>7, <1>8, <1>9, LogUnchanged DEF BindInv

(* The event of a save is stored: the log ends in the state of the transition. *)
LEMMA StoredStep ==
    ASSUME LogInv, SentInv, HandleInv, NEW v \in saves, v.step = "save", v.tr.event # <<>>,
           Stored(v.tr), role' = role, SaysNoMore(NextOf(v.tr))
    PROVE  LogInv' /\ SentInv' /\ Ending' = NextOf(v.tr) /\ v.tr.result # "Transient"
<1>1. SoundFrom(v.tr, v.tr.from, Ending)
    BY LiveSave
<1>2. PICK e : v.tr.event = <<e>> /\ v.tr.result \in {"Ok", "Fatal"} /\ Step(Ending, e, apply(v.tr.from, e))
    BY <1>1, Zenon DEF SoundFrom
<1>3. NextOf(v.tr) = apply(v.tr.from, e)
    <2>1. v.tr.event[1] = e
        BY <1>2
    <2> QED BY <2>1, Zenon DEF NextOf
<1>4. log' = log \o <<e>> /\ trace' = Append(trace, NextOf(v.tr))
    BY <1>2, Zenon DEF Stored
<1> DEFINE n == NextOf(v.tr)
<1>5. Step(Ending, e, n)
    BY <1>2, <1>3
<1> HIDE DEF n
<1>6. LogInv' /\ SentInv' /\ Ending' = n
    BY <1>4, <1>5, StoredKeeps DEF n
<1> QED BY <1>2, <1>6 DEF n

(* The handle the host goes on with is at the end of the log. *)
LEMMA HandleReturned ==
    ASSUME LogInv', NEW tr, live' = HandleOf(tr), saves' = {},
           tr.result = "Ok" /\ ~tr.closes => Ending' = NextOf(tr),
           tr.result = "Transient" => SamePlace(tr.from, Ending)'
    PROVE  HandleInv'
<1>1. CASE ReportOf(tr) = "Ok" /\ ~tr.closes
    <2>1. tr.result = "Ok" /\ HandleOf(tr) = {NextOf(tr)}
        BY <1>1 DEF HandleOf, ReportOf
    <2>2. live' = {Ending'}
        BY <1>1, <2>1
    <2>3. SamePlace(Ending, Ending)'
        BY DEF SamePlace
    <2> QED BY <2>2, <2>3 DEF HandleInv
<1>2. CASE ReportOf(tr) = "Transient"
    <2>1. tr.result = "Transient" /\ HandleOf(tr) = {tr.from}
        BY <1>2 DEF HandleOf, ReportOf
    <2> QED BY <2>1 DEF HandleInv
<1>3. CASE ReportOf(tr) = "Ok" /\ tr.closes
    <2>1. HandleOf(tr) = {}
        BY <1>3 DEF HandleOf
    <2> QED BY <2>1 DEF HandleInv
<1>4. CASE ReportOf(tr) \notin {"Ok", "Transient"}
    <2>1. HandleOf(tr) = {}
        BY <1>4 DEF HandleOf
    <2> QED BY <2>1 DEF HandleInv
<1> QED BY <1>1, <1>2, <1>3, <1>4

(* The persister's save callback returns or throws. *)
LEMMA StoreKeeps ==
    ASSUME BindInv, NEW v \in saves, save_event_callback(v)
    PROVE  BindInv'
<1>0. LogInv /\ ValueInv /\ HandleInv /\ SentInv
    BY DEF BindInv
<1>1. UNCHANGED <<role, value, begun, sent>> /\ store_event(v)
    BY DEF save_event_callback
<1>2. v.step = "save" /\ v.tr.event # <<>>
    BY <1>1 DEF store_event
<1>3. live = {} /\ saves = {v} /\ Saving(v)
    BY <1>0, LiveSave
<1>4. ValueInv'
    BY <1>0, <1>1, ValuesKept DEF ValueInv
<1>5. CASE Stored(v.tr)
    <2>0. SaysNoMore(NextOf(v.tr))
        <3>1. v.tr.result # "Transient"
            BY <1>0, <1>2, LiveSave DEF SoundFrom
        <3>2. live' \subseteq {NextOf(v.tr)}
            BY <1>1, <1>3, <3>1 DEF store_event, Finish, Answer, HandleOf, ReportOf
        <3> QED BY <1>1, <3>2, ObjectsKept
    <2>1. LogInv' /\ SentInv' /\ Ending' = NextOf(v.tr) /\ v.tr.result # "Transient"
        BY <1>0, <1>1, <1>2, <1>5, <2>0, StoredStep
    <2>2. ASSUME live' = {}, saves' = {} PROVE HandleInv'
        BY <2>2 DEF HandleInv
    <2>3. ASSUME v.tr.closes, saves' = (saves \ {v}) \cup {[v EXCEPT !.step = "close"]}, UNCHANGED live
          PROVE  HandleInv'
        <3> DEFINE w == [v EXCEPT !.step = "close"]
        <3>0. v = [tr |-> v.tr, step |-> v.step]
            BY <1>3 DEF Saving
        <3>1. w.tr = v.tr /\ w.step = "close" /\ w = [tr |-> w.tr, step |-> w.step]
            BY <3>0
        <3>2. live' = {} /\ saves' = {w}
            BY <1>3, <2>3
        <3> HIDE DEF w
        <3>3. Saving(w)
            BY <1>3, <2>1, <2>3, <3>1 DEF Saving
        <3>4. Saving(w)'
            BY <1>1, <2>3, <2>1, <3>1, <3>3, SameMethods DEF Saving
        <3> QED BY <3>2, <3>4 DEF HandleInv
    <2>4. ASSUME Finish(v) PROVE HandleInv'
        <3>1. live' = HandleOf(v.tr) /\ saves' = {}
            BY <1>3, <2>4 DEF Finish, Answer
        <3> QED BY <2>1, <3>1, HandleReturned
    <2>5. HandleInv'
        BY <1>1, <1>3, <2>2, <2>3, <2>4 DEF store_event, Answer
    <2> QED BY <1>4, <2>1, <2>5 DEF BindInv
<1>6. CASE ~ Stored(v.tr)
    <2>1. UNCHANGED <<log, trace>> /\ live' = {} /\ saves' = {}
        BY <1>1, <1>3, <1>6 DEF store_event, Answer, NotSaved
    <2>2. HandleInv'
        BY <2>1 DEF HandleInv
    <2>3. SaysNoMore(Ending)
        BY <1>1, <2>1, ObjectsKept
    <2> QED BY <1>0, <1>1, <1>4, <2>1, <2>2, <2>3, LogUnchanged DEF BindInv
<1> QED BY <1>5, <1>6

(* A transition without an event returns the handle it was made from. *)
LEMMA NoEventKeeps ==
    ASSUME BindInv, NEW v \in saves, no_event(v)
    PROVE  BindInv'
<1>0. LogInv /\ ValueInv /\ HandleInv /\ SentInv
    BY DEF BindInv
<1>1. UNCHANGED <<log, trace, role, value, begun, sent>> /\ Finish(v) /\ v.step = "save" /\ v.tr.event = <<>>
    BY DEF no_event
<1>2. live = {} /\ saves = {v} /\ Saving(v) /\ SoundFrom(v.tr, v.tr.from, Ending)
    BY <1>0, <1>1, LiveSave
<1>3. live' = HandleOf(v.tr) /\ saves' = {}
    BY <1>1, <1>2 DEF Finish, Answer
<1>4. SamePlace(v.tr.from, Ending) /\ NextOf(v.tr) = v.tr.from /\ ~ v.tr.closes
    BY <1>1, <1>2 DEF Saving, NextOf, SoundFrom
<1>a. HandleOf(v.tr) \in {{}, {v.tr.from}}
    BY <1>4 DEF HandleOf, ReportOf
<1>b. SaysNoMore(Ending)
    <2>1. \A h \in live' : h.tag \notin Speaking \/ h = Ending
        BY <1>3, <1>4, <1>a, SpeakingEnding
    <2> QED BY <1>1, <2>1, ObjectsKept
<1>5. LogInv' /\ Ending' = Ending /\ SentInv' /\ SamePlace(v.tr.from, Ending)'
    BY <1>0, <1>1, <1>4, <1>b, LogUnchanged
<1>6. HandleInv'
    BY <1>3, <1>5, <1>a DEF HandleInv
<1>7. ValueInv'
    BY <1>0, <1>1, ValuesKept DEF ValueInv
<1> QED BY <1>5, <1>6, <1>7 DEF BindInv

(* The persister's close callback returns no handle. *)
LEMMA CloseKeeps ==
    ASSUME BindInv, NEW v \in saves, close_callback(v)
    PROVE  BindInv'
<1>0. LogInv /\ ValueInv /\ HandleInv /\ SentInv
    BY DEF BindInv
<1>1. UNCHANGED <<log, trace, role, value, begun, sent>> /\ v.step = "close" /\ (Finish(v) \/ Answer(v, {}))
    BY DEF close_callback
<1>2. live = {} /\ saves = {v} /\ Saving(v)
    BY <1>0, LiveSave
<1>3. v.tr.closes /\ v.tr.result # "Transient"
    BY <1>1, <1>2 DEF Saving
<1>4. HandleOf(v.tr) = {}
    BY <1>3 DEF HandleOf, ReportOf
<1>5. live' = {} /\ saves' = {}
    BY <1>1, <1>2, <1>4 DEF Finish, Answer
<1>6. HandleInv'
    BY <1>5 DEF HandleInv
<1>7. ValueInv'
    BY <1>0, <1>1, ValuesKept DEF ValueInv
<1>8. SaysNoMore(Ending)
    BY <1>1, <1>5, ObjectsKept
<1> QED BY <1>0, <1>1, <1>6, <1>7, <1>8, LogUnchanged DEF BindInv

(* A dropped future stored its event or did not. *)
LEMMA DropKeeps ==
    ASSUME BindInv, NEW v \in saves, drop_future(v)
    PROVE  BindInv'
<1>0. LogInv /\ ValueInv /\ HandleInv /\ SentInv
    BY DEF BindInv
<1>1. UNCHANGED <<live, role, value, begun, sent>> /\ saves' = saves \ {v}
    BY DEF drop_future
<1>2. live = {} /\ saves = {v}
    BY <1>0, LiveSave
<1>3. HandleInv'
    BY <1>1, <1>2 DEF HandleInv
<1>4. ValueInv'
    BY <1>0, <1>1, ValuesKept DEF ValueInv
<1>b. \A s : SaysNoMore(s)
    BY <1>1, ObjectsKept
<1>5. CASE v.step = "save" /\ v.tr.event # <<>> /\ Stored(v.tr)
    BY <1>0, <1>1, <1>3, <1>4, <1>5, <1>b, StoredStep DEF BindInv
<1>6. CASE ~ (v.step = "save" /\ v.tr.event # <<>> /\ Stored(v.tr))
    <2>1. UNCHANGED <<log, trace>>
        BY <1>6 DEF drop_future, NotSaved
    <2> QED BY <1>0, <1>1, <1>3, <1>4, <1>b, <2>1, LogUnchanged DEF BindInv
<1> QED BY <1>5, <1>6

-----------------------------------------------------------------------------
(* Replay *)

(* What replay computes: the recursion has one solution, the history. *)
Replays(f) ==
    f = [i \in 0..Len(log) |-> IF i = 0 THEN Builder ELSE apply(f[i - 1], log[i])]

(* Replaying the log gives the state it ends in. *)
LEMMA ReplayedEnding ==
    ASSUME LogInv
    PROVE  Replayed = Ending
<1> DEFINE after == CHOOSE f : Replays(f)
           g == [i \in 0..Len(log) |-> IF i = 0 THEN Builder ELSE trace[i]]
<1>0. Len(log) \in Nat
    BY EndingSession
<1>1. Replayed = after[Len(log)]
    BY DEF Replayed, Replays
<1>2. Replays(g)
    <2>1. ASSUME NEW i \in 0..Len(log), i # 0
          PROVE  trace[i] = apply(g[i - 1], log[i])
        <3>1. i \in 1..Len(log) /\ i - 1 \in 0..Len(log)
            BY <1>0, <2>1
        <3>2. trace[i] = apply(IF i = 1 THEN Builder ELSE trace[i - 1], log[i])
            BY <3>1 DEF LogInv
        <3>3. g[i - 1] = IF i = 1 THEN Builder ELSE trace[i - 1]
            BY <3>1
        <3> HIDE DEF g
        <3> QED BY <3>2, <3>3, Zenon
    <2>2. g = [i \in 0..Len(log) |-> IF i = 0 THEN Builder ELSE apply(g[i - 1], log[i])]
        BY <2>1
    <2> QED BY <2>2 DEF Replays
<1>3. Len(log) \in 0..Len(log) /\ g[Len(log)] = Ending
    BY <1>0, EndingSession
<1> HIDE DEF g
<1>4. Replays(after)
    BY <1>2
<1> HIDE DEF after
<1> DEFINE B == {i \in 0..Len(log) : after[i] # g[i]}
<1>5. B = {}
    <2> SUFFICES ASSUME B # {} PROVE FALSE
        OBVIOUS
    <2>0. B \in SUBSET Nat
        BY <1>0
    <2>1. PICK m \in B : \A k \in B : m <= k
        <3> HIDE DEF B
        <3> QED BY <2>0, LeastIndex
    <2>2. m \in 0..Len(log) /\ m \in Nat /\ after[m] # g[m]
        BY <2>1
    <2>3. /\ after[m] = IF m = 0 THEN Builder ELSE apply(after[m - 1], log[m])
          /\ g[m] = IF m = 0 THEN Builder ELSE apply(g[m - 1], log[m])
        BY <1>2, <1>4, <2>2 DEF Replays
    <2>4. m # 0 => m - 1 \in 0..Len(log) /\ m - 1 \notin B
        BY <1>0, <2>1, <2>2
    <2>5. m # 0 => after[m - 1] = g[m - 1]
        BY <2>4
    <2> QED BY <2>2, <2>3, <2>5, Zenon
<1>6. after[Len(log)] = g[Len(log)]
    BY <1>5, <1>3
<1> QED BY <1>1, <1>6, <1>3

(* Replay gives the host the state the log ends in, or nothing. *)
LEMMA ReplayKeeps ==
    ASSUME BindInv, forks = 0, forks' = 0, replay_event_log
    PROVE  BindInv'
<1>0. LogInv /\ ValueInv /\ HandleInv /\ SentInv
    BY DEF BindInv
<1>1. UNCHANGED <<log, trace, role, value, begun, saves, sent>> /\ saves = {}
    BY DEF replay_event_log, ForksUnless
<1>2. live' = live \/ live' = {Ending}
    BY <1>0, <1>1, ReplayedEnding DEF replay_event_log
<1>3. SamePlace(Ending, Ending)'
    BY DEF SamePlace
<1>4. Ending' = Ending
    BY <1>0, <1>1, LogUnchanged
<1>5. HandleInv'
    BY <1>0, <1>1, <1>2, <1>3, <1>4, HeldUnchanged DEF HandleInv
<1>6. ValueInv'
    BY <1>0, <1>1, ValuesKept DEF ValueInv
<1>7. SaysNoMore(Ending)
    BY <1>1, <1>2, ObjectsKept
<1> QED BY <1>0, <1>1, <1>5, <1>6, <1>7, LogUnchanged DEF BindInv

(* A crash loses all handles and objects. *)
LEMMA CrashKeeps ==
    ASSUME BindInv, Crash
    PROVE  BindInv'
<1>0. LogInv /\ ValueInv /\ HandleInv /\ SentInv
    BY DEF BindInv
<1>1. /\ UNCHANGED <<log, trace, role, sent>> /\ live' = {} /\ saves' = {}
      /\ value' = [t \in Cells |-> {}] /\ begun' = {}
    BY DEF Crash
<1>2. HandleInv'
    BY <1>1 DEF HandleInv
<1>3. ValueInv'
    BY <1>0, <1>1, ValuesKept
<1>4. SaysNoMore(Ending)
    BY <1>1, ObjectsKept
<1> QED BY <1>0, <1>1, <1>2, <1>3, <1>4, LogUnchanged DEF BindInv

(* An object is dropped. *)
LEMMA DropTransitionKeeps ==
    ASSUME BindInv, NEW t \in Cells, drop_transition(t)
    PROVE  BindInv'
<1>0. LogInv /\ ValueInv /\ HandleInv /\ SentInv
    BY DEF BindInv
<1>1. /\ UNCHANGED <<log, trace, live, role, saves, sent>>
      /\ value' = [value EXCEPT ![t] = {}] /\ begun' = begun \ {t}
    BY DEF drop_transition, persistVars
<1>2. value' = [c \in Cells |-> value'[c]] /\ \A c \in Cells : value'[c] = IF c = t THEN {} ELSE value[c]
    BY <1>0, <1>1 DEF ValueInv
<1>3. ValueInv'
    BY <1>0, <1>1, <1>2, ValuesKept
<1>4. SaysNoMore(Ending)
    BY <1>1, <1>2, ObjectsKept
<1> QED BY <1>0, <1>1, <1>3, <1>4, LogUnchanged, HeldUnchanged DEF BindInv

(* Time passes. *)
LEMMA IdleKeeps ==
    ASSUME BindInv, UNCHANGED <<log, trace, live, role, value, begun, saves, sent>>
    PROVE  BindInv'
<1>0. LogInv /\ ValueInv /\ HandleInv /\ SentInv
    BY DEF BindInv
<1>1. ValueInv'
    BY <1>0, ValuesKept DEF ValueInv
<1>2. SaysNoMore(Ending)
    BY ObjectsKept
<1> QED BY <1>0, <1>1, <1>2, LogUnchanged, HeldUnchanged DEF BindInv

(* The invariant holds at first. *)
LEMMA InitBind == Init => ForkInv
<1> SUFFICES ASSUME Init PROVE ForkInv
    OBVIOUS
<1>1. log = <<>> /\ trace = <<>> /\ live = {Builder} /\ saves = {} /\ sent = {} /\ begun = {}
      /\ value = [t \in Cells |-> {}] /\ forks = 0
    BY DEF Init
<1>2. LogInv
    <2>1. IsSeq(<<>>) /\ Len(<<>>) = 0
        BY DEF IsSeq
    <2> QED BY <1>1, <2>1 DEF LogInv
<1>3. SamePlace(Builder, Ending)
    BY <1>1 DEF SamePlace, Ending
<1>4. HandleInv
    BY <1>1, <1>3 DEF HandleInv
<1>5. ValueInv
    BY <1>1 DEF ValueInv
<1>6. SentInv
    <2>1. Handles = {Builder} /\ Builder.tag \notin Speaking
        BY <1>1 DEF Handles, Speaking, Builder, RS!Move, RS!Initialized
    <2>2. Said = {}
        BY <1>1, <2>1 DEF Said
    <2> QED BY <2>2 DEF SentInv
<1> QED BY <1>1, <1>2, <1>4, <1>5, <1>6 DEF BindInv, ForkInv

(* Every step keeps it. *)
LEMMA NextBind == ForkInv /\ [Next]_vars => ForkInv'
<1> SUFFICES ASSUME ForkInv, [Next]_vars PROVE ForkInv'
    OBVIOUS
<1>0. forks \in Nat
    BY DEF ForkInv
<1>1. forks' \in {forks, forks + 1}
    BY DEF Next, call, save, take, Begin, drop_transition, rework, create_request,
       save_event_callback, no_event, close_callback, drop_future, replay_event_log, Crash,
       Expire, vars, bindVars, ForksUnless
<1> SUFFICES ASSUME forks' = 0 PROVE BindInv'
    BY <1>0, <1>1 DEF ForkInv
<1>2. forks = 0 /\ BindInv
    BY <1>0, <1>1 DEF ForkInv
<1>3. CASE \E t \in Cells : call(t) \/ save(t) \/ drop_transition(t)
    BY <1>2, <1>3, CallKeeps, SaveKeeps, DropTransitionKeeps
<1>4. CASE \E h \in live : rework(h)
    BY <1>2, <1>4, ReworkKeeps
<1>5. CASE \E h \in Handles : create_request(h)
    BY <1>2, <1>5, RequestKeeps
<1>6. CASE \E v \in saves : save_event_callback(v) \/ no_event(v) \/ close_callback(v) \/ drop_future(v)
    BY <1>2, <1>6, StoreKeeps, NoEventKeeps, CloseKeeps, DropKeeps
<1>7. CASE replay_event_log \/ Crash
    BY <1>2, <1>7, ReplayKeeps, CrashKeeps
<1>8. CASE Expire \/ UNCHANGED vars
    <2>1. UNCHANGED <<log, trace, live, role, value, begun, saves, sent>>
        BY <1>8 DEF Expire, vars, persistVars, bindVars
    <2> QED BY <1>2, <2>1, IdleKeeps
<1> QED BY <1>3, <1>4, <1>5, <1>6, <1>7, <1>8 DEF Next

(* The invariant holds of every behaviour of the bindings and their host. *)
THEOREM BindingsInvariant == Spec => []ForkInv
BY InitBind, NextBind, PTL DEF Spec

(* Whatever objects foreign code makes, saves twice or drops, and whichever
   callbacks fail (payjoin-ffi save and save_async), the stored log replays and
   the host is where it ends, until the host saves an object of a handle the
   session has left or replays during a save. *)
THEOREM LogAlwaysReplays == Spec => []StoredLogReplays
<1>1. BindInv => StoredLogReplays
    <2> SUFFICES ASSUME BindInv PROVE StoredLogReplays
        OBVIOUS
    <2>0. LogInv /\ HandleInv
        BY DEF BindInv
    <2>1. \A s : Session(s) => s.tag # "Invalid"
        BY DEF Session, ReceiverState, ReceiverStates, ReceiverTags, SenderState, SenderTags,
           Working, Checking
    <2>2. DOMAIN log = 1..Len(log) /\ (log # <<>> => Ending = trace[Len(log)])
        BY <2>0, EndingSession
    <2>3. \A i \in DOMAIN log :
             /\ trace[i] = apply(IF i = 1 THEN Builder ELSE trace[i - 1], log[i])
             /\ trace[i].tag # "Invalid" /\ (log[i].kind = "Created" <=> i = 1)
        BY <2>0, <2>1, <2>2 DEF LogInv
    <2>4. ASSUME NEW h \in live PROVE h.tag = Ending.tag /\ (h # Ending => h.tag \in {"WantsOutputs", "WantsInputs"})
        BY <2>0, LiveHandle DEF SamePlace
    <2> QED BY <2>0, <2>2, <2>3, <2>4 DEF StoredLogReplays, LogReplays, LogInv
<1>2. ForkInv => StoredLogReplays
    BY <1>1 DEF ForkInv, StoredLogReplays
<1> QED BY <1>2, BindingsInvariant, PTL

(* Through the bindings a session never says two things, one proposal or one
   error, one reply key, until the host forks it, also when it makes requests
   of handles the session has left. *)
THEOREM SaysOneThing == Spec => []BoundSessionSaysOneThing
<1>1. ForkInv => BoundSessionSaysOneThing
    BY DEF ForkInv, BindInv, SentInv, Said, BoundSessionSaysOneThing
<1> QED BY <1>1, BindingsInvariant, PTL
=============================================================================
