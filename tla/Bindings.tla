------------------------------ MODULE Bindings ------------------------------
(***************************************************************************)
(* The language bindings (payjoin-ffi/src/receive/mod.rs, send/mod.rs).    *)
(* Foreign code cannot consume a typestate, so every method clones the     *)
(* handle it is called on and returns a transition object: a lock around   *)
(* an optional value that save() takes out before it calls the foreign     *)
(* persister.  Handles outlive their transitions, transition objects can   *)
(* be made twice from one handle, saved twice, saved by two threads, or    *)
(* have their save_async() future dropped.  save() proceeds on any object   *)
(* that still has its value, also when the session has moved on from the   *)
(* handle the object was made from.                                        *)
(*                                                                         *)
(* A host forks the session when it saves such an object, or replays the   *)
(* log with a save in progress.  The code does not prevent it; `forks'     *)
(* counts it, and the properties say what holds of hosts that do not.      *)
(***************************************************************************)
EXTENDS Persist

CONSTANTS
    Cells,      \* transition objects the host holds at a time
    MaxForks,   \* bound on how often it forks the session
    Payloads, Proposals, ReplyKeys,
    NoPayload, NoPsbt, NoKey, Fallback

VARIABLES
    role,       \* which session the log is of
    forks,      \* history: how often the host has forked the session
    value,      \* value[t]: {} or the transition in object t's lock
    begun,      \* objects on which the host has called save
    saves,      \* save calls in progress: [tr, step]
    expired, sent

bindVars == <<role, forks, value, begun, saves, expired, sent>>
vars == <<persistVars, bindVars>>

(* The core state machines, whose variables other than the log play no part. *)
RS == INSTANCE ReceiveSession WITH
          V2Payloads <- Payloads, StablePayloads <- Payloads,
          OutputCount <- [p \in Payloads \cup Proposals |-> 1],
          replay <- 0, request <- 0, mempool <- 0
SS == INSTANCE SendSession WITH MaxEvents <- 0, replay <- 0, request <- 0, accepted <- 0

-----------------------------------------------------------------------------
(* The builder object, and what one event makes of a session.  That the       *)
(* states of the core's transitions are those of its process_event is         *)
(* ReplayMatchesLive of ReceiveSession and SendSession.                        *)
Builder == RS!Move(RS!Initialized, "Builder")

apply(s, e) ==
    CASE e.kind = "Created" /\ s.tag = "Builder" ->
             IF role = "Receiver" THEN RS!Initialized ELSE SS!WithReplyKey(e.key)
      [] e.kind # "Created" /\ s.tag \notin {"Builder", "Invalid"} ->
             IF role = "Receiver" THEN RS!process_event(s, e) ELSE SS!process_event(s, e)
      [] OTHER -> RS!InvalidEvent

(* A transition: the typestate it was made from, the event it will save (none *)
(* or one), whether it closes the session, and the result it will report.     *)
Transition(h, event, closes, result) ==
    [from |-> h, event |-> event, closes |-> closes, result |-> result]

Progress(h, e) == Transition(h, <<e>>, FALSE, "Ok")
Stasis(h)      == Transition(h, <<>>, FALSE, "Ok")
Transient(h)   == Transition(h, <<>>, FALSE, "Transient")
Replyable(h)   == Transition(h, <<RS!Event("GotReplyableError")>>, FALSE, "Fatal")
Ended(h, o, result) ==
    Transition(h, <<IF role = "Receiver" THEN [kind |-> "Closed", outcome |-> o]
                    ELSE [kind |-> "Closed", outcome |-> o, psbt |-> NoPsbt]>>,
               TRUE, result)

NextOf(tr) == IF tr.event = <<>> THEN tr.from ELSE apply(tr.from, tr.event[1])

-----------------------------------------------------------------------------
(* The transition objects each handle's methods may return. *)

ReceiverBuilder(h) == {Progress(h, RS!Event("Created"))}

Initialized(h) ==
    {Stasis(h), Transient(h), Ended(h, "Aborted", "Fatal")}
    \cup {Progress(h, [kind |-> "RetrievedOriginalPayload", original |-> p]) : p \in Payloads}

UncheckedOriginalPayload(h) ==
    {Progress(h, RS!Event("CheckedBroadcastSuitability")), Replyable(h), Transient(h)}

MaybeInputsOwned(h) ==
    {Progress(h, RS!Event("CheckedInputsNotOwned")), Replyable(h), Transient(h)}

MaybeInputsSeen(h) ==
    {Progress(h, RS!Event("CheckedNoInputsSeenBefore")), Replyable(h), Transient(h)}

OutputsUnknown(h) ==
    {Progress(h, [kind |-> "IdentifiedReceiverOutputs", change |-> 0]),
     Replyable(h), Transient(h)}

WantsOutputs(h) ==
    {Progress(h, [kind |-> "CommittedOutputs", psbt |-> h.psbt, change |-> h.change])}

WantsInputs(h) == {Progress(h, [kind |-> "CommittedInputs", psbt |-> h.psbt])}

WantsFeeRange(h) ==
    {Transient(h)} \cup {Progress(h, [kind |-> "AppliedFeeRange", psbt |-> p]) :
                            p \in RS!Reworked(h.psbt)}

ProvisionalProposal(h) ==
    {Transient(h)} \cup {Progress(h, [kind |-> "FinalizedProposal", psbt |-> p]) :
                            p \in RS!Reworked(h.psbt)}

PayjoinProposal(h) ==
    {Progress(h, RS!Event("PostedPayjoinProposal")), Transient(h),
     Transition(h, <<RS!Event("ProtocolFailed")>>, FALSE, "Fatal")}

HasReplyableError(h) ==
    {Transient(h),
     IF h.fallback THEN Progress(h, RS!Event("ProtocolFailed"))
     ELSE Ended(h, "Aborted", "Ok")}

(* save() answers the same whether or not a transaction was found. *)
Monitor(h) ==
    {Stasis(h), Transient(h), Ended(h, "Success", "Ok"),
     Ended(h, "FallbackBroadcasted", "Ok")}

ReceiverPendingFallback(h) == {Ended(h, "Aborted", "Ok")}

ReceiverCancel(h) ==
    CASE h.tag \in {"Initialized", "UncheckedOriginalPayload"} -> {Ended(h, "Aborted", "Ok")}
      [] h.tag \in RS!FallbackTags -> {Progress(h, RS!Event("Cancelled"))}
      [] h.tag = "HasReplyableError" ->
             {IF h.fallback THEN Progress(h, RS!Event("Cancelled"))
              ELSE Ended(h, "Aborted", "Ok")}
      [] OTHER -> {}

SenderBuilder(h) == {Progress(h, [kind |-> "Created", key |-> k]) : k \in ReplyKeys}

WithReplyKey(h) ==
    {Progress(h, SS!Event("PostedOriginalPsbt")), Transient(h), Ended(h, "Aborted", "Fatal")}

PollingForProposal(h) ==
    {Stasis(h), Transient(h), Ended(h, "Aborted", "Fatal")}
    \cup {Transition(h, <<[kind |-> "Closed", outcome |-> "Success", psbt |-> p]>>,
                     TRUE, "Ok") : p \in Proposals}

SenderPendingFallback(h) == {Ended(h, "Aborted", "Ok")}

SenderCancel(h) ==
    IF h.tag \in {"WithReplyKey", "PollingForProposal"}
    THEN {Progress(h, SS!Event("Cancelled"))} ELSE {}

ReceiverMethods(h) ==
    ReceiverCancel(h) \cup
    CASE h.tag = "Builder" -> ReceiverBuilder(h)
      [] h.tag = "Initialized" -> Initialized(h)
      [] h.tag = "UncheckedOriginalPayload" -> UncheckedOriginalPayload(h)
      [] h.tag = "MaybeInputsOwned" -> MaybeInputsOwned(h)
      [] h.tag = "MaybeInputsSeen" -> MaybeInputsSeen(h)
      [] h.tag = "OutputsUnknown" -> OutputsUnknown(h)
      [] h.tag = "WantsOutputs" -> WantsOutputs(h)
      [] h.tag = "WantsInputs" -> WantsInputs(h)
      [] h.tag = "WantsFeeRange" -> WantsFeeRange(h)
      [] h.tag = "ProvisionalProposal" -> ProvisionalProposal(h)
      [] h.tag = "PayjoinProposal" -> PayjoinProposal(h)
      [] h.tag = "HasReplyableError" -> HasReplyableError(h)
      [] h.tag = "Monitor" -> Monitor(h)
      [] h.tag = "PendingFallback" -> ReceiverPendingFallback(h)
      [] h.tag = "Closed" -> {}

SenderMethods(h) ==
    SenderCancel(h) \cup
    CASE h.tag = "Builder" -> SenderBuilder(h)
      [] h.tag = "WithReplyKey" -> WithReplyKey(h)
      [] h.tag = "PollingForProposal" -> PollingForProposal(h)
      [] h.tag = "PendingFallback" -> SenderPendingFallback(h)
      [] h.tag = "Closed" -> {}

-----------------------------------------------------------------------------
(* Handles outlive their transitions: the host has the one it is at and those *)
(* of the objects it holds.                                                   *)
Handles == live \cup UNION {{tr.from : tr \in value[t]} : t \in Cells}

(* A method is called, on the handle the host is at or on an earlier one: its *)
(* transition object holds the outcome.                                       *)
call(t) ==
    /\ value[t] = {} /\ t \notin begun
    /\ \E h \in Handles :
          \E tr \in IF role = "Receiver" THEN ReceiverMethods(h) ELSE SenderMethods(h) :
             value' = [value EXCEPT ![t] = {tr}]
    /\ UNCHANGED <<persistVars, role, forks, begun, saves, expired, sent>>

(* replace_receiver_outputs, substitute_receiver_script, contribute_inputs    *)
(* return another handle at once: the host goes on with it.                   *)
rework(h) ==
    /\ h.tag \in {"WantsOutputs", "WantsInputs"}
    /\ \E p \in RS!Reworked(h.psbt) : live' = (live \ {h}) \cup {[h EXCEPT !.psbt = p]}
    /\ UNCHANGED <<log, is_closed, trace, bindVars>>

(* What a request of state h tells the other side. *)
Tells(h) ==
    \/ h.tag \in {"PayjoinProposal", "HasReplyableError"}
          /\ sent' = sent \cup {RS!Message(h)}
    \/ h.tag \in {"WithReplyKey", "PollingForProposal"}
          /\ sent' = sent \cup {[kind |-> "reply key", key |-> h.key]}

(* Variant: a request can be made of the state a transition leads to, before  *)
(* the transition is saved.                                                   *)
create_request_unsaved(h) ==
    /\ ~expired
    /\ \E t \in Cells : \E tr \in value[t] : tr.from = h /\ Tells(NextOf(tr))
    /\ UNCHANGED <<persistVars, role, forks, value, begun, saves, expired>>

(* create_*_request. *)
create_request(h) ==
    /\ ~expired
    /\ Tells(h)
    /\ UNCHANGED <<persistVars, role, forks, value, begun, saves, expired>>

-----------------------------------------------------------------------------
(* save, save_async.  The lock is released (save_async) or the callbacks run  *)
(* (save) with the value already taken: a second call finds none and panics.  *)

(* The host forks the session, unless it is in step with it. *)
ForksUnless(inStep) ==
    IF inStep THEN UNCHANGED forks ELSE forks < MaxForks /\ forks' = forks + 1

Begin(t, tr) ==
    /\ ForksUnless(tr.from \in live \/ t \in begun)
    /\ saves' = saves \cup {[tr |-> tr, step |-> "save"]}
    /\ live' = live \ {tr.from} /\ begun' = begun \cup {t}

(* Variant: save works on a copy and leaves the value in the object. *)
take_clone(t) == \E tr \in value[t] : Begin(t, tr) /\ UNCHANGED value

take(t) == \E tr \in value[t] : Begin(t, tr) /\ value' = [value EXCEPT ![t] = {}]

save(t) ==
    /\ take(t)
    /\ UNCHANGED <<log, is_closed, trace, role, expired, sent>>

(* The typestates whose transition is saved by impl_save_for_transition of    *)
(* receive/mod.rs, which wraps every error into a Storage error.              *)
WrapsErrors ==
    {"UncheckedOriginalPayload", "MaybeInputsOwned", "MaybeInputsSeen", "OutputsUnknown",
     "WantsOutputs", "WantsInputs", "WantsFeeRange", "ProvisionalProposal",
     "PayjoinProposal"}

ReportOf(tr) ==
    IF tr.result # "Ok" /\ tr.from.tag \in WrapsErrors THEN "Storage" ELSE tr.result

(* What the host goes on with.  A Fatal error drops the error state. *)
HandleOf(tr) ==
    CASE ReportOf(tr) = "Ok" -> IF tr.closes THEN {} ELSE {NextOf(tr)}
      [] ReportOf(tr) = "Transient" -> {tr.from}
      [] OTHER -> {}

Answer(v, handles) ==
    /\ saves' = saves \ {v}
    /\ live' = live \cup handles

Finish(v) == Answer(v, HandleOf(v.tr))

(* The foreign persister's save callback: it stores the event, or throws with *)
(* the event stored or not.                                                   *)
Stored(tr) == log' = log \o tr.event /\ trace' = Append(trace, NextOf(tr))

store_event(v) ==
    /\ v.step = "save" /\ v.tr.event # <<>>
    /\ \/ /\ Stored(v.tr)
          /\ IF v.tr.closes
             THEN saves' = (saves \ {v}) \cup {[v EXCEPT !.step = "close"]}
                  /\ UNCHANGED live
             ELSE Finish(v)
       \/ /\ Stored(v.tr) \/ NotSaved
          /\ Answer(v, {})

save_event_callback(v) ==
    /\ store_event(v)
    /\ UNCHANGED <<is_closed, role, forks, value, begun, expired, sent>>

(* Nothing to store: the answer is immediate. *)
no_event(v) ==
    /\ v.step = "save" /\ v.tr.event = <<>>
    /\ Finish(v)
    /\ UNCHANGED <<log, is_closed, trace, role, forks, value, begun, expired, sent>>

close_callback(v) ==
    /\ v.step = "close"
    /\ \/ is_closed' = TRUE /\ Finish(v)
       \/ is_closed' \in {TRUE, is_closed} /\ Answer(v, {})
    /\ UNCHANGED <<log, trace, role, forks, value, begun, expired, sent>>

(* The save_async future is dropped while the callback runs. *)
drop_future(v) ==
    /\ saves' = saves \ {v}
    /\ IF v.step = "save" /\ v.tr.event # <<>>
       THEN (Stored(v.tr) \/ NotSaved) /\ UNCHANGED is_closed
       ELSE NotSaved /\ is_closed' \in {is_closed, is_closed \/ v.step = "close"}
    /\ UNCHANGED <<live, role, forks, value, begun, expired, sent>>

(* The host drops a transition object, saved or not. *)
drop_transition(t) ==
    /\ value[t] # {} \/ t \in begun
    /\ value' = [value EXCEPT ![t] = {}] /\ begun' = begun \ {t}
    /\ UNCHANGED <<persistVars, role, forks, saves, expired, sent>>

-----------------------------------------------------------------------------
(* replay_receiver_event_log, replay_sender_event_log: the host goes on with  *)
(* the handle it gets.  An error leaves it with those it has.                 *)
Replayed ==
    LET after[i \in 0..Len(log)] == IF i = 0 THEN Builder ELSE apply(after[i - 1], log[i])
    IN  after[Len(log)]

replay_event_log ==
    /\ ForksUnless(saves = {})
    /\ IF log = <<>> \/ Replayed.tag = "Invalid"
       THEN UNCHANGED live /\ is_closed' \in {TRUE, is_closed}
       ELSE /\ IF expired /\ Replayed.tag # "Closed"
               THEN UNCHANGED live
               ELSE live' = {Replayed}
            /\ UNCHANGED is_closed
    /\ UNCHANGED <<log, trace, role, value, begun, saves, expired, sent>>

Crash ==
    /\ live' = {} /\ saves' = {}
    /\ value' = [t \in Cells |-> {}] /\ begun' = {}
    /\ UNCHANGED <<log, is_closed, trace, role, forks, expired, sent>>

Expire ==
    /\ ~expired /\ expired' = TRUE
    /\ UNCHANGED <<persistVars, role, forks, value, begun, saves, sent>>

-----------------------------------------------------------------------------
Init ==
    /\ log = <<>> /\ is_closed = FALSE /\ live = {Builder} /\ trace = <<>>
    /\ role \in {"Receiver", "Sender"}
    /\ value = [t \in Cells |-> {}] /\ begun = {} /\ saves = {} /\ forks = 0
    /\ expired = FALSE /\ sent = {}

Next ==
    \/ \E t \in Cells : call(t) \/ save(t) \/ drop_transition(t)
    \/ \E h \in live : rework(h)
    \/ \E h \in Handles : create_request(h)
    \/ \E v \in saves :
          \/ save_event_callback(v) \/ no_event(v) \/ close_callback(v) \/ drop_future(v)
    \/ replay_event_log \/ Crash \/ Expire

Spec == Init /\ [][Next]_vars

-----------------------------------------------------------------------------
(* Properties *)

(* What the log holds replays: every event applies to the state the log       *)
(* before it replays to.                                                      *)
LogReplays ==
    /\ Len(trace) = Len(log)
    /\ \A i \in DOMAIN log :
          /\ trace[i] = apply(IF i = 1 THEN Builder ELSE trace[i - 1], log[i])
          /\ trace[i].tag # "Invalid" /\ (log[i].kind = "Created" <=> i = 1)

(* As long as the host has not forked the session, the stored log replays and *)
(* the handle the host is at is the last of its states, whatever transition   *)
(* objects it creates and discards or calls save on twice or from two         *)
(* threads, whichever callbacks fail or futures are dropped, and whatever it  *)
(* keeps over a replay.  It is the take() under the lock in save() that       *)
(* refuses the second save of an object.                                      *)
StoredLogReplays ==
    forks = 0 =>
        /\ LogReplays
        /\ \A h \in live : log # <<>> =>
              h.tag = trace[Len(log)].tag
                /\ (h # trace[Len(log)] => h.tag \in {"WantsOutputs", "WantsInputs"})

(* As long as the host has not forked the session, it never says two things   *)
(* through the bindings: a receiver posts one signed proposal or one error, a *)
(* sender names one reply key, although old handles can still make requests   *)
(* and finalize_proposal or build can be called twice on one object.  A host  *)
(* that saves both results does say two things.                               *)
BoundSessionSaysOneThing == forks = 0 => \A m, n \in sent : m = n

(* "The events can be replayed from the log to reconstruct the state machine's *)
(* state" (payjoin/src/core/persist.rs:962), of a session that was created     *)
(* once.  The bindings save two objects made of one handle, and the log they   *)
(* leave does not replay.                                                      *)
EventsReplay == (\A i \in 2..Len(log) : log[i].kind # "Created") => LogReplays
=============================================================================
