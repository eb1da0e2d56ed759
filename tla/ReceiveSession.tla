--------------------------- MODULE ReceiveSession ---------------------------
(***************************************************************************)
(* The BIP 77 receiver's typestate machine                                 *)
(* (payjoin/src/core/receive/v2/mod.rs and session.rs) over the event log  *)
(* of module Persist: one action per public transition of Receiver<S>, the *)
(* replay of the log event by event, expiration, crashes, storage errors   *)
(* and lost directory answers.                                             *)
(***************************************************************************)
EXTENDS Persist, FiniteSets

CONSTANTS
    Payloads,        \* Original PSBT payloads the directory may hand out
    V2Payloads,      \* those whose sender supplied a reply key (BIP 77)
    StablePayloads,  \* those with an empty script_sig in every input
    Proposals,       \* proposal PSBTs: the outcomes of output shuffling,
                     \* input insertion, fee adjustment and signing
    OutputCount,     \* OutputCount[p]: number of outputs of PSBT p
    NoPayload, NoPsbt, Fallback

Psbts == Payloads \cup Proposals

ASSUME PayloadAssumption ==
    /\ V2Payloads \subseteq Payloads
    /\ StablePayloads \subseteq Payloads
    /\ NoPayload \notin Payloads

ASSUME PsbtAssumption ==
    /\ OutputCount \in [Psbts -> Nat \ {0}]
    /\ NoPsbt \notin Psbts
    /\ Fallback \notin Psbts \cup {NoPsbt}

VARIABLES
    replay,    \* replay_events in progress: [at, st]; at = 0 when none is
    expired,   \* session_context.expiration.elapsed()
    request,   \* typestate whose request's OhttpResponse context is held
    sent,      \* messages handed to the network for the sender
    mempool    \* the one transaction spending the sender's inputs, if any

vars == <<log, is_closed, live, trace, replay, expired, request, sent, mempool>>

-----------------------------------------------------------------------------
(* ReceiveSession: a typestate and the data later states or requests read.    *)
(* psbt stands for the proposal's transaction and signatures; the PSBT output *)
(* maps, which prepare_psbt always discards, are not part of it.              *)

Tags == {"Initialized", "UncheckedOriginalPayload", "MaybeInputsOwned",
         "MaybeInputsSeen", "OutputsUnknown", "WantsOutputs", "WantsInputs",
         "WantsFeeRange", "ProvisionalProposal", "PayjoinProposal", "Monitor",
         "HasReplyableError", "PendingFallback", "Closed", "Invalid"}

Outcomes == {"Success", "Aborted", "FallbackBroadcasted", "PayjoinProposalSent"}

States == [tag : Tags, original : Payloads \cup {NoPayload}, fallback : BOOLEAN,
           psbt : Psbts \cup {NoPsbt}, change : Nat,
           outcome : Outcomes \cup {"None"}]

Initialized == [tag |-> "Initialized", original |-> NoPayload, fallback |-> FALSE,
                psbt |-> NoPsbt, change |-> 0, outcome |-> "None"]

Closed(o) == [Initialized EXCEPT !.tag = "Closed", !.outcome = o]

InvalidEvent == [Initialized EXCEPT !.tag = "Invalid"]

Move(s, tag) == [s EXCEPT !.tag = tag]

(* The typestates that implement HasFallbackTx. *)
FallbackTags == {"MaybeInputsOwned", "MaybeInputsSeen", "OutputsUnknown",
                 "WantsOutputs", "WantsInputs", "WantsFeeRange",
                 "ProvisionalProposal", "PayjoinProposal", "Monitor"}

PendingFallback(s) ==
    [s EXCEPT !.tag = "PendingFallback", !.psbt = NoPsbt, !.change = 0]

HasReplyableError(s, fallback) ==
    [s EXCEPT !.tag = "HasReplyableError", !.fallback = fallback,
              !.psbt = NoPsbt, !.change = 0]

-----------------------------------------------------------------------------
(* SessionEvent, and ReceiveSession::process_event that applies one event of  *)
(* the stored log.  InvalidEvent stands for a ReplayError.                    *)

Events ==
         [kind : {"Created", "CheckedBroadcastSuitability",
                  "CheckedInputsNotOwned", "CheckedNoInputsSeenBefore",
                  "GotReplyableError", "PostedPayjoinProposal", "Cancelled",
                  "ProtocolFailed"}]
    \cup [kind : {"RetrievedOriginalPayload"}, original : Payloads]
    \cup [kind : {"IdentifiedReceiverOutputs"}, change : Nat]
    \cup [kind : {"CommittedOutputs"}, psbt : Psbts, change : Nat]
    \cup [kind : {"CommittedInputs", "AppliedFeeRange", "FinalizedProposal"},
          psbt : Psbts]
    \cup [kind : {"Closed"}, outcome : Outcomes]

Event(kind) == [kind |-> kind]

try_pending_fallback(s) ==
    IF \/ s.tag \in FallbackTags
       \/ s.tag = "HasReplyableError" /\ s.fallback
    THEN PendingFallback(s)
    ELSE InvalidEvent

(* Variant: the fallback is forgotten when the error is replayed. *)
apply_got_replyable_error_no_fallback(s) ==
    IF s.tag = "Closed" THEN s ELSE HasReplyableError(s, FALSE)

apply_got_replyable_error(s) ==
    CASE s.tag = "Closed" -> s
      [] s.tag \in {"Initialized", "UncheckedOriginalPayload"} ->
             HasReplyableError(s, FALSE)
      [] s.tag = "HasReplyableError" -> s
      [] OTHER -> HasReplyableError(s, TRUE)

(* apply_identified_receiver_outputs, apply_committed_outputs and             *)
(* apply_committed_inputs validate the payload of the event they apply.       *)
apply_identified_receiver_outputs(s, e) ==
    IF e.change < OutputCount[s.original]
    THEN [s EXCEPT !.tag = "WantsOutputs", !.psbt = s.original, !.change = e.change]
    ELSE InvalidEvent

apply_committed_outputs(s, e) ==
    IF e.change < OutputCount[e.psbt]
    THEN [s EXCEPT !.tag = "WantsInputs", !.psbt = e.psbt, !.change = e.change]
    ELSE InvalidEvent

(* Variant: the change output is not recovered from the predecessor. *)
apply_committed_inputs_change_lost(s, e) ==
    [s EXCEPT !.tag = "WantsFeeRange", !.psbt = e.psbt, !.change = 0]

apply_committed_inputs(s, e) ==
    IF s.change < OutputCount[e.psbt]
    THEN [s EXCEPT !.tag = "WantsFeeRange", !.psbt = e.psbt]
    ELSE InvalidEvent

process_event(s, e) ==
    CASE e.kind = "Closed" -> Closed(e.outcome)
      [] e.kind \in {"Cancelled", "ProtocolFailed"} -> try_pending_fallback(s)
      [] e.kind = "GotReplyableError" -> apply_got_replyable_error(s)
      [] e.kind = "RetrievedOriginalPayload" /\ s.tag = "Initialized" ->
             [s EXCEPT !.tag = "UncheckedOriginalPayload", !.original = e.original]
      [] e.kind = "CheckedBroadcastSuitability" /\ s.tag = "UncheckedOriginalPayload" ->
             [s EXCEPT !.tag = "MaybeInputsOwned", !.fallback = TRUE]
      [] e.kind = "CheckedInputsNotOwned" /\ s.tag = "MaybeInputsOwned" ->
             Move(s, "MaybeInputsSeen")
      [] e.kind = "CheckedNoInputsSeenBefore" /\ s.tag = "MaybeInputsSeen" ->
             Move(s, "OutputsUnknown")
      [] e.kind = "IdentifiedReceiverOutputs" /\ s.tag = "OutputsUnknown" ->
             apply_identified_receiver_outputs(s, e)
      [] e.kind = "CommittedOutputs" /\ s.tag = "WantsOutputs" ->
             apply_committed_outputs(s, e)
      [] e.kind = "CommittedInputs" /\ s.tag = "WantsInputs" ->
             apply_committed_inputs(s, e)
      [] e.kind = "AppliedFeeRange" /\ s.tag = "WantsFeeRange" ->
             [s EXCEPT !.tag = "ProvisionalProposal", !.psbt = e.psbt, !.change = 0]
      [] e.kind = "FinalizedProposal" /\ s.tag = "ProvisionalProposal" ->
             [s EXCEPT !.tag = "PayjoinProposal", !.psbt = e.psbt]
      [] e.kind = "PostedPayjoinProposal" /\ s.tag = "PayjoinProposal" ->
             Move(s, "Monitor")
      [] OTHER -> InvalidEvent

-----------------------------------------------------------------------------
(* The live path: each action is one public transition followed by save().    *)

(* An operation called on a handle in typestate tag. *)
On(tag, s) == s \in live /\ s.tag = tag

(* Operations that touch only the session. *)
Local == UNCHANGED <<replay, expired, sent, mempool>> /\ request' = "None"

(* Closing with the given outcome. *)
Close(o) == SaveAndClose([kind |-> "Closed", outcome |-> o], Closed(o))

(* ReceiverBuilder::build.  A builder is held until the session exists. *)
build ==
    /\ log = <<>> /\ ~is_closed /\ replay.at = 0
    /\ SaveThen(Event("Created"), Initialized)
    /\ Local

(* create_poll_request, create_post_request, create_error_request: refused    *)
(* once expired; the handle is only borrowed.                                 *)
Message(s) ==
    LET v2 == s.original \in V2Payloads
    IN  [kind |-> s.tag, psbt |-> s.psbt,
         method |-> IF s.tag = "PayjoinProposal" /\ ~v2 THEN "PUT" ELSE "POST",
         mailbox |-> IF v2 THEN "reply" ELSE "own"]

create_request(s) ==
    /\ s \in live
    /\ s.tag \in {"Initialized", "PayjoinProposal", "HasReplyableError"}
    /\ ~expired
    /\ request = "None"
    /\ request' = s.tag
    /\ sent' = IF s.tag = "Initialized" THEN sent ELSE sent \cup {Message(s)}
    /\ UNCHANGED <<log, is_closed, live, trace, replay, expired, mempool>>

(* The answer never arrives; the OHTTP context is discarded. *)
LoseResponse ==
    /\ request # "None"
    /\ request' = "None"
    /\ UNCHANGED <<log, is_closed, live, trace, replay, expired, sent, mempool>>

(* A rejected call that returns the handle: a non-fatal directory answer, or  *)
(* an ImplementationError from the application's callback.                    *)
transient(s) ==
    /\ \/ request = s.tag
       \/ s.tag \in FallbackTags \ {"WantsOutputs", "WantsInputs", "PayjoinProposal"}
       \/ s.tag = "UncheckedOriginalPayload"
    /\ s \in live
    /\ KeepState(s)
    /\ Local

(* Receiver<Initialized>::process_response. *)
process_poll_response(s) ==
    /\ On("Initialized", s) /\ request = "Initialized"
    /\ \/ KeepState(s)                                   \* 202: nothing yet
       \/ Close("Aborted")                               \* fatal answer
       \/ \E p \in Payloads :
             SaveThen([kind |-> "RetrievedOriginalPayload", original |-> p],
                      [s EXCEPT !.tag = "UncheckedOriginalPayload", !.original = p])
    /\ Local

(* A validation failure the sender is told about. *)
ReplyableError(s, fallback) ==
    SaveThen(Event("GotReplyableError"), HasReplyableError(s, fallback))

(* check_broadcast_suitability; assume_interactive_receiver only succeeds. *)
check_broadcast_suitability(s) ==
    /\ On("UncheckedOriginalPayload", s)
    /\ \/ SaveThen(Event("CheckedBroadcastSuitability"),
                   [s EXCEPT !.tag = "MaybeInputsOwned", !.fallback = TRUE])
       \/ ReplyableError(s, FALSE)
    /\ Local

check_inputs_not_owned(s) ==
    /\ On("MaybeInputsOwned", s)
    /\ \/ SaveThen(Event("CheckedInputsNotOwned"), Move(s, "MaybeInputsSeen"))
       \/ ReplyableError(s, TRUE)
    /\ Local

check_no_inputs_seen_before(s) ==
    /\ On("MaybeInputsSeen", s)
    /\ \/ SaveThen(Event("CheckedNoInputsSeenBefore"), Move(s, "OutputsUnknown"))
       \/ ReplyableError(s, TRUE)
    /\ Local

identify_receiver_outputs(s) ==
    /\ On("OutputsUnknown", s)
    /\ \/ \E v \in 0..(OutputCount[s.original] - 1) :
             SaveThen([kind |-> "IdentifiedReceiverOutputs", change |-> v],
                      [s EXCEPT !.tag = "WantsOutputs", !.psbt = s.original,
                                !.change = v])
       \/ ReplyableError(s, TRUE)
    /\ Local

(* substitute_receiver_script, replace_receiver_outputs: the shuffle picks    *)
(* the change output; nothing is persisted.  An error drops the handle.       *)
replace_receiver_outputs(s) ==
    /\ On("WantsOutputs", s)
    /\ \/ DropHandle
       \/ \E p \in Proposals \cup {s.original} : \E v \in 0..(OutputCount[p] - 1) :
             KeepState([s EXCEPT !.psbt = p, !.change = v])
    /\ Local

commit_outputs(s) ==
    /\ On("WantsOutputs", s)
    /\ SaveThen([kind |-> "CommittedOutputs", psbt |-> s.psbt, change |-> s.change],
                Move(s, "WantsInputs"))
    /\ Local

(* The results of reworking a PSBT without adding or removing an output. *)
Reworked(p) == {q \in Proposals \cup {p} : OutputCount[q] = OutputCount[p]}

(* contribute_inputs inserts inputs at random places and keeps the outputs.   *)
contribute_inputs(s) ==
    /\ On("WantsInputs", s)
    /\ \/ DropHandle
       \/ \E p \in Reworked(s.psbt) : KeepState([s EXCEPT !.psbt = p])
    /\ Local

commit_inputs(s) ==
    /\ On("WantsInputs", s)
    /\ SaveThen([kind |-> "CommittedInputs", psbt |-> s.psbt],
                Move(s, "WantsFeeRange"))
    /\ Local

apply_fee_range(s) ==
    /\ On("WantsFeeRange", s)
    /\ \E p \in Reworked(s.psbt) :
          SaveThen([kind |-> "AppliedFeeRange", psbt |-> p],
                   [s EXCEPT !.tag = "ProvisionalProposal", !.psbt = p, !.change = 0])
    /\ Local

(* Variant: the signed proposal is handed on without being saved. *)
finalize_proposal_unsaved(s) ==
    /\ On("ProvisionalProposal", s)
    /\ \E p \in Reworked(s.psbt) :
          KeepState([s EXCEPT !.tag = "PayjoinProposal", !.psbt = p])
    /\ Local

(* The wallet's signatures; a PSBT with another ntxid is a transient error. *)
finalize_proposal(s) ==
    /\ On("ProvisionalProposal", s)
    /\ \E p \in Reworked(s.psbt) :
          SaveThen([kind |-> "FinalizedProposal", psbt |-> p],
                   [s EXCEPT !.tag = "PayjoinProposal", !.psbt = p])
    /\ Local

(* Receiver<PayjoinProposal>::process_response. *)
process_post_response(s) ==
    /\ On("PayjoinProposal", s) /\ request = "PayjoinProposal"
    /\ \/ SaveThen(Event("PostedPayjoinProposal"), Move(s, "Monitor"))
       \/ SaveThen(Event("ProtocolFailed"), PendingFallback(s))
    /\ Local

(* The end of a session that hit a replyable error, by answer or by cancel. *)
EndReplyableError(s, e) ==
    IF s.fallback THEN SaveThen(Event(e), PendingFallback(s)) ELSE Close("Aborted")

process_error_response(s) ==
    /\ On("HasReplyableError", s) /\ request = "HasReplyableError"
    /\ EndReplyableError(s, "ProtocolFailed")
    /\ Local

(* Variant: the proposal's transaction is taken to be found. *)
check_for_transaction_unseen(s) ==
    On("Monitor", s) /\ Close("Success") /\ Local

(* find_transaction reports the transaction the node knows, or nothing yet. *)
check_for_transaction(s) ==
    /\ On("Monitor", s)
    /\ \/ s.original \notin StablePayloads /\ Close("PayjoinProposalSent")
       \/ s.original \in StablePayloads /\ mempool = s.psbt /\ Close("Success")
       \/ s.original \in StablePayloads /\ mempool = Fallback
            /\ Close("FallbackBroadcasted")
    /\ Local

(* Receiver<S>::cancel for each typestate that has one. *)
cancel(s) ==
    /\ s \in live
    /\ \/ s.tag \in {"Initialized", "UncheckedOriginalPayload"} /\ Close("Aborted")
       \/ s.tag \in FallbackTags /\ SaveThen(Event("Cancelled"), PendingFallback(s))
       \/ s.tag = "HasReplyableError" /\ EndReplyableError(s, "Cancelled")
    /\ Local

(* Receiver<PendingFallback>::close. *)
close(s) ==
    /\ On("PendingFallback", s)
    /\ Close("Aborted")
    /\ Local

-----------------------------------------------------------------------------
(* replay_event_log: replay_events applies the stored events one by one,      *)
(* construct_history refuses an expired session that is not Closed.           *)

NoReplay == [at |-> 0, st |-> Initialized]

(* The persister is closed when replay fails; that call may fail too. *)
ReplayError ==
    /\ is_closed' \in {TRUE, is_closed}
    /\ replay' = NoReplay
    /\ UNCHANGED <<log, live, trace, expired, request, sent, mempool>>

start_replay ==
    /\ live = {} /\ replay.at = 0
    /\ IF log = <<>> \/ log[1].kind # "Created"
       THEN ReplayError
       ELSE /\ replay' = [at |-> 1, st |-> Initialized]
            /\ UNCHANGED <<log, is_closed, live, trace, expired, request, sent, mempool>>

replay_event ==
    /\ replay.at \in 1..(Len(log) - 1)
    /\ LET st == process_event(replay.st, log[replay.at + 1])
       IN  IF st.tag = "Invalid"
           THEN ReplayError
           ELSE /\ replay' = [at |-> replay.at + 1, st |-> st]
                /\ UNCHANGED <<log, is_closed, live, trace, expired, request, sent,
                               mempool>>

construct_history ==
    /\ replay.at > 0 /\ replay.at = Len(log)
    /\ live' = IF expired /\ replay.st.tag # "Closed" THEN {} ELSE {replay.st}
    /\ replay' = NoReplay
    /\ UNCHANGED <<log, is_closed, trace, expired, request, sent, mempool>>

-----------------------------------------------------------------------------
(* The environment. *)

Crash ==
    /\ live # {} \/ replay.at # 0
    /\ DropHandle
    /\ replay' = NoReplay /\ request' = "None"
    /\ UNCHANGED <<expired, sent, mempool>>

Expire ==
    /\ ~expired /\ expired' = TRUE
    /\ UNCHANGED <<log, is_closed, live, trace, replay, request, sent, mempool>>

(* The sender broadcasts the Original PSBT, or a proposal it was sent. *)
Broadcast ==
    /\ mempool = NoPsbt
    /\ \/ mempool' = Fallback
       \/ \E m \in sent : m.kind = "PayjoinProposal" /\ mempool' = m.psbt
    /\ UNCHANGED <<log, is_closed, live, trace, replay, expired, request, sent>>

-----------------------------------------------------------------------------
Init ==
    /\ log = <<>> /\ is_closed = FALSE /\ live = {} /\ trace = <<>>
    /\ replay = NoReplay /\ expired = FALSE /\ request = "None"
    /\ sent = {} /\ mempool = NoPsbt

Transition(s) ==
    \/ create_request(s) \/ transient(s) \/ cancel(s) \/ close(s)
    \/ process_poll_response(s) \/ check_broadcast_suitability(s)
    \/ check_inputs_not_owned(s) \/ check_no_inputs_seen_before(s)
    \/ identify_receiver_outputs(s)
    \/ replace_receiver_outputs(s) \/ commit_outputs(s)
    \/ contribute_inputs(s) \/ commit_inputs(s)
    \/ apply_fee_range(s) \/ finalize_proposal(s)
    \/ process_post_response(s) \/ process_error_response(s)
    \/ check_for_transaction(s)

Next ==
    \/ build \/ LoseResponse
    \/ \E s \in live : Transition(s)
    \/ start_replay \/ replay_event \/ construct_history
    \/ Crash \/ Expire \/ Broadcast

Spec == Init /\ [][Next]_vars

-----------------------------------------------------------------------------
(* SessionHistory, read off the log. *)

Logged(kind) == \E i \in DOMAIN log : log[i].kind = kind

LastKind == IF log = <<>> THEN "None" ELSE log[Len(log)].kind

LastOutcome == log[Len(log)].outcome

(* Variant: ProtocolFailed is not recognised. *)
status_without_protocol_failed ==
    CASE LastKind = "Closed" -> "Failed"
      [] LastKind = "Cancelled" -> "PendingFallback"
      [] OTHER -> "Active"

(* SessionHistory::status: a terminal event takes precedence over expiration. *)
status ==
    CASE LastKind = "Closed" /\ LastOutcome \in {"Success", "PayjoinProposalSent"} ->
             "Completed"
      [] LastKind = "Closed" /\ LastOutcome = "Aborted" -> "Failed"
      [] LastKind = "Closed" /\ LastOutcome = "FallbackBroadcasted" ->
             "FallbackBroadcasted"
      [] LastKind \in {"Cancelled", "ProtocolFailed"} -> "PendingFallback"
      [] LastKind \notin {"Closed", "Cancelled", "ProtocolFailed"} /\ expired -> "Expired"
      [] OTHER -> "Active"

(* SessionHistory::fallback_tx: whether one is found in the log. *)
fallback_tx == Logged("CheckedBroadcastSuitability")

-----------------------------------------------------------------------------
(* Properties *)

(* Every variable has its type; in particular no operation ever leaves the    *)
(* session with two handles.                                                  *)
TypeOK ==
    /\ log \in Seq(Events)
    /\ is_closed \in BOOLEAN
    /\ live \in SUBSET States /\ \A s, r \in live : s = r
    /\ trace \in Seq(States)
    /\ replay \in [at : Nat, st : States]
    /\ expired \in BOOLEAN
    /\ request \in {"None", "Initialized", "PayjoinProposal", "HasReplyableError"}
    /\ sent \subseteq [kind : {"PayjoinProposal", "HasReplyableError"},
                      psbt : Psbts \cup {NoPsbt}, method : {"PUT", "POST"},
                      mailbox : {"reply", "own"}]
    /\ mempool \in Psbts \cup {NoPsbt, Fallback}

(* What a live handle holds beyond the last event: output substitutions and   *)
(* input contributions that have not been committed.                          *)
Matches(s, r) ==
    /\ s.tag = r.tag /\ s.original = r.original
    /\ s.fallback = r.fallback /\ s.outcome = r.outcome
    /\ s.change = r.change \/ s.tag = "WantsOutputs"
    /\ s.psbt = r.psbt \/ s.tag \in {"WantsOutputs", "WantsInputs"}

(* Replay reconstructs the live state: process_event, folded over the log,    *)
(* follows exactly the states the transitions returned, whatever storage      *)
(* errors, crashes and retries produced the log, and the handle in use is the *)
(* last of them (persist.rs: "replaying the event log always reconstructs the *)
(* same current state").                                                      *)
ReplayMatchesLive ==
    /\ Len(trace) = Len(log)
    /\ log # <<>> => log[1].kind = "Created" /\ trace[1] = Initialized
    /\ \A i \in 1..(Len(log) - 1) : process_event(trace[i], log[i + 1]) = trace[i + 1]
    /\ \A s \in live : log # <<>> /\ Matches(s, trace[Len(log)])
    /\ replay.at > 0 => replay.at <= Len(log) /\ replay.st = trace[replay.at]

(* However often a post is retried, lost or resumed after a crash, everything *)
(* the receiver puts in the sender's mailbox during one session is one and    *)
(* the same message: never two different signed proposals, never a proposal   *)
(* and an error reply (create_post_request, create_error_request).            *)
NeverEquivocates == \A m, n \in sent : m = n

(* A session is marked closed only when its log ends it (or is empty, when    *)
(* replay found nothing): close() is never reached with a fallback still      *)
(* pending or through a log that does not replay (PersistActions::execute,    *)
(* replay_event_log).                                                         *)
ClosedSessionsEnded == is_closed => LastKind \in {"Closed", "None"}

(* SessionHistory::fallback_tx, a scan of the log for                         *)
(* CheckedBroadcastSuitability, agrees with the fallback the typestate        *)
(* carries: a session that may still have to fall back never loses it.        *)
FallbackAgrees ==
    \A s \in live : s.tag # "Closed" =>
        (s.fallback <=> fallback_tx)

(* SessionHistory::status, a look at the last event, agrees with the          *)
(* typestate the whole log replays to.                                        *)
StatusAgrees ==
    \A s \in live :
        /\ s.tag = "Closed" <=> status \in {"Completed", "Failed", "FallbackBroadcasted"}
        /\ s.tag = "PendingFallback" <=> status = "PendingFallback"
        /\ status = "Completed" =>
              s.outcome \in {"Success", "PayjoinProposalSent"} /\ s.tag = "Closed"

(* The receiver session, with its log, crashes, storage errors and retries,   *)
(* does what its contract says, and nothing the contract does not allow: one  *)
(* Original PSBT, one message for the sender, one outcome, recorded only when *)
(* it is what happened (Receiver<Monitor>::check_for_transaction).            *)
Contract == INSTANCE ReceiverContract WITH
    original <- IF Logged("RetrievedOriginalPayload")
                THEN log[CHOOSE i \in DOMAIN log :
                            log[i].kind = "RetrievedOriginalPayload"].original
                ELSE NoPayload,
    answers <- sent,
    outcome <- IF LastKind = "Closed" THEN LastOutcome
               ELSE IF LastKind \in {"Cancelled", "ProtocolFailed"} THEN "PendingFallback"
               ELSE "None",
    settled <- [o \in Payloads |-> mempool]

ImplementsContract == Contract!Spec

(* Nothing is ever appended after the Closed event, and before it the log     *)
(* only grows: the outcome of a session never changes ("no more events will   *)
(* be appended", SessionPersister::close).                                    *)
ClosedIsFinal ==
    [][/\ \A i \in 1..Len(log) : i \in 1..Len(log') /\ log'[i] = log[i]
       /\ (is_closed \/ LastKind = "Closed") => log' = log]_vars
=============================================================================
