---------------------------- MODULE SendSession ----------------------------
(***************************************************************************)
(* The BIP 77 sender's typestate machine                                   *)
(* (payjoin/src/core/send/v2/mod.rs and session.rs) over the event log of  *)
(* module Persist: post the Original PSBT, poll the reply mailbox, check   *)
(* the proposal, cancel into the fallback; with replay, expiration,        *)
(* crashes, storage errors and lost directory answers.                     *)
(***************************************************************************)
EXTENDS Persist

CONSTANTS
    ReplyKeys,   \* HPKE reply keys gen_keypair() may draw
    Proposals,   \* proposal PSBTs that pass process_proposal
    MaxEvents,   \* bound on the length of the log
    NoKey, NoPsbt

ASSUME KeyAssumption == NoKey \notin ReplyKeys /\ NoPsbt \notin Proposals
ASSUME MaxEventsAssumption == MaxEvents \in Nat

VARIABLES
    replay,    \* replay_events in progress: [at, st]; at = 0 when none is
    expired,   \* pj_param.expiration().elapsed()
    request,   \* typestate whose request's OhttpResponse context is held
    sent,      \* requests handed to the network
    accepted   \* history: proposals the application was given to sign

vars == <<log, is_closed, live, trace, replay, expired, request, sent, accepted>>

-----------------------------------------------------------------------------
(* SendSession and SessionEvent *)

Tags == {"WithReplyKey", "PollingForProposal", "PendingFallback", "Closed", "Invalid"}
Outcomes == {"Success", "Aborted"}

States == [tag : Tags, key : ReplyKeys \cup {NoKey}, psbt : Proposals \cup {NoPsbt},
           outcome : Outcomes \cup {"None"}]

WithReplyKey(k) == [tag |-> "WithReplyKey", key |-> k, psbt |-> NoPsbt, outcome |-> "None"]

Closed(o, p) == [tag |-> "Closed", key |-> NoKey, psbt |-> p, outcome |-> o]

InvalidEvent == [tag |-> "Invalid", key |-> NoKey, psbt |-> NoPsbt, outcome |-> "None"]

Move(s, tag) == [s EXCEPT !.tag = tag]

Events == [kind : {"Created"}, key : ReplyKeys]
    \cup [kind : {"PostedOriginalPsbt", "Cancelled"}]
    \cup [kind : {"Closed"}, outcome : Outcomes, psbt : Proposals \cup {NoPsbt}]

Event(kind) == [kind |-> kind]

(* Variant: a session cancelled while polling does not replay. *)
process_event_no_polling_cancel(s, e) ==
    CASE e.kind = "Closed" -> Closed(e.outcome, e.psbt)
      [] e.kind = "PostedOriginalPsbt" /\ s.tag = "WithReplyKey" ->
             Move(s, "PollingForProposal")
      [] e.kind = "Cancelled" /\ s.tag = "WithReplyKey" -> Move(s, "PendingFallback")
      [] OTHER -> InvalidEvent

process_event(s, e) ==
    CASE e.kind = "Closed" -> Closed(e.outcome, e.psbt)
      [] e.kind = "PostedOriginalPsbt" /\ s.tag = "WithReplyKey" ->
             Move(s, "PollingForProposal")
      [] e.kind = "Cancelled" /\ s.tag \in {"WithReplyKey", "PollingForProposal"} ->
             Move(s, "PendingFallback")
      [] OTHER -> InvalidEvent

-----------------------------------------------------------------------------
(* The live path: one action per public transition, save() included. *)

On(tag, s) == s \in live /\ s.tag = tag

Local == UNCHANGED <<replay, expired, sent>> /\ request' = "None"

Close(o, p) == SaveAndClose([kind |-> "Closed", outcome |-> o, psbt |-> p], Closed(o, p))

(* SenderBuilder::build_*: the reply key is drawn before it is saved. *)
build ==
    /\ log = <<>> /\ ~is_closed /\ replay.at = 0
    /\ \E k \in ReplyKeys : SaveThen([kind |-> "Created", key |-> k], WithReplyKey(k))
    /\ Local /\ UNCHANGED accepted

(* create_v2_post_request and create_poll_request, refused once expired. *)
create_request(s) ==
    /\ s \in live
    /\ s.tag \in {"WithReplyKey", "PollingForProposal"}
    /\ ~expired
    /\ request = "None" /\ request' = s.tag
    /\ sent' = sent \cup {[kind |-> s.tag, key |-> s.key]}
    /\ UNCHANGED <<log, is_closed, live, trace, replay, expired, accepted>>

LoseResponse ==
    /\ request # "None" /\ request' = "None"
    /\ UNCHANGED <<log, is_closed, live, trace, replay, expired, sent, accepted>>

(* Sender<WithReplyKey>::process_response. *)
process_post_response(s) ==
    /\ On("WithReplyKey", s) /\ request = "WithReplyKey"
    /\ \/ KeepState(s)                                       \* non-fatal answer
       \/ Close("Aborted", NoPsbt)                           \* fatal answer
       \/ SaveThen(Event("PostedOriginalPsbt"), Move(s, "PollingForProposal"))
    /\ Local /\ UNCHANGED accepted

(* Variant: the PSBT is returned whether or not it could be saved. *)
accept_proposal_unsaved(p) ==
    Close("Success", p) /\ accepted' = accepted \cup {p}

(* The proposal passed process_proposal: the event is saved and the session   *)
(* closed before the PSBT is returned, so a storage error withholds it.       *)
accept_proposal(p) ==
    /\ Close("Success", p)
    /\ accepted' = IF is_closed' THEN accepted \cup {p} ELSE accepted

(* Sender<PollingForProposal>::process_response: nothing yet or a non-fatal   *)
(* answer, a fatal one (a rejected proposal and an error reply included), or  *)
(* a proposal.                                                                *)
process_poll_response(s) ==
    /\ On("PollingForProposal", s) /\ request = "PollingForProposal"
    /\ \/ KeepState(s) /\ UNCHANGED accepted
       \/ Close("Aborted", NoPsbt) /\ UNCHANGED accepted
       \/ \E p \in Proposals : accept_proposal(p)
    /\ Local

(* Sender<S>::cancel. *)
cancel(s) ==
    /\ s \in live /\ s.tag \in {"WithReplyKey", "PollingForProposal"}
    /\ SaveThen(Event("Cancelled"), Move(s, "PendingFallback"))
    /\ Local /\ UNCHANGED accepted

(* Sender<PendingFallback>::close borrows the handle, which survives it. *)
close(s) ==
    LET e == [kind |-> "Closed", outcome |-> "Aborted", psbt |-> NoPsbt]
    IN  /\ On("PendingFallback", s)
        /\ Len(log) < MaxEvents
        /\ \/ save_event(e, Closed("Aborted", NoPsbt)) /\ is_closed' \in {TRUE, is_closed}
           \/ NotSaved /\ UNCHANGED is_closed
        /\ live' \in {live, {}}
        /\ Local /\ UNCHANGED accepted

-----------------------------------------------------------------------------
(* replay_event_log *)

NoReplay == [at |-> 0, st |-> InvalidEvent]

ReplayError ==
    /\ is_closed' \in {TRUE, is_closed}
    /\ replay' = NoReplay
    /\ UNCHANGED <<log, live, trace, expired, request, sent, accepted>>

(* Variant: a resumed session draws a new reply key. *)
start_replay_new_key ==
    /\ live = {} /\ replay.at = 0 /\ log # <<>>
    /\ \E k \in ReplyKeys : replay' = [at |-> 1, st |-> WithReplyKey(k)]
    /\ UNCHANGED <<log, is_closed, live, trace, expired, request, sent, accepted>>

start_replay ==
    /\ live = {} /\ replay.at = 0
    /\ IF log = <<>> \/ log[1].kind # "Created"
       THEN ReplayError
       ELSE /\ replay' = [at |-> 1, st |-> WithReplyKey(log[1].key)]
            /\ UNCHANGED <<log, is_closed, live, trace, expired, request, sent, accepted>>

replay_event ==
    /\ replay.at \in 1..(Len(log) - 1)
    /\ LET st == process_event(replay.st, log[replay.at + 1])
       IN  IF st.tag = "Invalid"
           THEN ReplayError
           ELSE /\ replay' = [at |-> replay.at + 1, st |-> st]
                /\ UNCHANGED <<log, is_closed, live, trace, expired, request, sent,
                               accepted>>

(* A Closed(Success) session hands its proposal to the application again. *)
construct_history ==
    /\ replay.at > 0 /\ replay.at = Len(log)
    /\ live' = IF expired /\ replay.st.tag # "Closed" THEN {} ELSE {replay.st}
    /\ accepted' = IF replay.st.outcome = "Success"
                   THEN accepted \cup {replay.st.psbt} ELSE accepted
    /\ replay' = NoReplay
    /\ UNCHANGED <<log, is_closed, trace, expired, request, sent>>

-----------------------------------------------------------------------------
Crash ==
    /\ live # {} \/ replay.at # 0
    /\ DropHandle
    /\ replay' = NoReplay /\ request' = "None"
    /\ UNCHANGED <<expired, sent, accepted>>

Expire ==
    /\ ~expired /\ expired' = TRUE
    /\ UNCHANGED <<log, is_closed, live, trace, replay, request, sent, accepted>>

Init ==
    /\ log = <<>> /\ is_closed = FALSE /\ live = {} /\ trace = <<>>
    /\ replay = NoReplay /\ expired = FALSE /\ request = "None"
    /\ sent = {} /\ accepted = {}

Transition(s) ==
    \/ create_request(s) \/ process_post_response(s) \/ process_poll_response(s)
    \/ cancel(s) \/ close(s)

Next ==
    \/ build \/ LoseResponse
    \/ \E s \in live : Transition(s)
    \/ start_replay \/ replay_event \/ construct_history
    \/ Crash \/ Expire

Spec == Init /\ [][Next]_vars

-----------------------------------------------------------------------------
(* Properties *)

LastKind == IF log = <<>> THEN "None" ELSE log[Len(log)].kind

(* Every variable has its type and no two handles coexist. *)
TypeOK ==
    /\ log \in Seq(Events)
    /\ is_closed \in BOOLEAN
    /\ live \in SUBSET States /\ \A s, r \in live : s = r
    /\ trace \in Seq(States)
    /\ replay \in [at : Nat, st : States]
    /\ expired \in BOOLEAN
    /\ request \in {"None", "WithReplyKey", "PollingForProposal"}
    /\ sent \subseteq [kind : {"WithReplyKey", "PollingForProposal"}, key : ReplyKeys]
    /\ accepted \subseteq Proposals

(* Replay reconstructs the live state, whatever storage errors, crashes and   *)
(* retries produced the log.  Only the PendingFallback handle that close()    *)
(* leaves behind may lag the log.                                             *)
ReplayMatchesLive ==
    /\ Len(trace) = Len(log)
    /\ log # <<>> => log[1].kind = "Created" /\ trace[1] = WithReplyKey(log[1].key)
    /\ \A i \in 1..(Len(log) - 1) : process_event(trace[i], log[i + 1]) = trace[i + 1]
    /\ \A s \in live :
          /\ log # <<>>
          /\ \/ s = trace[Len(log)]
             \/ s.tag = "PendingFallback" /\ trace[Len(log)] = Closed("Aborted", NoPsbt)
    /\ replay.at > 0 => replay.at <= Len(log) /\ replay.st = trace[replay.at]

(* A session gives its application at most one proposal to sign, and a        *)
(* session that was cancelled into its fallback gives none.                   *)
OneProposal ==
    /\ \A p, q \in accepted : p = q
    /\ accepted # {} => \A s \in live : s.tag = "Closed" /\ s.outcome = "Success"

(* The sender session, with its log, crashes, storage errors and retries,     *)
(* does what its contract says, and nothing the contract does not allow: one  *)
(* reply key, one outcome that never changes, and at most the one proposal it *)
(* names handed to the wallet (SaveAndClose before the PSBT is returned).     *)
Contract == INSTANCE SenderContract WITH
    keys <- {m.key : m \in sent},
    outcome <- IF LastKind = "Closed"
               THEN [kind |-> log[Len(log)].outcome, psbt |-> log[Len(log)].psbt]
               ELSE [kind |-> IF LastKind = "Cancelled" THEN "PendingFallback" ELSE "None",
                     psbt |-> NoPsbt],
    given <- accepted

ImplementsContract == Contract!Spec
=============================================================================
