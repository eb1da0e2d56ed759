----------------------------- MODULE CliReceive -----------------------------
(***************************************************************************)
(* The receiving half of the command line client                           *)
(* (payjoin-cli/src/app/v2/mod.rs): the commands receive, resume, history  *)
(* and cancel, and the driver of BIP 77 receiver sessions between the      *)
(* database, the directories and relays, and the wallet.                   *)
(***************************************************************************)
EXTENDS CliProcess

CONSTANT Originals  \* sets of outpoints an Original PSBT may spend

VARIABLES
    original,  \* original[s]: the inputs of the Original PSBT s received
    checked,   \* checked[s]: the inputs the running check has looked up
    fallback,  \* sessions whose history holds a fallback transaction
    reported,  \* sessions whose fallback was printed or broadcast at their end
    passed,    \* history: sessions that saved CheckedNoInputsSeenBefore
    unread     \* history: sessions of fallback closed as their log failed to load

sessionVars == <<original, checked, fallback, reported, passed, unread>>
vars == <<row, completed, events, seen, failed_relays, failed_directories, task,
          command, expired, broadcast, original, checked, fallback, reported, passed,
          unread>>

(* ReceiveSession; Closed(outcome) is the outcome's name. *)
Posting == {"Initialized", "PayjoinProposal", "HasReplyableError"}
Checking == {"UncheckedOriginalPayload", "MaybeInputsOwned", "MaybeInputsSeen",
             "OutputsUnknown"}
Building == {"WantsOutputs", "WantsInputs", "WantsFeeRange", "ProvisionalProposal"}
Open == Posting \cup Checking \cup Building \cup {"Monitor", "PendingFallback"}

-----------------------------------------------------------------------------
(* Commands *)

(* receive_payjoin inserts the row before it has a directory, ... *)
receive_payjoin(u) ==
    /\ \E s \in Ids : /\ insert_session(s, u)
                      /\ Start("receive", {s}, [t \in Ids |-> "ChooseDirectory"])
    /\ UNCHANGED <<completed, events, seen, expired, broadcast, sessionVars>>

(* ... fetches the OHTTP keys of one through a relay that works, unless the   *)
(* directory fails or no relay is left, and it tries the next directory, ...  *)
fetch_ohttp_keys(s) ==
    /\ task[s] = "ChooseDirectory"
    /\ \/ \E r \in choose_relay : choose_directory # {} /\ add_failed_relay(r)
       \/ \E d \in choose_directory : add_failed_directory(d)
    /\ UNCHANGED <<storeVars, task, command, expired, broadcast, sessionVars>>

(* ... and builds and saves the session. *)
build(s) ==
    /\ task[s] = "ChooseDirectory" /\ choose_relay # {} /\ choose_directory # {}
    /\ SaveGoto(s, "Initialized", "Initialized")
    /\ UNCHANGED sessionVars

(* The sessions among S that expired with a fallback transaction, which       *)
(* finalize_expired_session prints before it closes them.                     *)
ExpiredFallbacks(S) == {s \in S \cap fallback : s \in expired /\ ~Replays(s)}

(* An expired session whose close failed does not count as reported: the      *)
(* second replay, in cancel_receiver_session, may have failed before that.    *)
Resume(S, L, C) ==
    /\ resume_payjoins(S, L, C)
    /\ reported' = reported \cup ExpiredFallbacks(C \ L)
    /\ unread' = unread \cup (C \cap L \cap fallback)
    /\ UNCHANGED <<original, checked, fallback, passed>>

(* Whether the session was cancelled before there was a fallback: such a      *)
(* cancellation is the end of it (SaveAndClose).                              *)
NoFallback(s) ==
    \/ events[s] \in {"Initialized", "UncheckedOriginalPayload"}
    \/ events[s] = "HasReplyableError" /\ s \notin fallback

(* cancel_receiver_session on a session that can be cancelled; step says      *)
(* whether the fallback is to be broadcast.                                   *)
cancel_open(s, step) ==
    /\ s \in Rows /\ Replays(s) /\ events[s] \in Open
    /\ IF NoFallback(s)
       THEN /\ save_event(s, "Aborted")
            /\ Start("cancel", {s}, [t \in Ids |-> "Closing"])
       ELSE /\ save_event(s, "PendingFallback")
            /\ Start("cancel", {s}, [t \in Ids |-> step])
    /\ UNCHANGED <<row, completed, seen, expired, broadcast, sessionVars>>

(* cancel_receiver_session on any other: an expired session is reported and   *)
(* closed, an empty log closed by its replay, an aborted one reported.  The   *)
(* close may fail.                                                            *)
cancel_other(s) ==
    /\ Idle
    /\ s \in Rows /\ ~(Replays(s) /\ events[s] \in Open)
    /\ \E C \in SUBSET {s} : close(C) /\ (Replays(s) => C = {})
    /\ reported' = IF s \in fallback /\ (events[s] = "Aborted" \/ ~Replays(s))
                   THEN reported \cup {s} ELSE reported
    /\ UNCHANGED <<row, events, seen, expired, broadcast, processVars, original,
                   checked, fallback, passed, unread>>

-----------------------------------------------------------------------------
(* process_receiver_session: one action per step of the driver *)

(* read_from_directory with an answer: a payload, or fatal.  Stasis and a     *)
(* transient error stay in the state.                                         *)
read_from_directory(s) ==
    /\ task[s] = "Initialized" /\ Posted(s)
    /\ \/ /\ \E O \in Originals : original' = [original EXCEPT ![s] = O]
          /\ SaveGoto(s, "UncheckedOriginalPayload", "UncheckedOriginalPayload")
       \/ SaveGoto(s, "Aborted", "Closing") /\ UNCHANGED original
    /\ UNCHANGED <<checked, fallback, reported, passed, unread>>

(* The transition of a check finds a replyable error: it is saved, and the    *)
(* driver returns the error without posting it.                               *)
ReplyableError(s) ==
    /\ save_event(s, "HasReplyableError") /\ Return(s)
    /\ UNCHANGED <<row, completed, expired, broadcast>>

(* check_proposal: the node would accept the Original transaction. *)
check_proposal(s) ==
    /\ task[s] = "UncheckedOriginalPayload"
    /\ \/ /\ SaveGoto(s, "MaybeInputsOwned", "MaybeInputsOwned")
          /\ fallback' = fallback \cup {s}
       \/ ReplyableError(s) /\ UNCHANGED <<seen, fallback>>
    /\ UNCHANGED <<original, checked, reported, passed, unread>>

check_inputs_not_owned(s) ==
    /\ task[s] = "MaybeInputsOwned"
    /\ \/ SaveGoto(s, "MaybeInputsSeen", "MaybeInputsSeen")
       \/ ReplyableError(s) /\ UNCHANGED seen
    /\ UNCHANGED sessionVars

(* check_no_inputs_seen_before: the callback writes one outpoint after the    *)
(* other to inputs_seen, up to the first that is known, before the outcome of *)
(* the check is saved.  Another task may write in between.                    *)
check_no_inputs_seen_before(s) ==
    LET before == checked[s]
    IN  /\ task[s] \in {"MaybeInputsSeen", "SomeInputsNew"}
        /\ \E o \in original[s] \ before, was_seen_before \in BOOLEAN :
              /\ insert_input_seen_before(o, was_seen_before)
              /\ Goto(s, IF was_seen_before THEN "InputsSeen"
                         ELSE IF before \cup {o} = original[s] THEN "InputsNew"
                         ELSE "SomeInputsNew")
              /\ checked' = [checked EXCEPT ![s] =
                                IF task'[s] = "SomeInputsNew" THEN before \cup {o} ELSE {}]
        /\ UNCHANGED <<row, completed, events, expired, broadcast, original, fallback,
                       reported, passed, unread>>

save_checked_inputs(s) ==
    /\ \/ /\ task[s] = "InputsNew"
          /\ SaveGoto(s, "OutputsUnknown", "OutputsUnknown")
          /\ passed' = passed \cup {s}
       \/ task[s] = "InputsSeen" /\ ReplyableError(s) /\ UNCHANGED <<seen, passed>>
    /\ UNCHANGED <<original, checked, fallback, reported, unread>>

identify_receiver_outputs(s) ==
    /\ task[s] = "OutputsUnknown"
    /\ \/ SaveGoto(s, "WantsOutputs", "WantsOutputs")
       \/ ReplyableError(s) /\ UNCHANGED seen
    /\ UNCHANGED sessionVars

(* The steps that have no outcome but the next state and an error. *)
commit_outputs(s) ==
    task[s] = "WantsOutputs" /\ SaveGoto(s, "WantsInputs", "WantsInputs")
contribute_inputs(s) ==
    task[s] = "WantsInputs" /\ SaveGoto(s, "WantsFeeRange", "WantsFeeRange")
apply_fee_range(s) ==
    task[s] = "WantsFeeRange" /\ SaveGoto(s, "ProvisionalProposal", "ProvisionalProposal")
finalize_proposal(s) ==
    task[s] = "ProvisionalProposal" /\ SaveGoto(s, "PayjoinProposal", "PayjoinProposal")

(* send_payjoin_proposal with an answer: accepted, or fatal, which is saved   *)
(* as PendingFallback and returned as an error.                               *)
send_payjoin_proposal(s) ==
    /\ task[s] = "PayjoinProposal" /\ Posted(s)
    /\ \/ SaveGoto(s, "Monitor", "Monitor")
       \/ /\ save_event(s, "PendingFallback") /\ Return(s)
          /\ UNCHANGED <<row, completed, seen, expired, broadcast>>

(* handle_error with an answer, successful or fatal: the session waits for    *)
(* its fallback, or closes if it has none.                                    *)
handle_error(s) ==
    /\ task[s] = "HasReplyableError" /\ Posted(s)
    /\ IF s \in fallback THEN SaveGoto(s, "PendingFallback", "PendingFallback")
                         ELSE SaveGoto(s, "Aborted", "Closing")

(* monitor_payjoin_proposal finds a transaction; the timeout is a CallFails. *)
monitor_payjoin_proposal(s) ==
    /\ task[s] = "Monitor"
    /\ \E outcome \in {"Success", "FallbackBroadcasted", "PayjoinProposalSent"} :
          SaveGoto(s, outcome, "Closing")

(* The second half of SaveAndClose; the driver then returns. *)
FinishClose(s) ==
    /\ task[s] = "Closing"
    /\ close({s}) /\ Return(s)
    /\ UNCHANGED <<row, events, seen, expired, broadcast>>

(* A resumed session that is Closed, or waits for the user to cancel it. *)
Terminal(s) ==
    /\ task[s] \in ClosedStates \cup {"PendingFallback"}
    /\ Return(s)
    /\ UNCHANGED <<storeVars, expired, broadcast>>

(* The end of cancel_receiver_session: broadcast the fallback or print it, .. *)
broadcast_fallback(s) ==
    /\ task[s] \in {"BroadcastFallback", "PrintFallback"}
    /\ broadcast' = IF task[s] = "PrintFallback" THEN broadcast
                    ELSE [broadcast EXCEPT ![s] = @ \cup {"original"}]
    /\ reported' = reported \cup {s}
    /\ Goto(s, "CloseFallback")
    /\ UNCHANGED <<storeVars, expired, original, checked, fallback, passed, unread>>

(* ... then save the Closed event. *)
close_fallback(s) == task[s] = "CloseFallback" /\ SaveGoto(s, "Aborted", "Closing")

(* Variant: the expired session is closed without a word. *)
report_expired_silent(s) ==
    /\ task[s] \in Posting /\ finalize_expired_session(s)
    /\ UNCHANGED sessionVars

(* A request was refused because the session expired. *)
report_expired(s) ==
    /\ task[s] \in Posting /\ finalize_expired_session(s)
    /\ reported' = reported \cup ExpiredFallbacks({s})
    /\ UNCHANGED <<original, checked, fallback, passed, unread>>

TaskStep(s) ==
    \/ fetch_ohttp_keys(s) \/ build(s) \/ read_from_directory(s) \/ check_proposal(s)
    \/ check_inputs_not_owned(s) \/ check_no_inputs_seen_before(s)
    \/ save_checked_inputs(s) \/ identify_receiver_outputs(s)
    \/ broadcast_fallback(s) \/ report_expired(s)
    \/ /\ \/ commit_outputs(s) \/ contribute_inputs(s) \/ apply_fee_range(s)
          \/ finalize_proposal(s) \/ send_payjoin_proposal(s) \/ handle_error(s)
          \/ monitor_payjoin_proposal(s) \/ FinishClose(s) \/ Terminal(s)
          \/ close_fallback(s)
          \/ task[s] \in Posting /\ RelayFails(s)
       /\ UNCHANGED sessionVars
    \/ /\ task[s] # "Idle" /\ CallFails(s)
       /\ checked' = [checked EXCEPT ![s] = {}]
       /\ UNCHANGED <<original, fallback, reported, passed, unread>>

-----------------------------------------------------------------------------
Init ==
    /\ ProcessInit
    /\ original = [s \in Ids |-> {}] /\ checked = [s \in Ids |-> {}]
    /\ fallback = {} /\ reported = {} /\ passed = {} /\ unread = {}

(* What a check has looked up is forgotten with the process. *)
ProcessStops ==
    /\ Stop
    /\ checked' = [s \in Ids |-> {}]
    /\ UNCHANGED <<original, fallback, reported, passed, unread>>

Next ==
    \/ \E u \in Uris : receive_payjoin(u)
    \/ \E S \in SUBSET Ids : \E L, C \in SUBSET S : Resume(S, L, C)
    \/ \E s \in Ids :
          \/ \E step \in {"BroadcastFallback", "PrintFallback"} : cancel_open(s, step)
          \/ cancel_other(s) \/ TaskStep(s)
    \/ (history \/ \E s \in Ids : Expire(s)) /\ UNCHANGED sessionVars
    \/ ProcessStops

(* As for the sender: tasks are polled, time passes, and the user of open     *)
(* sessions resumes them again and again.                                     *)
Fairness ==
    /\ \A s \in Ids : WF_vars(TaskStep(s)) /\ WF_vars(Expire(s) /\ UNCHANGED sessionVars)
    /\ SF_vars(Resume(active_session_ids, {}, {s \in active_session_ids : ~Replays(s)}))

Spec == Init /\ [][Next]_vars /\ Fairness

-----------------------------------------------------------------------------
(* Properties *)

(* A session that ends without a payjoin although the receiver holds a        *)
(* transaction that pays it has shown or broadcast that transaction: the user *)
(* never loses the payment by letting the session expire or cancelling.  The  *)
(* exception is a session that resume_payjoins closed because its log failed  *)
(* to load, without a word of its fallback: that log is still open, so cancel *)
(* shows the fallback or broadcasts it.                                       *)
FallbackReported ==
    \A s \in fallback :
        s \in completed \/ events[s] \in ClosedStates =>
            \/ s \in reported \/ events[s] \in ClosedStates \ {"Aborted"}
            \/ s \in unread /\ events[s] \in Open
=============================================================================
