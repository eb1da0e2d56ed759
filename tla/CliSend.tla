------------------------------ MODULE CliSend ------------------------------
(***************************************************************************)
(* The sending half of the command line client                             *)
(* (payjoin-cli/src/app/v2/mod.rs): the commands send, resume, history and *)
(* cancel, and the driver of BIP 77 sender sessions between the database,  *)
(* the relays and the wallet.                                              *)
(***************************************************************************)
EXTENDS CliProcess

vars == <<row, completed, events, seen, failed_relays, failed_directories, task,
          command, expired, broadcast>>

(* SendSession; Closed(Success) and Closed(Aborted) are "Success", "Aborted". *)
Posting == {"WithReplyKey", "PollingForProposal"}
Open == Posting \cup {"PendingFallback"}
States == Open \cup {"Success", "Aborted"}

-----------------------------------------------------------------------------
(* Commands *)

(* send_payjoin with no active session for the URI's key: a row, then the     *)
(* session.                                                                   *)
send_new(u) ==
    /\ get_send_session_id_by_receiver_pk(KeyOf[u]) = {}
    /\ ~DuplicateSendSession(u)
    /\ \E s \in Ids :
          insert_session(s, u) /\ Start("send", {s}, [t \in Ids |-> "Build"])
    /\ UNCHANGED <<completed, events, seen, expired, broadcast>>

(* send_payjoin with an active session for the key.  One that replays is      *)
(* continued; otherwise a new one is refused as a duplicate, and replaying    *)
(* the empty log has closed its row.                                          *)
send_again(u) ==
    /\ \E s \in get_send_session_id_by_receiver_pk(KeyOf[u]) :
          \/ Replays(s) /\ Start("send", {s}, events) /\ UNCHANGED completed
          \/ events[s] = "None" /\ close({s}) /\ Idle /\ UNCHANGED processVars
    /\ UNCHANGED <<row, events, seen, expired, broadcast>>

(* cancel_sender_session on a session that can be cancelled; step says        *)
(* whether the fallback is to be broadcast.                                   *)
cancel_open(s, step) ==
    /\ s \in Rows /\ Replays(s) /\ events[s] \in Open
    /\ save_event(s, "PendingFallback")
    /\ Start("cancel", {s}, [t \in Ids |-> step])
    /\ UNCHANGED <<row, completed, seen, expired, broadcast>>

(* cancel_sender_session on any other: an expired session is reported and     *)
(* closed, an empty log closed by its replay, a closed one only reported.     *)
(* The close may fail.                                                        *)
cancel_other(s) ==
    /\ Idle
    /\ s \in Rows /\ ~(Replays(s) /\ events[s] \in Open)
    /\ \E C \in SUBSET {s} : close(C) /\ (Replays(s) => C = {})
    /\ UNCHANGED <<row, events, seen, expired, broadcast, processVars>>

-----------------------------------------------------------------------------
(* process_sender_session: one action per step of the driver *)

(* SenderBuilder::build_recommended(..).save(): the Created event. *)
build(s) == task[s] = "Build" /\ SaveGoto(s, "WithReplyKey", "WithReplyKey")

(* post_original_proposal with an answer: accepted, or fatal.  A transient    *)
(* error stays in the state.                                                  *)
post_original_proposal(s) ==
    /\ task[s] = "WithReplyKey" /\ Posted(s)
    /\ \/ SaveGoto(s, "PollingForProposal", "PollingForProposal")
       \/ SaveGoto(s, "Aborted", "Closing")

(* get_proposed_payjoin_psbt with an answer: a proposal, or fatal.  Stasis    *)
(* and a transient error stay in the state.                                   *)
get_proposed_payjoin_psbt(s) ==
    /\ task[s] = "PollingForProposal" /\ Posted(s)
    /\ \E outcome \in {"Success", "Aborted"} : SaveGoto(s, outcome, "Closing")

(* The second half of SaveAndClose.  Closed(Success) goes on to the wallet; a *)
(* fatal answer is returned as an error, the end of cancel is not.            *)
FinishClose(s) ==
    /\ task[s] = "Closing"
    /\ close({s})
    /\ IF events[s] = "Success" THEN Goto(s, "Success") ELSE Return(s)
    /\ UNCHANGED <<row, events, seen, expired, broadcast>>

(* process_pj_response: sign and broadcast. *)
process_pj_response(s) ==
    /\ task[s] = "Success"
    /\ broadcast' = [broadcast EXCEPT ![s] = @ \cup {"payjoin"}]
    /\ Return(s)
    /\ UNCHANGED <<storeVars, expired>>

(* A resumed session that is Closed(Aborted) or waits for the user to cancel. *)
Terminal(s) ==
    /\ task[s] \in {"Aborted", "PendingFallback"}
    /\ Return(s)
    /\ UNCHANGED <<storeVars, expired, broadcast>>

(* The end of cancel_sender_session: broadcast the fallback or print it, ... *)
broadcast_fallback(s) ==
    /\ task[s] \in {"BroadcastFallback", "PrintFallback"}
    /\ broadcast' = IF task[s] = "PrintFallback" THEN broadcast
                    ELSE [broadcast EXCEPT ![s] = @ \cup {"original"}]
    /\ Goto(s, "CloseFallback")
    /\ UNCHANGED <<storeVars, expired>>

(* ... then save the Closed event. *)
close_fallback(s) == task[s] = "CloseFallback" /\ SaveGoto(s, "Aborted", "Closing")

TaskStep(s) ==
    \/ task[s] # "Idle" /\ CallFails(s)
    \/ task[s] \in Posting /\ (RelayFails(s) \/ finalize_expired_session(s))
    \/ build(s) \/ post_original_proposal(s) \/ get_proposed_payjoin_psbt(s)
    \/ FinishClose(s)
    \/ process_pj_response(s) \/ Terminal(s) \/ broadcast_fallback(s)
    \/ close_fallback(s)

-----------------------------------------------------------------------------
Init == ProcessInit

Next ==
    \/ \E u \in Uris : send_new(u) \/ send_again(u)
    \/ \E S \in SUBSET Ids : \E L, C \in SUBSET S : resume_payjoins(S, L, C)
    \/ \E s \in Ids :
          \/ \E step \in {"BroadcastFallback", "PrintFallback"} : cancel_open(s, step)
          \/ cancel_other(s) \/ TaskStep(s)
    \/ history \/ Stop \/ \E s \in Ids : Expire(s)

(* The runtime polls a task that can go on, time passes, and the user of open *)
(* sessions resumes all of them again and again, with a database that does    *)
(* not refuse for ever to load and to close them.                             *)
Fairness ==
    /\ \A s \in Ids : WF_vars(TaskStep(s)) /\ WF_vars(Expire(s))
    /\ SF_vars(resume_payjoins(active_session_ids, {}, {s \in active_session_ids : ~Replays(s)}))

Spec == Init /\ [][Next]_vars /\ Fairness
=============================================================================
