----------------------------- MODULE CliProcess -----------------------------
(***************************************************************************)
(* What the sending and the receiving half of the command line client      *)
(* share (payjoin-cli/src/app/v2/mod.rs): one process at a time that runs  *)
(* one command, a task per session it drives, relays that fail, database,  *)
(* wallet and HTTP calls that fail, expiration, and a process that dies or *)
(* is interrupted.                                                         *)
(***************************************************************************)
EXTENDS CliStore, MailroomManager

VARIABLES
    task,       \* task[s]: where the driver of session s is, "Idle" without one
    command,    \* the command the process runs, "None" when no process runs
    expired,    \* sessions whose expiration has elapsed
    broadcast   \* broadcast[s]: transactions the wallet was given for s

processVars == <<task, command, failed_relays, failed_directories>>

ClosedStates == {"Success", "Aborted", "FallbackBroadcasted", "PayjoinProposalSent"}

ProcessInit ==
    /\ StoreInit /\ MailroomInit
    /\ task = [s \in Ids |-> "Idle"] /\ command = "None"
    /\ expired = {} /\ broadcast = [s \in Ids |-> {}]

(* replay_event_log succeeds: there are events, and the session is closed or  *)
(* has not expired.                                                           *)
Replays(s) == events[s] # "None" /\ (s \in expired => events[s] \in ClosedStates)

-----------------------------------------------------------------------------
Idle == command = "None"

(* The process starts and drives the sessions of S from the given states. *)
Start(c, S, state) ==
    /\ Idle
    /\ command' = IF S = {} THEN "None" ELSE c
    /\ task' = [s \in Ids |-> IF s \in S THEN state[s] ELSE "Idle"]
    /\ UNCHANGED mailroomVars

Goto(s, step) ==
    /\ task' = [task EXCEPT ![s] = step]
    /\ UNCHANGED <<command, mailroomVars>>

(* The task returns; the process, and what it knows of relays, ends with its  *)
(* last task.                                                                 *)
Return(s) ==
    LET last == \A t \in Ids \ {s} : task[t] = "Idle"
    IN  /\ task' = [task EXCEPT ![s] = "Idle"]
        /\ command' = IF last THEN "None" ELSE command
        /\ failed_relays' = IF last THEN {} ELSE failed_relays
        /\ failed_directories' = IF last THEN {} ELSE failed_directories

(* The process dies, or is interrupted while its tasks wait. *)
Stop ==
    /\ ~Idle
    /\ command' = "None" /\ task' = [s \in Ids |-> "Idle"]
    /\ failed_relays' = {} /\ failed_directories' = {}
    /\ UNCHANGED <<storeVars, expired, broadcast>>

Expire(s) ==
    /\ s \in Rows \ expired
    /\ expired' = expired \cup {s}
    /\ UNCHANGED <<storeVars, processVars, broadcast>>

-----------------------------------------------------------------------------
(* Variant: sessions that expired keep their rows. *)
resume_payjoins_expired_kept(S, L, C) ==
    /\ S # {} /\ (S = active_session_ids \/ \E s \in active_session_ids : S = {s})
    /\ Start("resume", {s \in S \ L : Replays(s)}, events)
    /\ C = L \cup {s \in S : events[s] = "None"}
    /\ close(C)
    /\ UNCHANGED <<row, events, seen, expired, broadcast>>

(* resume_payjoins, all active sessions or one: those that replay get a task; *)
(* the expired ones are reported and closed (finalize_expired_session), those *)
(* that fail to replay are closed (close_failed_session): the ones without    *)
(* events, and the ones of L, whose events the database failed to load.  C    *)
(* are the sessions whose close succeeds; a failing one is only logged.       *)
resume_payjoins(S, L, C) ==
    /\ S # {} /\ (S = active_session_ids \/ \E s \in active_session_ids : S = {s})
    /\ Start("resume", {s \in S \ L : Replays(s)}, events)
    /\ C \subseteq L \cup {s \in S : ~Replays(s)}
    /\ close(C)
    /\ UNCHANGED <<row, events, seen, expired, broadcast>>

(* history replays every session, which closes those without events, when the *)
(* database lets it.                                                          *)
history ==
    /\ Idle
    /\ \E C \in SUBSET {s \in active_session_ids : events[s] = "None"} : C # {} /\ close(C)
    /\ UNCHANGED <<row, events, seen, expired, broadcast, processVars>>

-----------------------------------------------------------------------------
(* post_via_relay: the relay of the request does not answer, and the next one *)
(* is tried.                                                                  *)
RelayFails(s) ==
    /\ s \notin expired
    /\ \E r \in choose_relay : add_failed_relay(r)
    /\ UNCHANGED <<storeVars, task, command, expired, broadcast>>

(* post_via_relay got an answer for a session that can still make requests. *)
Posted(s) == s \notin expired /\ choose_relay # {}

(* RelayPost::Expired: cancel_*_session replays the session, finds it expired *)
(* and closes it; a failing close is only logged.  The driver returns; the    *)
(* Closed(Aborted) a sender returns with is not saved, so that the log says   *)
(* for ever that the session expired where it was.                            *)
finalize_expired_session(s) ==
    /\ s \in expired /\ choose_relay # {}
    /\ \E S \in {{}, {s}} : close(S)
    /\ Return(s)
    /\ UNCHANGED <<row, events, seen, expired, broadcast>>

(* A database, wallet or HTTP call of the step returns an error, the wait for *)
(* the payjoin times out, or choose_relay has no relay left.                  *)
CallFails(s) ==
    /\ Return(s)
    /\ UNCHANGED <<storeVars, expired, broadcast>>

(* The step saves state and goes on to step. *)
SaveGoto(s, state, step) ==
    /\ save_event(s, state) /\ Goto(s, step)
    /\ UNCHANGED <<row, completed, seen, expired, broadcast>>

-----------------------------------------------------------------------------
(* Properties *)

(* One payment per receiver key: whatever is sent again, resumed, cancelled   *)
(* or interrupted in between, the wallet never broadcasts both the Original   *)
(* transaction and the payjoin of a session, nor transactions of two sessions *)
(* that pay the same receiver key.                                            *)
PaidOnce ==
    \A s, t \in Rows : KeyOf[row[s]] = KeyOf[row[t]] =>
        \A x \in broadcast[s], y \in broadcast[t] : s = t /\ x = y

(* A session that was begun ends: it is marked completed or its log is        *)
(* closed, at the latest when it is resumed after its expiration, whatever    *)
(* calls failed and wherever the process was stopped.                         *)
SessionsEnd ==
    \A s \in Ids : s \in Rows ~> s \in completed \/ events[s] \in ClosedStates
=============================================================================
