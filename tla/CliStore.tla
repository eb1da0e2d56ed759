------------------------------ MODULE CliStore ------------------------------
(***************************************************************************)
(* The SQLite database of the command line client (payjoin-cli/src/db):    *)
(* one row per session with its completed_at column, the events of every   *)
(* session, and the table of outpoints seen by receive sessions.  A log is *)
(* represented by the typestate it replays to, which ReplayMatchesLive of  *)
(* ReceiveSession and SendSession justifies; "None" is a log without       *)
(* events.  The database is opened with locking_mode = EXCLUSIVE, so one   *)
(* process at a time uses it.                                              *)
(***************************************************************************)
EXTENDS Naturals, FiniteSets

CONSTANTS
    Ids,     \* session ids (UUIDs: never drawn twice)
    Uris,    \* BIP 21 URIs a row can be about; one value for receive sessions
    KeyOf    \* KeyOf[u]: the receiver's public key in URI u

ASSUME UriAssumption == "None" \notin Uris

VARIABLES
    row,        \* row[s]: the URI of the session's row, "None" without a row
    completed,  \* rows whose completed_at is set
    events,     \* events[s]: the typestate the session's events replay to
    seen        \* inputs_seen

storeVars == <<row, completed, events, seen>>

Rows == {s \in Ids : row[s] # "None"}

StoreInit ==
    /\ row = [s \in Ids |-> "None"]
    /\ completed = {}
    /\ events = [s \in Ids |-> "None"]
    /\ seen = {}

-----------------------------------------------------------------------------
(* get_send_session_ids and get_recv_session_ids: completed_at IS NULL. *)
active_session_ids == Rows \ completed

(* get_send_session_id_by_receiver_pk: active sessions only. *)
get_send_session_id_by_receiver_pk(k) ==
    {s \in active_session_ids : KeyOf[row[s]] = k}

(* Variant: only active sessions count as duplicates. *)
DuplicateSendSession_active(u) ==
    \E s \in active_session_ids : row[s] = u \/ KeyOf[row[s]] = KeyOf[u]

(* The two EXISTS queries of SenderPersister::new look at every row. *)
DuplicateSendSession(u) ==
    \E s \in Rows : row[s] = u \/ KeyOf[row[s]] = KeyOf[u]

(* The INSERT of SenderPersister::new and of ReceiverPersister::new.  Ids are *)
(* interchangeable, so any fixed one that is not in use stands for the UUID.  *)
insert_session(s, u) ==
    /\ s \notin Rows /\ s = CHOOSE t \in Ids : t \notin Rows
    /\ row' = [row EXCEPT ![s] = u]

(* SenderPersister::save_event and ReceiverPersister::save_event. *)
save_event(s, state) == events' = [events EXCEPT ![s] = state]

(* close(): sets completed_at. *)
close(S) == completed' = completed \cup S

(* Variant: every outpoint is reported as new. *)
insert_input_seen_before_never(o, was_seen_before) ==
    /\ was_seen_before = FALSE
    /\ seen' = seen \cup {o}

(* INSERT OR IGNORE: the row count tells a known outpoint from a new one. *)
insert_input_seen_before(o, was_seen_before) ==
    /\ was_seen_before = (o \in seen)
    /\ seen' = seen \cup {o}
=============================================================================
