------------------------------ MODULE Persist ------------------------------
(***************************************************************************)
(* Session persistence of the payjoin state machines                       *)
(* (payjoin/src/core/persist.rs).  A session is an append-only log of      *)
(* events kept by the application's SessionPersister.  A state transition  *)
(* consumes the typestate handle it is called on; its save() first         *)
(* executes a PersistActions on the persister and only then hands the      *)
(* next typestate back.  A storage error (or the process dying inside the  *)
(* call) leaves the caller without a handle and the outcome unknown: the   *)
(* event may or may not have reached the log.                              *)
(***************************************************************************)
EXTENDS Sequences, Integers

VARIABLES
    log,        \* the events save_event() has appended, oldest first
    is_closed,  \* whether close() has marked the session as closed
    live,       \* the typestate handles the application holds
    trace       \* history: trace[i] is the typestate the i-th event stands for

persistVars == <<log, is_closed, live, trace>>

-----------------------------------------------------------------------------
(* SessionPersister::save_event, and the history of the state it stands for. *)
save_event(e, s) ==
    /\ log' = Append(log, e)
    /\ trace' = Append(trace, s)

(* Nothing reached the storage. *)
NotSaved == UNCHANGED <<log, trace>>

(* PersistActions::Save(e) returning an error, or never returning. *)
SaveError(e, s) ==
    /\ save_event(e, s) \/ NotSaved
    /\ UNCHANGED is_closed
    /\ live' = {}

(* PersistActions::NoOp: a transient rejection or a stasis gives the caller   *)
(* the state it called from, and persists nothing.                            *)
KeepState(s) ==
    /\ live' = {s}
    /\ UNCHANGED <<log, is_closed, trace>>

(* Variant of SaveThen: the handle the transition consumed stays usable. *)
SaveThen_handle_kept(e, s) ==
    save_event(e, s) /\ UNCHANGED is_closed /\ live' = live \cup {s}

(* PersistActions::Save(e), the transition yielding the typestate s. *)
SaveThen(e, s) ==
    \/ save_event(e, s) /\ UNCHANGED is_closed /\ live' = {s}
    \/ SaveError(e, s)

(* Variant of SaveAndClose: close() is called first. *)
SaveAndClose_close_first(e, s) ==
    /\ live' = {} /\ is_closed' = TRUE
    /\ save_event(e, s) \/ NotSaved

(* Variant of SaveAndClose: the handle survives the end of the session. *)
SaveAndClose_handle_kept(e, s) ==
    save_event(e, s) /\ is_closed' = TRUE /\ UNCHANGED live

(* PersistActions::SaveAndClose(e): save_event, then close.  The second call  *)
(* can fail after the first one succeeded.  No handle survives.               *)
SaveAndClose(e, s) ==
    \/ save_event(e, s) /\ is_closed' = TRUE /\ live' = {}
    \/ SaveError(e, s)

(* The handle is dropped without a transition: the process dies, or a         *)
(* consuming operation that is not a transition fails.                        *)
DropHandle ==
    /\ live' = {}
    /\ UNCHANGED <<log, is_closed, trace>>
=============================================================================
