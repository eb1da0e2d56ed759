-------------------------- MODULE MailroomManager --------------------------
(***************************************************************************)
(* MailroomManager of the command line client                              *)
(* (payjoin-cli/src/app/v2/ohttp.rs): the relays and directories that      *)
(* failed, shared by all sessions of one process and forgotten with it.    *)
(***************************************************************************)
CONSTANTS Relays, Directories

VARIABLES failed_relays, failed_directories

mailroomVars == <<failed_relays, failed_directories>>

(* MailroomManager::new, when the process starts. *)
MailroomInit == failed_relays = {} /\ failed_directories = {}

(* choose_relay and choose_directory: a random one of those that have not     *)
(* failed, an error (no value) when none is left.                             *)
choose_relay == Relays \ failed_relays
choose_directory == Directories \ failed_directories

add_failed_relay(r) ==
    failed_relays' = failed_relays \cup {r} /\ UNCHANGED failed_directories

(* receive_payjoin on a directory whose keys could not be fetched: the        *)
(* directory is dropped and every relay gets another chance.                  *)
add_failed_directory(d) ==
    /\ failed_directories' = failed_directories \cup {d}
    /\ failed_relays' = {}
=============================================================================
