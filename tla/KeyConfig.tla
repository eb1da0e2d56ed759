------------------------------ MODULE KeyConfig ------------------------------
(***************************************************************************)
(* The mailroom process and its OHTTP keys                                 *)
(* (payjoin-mailroom/src/key_config.rs and init_ohttp_config in lib.rs):   *)
(* the key file is read or made while the directory starts, which a crash  *)
(* may interrupt between any two steps.                                    *)
(***************************************************************************)
EXTENDS Naturals

CONSTANT MaxCrashes  \* bound on the crashes of the mailroom process

ASSUME MaxCrashesAssumption == MaxCrashes \in Nat

VARIABLES
    key_file,  \* 1.ikm: "None", "Torn" (created and not written) or "Ikm"
    server,    \* "Down", a step of init_ohttp_config, or the keys it serves with
    crashes    \* crashes so far

keyVars == <<key_file, server, crashes>>

Keys == {"Generated", "Derived"}

(* A first start, or the start of an installation that has a key file. *)
KeyInit == key_file \in {"None", "Ikm"} /\ server = "Down" /\ crashes = 0

(* The keys are derived from the file; a file of another size panics, at      *)
(* every start.                                                               *)
read_server_config ==
    /\ server = "Down" /\ key_file = "Ikm"
    /\ server' = "Derived"
    /\ UNCHANGED <<key_file, crashes>>

(* No file: the ikm is drawn, and the keys are drawn independently of it.     *)
gen_ohttp_server_config ==
    /\ server = "Down" /\ key_file = "None"
    /\ server' = "Generated: create_new"
    /\ UNCHANGED <<key_file, crashes>>

persist_new_key_config ==
    \/ /\ server = "Generated: create_new"
       /\ key_file' = "Torn" /\ server' = "Generated: write_all"
       /\ UNCHANGED crashes
    \/ /\ server = "Generated: write_all"
       /\ key_file' = "Ikm" /\ server' = "Generated"
       /\ UNCHANGED crashes

init_ohttp_config ==
    read_server_config \/ gen_ohttp_server_config \/ persist_new_key_config

MailroomCrash ==
    /\ server # "Down" /\ crashes < MaxCrashes
    /\ server' = "Down" /\ crashes' = crashes + 1
    /\ UNCHANGED key_file

=============================================================================
