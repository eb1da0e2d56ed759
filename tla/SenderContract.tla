---------------------------- MODULE SenderContract ----------------------------
(***************************************************************************)
(* What a BIP 77 sender session promises the rest of the system, without   *)
(* its log, handles, retries and crashes: its requests name one reply key, *)
(* it records one outcome, and gives its wallet the one proposal that      *)
(* outcome names, to sign, or none.                                        *)
(***************************************************************************)
CONSTANTS ReplyKeys, Proposals, NoKey, NoPsbt

VARIABLES
    keys,     \* reply keys named in requests handed to the network
    outcome,  \* [kind, psbt]: the outcome recorded, or PendingFallback before it
    given     \* proposals handed to the wallet

contractVars == <<keys, outcome, given>>

Undecided == [kind |-> "None", psbt |-> NoPsbt]
PendingFallback == [kind |-> "PendingFallback", psbt |-> NoPsbt]
Aborted == [kind |-> "Aborted", psbt |-> NoPsbt]
Success(p) == [kind |-> "Success", psbt |-> p]

Init == keys = {} /\ outcome = Undecided /\ given = {}

(* The Original PSBT is posted, or the reply mailbox polled. *)
Request(k) ==
    /\ outcome = Undecided
    /\ keys \subseteq {k} /\ keys' = {k}
    /\ UNCHANGED <<outcome, given>>

(* The proposal is recorded, and only then handed over. *)
Accept(p) ==
    /\ outcome = Undecided /\ keys # {}
    /\ outcome' = Success(p)
    /\ given' \in {{}, {p}}
    /\ UNCHANGED keys

(* It is handed over again by every replay. *)
Give ==
    /\ outcome.kind = "Success"
    /\ given' = {outcome.psbt}
    /\ UNCHANGED <<keys, outcome>>

(* The session is cancelled: no request and no proposal after it. *)
GiveUp ==
    /\ outcome = Undecided /\ outcome' = PendingFallback
    /\ UNCHANGED <<keys, given>>

Abort ==
    /\ outcome \in {Undecided, PendingFallback} /\ outcome' = Aborted
    /\ UNCHANGED <<keys, given>>

Next ==
    \/ \E k \in ReplyKeys : Request(k)
    \/ \E p \in Proposals : Accept(p)
    \/ Give \/ GiveUp \/ Abort

Spec == Init /\ [][Next]_contractVars

=============================================================================
