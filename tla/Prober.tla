------------------------------- MODULE Prober -------------------------------
(***************************************************************************)
(* What the OHTTP relay knows of gateways                                  *)
(* (payjoin-mailroom/src/ohttp_relay/gateway_prober.rs): a map from gateway *)
(* to the policy its last probe found, or to the probe under way, and a    *)
(* heap of expiry times that says which entries to forget.  All of it is   *)
(* behind one lock: every operator here is what one holder of it does.     *)
(*                                                                         *)
(* Time is what is left of a policy's time to live: an entry is in force   *)
(* while that is not negative.                                             *)
(***************************************************************************)
EXTENDS Integers, FiniteSets

CONSTANTS
    Gateways, DefaultGateway,
    Capacity,       \* KnownGateways::capacity
    Short, MaxRetryAfter, Long,   \* times to live: 5 seconds, a day, a week
    Forever         \* thirty years

ASSUME TtlAssumption ==
    /\ Short \in Nat \ {0} /\ MaxRetryAfter \in Nat /\ Long \in Nat
    /\ Short < MaxRetryAfter /\ MaxRetryAfter < Long
    /\ Forever \notin Int
ASSUME GatewayAssumption == DefaultGateway \in Gateways /\ Capacity \in Nat \ {0}

VARIABLES
    by_url,     \* by_url[g]: Absent, InFlight, Dropped, or a Known policy
    by_expiry   \* set of [key, ttl]

proberVars == <<by_url, by_expiry>>

Status(st, allowed, ttl) == [st |-> st, allowed |-> allowed, ttl |-> ttl]

Absent == Status("Absent", FALSE, 0)

(* A probe whose task was dropped leaves its entry and a channel without a    *)
(* sender.                                                                    *)
InFlight == Status("InFlight", FALSE, 0)
Dropped == Status("Dropped", FALSE, 0)

Known(policy) == Status("Known", policy.bip77_allowed, policy.expires)

Policy(allowed, ttl) == [bip77_allowed |-> allowed, expires |-> ttl]

always(allowed) == Policy(allowed, Forever)

-----------------------------------------------------------------------------
Over(ttl) == ttl # Forever /\ ttl < 0

(* Variant: the heap hands out the latest expiry first. *)
Popped_latest_first ==
    IF \A e \in by_expiry : Over(e.ttl) THEN by_expiry ELSE {}

(* The heap is a min-heap: what prune pops before the first entry in force. *)
Popped == {e \in by_expiry : Over(e.ttl)}

(* Variant: the map keeps what the heap has dropped. *)
prune_heap_only == [by_url |-> by_url, by_expiry |-> by_expiry \ Popped]

(* KnownGateways::prune *)
prune ==
    [by_url |-> [g \in Gateways |->
                    IF \E e \in Popped : e.key = g THEN Absent ELSE by_url[g]],
     by_expiry |-> by_expiry \ Popped]

Entries(pruned) == {g \in Gateways : pruned.by_url[g] # Absent}

has_capacity(pruned) == Cardinality(Entries(pruned)) < Capacity

(* insert: a known policy is left alone, a probe under way is overwritten. *)
insert(pr, g, policy) ==
    IF pr.by_url[g].st = "Known" THEN pr
    ELSE [by_url |-> [pr.by_url EXCEPT ![g] = Known(policy)],
          by_expiry |-> pr.by_expiry \cup {[key |-> g, ttl |-> policy.expires]}]

Becomes(pr) == by_url' = pr.by_url /\ by_expiry' = pr.by_expiry

(* assert_opt_in, when the relay service is made. *)
NewProber ==
    insert([by_url |-> [g \in Gateways |-> Absent], by_expiry |-> {}],
           DefaultGateway, always(TRUE))

-----------------------------------------------------------------------------
(* probe: what a gateway answers, and what the relay makes of it.  Nothing    *)
(* but a 200 answer that lists the BIP 77 purpose is an opt-in; any other     *)
(* answer is remembered as a refusal for a while.                             *)

Answers == {"opt_in", "other_2xx", "4xx", "429", "503", "504", "5xx", "other",
            "dns", "timed_out", "reset", "io_error"}

(* 429 and 503 may say how long to wait, up to a day. *)
retry_after_or(default) == {default} \cup 0..MaxRetryAfter

TtlsOf(answer) ==
    CASE answer \in {"opt_in", "other_2xx", "4xx"} -> {Long}
      [] answer = "429" -> retry_after_or(Long)
      [] answer = "503" -> retry_after_or(Short)
      [] answer \in {"5xx", "other", "io_error"} -> {Short}
      [] answer \in {"504", "dns", "timed_out", "reset"} -> {0}

is_explicit_opt_in(answer) == answer = "opt_in"

probe(answer) == {Policy(is_explicit_opt_in(answer), ttl) : ttl \in TtlsOf(answer)}

(* Time passes for every entry. *)
Elapse(ttl) == IF ttl = Forever \/ ttl < 0 THEN ttl ELSE ttl - 1

Age ==
    /\ by_url' = [g \in Gateways |-> [by_url[g] EXCEPT !.ttl =
                     IF by_url[g].st = "Known" THEN Elapse(@) ELSE @]]
    /\ by_expiry' = {[e EXCEPT !.ttl = Elapse(@)] : e \in by_expiry}

=============================================================================
