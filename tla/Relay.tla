-------------------------------- MODULE Relay --------------------------------
(***************************************************************************)
(* The OHTTP relay (payjoin-mailroom/src/ohttp_relay): requests that name  *)
(* a gateway, are admitted by its opt-in, and are forwarded or turned into *)
(* a bootstrap tunnel of limited number and life.                          *)
(*                                                                         *)
(* A request is handled in the task of its connection: what it does        *)
(* between two awaits is one action, and a client that disconnects drops   *)
(* the task wherever it waits, also while it probes a gateway.             *)
(***************************************************************************)
EXTENDS Prober

CONSTANTS
    Requests,       \* requests the relay serves at once
    MaxTunnels,     \* MAX_CONCURRENT_TUNNELS
    Tunnels         \* tunnel tasks

ASSUME TunnelAssumption ==
    MaxTunnels \in Nat /\ IsFiniteSet(Tunnels)

VARIABLES
    request,        \* request[r]: [pc, gateway, method, allowed]
    tunnel,         \* tunnel[t]: [pc, gateway]
    permits,        \* free permits of the semaphore
    active_tunnels, \* the gauge
    heard           \* history: ticks since g's last answer was an opt-in, or No

tunnelVars == <<tunnel, permits, active_tunnels>>
relayVars == <<proberVars, request, tunnelVars, heard>>

No == -1
Nobody == [pc |-> "Idle", gateway |-> DefaultGateway, method |-> "POST", allowed |-> FALSE]
Shut == [pc |-> "Closed", gateway |-> DefaultGateway]
Ending == [pc |-> "Ending", gateway |-> DefaultGateway]

(* The tunnel tasks that run, and those of them that still hold a permit. *)
Open == {t \in Tunnels : tunnel[t].pc # "Closed"}
Holding == {t \in Tunnels : tunnel[t].pc \notin {"Closed", "Ending"}}

RelayInit ==
    /\ by_url = NewProber.by_url /\ by_expiry = NewProber.by_expiry
    /\ request = [r \in Requests |-> Nobody]
    /\ tunnel = [t \in Tunnels |-> Shut]
    /\ permits = MaxTunnels /\ active_tunnels = 0
    /\ heard = [g \in Gateways |-> No]

Goto(r, pc) == request' = [request EXCEPT ![r].pc = pc]

(* The response is sent. *)
Answer(r) == request' = [request EXCEPT ![r] = Nobody]

-----------------------------------------------------------------------------
(* Bootstrap tunnels *)

(* try_upgrade, by CONNECT or by WebSocket: a permit, or the request is shed; *)
(* a GET that is no upgrade, or has a bad key, gives its permit back before   *)
(* the tunnel is counted.  The tunnel is a task of its own: the request is    *)
(* answered at once.                                                          *)
try_upgrade(g) ==
    \/ /\ permits > 0
       /\ \E t \in Tunnels \ Open :
             tunnel' = [tunnel EXCEPT ![t] = [pc |-> "Setup", gateway |-> g]]
       /\ permits' = permits - 1 /\ active_tunnels' = active_tunnels + 1
    \/ UNCHANGED tunnelVars

(* The future of the tunnel ends or is dropped: with it go the sockets and    *)
(* the permit.  The task still holds its guard, which lowers the gauge next:  *)
(* in between another tunnel may take the permit and be counted too.          *)
Close(t) ==
    /\ tunnel' = [tunnel EXCEPT ![t] = Ending]
    /\ permits' = permits + 1
    /\ UNCHANGED active_tunnels

(* TunnelGuard::drop, at the end of the task. *)
drop_guard(t) ==
    /\ tunnel[t].pc = "Ending"
    /\ tunnel' = [tunnel EXCEPT ![t] = Shut]
    /\ active_tunnels' = active_tunnels - 1
    /\ UNCHANGED <<permits, proberVars, request, heard>>

TunnelMoves(t, from, to) ==
    /\ tunnel[t].pc = from
    /\ tunnel' = [tunnel EXCEPT ![t].pc = to]
    /\ UNCHANGED <<permits, active_tunnels>>

(* tunnel_after_upgrade, serve_after_upgrade: resolve the gateway, await the  *)
(* upgrade, connect, then copy bytes both ways.  WsIo::poll_read takes a      *)
(* Ping, a Close or an empty frame for the end of the client's bytes, and     *)
(* after a Pong or a text frame sleeps without asking to be woken, until the  *)
(* gateway sends something.                                                   *)
TunnelStep(t) ==
    /\ \/ TunnelMoves(t, "Setup", "Copy")
       \/ TunnelMoves(t, "Copy", "HalfClosed")
       \/ TunnelMoves(t, "Copy", "Stalled")
       \/ TunnelMoves(t, "Stalled", "Copy")
       \/ tunnel[t].pc \in {"Setup", "Copy", "HalfClosed"} /\ Close(t)
    /\ UNCHANGED <<proberVars, request, heard>>

(* Variant: only the copying is under the deadline. *)
run_tunnel_within_copy(t) ==
    /\ tunnel[t].pc \in {"Copy", "Stalled", "HalfClosed"}
    /\ Close(t)
    /\ UNCHANGED <<proberVars, request, heard>>

(* Variant: the torn down tunnel keeps its permit. *)
run_tunnel_within_leaking(t) ==
    /\ t \in Holding
    /\ tunnel' = [tunnel EXCEPT ![t] = Ending]
    /\ UNCHANGED <<permits, active_tunnels, proberVars, request, heard>>

(* run_tunnel_within: the deadline tears the tunnel down wherever it is. *)
run_tunnel_within(t) ==
    /\ t \in Holding
    /\ Close(t)
    /\ UNCHANGED <<proberVars, request, heard>>

-----------------------------------------------------------------------------
(* Requests *)

(* parse_gateway_uri with the policy in hand: refuse, or go on to read the    *)
(* body of a POST, or to open a tunnel for CONNECT and GET.                   *)
Decide(r, req, allowed) ==
    \/ ~allowed /\ Answer(r) /\ UNCHANGED tunnelVars
    \/ /\ allowed /\ req.method = "POST"
       /\ request' = [request EXCEPT ![r] = [req EXCEPT !.pc = "Body"]]
       /\ UNCHANGED tunnelVars
    \/ /\ allowed /\ req.method = "CONNECT"
       /\ Answer(r)
       /\ try_upgrade(req.gateway)

(* Variant: a probe under way is not entered in the map. *)
allocate_in_flight_unmarked(pr, g) == pr

allocate_in_flight(pr, g) == [pr EXCEPT !.by_url[g] = InFlight]

(* serve_ohttp_relay, parse_gateway_uri and check_opt_in up to the first      *)
(* await: a known policy decides, a probe under way is awaited, and an        *)
(* unknown gateway is probed if there is room to remember it.                 *)
check_opt_in(r, g, m) ==
    LET req == [pc |-> "Wait", gateway |-> g, method |-> m, allowed |-> FALSE]
        pr == prune
        st == pr.by_url[g]
    IN  /\ request[r].pc = "Idle"
        /\ UNCHANGED heard
        /\ \/ st.st = "Known" /\ Becomes(pr) /\ Decide(r, req, st.allowed)
           \/ /\ st.st = "InFlight" /\ Becomes(pr) /\ UNCHANGED tunnelVars
              /\ request' = [request EXCEPT ![r] = req]
           \/ /\ st.st = "Dropped" /\ Becomes(pr) /\ UNCHANGED tunnelVars
              /\ request' = [request EXCEPT ![r] = [req EXCEPT !.pc = "Panicked"]]
           \/ /\ st = Absent /\ has_capacity(pr) /\ UNCHANGED tunnelVars
              /\ Becomes(allocate_in_flight(pr, g))
              /\ request' = [request EXCEPT ![r] = [req EXCEPT !.pc = "Probe"]]
           \/ /\ st = Absent /\ ~has_capacity(pr) /\ Becomes(pr)
              /\ UNCHANGED <<request, tunnelVars>>

(* The probe ends: the policy is entered and sent to everyone waiting for it. *)
(* The prober goes on with it like they do.                                   *)
probe_ends(r, answer) ==
    LET g == request[r].gateway
    IN  /\ request[r].pc = "Probe"
        /\ heard' = [heard EXCEPT ![g] = IF is_explicit_opt_in(answer) THEN 0 ELSE No]
        /\ UNCHANGED tunnelVars
        /\ \E policy \in probe(answer) :
              /\ Becomes(insert([by_url |-> by_url, by_expiry |-> by_expiry], g, policy))
              /\ request' = [q \in Requests |->
                    IF q = r \/ (request[q].pc = "Wait" /\ request[q].gateway = g)
                    THEN [request[q] EXCEPT !.pc = "Told", !.allowed = policy.bip77_allowed]
                    ELSE request[q]]

(* The prober, or a request that waited for it, goes on. *)
told(r) ==
    /\ request[r].pc = "Told"
    /\ Decide(r, request[r], request[r].allowed)
    /\ UNCHANGED <<proberVars, heard>>

(* into_forward_req: an unexpected media type, or a body that cannot be read, *)
(* is refused; otherwise the request goes out, tagged with this instance's    *)
(* sentinel.                                                                  *)
into_forward_req(r) ==
    /\ request[r].pc = "Body"
    /\ Answer(r) \/ Goto(r, "Forward")
    /\ UNCHANGED <<proberVars, tunnelVars, heard>>

(* forward_request: the gateway's answer, or 502. *)
forward_request(r) ==
    /\ request[r].pc = "Forward"
    /\ Answer(r)
    /\ UNCHANGED <<proberVars, tunnelVars, heard>>

(* The client disconnects, or the task panicked, and the task is dropped.     *)
disconnect(r) ==
    /\ request[r].pc \in {"Wait", "Told", "Body", "Forward", "Panicked"}
    /\ Answer(r)
    /\ UNCHANGED <<proberVars, tunnelVars, heard>>

(* When it was probing, the sender of the channel goes with it: its entry in  *)
(* the map stays, and those who wait on it panic.                             *)
disconnect_prober(r) ==
    LET g == request[r].gateway
    IN  /\ request[r].pc = "Probe"
        /\ by_url' = [by_url EXCEPT ![g] = Dropped]
        /\ request' = [q \in Requests |->
              IF q = r THEN Nobody
              ELSE IF request[q].pc = "Wait" /\ request[q].gateway = g
              THEN [request[q] EXCEPT !.pc = "Panicked"]
              ELSE request[q]]
        /\ UNCHANGED <<by_expiry, tunnelVars, heard>>

(* Time passes; a request that was told runs before that. *)
Tick ==
    /\ \A r \in Requests : request[r].pc # "Told"
    /\ Age
    /\ heard' = [g \in Gateways |-> IF heard[g] \in 0..Long THEN heard[g] + 1 ELSE heard[g]]
    /\ UNCHANGED <<request, tunnelVars>>

RelayStep ==
    \/ \E r \in Requests :
         \/ \E g \in Gateways, m \in {"POST", "CONNECT"} : check_opt_in(r, g, m)
         \/ \E a \in Answers : probe_ends(r, a)
         \/ told(r)
         \/ into_forward_req(r)
         \/ forward_request(r)
         \/ disconnect(r)
         \/ disconnect_prober(r)
    \/ \E t \in Tunnels : TunnelStep(t) \/ run_tunnel_within(t) \/ drop_guard(t)
    \/ Tick

(* Timers fire and the runtime polls what is ready; clients and gateways owe  *)
(* nothing.                                                                   *)
RelayFairness ==
    /\ WF_relayVars(Tick)
    /\ \A r \in Requests : WF_relayVars(told(r))
    /\ \A t \in Tunnels : WF_relayVars(run_tunnel_within(t)) /\ WF_relayVars(drop_guard(t))

Spec == RelayInit /\ [][RelayStep]_relayVars /\ RelayFairness

-----------------------------------------------------------------------------
(* However many requests name an unknown gateway, one of them probes it       *)
(* (allocate_in_flight).                                                      *)
OneProbe ==
    \A q, r \in Requests :
       request[q].pc = "Probe" /\ request[r].pc = "Probe"
          /\ request[q].gateway = request[r].gateway => q = r

(* Every policy in the map is one entry of the heap with its expiry, and the  *)
(* heap holds nothing else: so all of them are forgotten in time, none early, *)
(* and prune never removes the mark of a probe under way.                     *)
CacheTracked ==
    by_expiry = {[key |-> g, ttl |-> by_url[g].ttl] :
                    g \in {h \in Gateways : by_url[h].st = "Known"}}

(* The gateway is the default one, or opted in when it was last asked, at     *)
(* most a week ago.                                                           *)
Admits(g) == g = DefaultGateway \/ heard[g] \in 0..Long

(* A request is admitted, and a tunnel opens, only when the opt-in of its     *)
(* gateway is fresh (parse_gateway_uri, over what check_opt_in cached or      *)
(* waited for), and only what was admitted goes out, to the gateway it was    *)
(* admitted for.  The opt-in need not be fresh any more when it goes out: the *)
(* wait of into_forward_req for the body has no bound.                        *)
AdmittedOnOptIn ==
    [][/\ \A r \in Requests : request'[r].pc = "Body" /\ request[r].pc # "Body"
             => Admits(request'[r].gateway)
       /\ \A r \in Requests : request'[r].pc = "Forward" /\ request[r].pc # "Forward"
             => request[r].pc = "Body" /\ request'[r].gateway = request[r].gateway
       /\ \A t \in Tunnels : tunnel'[t].pc = "Setup" /\ tunnel[t].pc # "Setup"
             => Admits(tunnel'[t].gateway)]_relayVars

(* Every tunnel holds a permit until its sockets are closed and is counted by *)
(* the gauge until its task ends, however it ends; so there are never more    *)
(* than the budget, no permit is lost, and the gauge exceeds the budget by    *)
(* the tasks about to end at most (TunnelLimits: "total descriptor use stays  *)
(* bounded"; TunnelGuard: "the active-tunnel gauge cannot drift").            *)
TunnelBudget ==
    /\ active_tunnels = Cardinality(Open)
    /\ permits = MaxTunnels - Cardinality(Holding)
    /\ permits >= 0

(* A tunnel is torn down and its task ends, whatever its client and its       *)
(* gateway do (run_tunnel_within).                                            *)
TunnelsEnd == \A t \in Tunnels : (t \in Open) ~> (t \notin Open)

(* gateway_prober.rs, check_opt_in: a request that waits for another's probe  *)
(* gets its policy: expect("probe task should never be dropped").             *)
ProbeNeverDropped == \A r \in Requests : request[r].pc # "Panicked"

=============================================================================
