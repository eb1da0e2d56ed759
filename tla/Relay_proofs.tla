---------------------------- MODULE Relay_proofs ----------------------------
(***************************************************************************)
(* Theorems about the OHTTP relay, for any number of requests, gateways    *)
(* and tunnels and any times to live: one probe per gateway, a cache whose *)
(* heap and map agree, a tunnel budget that is never exceeded or leaked,   *)
(* and no request or tunnel admitted for a gateway whose opt-in is not     *)
(* fresh at that moment.                                                   *)
(*                                                                         *)
(* The inductive invariant IInv ties a probe to its mark in the map        *)
(* (ProbeMarked), an opt-in in the map to the time since it was heard      *)
(* (OptInFresh), and the answer a request was told to an entry that cannot *)
(* have changed since (ToldFresh).                                         *)
(***************************************************************************)
EXTENDS Relay, FiniteSetTheorems, TLAPS

Ttls == Int \cup {Forever}

(* Every variable of the relay has its type. *)
TypeInv ==
    /\ by_url \in [Gateways -> [st : {"Absent", "InFlight", "Dropped", "Known"},
                               allowed : BOOLEAN, ttl : Ttls]]
    /\ request \in [Requests ->
          [pc : {"Idle", "Wait", "Probe", "Told", "Body", "Forward", "Panicked"},
           gateway : Gateways, method : {"POST", "CONNECT"}, allowed : BOOLEAN]]
    /\ tunnel \in [Tunnels ->
          [pc : {"Closed", "Setup", "Copy", "HalfClosed", "Stalled", "Ending"},
           gateway : Gateways]]
    /\ permits \in Int /\ active_tunnels \in Int
    /\ heard \in [Gateways -> Int]

(* A probe under way is in the map, and nothing takes it out but its end. *)
ProbeMarked ==
    \A r \in Requests : request[r].pc = "Probe" => by_url[request[r].gateway] = InFlight

(* An opt-in in the map runs out a week after it was heard. *)
OptInFresh ==
    \A g \in Gateways \ {DefaultGateway} :
        by_url[g].st = "Known" /\ by_url[g].allowed =>
            /\ by_url[g].ttl \in -1..Long
            /\ heard[g] = Long - by_url[g].ttl

(* A request that was told of an opt-in goes on before any time passes. *)
ToldFresh ==
    \A r \in Requests :
        request[r].pc = "Told" /\ request[r].allowed /\ request[r].gateway # DefaultGateway =>
            by_url[request[r].gateway] = Known(Policy(TRUE, Long))

(* The inductive invariant. *)
IInv ==
    /\ TypeInv
    /\ CacheTracked
    /\ ProbeMarked
    /\ OneProbe
    /\ OptInFresh
    /\ ToldFresh
    /\ TunnelBudget

-----------------------------------------------------------------------------
(* The prober's map and heap *)

Statuses == [st : {"Absent", "InFlight", "Dropped", "Known"},
             allowed : BOOLEAN, ttl : Ttls]

(* The heap holds the expiry of each policy of the map, and nothing else. *)
Tracked(map, heap) ==
    \A e : e \in heap <=>
        \E g \in Gateways : map[g].st = "Known" /\ e = [key |-> g, ttl |-> map[g].ttl]

(* CacheTracked, as a statement about the elements of the heap. *)
LEMMA TrackedIff == (CacheTracked <=> Tracked(by_url, by_expiry))
                    /\ (CacheTracked' <=> Tracked(by_url', by_expiry'))
BY DEF CacheTracked, Tracked

(* The marks are not policies. *)
LEMMA MarkTypes ==
    /\ Absent \in Statuses /\ InFlight \in Statuses /\ Dropped \in Statuses
    /\ Absent.st = "Absent" /\ InFlight.st = "InFlight" /\ Dropped.st = "Dropped"
BY DEF Absent, InFlight, Dropped, Status, Statuses, Ttls

(* Policies that probes find have their type. *)
LEMMA PolicyTypes ==
    ASSUME NEW b \in BOOLEAN, NEW ttl \in Ttls
    PROVE  /\ Known(Policy(b, ttl)) \in Statuses
           /\ Known(Policy(b, ttl)).st = "Known"
           /\ Known(Policy(b, ttl)).allowed = b
           /\ Known(Policy(b, ttl)).ttl = ttl
           /\ Policy(b, ttl).expires = ttl /\ Policy(b, ttl).bip77_allowed = b
BY DEF Known, Policy, Status, Statuses, Ttls

(* KnownGateways::prune forgets the policies that have run out and no probe. *)
LEMMA PruneFacts ==
    ASSUME IInv
    PROVE  /\ prune.by_url \in [Gateways -> Statuses]
           /\ \A g \in Gateways : prune.by_url[g] =
                 IF by_url[g].st = "Known" /\ Over(by_url[g].ttl) THEN Absent ELSE by_url[g]
           /\ Tracked(prune.by_url, prune.by_expiry)
<1>0. by_url \in [Gateways -> Statuses] /\ Tracked(by_url, by_expiry)
  BY TrackedIff DEF IInv, TypeInv, Statuses
<1>1. prune.by_url = [g \in Gateways |->
                        IF \E e \in Popped : e.key = g THEN Absent ELSE by_url[g]]
      /\ prune.by_expiry = by_expiry \ Popped
  BY DEF prune
<1>2. \A g \in Gateways : (\E e \in Popped : e.key = g)
                             <=> (by_url[g].st = "Known" /\ Over(by_url[g].ttl))
  <2> TAKE g \in Gateways
  <2>1. ASSUME NEW e \in Popped, e.key = g
        PROVE  by_url[g].st = "Known" /\ Over(by_url[g].ttl)
    <3>1. e \in by_expiry /\ Over(e.ttl)
      BY <2>1 DEF Popped
    <3>2. PICK h \in Gateways : /\ by_url[h].st = "Known"
                                /\ e = [key |-> h, ttl |-> by_url[h].ttl]
      BY <1>0, <3>1 DEF Tracked
    <3>3. h = g /\ e.ttl = by_url[h].ttl
      BY <2>1, <3>2
    <3> QED
      BY <3>1, <3>2, <3>3
  <2>2. ASSUME by_url[g].st = "Known", Over(by_url[g].ttl)
        PROVE  \E e \in Popped : e.key = g
    <3> DEFINE e == [key |-> g, ttl |-> by_url[g].ttl]
    <3>1. e \in by_expiry
      BY <1>0, <2>2 DEF Tracked
    <3>2. e.ttl = by_url[g].ttl /\ e.key = g
      OBVIOUS
    <3>3. e \in Popped
      BY <2>2, <3>1, <3>2 DEF Popped
    <3> QED
      BY <3>2, <3>3
  <2> QED
    BY <2>1, <2>2
<1>3. \A g \in Gateways : prune.by_url[g] =
         IF by_url[g].st = "Known" /\ Over(by_url[g].ttl) THEN Absent ELSE by_url[g]
  BY <1>1, <1>2
<1>4. prune.by_url \in [Gateways -> Statuses]
  BY <1>0, <1>1, MarkTypes
<1>5. Tracked(prune.by_url, prune.by_expiry)
  <2> SUFFICES ASSUME NEW e
               PROVE  e \in by_expiry \ Popped <=>
                        \E g \in Gateways : /\ prune.by_url[g].st = "Known"
                                            /\ e = [key |-> g, ttl |-> prune.by_url[g].ttl]
    BY <1>1 DEF Tracked
  <2>1. ASSUME e \in by_expiry \ Popped
        PROVE  \E g \in Gateways : /\ prune.by_url[g].st = "Known"
                                   /\ e = [key |-> g, ttl |-> prune.by_url[g].ttl]
    <3>1. PICK g \in Gateways : by_url[g].st = "Known" /\ e = [key |-> g, ttl |-> by_url[g].ttl]
      BY <1>0, <2>1 DEF Tracked
    <3>2. ~Over(by_url[g].ttl)
      BY <2>1, <3>1 DEF Popped
    <3> QED
      BY <1>3, <3>1, <3>2
  <2>2. ASSUME NEW g \in Gateways, prune.by_url[g].st = "Known",
               e = [key |-> g, ttl |-> prune.by_url[g].ttl]
        PROVE  e \in by_expiry \ Popped
    <3>1. prune.by_url[g] = by_url[g] /\ ~Over(by_url[g].ttl)
      BY <1>3, <2>2, MarkTypes
    <3>2. e \in by_expiry
      BY <1>0, <2>2, <3>1 DEF Tracked
    <3>3. e.ttl = by_url[g].ttl
      BY <2>2, <3>1
    <3> QED
      BY <3>1, <3>2, <3>3 DEF Popped
  <2> QED
    BY <2>1, <2>2
<1> QED
  BY <1>3, <1>4, <1>5

(* What the requests rely on: marks and opt-ins in force are not disturbed. *)
MapKept ==
    /\ by_url' \in [Gateways -> Statuses]
    /\ \A g \in Gateways : by_url[g] = InFlight => by_url'[g] = InFlight
    /\ \A g \in Gateways : by_url'[g].st = "Known" => by_url'[g] = by_url[g]
    /\ \A g \in Gateways : by_url[g] = Known(Policy(TRUE, Long)) => by_url'[g] = by_url[g]

(* Pruning, with or without the mark of a new probe, keeps them. *)
LEMMA PruneKeeps ==
    ASSUME IInv, NEW g \in Gateways,
           \/ Becomes(prune)
           \/ prune.by_url[g] = Absent /\ Becomes(allocate_in_flight(prune, g))
    PROVE  MapKept /\ CacheTracked'
<1>0. by_url \in [Gateways -> Statuses] /\ Long \in Nat /\ Forever \notin Int
  BY TtlAssumption DEF IInv, TypeInv, Statuses
<1>a. /\ Known(Policy(TRUE, Long)).st = "Known" /\ Known(Policy(TRUE, Long)).ttl = Long
      /\ ~Over(Long)
  <2>1. Long \in Ttls /\ TRUE \in BOOLEAN /\ Long # Forever
    BY <1>0 DEF Ttls
  <2>2. ~Over(Long)
    BY <1>0 DEF Over
  <2> QED
    BY <2>1, <2>2, PolicyTypes
<1>1. CASE Becomes(prune)
  <2>1. by_url' = prune.by_url /\ by_expiry' = prune.by_expiry
    BY <1>1 DEF Becomes
  <2>2. CacheTracked'
    BY <2>1, PruneFacts, TrackedIff
  <2>3. MapKept
    BY <1>0, <1>a, <2>1, PruneFacts, MarkTypes DEF MapKept
  <2> QED
    BY <2>2, <2>3
<1>2. CASE prune.by_url[g] = Absent /\ Becomes(allocate_in_flight(prune, g))
  <2>0. allocate_in_flight(prune, g) =
           [by_url |-> [prune.by_url EXCEPT ![g] = InFlight], by_expiry |-> prune.by_expiry]
    <3> DEFINE pr == prune
    <3>1. pr = [by_url |-> pr.by_url, by_expiry |-> pr.by_expiry]
      BY DEF prune
    <3> HIDE DEF pr
    <3>2. [pr EXCEPT !.by_url[g] = InFlight] =
             [by_url |-> [pr.by_url EXCEPT ![g] = InFlight], by_expiry |-> pr.by_expiry]
      BY <3>1
    <3> QED
      BY <3>2 DEF allocate_in_flight, pr
  <2>1. by_url' = [prune.by_url EXCEPT ![g] = InFlight] /\ by_expiry' = prune.by_expiry
    BY <1>2, <2>0 DEF Becomes
  <2>2. /\ by_url' \in [Gateways -> Statuses]
        /\ by_url'[g] = InFlight
        /\ \A h \in Gateways : h # g => by_url'[h] = prune.by_url[h]
    BY <2>1, PruneFacts, MarkTypes
  <2>3. Tracked(by_url', by_expiry')
    BY <1>2, <2>1, <2>2, PruneFacts, MarkTypes DEF Tracked
  <2>4. MapKept
    BY <1>0, <1>2, <1>a, <2>2, PruneFacts, MarkTypes DEF MapKept
  <2> QED
    BY <2>3, <2>4, TrackedIff
<1> QED
  BY <1>1, <1>2

-----------------------------------------------------------------------------
(* Requests *)

RequestStates ==
    [pc : {"Idle", "Wait", "Probe", "Told", "Body", "Forward", "Panicked"},
     gateway : Gateways, method : {"POST", "CONNECT"}, allowed : BOOLEAN]

(* A request that is not served. *)
LEMMA NobodyType == Nobody \in RequestStates /\ Nobody.pc = "Idle"
BY GatewayAssumption DEF Nobody, RequestStates

(* One request moves; it does not start a probe, or it has marked it. *)
LEMMA RequestMoves ==
    ASSUME IInv, MapKept, NEW r \in Requests, NEW x \in RequestStates,
           request' = [request EXCEPT ![r] = x], x.pc # "Told",
           x.pc = "Probe" => /\ by_url[x.gateway] # InFlight
                             /\ by_url'[x.gateway] = InFlight
    PROVE  /\ request' \in [Requests -> RequestStates]
           /\ ProbeMarked' /\ OneProbe' /\ ToldFresh'
<1>0. request \in [Requests -> RequestStates]
  BY DEF IInv, TypeInv, RequestStates
<1>1. request' \in [Requests -> RequestStates] /\ request'[r] = x
      /\ \A q \in Requests : q # r => request'[q] = request[q]
  BY <1>0
<1>2. \A q \in Requests : request[q].gateway \in Gateways
  BY <1>0 DEF RequestStates
<1>3. ProbeMarked'
  <2> SUFFICES ASSUME NEW q \in Requests, request'[q].pc = "Probe"
               PROVE  by_url'[request'[q].gateway] = InFlight
    BY DEF ProbeMarked, InFlight, Status
  <2>1. CASE q = r
    BY <1>1, <2>1
  <2>2. CASE q # r
    <3>1. request[q].pc = "Probe" /\ request'[q] = request[q]
      BY <1>1, <2>2
    <3>2. by_url[request[q].gateway] = InFlight
      BY <3>1 DEF IInv, ProbeMarked
    <3> QED
      BY <1>2, <3>1, <3>2 DEF MapKept
  <2> QED
    BY <2>1, <2>2
<1>4. OneProbe'
  <2> SUFFICES ASSUME NEW p \in Requests, NEW q \in Requests,
                      request'[p].pc = "Probe", request'[q].pc = "Probe",
                      request'[p].gateway = request'[q].gateway, p # q
               PROVE  FALSE
    BY DEF OneProbe
  <2>1. CASE p = r
    <3>1. request'[q] = request[q] /\ by_url[x.gateway] # InFlight
      BY <1>1, <2>1
    <3>2. by_url[request[q].gateway] = InFlight
      BY <3>1 DEF IInv, ProbeMarked
    <3> QED
      BY <1>1, <2>1, <3>1, <3>2
  <2>2. CASE q = r
    <3>1. request'[p] = request[p] /\ by_url[x.gateway] # InFlight
      BY <1>1, <2>2
    <3>2. by_url[request[p].gateway] = InFlight
      BY <3>1 DEF IInv, ProbeMarked
    <3> QED
      BY <1>1, <2>2, <3>1, <3>2
  <2>3. CASE p # r /\ q # r
    BY <1>1, <2>3 DEF IInv, OneProbe
  <2> QED
    BY <2>1, <2>2, <2>3
<1>5. ToldFresh'
  <2> SUFFICES ASSUME NEW q \in Requests, request'[q].pc = "Told", request'[q].allowed,
                      request'[q].gateway # DefaultGateway
               PROVE  by_url'[request'[q].gateway] = Known(Policy(TRUE, Long))
    BY DEF ToldFresh, Known, Policy, Status
  <2>1. q # r /\ request'[q] = request[q]
    BY <1>1
  <2>2. by_url[request[q].gateway] = Known(Policy(TRUE, Long))
    BY <2>1 DEF IInv, ToldFresh
  <2> QED
    BY <1>2, <2>1, <2>2 DEF MapKept
<1> QED
  BY <1>1, <1>3, <1>4, <1>5

(* The opt-ins of the map stay as fresh as they were. *)
LEMMA FreshKept ==
    ASSUME IInv, MapKept, UNCHANGED heard
    PROVE  OptInFresh'
BY DEF IInv, OptInFresh, MapKept

-----------------------------------------------------------------------------
(* Tunnels *)

TunnelStates == [pc : {"Closed", "Setup", "Copy", "HalfClosed", "Stalled", "Ending"},
                 gateway : Gateways]

TunnelTypes == tunnel \in [Tunnels -> TunnelStates] /\ permits \in Int /\ active_tunnels \in Int

(* The tunnels that are open, or hold a permit, and their number. *)
LEMMA OpenFinite ==
    /\ IsFiniteSet(Open) /\ Cardinality(Open) \in Nat
    /\ IsFiniteSet(Holding) /\ Cardinality(Holding) \in Nat
<1>1. Open \in SUBSET Tunnels /\ Holding \in SUBSET Tunnels
  BY DEF Open, Holding
<1> QED
  BY <1>1, TunnelAssumption, FS_Subset, FS_CardinalityType

(* Nothing happens to the tunnels. *)
LEMMA TunnelsKept ==
    ASSUME IInv, UNCHANGED tunnelVars
    PROVE  TunnelTypes' /\ TunnelBudget'
BY DEF IInv, TypeInv, TunnelTypes, TunnelStates, TunnelBudget, tunnelVars, Open, Holding

(* try_upgrade takes a permit for the tunnel it opens. *)
LEMMA UpgradeBudget ==
    ASSUME IInv, NEW g \in Gateways, try_upgrade(g)
    PROVE  TunnelTypes' /\ TunnelBudget'
<1>1. CASE UNCHANGED tunnelVars
  BY <1>1, TunnelsKept
<1>2. CASE /\ permits > 0
           /\ \E t \in Tunnels \ Open :
                 tunnel' = [tunnel EXCEPT ![t] = [pc |-> "Setup", gateway |-> g]]
           /\ permits' = permits - 1 /\ active_tunnels' = active_tunnels + 1
  <2>0. tunnel \in [Tunnels -> TunnelStates] /\ permits \in Int /\ active_tunnels \in Int
    BY DEF IInv, TypeInv, TunnelStates
  <2>1. PICK t \in Tunnels \ Open :
           tunnel' = [tunnel EXCEPT ![t] = [pc |-> "Setup", gateway |-> g]]
    BY <1>2
  <2>2. [pc |-> "Setup", gateway |-> g] \in TunnelStates
    BY DEF TunnelStates
  <2>3. tunnel' \in [Tunnels -> TunnelStates]
    BY <2>0, <2>1, <2>2
  <2>4. Open' = Open \cup {t} /\ Holding' = Holding \cup {t} /\ t \notin Open /\ t \notin Holding
    BY <2>0, <2>1, <2>3 DEF Open, Holding
  <2>5. /\ Cardinality(Open') = Cardinality(Open) + 1
        /\ Cardinality(Holding') = Cardinality(Holding) + 1
    BY <2>4, OpenFinite, FS_AddElement
  <2> QED
    BY <1>2, <2>0, <2>3, <2>5, OpenFinite, TunnelAssumption
       DEF IInv, TunnelBudget, TunnelTypes
<1> QED
  BY <1>1, <1>2 DEF try_upgrade

(* A tunnel that ends gives its permit back, and stays counted. *)
LEMMA CloseBudget ==
    ASSUME IInv, NEW t \in Tunnels, t \in Holding, Close(t)
    PROVE  TunnelTypes' /\ TunnelBudget'
<1>0. tunnel \in [Tunnels -> TunnelStates] /\ permits \in Int /\ active_tunnels \in Int
  BY DEF IInv, TypeInv, TunnelStates
<1>1. Ending \in TunnelStates /\ Ending.pc = "Ending"
  BY GatewayAssumption DEF TunnelStates, Ending
<1>2. tunnel' = [tunnel EXCEPT ![t] = Ending] /\ tunnel' \in [Tunnels -> TunnelStates]
  BY <1>0, <1>1 DEF Close
<1>3. Open' = Open /\ Holding' = Holding \ {t}
  BY <1>0, <1>1, <1>2 DEF Open, Holding
<1>4. Cardinality(Holding') = Cardinality(Holding) - 1
  BY <1>3, OpenFinite, FS_RemoveElement
<1> QED
  BY <1>0, <1>2, <1>3, <1>4, OpenFinite, TunnelAssumption
     DEF Close, IInv, TunnelBudget, TunnelTypes

(* A task that ends is no longer counted; its permit was given back before. *)
LEMMA GuardBudget ==
    ASSUME IInv, NEW t \in Tunnels, drop_guard(t)
    PROVE  TunnelTypes' /\ TunnelBudget'
<1>0. tunnel \in [Tunnels -> TunnelStates] /\ permits \in Int /\ active_tunnels \in Int
  BY DEF IInv, TypeInv, TunnelStates
<1>1. Shut \in TunnelStates /\ Shut.pc = "Closed"
  BY GatewayAssumption DEF TunnelStates, Shut
<1>2. /\ tunnel' = [tunnel EXCEPT ![t] = Shut] /\ tunnel' \in [Tunnels -> TunnelStates]
      /\ tunnel[t].pc = "Ending"
  BY <1>0, <1>1 DEF drop_guard
<1>3. Open' = Open \ {t} /\ Holding' = Holding /\ t \in Open
  BY <1>0, <1>1, <1>2 DEF Open, Holding
<1>4. Cardinality(Open') = Cardinality(Open) - 1
  BY <1>3, OpenFinite, FS_RemoveElement
<1> QED
  BY <1>0, <1>2, <1>3, <1>4, OpenFinite, TunnelAssumption
     DEF drop_guard, IInv, TunnelBudget, TunnelTypes

(* A tunnel that moves keeps it. *)
LEMMA MoveBudget ==
    ASSUME IInv, NEW t \in Tunnels, NEW from \in {"Setup", "Copy", "Stalled"},
           NEW to \in {"Copy", "HalfClosed", "Stalled"}, TunnelMoves(t, from, to)
    PROVE  TunnelTypes' /\ TunnelBudget'
<1>0. tunnel \in [Tunnels -> TunnelStates]
  BY DEF IInv, TypeInv, TunnelStates
<1>1. tunnel' = [tunnel EXCEPT ![t].pc = to] /\ tunnel[t].pc = from
      /\ UNCHANGED <<permits, active_tunnels>>
  BY DEF TunnelMoves
<1>2. tunnel' \in [Tunnels -> TunnelStates] /\ tunnel'[t].pc = to
      /\ \A u \in Tunnels : u # t => tunnel'[u] = tunnel[u]
  BY <1>0, <1>1 DEF TunnelStates
<1>3. Open' = Open /\ Holding' = Holding
  BY <1>1, <1>2 DEF Open, Holding
<1> QED
  BY <1>1, <1>2, <1>3 DEF IInv, TypeInv, TunnelTypes, TunnelBudget

-----------------------------------------------------------------------------
(* Every action keeps the invariant. *)

(* The parts of the invariant about requests. *)
RequestsKept ==
    /\ request' \in [Requests -> RequestStates]
    /\ ProbeMarked' /\ OneProbe' /\ ToldFresh'

(* Together the parts make up the invariant. *)
LEMMA Assemble ==
    ASSUME IInv, by_url' \in [Gateways -> Statuses], CacheTracked', RequestsKept,
           OptInFresh', heard' \in [Gateways -> Int], TunnelTypes', TunnelBudget'
    PROVE  IInv'
BY DEF IInv, TypeInv, Statuses, RequestsKept, RequestStates, TunnelTypes, TunnelStates

(* A step that leaves the prober alone, or prunes it. *)
LEMMA AssembleKept ==
    ASSUME IInv, MapKept, CacheTracked', UNCHANGED heard, RequestsKept,
           TunnelTypes', TunnelBudget'
    PROVE  IInv'
<1>1. heard' \in [Gateways -> Int] /\ by_url' \in [Gateways -> Statuses]
  BY DEF IInv, TypeInv, MapKept
<1> QED
  BY <1>1, FreshKept, Assemble

(* Leaving the prober alone is a way of keeping it. *)
LEMMA ProberUnchanged ==
    ASSUME IInv, UNCHANGED proberVars
    PROVE  MapKept /\ CacheTracked'
BY DEF IInv, TypeInv, MapKept, CacheTracked, proberVars, Statuses

(* parse_gateway_uri with the policy in hand. *)
LEMMA DecideKeeps ==
    ASSUME IInv, MapKept, NEW r \in Requests, NEW req \in RequestStates, NEW allowed,
           Decide(r, req, allowed)
    PROVE  RequestsKept /\ TunnelTypes' /\ TunnelBudget'
<1>1. ASSUME Answer(r) PROVE RequestsKept
  BY <1>1, NobodyType, RequestMoves DEF Answer, RequestsKept
<1>2. req.gateway \in Gateways
  BY DEF RequestStates
<1>3. CASE ~allowed /\ Answer(r) /\ UNCHANGED tunnelVars
  BY <1>1, <1>3, TunnelsKept
<1>4. CASE /\ request' = [request EXCEPT ![r] = [req EXCEPT !.pc = "Body"]]
           /\ UNCHANGED tunnelVars
  <2>1. [req EXCEPT !.pc = "Body"] \in RequestStates /\ [req EXCEPT !.pc = "Body"].pc = "Body"
    BY DEF RequestStates
  <2>2. RequestsKept
    BY <1>4, <2>1, RequestMoves DEF RequestsKept
  <2> QED
    BY <1>4, <2>2, TunnelsKept
<1>5. CASE Answer(r) /\ try_upgrade(req.gateway)
  BY <1>1, <1>2, <1>5, UpgradeBudget
<1> QED
  BY <1>3, <1>4, <1>5 DEF Decide

(* check_opt_in up to its first await. *)
LEMMA CheckOptInInv ==
    ASSUME IInv, NEW r \in Requests, NEW g \in Gateways, NEW m \in {"POST", "CONNECT"},
           check_opt_in(r, g, m)
    PROVE  IInv'
<1> DEFINE req == [pc |-> "Wait", gateway |-> g, method |-> m, allowed |-> FALSE]
           st == prune.by_url[g]
<1>0. UNCHANGED heard
  BY DEF check_opt_in
<1>1. req \in RequestStates /\ req.pc = "Wait" /\ req.gateway = g
  BY DEF RequestStates
<1>2. \A pc \in {"Panicked", "Probe"} :
         /\ [req EXCEPT !.pc = pc] \in RequestStates
         /\ [req EXCEPT !.pc = pc].pc = pc /\ [req EXCEPT !.pc = pc].gateway = g
  BY DEF RequestStates
<1>3. CASE Becomes(prune) /\ Decide(r, req, st.allowed)
  <2>1. MapKept /\ CacheTracked'
    BY <1>3, PruneKeeps
  <2> QED
    BY <1>0, <1>1, <1>3, <2>1, DecideKeeps, AssembleKept
<1>4. CASE /\ Becomes(prune) /\ UNCHANGED tunnelVars
           /\ \/ request' = [request EXCEPT ![r] = req]
              \/ request' = [request EXCEPT ![r] = [req EXCEPT !.pc = "Panicked"]]
  <2>1. MapKept /\ CacheTracked'
    BY <1>4, PruneKeeps
  <2>2. RequestsKept
    BY <1>1, <1>2, <1>4, <2>1, RequestMoves DEF RequestsKept
  <2> QED
    BY <1>0, <1>4, <2>1, <2>2, TunnelsKept, AssembleKept
<1>5. CASE /\ st = Absent /\ UNCHANGED tunnelVars
           /\ Becomes(allocate_in_flight(prune, g))
           /\ request' = [request EXCEPT ![r] = [req EXCEPT !.pc = "Probe"]]
  <2>1. MapKept /\ CacheTracked'
    BY <1>5, PruneKeeps
  <2>2. by_url[g] # InFlight
    BY <1>5, PruneFacts, MarkTypes
  <2>3. by_url'[g] = InFlight
    <3>1. allocate_in_flight(prune, g).by_url[g] = InFlight
      BY PruneFacts DEF allocate_in_flight, prune
    <3> QED
      BY <1>5, <3>1 DEF Becomes
  <2>4. RequestsKept
    BY <1>2, <1>5, <2>1, <2>2, <2>3, RequestMoves DEF RequestsKept
  <2> QED
    BY <1>0, <1>5, <2>1, <2>4, TunnelsKept, AssembleKept
<1>6. CASE Becomes(prune) /\ UNCHANGED <<request, tunnelVars>>
  <2>1. MapKept /\ CacheTracked'
    BY <1>6, PruneKeeps
  <2>2. request \in [Requests -> RequestStates]
    BY DEF IInv, TypeInv, RequestStates
  <2>3. request[r] \in RequestStates /\ request' = [request EXCEPT ![r] = request[r]]
    BY <1>6, <2>2
  <2>4. request[r].pc = "Idle"
    BY DEF check_opt_in
  <2>5. RequestsKept
    BY <2>1, <2>3, <2>4, RequestMoves DEF RequestsKept
  <2> QED
    BY <1>0, <1>6, <2>1, <2>5, TunnelsKept, AssembleKept
<1> QED
  BY <1>3, <1>4, <1>5, <1>6 DEF check_opt_in

(* The request goes on, is answered or is dropped. *)
LEMMA ServeInv ==
    ASSUME IInv, NEW r \in Requests,
           told(r) \/ into_forward_req(r) \/ forward_request(r) \/ disconnect(r)
    PROVE  IInv'
<1>0. request[r] \in RequestStates
  BY DEF IInv, TypeInv, RequestStates
<1>1. UNCHANGED <<proberVars, heard>>
  BY DEF told, into_forward_req, forward_request, disconnect
<1>2. MapKept /\ CacheTracked'
  BY <1>1, ProberUnchanged
<1>3. CASE told(r)
  BY <1>0, <1>1, <1>2, <1>3, DecideKeeps, AssembleKept DEF told
<1>4. CASE into_forward_req(r) \/ forward_request(r) \/ disconnect(r)
  <2>1. /\ UNCHANGED tunnelVars
        /\ \/ request' = [request EXCEPT ![r] = Nobody]
           \/ request' = [request EXCEPT ![r].pc = "Forward"]
    BY <1>4 DEF into_forward_req, forward_request, disconnect, Answer, Goto
  <2>2. [request[r] EXCEPT !.pc = "Forward"] \in RequestStates
        /\ [request[r] EXCEPT !.pc = "Forward"].pc = "Forward"
    BY <1>0 DEF RequestStates
  <2>3. RequestsKept
    <3>1. CASE request' = [request EXCEPT ![r] = Nobody]
      BY <1>2, <3>1, NobodyType, RequestMoves DEF RequestsKept
    <3>2. CASE request' = [request EXCEPT ![r].pc = "Forward"]
      BY <1>2, <2>2, <3>2, RequestMoves DEF RequestsKept
    <3> QED
      BY <2>1, <3>1, <3>2
  <2> QED
    BY <1>1, <1>2, <2>1, <2>3, TunnelsKept, AssembleKept
<1> QED
  BY <1>3, <1>4

(* What a probe finds is in force for a time, and an opt-in for a week. *)
LEMMA ProbeFinds ==
    ASSUME NEW answer \in Answers, NEW policy \in probe(answer)
    PROVE  \E ttl \in Int :
              /\ policy = Policy(is_explicit_opt_in(answer), ttl)
              /\ is_explicit_opt_in(answer) => ttl = Long
<1>1. PICK ttl \in TtlsOf(answer) : policy = Policy(is_explicit_opt_in(answer), ttl)
  BY DEF probe
<1>2. Short \in Int /\ Long \in Int /\ MaxRetryAfter \in Int
  BY TtlAssumption
<1>3. TtlsOf(answer) \subseteq Int
  BY <1>2 DEF TtlsOf, retry_after_or, Answers
<1>4. answer = "opt_in" => TtlsOf(answer) = {Long}
  BY DEF TtlsOf
<1> QED
  BY <1>1, <1>3, <1>4 DEF is_explicit_opt_in

(* A probe's end replaces its mark by the policy it found. *)
LEMMA ProbeEndsInv ==
    ASSUME IInv, NEW r \in Requests, NEW answer \in Answers, probe_ends(r, answer)
    PROVE  IInv'
<1> DEFINE g == request[r].gateway
           optIn == is_explicit_opt_in(answer)
<1>0. /\ by_url \in [Gateways -> Statuses] /\ request \in [Requests -> RequestStates]
      /\ heard \in [Gateways -> Int]
  BY DEF IInv, TypeInv, RequestStates, Statuses
<1>a. g \in Gateways /\ optIn \in BOOLEAN /\ Long \in Int
  BY <1>0, TtlAssumption DEF RequestStates, is_explicit_opt_in
<1>1. request[r].pc = "Probe" /\ UNCHANGED tunnelVars
      /\ heard' = [heard EXCEPT ![g] = IF optIn THEN 0 ELSE No]
  BY DEF probe_ends
<1>2. PICK policy \in probe(answer) :
         /\ Becomes(insert([by_url |-> by_url, by_expiry |-> by_expiry], g, policy))
         /\ request' = [q \in Requests |->
               IF q = r \/ (request[q].pc = "Wait" /\ request[q].gateway = g)
               THEN [request[q] EXCEPT !.pc = "Told", !.allowed = policy.bip77_allowed]
               ELSE request[q]]
  BY DEF probe_ends
<1>3. PICK ttl \in Int : policy = Policy(optIn, ttl) /\ (optIn => ttl = Long)
  BY ProbeFinds
<1>4. /\ Known(policy) \in Statuses /\ Known(policy).st = "Known"
      /\ Known(policy).allowed = optIn /\ Known(policy).ttl = ttl
      /\ policy.expires = ttl /\ policy.bip77_allowed = optIn
  BY <1>3, <1>a, PolicyTypes DEF Ttls
<1>5. by_url[g] = InFlight
  BY <1>1 DEF IInv, ProbeMarked
<1>6. /\ by_url' = [by_url EXCEPT ![g] = Known(policy)]
      /\ by_expiry' = by_expiry \cup {[key |-> g, ttl |-> ttl]}
  BY <1>2, <1>4, <1>5, MarkTypes DEF Becomes, insert
<1>7. /\ by_url' \in [Gateways -> Statuses] /\ by_url'[g] = Known(policy)
      /\ \A h \in Gateways : h # g => by_url'[h] = by_url[h]
  BY <1>0, <1>a, <1>4, <1>6
<1>8. CacheTracked'
  <2>1. Tracked(by_url, by_expiry)
    BY TrackedIff DEF IInv
  <2>2. Tracked(by_url', by_expiry')
    BY <1>4, <1>5, <1>6, <1>7, <1>a, <2>1, MarkTypes DEF Tracked
  <2> QED
    BY <2>2, TrackedIff
<1>9. heard' \in [Gateways -> Int] /\ heard'[g] = (IF optIn THEN 0 ELSE No)
      /\ \A h \in Gateways : h # g => heard'[h] = heard[h]
  BY <1>0, <1>1, <1>a DEF No
<1>10. OptInFresh'
  <2> SUFFICES ASSUME NEW h \in Gateways \ {DefaultGateway},
                      by_url'[h].st = "Known", by_url'[h].allowed
               PROVE  by_url'[h].ttl \in -1..Long /\ heard'[h] = Long - by_url'[h].ttl
    BY DEF OptInFresh
  <2>1. CASE h = g
    BY <1>3, <1>4, <1>7, <1>9, <2>1, TtlAssumption
  <2>2. CASE h # g
    BY <1>7, <1>9, <2>2 DEF IInv, OptInFresh
  <2> QED
    BY <2>1, <2>2
<1>11. /\ request' \in [Requests -> RequestStates]
       /\ \A q \in Requests :
             \/ /\ request'[q].pc = "Told" /\ request'[q].gateway = g
                /\ request'[q].allowed = optIn
             \/ q # r /\ request'[q] = request[q]
  <2>1. \A q \in Requests :
           LET x == [request[q] EXCEPT !.pc = "Told", !.allowed = policy.bip77_allowed]
           IN  /\ x \in RequestStates /\ x.pc = "Told" /\ x.allowed = optIn
               /\ x.gateway = request[q].gateway
    BY <1>0, <1>4, <1>a DEF RequestStates
  <2>2. request' \in [Requests -> RequestStates]
    BY <1>0, <1>2, <2>1
  <2>3. ASSUME NEW q \in Requests
        PROVE  \/ /\ request'[q].pc = "Told" /\ request'[q].gateway = g
                  /\ request'[q].allowed = optIn
               \/ q # r /\ request'[q] = request[q]
    <3>1. CASE q = r \/ (request[q].pc = "Wait" /\ request[q].gateway = g)
      <4>1. request'[q] = [request[q] EXCEPT !.pc = "Told", !.allowed = policy.bip77_allowed]
        BY <1>2, <3>1
      <4> QED
        BY <2>1, <3>1, <4>1
    <3>2. CASE ~(q = r \/ (request[q].pc = "Wait" /\ request[q].gateway = g))
      BY <1>2, <3>2
    <3> QED
      BY <3>1, <3>2
  <2> QED
    BY <2>2, <2>3
<1>b. \A q \in Requests : request[q].gateway \in Gateways
  BY <1>0 DEF RequestStates
<1>12. ProbeMarked'
  <2> SUFFICES ASSUME NEW q \in Requests, request'[q].pc = "Probe"
               PROVE  by_url'[request'[q].gateway] = InFlight
    BY DEF ProbeMarked, InFlight, Status
  <2>1. q # r /\ request'[q] = request[q]
    BY <1>11
  <2>2. request[q].gateway # g
    BY <1>1, <2>1 DEF IInv, OneProbe
  <2>3. by_url[request[q].gateway] = InFlight
    BY <2>1 DEF IInv, ProbeMarked
  <2> QED
    BY <1>7, <1>b, <2>1, <2>2, <2>3
<1>13. OneProbe'
  BY <1>11 DEF IInv, OneProbe
<1>14. ToldFresh'
  <2> SUFFICES ASSUME NEW q \in Requests, request'[q].pc = "Told", request'[q].allowed,
                      request'[q].gateway # DefaultGateway
               PROVE  by_url'[request'[q].gateway] = Known(Policy(TRUE, Long))
    BY DEF ToldFresh, Known, Policy, Status
  <2>1. CASE request'[q].gateway = g /\ request'[q].allowed = optIn
    <3>1. policy = Policy(TRUE, Long)
      BY <1>3, <1>a, <2>1
    <3> QED
      BY <1>7, <2>1, <3>1
  <2>2. CASE q # r /\ request'[q] = request[q]
    <3>1. by_url[request[q].gateway] = Known(Policy(TRUE, Long))
      BY <2>2 DEF IInv, ToldFresh
    <3>2. Known(Policy(TRUE, Long)).st = "Known"
      BY DEF Known, Status
    <3>3. request[q].gateway # g
      BY <1>5, <3>1, <3>2, MarkTypes
    <3> QED
      BY <1>7, <1>b, <2>2, <3>1, <3>3
  <2> QED
    BY <1>11, <2>1, <2>2
<1>15. RequestsKept
  BY <1>11, <1>12, <1>13, <1>14 DEF RequestsKept
<1> QED
  BY <1>1, <1>7, <1>8, <1>9, <1>10, <1>15, TunnelsKept, Assemble

(* A dropped prober leaves its entry, and a channel without a sender. *)
LEMMA DisconnectProberInv ==
    ASSUME IInv, NEW r \in Requests, disconnect_prober(r)
    PROVE  IInv'
<1> DEFINE g == request[r].gateway
<1>0. /\ by_url \in [Gateways -> Statuses] /\ request \in [Requests -> RequestStates]
  BY DEF IInv, TypeInv, RequestStates, Statuses
<1>a. \A q \in Requests : request[q].gateway \in Gateways
  BY <1>0 DEF RequestStates
<1>1. /\ request[r].pc = "Probe" /\ UNCHANGED <<by_expiry, tunnelVars, heard>>
      /\ by_url' = [by_url EXCEPT ![g] = Dropped]
      /\ request' = [q \in Requests |->
              IF q = r THEN Nobody
              ELSE IF request[q].pc = "Wait" /\ request[q].gateway = g
              THEN [request[q] EXCEPT !.pc = "Panicked"]
              ELSE request[q]]
  BY DEF disconnect_prober
<1>2. by_url[g] = InFlight
  BY <1>1 DEF IInv, ProbeMarked
<1>3. /\ by_url' \in [Gateways -> Statuses] /\ by_url'[g] = Dropped
      /\ \A h \in Gateways : h # g => by_url'[h] = by_url[h]
  BY <1>0, <1>1, <1>a, MarkTypes
<1>4. CacheTracked'
  <2>1. Tracked(by_url, by_expiry)
    BY TrackedIff DEF IInv
  <2>2. \A h \in Gateways :
           /\ by_url'[h].st = "Known" <=> by_url[h].st = "Known"
           /\ by_url'[h].st = "Known" => by_url'[h] = by_url[h]
    BY <1>2, <1>3, MarkTypes
  <2>3. Tracked(by_url', by_expiry')
    BY <1>1, <2>1, <2>2 DEF Tracked
  <2> QED
    BY <2>3, TrackedIff
<1>5. OptInFresh' /\ heard' \in [Gateways -> Int]
  <2>1. \A h \in Gateways : by_url'[h].st = "Known" => by_url'[h] = by_url[h]
    BY <1>2, <1>3, MarkTypes
  <2> QED
    BY <1>1, <2>1 DEF IInv, OptInFresh, TypeInv
<1>6. /\ request' \in [Requests -> RequestStates]
      /\ \A q \in Requests :
            \/ request'[q].pc \in {"Idle", "Panicked"}
            \/ q # r /\ request'[q] = request[q]
  <2>1. \A q \in Requests : /\ [request[q] EXCEPT !.pc = "Panicked"] \in RequestStates
                            /\ [request[q] EXCEPT !.pc = "Panicked"].pc = "Panicked"
    BY <1>0 DEF RequestStates
  <2>2. request' \in [Requests -> RequestStates]
    BY <1>0, <1>1, <2>1, NobodyType
  <2> QED
    BY <1>1, <2>1, <2>2, NobodyType
<1>7. ProbeMarked'
  <2> SUFFICES ASSUME NEW q \in Requests, request'[q].pc = "Probe"
               PROVE  by_url'[request'[q].gateway] = InFlight
    BY DEF ProbeMarked, InFlight, Status
  <2>1. q # r /\ request'[q] = request[q]
    BY <1>6
  <2>2. request[q].gateway # g
    BY <1>1, <2>1 DEF IInv, OneProbe
  <2>3. by_url[request[q].gateway] = InFlight
    BY <2>1 DEF IInv, ProbeMarked
  <2> QED
    BY <1>3, <1>a, <2>1, <2>2, <2>3
<1>8. OneProbe'
  <2>1. \A q \in Requests : request'[q].pc = "Probe" => request'[q] = request[q]
    BY <1>6
  <2> QED
    BY <2>1 DEF IInv, OneProbe
<1>9. ToldFresh'
  <2> SUFFICES ASSUME NEW q \in Requests, request'[q].pc = "Told", request'[q].allowed,
                      request'[q].gateway # DefaultGateway
               PROVE  by_url'[request'[q].gateway] = Known(Policy(TRUE, Long))
    BY DEF ToldFresh, Known, Policy, Status
  <2>1. q # r /\ request'[q] = request[q]
    BY <1>6
  <2>2. by_url[request[q].gateway] = Known(Policy(TRUE, Long))
    BY <2>1 DEF IInv, ToldFresh
  <2>3. Known(Policy(TRUE, Long)).st = "Known"
    BY DEF Known, Status
  <2>4. request[q].gateway # g
    BY <1>2, <2>2, <2>3, MarkTypes
  <2> QED
    BY <1>3, <1>a, <2>1, <2>2, <2>4
<1>10. RequestsKept
  BY <1>6, <1>7, <1>8, <1>9 DEF RequestsKept
<1> QED
  BY <1>1, <1>3, <1>4, <1>5, <1>10, TunnelsKept, Assemble

(* A tunnel moves or ends; requests and the map are left alone. *)
LEMMA TunnelInv ==
    ASSUME IInv, NEW t \in Tunnels, TunnelStep(t) \/ run_tunnel_within(t) \/ drop_guard(t)
    PROVE  IInv'
<1>1. UNCHANGED <<proberVars, request, heard>>
  BY DEF TunnelStep, run_tunnel_within, drop_guard
<1>2. MapKept /\ CacheTracked'
  BY <1>1, ProberUnchanged
<1>3. RequestsKept
  BY <1>1 DEF IInv, TypeInv, RequestsKept, RequestStates, proberVars, ProbeMarked, OneProbe,
              ToldFresh
<1>4. TunnelTypes' /\ TunnelBudget'
  <2>1. CASE t \in Holding /\ Close(t)
    BY <2>1, CloseBudget
  <2>2. CASE \E from \in {"Setup", "Copy", "Stalled"}, to \in {"Copy", "HalfClosed", "Stalled"} :
               TunnelMoves(t, from, to)
    BY <2>2, MoveBudget
  <2>3. CASE drop_guard(t)
    BY <2>3, GuardBudget
  <2> QED
    BY <2>1, <2>2, <2>3 DEF TunnelStep, run_tunnel_within, Holding
<1> QED
  BY <1>1, <1>2, <1>3, <1>4, AssembleKept

(* Time passes for the map, its heap and the history alike. *)
LEMMA TickInv ==
    ASSUME IInv, Tick
    PROVE  IInv'
<1>0. /\ by_url \in [Gateways -> Statuses] /\ heard \in [Gateways -> Int]
      /\ Long \in Nat /\ Forever \notin Int
  BY TtlAssumption DEF IInv, TypeInv, Statuses
<1>1. /\ \A r \in Requests : request[r].pc # "Told"
      /\ by_url' = [g \in Gateways |-> [by_url[g] EXCEPT !.ttl =
                     IF by_url[g].st = "Known" THEN Elapse(by_url[g].ttl) ELSE by_url[g].ttl]]
      /\ by_expiry' = {[e EXCEPT !.ttl = Elapse(e.ttl)] : e \in by_expiry}
      /\ heard' = [g \in Gateways |-> IF heard[g] \in 0..Long THEN heard[g] + 1 ELSE heard[g]]
      /\ UNCHANGED <<request, tunnelVars>>
  BY DEF Tick, Age
<1>2. \A ttl \in Ttls : Elapse(ttl) \in Ttls
  BY <1>0 DEF Ttls, Elapse
<1>3. \A g \in Gateways :
         /\ by_url'[g] \in Statuses
         /\ by_url'[g].st = by_url[g].st /\ by_url'[g].allowed = by_url[g].allowed
         /\ by_url'[g].ttl = IF by_url[g].st = "Known" THEN Elapse(by_url[g].ttl)
                             ELSE by_url[g].ttl
  BY <1>0, <1>1, <1>2 DEF Statuses
<1>4. by_url' \in [Gateways -> Statuses]
  BY <1>1, <1>3
<1>5. CacheTracked'
  <2>1. Tracked(by_url, by_expiry)
    BY TrackedIff DEF IInv
  <2>2. \A g \in Gateways : by_url[g].st = "Known" =>
           [[key |-> g, ttl |-> by_url[g].ttl] EXCEPT !.ttl = Elapse([key |-> g, ttl |-> by_url[g].ttl].ttl)]
              = [key |-> g, ttl |-> by_url'[g].ttl]
    BY <1>3
  <2>3. ASSUME NEW e, e \in by_expiry'
        PROVE  \E g \in Gateways : by_url'[g].st = "Known" /\ e = [key |-> g, ttl |-> by_url'[g].ttl]
    <3>1. PICK d \in by_expiry : e = [d EXCEPT !.ttl = Elapse(d.ttl)]
      BY <1>1, <2>3
    <3>2. PICK g \in Gateways : by_url[g].st = "Known" /\ d = [key |-> g, ttl |-> by_url[g].ttl]
      BY <2>1, <3>1 DEF Tracked
    <3> QED
      BY <1>3, <2>2, <3>1, <3>2
  <2>4. ASSUME NEW g \in Gateways, by_url'[g].st = "Known"
        PROVE  [key |-> g, ttl |-> by_url'[g].ttl] \in by_expiry'
    <3>1. [key |-> g, ttl |-> by_url[g].ttl] \in by_expiry /\ by_url[g].st = "Known"
      BY <1>3, <2>1, <2>4 DEF Tracked
    <3>2. PICK d \in by_expiry : d = [key |-> g, ttl |-> by_url[g].ttl]
      BY <3>1
    <3>3. [d EXCEPT !.ttl = Elapse(d.ttl)] \in by_expiry'
      BY <1>1, <3>2
    <3>4. [d EXCEPT !.ttl = Elapse(d.ttl)] = [key |-> g, ttl |-> by_url'[g].ttl]
      BY <2>2, <3>1, <3>2
    <3> QED
      BY <3>3, <3>4
  <2>5. Tracked(by_url', by_expiry')
    BY <2>3, <2>4 DEF Tracked
  <2> QED
    BY <2>5, TrackedIff
<1>6. heard' \in [Gateways -> Int]
  BY <1>0, <1>1
<1>7. OptInFresh'
  <2> SUFFICES ASSUME NEW g \in Gateways \ {DefaultGateway},
                      by_url'[g].st = "Known", by_url'[g].allowed
               PROVE  by_url'[g].ttl \in -1..Long /\ heard'[g] = Long - by_url'[g].ttl
    BY DEF OptInFresh
  <2>1. by_url[g].ttl \in -1..Long /\ heard[g] = Long - by_url[g].ttl
    BY <1>3 DEF IInv, OptInFresh
  <2>2. by_url'[g].ttl = Elapse(by_url[g].ttl) /\ by_url[g].ttl # Forever
    BY <1>0, <1>3, <2>1
  <2>3. heard'[g] = IF heard[g] \in 0..Long THEN heard[g] + 1 ELSE heard[g]
    BY <1>1
  <2> QED
    BY <1>0, <2>1, <2>2, <2>3 DEF Elapse
<1>8. RequestsKept
  <2>1. request' \in [Requests -> RequestStates] /\ OneProbe'
    BY <1>1 DEF IInv, TypeInv, RequestStates, OneProbe
  <2>2. ToldFresh'
    BY <1>1 DEF ToldFresh
  <2>3. ProbeMarked'
    <3> SUFFICES ASSUME NEW r \in Requests, request'[r].pc = "Probe"
                 PROVE  by_url'[request'[r].gateway] = InFlight
      BY DEF ProbeMarked, InFlight, Status
    <3>1. request'[r] = request[r] /\ by_url[request[r].gateway] = InFlight
      BY <1>1 DEF IInv, ProbeMarked
    <3>2. request[r].gateway \in Gateways
      BY DEF IInv, TypeInv
    <3>3. by_url'[request[r].gateway] = [InFlight EXCEPT !.ttl = InFlight.ttl]
      BY <1>1, <3>1, <3>2, MarkTypes
    <3> QED
      BY <3>1, <3>3 DEF InFlight, Status
  <2> QED
    BY <2>1, <2>2, <2>3 DEF RequestsKept
<1> QED
  BY <1>1, <1>4, <1>5, <1>6, <1>7, <1>8, TunnelsKept, Assemble

(* The relay service starts with its own gateway in the map. *)
LEMMA InitInv == RelayInit => IInv
<1> SUFFICES ASSUME RelayInit
             PROVE  IInv
  OBVIOUS
<1>1. /\ Known(always(TRUE)) \in Statuses /\ Known(always(TRUE)).st = "Known"
      /\ Known(always(TRUE)).ttl = Forever /\ always(TRUE).expires = Forever
  <2>1. Forever \in Ttls /\ TRUE \in BOOLEAN
    BY DEF Ttls
  <2> QED
    BY <2>1, PolicyTypes DEF always
<1>2. /\ NewProber.by_url = [[g \in Gateways |-> Absent] EXCEPT ![DefaultGateway] = Known(always(TRUE))]
      /\ NewProber.by_expiry = {[key |-> DefaultGateway, ttl |-> Forever]}
  BY <1>1, GatewayAssumption, MarkTypes DEF NewProber, insert
<1>3. /\ by_url \in [Gateways -> Statuses]
      /\ by_url[DefaultGateway] = Known(always(TRUE))
      /\ \A g \in Gateways \ {DefaultGateway} : by_url[g] = Absent
      /\ by_expiry = {[key |-> DefaultGateway, ttl |-> Forever]}
  BY <1>1, <1>2, GatewayAssumption, MarkTypes DEF RelayInit
<1>4. CacheTracked
  <2>1. Tracked(by_url, by_expiry)
    BY <1>1, <1>3, GatewayAssumption, MarkTypes DEF Tracked
  <2> QED
    BY <2>1, TrackedIff
<1>5. OptInFresh
  BY <1>3, MarkTypes DEF OptInFresh
<1>6. request \in [Requests -> RequestStates] /\ \A r \in Requests : request[r].pc = "Idle"
  BY NobodyType DEF RelayInit
<1>7. tunnel \in [Tunnels -> TunnelStates] /\ Open = {} /\ Holding = {}
  <2>1. Shut \in TunnelStates /\ Shut.pc = "Closed"
    BY GatewayAssumption DEF TunnelStates, Shut
  <2> QED
    BY <2>1 DEF RelayInit, Open, Holding
<1>8. TunnelBudget /\ permits \in Int /\ active_tunnels \in Int
  BY <1>7, FS_EmptySet, TunnelAssumption DEF RelayInit, TunnelBudget
<1>9. heard \in [Gateways -> Int]
  BY DEF RelayInit, No
<1> QED
  BY <1>3, <1>4, <1>5, <1>6, <1>7, <1>8, <1>9
     DEF IInv, TypeInv, Statuses, RequestStates, TunnelStates, ProbeMarked, OneProbe, ToldFresh

(* Every step keeps the invariant. *)
LEMMA NextInv == IInv /\ [RelayStep]_relayVars => IInv'
<1> SUFFICES ASSUME IInv, [RelayStep]_relayVars
             PROVE  IInv'
  OBVIOUS
<1>1. CASE UNCHANGED relayVars
  <2>1. UNCHANGED <<by_url, by_expiry, request, tunnel, permits, active_tunnels, heard>>
    BY <1>1 DEF relayVars, proberVars, tunnelVars
  <2>2. MapKept /\ CacheTracked'
    BY <2>1, ProberUnchanged DEF proberVars
  <2>3. RequestsKept
    BY <2>1 DEF IInv, TypeInv, RequestsKept, RequestStates, ProbeMarked, OneProbe, ToldFresh
  <2> QED
    BY <2>1, <2>2, <2>3, TunnelsKept, AssembleKept DEF tunnelVars
<1>2. ASSUME NEW r \in Requests, NEW g \in Gateways, NEW m \in {"POST", "CONNECT"},
             check_opt_in(r, g, m)
      PROVE  IInv'
  BY <1>2, CheckOptInInv
<1>3. ASSUME NEW r \in Requests, NEW a \in Answers, probe_ends(r, a)
      PROVE  IInv'
  BY <1>3, ProbeEndsInv
<1>4. ASSUME NEW r \in Requests,
             told(r) \/ into_forward_req(r) \/ forward_request(r) \/ disconnect(r)
      PROVE  IInv'
  BY <1>4, ServeInv
<1>5. ASSUME NEW r \in Requests, disconnect_prober(r)
      PROVE  IInv'
  BY <1>5, DisconnectProberInv
<1>6. ASSUME NEW t \in Tunnels, TunnelStep(t) \/ run_tunnel_within(t) \/ drop_guard(t)
      PROVE  IInv'
  BY <1>6, TunnelInv
<1>7. CASE Tick
  BY <1>7, TickInv
<1> QED
  BY <1>1, <1>2, <1>3, <1>4, <1>5, <1>6, <1>7 DEF RelayStep

(* The inductive invariant holds in every reachable state. *)
THEOREM Invariance == Spec => []IInv
BY InitInv, NextInv, PTL DEF Spec

(* However many requests name an unknown gateway, one of them probes it.     *)
THEOREM OneProbeEach == Spec => []OneProbe
<1>1. IInv => OneProbe
  BY DEF IInv
<1> QED
  BY <1>1, Invariance, PTL

(* The prober's heap holds each policy of its map with its expiry, and       *)
(* nothing else.                                                             *)
THEOREM CacheCorrect == Spec => []CacheTracked
<1>1. IInv => CacheTracked
  BY DEF IInv
<1> QED
  BY <1>1, Invariance, PTL

(* Tunnels, permits and the gauge agree however tunnels end, also between    *)
(* the release of a permit and the end of its task, so the budget is neither *)
(* exceeded nor leaked.                                                      *)
THEOREM BudgetKept == Spec => []TunnelBudget
<1>1. IInv => TunnelBudget
  BY DEF IInv
<1> QED
  BY <1>1, Invariance, PTL

-----------------------------------------------------------------------------
(* A request is admitted, and a tunnel opens, only on a fresh opt-in. *)

RequestsAdmitted ==
    /\ \A r \in Requests : request'[r].pc = "Body" /\ request[r].pc # "Body"
          => Admits(request'[r].gateway)
    /\ \A r \in Requests : request'[r].pc = "Forward" /\ request[r].pc # "Forward"
          => request[r].pc = "Body" /\ request'[r].gateway = request[r].gateway

TunnelsAdmitted ==
    \A t \in Tunnels : tunnel'[t].pc = "Setup" /\ tunnel[t].pc # "Setup"
       => Admits(tunnel'[t].gateway)

(* Only parse_gateway_uri lets a request on to its body, and only a request  *)
(* that has got there goes out.                                              *)
LEMMA NoneEnters ==
    ASSUME IInv, NEW r \in Requests, NEW x, x.pc # "Body", request' = [request EXCEPT ![r] = x],
           x.pc = "Forward" => request[r].pc = "Body" /\ x.gateway = request[r].gateway
    PROVE  RequestsAdmitted
<1>1. request \in [Requests -> RequestStates]
  BY DEF IInv, TypeInv, RequestStates
<1>2. request'[r] = x /\ \A q \in Requests : q # r => request'[q] = request[q]
  BY <1>1
<1> QED
  BY <1>2 DEF RequestsAdmitted

(* Nothing happens to the tunnels. *)
LEMMA NoneOpens == UNCHANGED tunnelVars => TunnelsAdmitted
BY DEF tunnelVars, TunnelsAdmitted

(* parse_gateway_uri with a policy that allows only what was freshly heard. *)
LEMMA DecideFresh ==
    ASSUME IInv, NEW r \in Requests, NEW req \in RequestStates, NEW allowed,
           Decide(r, req, allowed), allowed => Admits(req.gateway)
    PROVE  RequestsAdmitted /\ TunnelsAdmitted
<1>0. request \in [Requests -> RequestStates] /\ tunnel \in [Tunnels -> TunnelStates]
  BY DEF IInv, TypeInv, RequestStates, TunnelStates
<1>1. ASSUME Answer(r) PROVE RequestsAdmitted
  <2>1. Nobody.pc # "Body" /\ Nobody.pc # "Forward"
    BY NobodyType
  <2> QED
    BY <1>1, <2>1, NoneEnters DEF Answer
<1>2. CASE ~allowed /\ Answer(r) /\ UNCHANGED tunnelVars
  BY <1>1, <1>2, NoneOpens
<1>3. CASE /\ allowed /\ UNCHANGED tunnelVars
           /\ request' = [request EXCEPT ![r] = [req EXCEPT !.pc = "Body"]]
  <2>1. request'[r].gateway = req.gateway /\ request'[r].pc = "Body"
    <3>1. [req EXCEPT !.pc = "Body"].gateway = req.gateway /\ [req EXCEPT !.pc = "Body"].pc = "Body"
      BY DEF RequestStates
    <3> QED
      BY <1>0, <1>3, <3>1
  <2>2. \A q \in Requests : q # r => request'[q] = request[q]
    BY <1>0, <1>3
  <2>3. RequestsAdmitted
    BY <1>3, <2>1, <2>2 DEF RequestsAdmitted
  <2> QED
    BY <1>3, <2>3, NoneOpens
<1>4. CASE allowed /\ Answer(r) /\ try_upgrade(req.gateway)
  <2>1. TunnelsAdmitted
    <3>1. CASE UNCHANGED tunnelVars
      BY <3>1, NoneOpens
    <3>2. ASSUME NEW t \in Tunnels,
                 tunnel' = [tunnel EXCEPT ![t] = [pc |-> "Setup", gateway |-> req.gateway]]
          PROVE  TunnelsAdmitted
      <4>1. tunnel'[t].gateway = req.gateway /\ \A u \in Tunnels : u # t => tunnel'[u] = tunnel[u]
        BY <1>0, <3>2
      <4> QED
        BY <1>4, <4>1 DEF TunnelsAdmitted
    <3> QED
      BY <1>4, <3>1, <3>2 DEF try_upgrade
  <2> QED
    BY <1>1, <1>4, <2>1
<1> QED
  BY <1>2, <1>3, <1>4 DEF Decide

(* check_opt_in prunes before it looks, so a policy it finds is in force. *)
LEMMA CheckOptInFresh ==
    ASSUME IInv, NEW r \in Requests, NEW g \in Gateways, NEW m \in {"POST", "CONNECT"},
           check_opt_in(r, g, m)
    PROVE  RequestsAdmitted /\ TunnelsAdmitted
<1> DEFINE req == [pc |-> "Wait", gateway |-> g, method |-> m, allowed |-> FALSE]
           st == prune.by_url[g]
<1>1. req \in RequestStates /\ req.pc = "Wait" /\ req.gateway = g
  BY DEF RequestStates
<1>2. \A pc \in {"Panicked", "Probe"} : [req EXCEPT !.pc = pc].pc = pc
  OBVIOUS
<1>3. CASE st.st = "Known" /\ Decide(r, req, st.allowed)
  <2>1. st = by_url[g] /\ by_url[g].st = "Known" /\ ~Over(by_url[g].ttl)
    BY <1>3, PruneFacts, MarkTypes
  <2>2. ASSUME st.allowed, g # DefaultGateway PROVE heard[g] \in 0..Long
    <3>1. by_url[g].ttl \in -1..Long /\ heard[g] = Long - by_url[g].ttl
      BY <2>1, <2>2 DEF IInv, OptInFresh
    <3> QED
      BY <2>1, <3>1, TtlAssumption DEF Over
  <2>3. st.allowed => Admits(req.gateway)
    BY <1>1, <2>2 DEF Admits
  <2> QED
    BY <1>1, <1>3, <2>3, DecideFresh
<1>4. CASE /\ UNCHANGED tunnelVars
           /\ \/ request' = [request EXCEPT ![r] = req]
              \/ request' = [request EXCEPT ![r] = [req EXCEPT !.pc = "Panicked"]]
              \/ request' = [request EXCEPT ![r] = [req EXCEPT !.pc = "Probe"]]
  <2>1. \A x \in {req, [req EXCEPT !.pc = "Panicked"], [req EXCEPT !.pc = "Probe"]} :
           x.pc # "Body" /\ x.pc # "Forward"
    BY <1>1, <1>2
  <2> HIDE DEF req
  <2> QED
    BY <1>4, <2>1, NoneEnters, NoneOpens
<1>5. CASE UNCHANGED <<request, tunnelVars>>
  BY <1>5, NoneOpens DEF RequestsAdmitted
<1> QED
  BY <1>3, <1>4, <1>5 DEF check_opt_in

(* Of all steps only check_opt_in and told admit a request. *)
LEMMA StepFresh ==
    ASSUME IInv, RelayStep
    PROVE  RequestsAdmitted /\ TunnelsAdmitted
<1>0. request \in [Requests -> RequestStates] /\ tunnel \in [Tunnels -> TunnelStates]
  BY DEF IInv, TypeInv, RequestStates, TunnelStates
<1>1. ASSUME NEW r \in Requests, told(r)
      PROVE  RequestsAdmitted /\ TunnelsAdmitted
  <2>1. request[r] \in RequestStates /\ request[r].gateway \in Gateways
        /\ Decide(r, request[r], request[r].allowed) /\ request[r].pc = "Told"
    BY <1>0, <1>1 DEF told, RequestStates
  <2>2. ASSUME request[r].allowed, request[r].gateway # DefaultGateway
        PROVE  heard[request[r].gateway] \in 0..Long
    <3>1. by_url[request[r].gateway] = Known(Policy(TRUE, Long))
      BY <2>1, <2>2 DEF IInv, ToldFresh
    <3>2. Long \in Ttls /\ TRUE \in BOOLEAN
      BY TtlAssumption DEF Ttls
    <3>3. /\ by_url[request[r].gateway].st = "Known" /\ by_url[request[r].gateway].allowed = TRUE
          /\ by_url[request[r].gateway].ttl = Long
      <4>1. LET k == Known(Policy(TRUE, Long)) IN k.st = "Known" /\ k.allowed = TRUE /\ k.ttl = Long
        BY <3>2, PolicyTypes
      <4> QED
        BY <3>1, <4>1
    <3>4. heard[request[r].gateway] = Long - Long
      BY <2>1, <2>2, <3>3 DEF IInv, OptInFresh
    <3> QED
      BY <3>4, TtlAssumption
  <2>3. request[r].allowed => Admits(request[r].gateway)
    BY <2>2 DEF Admits
  <2> QED
    BY <2>1, <2>3, DecideFresh
<1>2. ASSUME NEW r \in Requests,
             into_forward_req(r) \/ forward_request(r) \/ disconnect(r)
      PROVE  RequestsAdmitted /\ TunnelsAdmitted
  <2>1. /\ UNCHANGED tunnelVars
        /\ \/ request' = [request EXCEPT ![r] = Nobody]
           \/ /\ request[r].pc = "Body"
              /\ request' = [request EXCEPT ![r] = [request[r] EXCEPT !.pc = "Forward"]]
    BY <1>2 DEF into_forward_req, forward_request, disconnect, Answer, Goto
  <2>2. /\ Nobody.pc # "Body" /\ Nobody.pc # "Forward"
        /\ [request[r] EXCEPT !.pc = "Forward"].pc # "Body"
        /\ [request[r] EXCEPT !.pc = "Forward"].gateway = request[r].gateway
    BY <1>0, NobodyType DEF RequestStates
  <2> QED
    BY <2>1, <2>2, NoneEnters, NoneOpens
<1>3. ASSUME NEW r \in Requests, NEW a \in Answers, probe_ends(r, a)
      PROVE  RequestsAdmitted /\ TunnelsAdmitted
  <2>1. PICK allowed : request' = [q \in Requests |->
           IF q = r \/ (request[q].pc = "Wait" /\ request[q].gateway = request[r].gateway)
           THEN [request[q] EXCEPT !.pc = "Told", !.allowed = allowed]
           ELSE request[q]]
    BY <1>3 DEF probe_ends
  <2>2. \A q \in Requests : [request[q] EXCEPT !.pc = "Told", !.allowed = allowed].pc = "Told"
    BY <1>0 DEF RequestStates
  <2>3. RequestsAdmitted
    BY <2>1, <2>2 DEF RequestsAdmitted
  <2> QED
    BY <1>3, <2>3, NoneOpens DEF probe_ends
<1>4. ASSUME NEW r \in Requests, disconnect_prober(r)
      PROVE  RequestsAdmitted /\ TunnelsAdmitted
  <2>1. \A q \in Requests : [request[q] EXCEPT !.pc = "Panicked"].pc = "Panicked"
    BY <1>0 DEF RequestStates
  <2>2. UNCHANGED tunnelVars /\ RequestsAdmitted
    BY <1>4, <2>1, NobodyType DEF disconnect_prober, RequestsAdmitted
  <2> QED
    BY <2>2, NoneOpens
<1>5. ASSUME NEW t \in Tunnels, TunnelStep(t) \/ run_tunnel_within(t) \/ drop_guard(t)
      PROVE  RequestsAdmitted /\ TunnelsAdmitted
  <2>1. RequestsAdmitted
    BY <1>5 DEF TunnelStep, run_tunnel_within, drop_guard, RequestsAdmitted
  <2>2. ASSUME NEW x, x.pc # "Setup", tunnel' = [tunnel EXCEPT ![t] = x]
        PROVE  TunnelsAdmitted
    <3>1. tunnel'[t] = x /\ \A u \in Tunnels : u # t => tunnel'[u] = tunnel[u]
      BY <1>0, <2>2
    <3> QED
      BY <2>2, <3>1 DEF TunnelsAdmitted
  <2>3. CASE Close(t) \/ drop_guard(t)
    <3>1. Shut.pc # "Setup" /\ Ending.pc # "Setup"
      BY DEF Shut, Ending
    <3>2. tunnel' = [tunnel EXCEPT ![t] = Shut] \/ tunnel' = [tunnel EXCEPT ![t] = Ending]
      BY <2>3 DEF Close, drop_guard
    <3> QED
      BY <2>1, <2>2, <3>1, <3>2
  <2>4. ASSUME NEW from, NEW to \in {"Copy", "HalfClosed", "Stalled"}, TunnelMoves(t, from, to)
        PROVE  TunnelsAdmitted
    <3>1. [tunnel[t] EXCEPT !.pc = to].pc # "Setup"
      BY <1>0 DEF TunnelStates
    <3> QED
      BY <2>2, <2>4, <3>1 DEF TunnelMoves
  <2> QED
    BY <1>5, <2>1, <2>3, <2>4 DEF TunnelStep, run_tunnel_within
<1>6. ASSUME Tick PROVE RequestsAdmitted /\ TunnelsAdmitted
  BY <1>6, NoneOpens DEF Tick, RequestsAdmitted
<1>7. ASSUME NEW r \in Requests, NEW g \in Gateways, NEW m \in {"POST", "CONNECT"},
             check_opt_in(r, g, m)
      PROVE  RequestsAdmitted /\ TunnelsAdmitted
  BY <1>7, CheckOptInFresh
<1> QED
  BY <1>1, <1>2, <1>3, <1>4, <1>5, <1>6, <1>7 DEF RelayStep

(* A request is admitted, and a tunnel opens, only for the relay's own       *)
(* gateway or for one that opted in when it was last asked, at most a week   *)
(* before; and only an admitted request goes out, to that gateway.           *)
THEOREM OptInRespected == Spec => AdmittedOnOptIn
<1>1. IInv /\ [RelayStep]_relayVars => [RequestsAdmitted /\ TunnelsAdmitted]_relayVars
  BY StepFresh
<1> QED
  BY <1>1, Invariance, PTL DEF Spec, AdmittedOnOptIn, RequestsAdmitted, TunnelsAdmitted
=============================================================================
