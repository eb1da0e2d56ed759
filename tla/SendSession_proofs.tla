------------------------- MODULE SendSession_proofs -------------------------
(***************************************************************************)
(* Theorems about the sender session, for any reply keys and proposals and *)
(* any number of crashes, storage errors, retries and replays: the log     *)
(* replays to the live state, one proposal at most is given to the wallet, *)
(* and the session implements SenderContract.                              *)
(*                                                                         *)
(* The inductive invariant IInv ties every event to the typestate it       *)
(* stands for (EventsStand), every open state and every request to the     *)
(* reply key of the Created event (OneKey, RequestsNameKey), and what the  *)
(* wallet was given to the last event of the log (GivenLogged).            *)
(***************************************************************************)
EXTENDS SendSession, TLAPS

(* The typestate an event leaves the session in. *)
Stands(e, s) ==
    \/ e.kind = "Created" /\ s.tag = "WithReplyKey"
    \/ e.kind = "PostedOriginalPsbt" /\ s.tag = "PollingForProposal"
    \/ e.kind = "Cancelled" /\ s.tag = "PendingFallback"
    \/ e.kind = "Closed" /\ s = Closed(e.outcome, e.psbt)

(* Only a success names a proposal, and it always does. *)
OutcomeNamed(e) ==
    e.kind = "Closed" => (e.outcome = "Success" <=> e.psbt \in Proposals)

EventsStand == \A i \in 1..Len(log) : Stands(log[i], trace[i]) /\ OutcomeNamed(log[i])

(* A session keeps the reply key it was created with until it ends. *)
OneKey ==
    \A i \in 1..Len(trace) :
        trace[i].tag # "Closed" => trace[i].key = log[1].key /\ trace[i].outcome = "None"

(* Every request names that key, and a response is awaited only for a request. *)
RequestsNameKey ==
    /\ \A m \in sent : log # <<>> /\ m.key = log[1].key
    /\ request # "None" => sent # {}

(* What the wallet was given is what the last event of the log names. *)
GivenLogged ==
    \A p \in accepted :
        log # <<>> /\ log[Len(log)] = [kind |-> "Closed", outcome |-> "Success", psbt |-> p]

(* The session is marked closed only when its log ends it, or is empty. *)
ClosedSessionsEnded == is_closed => LastKind \in {"Closed", "None"}

(* The inductive invariant. *)
IInv ==
    /\ TypeOK
    /\ ReplayMatchesLive
    /\ EventsStand
    /\ OneKey
    /\ RequestsNameKey
    /\ GivenLogged
    /\ ClosedSessionsEnded

-----------------------------------------------------------------------------
(* Facts about handles, events and the log *)

(* What a live handle may be, against the last state of the history. *)
Current(s) ==
    /\ log # <<>>
    /\ \/ s = trace[Len(log)]
       \/ s.tag = "PendingFallback" /\ trace[Len(log)] = Closed("Aborted", NoPsbt)

(* The states of the model have their type. *)
LEMMA StateTypes ==
    /\ \A k \in ReplyKeys : WithReplyKey(k) \in States
    /\ \A o \in Outcomes : \A p \in Proposals \cup {NoPsbt} : Closed(o, p) \in States
    /\ \A s \in States : \A t \in Tags : Move(s, t) \in States
    /\ NoReplay \in [at : Nat, st : States] /\ NoReplay.at = 0
BY DEF States, Tags, Outcomes, WithReplyKey, Closed, Move, NoReplay, InvalidEvent

(* The first event of a session holds its reply key. *)
LEMMA FirstEvent ==
    ASSUME IInv, log # <<>>
    PROVE  /\ log[1].kind = "Created" /\ log[1].key \in ReplyKeys
           /\ trace[1] = WithReplyKey(log[1].key)
<1>1. log[1].kind = "Created" /\ trace[1] = WithReplyKey(log[1].key)
  BY DEF IInv, ReplayMatchesLive
<1>2. log[1] \in Events
  BY DEF IInv, TypeOK
<1> QED
  BY <1>1, <1>2 DEF Events

(* The last event and the state it stands for. *)
LEMMA LastEvent ==
    ASSUME IInv, log # <<>>
    PROVE  /\ Len(log) \in Nat /\ Len(log) \in 1..Len(log) /\ Len(trace) = Len(log)
           /\ log \in Seq(Events) /\ trace \in Seq(States)
           /\ log[Len(log)] \in Events /\ trace[Len(log)] \in States
           /\ Stands(log[Len(log)], trace[Len(log)]) /\ OutcomeNamed(log[Len(log)])
           /\ LastKind = log[Len(log)].kind
<1>1. log \in Seq(Events) /\ trace \in Seq(States) /\ Len(trace) = Len(log)
  BY DEF IInv, TypeOK, ReplayMatchesLive
<1>2. Len(log) \in Nat /\ Len(log) \in 1..Len(log)
  BY <1>1
<1>3. log[Len(log)] \in Events /\ trace[Len(log)] \in States
  BY <1>1, <1>2
<1>4. Stands(log[Len(log)], trace[Len(log)]) /\ OutcomeNamed(log[Len(log)])
  BY <1>2 DEF IInv, EventsStand
<1> QED
  BY <1>1, <1>2, <1>3, <1>4 DEF LastKind

(* A handle that can still send is the last state of the history: nothing has *)
(* been given to the wallet, and the session is not closed.                   *)
LEMMA OpenHandle ==
    ASSUME IInv, NEW s \in live, s.tag \in {"WithReplyKey", "PollingForProposal"}
    PROVE  /\ log # <<>> /\ s \in States /\ s = trace[Len(log)]
           /\ s.key = log[1].key /\ s.key \in ReplyKeys /\ s.outcome = "None"
           /\ LastKind \in {"Created", "PostedOriginalPsbt"}
           /\ accepted = {} /\ ~is_closed
<1>1. log # <<>> /\ s = trace[Len(log)] /\ s \in States
  BY DEF IInv, ReplayMatchesLive, TypeOK
<1>2. s.key = log[1].key /\ s.outcome = "None"
  BY <1>1, LastEvent DEF IInv, OneKey
<1>3. LastKind \in {"Created", "PostedOriginalPsbt"} /\ LastKind = log[Len(log)].kind
  BY <1>1, LastEvent DEF Stands, Closed
<1>4. accepted = {}
  <2> SUFFICES ASSUME NEW p \in accepted PROVE FALSE
    OBVIOUS
  <2>0. log[Len(log)] = [kind |-> "Closed", outcome |-> "Success", psbt |-> p]
    BY DEF IInv, GivenLogged
  <2>1. log[Len(log)].kind = "Closed"
    BY <2>0
  <2> QED
    BY <2>1, <1>3
<1>5. ~is_closed
  BY <1>3 DEF IInv, ClosedSessionsEnded
<1> QED
  BY <1>1, <1>2, <1>3, <1>4, <1>5, FirstEvent

(* A session in its fallback has been cancelled, and perhaps aborted already. *)
LEMMA FallbackHandle ==
    ASSUME IInv, NEW s \in live, s.tag = "PendingFallback"
    PROVE  /\ log # <<>> /\ s \in States /\ accepted = {}
           /\ \/ LastKind = "Cancelled"
              \/ /\ LastKind = "Closed" /\ trace[Len(log)] = Closed("Aborted", NoPsbt)
                 /\ log[Len(log)].outcome = "Aborted" /\ log[Len(log)].psbt = NoPsbt
<1>1. log # <<>> /\ s \in States
  BY DEF IInv, ReplayMatchesLive, TypeOK
<1>2. \/ LastKind = "Cancelled" /\ log[Len(log)].kind = "Cancelled"
      \/ /\ LastKind = "Closed" /\ trace[Len(log)] = Closed("Aborted", NoPsbt)
         /\ log[Len(log)].outcome = "Aborted" /\ log[Len(log)].psbt = NoPsbt
  <2>1. CASE s = trace[Len(log)]
    BY <1>1, <2>1, LastEvent DEF Stands, Closed
  <2>2. CASE trace[Len(log)] = Closed("Aborted", NoPsbt)
    BY <1>1, <2>2, LastEvent DEF Stands, Closed
  <2> QED
    BY <2>1, <2>2 DEF IInv, ReplayMatchesLive
<1>3. accepted = {}
  <2> SUFFICES ASSUME NEW p \in accepted PROVE FALSE
    OBVIOUS
  <2>0. log[Len(log)] = [kind |-> "Closed", outcome |-> "Success", psbt |-> p]
    BY DEF IInv, GivenLogged
  <2>1. log[Len(log)].kind = "Closed" /\ log[Len(log)].outcome = "Success"
    BY <2>0
  <2> QED
    BY <2>1, <1>2
<1> QED
  BY <1>1, <1>2, <1>3

-----------------------------------------------------------------------------
(* What persisting does to the invariant *)

(* A step that leaves the log alone. *)
LEMMA SameLog ==
    ASSUME IInv, UNCHANGED <<log, trace>>, TypeOK', \A s \in live' : Current(s),
           replay'.at > 0 => replay'.at <= Len(log) /\ replay'.st = trace[replay'.at],
           RequestsNameKey', GivenLogged', ClosedSessionsEnded'
    PROVE  IInv'
<1>1. EventsStand' /\ OneKey'
  BY DEF IInv, EventsStand, OneKey, Stands, OutcomeNamed
<1>2. \A i \in 1..(Len(log') - 1) : process_event(trace'[i], log'[i + 1]) = trace'[i + 1]
  BY DEF IInv, ReplayMatchesLive
<1>3. ReplayMatchesLive'
  BY <1>2 DEF IInv, ReplayMatchesLive, process_event, Current
<1> QED
  BY <1>1, <1>3 DEF IInv

(* A local step that saves nothing. *)
LEMMA KeepStep ==
    ASSUME IInv, Local, UNCHANGED <<log, is_closed, trace, accepted>>,
           live' \subseteq live
    PROVE  IInv'
<1>1. TypeOK'
  BY DEF IInv, TypeOK, Local
<1>2. \A s \in live' : Current(s)
  BY DEF IInv, ReplayMatchesLive, Current
<1>3. replay'.at > 0 => replay'.at <= Len(log) /\ replay'.st = trace[replay'.at]
  BY DEF IInv, ReplayMatchesLive, Local
<1>4. RequestsNameKey' /\ GivenLogged' /\ ClosedSessionsEnded'
  BY DEF IInv, RequestsNameKey, GivenLogged, ClosedSessionsEnded, LastKind, Local
<1> QED
  BY <1>1, <1>2, <1>3, <1>4, SameLog

(* The event e, standing for the state t, is a legal successor of the log. *)
Follows(e, t) ==
    /\ e \in Events /\ t \in States
    /\ process_event(trace[Len(log)], e) = t
    /\ Stands(e, t) /\ OutcomeNamed(e)
    /\ t.tag # "Closed" => t.key = log[1].key /\ t.outcome = "None"

(* A step that appends such an event. *)
LEMMA SavedStep ==
    ASSUME IInv, Local, log # <<>>, NEW e, NEW t, Follows(e, t), save_event(e, t),
           \A s \in live' : /\ s \in States
                            /\ s = t \/ (s.tag = "PendingFallback" /\ t = Closed("Aborted", NoPsbt)),
           \A s, r \in live' : s = r,
           accepted' \subseteq Proposals,
           \A p \in accepted' : e = [kind |-> "Closed", outcome |-> "Success", psbt |-> p],
           is_closed' \in BOOLEAN, is_closed' => e.kind = "Closed"
    PROVE  IInv'
<1>0. /\ log \in Seq(Events) /\ trace \in Seq(States) /\ Len(trace) = Len(log)
      /\ Len(log) \in Nat /\ Len(log) > 0 /\ Len(log) \in 1..Len(log)
  BY LastEvent
<1>a. /\ e \in Events /\ t \in States
      /\ process_event(trace[Len(log)], e) = t
      /\ Stands(e, t) /\ OutcomeNamed(e)
      /\ t.tag # "Closed" => t.key = log[1].key /\ t.outcome = "None"
  BY DEF Follows
<1>1. /\ Len(log') = Len(log) + 1 /\ Len(trace') = Len(log) + 1
      /\ log'[Len(log) + 1] = e /\ trace'[Len(log) + 1] = t
      /\ \A i \in 1..Len(log) : log'[i] = log[i] /\ trace'[i] = trace[i]
  BY <1>0 DEF save_event
<1>2. log' \in Seq(Events) /\ trace' \in Seq(States) /\ log' # <<>>
  BY <1>0, <1>a DEF save_event
<1>3. TypeOK'
  BY <1>2 DEF IInv, TypeOK, Local
<1>4. log'[1] = log[1] /\ trace'[1] = trace[1]
  BY <1>0, <1>1
<1>5. ReplayMatchesLive'
  <2>1. log'[1].kind = "Created" /\ trace'[1] = WithReplyKey(log'[1].key)
    BY <1>4, FirstEvent
  <2>2. \A i \in 1..(Len(log') - 1) : process_event(trace'[i], log'[i + 1]) = trace'[i + 1]
    <3> SUFFICES ASSUME NEW i \in 1..Len(log)
                 PROVE  process_event(trace'[i], log'[i + 1]) = trace'[i + 1]
      BY <1>0, <1>1
    <3>1. CASE i = Len(log)
      BY <3>1, <1>0, <1>1, <1>a
    <3>2. CASE i < Len(log)
      <4>1. i \in 1..(Len(log) - 1) /\ i + 1 \in 1..Len(log)
        BY <3>2, <1>0
      <4>2. process_event(trace[i], log[i + 1]) = trace[i + 1]
        BY <4>1 DEF IInv, ReplayMatchesLive
      <4> QED
        BY <4>1, <4>2, <1>1
    <3> QED
      BY <3>1, <3>2, <1>0
  <2>3. \A s \in live' : \/ s = trace'[Len(log')]
                         \/ /\ s.tag = "PendingFallback"
                            /\ trace'[Len(log')] = Closed("Aborted", NoPsbt)
    BY <1>1
  <2>4. replay'.at > 0 => replay'.at <= Len(log') /\ replay'.st = trace'[replay'.at]
    BY <1>0, <1>1 DEF IInv, TypeOK, ReplayMatchesLive, Local
  <2> QED
    BY <1>1, <1>2, <2>1, <2>2, <2>3, <2>4 DEF ReplayMatchesLive, process_event
<1>6. EventsStand'
  <2> SUFFICES ASSUME NEW i \in 1..Len(log')
               PROVE  Stands(log'[i], trace'[i]) /\ OutcomeNamed(log'[i])
    BY DEF EventsStand, Stands, OutcomeNamed
  <2>1. CASE i = Len(log) + 1
    BY <2>1, <1>1, <1>a
  <2>2. CASE i \in 1..Len(log)
    <3>1. Stands(log[i], trace[i]) /\ OutcomeNamed(log[i])
      BY <2>2 DEF IInv, EventsStand
    <3> QED
      BY <3>1, <2>2, <1>1
  <2> QED
    BY <2>1, <2>2, <1>0, <1>1
<1>7. OneKey'
  <2> SUFFICES ASSUME NEW i \in 1..Len(trace'), trace'[i].tag # "Closed"
               PROVE  trace'[i].key = log'[1].key /\ trace'[i].outcome = "None"
    BY DEF OneKey
  <2>1. CASE i = Len(log) + 1
    BY <2>1, <1>1, <1>4, <1>a
  <2>2. CASE i \in 1..Len(log)
    BY <2>2, <1>0, <1>1, <1>4 DEF IInv, OneKey
  <2> QED
    BY <2>1, <2>2, <1>0, <1>1
<1>8. RequestsNameKey'
  BY <1>2, <1>4 DEF IInv, RequestsNameKey, Local
<1>9. GivenLogged'
  BY <1>1, <1>2 DEF GivenLogged
<1>10. ClosedSessionsEnded'
  BY <1>1, <1>2 DEF ClosedSessionsEnded, LastKind
<1> QED
  BY <1>3, <1>5, <1>6, <1>7, <1>8, <1>9, <1>10 DEF IInv

(* PersistActions::Save: the event and the next state, or an error that loses *)
(* the handle.                                                                *)
LEMMA SaveThenStep ==
    ASSUME IInv, Local, log # <<>>, ~is_closed, accepted = {}, UNCHANGED accepted,
           NEW e, NEW t, Follows(e, t), SaveThen(e, t)
    PROVE  IInv'
<1>1. CASE save_event(e, t) /\ UNCHANGED is_closed /\ live' \subseteq {t}
  <2>1. t \in States /\ \A r \in live' : r = t
    BY <1>1 DEF Follows
  <2>2. is_closed' \in BOOLEAN /\ ~is_closed'
    BY <1>1 DEF IInv, TypeOK
  <2> QED
    BY <1>1, <2>1, <2>2, SavedStep
<1>2. CASE NotSaved /\ UNCHANGED is_closed /\ live' = {}
  BY <1>2, KeepStep DEF NotSaved
<1> QED
  BY <1>1, <1>2 DEF SaveThen, SaveError

(* Closing an event's session is always a legal successor. *)
LEMMA ClosedFollows ==
    ASSUME NEW o \in Outcomes, NEW p, (o = "Success" /\ p \in Proposals) \/ (o # "Success" /\ p = NoPsbt)
    PROVE  Follows([kind |-> "Closed", outcome |-> o, psbt |-> p], Closed(o, p))
<1> DEFINE e == [kind |-> "Closed", outcome |-> o, psbt |-> p]
<1>1. e \in Events /\ e.kind = "Closed" /\ e.outcome = o /\ e.psbt = p
  BY DEF Events
<1>2. process_event(trace[Len(log)], e) = Closed(o, p)
  BY <1>1 DEF process_event
<1>3. Stands(e, Closed(o, p)) /\ OutcomeNamed(e)
  BY <1>1, KeyAssumption DEF Stands, OutcomeNamed
<1>4. Closed(o, p) \in States /\ Closed(o, p).tag = "Closed"
  BY StateTypes DEF Closed
<1> QED
  BY <1>1, <1>2, <1>3, <1>4 DEF Follows

(* PersistActions::SaveAndClose with a failure. *)
LEMMA AbortStep ==
    ASSUME IInv, Local, log # <<>>, ~is_closed, accepted = {}, UNCHANGED accepted,
           Close("Aborted", NoPsbt)
    PROVE  IInv'
<1> DEFINE e == [kind |-> "Closed", outcome |-> "Aborted", psbt |-> NoPsbt]
           t == Closed("Aborted", NoPsbt)
<1>0. Follows(e, t) /\ e.kind = "Closed"
  BY ClosedFollows DEF Outcomes
<1>1. CASE save_event(e, t) /\ live' = {} /\ is_closed' \in BOOLEAN
  BY <1>0, <1>1, SavedStep
<1>2. CASE NotSaved /\ UNCHANGED is_closed /\ live' = {}
  BY <1>2, KeepStep DEF NotSaved
<1>3. is_closed \in BOOLEAN
  BY DEF IInv, TypeOK
<1> QED
  BY <1>1, <1>2, <1>3 DEF Close, SaveAndClose, SaveError

(* The proposal is saved before it is given to the wallet. *)
LEMMA AcceptStep ==
    ASSUME IInv, Local, log # <<>>, ~is_closed, accepted = {},
           NEW p \in Proposals, accept_proposal(p)
    PROVE  IInv'
<1> DEFINE e == [kind |-> "Closed", outcome |-> "Success", psbt |-> p]
           t == Closed("Success", p)
<1>0. Follows(e, t) /\ e.kind = "Closed"
  BY ClosedFollows DEF Outcomes
<1>1. CASE save_event(e, t) /\ live' = {} /\ is_closed' \in BOOLEAN
  <2>1. accepted' \subseteq {p}
    BY DEF accept_proposal
  <2> QED
    BY <1>0, <1>1, <2>1, SavedStep
<1>2. CASE NotSaved /\ UNCHANGED is_closed /\ live' = {}
  <2>1. accepted' = accepted
    BY <1>2 DEF accept_proposal
  <2> QED
    BY <1>2, <2>1, KeepStep DEF NotSaved
<1>3. is_closed \in BOOLEAN
  BY DEF IInv, TypeOK
<1> QED
  BY <1>1, <1>2, <1>3 DEF accept_proposal, Close, SaveAndClose, SaveError

(* The events of an open session are legal successors of its log. *)
LEMMA OpenFollows ==
    ASSUME IInv, NEW s \in live, s.tag \in {"WithReplyKey", "PollingForProposal"}
    PROVE  /\ s.tag = "WithReplyKey" =>
                Follows(Event("PostedOriginalPsbt"), Move(s, "PollingForProposal"))
           /\ Follows(Event("Cancelled"), Move(s, "PendingFallback"))
<1>0. /\ s \in States /\ s = trace[Len(log)] /\ s.key = log[1].key /\ s.outcome = "None"
  BY OpenHandle
<1>1. /\ Event("PostedOriginalPsbt") \in Events /\ Event("Cancelled") \in Events
      /\ Event("PostedOriginalPsbt").kind = "PostedOriginalPsbt"
      /\ Event("Cancelled").kind = "Cancelled"
  BY DEF Event, Events
<1>2. \A t \in {"PollingForProposal", "PendingFallback"} :
         /\ Move(s, t) \in States /\ Move(s, t).tag = t
         /\ Move(s, t).key = s.key /\ Move(s, t).outcome = s.outcome
  BY <1>0 DEF Move, States, Tags
<1>3. ASSUME s.tag = "WithReplyKey"
      PROVE  Follows(Event("PostedOriginalPsbt"), Move(s, "PollingForProposal"))
  <2>1. process_event(s, Event("PostedOriginalPsbt")) = Move(s, "PollingForProposal")
    BY <1>1, <1>3 DEF process_event
  <2> QED
    BY <1>0, <1>1, <1>2, <2>1 DEF Follows, Stands, OutcomeNamed
<1>4. Follows(Event("Cancelled"), Move(s, "PendingFallback"))
  <2>1. process_event(s, Event("Cancelled")) = Move(s, "PendingFallback")
    BY <1>1 DEF process_event
  <2> QED
    BY <1>0, <1>1, <1>2, <2>1 DEF Follows, Stands, OutcomeNamed
<1> QED
  BY <1>3, <1>4

-----------------------------------------------------------------------------
(* Every action keeps the invariant. *)

(* The session's first states. *)
LEMMA InitInv == Init => IInv
<1> SUFFICES ASSUME Init PROVE IInv
  OBVIOUS
<1>1. TypeOK
  <2>1. replay \in [at : Nat, st : States]
    BY StateTypes DEF Init
  <2>2. log \in Seq(Events) /\ trace \in Seq(States)
    BY DEF Init
  <2> QED
    BY <2>1, <2>2 DEF Init, TypeOK
<1>2. ReplayMatchesLive
  BY StateTypes DEF Init, ReplayMatchesLive
<1>3. EventsStand /\ OneKey /\ RequestsNameKey /\ GivenLogged /\ ClosedSessionsEnded
  BY DEF Init, EventsStand, OneKey, RequestsNameKey, GivenLogged, ClosedSessionsEnded
<1> QED
  BY <1>1, <1>2, <1>3 DEF IInv

(* SenderBuilder::build. *)
LEMMA BuildInv ==
    ASSUME IInv, build
    PROVE  IInv'
<1>0. /\ log = <<>> /\ ~is_closed /\ replay.at = 0 /\ Local /\ UNCHANGED accepted
      /\ log \in Seq(Events) /\ trace = <<>> /\ sent = {} /\ accepted = {}
  <2>1. log = <<>> /\ ~is_closed /\ replay.at = 0 /\ Local /\ UNCHANGED accepted
    BY DEF build
  <2>2. trace \in Seq(States) /\ Len(trace) = 0
    BY <2>1 DEF IInv, TypeOK, ReplayMatchesLive
  <2> QED
    BY <2>1, <2>2 DEF IInv, TypeOK, RequestsNameKey, GivenLogged
<1>1. PICK k \in ReplyKeys : SaveThen([kind |-> "Created", key |-> k], WithReplyKey(k))
  BY DEF build
<1> DEFINE e == [kind |-> "Created", key |-> k]
           t == WithReplyKey(k)
<1>2. CASE NotSaved /\ UNCHANGED is_closed /\ live' = {}
  BY <1>0, <1>2, KeepStep DEF NotSaved
<1>3. CASE save_event(e, t) /\ UNCHANGED is_closed /\ live' \subseteq {t}
  <2>1. /\ e \in Events /\ e.kind = "Created" /\ e.key = k /\ t \in States
        /\ t.tag = "WithReplyKey" /\ t.key = k /\ t.outcome = "None"
    BY StateTypes DEF Events, WithReplyKey
  <2>2. log' = <<e>> /\ trace' = <<t>>
    BY <1>0, <1>3 DEF save_event
  <2>3. /\ log' \in Seq(Events) /\ trace' \in Seq(States) /\ Len(log') = 1
        /\ Len(trace') = 1 /\ log'[1] = e /\ trace'[1] = t /\ log' # <<>>
    BY <2>1, <2>2
  <2>4. TypeOK'
    BY <1>0, <1>3, <2>1, <2>3 DEF IInv, TypeOK, Local
  <2>5. ReplayMatchesLive'
    BY <1>0, <1>3, <2>1, <2>3 DEF ReplayMatchesLive, Local
  <2>6. EventsStand' /\ OneKey'
    BY <2>1, <2>3 DEF EventsStand, OneKey, Stands, OutcomeNamed
  <2>7. RequestsNameKey' /\ GivenLogged' /\ ClosedSessionsEnded'
    BY <1>0, <1>3 DEF RequestsNameKey, GivenLogged, ClosedSessionsEnded, Local
  <2> QED
    BY <2>4, <2>5, <2>6, <2>7 DEF IInv
<1> QED
  BY <1>1, <1>2, <1>3 DEF SaveThen, SaveError

(* A request names the session's key. *)
LEMMA CreateRequestInv ==
    ASSUME IInv, NEW s \in live, create_request(s)
    PROVE  IInv'
<1>0. /\ log # <<>> /\ s.key = log[1].key /\ s.key \in ReplyKeys
      /\ s.tag \in {"WithReplyKey", "PollingForProposal"}
  BY OpenHandle DEF create_request
<1>1. /\ sent' = sent \cup {[kind |-> s.tag, key |-> s.key]} /\ request' = s.tag
      /\ UNCHANGED <<log, is_closed, live, trace, replay, expired, accepted>>
  BY DEF create_request
<1>2. TypeOK'
  BY <1>0, <1>1 DEF IInv, TypeOK
<1>3. RequestsNameKey'
  <2>1. \A m \in sent' : log' # <<>> /\ m.key = log'[1].key
    BY <1>0, <1>1 DEF IInv, RequestsNameKey
  <2> QED
    BY <1>1, <2>1 DEF RequestsNameKey
<1>4. GivenLogged' /\ ClosedSessionsEnded'
  BY <1>1 DEF IInv, GivenLogged, ClosedSessionsEnded, LastKind
<1>5. \A r \in live' : Current(r)
  BY <1>1 DEF IInv, ReplayMatchesLive, Current
<1>6. replay'.at > 0 => replay'.at <= Len(log) /\ replay'.st = trace[replay'.at]
  BY <1>1 DEF IInv, ReplayMatchesLive
<1> QED
  BY <1>1, <1>2, <1>3, <1>4, <1>5, <1>6, SameLog

(* Sender<PendingFallback>::close, on a session that may be closed already. *)
LEMMA CloseInv ==
    ASSUME IInv, NEW s \in live, close(s)
    PROVE  IInv'
<1> DEFINE e == [kind |-> "Closed", outcome |-> "Aborted", psbt |-> NoPsbt]
           t == Closed("Aborted", NoPsbt)
<1>0. /\ s.tag = "PendingFallback" /\ Local /\ UNCHANGED accepted /\ live' \in {live, {}}
      /\ log # <<>> /\ accepted = {} /\ s \in States
  BY FallbackHandle DEF close, On
<1>1. CASE save_event(e, t) /\ is_closed' \in {TRUE, is_closed}
  <2>1. Follows(e, t) /\ e.kind = "Closed"
    BY ClosedFollows DEF Outcomes
  <2>2. \A r \in live' : r = s
    BY <1>0 DEF IInv, TypeOK
  <2>3. is_closed' \in BOOLEAN
    BY <1>1 DEF IInv, TypeOK
  <2> QED
    BY <1>0, <1>1, <2>1, <2>2, <2>3, SavedStep
<1>2. CASE NotSaved /\ UNCHANGED is_closed
  BY <1>0, <1>2, KeepStep DEF NotSaved
<1> QED
  BY <1>1, <1>2 DEF close

(* Every transition of a live handle. *)
LEMMA TransitionInv ==
    ASSUME IInv, NEW s \in live, Transition(s)
    PROVE  IInv'
<1>1. CASE create_request(s)
  BY <1>1, CreateRequestInv
<1>2. CASE process_post_response(s)
  <2>0. /\ s.tag = "WithReplyKey" /\ Local /\ UNCHANGED accepted
        /\ log # <<>> /\ accepted = {} /\ ~is_closed
    BY <1>2, OpenHandle DEF process_post_response, On
  <2>1. CASE KeepState(s)
    BY <2>0, <2>1, KeepStep DEF KeepState
  <2>2. CASE Close("Aborted", NoPsbt)
    BY <2>0, <2>2, AbortStep
  <2>3. CASE SaveThen(Event("PostedOriginalPsbt"), Move(s, "PollingForProposal"))
    BY <2>0, <2>3, OpenFollows, SaveThenStep
  <2> QED
    BY <1>2, <2>1, <2>2, <2>3 DEF process_post_response
<1>3. CASE process_poll_response(s)
  <2>0. /\ s.tag = "PollingForProposal" /\ Local
        /\ log # <<>> /\ accepted = {} /\ ~is_closed
    BY <1>3, OpenHandle DEF process_poll_response, On
  <2>1. CASE KeepState(s) /\ UNCHANGED accepted
    BY <2>0, <2>1, KeepStep DEF KeepState
  <2>2. CASE Close("Aborted", NoPsbt) /\ UNCHANGED accepted
    BY <2>0, <2>2, AbortStep
  <2>3. ASSUME NEW p \in Proposals, accept_proposal(p) PROVE IInv'
    BY <2>0, <2>3, AcceptStep
  <2> QED
    BY <1>3, <2>1, <2>2, <2>3 DEF process_poll_response
<1>4. CASE cancel(s)
  <2>0. /\ s.tag \in {"WithReplyKey", "PollingForProposal"} /\ Local /\ UNCHANGED accepted
        /\ log # <<>> /\ accepted = {} /\ ~is_closed
        /\ SaveThen(Event("Cancelled"), Move(s, "PendingFallback"))
    BY <1>4, OpenHandle DEF cancel
  <2> QED
    BY <2>0, OpenFollows, SaveThenStep
<1>5. CASE close(s)
  BY <1>5, CloseInv
<1> QED
  BY <1>1, <1>2, <1>3, <1>4, <1>5 DEF Transition

(* A history that ends in success names its proposal in the last event. *)
LEMMA SuccessEvent ==
    ASSUME IInv, log # <<>>, trace[Len(log)].outcome = "Success"
    PROVE  /\ trace[Len(log)].psbt \in Proposals /\ trace[Len(log)].tag = "Closed"
           /\ log[Len(log)] = [kind |-> "Closed", outcome |-> "Success",
                               psbt |-> trace[Len(log)].psbt]
<1> DEFINE e == log[Len(log)]
           s == trace[Len(log)]
<1>1. s.tag = "Closed"
  BY LastEvent DEF IInv, OneKey
<1>2. e.kind = "Closed" /\ s = Closed(e.outcome, e.psbt)
  BY <1>1, LastEvent DEF Stands
<1>3. e.outcome = "Success" /\ e.psbt = s.psbt
  BY <1>2 DEF Closed
<1>4. e.psbt \in Proposals
  BY <1>2, <1>3, LastEvent DEF OutcomeNamed
<1>5. e \in [kind : {"Closed"}, outcome : Outcomes, psbt : Proposals \cup {NoPsbt}]
  BY <1>2, LastEvent DEF Events
<1>6. e = [kind |-> "Closed", outcome |-> "Success", psbt |-> s.psbt]
  BY <1>2, <1>3, <1>5
<1> QED
  BY <1>1, <1>3, <1>4, <1>6

(* Replay rebuilds the history, state by state. *)
LEMMA ReplayInv ==
    ASSUME IInv, start_replay \/ replay_event \/ construct_history
    PROVE  IInv'
<1>0. /\ log \in Seq(Events) /\ trace \in Seq(States) /\ Len(trace) = Len(log)
      /\ replay \in [at : Nat, st : States] /\ Len(log) \in Nat
  BY DEF IInv, TypeOK, ReplayMatchesLive
<1>1. UNCHANGED <<log, trace, expired, request, sent>>
  BY DEF start_replay, replay_event, construct_history, ReplayError
<1>2. RequestsNameKey'
  BY <1>1 DEF IInv, RequestsNameKey
<1>3. \A s \in live : Current(s)
  BY DEF IInv, ReplayMatchesLive, Current
<1>4. UNCHANGED accepted => GivenLogged'
  BY <1>1 DEF IInv, GivenLogged
<1>5. CASE start_replay
  <2>1. CASE log = <<>>
    <3>1. ReplayError
      BY <1>5, <2>1 DEF start_replay
    <3>2. ClosedSessionsEnded'
      BY <1>1, <2>1 DEF ClosedSessionsEnded, LastKind
    <3>3. TypeOK'
      BY <1>1, <3>1, StateTypes DEF IInv, TypeOK, ReplayError
    <3>4. replay'.at = 0 /\ UNCHANGED <<live, accepted>>
      BY <3>1, StateTypes DEF ReplayError
    <3> QED
      BY <1>1, <1>2, <1>3, <1>4, <3>2, <3>3, <3>4, SameLog
  <2>2. CASE log # <<>>
    <3>1. /\ log[1].kind = "Created" /\ log[1].key \in ReplyKeys
          /\ trace[1] = WithReplyKey(log[1].key)
      BY <2>2, FirstEvent
    <3>2. /\ replay' = [at |-> 1, st |-> WithReplyKey(log[1].key)]
          /\ UNCHANGED <<is_closed, live, accepted>>
      BY <1>5, <2>2, <3>1 DEF start_replay
    <3>3. replay'.at <= Len(log) /\ replay'.st = trace[replay'.at]
      BY <1>0, <2>2, <3>1, <3>2
    <3>4. TypeOK'
      BY <1>1, <3>1, <3>2, StateTypes DEF IInv, TypeOK
    <3>5. ClosedSessionsEnded'
      BY <1>1, <3>2 DEF IInv, ClosedSessionsEnded, LastKind
    <3> QED
      BY <1>1, <1>2, <1>3, <1>4, <3>2, <3>3, <3>4, <3>5, SameLog
  <2> QED
    BY <2>1, <2>2
<1>6. CASE replay_event
  <2> DEFINE n == replay.at
  <2>1. n \in 1..(Len(log) - 1) /\ n + 1 \in 1..Len(trace) /\ n \in Nat
    BY <1>0, <1>6 DEF replay_event
  <2>2. replay.st = trace[n]
    BY <1>0, <2>1 DEF IInv, ReplayMatchesLive
  <2>3. process_event(trace[n], log[n + 1]) = trace[n + 1]
    BY <2>1 DEF IInv, ReplayMatchesLive
  <2>4. trace[n + 1] \in States /\ Stands(log[n + 1], trace[n + 1])
    BY <1>0, <2>1 DEF IInv, EventsStand
  <2>5. trace[n + 1].tag # "Invalid"
    BY <2>4 DEF Stands, Closed
  <2>6. replay' = [at |-> n + 1, st |-> trace[n + 1]] /\ UNCHANGED <<is_closed, live, accepted>>
    BY <1>6, <2>2, <2>3, <2>5 DEF replay_event
  <2>7. replay'.at <= Len(log) /\ replay'.st = trace[replay'.at]
    BY <1>0, <2>1, <2>6
  <2>8. TypeOK'
    BY <1>0, <1>1, <2>1, <2>4, <2>6 DEF IInv, TypeOK
  <2>9. ClosedSessionsEnded'
    BY <1>1, <2>6 DEF IInv, ClosedSessionsEnded, LastKind
  <2> QED
    BY <1>1, <1>2, <1>3, <1>4, <2>6, <2>7, <2>8, <2>9, SameLog
<1>7. CASE construct_history
  <2>1. /\ replay.at > 0 /\ replay.at = Len(log) /\ replay' = NoReplay
        /\ live' \subseteq {replay.st} /\ UNCHANGED is_closed
        /\ accepted' = IF replay.st.outcome = "Success"
                       THEN accepted \cup {replay.st.psbt} ELSE accepted
    BY <1>7 DEF construct_history
  <2>2. replay.st = trace[Len(log)] /\ log # <<>> /\ Len(log) \in 1..Len(trace)
    BY <1>0, <2>1 DEF IInv, ReplayMatchesLive
  <2>3. \A s \in live' : Current(s)
    BY <2>1, <2>2 DEF Current
  <2>4. \A p \in accepted' : /\ p \in Proposals
                             /\ log[Len(log)] = [kind |-> "Closed", outcome |-> "Success",
                                                 psbt |-> p]
    <3> SUFFICES ASSUME NEW p \in accepted'
                 PROVE  /\ p \in Proposals
                        /\ log[Len(log)] = [kind |-> "Closed", outcome |-> "Success",
                                            psbt |-> p]
      OBVIOUS
    <3>1. CASE p \in accepted
      BY <3>1 DEF IInv, TypeOK, GivenLogged
    <3>2. CASE replay.st.outcome = "Success" /\ p = replay.st.psbt
      BY <2>2, <3>2, SuccessEvent
    <3> QED
      BY <2>1, <3>1, <3>2
  <2>5. GivenLogged'
    BY <1>1, <2>2, <2>4 DEF GivenLogged
  <2>6. TypeOK'
    BY <1>0, <1>1, <2>1, <2>2, <2>4, StateTypes DEF IInv, TypeOK
  <2>7. ClosedSessionsEnded'
    BY <1>1, <2>1 DEF IInv, ClosedSessionsEnded, LastKind
  <2>8. replay'.at = 0
    BY <2>1, StateTypes
  <2> QED
    BY <1>1, <1>2, <2>3, <2>5, <2>6, <2>7, <2>8, SameLog
<1> QED
  BY <1>5, <1>6, <1>7

(* Crashes, lost answers, the clock and stuttering leave the log alone. *)
LEMMA EnvironmentInv ==
    ASSUME IInv, LoseResponse \/ Crash \/ Expire \/ UNCHANGED vars
    PROVE  IInv'
<1>0. /\ UNCHANGED <<log, trace, is_closed, sent, accepted>>
      /\ live' = live \/ live' = {}
      /\ replay' = replay \/ replay' = NoReplay
      /\ expired' \in {expired, TRUE} /\ request' \in {request, "None"}
  BY DEF LoseResponse, Crash, DropHandle, Expire, vars
<1>1. TypeOK'
  BY <1>0, StateTypes DEF IInv, TypeOK
<1>2. RequestsNameKey' /\ GivenLogged' /\ ClosedSessionsEnded'
  BY <1>0 DEF IInv, RequestsNameKey, GivenLogged, ClosedSessionsEnded, LastKind
<1>3. \A s \in live' : Current(s)
  BY <1>0 DEF IInv, ReplayMatchesLive, Current
<1>4. replay'.at > 0 => replay'.at <= Len(log) /\ replay'.st = trace[replay'.at]
  BY <1>0, StateTypes DEF IInv, ReplayMatchesLive
<1> QED
  BY <1>0, <1>1, <1>2, <1>3, <1>4, SameLog

(* Every step keeps the invariant. *)
LEMMA NextInv == IInv /\ [Next]_vars => IInv'
<1> SUFFICES ASSUME IInv, [Next]_vars PROVE IInv'
  OBVIOUS
<1>1. CASE build
  BY <1>1, BuildInv
<1>2. ASSUME NEW s \in live, Transition(s) PROVE IInv'
  BY <1>2, TransitionInv
<1>3. CASE start_replay \/ replay_event \/ construct_history
  BY <1>3, ReplayInv
<1>4. CASE LoseResponse \/ Crash \/ Expire \/ UNCHANGED vars
  BY <1>4, EnvironmentInv
<1> QED
  BY <1>1, <1>2, <1>3, <1>4 DEF Next

-----------------------------------------------------------------------------
(* The theorems *)

(* The inductive invariant holds throughout. *)
LEMMA Invariance == Spec => []IInv
<1>1. Init => IInv
  BY InitInv
<1>2. IInv /\ [Next]_vars => IInv'
  BY NextInv
<1> QED
  BY <1>1, <1>2, PTL DEF Spec

(* Type correctness; in particular no operation of the sender leaves its      *)
(* application with two handles.                                              *)
THEOREM TypeCorrect == Spec => []TypeOK
<1>1. IInv => TypeOK
  BY DEF IInv
<1> QED
  BY <1>1, Invariance, PTL

(* Replaying the log reconstructs the state the live transitions returned;    *)
(* only the handle that Sender<PendingFallback>::close leaves behind may lag  *)
(* it (SendSession::process_event against the transitions of Sender<S>).      *)
THEOREM ReplayCorrect == Spec => []ReplayMatchesLive
<1>1. IInv => ReplayMatchesLive
  BY DEF IInv
<1> QED
  BY <1>1, Invariance, PTL

(* The application is given at most one proposal to sign, however often the   *)
(* session is replayed, and none once it was cancelled: the proposal is the   *)
(* one the Closed event names, and that event was saved first.                *)
THEOREM AtMostOneProposal == Spec => []OneProposal
<1>1. IInv => OneProposal
  <2> SUFFICES ASSUME IInv PROVE OneProposal
    OBVIOUS
  <2>1. ASSUME NEW p \in accepted, NEW q \in accepted PROVE p = q
    <3>1. /\ log[Len(log)] = [kind |-> "Closed", outcome |-> "Success", psbt |-> p]
          /\ log[Len(log)] = [kind |-> "Closed", outcome |-> "Success", psbt |-> q]
      BY DEF IInv, GivenLogged
    <3>2. log[Len(log)].psbt = p /\ log[Len(log)].psbt = q
      BY <3>1
    <3> QED
      BY <3>2
  <2>2. ASSUME NEW p \in accepted, NEW s \in live
        PROVE  s.tag = "Closed" /\ s.outcome = "Success"
    <3>1. /\ log # <<>>
          /\ log[Len(log)] = [kind |-> "Closed", outcome |-> "Success", psbt |-> p]
      BY DEF IInv, GivenLogged
    <3>2. log[Len(log)].kind = "Closed" /\ log[Len(log)].outcome = "Success"
      BY <3>1
    <3>3. /\ trace[Len(log)].tag = "Closed" /\ trace[Len(log)].outcome = "Success"
      BY <3>1, <3>2, LastEvent DEF Stands, Closed
    <3>4. trace[Len(log)] # Closed("Aborted", NoPsbt)
      BY <3>3 DEF Closed
    <3> QED
      BY <3>3, <3>4 DEF IInv, ReplayMatchesLive
  <2> QED
    BY <2>1, <2>2 DEF OneProposal
<1> QED
  BY <1>1, Invariance, PTL

-----------------------------------------------------------------------------
(* The session implements SenderContract. *)

(* The outcome the contract sees, and the keys. *)
Outcome ==
    IF LastKind = "Closed"
    THEN [kind |-> log[Len(log)].outcome, psbt |-> log[Len(log)].psbt]
    ELSE [kind |-> IF LastKind = "Cancelled" THEN "PendingFallback" ELSE "None",
          psbt |-> NoPsbt]

Keys == {m.key : m \in sent}

(* An appended event decides the outcome. *)
LEMMA AppendedOutcome ==
    ASSUME IInv, NEW e, log' = Append(log, e)
    PROVE  Outcome' = IF e.kind = "Closed" THEN [kind |-> e.outcome, psbt |-> e.psbt]
                      ELSE [kind |-> IF e.kind = "Cancelled" THEN "PendingFallback" ELSE "None",
                            psbt |-> NoPsbt]
<1>0. log \in Seq(Events)
  BY DEF IInv, TypeOK
<1>1. log' # <<>> /\ log'[Len(log')] = e
  BY <1>0
<1> QED
  BY <1>1 DEF Outcome, LastKind

(* Nothing the contract sees changes. *)
Unseen == UNCHANGED <<Keys, Outcome, accepted>>

(* A local step that saves no event is not seen by the contract. *)
LEMMA NotSavedUnseen ==
    ASSUME Local, UNCHANGED <<log, accepted>>
    PROVE  Unseen
BY DEF Local, Unseen, Keys, Outcome, LastKind

(* An aborted session is an Abort of the contract, or no step once aborted. *)
LEMMA AbortRefines ==
    ASSUME IInv, Local, UNCHANGED accepted,
           Outcome \in {Contract!Undecided, Contract!PendingFallback, Contract!Aborted},
           \/ log' = Append(log, [kind |-> "Closed", outcome |-> "Aborted", psbt |-> NoPsbt])
           \/ log' = log
    PROVE  Contract!Abort \/ Unseen
<1>1. CASE log' = log
  BY <1>1, NotSavedUnseen
<1>2. CASE log' = Append(log, [kind |-> "Closed", outcome |-> "Aborted", psbt |-> NoPsbt])
  <2>1. Outcome' = [kind |-> "Aborted", psbt |-> NoPsbt]
    BY <1>2, AppendedOutcome
  <2>2. UNCHANGED <<Keys, accepted>>
    BY DEF Local, Keys
  <2>3. CASE Outcome = Contract!Aborted
    BY <2>1, <2>2, <2>3 DEF Unseen, Contract!Aborted
  <2>4. CASE Outcome \in {Contract!Undecided, Contract!PendingFallback}
    BY <2>1, <2>2, <2>4 DEF Contract!Abort, Contract!Aborted, Outcome, Keys
  <2> QED
    BY <2>3, <2>4
<1> QED
  BY <1>1, <1>2

(* An open session has no outcome yet. *)
LEMMA OpenUndecided ==
    ASSUME IInv, NEW s \in live, s.tag \in {"WithReplyKey", "PollingForProposal"}
    PROVE  Outcome = Contract!Undecided
<1>1. LastKind \in {"Created", "PostedOriginalPsbt"}
  BY OpenHandle
<1> QED
  BY <1>1 DEF Outcome, Contract!Undecided

(* Every transition of a live handle is a step of the contract, or unseen. *)
LEMMA TransitionRefines ==
    ASSUME IInv, NEW s \in live, Transition(s)
    PROVE  Contract!Next \/ Unseen
<1>1. CASE create_request(s)
  <2>1. /\ s.key \in ReplyKeys /\ log # <<>> /\ s.key = log[1].key
        /\ s.tag \in {"WithReplyKey", "PollingForProposal"}
    BY <1>1, OpenHandle DEF create_request
  <2>2. Outcome = Contract!Undecided
    BY <2>1, OpenUndecided
  <2>3. UNCHANGED <<log, accepted>> /\ sent' = sent \cup {[kind |-> s.tag, key |-> s.key]}
    BY <1>1 DEF create_request
  <2>4. Keys \subseteq {s.key}
    BY <2>1 DEF Keys, IInv, RequestsNameKey
  <2>5. Keys' = {s.key}
    <3>1. \A m \in sent' : m.key = s.key
      BY <2>1, <2>3 DEF IInv, RequestsNameKey
    <3>2. [kind |-> s.tag, key |-> s.key] \in sent'
      BY <2>3
    <3> QED
      BY <3>1, <3>2 DEF Keys
  <2>6. UNCHANGED <<Outcome, accepted>>
    BY <2>3 DEF Outcome, LastKind
  <2>7. Contract!Request(s.key)
    BY <2>2, <2>4, <2>5, <2>6 DEF Contract!Request, Outcome, Keys
  <2> QED
    BY <2>1, <2>7 DEF Contract!Next
<1>2. CASE process_post_response(s)
  <2>0. s.tag = "WithReplyKey" /\ Local /\ UNCHANGED accepted
    BY <1>2 DEF process_post_response, On
  <2>1. Outcome = Contract!Undecided
    BY <2>0, OpenUndecided
  <2>2. CASE log' = log
    BY <2>0, <2>2, NotSavedUnseen
  <2>3. CASE log' = Append(log, [kind |-> "Closed", outcome |-> "Aborted", psbt |-> NoPsbt])
    BY <2>0, <2>1, <2>3, AbortRefines DEF Contract!Next
  <2>4. CASE log' = Append(log, Event("PostedOriginalPsbt"))
    <3>1. Outcome' = [kind |-> "None", psbt |-> NoPsbt]
      BY <2>4, AppendedOutcome DEF Event
    <3> QED
      BY <2>0, <2>1, <3>1 DEF Unseen, Local, Keys, Contract!Undecided
  <2> QED
    BY <1>2, <2>2, <2>3, <2>4 DEF process_post_response, KeepState, Close, SaveAndClose,
                                  SaveThen, SaveError, save_event, NotSaved
<1>3. CASE process_poll_response(s)
  <2>0. s.tag = "PollingForProposal" /\ Local /\ request = "PollingForProposal"
    BY <1>3 DEF process_poll_response, On
  <2>1. Outcome = Contract!Undecided /\ accepted = {} /\ ~is_closed
    BY <2>0, OpenUndecided, OpenHandle
  <2>2. CASE log' = log /\ UNCHANGED accepted
    BY <2>0, <2>2, NotSavedUnseen
  <2>3. CASE /\ log' = Append(log, [kind |-> "Closed", outcome |-> "Aborted", psbt |-> NoPsbt])
             /\ UNCHANGED accepted
    BY <2>0, <2>1, <2>3, AbortRefines DEF Contract!Next
  <2>4. ASSUME NEW p \in Proposals, accept_proposal(p)
        PROVE  Contract!Next \/ Unseen
    <3>1. CASE NotSaved /\ UNCHANGED is_closed
      BY <2>0, <2>1, <2>4, <3>1, NotSavedUnseen DEF accept_proposal, NotSaved
    <3>2. CASE log' = Append(log, [kind |-> "Closed", outcome |-> "Success", psbt |-> p])
      <4>1. Outcome' = [kind |-> "Success", psbt |-> p]
        BY <3>2, AppendedOutcome
      <4>2. UNCHANGED Keys /\ Keys # {}
        BY <2>0 DEF Local, Keys, IInv, RequestsNameKey
      <4>3. accepted' \in {{}, {p}}
        BY <2>1, <2>4 DEF accept_proposal
      <4>4. Contract!Accept(p)
        BY <2>1, <4>1, <4>2, <4>3 DEF Contract!Accept, Contract!Success, Outcome, Keys
      <4> QED
        BY <4>4 DEF Contract!Next
    <3> QED
      BY <2>4, <3>1, <3>2 DEF accept_proposal, Close, SaveAndClose, SaveError, save_event
  <2> QED
    BY <1>3, <2>2, <2>3, <2>4 DEF process_poll_response, KeepState, Close, SaveAndClose,
                                  SaveError, save_event, NotSaved
<1>4. CASE cancel(s)
  <2>0. /\ s.tag \in {"WithReplyKey", "PollingForProposal"} /\ Local /\ UNCHANGED accepted
        /\ log' = log \/ log' = Append(log, Event("Cancelled"))
    BY <1>4 DEF cancel, SaveThen, SaveError, save_event, NotSaved
  <2>1. Outcome = Contract!Undecided
    BY <2>0, OpenUndecided
  <2>2. CASE log' = log
    BY <2>0, <2>2, NotSavedUnseen
  <2>3. CASE log' = Append(log, Event("Cancelled"))
    <3>1. Outcome' = [kind |-> "PendingFallback", psbt |-> NoPsbt]
      BY <2>3, AppendedOutcome DEF Event
    <3>2. UNCHANGED <<Keys, accepted>>
      BY <2>0 DEF Local, Keys
    <3>3. Contract!GiveUp
      BY <2>1, <3>1, <3>2 DEF Contract!GiveUp, Contract!PendingFallback, Outcome, Keys
    <3> QED
      BY <3>3 DEF Contract!Next
  <2> QED
    BY <2>0, <2>2, <2>3
<1>5. CASE close(s)
  <2>0. /\ s.tag = "PendingFallback" /\ Local /\ UNCHANGED accepted
        /\ \/ log' = log
           \/ log' = Append(log, [kind |-> "Closed", outcome |-> "Aborted", psbt |-> NoPsbt])
    BY <1>5 DEF close, On, save_event, NotSaved
  <2>1. Outcome \in {Contract!PendingFallback, Contract!Aborted}
    BY <2>0, FallbackHandle DEF Outcome, Contract!PendingFallback, Contract!Aborted
  <2> QED
    BY <2>0, <2>1, AbortRefines DEF Contract!Next
<1> QED
  BY <1>1, <1>2, <1>3, <1>4, <1>5 DEF Transition

(* Every other step is unseen, but for a replay that hands the proposal over. *)
LEMMA OtherRefines ==
    ASSUME IInv,
           \/ build \/ LoseResponse \/ start_replay \/ replay_event
           \/ construct_history \/ Crash \/ Expire \/ UNCHANGED vars
    PROVE  Contract!Next \/ Unseen
<1>1. CASE build
  <2>1. /\ log = <<>> /\ Local /\ UNCHANGED accepted
        /\ \E k \in ReplyKeys : log' = log \/ log' = Append(log, [kind |-> "Created", key |-> k])
    BY <1>1 DEF build, SaveThen, SaveError, save_event, NotSaved
  <2>2. CASE log' = log
    BY <2>1, <2>2, NotSavedUnseen
  <2>3. ASSUME NEW k \in ReplyKeys, log' = Append(log, [kind |-> "Created", key |-> k])
        PROVE  Unseen
    <3>1. Outcome' = [kind |-> "None", psbt |-> NoPsbt]
      BY <2>3, AppendedOutcome
    <3>2. Outcome = [kind |-> "None", psbt |-> NoPsbt]
      BY <2>1 DEF Outcome, LastKind
    <3> QED
      BY <2>1, <3>1, <3>2 DEF Unseen, Local, Keys
  <2> QED
    BY <2>1, <2>2, <2>3
<1>2. CASE construct_history
  <2>1. /\ replay.at > 0 /\ replay.at = Len(log) /\ UNCHANGED <<log, sent>>
        /\ accepted' = IF replay.st.outcome = "Success"
                       THEN accepted \cup {replay.st.psbt} ELSE accepted
    BY <1>2 DEF construct_history
  <2>2. log \in Seq(Events) /\ log # <<>> /\ replay.st = trace[Len(log)]
    BY <2>1 DEF IInv, TypeOK, ReplayMatchesLive
  <2>3. UNCHANGED <<Keys, Outcome>>
    BY <2>1 DEF Keys, Outcome, LastKind
  <2>4. CASE replay.st.outcome = "Success"
    <3> DEFINE p == replay.st.psbt
    <3>1. log[Len(log)] = [kind |-> "Closed", outcome |-> "Success", psbt |-> p]
      BY <2>2, <2>4, SuccessEvent
    <3>2. Outcome = [kind |-> "Success", psbt |-> p]
      BY <2>2, <3>1 DEF Outcome, LastKind
    <3>3. accepted \subseteq {p}
      <4> SUFFICES ASSUME NEW q \in accepted PROVE q = p
        OBVIOUS
      <4>1. log[Len(log)] = [kind |-> "Closed", outcome |-> "Success", psbt |-> q]
        BY DEF IInv, GivenLogged
      <4>2. log[Len(log)].psbt = q /\ log[Len(log)].psbt = p
        BY <3>1, <4>1
      <4> QED
        BY <4>2
    <3>4. accepted' = {p}
      BY <2>1, <2>4, <3>3
    <3>5. Contract!Give
      BY <2>3, <3>2, <3>4 DEF Contract!Give, Outcome, Keys
    <3> QED
      BY <3>5 DEF Contract!Next
  <2>5. CASE replay.st.outcome # "Success"
    BY <2>1, <2>3, <2>5 DEF Unseen
  <2> QED
    BY <2>4, <2>5
<1>3. CASE UNCHANGED <<log, sent, accepted>>
  BY <1>3 DEF Unseen, Keys, Outcome, LastKind
<1> QED
  BY <1>1, <1>2, <1>3 DEF LoseResponse, start_replay, replay_event, ReplayError, Crash,
                          DropHandle, Expire, vars

(* The sender session implements its contract: one reply key, one outcome     *)
(* that never changes, and at most the proposal it names given to the wallet, *)
(* for any number of crashes, storage errors, retries and replays             *)
(* (SaveAndClose before the PSBT is returned, Sender<S>::cancel).             *)
THEOREM Refinement == Spec => ImplementsContract
<1>1. Init => Contract!Init
  BY DEF Init, Contract!Init, Contract!Undecided, LastKind
<1>2. IInv /\ [Next]_vars => [Contract!Next]_(Contract!contractVars)
  <2> SUFFICES ASSUME IInv, [Next]_vars
               PROVE  Contract!Next \/ UNCHANGED Contract!contractVars
    OBVIOUS
  <2>1. Contract!Next \/ Unseen
    BY TransitionRefines, OtherRefines DEF Next
  <2> QED
    BY <2>1 DEF Unseen, Contract!contractVars, Keys, Outcome
<1> QED
  BY <1>1, <1>2, Invariance, PTL DEF Spec, ImplementsContract, Contract!Spec
=============================================================================
