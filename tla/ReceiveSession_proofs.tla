------------------------ MODULE ReceiveSession_proofs ------------------------
(***************************************************************************)
(* Theorems about the receiver session, for any payloads, proposals and    *)
(* any number of crashes, storage errors, retries and replays.             *)
(*                                                                         *)
(* The inductive invariant IInv adds to the properties what a typestate    *)
(* carries (WellFormed), that every saved event moves the session strictly *)
(* forward (Advances) and that what was sent is the message of one of the  *)
(* states of the history (SentLogged).                                     *)
(***************************************************************************)
EXTENDS ReceiveSession, TLAPS

PsbtTags == {"WantsOutputs", "WantsInputs", "WantsFeeRange",
             "ProvisionalProposal", "PayjoinProposal", "Monitor"}

ChangeTags == {"WantsOutputs", "WantsInputs", "WantsFeeRange"}

(* The data a typestate is guaranteed to hold. *)
WellFormed(s) ==
    /\ s.tag # "Invalid"
    /\ s.tag \notin {"Initialized", "Closed"} => s.original \in Payloads
    /\ s.tag \in PsbtTags => s.psbt \in Psbts
    /\ s.tag \in ChangeTags => s.change < OutputCount[s.psbt]

(* How far a session has come; the two states that reply are on one level. *)
Rank ==
    [t \in Tags |->
        CASE t = "Initialized" -> 0
          [] t = "UncheckedOriginalPayload" -> 1
          [] t = "MaybeInputsOwned" -> 2
          [] t = "MaybeInputsSeen" -> 3
          [] t = "OutputsUnknown" -> 4
          [] t = "WantsOutputs" -> 5
          [] t = "WantsInputs" -> 6
          [] t = "WantsFeeRange" -> 7
          [] t = "ProvisionalProposal" -> 8
          [] t \in {"PayjoinProposal", "HasReplyableError"} -> 9
          [] t = "Monitor" -> 10
          [] t = "PendingFallback" -> 11
          [] OTHER -> 12]

(* No logged or live state misses its data. *)
StatesWellFormed ==
    /\ \A i \in 1..Len(trace) : WellFormed(trace[i])
    /\ \A s \in live : WellFormed(s)

(* Every saved event moves the session strictly forward. *)
Advances == \A i, j \in 1..Len(trace) : i < j => Rank[trace[i].tag] < Rank[trace[j].tag]

(* What the sender was sent is the message of one of the states of the history. *)
SentLogged ==
    \A m \in sent : \E i \in 1..Len(trace) :
        /\ trace[i].tag \in {"PayjoinProposal", "HasReplyableError"}
        /\ m = Message(trace[i])

(* Closed events and Closed states go together. *)
ClosedLogged ==
    \A i \in 1..Len(log) : log[i].kind = "Closed" <=> trace[i].tag = "Closed"

(* The inductive invariant. *)
IInv ==
    /\ TypeOK
    /\ ReplayMatchesLive
    /\ StatesWellFormed
    /\ Advances
    /\ SentLogged
    /\ ClosedLogged
    /\ ClosedSessionsEnded

-----------------------------------------------------------------------------
(* Records *)

(* A handle that has nothing uncommitted is the logged state itself. *)
LEMMA MatchesEqual ==
    ASSUME NEW s \in States, NEW r \in States, Matches(s, r),
           s.tag \notin {"WantsOutputs", "WantsInputs"}
    PROVE  s = r
BY DEF States, Matches

(* The states a session can move to have their type. *)
LEMMA StateTypes ==
    ASSUME NEW s \in States
    PROVE  /\ \A t \in Tags : Move(s, t) \in States
           /\ PendingFallback(s) \in States
           /\ \A b \in BOOLEAN : HasReplyableError(s, b) \in States
           /\ \A o \in Outcomes : Closed(o) \in States
BY DEF States, Move, PendingFallback, HasReplyableError, Closed, Initialized, Tags

(* The state a Created event replays to has its type and its data. *)
LEMMA InitializedType == Initialized \in States /\ WellFormed(Initialized)
BY DEF States, Tags, Initialized, WellFormed, PsbtTags, ChangeTags

(* A payload of Psbts has a positive number of outputs. *)
LEMMA OutputCountType == \A p \in Psbts : OutputCount[p] \in Nat /\ OutputCount[p] > 0
BY PsbtAssumption

(* Every typestate has a rank. *)
LEMMA RankType == Rank \in [Tags -> 0..12] /\ \A s \in States : s.tag \in Tags
BY DEF Rank, States

(* Ranks are ordered. *)
LEMMA LessTrans == \A a, b, c \in 0..12 : a < b /\ b < c => a < c
OBVIOUS

(* Event e takes the state r to t, on replay and as a step forward. *)
Replays(r, e, t) ==
    /\ e \in Events /\ t \in States /\ WellFormed(t)
    /\ process_event(r, e) = t
    /\ Rank[r.tag] < Rank[t.tag]
    /\ e.kind = "Closed" <=> t.tag = "Closed"

-----------------------------------------------------------------------------
(* What persisting does to the invariant *)

(* A step that leaves the log alone. *)
LEMMA SameLog ==
    ASSUME IInv, UNCHANGED <<log, trace>>, TypeOK',
           \A t \in live' : WellFormed(t) /\ log # <<>> /\ Matches(t, trace[Len(log)]),
           replay'.at > 0 => replay'.at <= Len(log) /\ replay'.st = trace[replay'.at],
           SentLogged', ClosedSessionsEnded'
    PROVE  IInv'
<1>1. ReplayMatchesLive'
  <2>1. \A i \in 1..(Len(log') - 1) : process_event(trace'[i], log'[i + 1]) = trace'[i + 1]
    BY DEF IInv, ReplayMatchesLive
  <2>2. \A s \in live' : log' # <<>> /\ Matches(s, trace'[Len(log')])
    OBVIOUS
  <2> QED
    BY <2>1, <2>2 DEF IInv, ReplayMatchesLive, process_event, Matches
<1>2. StatesWellFormed' /\ Advances' /\ ClosedLogged'
  BY DEF IInv, StatesWellFormed, Advances, ClosedLogged
<1> QED
  BY <1>1, <1>2 DEF IInv

(* A step that persists nothing and leaves the handle on its logged state. *)
LEMMA KeepStep ==
    ASSUME IInv, Local, UNCHANGED <<log, is_closed, trace>>,
           \A t \in live' : /\ t \in States /\ WellFormed(t) /\ log # <<>>
                            /\ Matches(t, trace[Len(log)]),
           \A t, u \in live' : t = u
    PROVE  IInv'
<1>1. TypeOK'
  BY DEF IInv, TypeOK, Local
<1>2. replay'.at > 0 => replay'.at <= Len(log) /\ replay'.st = trace[replay'.at]
  BY DEF IInv, ReplayMatchesLive, Local
<1>3. SentLogged'
  BY DEF IInv, SentLogged, Local
<1>4. ClosedSessionsEnded'
  BY DEF IInv, ClosedSessionsEnded, LastKind
<1> QED
  BY <1>1, <1>2, <1>3, <1>4, SameLog

(* An event e that replays to t reaches the log. *)
LEMMA SavedStep ==
    ASSUME IInv, Local, log # <<>>,
           NEW e, NEW t, Replays(trace[Len(log)], e, t),
           save_event(e, t),
           live' \subseteq {t},
           is_closed' \in BOOLEAN, is_closed' => is_closed \/ t.tag = "Closed"
    PROVE  IInv'
<1> USE DEF save_event
<1>a. /\ e \in Events /\ t \in States /\ WellFormed(t)
      /\ process_event(trace[Len(log)], e) = t
      /\ Rank[trace[Len(log)].tag] < Rank[t.tag]
      /\ e.kind = "Closed" <=> t.tag = "Closed"
  BY DEF Replays
<1> USE <1>a
<1>0. /\ log \in Seq(Events) /\ trace \in Seq(States) /\ Len(trace) = Len(log)
      /\ Len(log) \in Nat /\ Len(log) > 0
  BY DEF IInv, TypeOK, ReplayMatchesLive
<1>1. /\ Len(log') = Len(log) + 1 /\ Len(trace') = Len(log) + 1
      /\ log'[Len(log) + 1] = e /\ trace'[Len(log) + 1] = t
      /\ \A i \in 1..Len(log) : log'[i] = log[i] /\ trace'[i] = trace[i]
  BY <1>0
<1>2. TypeOK'
  BY <1>0 DEF IInv, TypeOK, Local
<1>3. ReplayMatchesLive'
  <2>1. Len(trace') = Len(log') /\ log' # <<>>
    BY <1>0, <1>1
  <2>2. log'[1].kind = "Created" /\ trace'[1] = Initialized
    BY <1>0, <1>1 DEF IInv, ReplayMatchesLive
  <2>3. \A i \in 1..(Len(log') - 1) : process_event(trace'[i], log'[i + 1]) = trace'[i + 1]
    <3> SUFFICES ASSUME NEW i \in 1..Len(log)
                 PROVE  process_event(trace'[i], log'[i + 1]) = trace'[i + 1]
      BY <1>0, <1>1
    <3>1. CASE i = Len(log)
      BY <3>1, <1>0, <1>1
    <3>2. CASE i < Len(log)
      <4>1. i \in 1..(Len(log) - 1) /\ i + 1 \in 1..Len(log)
        BY <3>2, <1>0
      <4>2. process_event(trace[i], log[i + 1]) = trace[i + 1]
        BY <4>1 DEF IInv, ReplayMatchesLive
      <4> QED
        BY <4>1, <4>2, <1>1
    <3> QED
      BY <3>1, <3>2, <1>0
  <2>4. \A s \in live' : log' # <<>> /\ Matches(s, trace'[Len(log')])
    BY <1>0, <1>1, <2>1 DEF Matches
  <2>5. replay'.at > 0 => replay'.at <= Len(log') /\ replay'.st = trace'[replay'.at]
    BY <1>0, <1>1 DEF IInv, TypeOK, ReplayMatchesLive, Local
  <2> QED
    BY <2>1, <2>2, <2>3, <2>4, <2>5 DEF ReplayMatchesLive, process_event
<1>4. StatesWellFormed'
  BY <1>0, <1>1 DEF IInv, StatesWellFormed
<1>5. Advances'
  <2> SUFFICES ASSUME NEW i \in 1..Len(log'), NEW j \in 1..Len(log'), i < j
               PROVE  Rank[trace'[i].tag] < Rank[trace'[j].tag]
    BY <1>0, <1>1, RankType DEF Advances
  <2>1. /\ i \in 1..Len(log) /\ trace'[i] = trace[i] /\ trace[i] \in States
        /\ trace[Len(log)] \in States
    BY <1>0, <1>1
  <2>2. CASE j \in 1..Len(log)
    BY <2>1, <2>2, <1>0, <1>1 DEF IInv, Advances
  <2>3. CASE j = Len(log) + 1
    <3>1. i = Len(log) \/ Rank[trace[i].tag] < Rank[trace[Len(log)].tag]
      BY <2>1, <1>0, RankType DEF IInv, Advances
    <3>2. Rank[trace[i].tag] \in 0..12 /\ Rank[trace[Len(log)].tag] \in 0..12 /\ Rank[t.tag] \in 0..12
      BY <2>1, RankType
    <3>3. trace'[i] = trace[i] /\ trace'[j] = t
      BY <2>1, <2>3, <1>1
    <3>4. Rank[trace[i].tag] < Rank[t.tag]
      <4>1. CASE i = Len(log)
        BY <4>1
      <4>2. CASE Rank[trace[i].tag] < Rank[trace[Len(log)].tag]
        BY <4>2, <3>2, LessTrans, Zenon
      <4> QED
        BY <3>1, <4>1, <4>2
    <3> QED
      BY <3>3, <3>4
  <2> QED
    BY <2>2, <2>3, <1>0, <1>1
<1>6. SentLogged'
  <2> SUFFICES ASSUME NEW m \in sent
               PROVE  \E i \in 1..Len(trace') :
                         /\ trace'[i].tag \in {"PayjoinProposal", "HasReplyableError"}
                         /\ m = Message(trace'[i])
    BY DEF SentLogged, Local, Message
  <2>1. PICK i \in 1..Len(trace) :
           /\ trace[i].tag \in {"PayjoinProposal", "HasReplyableError"}
           /\ m = Message(trace[i])
    BY DEF IInv, SentLogged
  <2>2. i \in 1..Len(trace') /\ trace'[i] = trace[i]
    BY <1>0, <1>1
  <2> QED
    BY <2>1, <2>2
<1>7. ClosedLogged'
  BY <1>0, <1>1 DEF IInv, ClosedLogged
<1>8. ClosedSessionsEnded'
  <2>1. ~is_closed
    <3> SUFFICES ASSUME is_closed PROVE FALSE
      OBVIOUS
    <3>1. log[Len(log)].kind = "Closed" \/ log[Len(log)].kind = "None"
      BY <1>0 DEF IInv, ClosedSessionsEnded, LastKind
    <3>2. log[Len(log)] \in Events
      BY <1>0
    <3>3. log[Len(log)].kind # "None"
      BY <3>2 DEF Events
    <3>4. trace[Len(log)].tag = "Closed"
      BY <3>1, <3>3, <1>0 DEF IInv, ClosedLogged
    <3>5. Rank[trace[Len(log)].tag] = 12
      BY <3>4 DEF Rank, Tags
    <3>6. Rank[t.tag] \in 0..12
      BY RankType
    <3> QED
      BY <3>5, <3>6
  <2> QED
    BY <2>1, <1>0, <1>1 DEF ClosedSessionsEnded, LastKind
<1> QED
  BY <1>2, <1>3, <1>4, <1>5, <1>6, <1>7, <1>8 DEF IInv

(* MaybeFatalTransition::save and its kin: one event, then the next state or an
   error that loses the handle. *)
LEMMA SaveThenStep ==
    ASSUME IInv, Local, log # <<>>,
           NEW e, NEW t, Replays(trace[Len(log)], e, t), SaveThen(e, t)
    PROVE  IInv'
<1>0. is_closed \in BOOLEAN
  BY DEF IInv, TypeOK
<1>1. CASE save_event(e, t) /\ UNCHANGED is_closed /\ live' \subseteq {t}
  BY <1>0, <1>1, SavedStep
<1>2. CASE NotSaved /\ UNCHANGED is_closed /\ live' = {}
  BY <1>2, KeepStep DEF NotSaved
<1> QED
  BY <1>1, <1>2 DEF SaveThen, SaveError

(* PersistActions::SaveAndClose: the event that ends the session, then close(). *)
LEMMA CloseStep ==
    ASSUME IInv, Local, log # <<>>, NEW o \in Outcomes,
           trace[Len(log)].tag \notin {"Closed", "Invalid"},
           trace[Len(log)] \in States, Close(o)
    PROVE  IInv'
<1> DEFINE e == [kind |-> "Closed", outcome |-> o]
           t == Closed(o)
<1>0. is_closed \in BOOLEAN
  BY DEF IInv, TypeOK
<1>1. t.tag = "Closed" /\ t \in States /\ WellFormed(t)
  BY DEF Closed, Initialized, States, Tags, WellFormed, PsbtTags, ChangeTags
<1>2. Rank[trace[Len(log)].tag] < Rank[t.tag]
  BY <1>1 DEF Rank, Tags, States
<1>3. e \in Events
  BY DEF Events
<1>4. process_event(trace[Len(log)], e) = t
  BY DEF process_event
<1>5. Replays(trace[Len(log)], e, t)
  BY <1>1, <1>2, <1>3, <1>4 DEF Replays
<1>6. CASE save_event(e, t) /\ is_closed' = TRUE /\ live' = {}
  BY <1>1, <1>5, <1>6, SavedStep
<1>7. CASE save_event(e, t) /\ UNCHANGED is_closed /\ live' = {}
  BY <1>0, <1>1, <1>5, <1>7, SavedStep
<1>8. CASE NotSaved /\ UNCHANGED is_closed /\ live' = {}
  BY <1>8, KeepStep DEF NotSaved
<1> QED
  BY <1>6, <1>7, <1>8 DEF Close, SaveAndClose, SaveError

(* What is known of a live handle. *)
LEMMA HandleFacts ==
    ASSUME IInv, NEW s \in live
    PROVE  /\ s \in States /\ WellFormed(s) /\ log # <<>>
           /\ trace[Len(log)] \in States /\ WellFormed(trace[Len(log)])
           /\ Matches(s, trace[Len(log)]) /\ s.tag = trace[Len(log)].tag
           /\ s.tag \notin {"WantsOutputs", "WantsInputs"} => s = trace[Len(log)]
<1>1. s \in States /\ WellFormed(s) /\ log # <<>> /\ Matches(s, trace[Len(log)])
  BY DEF IInv, TypeOK, StatesWellFormed, ReplayMatchesLive
<1>2. /\ log \in Seq(Events) /\ trace \in Seq(States) /\ Len(trace) = Len(log)
  BY DEF IInv, TypeOK, ReplayMatchesLive
<1>3. Len(log) \in 1..Len(trace)
  BY <1>1, <1>2
<1>4. trace[Len(log)] \in States /\ WellFormed(trace[Len(log)])
  BY <1>2, <1>3 DEF IInv, StatesWellFormed
<1> QED
  BY <1>1, <1>4, MatchesEqual DEF Matches

-----------------------------------------------------------------------------
(* Each event of the live path replays to the state the transition returned. *)

(* The event saved with a fetched Original PSBT replays to its live state. *)
LEMMA ReplaysRetrieved ==
    ASSUME NEW s \in States, WellFormed(s), s.tag = "Initialized", NEW p \in Payloads
    PROVE  Replays(s, [kind |-> "RetrievedOriginalPayload", original |-> p],
                   [s EXCEPT !.tag = "UncheckedOriginalPayload", !.original = p])
<1> DEFINE e == [kind |-> "RetrievedOriginalPayload", original |-> p]
           t == [s EXCEPT !.tag = "UncheckedOriginalPayload", !.original = p]
<1>1. t \in States /\ t.tag = "UncheckedOriginalPayload" /\ t.original = p
  BY DEF States, Tags
<1>2. WellFormed(t) /\ Rank[s.tag] < Rank[t.tag]
  BY <1>1 DEF WellFormed, PsbtTags, ChangeTags, Rank, Tags
<1>3. e \in Events /\ e.kind # "Closed"
  BY DEF Events
<1>4. process_event(s, e) = t
  BY DEF process_event
<1> QED
  BY <1>1, <1>2, <1>3, <1>4 DEF Replays

(* The event of check_broadcast_suitability replays to its live state. *)
LEMMA ReplaysBroadcastSuitability ==
    ASSUME NEW s \in States, WellFormed(s), s.tag = "UncheckedOriginalPayload"
    PROVE  Replays(s, Event("CheckedBroadcastSuitability"),
                   [s EXCEPT !.tag = "MaybeInputsOwned", !.fallback = TRUE])
<1> DEFINE t == [s EXCEPT !.tag = "MaybeInputsOwned", !.fallback = TRUE]
<1>1. t \in States /\ t.tag = "MaybeInputsOwned" /\ t.original = s.original
  BY DEF States, Tags
<1>2. WellFormed(t) /\ Rank[s.tag] < Rank[t.tag]
  BY <1>1 DEF WellFormed, PsbtTags, ChangeTags, Rank, Tags
<1>3. Event("CheckedBroadcastSuitability") \in Events
  BY DEF Event, Events
<1>4. process_event(s, Event("CheckedBroadcastSuitability")) = t
  BY DEF process_event, Event
<1> QED
  BY <1>1, <1>2, <1>3, <1>4 DEF Replays, Event

(* The events of the ownership and seen-before checks replay to their live states. *)
LEMMA ReplaysChecks ==
    ASSUME NEW s \in States, WellFormed(s)
    PROVE  /\ s.tag = "MaybeInputsOwned" =>
                Replays(s, Event("CheckedInputsNotOwned"), Move(s, "MaybeInputsSeen"))
           /\ s.tag = "MaybeInputsSeen" =>
                Replays(s, Event("CheckedNoInputsSeenBefore"), Move(s, "OutputsUnknown"))
           /\ s.tag = "PayjoinProposal" =>
                Replays(s, Event("PostedPayjoinProposal"), Move(s, "Monitor"))
BY DEF Replays, Event, Events, States, Move, WellFormed, PsbtTags, ChangeTags,
       process_event, Rank, Tags

(* A replyable error replays to the state that can answer the sender. *)
LEMMA ReplaysError ==
    ASSUME NEW s \in States, WellFormed(s), NEW b \in BOOLEAN,
           s.tag \in (IF b THEN {"MaybeInputsOwned", "MaybeInputsSeen", "OutputsUnknown"}
                     ELSE {"UncheckedOriginalPayload"})
    PROVE  Replays(s, Event("GotReplyableError"), HasReplyableError(s, b))
<1> DEFINE t == HasReplyableError(s, b)
<1>1. t \in States /\ t.tag = "HasReplyableError" /\ t.original = s.original
  BY DEF States, Tags, HasReplyableError
<1>2. WellFormed(t) /\ Rank[s.tag] < Rank[t.tag]
  BY <1>1 DEF WellFormed, PsbtTags, ChangeTags, Rank, Tags
<1>3. Event("GotReplyableError") \in Events
  BY DEF Event, Events
<1>4. process_event(s, Event("GotReplyableError")) = t
  BY DEF process_event, Event, apply_got_replyable_error
<1> QED
  BY <1>1, <1>2, <1>3, <1>4 DEF Replays, Event

(* The receiver outputs identified live are the ones replay restores. *)
LEMMA ReplaysIdentified ==
    ASSUME NEW s \in States, WellFormed(s), s.tag = "OutputsUnknown",
           NEW v \in 0..(OutputCount[s.original] - 1)
    PROVE  Replays(s, [kind |-> "IdentifiedReceiverOutputs", change |-> v],
                   [s EXCEPT !.tag = "WantsOutputs", !.psbt = s.original, !.change = v])
<1> DEFINE e == [kind |-> "IdentifiedReceiverOutputs", change |-> v]
           t == [s EXCEPT !.tag = "WantsOutputs", !.psbt = s.original, !.change = v]
<1>0. s.original \in Payloads /\ s.original \in Psbts /\ OutputCount[s.original] \in Nat
      /\ v \in Nat /\ v < OutputCount[s.original]
  BY OutputCountType DEF WellFormed, Psbts
<1>1. t \in States /\ t.tag = "WantsOutputs" /\ t.original = s.original
      /\ t.psbt = s.original /\ t.change = v
  BY <1>0 DEF States, Tags
<1>2. WellFormed(t) /\ Rank[s.tag] < Rank[t.tag]
  BY <1>0, <1>1 DEF WellFormed, PsbtTags, ChangeTags, Rank, Tags
<1>3. e \in Events
  BY <1>0 DEF Events
<1>4. process_event(s, e) = t
  BY <1>0 DEF process_event, apply_identified_receiver_outputs
<1> QED
  BY <1>1, <1>2, <1>3, <1>4 DEF Replays

(* commit_outputs: the saved outputs replay to the working PSBT of the handle. *)
LEMMA ReplaysCommittedOutputs ==
    ASSUME NEW s \in States, NEW r \in States, WellFormed(s), WellFormed(r),
           Matches(s, r), s.tag = "WantsOutputs"
    PROVE  Replays(r, [kind |-> "CommittedOutputs", psbt |-> s.psbt, change |-> s.change],
                   Move(s, "WantsInputs"))
<1> DEFINE e == [kind |-> "CommittedOutputs", psbt |-> s.psbt, change |-> s.change]
           t == Move(s, "WantsInputs")
<1>0. /\ r.tag = "WantsOutputs" /\ s.psbt \in Psbts
      /\ s.change \in Nat /\ s.change < OutputCount[s.psbt]
  BY DEF WellFormed, PsbtTags, ChangeTags, Matches, States
<1>1. t \in States /\ t.tag = "WantsInputs" /\ t.original = s.original
      /\ t.psbt = s.psbt /\ t.change = s.change
  BY DEF States, Tags, Move
<1>2. WellFormed(t) /\ Rank[r.tag] < Rank[t.tag]
  BY <1>0, <1>1 DEF WellFormed, PsbtTags, ChangeTags, Rank, Tags
<1>3. e \in Events
  BY <1>0 DEF Events
<1>4. process_event(r, e) = [r EXCEPT !.tag = "WantsInputs", !.psbt = s.psbt, !.change = s.change]
  BY <1>0 DEF process_event, apply_committed_outputs
<1>5. [r EXCEPT !.tag = "WantsInputs", !.psbt = s.psbt, !.change = s.change] = t
  BY DEF States, Matches, Move
<1> QED
  BY <1>1, <1>2, <1>3, <1>4, <1>5 DEF Replays

(* commit_inputs: the saved inputs replay to the working PSBT of the handle. *)
LEMMA ReplaysCommittedInputs ==
    ASSUME NEW s \in States, NEW r \in States, WellFormed(s), WellFormed(r),
           Matches(s, r), s.tag = "WantsInputs"
    PROVE  Replays(r, [kind |-> "CommittedInputs", psbt |-> s.psbt], Move(s, "WantsFeeRange"))
<1> DEFINE e == [kind |-> "CommittedInputs", psbt |-> s.psbt]
           t == Move(s, "WantsFeeRange")
<1>0. /\ r.tag = "WantsInputs" /\ s.psbt \in Psbts
      /\ r.change \in Nat /\ r.change = s.change /\ s.change < OutputCount[s.psbt]
  BY DEF WellFormed, PsbtTags, ChangeTags, Matches, States
<1>1. t \in States /\ t.tag = "WantsFeeRange" /\ t.original = s.original
      /\ t.psbt = s.psbt /\ t.change = s.change
  BY DEF States, Tags, Move
<1>2. WellFormed(t) /\ Rank[r.tag] < Rank[t.tag]
  BY <1>0, <1>1 DEF WellFormed, PsbtTags, ChangeTags, Rank, Tags
<1>3. e \in Events
  BY <1>0 DEF Events
<1>4. process_event(r, e) = [r EXCEPT !.tag = "WantsFeeRange", !.psbt = s.psbt]
  BY <1>0 DEF process_event, apply_committed_inputs
<1>5. [r EXCEPT !.tag = "WantsFeeRange", !.psbt = s.psbt] = t
  BY DEF States, Matches, Move
<1> QED
  BY <1>1, <1>2, <1>3, <1>4, <1>5 DEF Replays

(* apply_fee_range: the saved PSBT context replays to the provisional proposal. *)
LEMMA ReplaysFeeRange ==
    ASSUME NEW s \in States, WellFormed(s), s.tag = "WantsFeeRange", NEW p \in Psbts
    PROVE  Replays(s, [kind |-> "AppliedFeeRange", psbt |-> p],
                   [s EXCEPT !.tag = "ProvisionalProposal", !.psbt = p, !.change = 0])
<1> DEFINE e == [kind |-> "AppliedFeeRange", psbt |-> p]
           t == [s EXCEPT !.tag = "ProvisionalProposal", !.psbt = p, !.change = 0]
<1>1. t \in States /\ t.tag = "ProvisionalProposal" /\ t.original = s.original
      /\ t.psbt = p
  BY DEF States, Tags
<1>2. WellFormed(t) /\ Rank[s.tag] < Rank[t.tag]
  BY <1>1 DEF WellFormed, PsbtTags, ChangeTags, Rank, Tags
<1>3. e \in Events
  BY DEF Events
<1>4. process_event(s, e) = t
  BY DEF process_event
<1> QED
  BY <1>1, <1>2, <1>3, <1>4 DEF Replays

(* finalize_proposal: the saved PSBT replays to the proposal that is sent. *)
LEMMA ReplaysFinalized ==
    ASSUME NEW s \in States, WellFormed(s), s.tag = "ProvisionalProposal", NEW p \in Psbts
    PROVE  Replays(s, [kind |-> "FinalizedProposal", psbt |-> p],
                   [s EXCEPT !.tag = "PayjoinProposal", !.psbt = p])
<1> DEFINE e == [kind |-> "FinalizedProposal", psbt |-> p]
           t == [s EXCEPT !.tag = "PayjoinProposal", !.psbt = p]
<1>1. t \in States /\ t.tag = "PayjoinProposal" /\ t.original = s.original
      /\ t.psbt = p
  BY DEF States, Tags
<1>2. WellFormed(t) /\ Rank[s.tag] < Rank[t.tag]
  BY <1>1 DEF WellFormed, PsbtTags, ChangeTags, Rank, Tags
<1>3. e \in Events
  BY DEF Events
<1>4. process_event(s, e) = t
  BY DEF process_event
<1> QED
  BY <1>1, <1>2, <1>3, <1>4 DEF Replays

(* cancel and the expired session: the event replays to PendingFallback. *)
LEMMA ReplaysPendingFallback ==
    ASSUME NEW s \in States, NEW r \in States, WellFormed(s), WellFormed(r),
           Matches(s, r), NEW k \in {"Cancelled", "ProtocolFailed"},
           s.tag \in FallbackTags \/ (s.tag = "HasReplyableError" /\ s.fallback)
    PROVE  Replays(r, Event(k), PendingFallback(s))
<1> DEFINE t == PendingFallback(s)
<1>0. r.tag = s.tag /\ r.fallback = s.fallback
  BY DEF Matches
<1>1. t \in States /\ t.tag = "PendingFallback" /\ t.original = s.original
  BY DEF States, Tags, PendingFallback
<1>2. WellFormed(t) /\ Rank[r.tag] < Rank[t.tag]
  BY <1>0, <1>1 DEF WellFormed, PsbtTags, ChangeTags, FallbackTags, Rank, Tags
<1>3. Event(k) \in Events /\ Event(k).kind = k
  BY DEF Event, Events
<1>4. process_event(r, Event(k)) = PendingFallback(r)
  BY <1>0 DEF process_event, Event, try_pending_fallback
<1>5. PendingFallback(r) = t
  BY DEF States, Matches, PendingFallback
<1> QED
  BY <1>1, <1>2, <1>3, <1>4, <1>5 DEF Replays

-----------------------------------------------------------------------------
(* Init and the actions *)

(* A session that does not exist yet satisfies the invariant. *)
LEMMA InitInv == Init => IInv
<1> SUFFICES ASSUME Init PROVE IInv
  OBVIOUS
<1>1. TypeOK
  <2>1. replay \in [at : Nat, st : States]
    BY InitializedType DEF Init, NoReplay
  <2>2. log \in Seq(Events) /\ trace \in Seq(States)
    BY DEF Init
  <2> QED
    BY <2>1, <2>2 DEF Init, TypeOK
<1>2. ReplayMatchesLive
  BY DEF Init, ReplayMatchesLive, NoReplay
<1> QED
  BY <1>1, <1>2 DEF Init, IInv, StatesWellFormed, Advances, SentLogged, ClosedLogged,
                    ClosedSessionsEnded

(* ReceiverBuilder::build writes the first event. *)
LEMMA BuildInv == IInv /\ build => IInv'
<1> SUFFICES ASSUME IInv, build PROVE IInv'
  OBVIOUS
<1>0. /\ log = <<>> /\ trace = <<>> /\ replay.at = 0 /\ ~is_closed /\ live = {}
      /\ sent = {}
  BY DEF IInv, TypeOK, ReplayMatchesLive, SentLogged, build
<1>1. Local
  BY DEF build
<1>2. CASE NotSaved /\ UNCHANGED is_closed /\ live' = {}
  BY <1>1, <1>2, KeepStep DEF NotSaved
<1>3. CASE /\ save_event(Event("Created"), Initialized) /\ UNCHANGED is_closed
           /\ live' \subseteq {Initialized}
  <2>0. Initialized \in States /\ WellFormed(Initialized)
    BY InitializedType
  <2>1. Event("Created") \in Events /\ Event("Created").kind = "Created"
    BY DEF Event, Events
  <2>2. log' = <<Event("Created")>> /\ trace' = <<Initialized>>
    BY <1>0, <1>3 DEF save_event
  <2>3. Len(log') = 1 /\ Len(trace') = 1 /\ log'[1] = Event("Created")
        /\ trace'[1] = Initialized
    BY <2>2
  <2>4. TypeOK'
    BY <1>1, <1>3, <2>0, <2>1, <2>2 DEF IInv, TypeOK, Local
  <2>5. ReplayMatchesLive'
    BY <1>0, <1>1, <1>3, <2>1, <2>2, <2>3 DEF ReplayMatchesLive, Local, Matches
  <2>6. StatesWellFormed' /\ Advances'
    BY <1>3, <2>0, <2>3 DEF StatesWellFormed, Advances
  <2>7. SentLogged'
    BY <1>0, <1>1 DEF SentLogged, Local
  <2>8. ClosedLogged' /\ ClosedSessionsEnded'
    BY <1>0, <1>3, <2>1, <2>3 DEF ClosedLogged, ClosedSessionsEnded, Initialized
  <2> QED
    BY <2>4, <2>5, <2>6, <2>7, <2>8 DEF IInv
<1> QED
  BY <1>2, <1>3 DEF build, SaveThen, SaveError

(* A request is made from a handle, whose state is the last one logged. *)
LEMMA CreateRequestInv ==
    ASSUME IInv, NEW s \in live, create_request(s)
    PROVE  IInv'
<1>0. /\ s \in States /\ WellFormed(s) /\ log # <<>> /\ s = trace[Len(log)]
      /\ UNCHANGED <<log, is_closed, live, trace, replay, expired, mempool>>
      /\ s.tag \in {"Initialized", "PayjoinProposal", "HasReplyableError"}
  BY HandleFacts DEF create_request
<1>1. Len(log) \in 1..Len(trace)
  BY <1>0 DEF IInv, TypeOK, ReplayMatchesLive
<1>2. sent' = sent \/ (sent' = sent \cup {Message(s)} /\ s.tag # "Initialized")
  BY DEF create_request
<1>3. s.tag # "Initialized" =>
         Message(s) \in [kind : {"PayjoinProposal", "HasReplyableError"},
                        psbt : Psbts \cup {NoPsbt}, method : {"PUT", "POST"},
                        mailbox : {"reply", "own"}]
  BY <1>0 DEF Message, States
<1>4. request' \in {"None", "Initialized", "PayjoinProposal", "HasReplyableError"}
  BY DEF create_request
<1>5. TypeOK'
  BY <1>0, <1>2, <1>3, <1>4 DEF IInv, TypeOK
<1>6. SentLogged'
  <2> SUFFICES ASSUME NEW m \in sent'
               PROVE  \E i \in 1..Len(trace) :
                         /\ trace[i].tag \in {"PayjoinProposal", "HasReplyableError"}
                         /\ m = Message(trace[i])
    BY <1>0 DEF SentLogged, Message
  <2>1. CASE m \in sent
    BY <2>1 DEF IInv, SentLogged
  <2>2. CASE m = Message(s) /\ s.tag # "Initialized"
    BY <1>0, <1>1, <2>2
  <2> QED
    BY <1>2, <2>1, <2>2
<1>7. ClosedSessionsEnded'
  BY <1>0 DEF IInv, ClosedSessionsEnded, LastKind
<1>8. \A t \in live' : WellFormed(t) /\ log # <<>> /\ Matches(t, trace[Len(log)])
  BY <1>0, HandleFacts
<1>9. replay'.at > 0 => replay'.at <= Len(log) /\ replay'.st = trace[replay'.at]
  BY <1>0 DEF IInv, ReplayMatchesLive
<1> QED
  BY <1>0, <1>5, <1>6, <1>7, <1>8, <1>9, SameLog

(* Every transition of a handle: the events it saves are those that replay. *)
LEMMA TransitionInv ==
    ASSUME IInv, NEW s \in live, Transition(s)
    PROVE  IInv'
<1> DEFINE r == trace[Len(log)]
<1>0. /\ s \in States /\ WellFormed(s) /\ log # <<>>
      /\ r \in States /\ WellFormed(r) /\ Matches(s, r) /\ s.tag = r.tag
      /\ s.tag \notin {"WantsOutputs", "WantsInputs"} => s = r
  BY HandleFacts
<1>a. ASSUME NEW b \in BOOLEAN, ReplyableError(s, b), Local,
             s.tag \in (IF b THEN {"MaybeInputsOwned", "MaybeInputsSeen", "OutputsUnknown"}
                       ELSE {"UncheckedOriginalPayload"})
      PROVE  IInv'
  <2>1. s = r
    BY <1>0, <1>a
  <2>2. Replays(r, Event("GotReplyableError"), HasReplyableError(s, b))
    BY <1>0, <1>a, <2>1, ReplaysError
  <2> QED
    BY <1>0, <1>a, <2>2, SaveThenStep DEF ReplyableError
<1>b. ASSUME NEW k \in {"Cancelled", "ProtocolFailed"}, Local,
             SaveThen(Event(k), PendingFallback(s)),
             s.tag \in FallbackTags \/ (s.tag = "HasReplyableError" /\ s.fallback)
      PROVE  IInv'
  <2>1. Replays(r, Event(k), PendingFallback(s))
    BY <1>0, <1>b, ReplaysPendingFallback
  <2> QED
    BY <1>0, <1>b, <2>1, SaveThenStep
<1>c. ASSUME NEW o \in Outcomes, Local, Close(o), s.tag # "Closed"
      PROVE  IInv'
  BY <1>0, <1>c, CloseStep DEF WellFormed
<1>d. ASSUME NEW t \in States, KeepState(t), Local, WellFormed(t), Matches(t, r)
      PROVE  IInv'
  BY <1>0, <1>d, KeepStep DEF KeepState
<1>e. ASSUME DropHandle, Local PROVE IInv'
  BY <1>e, KeepStep DEF DropHandle
<1>f. ASSUME NEW k \in {"Cancelled", "ProtocolFailed"}, Local, EndReplyableError(s, k),
             s.tag = "HasReplyableError"
      PROVE  IInv'
  BY <1>b, <1>c, <1>f DEF EndReplyableError, Outcomes
<1>1. CASE create_request(s)
  BY <1>1, CreateRequestInv
<1>2. CASE transient(s)
  BY <1>0, <1>2, <1>d DEF transient
<1>3. CASE cancel(s)
  <2>1. CASE s.tag \in {"Initialized", "UncheckedOriginalPayload"} /\ Close("Aborted")
    BY <1>3, <2>1, <1>c DEF cancel, Outcomes
  <2>2. CASE s.tag \in FallbackTags /\ SaveThen(Event("Cancelled"), PendingFallback(s))
    BY <1>3, <2>2, <1>b DEF cancel
  <2>3. CASE s.tag = "HasReplyableError" /\ EndReplyableError(s, "Cancelled")
    BY <1>3, <2>3, <1>f DEF cancel
  <2> QED
    BY <1>3, <2>1, <2>2, <2>3 DEF cancel
<1>4. CASE close(s)
  BY <1>4, <1>c DEF close, On, Outcomes
<1>5. CASE process_poll_response(s)
  <2>0. Local /\ s.tag = "Initialized" /\ s = r
    BY <1>0, <1>5 DEF process_poll_response, On
  <2>1. CASE KeepState(s)
    BY <1>0, <2>0, <2>1, <1>d
  <2>2. CASE Close("Aborted")
    BY <2>0, <2>2, <1>c DEF Outcomes
  <2>3. ASSUME NEW p \in Payloads,
               SaveThen([kind |-> "RetrievedOriginalPayload", original |-> p],
                        [s EXCEPT !.tag = "UncheckedOriginalPayload", !.original = p])
        PROVE  IInv'
    <3>1. Replays(r, [kind |-> "RetrievedOriginalPayload", original |-> p],
                  [s EXCEPT !.tag = "UncheckedOriginalPayload", !.original = p])
      BY <1>0, <2>0, ReplaysRetrieved
    <3> QED
      BY <1>0, <2>0, <2>3, <3>1, SaveThenStep
  <2> QED
    BY <1>5, <2>1, <2>2, <2>3 DEF process_poll_response
<1>6. CASE check_broadcast_suitability(s)
  <2>0. Local /\ s.tag = "UncheckedOriginalPayload" /\ s = r
    BY <1>0, <1>6 DEF check_broadcast_suitability, On
  <2>1. CASE SaveThen(Event("CheckedBroadcastSuitability"),
                      [s EXCEPT !.tag = "MaybeInputsOwned", !.fallback = TRUE])
    <3>1. Replays(r, Event("CheckedBroadcastSuitability"),
                  [s EXCEPT !.tag = "MaybeInputsOwned", !.fallback = TRUE])
      BY <1>0, <2>0, ReplaysBroadcastSuitability
    <3> QED
      BY <1>0, <2>0, <2>1, <3>1, SaveThenStep
  <2>2. CASE ReplyableError(s, FALSE)
    BY <2>0, <2>2, <1>a
  <2> QED
    BY <1>6, <2>1, <2>2 DEF check_broadcast_suitability
<1>7. CASE check_inputs_not_owned(s)
  <2>0. Local /\ s.tag = "MaybeInputsOwned" /\ s = r
    BY <1>0, <1>7 DEF check_inputs_not_owned, On
  <2>1. CASE SaveThen(Event("CheckedInputsNotOwned"), Move(s, "MaybeInputsSeen"))
    <3>1. Replays(r, Event("CheckedInputsNotOwned"), Move(s, "MaybeInputsSeen"))
      BY <1>0, <2>0, ReplaysChecks
    <3> QED
      BY <1>0, <2>0, <2>1, <3>1, SaveThenStep
  <2>2. CASE ReplyableError(s, TRUE)
    BY <2>0, <2>2, <1>a
  <2> QED
    BY <1>7, <2>1, <2>2 DEF check_inputs_not_owned
<1>8. CASE check_no_inputs_seen_before(s)
  <2>0. Local /\ s.tag = "MaybeInputsSeen" /\ s = r
    BY <1>0, <1>8 DEF check_no_inputs_seen_before, On
  <2>1. CASE SaveThen(Event("CheckedNoInputsSeenBefore"), Move(s, "OutputsUnknown"))
    <3>1. Replays(r, Event("CheckedNoInputsSeenBefore"), Move(s, "OutputsUnknown"))
      BY <1>0, <2>0, ReplaysChecks
    <3> QED
      BY <1>0, <2>0, <2>1, <3>1, SaveThenStep
  <2>2. CASE ReplyableError(s, TRUE)
    BY <2>0, <2>2, <1>a
  <2> QED
    BY <1>8, <2>1, <2>2 DEF check_no_inputs_seen_before
<1>9. CASE identify_receiver_outputs(s)
  <2>0. Local /\ s.tag = "OutputsUnknown" /\ s = r
    BY <1>0, <1>9 DEF identify_receiver_outputs, On
  <2>1. ASSUME NEW v \in 0..(OutputCount[s.original] - 1),
               SaveThen([kind |-> "IdentifiedReceiverOutputs", change |-> v],
                        [s EXCEPT !.tag = "WantsOutputs", !.psbt = s.original, !.change = v])
        PROVE  IInv'
    <3>1. Replays(r, [kind |-> "IdentifiedReceiverOutputs", change |-> v],
                  [s EXCEPT !.tag = "WantsOutputs", !.psbt = s.original, !.change = v])
      BY <1>0, <2>0, ReplaysIdentified
    <3> QED
      BY <1>0, <2>0, <2>1, <3>1, SaveThenStep
  <2>2. CASE ReplyableError(s, TRUE)
    BY <2>0, <2>2, <1>a
  <2> QED
    BY <1>9, <2>1, <2>2 DEF identify_receiver_outputs
<1>10. CASE replace_receiver_outputs(s)
  <2>0. Local /\ s.tag = "WantsOutputs"
    BY <1>10 DEF replace_receiver_outputs, On
  <2>1. ASSUME NEW p \in Proposals \cup {s.original}, NEW v \in 0..(OutputCount[p] - 1),
               KeepState([s EXCEPT !.psbt = p, !.change = v])
        PROVE  IInv'
    <3> DEFINE t == [s EXCEPT !.psbt = p, !.change = v]
    <3>1. p \in Psbts /\ OutputCount[p] \in Nat /\ v \in Nat /\ v < OutputCount[p]
      BY <1>0, <2>0, OutputCountType DEF WellFormed, Psbts
    <3>2. /\ t \in States /\ t.tag = s.tag /\ t.original = s.original
          /\ t.fallback = s.fallback /\ t.outcome = s.outcome
          /\ t.psbt = p /\ t.change = v
      BY <1>0, <3>1 DEF States
    <3>3. WellFormed(t) /\ Matches(t, r)
      BY <1>0, <2>0, <3>1, <3>2 DEF WellFormed, Matches
    <3> QED
      BY <2>0, <2>1, <3>2, <3>3, <1>d
  <2> QED
    BY <1>10, <2>0, <2>1, <1>e DEF replace_receiver_outputs
<1>11. CASE commit_outputs(s)
  <2>1. Replays(r, [kind |-> "CommittedOutputs", psbt |-> s.psbt, change |-> s.change],
                Move(s, "WantsInputs"))
    BY <1>0, <1>11, ReplaysCommittedOutputs DEF commit_outputs, On
  <2> QED
    BY <1>0, <1>11, <2>1, SaveThenStep DEF commit_outputs
<1>12. CASE contribute_inputs(s)
  <2>0. Local /\ s.tag = "WantsInputs"
    BY <1>12 DEF contribute_inputs, On
  <2>1. ASSUME NEW p \in Reworked(s.psbt), KeepState([s EXCEPT !.psbt = p])
        PROVE  IInv'
    <3> DEFINE t == [s EXCEPT !.psbt = p]
    <3>1. p \in Psbts /\ OutputCount[p] = OutputCount[s.psbt]
      BY <1>0, <2>0 DEF WellFormed, PsbtTags, Psbts, Reworked
    <3>2. /\ t \in States /\ t.tag = s.tag /\ t.original = s.original
          /\ t.fallback = s.fallback /\ t.outcome = s.outcome
          /\ t.psbt = p /\ t.change = s.change
      BY <1>0, <3>1 DEF States
    <3>3. WellFormed(t) /\ Matches(t, r)
      BY <1>0, <2>0, <3>1, <3>2 DEF WellFormed, Matches, ChangeTags
    <3> QED
      BY <2>0, <2>1, <3>2, <3>3, <1>d
  <2> QED
    BY <1>12, <2>0, <2>1, <1>e DEF contribute_inputs
<1>13. CASE commit_inputs(s)
  <2>1. Replays(r, [kind |-> "CommittedInputs", psbt |-> s.psbt], Move(s, "WantsFeeRange"))
    BY <1>0, <1>13, ReplaysCommittedInputs DEF commit_inputs, On
  <2> QED
    BY <1>0, <1>13, <2>1, SaveThenStep DEF commit_inputs
<1>14. CASE apply_fee_range(s)
  <2>0. Local /\ s.tag = "WantsFeeRange" /\ s = r
    BY <1>0, <1>14 DEF apply_fee_range, On
  <2>1. PICK p \in Reworked(s.psbt) :
           SaveThen([kind |-> "AppliedFeeRange", psbt |-> p],
                    [s EXCEPT !.tag = "ProvisionalProposal", !.psbt = p, !.change = 0])
    BY <1>14 DEF apply_fee_range
  <2>2. p \in Psbts
    BY <1>0, <2>0 DEF WellFormed, PsbtTags, Psbts, Reworked
  <2>3. Replays(r, [kind |-> "AppliedFeeRange", psbt |-> p],
                [s EXCEPT !.tag = "ProvisionalProposal", !.psbt = p, !.change = 0])
    BY <1>0, <2>0, <2>2, ReplaysFeeRange
  <2> QED
    BY <1>0, <2>0, <2>1, <2>3, SaveThenStep
<1>15. CASE finalize_proposal(s)
  <2>0. Local /\ s.tag = "ProvisionalProposal" /\ s = r
    BY <1>0, <1>15 DEF finalize_proposal, On
  <2>1. PICK p \in Reworked(s.psbt) :
           SaveThen([kind |-> "FinalizedProposal", psbt |-> p],
                    [s EXCEPT !.tag = "PayjoinProposal", !.psbt = p])
    BY <1>15 DEF finalize_proposal
  <2>2. p \in Psbts
    BY <1>0, <2>0 DEF WellFormed, PsbtTags, Psbts, Reworked
  <2>3. Replays(r, [kind |-> "FinalizedProposal", psbt |-> p],
                [s EXCEPT !.tag = "PayjoinProposal", !.psbt = p])
    BY <1>0, <2>0, <2>2, ReplaysFinalized
  <2> QED
    BY <1>0, <2>0, <2>1, <2>3, SaveThenStep
<1>16. CASE process_post_response(s)
  <2>0. Local /\ s.tag = "PayjoinProposal" /\ s = r
    BY <1>0, <1>16 DEF process_post_response, On
  <2>1. CASE SaveThen(Event("PostedPayjoinProposal"), Move(s, "Monitor"))
    <3>1. Replays(r, Event("PostedPayjoinProposal"), Move(s, "Monitor"))
      BY <1>0, <2>0, ReplaysChecks
    <3> QED
      BY <1>0, <2>0, <2>1, <3>1, SaveThenStep
  <2>2. CASE SaveThen(Event("ProtocolFailed"), PendingFallback(s))
    BY <2>0, <2>2, <1>b DEF FallbackTags
  <2> QED
    BY <1>16, <2>1, <2>2 DEF process_post_response
<1>17. CASE process_error_response(s)
  BY <1>17, <1>f DEF process_error_response, On
<1>18. CASE check_for_transaction(s)
  BY <1>18, <1>c DEF check_for_transaction, On, Outcomes
<1> QED
  BY <1>1, <1>2, <1>3, <1>4, <1>5, <1>6, <1>7, <1>8, <1>9, <1>10, <1>11, <1>12,
     <1>13, <1>14, <1>15, <1>16, <1>17, <1>18 DEF Transition

(* Replay rebuilds the history, state by state. *)
LEMMA ReplayInv ==
    ASSUME IInv, start_replay \/ replay_event \/ construct_history
    PROVE  IInv'
<1>0. /\ log \in Seq(Events) /\ trace \in Seq(States) /\ Len(trace) = Len(log)
      /\ replay \in [at : Nat, st : States] /\ Len(log) \in Nat
      /\ NoReplay \in [at : Nat, st : States] /\ NoReplay.at = 0
  BY InitializedType DEF IInv, TypeOK, ReplayMatchesLive, NoReplay
<1>1. UNCHANGED <<log, trace, expired, request, sent, mempool>>
  BY DEF start_replay, replay_event, construct_history, ReplayError
<1>2. SentLogged'
  BY <1>1 DEF IInv, SentLogged
<1>3. \A t \in live : WellFormed(t) /\ log # <<>> /\ Matches(t, trace[Len(log)])
  BY HandleFacts
<1>4. CASE start_replay
  <2>1. CASE log = <<>>
    <3>1. ReplayError
      BY <1>4, <2>1 DEF start_replay
    <3>2. ClosedSessionsEnded'
      BY <1>1, <2>1 DEF ClosedSessionsEnded, LastKind
    <3>3. TypeOK'
      BY <1>0, <1>1, <3>1 DEF IInv, TypeOK, ReplayError
    <3> QED
      BY <1>0, <1>1, <1>2, <1>3, <3>1, <3>2, <3>3, SameLog DEF ReplayError
  <2>2. CASE log # <<>>
    <3>1. log[1].kind = "Created" /\ trace[1] = Initialized
      BY <2>2 DEF IInv, ReplayMatchesLive
    <3>2. replay' = [at |-> 1, st |-> Initialized] /\ UNCHANGED <<is_closed, live>>
      BY <1>4, <2>2, <3>1 DEF start_replay
    <3>3. replay'.at <= Len(log) /\ replay'.st = trace[replay'.at]
      BY <1>0, <2>2, <3>1, <3>2
    <3>4. TypeOK'
      BY <1>0, <1>1, <3>2, InitializedType DEF IInv, TypeOK
    <3>5. ClosedSessionsEnded'
      BY <1>1, <3>2 DEF IInv, ClosedSessionsEnded, LastKind
    <3> QED
      BY <1>1, <1>2, <1>3, <3>2, <3>3, <3>4, <3>5, SameLog
  <2> QED
    BY <2>1, <2>2
<1>5. CASE replay_event
  <2> DEFINE n == replay.at
  <2>1. n \in 1..(Len(log) - 1) /\ n + 1 \in 1..Len(trace) /\ n \in Nat
    BY <1>0, <1>5 DEF replay_event
  <2>2. replay.st = trace[n]
    BY <1>0, <2>1 DEF IInv, ReplayMatchesLive
  <2>3. process_event(trace[n], log[n + 1]) = trace[n + 1]
    BY <2>1 DEF IInv, ReplayMatchesLive
  <2>4. trace[n + 1] \in States /\ trace[n + 1].tag # "Invalid"
    BY <1>0, <2>1 DEF IInv, StatesWellFormed, WellFormed
  <2>5. replay' = [at |-> n + 1, st |-> trace[n + 1]] /\ UNCHANGED <<is_closed, live>>
    BY <1>5, <2>2, <2>3, <2>4 DEF replay_event
  <2>6. replay'.at <= Len(log) /\ replay'.st = trace[replay'.at]
    BY <1>0, <2>1, <2>5
  <2>7. TypeOK'
    BY <1>0, <1>1, <2>1, <2>4, <2>5 DEF IInv, TypeOK
  <2>8. ClosedSessionsEnded'
    BY <1>1, <2>5 DEF IInv, ClosedSessionsEnded, LastKind
  <2> QED
    BY <1>1, <1>2, <1>3, <2>5, <2>6, <2>7, <2>8, SameLog
<1>6. CASE construct_history
  <2>1. /\ replay.at > 0 /\ replay.at = Len(log) /\ replay' = NoReplay
        /\ live' \subseteq {replay.st} /\ UNCHANGED is_closed
    BY <1>6 DEF construct_history
  <2>2. replay.st = trace[Len(log)] /\ log # <<>> /\ Len(log) \in 1..Len(trace)
    BY <1>0, <2>1 DEF IInv, ReplayMatchesLive
  <2>3. trace[Len(log)] \in States /\ WellFormed(trace[Len(log)])
    BY <1>0, <2>2 DEF IInv, StatesWellFormed
  <2>4. \A t \in live' : WellFormed(t) /\ log # <<>> /\ Matches(t, trace[Len(log)])
    BY <2>1, <2>2, <2>3 DEF Matches
  <2>5. TypeOK'
    BY <1>0, <1>1, <2>1, <2>2, <2>3 DEF IInv, TypeOK
  <2>6. ClosedSessionsEnded'
    BY <1>1, <2>1 DEF IInv, ClosedSessionsEnded, LastKind
  <2> QED
    BY <1>0, <1>1, <1>2, <2>1, <2>4, <2>5, <2>6, SameLog
<1> QED
  BY <1>4, <1>5, <1>6

(* Crashes, lost answers, the clock and the wallet leave the log alone. *)
LEMMA EnvironmentInv ==
    ASSUME IInv, LoseResponse \/ Crash \/ Expire \/ Broadcast
    PROVE  IInv'
<1>0. /\ UNCHANGED <<log, trace, is_closed, sent>>
      /\ live' = live \/ live' = {}
      /\ replay' = replay \/ replay' = NoReplay
      /\ expired' \in {expired, TRUE} /\ request' \in {request, "None"}
  BY DEF LoseResponse, Crash, DropHandle, Expire, Broadcast
<1>1. mempool' \in Psbts \cup {NoPsbt, Fallback}
  <2>1. CASE Broadcast
    BY <2>1 DEF IInv, TypeOK, Broadcast
  <2>2. CASE UNCHANGED mempool
    BY <2>2 DEF IInv, TypeOK
  <2> QED
    BY <2>1, <2>2 DEF LoseResponse, Crash, Expire
<1>2. NoReplay \in [at : Nat, st : States] /\ NoReplay.at = 0
  BY InitializedType DEF NoReplay
<1>3. TypeOK'
  BY <1>0, <1>1, <1>2 DEF IInv, TypeOK
<1>4. SentLogged' /\ ClosedSessionsEnded'
  BY <1>0 DEF IInv, SentLogged, ClosedSessionsEnded, LastKind
<1>5. \A t \in live' : WellFormed(t) /\ log # <<>> /\ Matches(t, trace[Len(log)])
  BY <1>0, HandleFacts
<1>6. replay'.at > 0 => replay'.at <= Len(log) /\ replay'.st = trace[replay'.at]
  BY <1>0, <1>2 DEF IInv, ReplayMatchesLive
<1> QED
  BY <1>0, <1>3, <1>4, <1>5, <1>6, SameLog

(* Every step keeps the invariant. *)
LEMMA NextInv == IInv /\ [Next]_vars => IInv'
<1> SUFFICES ASSUME IInv, [Next]_vars PROVE IInv'
  OBVIOUS
<1>1. CASE build
  BY <1>1, BuildInv
<1>2. ASSUME NEW s \in live, Transition(s) PROVE IInv'
  BY <1>2, TransitionInv
<1>3. CASE start_replay \/ replay_event \/ construct_history
  BY <1>3, ReplayInv
<1>4. CASE LoseResponse \/ Crash \/ Expire \/ Broadcast
  BY <1>4, EnvironmentInv
<1>5. CASE UNCHANGED vars
  <2>1. TypeOK' /\ SentLogged' /\ ClosedSessionsEnded'
    BY <1>5 DEF vars, IInv, TypeOK, SentLogged, ClosedSessionsEnded, LastKind
  <2>2. \A t \in live' : WellFormed(t) /\ log # <<>> /\ Matches(t, trace[Len(log)])
    BY <1>5, HandleFacts DEF vars
  <2>3. replay'.at > 0 => replay'.at <= Len(log) /\ replay'.st = trace[replay'.at]
    BY <1>5 DEF vars, IInv, ReplayMatchesLive
  <2> QED
    BY <1>5, <2>1, <2>2, <2>3, SameLog DEF vars
<1> QED
  BY <1>1, <1>2, <1>3, <1>4, <1>5 DEF Next

-----------------------------------------------------------------------------
(* The theorems *)

(* The inductive invariant holds throughout. *)
LEMMA Invariance == Spec => []IInv
<1>1. Init => IInv
  BY InitInv
<1>2. IInv /\ [Next]_vars => IInv'
  BY NextInv
<1> QED
  BY <1>1, <1>2, PTL DEF Spec

(* Type correctness; in particular no operation leaves a session with two     *)
(* handles.                                                                   *)
THEOREM TypeCorrect == Spec => []TypeOK
<1>1. IInv => TypeOK
  BY DEF IInv
<1> QED
  BY <1>1, Invariance, PTL

(* Replaying the log reconstructs the state the live transitions returned,    *)
(* whatever crashes, storage errors and retries produced it                   *)
(* (ReceiveSession::process_event against the transitions of Receiver<S>).    *)
THEOREM ReplayCorrect == Spec => []ReplayMatchesLive
<1>1. IInv => ReplayMatchesLive
  BY DEF IInv
<1> QED
  BY <1>1, Invariance, PTL

(* What was sent is the message of the one state that replies. *)
LEMMA OneMessage == IInv => NeverEquivocates
<1> SUFFICES ASSUME IInv, NEW m \in sent, NEW n \in sent PROVE m = n
  BY DEF NeverEquivocates
<1>1. PICK i \in 1..Len(trace) :
         /\ trace[i].tag \in {"PayjoinProposal", "HasReplyableError"}
         /\ m = Message(trace[i])
  BY DEF IInv, SentLogged
<1>2. PICK j \in 1..Len(trace) :
         /\ trace[j].tag \in {"PayjoinProposal", "HasReplyableError"}
         /\ n = Message(trace[j])
  BY DEF IInv, SentLogged
<1>3. Rank[trace[i].tag] = 9 /\ Rank[trace[j].tag] = 9
  BY <1>1, <1>2 DEF Rank, Tags
<1>4. ~(i < j) /\ ~(j < i)
  BY <1>3 DEF IInv, Advances
<1>5. i = j
  BY <1>4
<1> QED
  BY <1>1, <1>2, <1>5

(* A session never sends two different messages: the events only move         *)
(* forward, and the one state that replies was saved before it could reply    *)
(* (finalize_proposal, create_post_request, create_error_request).            *)
THEOREM NoEquivocation == Spec => []NeverEquivocates
BY OneMessage, Invariance, PTL

(* A session is marked closed only when its log ends it or is empty: replay   *)
(* never closes a session whose log is in use (replay_event_log).             *)
THEOREM ClosedEnded == Spec => []ClosedSessionsEnded
<1>1. IInv => ClosedSessionsEnded
  BY DEF IInv
<1> QED
  BY <1>1, Invariance, PTL

(* What a step may do to the log: append one event to a session that has not  *)
(* ended.                                                                     *)
LEMMA Appends ==
    ASSUME IInv, [Next]_vars
    PROVE  \/ log' = log
           \/ (\E e : log' = Append(log, e)) /\ ~is_closed /\ LastKind # "Closed"
<1>0. log \in Seq(Events) /\ Len(log) \in Nat
  BY DEF IInv, TypeOK
<1>1. CASE build
  BY <1>1 DEF build, SaveThen, SaveError, save_event, NotSaved, LastKind
<1>2. ASSUME NEW s \in live, Transition(s)
      PROVE  \/ log' = log
             \/ (\E e : log' = Append(log, e)) /\ ~is_closed /\ LastKind # "Closed"
  <2> USE DEF SaveThen, SaveAndClose, SaveError, save_event, NotSaved, KeepState, Close,
              DropHandle, EndReplyableError, ReplyableError
  <2>1. log' = log \/ \E e : log' = Append(log, e)
    <3>1. CASE create_request(s) \/ transient(s) \/ cancel(s) \/ close(s)
      BY <3>1 DEF create_request, transient, cancel, close
    <3>2. CASE \/ process_poll_response(s) \/ check_broadcast_suitability(s)
               \/ check_inputs_not_owned(s) \/ check_no_inputs_seen_before(s)
               \/ identify_receiver_outputs(s)
      BY <3>2 DEF process_poll_response, check_broadcast_suitability,
                  check_inputs_not_owned, check_no_inputs_seen_before,
                  identify_receiver_outputs
    <3>3. CASE \/ replace_receiver_outputs(s) \/ commit_outputs(s)
               \/ contribute_inputs(s) \/ commit_inputs(s)
               \/ apply_fee_range(s) \/ finalize_proposal(s)
      BY <3>3 DEF replace_receiver_outputs, commit_outputs, contribute_inputs,
                  commit_inputs, apply_fee_range, finalize_proposal
    <3>4. CASE \/ process_post_response(s) \/ process_error_response(s)
               \/ check_for_transaction(s)
      BY <3>4 DEF process_post_response, process_error_response, check_for_transaction
    <3> QED
      BY <1>2, <3>1, <3>2, <3>3, <3>4 DEF Transition
  <2>2. s.tag # "Closed"
    BY <1>2 DEF IInv, TypeOK, Transition, On, create_request, transient, cancel, close,
                process_poll_response, check_broadcast_suitability,
                check_inputs_not_owned, check_no_inputs_seen_before,
                identify_receiver_outputs, replace_receiver_outputs, commit_outputs,
                contribute_inputs, commit_inputs, apply_fee_range, finalize_proposal,
                process_post_response, process_error_response, check_for_transaction,
                FallbackTags
  <2>3. log # <<>> /\ trace[Len(log)].tag # "Closed"
    BY <2>2, HandleFacts
  <2>4. Len(log) \in 1..Len(log) /\ log[Len(log)] \in Events
    BY <1>0, <2>3
  <2>5. LastKind = log[Len(log)].kind /\ LastKind \notin {"Closed", "None"}
    BY <2>3, <2>4 DEF LastKind, IInv, ClosedLogged, Events
  <2>6. ~is_closed
    BY <2>5 DEF IInv, ClosedSessionsEnded
  <2> QED
    BY <2>1, <2>5, <2>6
<1>3. CASE start_replay \/ replay_event \/ construct_history
  BY <1>3 DEF start_replay, replay_event, construct_history, ReplayError
<1>4. CASE LoseResponse \/ Crash \/ Expire \/ Broadcast
  BY <1>4 DEF LoseResponse, Crash, DropHandle, Expire, Broadcast
<1>5. CASE UNCHANGED vars
  BY <1>5 DEF vars
<1> QED
  BY <1>1, <1>2, <1>3, <1>4, <1>5 DEF Next

(* The log only grows, and nothing is appended to a session that was closed   *)
(* or whose outcome is logged (SessionPersister::close: "no more events will  *)
(* be appended").                                                             *)
THEOREM LogFinal == Spec => ClosedIsFinal
<1>1. IInv /\ [Next]_vars =>
         [/\ \A i \in 1..Len(log) : i \in 1..Len(log') /\ log'[i] = log[i]
          /\ (is_closed \/ LastKind = "Closed") => log' = log]_vars
  <2> SUFFICES ASSUME IInv, [Next]_vars
               PROVE  /\ \A i \in 1..Len(log) : i \in 1..Len(log') /\ log'[i] = log[i]
                      /\ (is_closed \/ LastKind = "Closed") => log' = log
    OBVIOUS
  <2>0. log \in Seq(Events)
    BY DEF IInv, TypeOK
  <2>1. CASE log' = log
    BY <2>1
  <2>2. CASE (\E e : log' = Append(log, e)) /\ ~is_closed /\ LastKind # "Closed"
    BY <2>0, <2>2
  <2> QED
    BY <2>1, <2>2, Appends
<1> QED
  BY <1>1, Invariance, PTL DEF Spec, ClosedIsFinal
-----------------------------------------------------------------------------
(***************************************************************************)
(* What can be read off the log (SessionHistory::status and fallback_tx),  *)
(* and the refinement of ReceiverContract.                                 *)
(*                                                                         *)
(* HInv relates each state of the history to the events before it, and     *)
(* what was sent to the requests made.  It is inductive relative to IInv,  *)
(* which is where the work per transition is.                              *)
(***************************************************************************)

(* A session holds a fallback from check_broadcast_suitability on. *)
FallbackHeld ==
    \A i \in 1..Len(trace) :
        /\ trace[i].tag \in {"Initialized", "UncheckedOriginalPayload"} => ~trace[i].fallback
        /\ trace[i].tag \in FallbackTags \cup {"PendingFallback"} => trace[i].fallback

(* Up to the end of the session, that is the event its fallback comes from. *)
FallbackLogged ==
    \A i \in 1..Len(trace) : trace[i].tag # "Closed" =>
        (trace[i].fallback <=> \E j \in 1..i : log[j].kind = "CheckedBroadcastSuitability")

(* The Original PSBT a state holds is the one that was retrieved. *)
OriginalLogged ==
    \A i \in 1..Len(trace) : trace[i].tag \notin {"Initialized", "Closed"} =>
        \E j \in 1..i : /\ log[j].kind = "RetrievedOriginalPayload"
                        /\ log[j].original = trace[i].original

(* A response to a post is awaited only for a proposal that was sent. *)
PostRequested ==
    request = "PayjoinProposal" =>
        \E i \in 1..Len(trace) : /\ trace[i].tag = "PayjoinProposal"
                                 /\ Message(trace[i]) \in sent

(* A session monitors only a proposal that was sent. *)
MonitoredSent ==
    \A i \in 1..Len(trace) : trace[i].tag = "Monitor" =>
        \E m \in sent : m.kind = "PayjoinProposal" /\ m.psbt = trace[i].psbt

(* The history invariant. *)
HInv ==
    /\ FallbackHeld
    /\ FallbackLogged
    /\ OriginalLogged
    /\ PostRequested
    /\ MonitoredSent

-----------------------------------------------------------------------------
(* What an event says about the states on its two sides *)

(* What an event that moves the session from r to t does to its data. *)
Effect(r, e, t) ==
    /\ e.kind = "Closed" <=> t.tag = "Closed"
    /\ e.kind = "Closed" => t = Closed(e.outcome)
    /\ e.kind \in {"Cancelled", "ProtocolFailed"} <=> t.tag = "PendingFallback"
    /\ e.kind = "RetrievedOriginalPayload" <=> t.tag = "UncheckedOriginalPayload"
    /\ e.kind = "RetrievedOriginalPayload" => t.original = e.original
    /\ e.kind \notin {"RetrievedOriginalPayload", "Closed"} => t.original = r.original
    /\ e.kind = "PostedPayjoinProposal" <=> t.tag = "Monitor"
    /\ e.kind = "PostedPayjoinProposal" => r.tag = "PayjoinProposal" /\ t.psbt = r.psbt
    /\ e.kind = "CheckedBroadcastSuitability" => t.fallback = TRUE
    /\ e.kind = "GotReplyableError" =>
          (t.fallback = (r.tag \notin {"Initialized", "UncheckedOriginalPayload"}))
    /\ e.kind \notin {"Closed", "CheckedBroadcastSuitability", "GotReplyableError"} =>
          t.fallback = r.fallback
    /\ t.tag \in FallbackTags => \/ r.tag \in FallbackTags
                                 \/ e.kind = "CheckedBroadcastSuitability"
    /\ t.tag = "PendingFallback" => \/ r.tag \in FallbackTags
                                    \/ r.tag = "HasReplyableError" /\ r.fallback
    /\ t.tag = "UncheckedOriginalPayload" => r.tag = "Initialized"
    /\ t.tag # "Initialized"
    /\ t.tag \notin {"UncheckedOriginalPayload", "Closed", "HasReplyableError"} =>
          r.tag # "Initialized"
    /\ e.kind = "GotReplyableError" <=> t.tag = "HasReplyableError"
    /\ t.tag = "HasReplyableError" => r.tag \notin {"HasReplyableError", "Closed"}

(* process_event has no other effect. *)
LEMMA EventEffect ==
    ASSUME NEW r \in States, NEW e \in Events, NEW t \in States,
           process_event(r, e) = t, t.tag # "Invalid", Rank[r.tag] < Rank[t.tag]
    PROVE  Effect(r, e, t)
<1> USE DEF Effect
<1>0. e.kind \in {"Created", "RetrievedOriginalPayload", "CheckedBroadcastSuitability",
                  "CheckedInputsNotOwned", "CheckedNoInputsSeenBefore",
                  "IdentifiedReceiverOutputs", "CommittedOutputs", "CommittedInputs",
                  "AppliedFeeRange", "FinalizedProposal", "PostedPayjoinProposal",
                  "GotReplyableError", "Cancelled", "ProtocolFailed", "Closed"}
  BY DEF Events
<1>1. CASE e.kind = "Closed"
  BY <1>1 DEF process_event, Closed, Initialized, FallbackTags
<1>2. CASE e.kind \in {"Cancelled", "ProtocolFailed"}
  <2>1. process_event(r, e) = try_pending_fallback(r)
    BY <1>2 DEF process_event
  <2>2. /\ t = PendingFallback(r)
        /\ r.tag \in FallbackTags \/ (r.tag = "HasReplyableError" /\ r.fallback)
    BY <2>1 DEF try_pending_fallback, InvalidEvent, Initialized
  <2>3. /\ t.tag = "PendingFallback" /\ t.original = r.original
        /\ t.fallback = r.fallback
    BY <2>2 DEF PendingFallback, States
  <2> QED
    BY <1>2, <2>2, <2>3 DEF FallbackTags
<1>3. CASE e.kind = "GotReplyableError"
  <2>1. r.tag # "Closed" /\ r.tag # "HasReplyableError"
    <3>1. r.tag \in {"Closed", "HasReplyableError"} => t = r
      BY <1>3 DEF process_event, apply_got_replyable_error
    <3>2. Rank[r.tag] \in 0..12
      BY RankType
    <3> QED
      BY <3>1, <3>2
  <2>2. t = HasReplyableError(r, r.tag \notin {"Initialized", "UncheckedOriginalPayload"})
    BY <1>3, <2>1 DEF process_event, apply_got_replyable_error
  <2> QED
    BY <1>3, <2>1, <2>2 DEF HasReplyableError, FallbackTags, States
<1>4. CASE e.kind \in {"RetrievedOriginalPayload", "CheckedBroadcastSuitability"}
  BY <1>4 DEF process_event, InvalidEvent, Initialized, FallbackTags, States
<1>5. CASE e.kind \in {"CheckedInputsNotOwned", "CheckedNoInputsSeenBefore",
                       "PostedPayjoinProposal"}
  BY <1>5 DEF process_event, InvalidEvent, Initialized, FallbackTags, Move, States
<1>6. CASE e.kind \in {"IdentifiedReceiverOutputs", "CommittedOutputs", "CommittedInputs"}
  BY <1>6 DEF process_event, apply_identified_receiver_outputs, apply_committed_outputs,
              apply_committed_inputs, InvalidEvent, Initialized, FallbackTags, States
<1>7. CASE e.kind \in {"AppliedFeeRange", "FinalizedProposal"}
  BY <1>7 DEF process_event, InvalidEvent, Initialized, FallbackTags, States
<1>8. CASE e.kind = "Created"
  BY <1>8 DEF process_event, InvalidEvent, Initialized
<1> QED
  BY <1>0, <1>1, <1>2, <1>3, <1>4, <1>5, <1>6, <1>7, <1>8

(* The log and the history have their types and the same length. *)
LEMMA LogTypes ==
    ASSUME IInv
    PROVE  /\ log \in Seq(Events) /\ trace \in Seq(States)
           /\ Len(log) \in Nat /\ Len(trace) = Len(log)
           /\ \A i \in 1..Len(log) : log[i] \in Events /\ trace[i] \in States
BY DEF IInv, TypeOK, ReplayMatchesLive

(* Every event after the first has its effect between two logged states. *)
LEMMA LoggedEffect ==
    ASSUME IInv, NEW i \in 1..(Len(log) - 1)
    PROVE  Effect(trace[i], log[i + 1], trace[i + 1])
<1>1. i \in 1..Len(log) /\ i + 1 \in 1..Len(log) /\ i < i + 1
  BY LogTypes
<1>2. trace[i] \in States /\ log[i + 1] \in Events /\ trace[i + 1] \in States
  BY <1>1, LogTypes
<1>3. process_event(trace[i], log[i + 1]) = trace[i + 1]
  BY DEF IInv, ReplayMatchesLive
<1>4. trace[i + 1].tag # "Invalid"
  BY <1>1, LogTypes DEF IInv, StatesWellFormed, WellFormed
<1>5. Rank[trace[i].tag] < Rank[trace[i + 1].tag]
  BY <1>1, LogTypes DEF IInv, Advances
<1> QED
  BY <1>2, <1>3, <1>4, <1>5, EventEffect

(* Terminal, pending and retrieving events stand for the states they name. *)
LEMMA EventStates ==
    ASSUME IInv, NEW i \in 1..Len(log)
    PROVE  /\ log[i].kind = "Closed" => trace[i] = Closed(log[i].outcome)
           /\ log[i].kind \in {"Cancelled", "ProtocolFailed"} <=> trace[i].tag = "PendingFallback"
           /\ log[i].kind = "RetrievedOriginalPayload" <=> trace[i].tag = "UncheckedOriginalPayload"
<1>1. CASE i = 1
  <2>1. log[1].kind = "Created" /\ trace[1] = Initialized
    BY <1>1, LogTypes DEF IInv, ReplayMatchesLive
  <2> QED
    BY <1>1, <2>1 DEF Initialized
<1>2. CASE i > 1
  <2>1. i - 1 \in 1..(Len(log) - 1) /\ (i - 1) + 1 = i
    BY <1>2, LogTypes
  <2>2. Effect(trace[i - 1], log[i], trace[i])
    BY <2>1, LoggedEffect
  <2> QED
    BY <2>2 DEF Effect
<1> QED
  BY <1>1, <1>2, LogTypes

-----------------------------------------------------------------------------
(* What a step may do *)

(* What made a transition save the event e. *)
Caused(e) ==
    /\ e.kind = "PostedPayjoinProposal" => request = "PayjoinProposal"
    /\ e.kind = "Closed" =>
          \/ e.outcome = "Aborted"
          \/ /\ log # <<>> /\ trace[Len(log)].tag = "Monitor"
             /\ \/ e.outcome = "PayjoinProposalSent"
                \/ e.outcome = "Success" /\ mempool = trace[Len(log)].psbt
                \/ e.outcome = "FallbackBroadcasted" /\ mempool = Fallback

Saves == \E e, t : save_event(e, t) /\ Local /\ Caused(e)

(* A transition saves one event, for its cause, or leaves the log alone. *)
LEMMA TransitionSaves ==
    ASSUME IInv, NEW s \in live, Transition(s)
    PROVE  Saves \/ UNCHANGED <<log, trace>>
<1> DEFINE G == Saves \/ UNCHANGED <<log, trace>>
<1>a. ASSUME NEW e, NEW t, SaveThen(e, t) \/ SaveAndClose(e, t), Local, Caused(e) PROVE G
  BY <1>a DEF SaveThen, SaveAndClose, SaveError, NotSaved, Saves
<1>b. ASSUME NEW t, KeepState(t) \/ DropHandle PROVE G
  BY <1>b DEF KeepState, DropHandle
<1>c. \A k : k \notin {"PostedPayjoinProposal", "Closed"} => Caused(Event(k))
  BY DEF Caused, Event
<1>d. ASSUME Close("Aborted"), Local PROVE G
  <2>1. Caused([kind |-> "Closed", outcome |-> "Aborted"])
    BY DEF Caused
  <2> QED
    BY <1>a, <1>d, <2>1 DEF Close
<1>e. ASSUME NEW b, ReplyableError(s, b), Local PROVE G
  BY <1>a, <1>c, <1>e DEF ReplyableError
<1>f. ASSUME NEW k \in {"Cancelled", "ProtocolFailed"}, Local,
             EndReplyableError(s, k) \/ SaveThen(Event(k), PendingFallback(s))
      PROVE  G
  BY <1>a, <1>c, <1>d, <1>f DEF EndReplyableError
<1>1. CASE create_request(s) \/ transient(s)
  BY <1>1, <1>b DEF create_request, transient
<1>2. CASE cancel(s) \/ close(s)
  BY <1>2, <1>d, <1>f DEF cancel, close
<1>3. CASE process_poll_response(s)
  <2>1. ASSUME NEW p \in Payloads, Local,
               SaveThen([kind |-> "RetrievedOriginalPayload", original |-> p],
                        [s EXCEPT !.tag = "UncheckedOriginalPayload", !.original = p])
        PROVE  G
    <3>1. Caused([kind |-> "RetrievedOriginalPayload", original |-> p])
      BY DEF Caused
    <3> QED
      BY <1>a, <2>1, <3>1
  <2> QED
    BY <1>3, <1>b, <1>d, <2>1 DEF process_poll_response
<1>4. CASE \/ check_broadcast_suitability(s) \/ check_inputs_not_owned(s)
           \/ check_no_inputs_seen_before(s)
  BY <1>4, <1>a, <1>c, <1>e DEF check_broadcast_suitability, check_inputs_not_owned,
                                check_no_inputs_seen_before
<1>5. CASE identify_receiver_outputs(s)
  <2>1. ASSUME NEW v, Local,
               SaveThen([kind |-> "IdentifiedReceiverOutputs", change |-> v],
                        [s EXCEPT !.tag = "WantsOutputs", !.psbt = s.original,
                                  !.change = v])
        PROVE  G
    <3>1. Caused([kind |-> "IdentifiedReceiverOutputs", change |-> v])
      BY DEF Caused
    <3> QED
      BY <1>a, <2>1, <3>1
  <2> QED
    BY <1>5, <1>e, <2>1 DEF identify_receiver_outputs
<1>6. CASE replace_receiver_outputs(s) \/ contribute_inputs(s)
  BY <1>6, <1>b DEF replace_receiver_outputs, contribute_inputs
<1>7. CASE commit_outputs(s) \/ commit_inputs(s)
  <2>1. /\ Caused([kind |-> "CommittedOutputs", psbt |-> s.psbt, change |-> s.change])
        /\ Caused([kind |-> "CommittedInputs", psbt |-> s.psbt])
    BY DEF Caused
  <2> QED
    BY <1>7, <1>a, <2>1 DEF commit_outputs, commit_inputs
<1>8. CASE apply_fee_range(s) \/ finalize_proposal(s)
  <2>1. \A p : /\ Caused([kind |-> "AppliedFeeRange", psbt |-> p])
               /\ Caused([kind |-> "FinalizedProposal", psbt |-> p])
    BY DEF Caused
  <2> QED
    BY <1>8, <1>a, <2>1 DEF apply_fee_range, finalize_proposal
<1>9. CASE process_post_response(s)
  <2>1. Caused(Event("PostedPayjoinProposal"))
    BY <1>9 DEF Caused, Event, process_post_response
  <2> QED
    BY <1>9, <1>a, <1>f, <2>1 DEF process_post_response
<1>10. CASE process_error_response(s)
  BY <1>10, <1>f DEF process_error_response
<1>11. CASE check_for_transaction(s)
  <2>1. s.tag = "Monitor" /\ log # <<>> /\ s = trace[Len(log)]
    BY <1>11, HandleFacts DEF check_for_transaction, On
  <2>2. PICK o \in {"PayjoinProposalSent", "Success", "FallbackBroadcasted"} :
           /\ Close(o) /\ Local
           /\ o = "Success" => mempool = s.psbt
           /\ o = "FallbackBroadcasted" => mempool = Fallback
    BY <1>11 DEF check_for_transaction
  <2>3. Caused([kind |-> "Closed", outcome |-> o])
    BY <2>1, <2>2 DEF Caused
  <2> QED
    BY <1>a, <2>2, <2>3 DEF Close
<1> QED
  BY <1>1, <1>2, <1>3, <1>4, <1>5, <1>6, <1>7, <1>8, <1>9, <1>10, <1>11 DEF Transition

(* So does every step. *)
LEMMA NextSaves ==
    ASSUME IInv, [Next]_vars
    PROVE  Saves \/ UNCHANGED <<log, trace>>
<1>1. CASE build
  <2>1. Caused(Event("Created")) /\ Local
    BY <1>1 DEF Caused, Event, build
  <2> QED
    BY <1>1, <2>1 DEF build, SaveThen, SaveError, NotSaved, Saves
<1>2. ASSUME NEW s \in live, Transition(s) PROVE Saves \/ UNCHANGED <<log, trace>>
  BY <1>2, TransitionSaves
<1>3. CASE \/ start_replay \/ replay_event \/ construct_history
           \/ LoseResponse \/ Crash \/ Expire \/ Broadcast \/ UNCHANGED vars
  BY <1>3 DEF start_replay, replay_event, construct_history, ReplayError,
              LoseResponse, Crash, DropHandle, Expire, Broadcast, vars
<1> QED
  BY <1>1, <1>2, <1>3 DEF Next

(* Where a message and an awaited response come from. *)
LEMMA RequestStep ==
    ASSUME IInv, [Next]_vars
    PROVE  \/ UNCHANGED sent /\ request' \in {request, "None"}
           \/ \E s \in live : create_request(s)
<1>1. ASSUME NEW s \in live, Transition(s), ~create_request(s)
      PROVE  UNCHANGED sent /\ request' = "None"
  <2>1. Local
    BY <1>1 DEF Transition, transient, cancel, close, process_poll_response,
                check_broadcast_suitability, check_inputs_not_owned,
                check_no_inputs_seen_before, identify_receiver_outputs,
                replace_receiver_outputs, commit_outputs, contribute_inputs,
                commit_inputs, apply_fee_range, finalize_proposal,
                process_post_response, process_error_response, check_for_transaction
  <2> QED
    BY <2>1 DEF Local
<1>2. CASE build
  BY <1>2 DEF build, Local
<1>3. CASE \/ start_replay \/ replay_event \/ construct_history
           \/ LoseResponse \/ Crash \/ Expire \/ Broadcast \/ UNCHANGED vars
  BY <1>3 DEF start_replay, replay_event, construct_history, ReplayError,
              LoseResponse, Crash, DropHandle, Expire, Broadcast, vars
<1> QED
  BY <1>1, <1>2, <1>3 DEF Next

(* Only the environment settles the payment. *)
LEMMA MempoolStep ==
    ASSUME [Next]_vars
    PROVE  UNCHANGED mempool \/ Broadcast
<1>1. ASSUME NEW s \in live, Transition(s) PROVE UNCHANGED mempool
  <2>1. create_request(s) \/ Local
    BY <1>1 DEF Transition, transient, cancel, close, process_poll_response,
                check_broadcast_suitability, check_inputs_not_owned,
                check_no_inputs_seen_before, identify_receiver_outputs,
                replace_receiver_outputs, commit_outputs, contribute_inputs,
                commit_inputs, apply_fee_range, finalize_proposal,
                process_post_response, process_error_response, check_for_transaction
  <2> QED
    BY <2>1 DEF Local, create_request
<1>2. CASE build
  BY <1>2 DEF build, Local
<1>3. CASE \/ start_replay \/ replay_event \/ construct_history
           \/ LoseResponse \/ Crash \/ Expire \/ UNCHANGED vars
  BY <1>3 DEF start_replay, replay_event, construct_history, ReplayError,
              LoseResponse, Crash, Expire, vars
<1> QED
  BY <1>1, <1>2, <1>3 DEF Next

-----------------------------------------------------------------------------
(* The history invariant is inductive *)

(* A step that appends to the log, in terms of indices. *)
LEMMA SavesFacts ==
    ASSUME IInv, IInv', NEW e, NEW t, save_event(e, t)
    PROVE  /\ Len(log') = Len(log) + 1 /\ Len(trace') = Len(log) + 1
           /\ log'[Len(log) + 1] = e /\ trace'[Len(log) + 1] = t
           /\ \A i \in 1..Len(log) : log'[i] = log[i] /\ trace'[i] = trace[i]
           /\ \/ log = <<>> /\ e.kind = "Created" /\ t = Initialized
              \/ /\ Len(log) \in 1..Len(log) /\ log # <<>>
                 /\ Effect(trace[Len(log)], e, t)
                 /\ Rank[trace[Len(log)].tag] < Rank[t.tag]
<1>0. /\ log \in Seq(Events) /\ trace \in Seq(States)
      /\ Len(log) \in Nat /\ Len(trace) = Len(log)
  BY LogTypes
<1>1. /\ Len(log') = Len(log) + 1 /\ Len(trace') = Len(log) + 1
      /\ log'[Len(log) + 1] = e /\ trace'[Len(log) + 1] = t
      /\ \A i \in 1..Len(log) : log'[i] = log[i] /\ trace'[i] = trace[i]
  BY <1>0 DEF save_event
<1>2. CASE log = <<>>
  <2>1. Len(log) = 0 /\ log' # <<>>
    BY <1>0, <1>2 DEF save_event
  <2> QED
    BY <1>1, <1>2, <2>1 DEF IInv, ReplayMatchesLive
<1>3. CASE log # <<>>
  <2> DEFINE n == Len(log)
  <2>1. n \in 1..n /\ n \in 1..(Len(log') - 1) /\ n + 1 \in 1..Len(log') /\ n \in 1..Len(log')
    BY <1>0, <1>1, <1>3
  <2>2. process_event(trace'[n], log'[n + 1]) = trace'[n + 1]
    BY <2>1 DEF IInv, ReplayMatchesLive
  <2>3. trace'[n + 1] \in States /\ log'[n + 1] \in Events /\ trace[n] \in States
    <3>1. log' \in Seq(Events) /\ trace' \in Seq(States)
      BY DEF IInv, TypeOK
    <3> QED
      BY <1>0, <1>1, <2>1, <3>1
  <2>4. trace'[n + 1].tag # "Invalid"
    BY <1>1, <2>1 DEF IInv, StatesWellFormed, WellFormed
  <2>5. n < n + 1 /\ Rank[trace'[n].tag] < Rank[trace'[n + 1].tag]
    BY <1>0, <1>1, <2>1 DEF IInv, Advances
  <2>6. trace'[n] = trace[n] /\ trace'[n + 1] = t /\ log'[n + 1] = e
    BY <1>1, <2>1
  <2>7. Effect(trace[n], e, t)
    BY <2>2, <2>3, <2>4, <2>5, <2>6, EventEffect
  <2> QED
    BY <1>1, <1>3, <2>1, <2>5, <2>6, <2>7
<1> QED
  BY <1>2, <1>3

(* Saving an event keeps the history invariant. *)
LEMMA SavesHInv ==
    ASSUME IInv, IInv', HInv, NEW e, NEW t, save_event(e, t), Local, Caused(e)
    PROVE  HInv'
<1> DEFINE n == Len(log)
           r == trace[Len(log)]
<1>0. /\ n \in Nat /\ Len(trace) = n
      /\ Len(log') = n + 1 /\ Len(trace') = n + 1
      /\ log'[n + 1] = e /\ trace'[n + 1] = t
      /\ \A i \in 1..n : log'[i] = log[i] /\ trace'[i] = trace[i]
  BY LogTypes, SavesFacts
<1>1. CASE log = <<>> /\ e.kind = "Created" /\ t = Initialized
  <2>1. Len(trace') = 1 /\ trace'[1] = Initialized /\ log'[1] = e
    BY <1>0, <1>1
  <2>2. FallbackHeld' /\ OriginalLogged' /\ MonitoredSent'
    BY <2>1 DEF FallbackHeld, OriginalLogged, MonitoredSent, Initialized, FallbackTags
  <2>3. FallbackLogged'
    BY <1>1, <2>1 DEF FallbackLogged, Initialized
  <2>4. PostRequested'
    BY DEF PostRequested, Local
  <2> QED
    BY <2>2, <2>3, <2>4 DEF HInv
<1>2. CASE /\ n \in 1..n /\ log # <<>> /\ Effect(r, e, t)
           /\ Rank[r.tag] < Rank[t.tag]
  <2>0. /\ r \in States /\ t \in States /\ r.tag # "Closed"
    <3>1. r \in States
      BY <1>2, LogTypes
    <3>2. trace' \in Seq(States) /\ n + 1 \in 1..Len(trace')
      BY <1>0 DEF IInv, TypeOK
    <3>3. t \in States
      BY <1>0, <3>2
    <3>4. Rank[t.tag] \in 0..12
      BY <3>3, RankType
    <3>5. r.tag = "Closed" => Rank[r.tag] = 12
      BY DEF Rank, Tags
    <3> QED
      BY <1>2, <3>1, <3>3, <3>4, <3>5
  <2>1. FallbackHeld'
    <3> SUFFICES ASSUME NEW i \in 1..(n + 1)
                 PROVE  /\ trace'[i].tag \in {"Initialized", "UncheckedOriginalPayload"}
                              => ~trace'[i].fallback
                        /\ trace'[i].tag \in FallbackTags \cup {"PendingFallback"}
                              => trace'[i].fallback
      BY <1>0 DEF FallbackHeld
    <3>1. CASE i \in 1..n
      BY <1>0, <3>1 DEF HInv, FallbackHeld
    <3>2. CASE i = n + 1
      <4>1. /\ r.tag \in {"Initialized", "UncheckedOriginalPayload"} => ~r.fallback
            /\ r.tag \in FallbackTags \cup {"PendingFallback"} => r.fallback
        BY <1>0, <1>2 DEF HInv, FallbackHeld
      <4>2. CASE t.tag = "UncheckedOriginalPayload"
        <5>1. r.tag = "Initialized" /\ t.fallback = r.fallback
          BY <1>2, <4>2 DEF Effect
        <5> QED
          BY <1>0, <3>2, <4>1, <4>2, <5>1 DEF FallbackTags
      <4>3. CASE t.tag \in FallbackTags /\ e.kind = "CheckedBroadcastSuitability"
        BY <1>0, <1>2, <3>2, <4>3 DEF Effect, FallbackTags
      <4>4. CASE t.tag \in FallbackTags \cup {"PendingFallback"}
                 /\ e.kind # "CheckedBroadcastSuitability"
        <5>1. t.tag \notin {"HasReplyableError", "Closed"} /\ t.fallback = r.fallback
          BY <1>2, <4>4 DEF Effect, FallbackTags
        <5>2. r.fallback
          BY <1>2, <4>1, <4>4 DEF Effect
        <5> QED
          BY <1>0, <3>2, <4>4, <5>1, <5>2 DEF FallbackTags
      <4>5. t.tag # "Initialized"
        BY <1>2 DEF Effect
      <4>6. e.kind = "CheckedBroadcastSuitability" => t.tag # "PendingFallback"
        BY <1>2 DEF Effect
      <4> QED
        BY <1>0, <3>2, <4>2, <4>3, <4>4, <4>5, <4>6
    <3> QED
      BY <1>0, <3>1, <3>2
  <2>2. FallbackLogged'
    <3> SUFFICES ASSUME NEW i \in 1..(n + 1), trace'[i].tag # "Closed"
                 PROVE  trace'[i].fallback
                           <=> \E j \in 1..i : log'[j].kind = "CheckedBroadcastSuitability"
      BY <1>0 DEF FallbackLogged
    <3>1. CASE i \in 1..n
      <4>1. trace[i].fallback
               <=> \E j \in 1..i : log[j].kind = "CheckedBroadcastSuitability"
        BY <1>0, <3>1 DEF HInv, FallbackLogged
      <4>2. \A j \in 1..i : log'[j] = log[j]
        BY <1>0, <3>1
      <4> QED
        BY <1>0, <3>1, <4>1, <4>2
    <3>2. CASE i = n + 1
      <4>1. r.fallback <=> \E j \in 1..n : log[j].kind = "CheckedBroadcastSuitability"
        BY <1>0, <1>2, <2>0 DEF HInv, FallbackLogged
      <4>2. (\E j \in 1..i : log'[j].kind = "CheckedBroadcastSuitability")
               <=> (r.fallback \/ e.kind = "CheckedBroadcastSuitability")
        BY <1>0, <3>2, <4>1
      <4>3. /\ r.tag \in {"Initialized", "UncheckedOriginalPayload"} => ~r.fallback
            /\ r.tag \in FallbackTags \cup {"PendingFallback"} => r.fallback
        BY <1>0, <1>2 DEF HInv, FallbackHeld
      <4>4. r.tag # "HasReplyableError" \/ e.kind # "GotReplyableError"
        BY <1>2 DEF Effect
      <4>5. t.fallback <=> (r.fallback \/ e.kind = "CheckedBroadcastSuitability")
        <5>1. t.tag # "Closed" /\ t = trace'[i] /\ e.kind # "Closed"
          BY <1>0, <1>2, <3>2 DEF Effect, Closed, Initialized
        <5>2. CASE e.kind = "GotReplyableError"
          <6>0. r.tag # "Invalid" /\ r.tag \in Tags
            BY <1>0, <1>2, <2>0 DEF IInv, StatesWellFormed, WellFormed, States
          <6>1. r.tag \in {"Initialized", "UncheckedOriginalPayload"} \cup FallbackTags
                          \cup {"PendingFallback"}
            BY <2>0, <4>4, <5>2, <6>0 DEF Tags, FallbackTags
          <6> QED
            BY <1>2, <4>3, <5>2, <6>1 DEF Effect, FallbackTags
        <5>3. CASE e.kind # "GotReplyableError"
          BY <1>2, <2>0, <5>1, <5>3 DEF Effect, States
        <5> QED
          BY <5>2, <5>3
      <4> QED
        BY <1>0, <3>2, <4>2, <4>5
    <3> QED
      BY <1>0, <3>1, <3>2
  <2>3. OriginalLogged'
    <3> SUFFICES ASSUME NEW i \in 1..(n + 1), trace'[i].tag \notin {"Initialized", "Closed"}
                 PROVE  \E j \in 1..i : /\ log'[j].kind = "RetrievedOriginalPayload"
                                        /\ log'[j].original = trace'[i].original
      BY <1>0 DEF OriginalLogged
    <3>1. CASE i \in 1..n
      <4>1. PICK j \in 1..i : /\ log[j].kind = "RetrievedOriginalPayload"
                              /\ log[j].original = trace[i].original
        BY <1>0, <3>1 DEF HInv, OriginalLogged
      <4> QED
        BY <1>0, <3>1, <4>1
    <3>2. CASE i = n + 1 /\ e.kind = "RetrievedOriginalPayload"
      BY <1>0, <1>2, <3>2 DEF Effect
    <3>3. CASE i = n + 1 /\ e.kind # "RetrievedOriginalPayload"
      <4>0. t.original = r.original /\ t.tag \notin {"Initialized", "Closed"}
        BY <1>0, <1>2, <3>3 DEF Effect
      <4>1. r.tag # "Initialized"
        <5> SUFFICES ASSUME r.tag = "Initialized" PROVE FALSE
          OBVIOUS
        <5>1. trace[1] = Initialized /\ 1 \in 1..n
          BY <1>0, <1>2 DEF IInv, ReplayMatchesLive
        <5>2. Rank[r.tag] = 0 /\ Rank[trace[1].tag] = 0
          BY <5>1 DEF Rank, Tags, Initialized
        <5>3. ~(1 < n)
          BY <1>0, <1>2, <5>1, <5>2 DEF IInv, Advances
        <5>4. r.original = NoPayload
          BY <1>0, <1>2, <5>1, <5>3 DEF Initialized
        <5>5. n + 1 \in 1..Len(trace') /\ WellFormed(trace'[n + 1])
          BY <1>0 DEF IInv, StatesWellFormed, WellFormed
        <5> QED
          BY <1>0, <4>0, <5>4, <5>5, PayloadAssumption DEF WellFormed
      <4>2. PICK j \in 1..n : /\ log[j].kind = "RetrievedOriginalPayload"
                              /\ log[j].original = r.original
        BY <1>0, <1>2, <2>0, <4>1 DEF HInv, OriginalLogged
      <4> QED
        BY <1>0, <3>3, <4>0, <4>2
    <3> QED
      BY <1>0, <3>1, <3>2, <3>3
  <2>4. PostRequested'
    BY DEF PostRequested, Local
  <2>5. MonitoredSent'
    <3> SUFFICES ASSUME NEW i \in 1..(n + 1), trace'[i].tag = "Monitor"
                 PROVE  \E m \in sent : m.kind = "PayjoinProposal" /\ m.psbt = trace'[i].psbt
      BY <1>0 DEF MonitoredSent, Local
    <3>1. CASE i \in 1..n
      BY <1>0, <3>1 DEF HInv, MonitoredSent
    <3>2. CASE i = n + 1
      <4>1. /\ e.kind = "PostedPayjoinProposal" /\ r.tag = "PayjoinProposal"
            /\ t.psbt = r.psbt /\ request = "PayjoinProposal"
        BY <1>0, <1>2, <3>2 DEF Effect, Caused
      <4>2. PICK j \in 1..n : trace[j].tag = "PayjoinProposal" /\ Message(trace[j]) \in sent
        BY <1>0, <4>1 DEF HInv, PostRequested
      <4>3. j = n
        <5>1. Rank[trace[j].tag] = 9 /\ Rank[trace[n].tag] = 9
          BY <4>1, <4>2 DEF Rank, Tags
        <5>2. ~(j < n)
          BY <1>0, <1>2, <5>1 DEF IInv, Advances
        <5> QED
          BY <1>0, <5>2
      <4> QED
        BY <1>0, <3>2, <4>1, <4>2, <4>3 DEF Message
    <3> QED
      BY <1>0, <3>1, <3>2
  <2> QED
    BY <2>1, <2>2, <2>3, <2>4, <2>5 DEF HInv
<1> QED
  BY <1>1, <1>2, SavesFacts

(* A step that leaves the log alone keeps it: requests only add messages. *)
LEMMA SameLogHInv ==
    ASSUME IInv, HInv, [Next]_vars, UNCHANGED <<log, trace>>
    PROVE  HInv'
<1>1. FallbackHeld' /\ FallbackLogged' /\ OriginalLogged'
  BY DEF HInv, FallbackHeld, FallbackLogged, OriginalLogged
<1>2. CASE UNCHANGED sent /\ request' \in {request, "None"}
  BY <1>1, <1>2 DEF HInv, PostRequested, MonitoredSent, Message
<1>3. ASSUME NEW s \in live, create_request(s) PROVE HInv'
  <2>1. sent \subseteq sent' /\ request' = s.tag
    BY <1>3 DEF create_request
  <2>2. MonitoredSent'
    <3> SUFFICES ASSUME NEW i \in 1..Len(trace), trace[i].tag = "Monitor"
                 PROVE  \E m \in sent' : m.kind = "PayjoinProposal" /\ m.psbt = trace[i].psbt
      BY DEF MonitoredSent
    <3> QED
      BY <2>1 DEF HInv, MonitoredSent
  <2>3. PostRequested'
    <3> SUFFICES ASSUME s.tag = "PayjoinProposal"
                 PROVE  \E i \in 1..Len(trace) : /\ trace[i].tag = "PayjoinProposal"
                                                 /\ Message(trace[i]) \in sent'
      BY <2>1 DEF PostRequested, Message
    <3>1. log # <<>> /\ s = trace[Len(log)]
      BY HandleFacts
    <3>2. Len(log) \in 1..Len(trace)
      BY <3>1, LogTypes
    <3>3. Message(s) \in sent'
      BY <1>3 DEF create_request
    <3> QED
      BY <3>1, <3>2, <3>3
  <2> QED
    BY <1>1, <2>2, <2>3 DEF HInv
<1> QED
  BY <1>2, <1>3, RequestStep

(* Both invariants hold throughout. *)
LEMMA HistoryInvariance == Spec => [](IInv /\ HInv)
<1>1. Init => IInv /\ HInv
  <2>1. Init => HInv
    BY DEF Init, HInv, FallbackHeld, FallbackLogged, OriginalLogged, PostRequested,
           MonitoredSent
  <2> QED
    BY <2>1, InitInv
<1>2. (IInv /\ HInv) /\ [Next]_vars => (IInv /\ HInv)'
  <2> SUFFICES ASSUME IInv, HInv, [Next]_vars PROVE IInv' /\ HInv'
    OBVIOUS
  <2>1. IInv'
    BY NextInv
  <2>2. CASE Saves
    BY <2>1, <2>2, SavesHInv DEF Saves
  <2>3. CASE UNCHANGED <<log, trace>>
    BY <2>1, <2>3, SameLogHInv
  <2> QED
    BY <2>1, <2>2, <2>3, NextSaves
<1> QED
  BY <1>1, <1>2, PTL DEF Spec

-----------------------------------------------------------------------------
(* SessionHistory *)

(* SessionHistory::fallback_tx finds a fallback in the log exactly when the   *)
(* typestate carries one, for every session that has not ended.               *)
THEOREM FallbackCorrect == Spec => []FallbackAgrees
<1>1. IInv /\ HInv => FallbackAgrees
  <2> SUFFICES ASSUME IInv, HInv, NEW s \in live, s.tag # "Closed"
               PROVE  s.fallback <=> fallback_tx
    BY DEF FallbackAgrees
  <2>1. log # <<>> /\ s.tag = trace[Len(log)].tag /\ s.fallback = trace[Len(log)].fallback
    BY HandleFacts DEF Matches
  <2>2. Len(log) \in 1..Len(trace) /\ DOMAIN log = 1..Len(log)
    BY <2>1, LogTypes
  <2> QED
    BY <2>1, <2>2 DEF HInv, FallbackLogged, fallback_tx, Logged
<1> QED
  BY <1>1, HistoryInvariance, PTL

(* SessionHistory::status, read off the last event, agrees with the typestate *)
(* that the whole log replays to.                                             *)
THEOREM StatusCorrect == Spec => []StatusAgrees
<1>1. IInv => StatusAgrees
  <2> SUFFICES ASSUME IInv, NEW s \in live
               PROVE  /\ s.tag = "Closed" <=> status \in {"Completed", "Failed", "FallbackBroadcasted"}
                      /\ s.tag = "PendingFallback" <=> status = "PendingFallback"
                      /\ status = "Completed" =>
                            s.outcome \in {"Success", "PayjoinProposalSent"} /\ s.tag = "Closed"
    BY DEF StatusAgrees
  <2> DEFINE e == log[Len(log)]
             r == trace[Len(log)]
  <2>1. log # <<>> /\ s.tag = r.tag /\ s.outcome = r.outcome
    BY HandleFacts DEF Matches
  <2>2. Len(log) \in 1..Len(log) /\ e \in Events
    BY <2>1, LogTypes
  <2>3. /\ e.kind = "Closed" => r = Closed(e.outcome)
        /\ e.kind \in {"Cancelled", "ProtocolFailed"} <=> r.tag = "PendingFallback"
    BY <2>2, EventStates
  <2>4. e.kind = "Closed" <=> r.tag = "Closed"
    BY <2>2 DEF IInv, ClosedLogged
  <2>5. e.kind = "Closed" => e.outcome \in Outcomes
    BY <2>2 DEF Events
  <2>6. LastKind = e.kind /\ LastOutcome = e.outcome
    BY <2>1 DEF LastKind, LastOutcome
  <2>7. CASE e.kind = "Closed"
    <3>1. r.tag = "Closed" /\ r.outcome = e.outcome
      BY <2>3, <2>7 DEF Closed, Initialized
    <3> QED
      BY <2>1, <2>5, <2>6, <2>7, <3>1 DEF status, Outcomes
  <2>8. CASE e.kind \in {"Cancelled", "ProtocolFailed"}
    BY <2>1, <2>3, <2>6, <2>8 DEF status
  <2>9. CASE e.kind \notin {"Closed", "Cancelled", "ProtocolFailed"}
    <3>1. status \in {"Expired", "Active"}
      BY <2>6, <2>9 DEF status
    <3> QED
      BY <2>1, <2>3, <2>4, <2>9, <3>1
  <2> QED
    BY <2>7, <2>8, <2>9
<1> QED
  BY <1>1, Invariance, PTL

-----------------------------------------------------------------------------
(* The session implements ReceiverContract. *)

(* What the contract sees of the log. *)
Original ==
    IF Logged("RetrievedOriginalPayload")
    THEN log[CHOOSE i \in DOMAIN log :
                log[i].kind = "RetrievedOriginalPayload"].original
    ELSE NoPayload

Outcome ==
    IF LastKind = "Closed" THEN LastOutcome
    ELSE IF LastKind \in {"Cancelled", "ProtocolFailed"} THEN "PendingFallback"
    ELSE "None"

Settled == [o \in Payloads |-> mempool]

(* A session retrieves one Original PSBT, so any event that did names it. *)
LEMMA OriginalIs ==
    ASSUME IInv, NEW j \in 1..Len(log), log[j].kind = "RetrievedOriginalPayload"
    PROVE  Original = log[j].original /\ Original \in Payloads
<1> DEFINE k == CHOOSE i \in DOMAIN log : log[i].kind = "RetrievedOriginalPayload"
<1>0. DOMAIN log = 1..Len(log) /\ Len(log) \in Nat /\ Len(trace) = Len(log)
  BY LogTypes
<1>1. Logged("RetrievedOriginalPayload")
  BY <1>0 DEF Logged
<1>2. k \in 1..Len(log) /\ log[k].kind = "RetrievedOriginalPayload"
  BY <1>0
<1> HIDE DEF k
<1>3. trace[j].tag = "UncheckedOriginalPayload" /\ trace[k].tag = "UncheckedOriginalPayload"
  BY <1>2, EventStates
<1>4. Rank[trace[j].tag] = 1 /\ Rank[trace[k].tag] = 1
  BY <1>3 DEF Rank, Tags
<1>5. ~(j < k) /\ ~(k < j)
  BY <1>0, <1>2, <1>4 DEF IInv, Advances
<1>6. j = k
  BY <1>0, <1>2, <1>5
<1>7. log[j].original \in Payloads
  BY LogTypes DEF Events
<1>8. Original = log[k].original
  BY <1>1 DEF Original, k
<1> QED
  BY <1>6, <1>7, <1>8

(* The same, of any state and its successor. *)
OriginalUnique ==
    \A j \in 1..Len(log) : log[j].kind = "RetrievedOriginalPayload" =>
        Original = log[j].original

(* The invariant implies it before and after a step. *)
LEMMA OriginalUniqueStep == (IInv => OriginalUnique) /\ (IInv' => OriginalUnique')
<1>1. IInv => OriginalUnique
  BY OriginalIs DEF OriginalUnique
<1> QED
  BY <1>1, PTL

(* An appended event decides the outcome, and the Original PSBT only if it    *)
(* retrieved it.                                                              *)
LEMMA AppendedView ==
    ASSUME IInv, IInv', NEW e, NEW t, save_event(e, t)
    PROVE  /\ Outcome' = IF e.kind = "Closed" THEN e.outcome
                         ELSE IF e.kind \in {"Cancelled", "ProtocolFailed"}
                         THEN "PendingFallback" ELSE "None"
           /\ e.kind # "RetrievedOriginalPayload" => UNCHANGED Original
           /\ e.kind = "RetrievedOriginalPayload" => Original' = e.original
<1> DEFINE n == Len(log)
<1>0. /\ n \in Nat /\ Len(log') = n + 1 /\ log'[n + 1] = e
      /\ \A i \in 1..n : log'[i] = log[i]
      /\ log \in Seq(Events) /\ log' \in Seq(Events)
      /\ DOMAIN log = 1..n /\ DOMAIN log' = 1..(n + 1)
  <2>1. log \in Seq(Events) /\ n \in Nat /\ log' \in Seq(Events)
    BY LogTypes DEF IInv, TypeOK
  <2> QED
    BY <2>1, SavesFacts
<1>1. log' # <<>> /\ log'[Len(log')] = e
  BY <1>0
<1>2. Outcome' = IF e.kind = "Closed" THEN e.outcome
                 ELSE IF e.kind \in {"Cancelled", "ProtocolFailed"}
                 THEN "PendingFallback" ELSE "None"
  BY <1>1 DEF Outcome, LastKind, LastOutcome
<1>3. ASSUME NEW j \in 1..(n + 1), log'[j].kind = "RetrievedOriginalPayload"
      PROVE  Original' = log'[j].original
  BY <1>0, <1>3, OriginalUniqueStep DEF OriginalUnique
<1>4. CASE e.kind = "RetrievedOriginalPayload"
  <2>1. Original' = log'[n + 1].original
    BY <1>0, <1>3, <1>4
  <2> QED
    BY <1>0, <1>2, <1>4, <2>1
<1>5. CASE e.kind # "RetrievedOriginalPayload"
  <2>1. CASE \E j \in 1..n : log[j].kind = "RetrievedOriginalPayload"
    <3>1. PICK j \in 1..n : log[j].kind = "RetrievedOriginalPayload"
      BY <2>1
    <3>2. Original = log[j].original
      BY <3>1, OriginalIs
    <3>3. j \in 1..(n + 1) /\ log'[j] = log[j]
      BY <1>0
    <3>4. Original' = log'[j].original
      BY <1>3, <3>1, <3>3
    <3> QED
      BY <1>2, <1>5, <3>2, <3>3, <3>4
  <2>2. CASE ~\E j \in 1..n : log[j].kind = "RetrievedOriginalPayload"
    <3>1. ~Logged("RetrievedOriginalPayload") /\ ~Logged("RetrievedOriginalPayload")'
      BY <1>0, <1>5, <2>2 DEF Logged
    <3>2. Original = NoPayload /\ Original' = NoPayload
      BY <3>1 DEF Original
    <3> QED
      BY <1>2, <1>5, <3>2
  <2> QED
    BY <2>1, <2>2
<1> QED
  BY <1>4, <1>5

(* Nothing the contract sees changes. *)
Unseen == UNCHANGED <<Original, sent, Outcome, Settled>>

(* What the contract sees of a session, from its last state. *)
LEMMA StateView ==
    ASSUME IInv, HInv, log # <<>>
    PROVE  LET r == trace[Len(log)]
           IN  /\ r \in States /\ WellFormed(r)
               /\ r.tag \notin {"Closed", "PendingFallback"} => Outcome = "None"
               /\ r.tag = "PendingFallback" => Outcome = "PendingFallback"
               /\ r.tag \notin {"Initialized", "Closed"} =>
                     Original = r.original /\ Original \in Payloads /\ Original # NoPayload
               /\ r.tag = "Initialized" => Original = NoPayload
<1> DEFINE n == Len(log)
           r == trace[Len(log)]
<1>0. /\ n \in 1..n /\ n \in Nat /\ Len(trace) = n /\ DOMAIN log = 1..n
      /\ r \in States /\ WellFormed(r)
  <2>1. n \in 1..n /\ n \in Nat /\ Len(trace) = n /\ DOMAIN log = 1..n
    BY LogTypes
  <2> QED
    BY <2>1, LogTypes DEF IInv, StatesWellFormed
<1>1. /\ LastKind = log[n].kind
      /\ LastKind = "Closed" <=> r.tag = "Closed"
      /\ LastKind \in {"Cancelled", "ProtocolFailed"} <=> r.tag = "PendingFallback"
  BY <1>0, EventStates DEF LastKind, IInv, ClosedLogged
<1>2. /\ r.tag \notin {"Closed", "PendingFallback"} => Outcome = "None"
      /\ r.tag = "PendingFallback" => Outcome = "PendingFallback"
  BY <1>1 DEF Outcome
<1>3. ASSUME r.tag \notin {"Initialized", "Closed"}
      PROVE  Original = r.original /\ Original \in Payloads /\ Original # NoPayload
  <2>1. PICK j \in 1..n : /\ log[j].kind = "RetrievedOriginalPayload"
                          /\ log[j].original = r.original
    BY <1>0, <1>3 DEF HInv, OriginalLogged
  <2> QED
    BY <2>1, OriginalIs, PayloadAssumption
<1>4. ASSUME r.tag = "Initialized" PROVE Original = NoPayload
  <2>1. ASSUME NEW j \in 1..n, log[j].kind = "RetrievedOriginalPayload" PROVE FALSE
    <3>1. trace[j].tag = "UncheckedOriginalPayload"
      BY <2>1, EventStates
    <3>2. Rank[trace[j].tag] = 1 /\ Rank[r.tag] = 0
      BY <1>4, <3>1 DEF Rank, Tags
    <3>3. j < n \/ j = n
      BY <1>0
    <3>4. ~(j < n)
      BY <1>0, <3>2 DEF IInv, Advances
    <3> QED
      BY <1>4, <3>1, <3>3, <3>4
  <2>2. ~Logged("RetrievedOriginalPayload")
    BY <1>0, <2>1 DEF Logged
  <2> QED
    BY <2>2 DEF Original
<1> QED
  BY <1>0, <1>2, <1>3, <1>4

(* A saved event is a step of the contract, or is not seen by it. *)
LEMMA SavesRefines ==
    ASSUME IInv, IInv', HInv, NEW e, NEW t, save_event(e, t), Local, Caused(e)
    PROVE  Contract!Next \/ Unseen
<1> DEFINE n == Len(log)
           r == trace[Len(log)]
<1>0. UNCHANGED <<sent, mempool, Settled>>
  BY DEF Local, Settled
<1>1. CASE log = <<>> /\ e.kind = "Created"
  <2>1. Outcome = "None" /\ Outcome' = "None" /\ UNCHANGED Original
    BY <1>1, AppendedView DEF Outcome, LastKind
  <2> QED
    BY <1>0, <2>1 DEF Unseen
<1>2. CASE n \in 1..n /\ log # <<>> /\ Effect(r, e, t) /\ Rank[r.tag] < Rank[t.tag]
  <2>0. /\ r \in States /\ t \in States /\ e \in Events /\ t.tag # "Invalid"
        /\ r.tag # "Closed" /\ (r.tag = "PendingFallback" => e.kind = "Closed")
    <3>1. r \in States
      BY <1>2, StateView
    <3>2. /\ Len(trace') = n + 1 /\ Len(log') = n + 1
          /\ log'[n + 1] = e /\ trace'[n + 1] = t /\ n \in Nat
      BY LogTypes, SavesFacts
    <3>3. log' \in Seq(Events) /\ trace' \in Seq(States) /\ n + 1 \in 1..Len(trace')
      BY <3>2 DEF IInv, TypeOK
    <3>4. t \in States /\ e \in Events
      BY <3>2, <3>3
    <3>5. t.tag # "Invalid"
      BY <3>2, <3>3 DEF IInv, StatesWellFormed, WellFormed
    <3>6. Rank[t.tag] \in 0..12 /\ t.tag \in Tags
      BY <3>4, RankType
    <3>7. r.tag # "Closed"
      <4>1. r.tag = "Closed" => Rank[r.tag] = 12
        BY DEF Rank, Tags
      <4> QED
        BY <1>2, <3>6, <4>1
    <3>8. r.tag = "PendingFallback" => t.tag = "Closed"
      BY <1>2, <3>5, <3>6 DEF Rank, Tags
    <3> QED
      BY <1>2, <3>1, <3>4, <3>5, <3>7, <3>8 DEF Effect
  <2>1. CASE e.kind = "RetrievedOriginalPayload"
    <3>1. r.tag = "Initialized"
      BY <1>2, <2>1 DEF Effect
    <3>2. Outcome = "None" /\ Original = NoPayload
      BY <1>2, <3>1, StateView
    <3>3. Outcome' = "None" /\ Original' = e.original
      BY <2>1, AppendedView
    <3>4. e.original \in Payloads
      BY <2>0, <2>1 DEF Events
    <3>5. Contract!Retrieve(e.original)
      BY <1>0, <3>2, <3>3 DEF Contract!Retrieve, Original, Outcome, Settled
    <3> QED
      BY <3>4, <3>5 DEF Contract!Next
  <2>2. CASE e.kind \in {"Cancelled", "ProtocolFailed"}
    <3>1. r.tag \in FallbackTags \cup {"HasReplyableError"}
      BY <1>2, <2>2 DEF Effect
    <3>2. Outcome = "None" /\ Original # NoPayload
      BY <1>2, <3>1, StateView DEF FallbackTags
    <3>3. Outcome' = "PendingFallback" /\ UNCHANGED Original
      BY <2>2, AppendedView
    <3>4. Contract!GiveUp
      BY <1>0, <3>2, <3>3 DEF Contract!GiveUp, Original, Outcome, Settled
    <3> QED
      BY <3>4 DEF Contract!Next
  <2>3. CASE e.kind = "Closed"
    <3>1. Outcome' = e.outcome /\ UNCHANGED Original
      BY <2>3, AppendedView
    <3>2. e.outcome \in Contract!Outcomes
      BY <2>0, <2>3 DEF Events, Outcomes, Contract!Outcomes
    <3>3. CASE e.outcome = "Aborted"
      <4>1. Outcome \in {"None", "PendingFallback"}
        BY <1>2, <2>0, StateView
      <4>2. Contract!Justified("Aborted")
        BY DEF Contract!Justified
      <4>3. Contract!End("Aborted")
        BY <1>0, <3>1, <3>3, <4>1, <4>2 DEF Contract!End, Original, Outcome, Settled
      <4> QED
        BY <3>2, <3>3, <4>3 DEF Contract!Next
    <3>4. CASE /\ r.tag = "Monitor"
               /\ \/ e.outcome = "PayjoinProposalSent"
                  \/ e.outcome = "Success" /\ mempool = r.psbt
                  \/ e.outcome = "FallbackBroadcasted" /\ mempool = Fallback
      <4>1. Outcome = "None" /\ Original \in Payloads
        BY <1>2, <3>4, StateView
      <4>2. Settled[Original] = mempool
        BY <4>1 DEF Settled
      <4>3. PICK m \in sent : m.kind = "PayjoinProposal" /\ m.psbt = r.psbt
        BY <1>2, <3>4, LogTypes DEF HInv, MonitoredSent
      <4>4. m \in Contract!Proposed
        BY <4>3 DEF Contract!Proposed
      <4>5. Contract!Justified(e.outcome)
        BY <3>4, <4>2, <4>3, <4>4 DEF Contract!Justified, Settled, Original
      <4>6. Contract!End(e.outcome)
        BY <1>0, <3>1, <4>1, <4>5 DEF Contract!End, Original, Outcome, Settled
      <4> QED
        BY <3>2, <4>6 DEF Contract!Next
    <3> QED
      BY <2>3, <3>3, <3>4 DEF Caused
  <2>4. CASE e.kind \notin {"RetrievedOriginalPayload", "Cancelled", "ProtocolFailed", "Closed"}
    <3>1. Outcome' = "None" /\ UNCHANGED Original
      BY <2>4, AppendedView
    <3>2. Outcome = "None"
      BY <1>2, <2>0, <2>4, StateView
    <3> QED
      BY <1>0, <3>1, <3>2 DEF Unseen
  <2> QED
    BY <2>1, <2>2, <2>3, <2>4
<1> QED
  BY <1>1, <1>2, SavesFacts

(* A request posts the one message of the session. *)
LEMMA RequestRefines ==
    ASSUME IInv, IInv', HInv, NEW s \in live, create_request(s)
    PROVE  Contract!Next \/ Unseen
<1>0. /\ s.tag \in {"Initialized", "PayjoinProposal", "HasReplyableError"}
      /\ UNCHANGED <<log, mempool>>
      /\ sent' = IF s.tag = "Initialized" THEN sent ELSE sent \cup {Message(s)}
  BY DEF create_request
<1>1. UNCHANGED <<Original, Outcome, Settled>>
  BY <1>0 DEF Original, Outcome, Settled, LastKind, LastOutcome, Logged
<1>2. CASE s.tag = "Initialized"
  BY <1>0, <1>1, <1>2 DEF Unseen
<1>3. CASE s.tag # "Initialized"
  <2> DEFINE m == Message(s)
  <2>1. log # <<>> /\ s = trace[Len(log)]
    BY <1>0, HandleFacts
  <2>2. Outcome = "None" /\ Original # NoPayload
    BY <1>0, <1>3, <2>1, StateView
  <2>3. \A a, b \in sent' : a = b
    <3>1. (IInv => NeverEquivocates) /\ (IInv' => NeverEquivocates')
      BY OneMessage, PTL
    <3> QED
      BY <3>1 DEF NeverEquivocates
  <2>4. m \in sent' /\ sent \subseteq sent'
    BY <1>0, <1>3
  <2>5. sent \subseteq {m} /\ sent' = {m}
    BY <2>3, <2>4
  <2>6. Contract!Answer(m)
    BY <1>1, <2>2, <2>5 DEF Contract!Answer, Original, Outcome, Settled
  <2> QED
    BY <2>4, <2>6 DEF Contract!Next
<1> QED
  BY <1>2, <1>3

(* The environment settles the payment. *)
LEMMA BroadcastRefines ==
    ASSUME IInv, Broadcast
    PROVE  Contract!Next \/ Unseen
<1>0. UNCHANGED <<log, sent>> /\ mempool = NoPsbt
  BY DEF Broadcast
<1>1. UNCHANGED <<Original, Outcome>>
  BY <1>0 DEF Original, Outcome, LastKind, LastOutcome, Logged
<1>2. mempool' \in {Fallback} \cup {m.psbt : m \in Contract!Proposed}
  BY DEF Broadcast, Contract!Proposed
<1>3. \A o \in Payloads : Settled[o] = NoPsbt /\ Settled'[o] = mempool'
  BY <1>0 DEF Settled
<1>4. Contract!Settle
  BY <1>0, <1>1, <1>2, <1>3 DEF Contract!Settle, Original, Outcome, Settled
<1> QED
  BY <1>4 DEF Contract!Next

(* The receiver session implements its contract: one Original PSBT, one       *)
(* message for the sender, and one outcome recorded only when it is what      *)
(* happened, for any number of crashes, storage errors, retries and replays   *)
(* (Receiver<Monitor>::check_for_transaction, create_post_request).           *)
THEOREM Refinement == Spec => ImplementsContract
<1>1. Init => Contract!Init
  BY DEF Init, Contract!Init, LastKind, Logged
<1>2. (IInv /\ IInv' /\ HInv) /\ [Next]_vars => [Contract!Next]_(Contract!contractVars)
  <2> SUFFICES ASSUME IInv, IInv', HInv, [Next]_vars
               PROVE  Contract!Next \/ UNCHANGED Contract!contractVars
    OBVIOUS
  <2>1. CASE Saves
    <3>1. Contract!Next \/ Unseen
      BY <2>1, SavesRefines DEF Saves
    <3> QED
      BY <3>1 DEF Unseen, Contract!contractVars, Original, Outcome, Settled
  <2>2. CASE UNCHANGED <<log, sent, mempool>>
    BY <2>2 DEF Contract!contractVars, LastKind, LastOutcome, Logged
  <2>3. ASSUME NEW s \in live, create_request(s)
        PROVE  Contract!Next \/ UNCHANGED Contract!contractVars
    <3>1. Contract!Next \/ Unseen
      BY <2>3, RequestRefines
    <3> QED
      BY <3>1 DEF Unseen, Contract!contractVars, Original, Outcome, Settled
  <2>4. CASE Broadcast
    <3>1. Contract!Next \/ Unseen
      BY <2>4, BroadcastRefines
    <3> QED
      BY <3>1 DEF Unseen, Contract!contractVars, Original, Outcome, Settled
  <2> QED
    BY <2>1, <2>2, <2>3, <2>4, NextSaves, RequestStep, MempoolStep
<1> QED
  BY <1>1, <1>2, HistoryInvariance, PTL DEF Spec, ImplementsContract, Contract!Spec
=============================================================================
