---------------------------- MODULE Cli_proofs ----------------------------
(***************************************************************************)
(* Theorems about the command line client, for any number of sessions,     *)
(* requests, URIs and relays: the receiving half first, BIP 77 sessions    *)
(* and BIP 78 requests together (a session that ends without a payjoin has *)
(* reported its fallback, and no outpoint gets past                        *)
(* check_no_inputs_seen_before twice), then the sending half.              *)
(*                                                                         *)
(* The first needs every step of the driver to be tied to the log it works *)
(* on, and completed_at to the ways a row is closed (Session).  The second *)
(* needs the outpoints that a check has written but not yet passed: what   *)
(* sessions and requests claim is in inputs_seen, and no two of them claim *)
(* the same outpoint (Claimed).                                            *)
(***************************************************************************)
EXTENDS CliV1, TLAPS

States == Open \cup ClosedStates
Cancelling == {"BroadcastFallback", "PrintFallback", "CloseFallback"}
Looking == {"SomeInputsNew", "InputsSeen", "InputsNew"}
Steps == States \cup Cancelling \cup Looking \cup {"Idle", "ChooseDirectory", "Closing"}

Outpoints == UNION Originals
V1Steps == {"None", "Posted", "SomeInputsNew", "Error", "PayjoinProposal"}
           \cup Checking \cup Building

(* Every variable the argument is about has its type. *)
SessionTypes ==
    /\ row = [s \in Ids |-> row[s]]
    /\ events \in [Ids -> States \cup {"None"}]
    /\ task \in [Ids -> Steps]
    /\ original = [s \in Ids |-> original[s]]
    /\ checked = [s \in Ids |-> checked[s]]
    /\ passed \subseteq Ids /\ fallback \subseteq Ids

ExchangeTypes ==
    /\ exchange \in [Exchanges -> [at : V1Steps, inputs : SUBSET Outpoints,
                                   checked : SUBSET Outpoints]]
    /\ payer = [x \in Exchanges |-> payer[x]]
    /\ passed_v1 \subseteq Exchanges

(* What holds of one session: its task works on its log, a task other than    *)
(* one that cancels has an active row, and a fallback exists only once the    *)
(* broadcast check passed and is reported before the session is closed, or    *)
(* its log was not read when it was closed and is still open.                 *)
Session(s) ==
    /\ row[s] = "None" => events[s] = "None" /\ task[s] = "Idle" /\ s \notin completed
    /\ task[s] \in States => events[s] = task[s]
    /\ task[s] \in Looking => events[s] = "MaybeInputsSeen"
    /\ task[s] \in Cancelling => events[s] = "PendingFallback"
    /\ task[s] = "ChooseDirectory" => events[s] = "None"
    /\ task[s] = "Closing" => events[s] \in ClosedStates
    /\ task[s] \notin Cancelling \cup {"Idle", "Closing"} => s \notin completed
    /\ s \in fallback => events[s] \notin {"None", "Initialized", "UncheckedOriginalPayload"}
    /\ task[s] = "CloseFallback" => s \in reported
    /\ s \in fallback /\ (s \in completed \/ events[s] \in ClosedStates) =>
           \/ s \in reported \/ events[s] \in ClosedStates \ {"Aborted"}
           \/ s \in unread /\ events[s] \in Open
    /\ s \in passed => events[s] \notin {"None", "Initialized"}
    /\ task[s] # "SomeInputsNew" => checked[s] = {}

(* What holds of one BIP 78 request. *)
Exchange(x) ==
    /\ payer[x] = "None" => exchange[x].at = "None" /\ x \notin passed_v1
    /\ exchange[x].at # "SomeInputsNew" => exchange[x].checked = {}

(* Only a process that runs a command of the v2 app has tasks. *)
Running == \A s \in Ids : task[s] # "Idle" => command \notin {"None", "receive_v1"}

(* The outpoints a session or request found to be new: all that it has if it  *)
(* passed the check, and the ones it wrote so far while it is at it.          *)
Claim(p) ==
    IF p \in Ids
    THEN IF p \in passed \/ task[p] = "InputsNew" THEN original[p] ELSE checked[p]
    ELSE IF p \in passed_v1 THEN exchange[p].inputs ELSE exchange[p].checked

Claimants == Ids \cup Exchanges
Claimed ==
    /\ \A p \in Claimants : Claim(p) \subseteq seen
    /\ \A p, q \in Claimants : p # q => Claim(p) \cap Claim(q) = {}

(* The inductive invariant. *)
IInv ==
    /\ SessionTypes /\ ExchangeTypes
    /\ \A s \in Ids : Session(s)
    /\ \A x \in Exchanges : Exchange(x)
    /\ Running
    /\ Claimed

-----------------------------------------------------------------------------
(* Claims *)

(* The claims of P after a step: at most one of them grew, by outpoints that  *)
(* the step added to inputs_seen.                                             *)
ClaimStep(P) ==
    /\ seen \subseteq seen'
    /\ \A p \in P : Claim(p)' \subseteq Claim(p) \cup (seen' \ seen)
    /\ \A p, q \in P : p # q => Claim(p)' \subseteq Claim(p) \/ Claim(q)' \subseteq Claim(q)

(* Such a step keeps the claims apart. *)
LEMMA ClaimsKept ==
    ASSUME Claimed, ClaimStep(Claimants)
    PROVE  Claimed'
<1>1. \A p \in Claimants : Claim(p)' \subseteq seen'
  BY DEF Claimed, ClaimStep
<1>2. ASSUME NEW p \in Claimants, NEW q \in Claimants, p # q
      PROVE  Claim(p)' \cap Claim(q)' = {}
  <2>1. Claim(p) \subseteq seen /\ Claim(q) \subseteq seen /\ Claim(p) \cap Claim(q) = {}
    BY <1>2 DEF Claimed
  <2>2. /\ Claim(p)' \subseteq Claim(p) \cup (seen' \ seen)
        /\ Claim(q)' \subseteq Claim(q) \cup (seen' \ seen)
        /\ Claim(p)' \subseteq Claim(p) \/ Claim(q)' \subseteq Claim(q)
    BY <1>2 DEF ClaimStep
  <2> QED  BY <2>1, <2>2
<1> QED  BY <1>1, <1>2 DEF Claimed, Claimants

-----------------------------------------------------------------------------
(* Steps of one session *)

(* The step leaves t alone. *)
Same(t) ==
    /\ row'[t] = row[t] /\ events'[t] = events[t] /\ task'[t] = task[t]
    /\ original'[t] = original[t] /\ checked'[t] = checked[t]
    /\ t \in completed' <=> t \in completed
    /\ t \in expired' <=> t \in expired
    /\ t \in fallback' <=> t \in fallback
    /\ t \in reported' <=> t \in reported
    /\ t \in passed' <=> t \in passed
    /\ t \in unread' <=> t \in unread

(* What a step of the v2 app has to keep. *)
SessionStep ==
    SessionTypes' /\ (\A t \in Ids : Session(t)') /\ Running' /\ ClaimStep(Ids)

LEMMA SameSession ==
    ASSUME NEW t \in Ids, Session(t), Same(t)
    PROVE  Session(t)'
BY DEF Session, Same

LEMMA SameClaim ==
    ASSUME NEW t \in Ids, Same(t)
    PROVE  Claim(t)' = Claim(t)
BY DEF Claim, Same

(* A step of session s, seen from the others. *)
LEMMA OneSession ==
    ASSUME IInv, NEW s \in Ids, \A t \in Ids \ {s} : Same(t), SessionTypes', Session(s)',
           Running', seen \subseteq seen', Claim(s)' \subseteq Claim(s) \cup (seen' \ seen)
    PROVE  SessionStep
<1>1. \A t \in Ids \ {s} : Session(t)' /\ Claim(t)' = Claim(t)
  BY SameSession, SameClaim DEF IInv
<1>2. \A t \in Ids : Session(t)'
  BY <1>1
<1>3. ClaimStep(Ids)
  BY <1>1 DEF ClaimStep
<1> QED  BY <1>2, <1>3 DEF SessionStep

(* A task that goes on, or returns, keeps Running. *)
LEMMA RunningKept ==
    ASSUME IInv, NEW s \in Ids, task[s] # "Idle",
           (\E k : Goto(s, k)) \/ Return(s)
    PROVE  Running'
<1>1. command \notin {"None", "receive_v1"} /\ task = [t \in Ids |-> task[t]]
  BY DEF IInv, Running, SessionTypes
<1>2. CASE \E k : Goto(s, k)
  BY <1>1, <1>2 DEF Goto, Running
<1>3. CASE Return(s)
  <2>1. CASE \A t \in Ids \ {s} : task[t] = "Idle"
    <3>1. \A t \in Ids : task'[t] = "Idle"
      BY <1>1, <1>3, <2>1 DEF Return
    <3> QED  BY <3>1 DEF Running
  <2>2. CASE ~\A t \in Ids \ {s} : task[t] = "Idle"
    BY <1>1, <1>3, <2>2 DEF Return, Running
  <2> QED  BY <2>1, <2>2
<1> QED  BY <1>2, <1>3

(* A step that saves e, goes on to k, and neither looks up outpoints nor      *)
(* passes the check.                                                          *)
LEMMA Saved ==
    ASSUME IInv, NEW s \in Ids, NEW e \in States \cup {"None"},
           NEW k \in Steps \ {"SomeInputsNew", "InputsNew"},
           task[s] # "Idle", Running',
           row' = row, seen' = seen, expired' = expired, original' = original,
           passed' = passed, unread' = unread,
           events' = [events EXCEPT ![s] = e], task' = [task EXCEPT ![s] = k],
           \/ checked' = checked /\ task[s] # "SomeInputsNew"
           \/ checked' = [checked EXCEPT ![s] = {}],
           completed' = completed \/ completed' = completed \cup {s},
           fallback' = fallback \/ fallback' = fallback \cup {s},
           reported' = reported \/ reported' = reported \cup {s},
           Session(s) => Session(s)'
    PROVE  SessionStep
<1>0. Session(s) /\ SessionTypes
  BY DEF IInv
<1>1. events'[s] = e /\ task'[s] = k /\ checked'[s] = {}
  BY <1>0 DEF SessionTypes, Session
<1>2. SessionTypes'
  BY <1>0 DEF SessionTypes
<1>3. ASSUME NEW t \in Ids \ {s} PROVE Same(t)
  BY <1>0 DEF Same, SessionTypes
<1>4. Claim(s)' \subseteq Claim(s)
  BY <1>0, <1>1 DEF Claim
<1> QED  BY <1>0, <1>2, <1>3, <1>4, OneSession

(* What may be saved next: e, with k as the next step. *)
Fits(s, e, k) ==
    /\ e \in States /\ k \in Steps \ (Looking \cup {"ChooseDirectory", "CloseFallback"})
    /\ k \in States => e = k
    /\ k = "Closing" => e \in ClosedStates
    /\ k \in Cancelling => e = "PendingFallback"
    /\ e = "Initialized" => s \notin passed
    /\ s \in fallback => e \notin {"Initialized", "UncheckedOriginalPayload"}
    /\ s \in fallback /\ e = "Aborted" => s \in reported
    /\ task[s] # "Closing" /\ (task[s] \in Cancelling => k = "Closing")

(* A step that saves e and goes on to k, or returns. *)
LEMMA SaveStep ==
    ASSUME IInv, NEW s \in Ids, NEW e, NEW k, task[s] \notin {"Idle", "SomeInputsNew"},
           Fits(s, e, k), save_event(s, e), Goto(s, k) \/ (Return(s) /\ k = "Idle"),
           UNCHANGED <<row, completed, seen, expired, original, checked, reported, passed, unread>>,
           \/ fallback' = fallback
           \/ fallback' = fallback \cup {s} /\ e \notin {"Initialized", "UncheckedOriginalPayload"}
                /\ e \notin ClosedStates /\ task[s] \notin Cancelling
    PROVE  SessionStep
<1>1. Session(s) /\ SessionTypes /\ Running'
  BY RunningKept DEF IInv
<1>2. events' = [events EXCEPT ![s] = e] /\ task' = [task EXCEPT ![s] = k]
  BY DEF save_event, Goto, Return
<1>3. events'[s] = e /\ task'[s] = k /\ checked'[s] = {}
  BY <1>1, <1>2 DEF SessionTypes, Session
<1>4. e # "None"
  BY DEF Fits, States, Open, Posting, Checking, Building, ClosedStates
<1>a. "PendingFallback" \notin ClosedStates /\ e \in Open \cup ClosedStates
  BY DEF ClosedStates, Fits, States
<1>b. /\ s \in completed => task[s] \in Cancelling /\ events[s] = "PendingFallback"
      /\ s \in completed => k = "Closing"
  BY <1>1 DEF Session, Fits
<1>c. s \in fallback' /\ (s \in completed' \/ e \in ClosedStates) =>
           \/ s \in reported \/ e \in ClosedStates \ {"Aborted"}
           \/ s \in unread /\ e \in Open
  BY <1>1, <1>a, <1>b DEF Session, Fits
<1>5. Session(s)'
  BY <1>1, <1>3, <1>4, <1>b, <1>c DEF Session, Fits, Looking, Cancelling
<1>6. e \in States \cup {"None"} /\ k \in Steps \ {"SomeInputsNew", "InputsNew"}
  BY DEF Fits, Looking
<1> QED  BY <1>1, <1>2, <1>5, <1>6, Saved

(* A step that only returns; r says whether it reported the fallback and c    *)
(* whether it closed the session.                                             *)
LEMMA ReturnStep ==
    ASSUME IInv, NEW s \in Ids, task[s] # "Idle", Return(s),
           UNCHANGED <<row, events, seen, expired, original, fallback, passed, unread>>,
           \/ checked' = checked /\ task[s] # "SomeInputsNew"
           \/ checked' = [checked EXCEPT ![s] = {}],
           reported' = reported \/ reported' = reported \cup {s},
           \/ completed' = completed
           \/ /\ completed' = completed \cup {s}
              /\ s \in fallback => s \in reported' \/ events[s] \in ClosedStates \ {"Aborted"}
    PROVE  SessionStep
<1>1. Session(s) /\ SessionTypes /\ Running'
  BY RunningKept DEF IInv
<1>2. events' = [events EXCEPT ![s] = events[s]] /\ task' = [task EXCEPT ![s] = "Idle"]
  BY <1>1 DEF Return, SessionTypes
<1>3. events'[s] = events[s] /\ task'[s] = "Idle" /\ checked'[s] = {}
  BY <1>1, <1>2 DEF SessionTypes, Session
<1>4. "Idle" \notin States \cup Looking \cup Cancelling
  BY DEF States, Open, Posting, Checking, Building, ClosedStates, Looking, Cancelling
<1>5. Session(s)'
  BY <1>1, <1>3, <1>4 DEF Session
<1>6. events[s] \in States \cup {"None"} /\ "Idle" \in Steps \ {"SomeInputsNew", "InputsNew"}
  BY <1>1 DEF SessionTypes, Steps
<1> QED  BY <1>1, <1>2, <1>5, <1>6, Saved

(* The replyable errors of the checks. *)
LEMMA ErrorStep ==
    ASSUME IInv, NEW s \in Ids, task[s] \in Checking \cup {"InputsSeen"}, ReplyableError(s),
           UNCHANGED <<seen, sessionVars>>
    PROVE  SessionStep
<1>1. task[s] \notin {"Idle", "SomeInputsNew"}
  BY DEF Checking
<1>2. Fits(s, "HasReplyableError", "Idle")
  BY DEF Fits, States, Steps, Open, Posting, Checking, Building, ClosedStates, Looking,
         Cancelling
<1> QED  BY <1>1, <1>2, SaveStep DEF ReplyableError, sessionVars

(* The check of the outpoints: a new one is claimed with its insertion. *)
LEMMA LookStep ==
    ASSUME IInv, NEW s \in Ids, check_no_inputs_seen_before(s)
    PROVE  SessionStep
<1>1. Session(s) /\ SessionTypes /\ Claimed /\ s \in Claimants
  BY DEF IInv, Claimants
<1>2. PICK o \in original[s] \ checked[s], was_seen_before \in BOOLEAN :
        /\ insert_input_seen_before(o, was_seen_before)
        /\ Goto(s, IF was_seen_before THEN "InputsSeen"
                   ELSE IF checked[s] \cup {o} = original[s] THEN "InputsNew"
                   ELSE "SomeInputsNew")
        /\ checked' = [checked EXCEPT ![s] =
                          IF task'[s] = "SomeInputsNew" THEN checked[s] \cup {o} ELSE {}]
  BY DEF check_no_inputs_seen_before
<1> DEFINE k == IF was_seen_before THEN "InputsSeen"
                ELSE IF checked[s] \cup {o} = original[s] THEN "InputsNew"
                ELSE "SomeInputsNew"
           ch == IF k = "SomeInputsNew" THEN checked[s] \cup {o} ELSE {}
<1>3. /\ task[s] \in {"MaybeInputsSeen", "SomeInputsNew"}
      /\ UNCHANGED <<row, completed, events, expired, original, fallback, reported, passed, unread>>
      /\ was_seen_before = (o \in seen) /\ seen' = seen \cup {o}
      /\ task' = [task EXCEPT ![s] = k]
  BY <1>2 DEF check_no_inputs_seen_before, insert_input_seen_before, Goto
<1>4. task'[s] = k
  BY <1>1, <1>3 DEF SessionTypes
<1>5. checked' = [checked EXCEPT ![s] = ch]
  BY <1>2, <1>4
<1>6. checked'[s] = ch /\ k \in Looking
  BY <1>1, <1>5 DEF SessionTypes, Looking
<1>7. Running'
  BY <1>2, <1>3, RunningKept
<1>8. SessionTypes'
  <2>1. k \in Steps
    BY <1>6 DEF Steps
  <2> QED  BY <1>1, <1>3, <1>5, <2>1 DEF SessionTypes
<1>9. events[s] = "MaybeInputsSeen"
  BY <1>1, <1>3 DEF Session, States, Open, Checking, Looking
<1>10. Session(s)'
  <2>1. k \notin States \cup Cancelling \cup {"Idle", "ChooseDirectory", "Closing"}
    BY DEF States, Open, Posting, Checking, Building, ClosedStates, Cancelling
  <2>2. k # "SomeInputsNew" => ch = {}
    OBVIOUS
  <2>3. "MaybeInputsSeen" \notin ClosedStates \cup {"Idle"}
    BY DEF ClosedStates
  <2>4. task[s] # "Idle"
    BY <1>3
  <2> HIDE DEF k, ch
  <2> QED  BY <1>1, <1>3, <1>4, <1>6, <1>9, <2>1, <2>2, <2>3, <2>4 DEF Session, Cancelling
<1>11. ASSUME NEW t \in Ids \ {s} PROVE Same(t)
  <2> HIDE DEF k, ch
  <2> QED  BY <1>1, <1>3, <1>5 DEF Same, SessionTypes
<1>12. Claim(s)' \subseteq Claim(s) \cup (seen' \ seen)
  <2>1. CASE s \in passed
    BY <1>3, <2>1 DEF Claim
  <2>2. CASE s \notin passed /\ o \in seen
    <3>1. k = "InputsSeen" /\ ch = {}
      BY <1>3, <2>2
    <3> QED  BY <1>3, <1>4, <1>6, <2>2, <3>1 DEF Claim
  <2>3. CASE s \notin passed /\ o \notin seen
    <3>1. Claim(s) = checked[s]
      BY <1>3, <2>3 DEF Claim
    <3>2. \/ k = "InputsNew" /\ original[s] = checked[s] \cup {o}
          \/ k = "SomeInputsNew" /\ ch = checked[s] \cup {o}
      <4>1. was_seen_before = FALSE
        BY <1>3, <2>3
      <4>2. CASE checked[s] \cup {o} = original[s]
        BY <4>1, <4>2
      <4>3. CASE checked[s] \cup {o} # original[s]
        <5>1. k = "SomeInputsNew"
          BY <4>1, <4>3
        <5> QED  BY <5>1
      <4> QED  BY <4>2, <4>3
    <3>3. Claim(s)' = checked[s] \cup {o}
      <4> HIDE DEF k, ch
      <4> QED  BY <1>3, <1>4, <1>6, <2>3, <3>2 DEF Claim
    <3> QED  BY <1>3, <2>3, <3>1, <3>3
  <2> QED  BY <2>1, <2>2, <2>3
<1> QED  BY <1>3, <1>7, <1>8, <1>10, <1>11, <1>12, OneSession

(* save_checked_inputs: the session passed with what it claimed. *)
LEMMA PassStep ==
    ASSUME IInv, NEW s \in Ids, task[s] = "InputsNew",
           SaveGoto(s, "OutputsUnknown", "OutputsUnknown"), passed' = passed \cup {s},
           UNCHANGED <<original, checked, fallback, reported, unread>>
    PROVE  SessionStep
<1>1. Session(s) /\ SessionTypes
  BY DEF IInv
<1>2. /\ events' = [events EXCEPT ![s] = "OutputsUnknown"]
      /\ task' = [task EXCEPT ![s] = "OutputsUnknown"] /\ Goto(s, "OutputsUnknown")
      /\ UNCHANGED <<row, completed, seen, expired>>
  BY DEF SaveGoto, save_event, Goto
<1>3. events'[s] = "OutputsUnknown" /\ task'[s] = "OutputsUnknown"
  BY <1>1, <1>2 DEF SessionTypes
<1>4. /\ "OutputsUnknown" \in States /\ "OutputsUnknown" \notin ClosedStates
      /\ "OutputsUnknown" \notin Looking \cup Cancelling
  BY DEF States, Open, Checking, Looking, Cancelling, ClosedStates
<1>a. s \notin completed
  BY <1>1 DEF Session, Cancelling
<1>5. Session(s)'
  BY <1>1, <1>2, <1>3, <1>4, <1>a DEF Session
<1>6. SessionTypes'
  BY <1>1, <1>2, <1>4 DEF SessionTypes, Steps
<1>7. ASSUME NEW t \in Ids \ {s} PROVE Same(t)
  BY <1>1, <1>2 DEF Same, SessionTypes
<1>8. Claim(s)' = Claim(s)
  BY DEF Claim
<1>9. Running'
  BY <1>2, RunningKept
<1> QED  BY <1>2, <1>5, <1>6, <1>7, <1>8, <1>9, OneSession

(* read_from_directory with a payload: nothing was claimed before. *)
LEMMA ReadStep ==
    ASSUME IInv, NEW s \in Ids, task[s] = "Initialized",
           NEW O, original' = [original EXCEPT ![s] = O],
           SaveGoto(s, "UncheckedOriginalPayload", "UncheckedOriginalPayload"),
           UNCHANGED <<checked, fallback, reported, passed, unread>>
    PROVE  SessionStep
<1>1. Session(s) /\ SessionTypes
  BY DEF IInv
<1>2. /\ events' = [events EXCEPT ![s] = "UncheckedOriginalPayload"]
      /\ task' = [task EXCEPT ![s] = "UncheckedOriginalPayload"]
      /\ Goto(s, "UncheckedOriginalPayload")
      /\ UNCHANGED <<row, completed, seen, expired>>
  BY DEF SaveGoto, save_event, Goto
<1>3. events'[s] = "UncheckedOriginalPayload" /\ task'[s] = "UncheckedOriginalPayload"
  BY <1>1, <1>2 DEF SessionTypes
<1>4. /\ "UncheckedOriginalPayload" \in States
      /\ "UncheckedOriginalPayload" \notin ClosedStates \cup Looking \cup Cancelling
      /\ "Initialized" \in States
  BY DEF States, Open, Posting, Checking, Looking, Cancelling, ClosedStates
<1>5. Session(s)' /\ s \notin passed
  BY <1>1, <1>2, <1>3, <1>4 DEF Session
<1>6. SessionTypes'
  BY <1>1, <1>2, <1>4 DEF SessionTypes, Steps
<1>7. ASSUME NEW t \in Ids \ {s} PROVE Same(t)
  BY <1>1, <1>2 DEF Same, SessionTypes
<1>8. Claim(s)' = Claim(s)
  BY <1>3, <1>5 DEF Claim
<1>9. Running'
  BY <1>2, RunningKept
<1> QED  BY <1>2, <1>5, <1>6, <1>7, <1>8, <1>9, OneSession

(* Every step of a task keeps what it has to. *)
LEMMA TaskInv ==
    ASSUME IInv, NEW s \in Ids, TaskStep(s)
    PROVE  SessionStep
<1>1. Session(s) /\ SessionTypes
  BY DEF IInv
<1>2. ASSUME NEW e, NEW k, SaveGoto(s, e, k), Fits(s, e, k),
             task[s] \notin {"Idle", "SomeInputsNew"},
             UNCHANGED <<original, checked, fallback, reported, passed, unread>>
      PROVE  SessionStep
  BY <1>2, SaveStep DEF SaveGoto
<1>3. CASE \/ fetch_ohttp_keys(s)
           \/ task[s] \in Posting /\ RelayFails(s) /\ UNCHANGED sessionVars
  <2>1. UNCHANGED <<row, completed, events, seen, task, command, expired, sessionVars>>
    BY <1>3 DEF fetch_ohttp_keys, RelayFails, storeVars
  <2>2. \A t \in Ids : Same(t)
    BY <2>1 DEF Same, sessionVars
  <2>3. SessionTypes' /\ Running' /\ Session(s)' /\ Claim(s)' = Claim(s)
    BY <2>1, <2>2, SameSession, SameClaim DEF IInv, SessionTypes, Running, sessionVars
  <2> QED  BY <2>1, <2>2, <2>3, OneSession
<1>4. CASE build(s)
  <2>1. /\ task[s] = "ChooseDirectory" /\ SaveGoto(s, "Initialized", "Initialized")
        /\ UNCHANGED sessionVars
    BY <1>4 DEF build
  <2>2. Fits(s, "Initialized", "Initialized")
    BY <1>1, <2>1
    DEF Fits, Session, States, Steps, Open, Posting, Checking, Building, ClosedStates,
        Looking, Cancelling
  <2> QED  BY <1>2, <2>1, <2>2 DEF sessionVars
<1>5. CASE read_from_directory(s)
  <2>1. task[s] = "Initialized" /\ UNCHANGED <<checked, fallback, reported, passed, unread>>
    BY <1>5 DEF read_from_directory
  <2>2. CASE /\ \E O \in Originals : original' = [original EXCEPT ![s] = O]
             /\ SaveGoto(s, "UncheckedOriginalPayload", "UncheckedOriginalPayload")
    BY <2>1, <2>2, ReadStep
  <2>3. CASE SaveGoto(s, "Aborted", "Closing") /\ UNCHANGED original
    <3>1. Fits(s, "Aborted", "Closing")
      BY <1>1, <2>1
      DEF Fits, Session, States, Steps, Open, Posting, Checking, Building, ClosedStates,
        Looking, Cancelling
    <3> QED  BY <1>2, <2>1, <2>3, <3>1
  <2> QED  BY <1>5, <2>2, <2>3 DEF read_from_directory
<1>6. CASE check_proposal(s)
  <2>1. /\ task[s] = "UncheckedOriginalPayload"
        /\ UNCHANGED <<original, checked, reported, passed, unread>>
    BY <1>6 DEF check_proposal
  <2>2. CASE /\ SaveGoto(s, "MaybeInputsOwned", "MaybeInputsOwned")
             /\ fallback' = fallback \cup {s}
    <3>1. Fits(s, "MaybeInputsOwned", "MaybeInputsOwned")
      BY <1>1, <2>1
      DEF Fits, Session, States, Steps, Open, Posting, Checking, Building, ClosedStates,
        Looking, Cancelling
    <3>2. /\ "MaybeInputsOwned" \notin ClosedStates \cup {"Initialized", "UncheckedOriginalPayload"}
          /\ task[s] \notin Cancelling
      BY <2>1 DEF ClosedStates, Cancelling
    <3> QED  BY <2>1, <2>2, <3>1, <3>2, SaveStep DEF SaveGoto
  <2>3. CASE ReplyableError(s) /\ UNCHANGED <<seen, fallback>>
    BY <2>1, <2>3, ErrorStep DEF Checking, sessionVars
  <2> QED  BY <1>6, <2>2, <2>3 DEF check_proposal
<1>7. CASE check_inputs_not_owned(s)
  <2>1. task[s] = "MaybeInputsOwned" /\ UNCHANGED sessionVars
    BY <1>7 DEF check_inputs_not_owned
  <2>2. CASE SaveGoto(s, "MaybeInputsSeen", "MaybeInputsSeen")
    <3>1. Fits(s, "MaybeInputsSeen", "MaybeInputsSeen")
      BY <1>1, <2>1
      DEF Fits, Session, States, Steps, Open, Posting, Checking, Building, ClosedStates,
        Looking, Cancelling
    <3> QED  BY <1>2, <2>1, <2>2, <3>1 DEF sessionVars
  <2>3. CASE ReplyableError(s) /\ UNCHANGED seen
    BY <2>1, <2>3, ErrorStep DEF Checking
  <2> QED  BY <1>7, <2>2, <2>3 DEF check_inputs_not_owned
<1>8. CASE check_no_inputs_seen_before(s)
  BY <1>8, LookStep
<1>9. CASE save_checked_inputs(s)
  <2>1. CASE task[s] = "InputsNew" /\ SaveGoto(s, "OutputsUnknown", "OutputsUnknown")
             /\ passed' = passed \cup {s}
    BY <1>9, <2>1, PassStep DEF save_checked_inputs
  <2>2. CASE task[s] = "InputsSeen" /\ ReplyableError(s) /\ UNCHANGED <<seen, passed, unread>>
    BY <1>9, <2>2, ErrorStep DEF save_checked_inputs, sessionVars
  <2> QED  BY <1>9, <2>1, <2>2 DEF save_checked_inputs
<1>10. CASE identify_receiver_outputs(s)
  <2>1. task[s] = "OutputsUnknown" /\ UNCHANGED sessionVars
    BY <1>10 DEF identify_receiver_outputs
  <2>2. CASE SaveGoto(s, "WantsOutputs", "WantsOutputs")
    <3>1. Fits(s, "WantsOutputs", "WantsOutputs")
      BY <1>1, <2>1
      DEF Fits, Session, States, Steps, Open, Posting, Checking, Building, ClosedStates,
        Looking, Cancelling
    <3> QED  BY <1>2, <2>1, <2>2, <3>1 DEF sessionVars
  <2>3. CASE ReplyableError(s) /\ UNCHANGED seen
    BY <2>1, <2>3, ErrorStep DEF Checking
  <2> QED  BY <1>10, <2>2, <2>3 DEF identify_receiver_outputs
<1>11. CASE broadcast_fallback(s)
  <2>1. /\ task[s] \in {"BroadcastFallback", "PrintFallback"}
        /\ Goto(s, "CloseFallback") /\ reported' = reported \cup {s}
        /\ UNCHANGED <<row, completed, events, seen, expired, original, checked, fallback,
                       passed, unread>>
    BY <1>11 DEF broadcast_fallback, storeVars
  <2>2. /\ task' = [task EXCEPT ![s] = "CloseFallback"] /\ Running'
        /\ events' = [events EXCEPT ![s] = events[s]]
    BY <1>1, <2>1, RunningKept DEF Goto, SessionTypes
  <2>3. task'[s] = "CloseFallback" /\ events[s] = "PendingFallback" /\ checked'[s] = {}
    BY <1>1, <2>1, <2>2 DEF Session, SessionTypes, Cancelling
  <2>4. /\ "CloseFallback" \notin States \cup Looking \cup {"Idle", "ChooseDirectory", "Closing"}
        /\ "CloseFallback" \in Steps \ {"SomeInputsNew", "InputsNew"}
        /\ "PendingFallback" \in States
    BY DEF States, Steps, Open, Posting, Checking, Building, ClosedStates, Looking, Cancelling
  <2>5. Session(s)'
    BY <1>1, <2>1, <2>3, <2>4 DEF Session, Cancelling
  <2> QED  BY <2>1, <2>2, <2>3, <2>4, <2>5, Saved
<1>12. CASE report_expired(s)
  <2>1. /\ task[s] \in Posting /\ s \in expired /\ Return(s)
        /\ completed' = completed \/ completed' = completed \cup {s}
        /\ reported' = reported \cup ExpiredFallbacks({s})
        /\ UNCHANGED <<row, events, seen, expired, original, checked, fallback, passed, unread>>
    BY <1>12 DEF report_expired, finalize_expired_session, close
  <2>2. events[s] = task[s] /\ task[s] \notin ClosedStates \cup {"Idle", "SomeInputsNew"}
    BY <1>1, <2>1 DEF Session, States, Open, Posting, ClosedStates
  <2>3. reported' = IF s \in fallback THEN reported \cup {s} ELSE reported
    BY <2>1, <2>2 DEF ExpiredFallbacks, Replays
  <2> QED  BY <2>1, <2>2, <2>3, ReturnStep
<1>13. CASE commit_outputs(s) /\ UNCHANGED sessionVars
  <2>1. task[s] = "WantsOutputs" /\ SaveGoto(s, "WantsInputs", "WantsInputs")
    BY <1>13 DEF commit_outputs
  <2>2. Fits(s, "WantsInputs", "WantsInputs")
    BY <1>1, <2>1
    DEF Fits, Session, States, Steps, Open, Posting, Checking, Building, ClosedStates,
        Looking, Cancelling
  <2> QED  BY <1>2, <1>13, <2>1, <2>2 DEF sessionVars
<1>14. CASE contribute_inputs(s) /\ UNCHANGED sessionVars
  <2>1. task[s] = "WantsInputs" /\ SaveGoto(s, "WantsFeeRange", "WantsFeeRange")
    BY <1>14 DEF contribute_inputs
  <2>2. Fits(s, "WantsFeeRange", "WantsFeeRange")
    BY <1>1, <2>1
    DEF Fits, Session, States, Steps, Open, Posting, Checking, Building, ClosedStates,
        Looking, Cancelling
  <2> QED  BY <1>2, <1>14, <2>1, <2>2 DEF sessionVars
<1>15. CASE apply_fee_range(s) /\ UNCHANGED sessionVars
  <2>1. task[s] = "WantsFeeRange" /\ SaveGoto(s, "ProvisionalProposal", "ProvisionalProposal")
    BY <1>15 DEF apply_fee_range
  <2>2. Fits(s, "ProvisionalProposal", "ProvisionalProposal")
    BY <1>1, <2>1
    DEF Fits, Session, States, Steps, Open, Posting, Checking, Building, ClosedStates,
        Looking, Cancelling
  <2> QED  BY <1>2, <1>15, <2>1, <2>2 DEF sessionVars
<1>16. CASE finalize_proposal(s) /\ UNCHANGED sessionVars
  <2>1. task[s] = "ProvisionalProposal" /\ SaveGoto(s, "PayjoinProposal", "PayjoinProposal")
    BY <1>16 DEF finalize_proposal
  <2>2. Fits(s, "PayjoinProposal", "PayjoinProposal")
    BY <1>1, <2>1
    DEF Fits, Session, States, Steps, Open, Posting, Checking, Building, ClosedStates,
        Looking, Cancelling
  <2> QED  BY <1>2, <1>16, <2>1, <2>2 DEF sessionVars
<1>17. CASE send_payjoin_proposal(s) /\ UNCHANGED sessionVars
  <2>1. task[s] = "PayjoinProposal"
    BY <1>17 DEF send_payjoin_proposal
  <2>2. Fits(s, "Monitor", "Monitor") /\ Fits(s, "PendingFallback", "Idle")
    BY <1>1, <2>1
    DEF Fits, Session, States, Steps, Open, Posting, Checking, Building, ClosedStates,
        Looking, Cancelling
  <2>3. CASE SaveGoto(s, "Monitor", "Monitor")
    BY <1>2, <1>17, <2>1, <2>2, <2>3 DEF sessionVars
  <2>4. CASE /\ save_event(s, "PendingFallback") /\ Return(s)
             /\ UNCHANGED <<row, completed, seen, expired, broadcast>>
    BY <1>17, <2>1, <2>2, <2>4, SaveStep DEF sessionVars
  <2> QED  BY <1>17, <2>3, <2>4 DEF send_payjoin_proposal
<1>18. CASE handle_error(s) /\ UNCHANGED sessionVars
  <2>1. task[s] = "HasReplyableError"
    BY <1>18 DEF handle_error
  <2>2. /\ Fits(s, "PendingFallback", "PendingFallback")
        /\ s \notin fallback => Fits(s, "Aborted", "Closing")
    BY <1>1, <2>1
    DEF Fits, Session, States, Steps, Open, Posting, Checking, Building, ClosedStates,
        Looking, Cancelling
  <2> QED  BY <1>2, <1>18, <2>1, <2>2 DEF handle_error, sessionVars
<1>19. CASE monitor_payjoin_proposal(s) /\ UNCHANGED sessionVars
  <2>1. PICK outcome \in {"Success", "FallbackBroadcasted", "PayjoinProposalSent"} :
          SaveGoto(s, outcome, "Closing")
    BY <1>19 DEF monitor_payjoin_proposal
  <2>2. task[s] = "Monitor"
    BY <1>19 DEF monitor_payjoin_proposal
  <2>3. Fits(s, outcome, "Closing")
    BY <1>1, <2>2
    DEF Fits, Session, States, Steps, Open, Posting, Checking, Building, ClosedStates,
        Looking, Cancelling
  <2> QED  BY <1>2, <1>19, <2>1, <2>2, <2>3 DEF sessionVars
<1>20. CASE FinishClose(s) /\ UNCHANGED sessionVars
  <2>1. /\ task[s] = "Closing" /\ Return(s) /\ completed' = completed \cup {s}
        /\ UNCHANGED <<row, events, seen, expired, original, checked, fallback, reported,
                       passed, unread>>
    BY <1>20 DEF FinishClose, close, sessionVars
  <2>2. /\ events[s] \in ClosedStates
        /\ s \in fallback => s \in reported' \/ events[s] \in ClosedStates \ {"Aborted"}
    <3>1. ClosedStates \cap Open = {}
      BY DEF ClosedStates, Open, Posting, Checking, Building
    <3> QED  BY <1>1, <2>1, <3>1 DEF Session
  <2> QED  BY <2>1, <2>2, ReturnStep
<1>21. CASE Terminal(s) /\ UNCHANGED sessionVars
  <2>1. /\ task[s] \notin {"Idle", "SomeInputsNew"} /\ Return(s)
        /\ UNCHANGED <<row, completed, events, seen, expired, original, checked, fallback,
                       reported, passed, unread>>
    BY <1>21 DEF Terminal, storeVars, sessionVars, ClosedStates
  <2> QED  BY <2>1, ReturnStep
<1>22. CASE close_fallback(s) /\ UNCHANGED sessionVars
  <2>1. task[s] = "CloseFallback" /\ SaveGoto(s, "Aborted", "Closing")
    BY <1>22 DEF close_fallback
  <2>2. Fits(s, "Aborted", "Closing")
    BY <1>1, <2>1
    DEF Fits, Session, States, Steps, Open, Posting, Checking, Building, ClosedStates,
        Looking, Cancelling
  <2> QED  BY <1>2, <1>22, <2>1, <2>2 DEF sessionVars
<1>23. CASE /\ task[s] # "Idle" /\ CallFails(s)
            /\ checked' = [checked EXCEPT ![s] = {}]
            /\ UNCHANGED <<original, fallback, reported, passed, unread>>
  <2>1. Return(s) /\ UNCHANGED <<row, completed, events, seen, expired>>
    BY <1>23 DEF CallFails, storeVars
  <2> QED  BY <1>23, <2>1, ReturnStep
<1> QED
  BY <1>3, <1>4, <1>5, <1>6, <1>7, <1>8, <1>9, <1>10, <1>11, <1>12, <1>13, <1>14, <1>15,
     <1>16, <1>17, <1>18, <1>19, <1>20, <1>21, <1>22, <1>23
  DEF TaskStep

-----------------------------------------------------------------------------
(* Commands *)

(* No process runs, so no session has a task. *)
LEMMA IdleTasks ==
    ASSUME IInv, Idle
    PROVE  \A t \in Ids : task[t] = "Idle" /\ checked[t] = {} /\ Session(t)
BY DEF IInv, Idle, Running, Session

(* A command leaves the claims as they are. *)
LEMMA CommandStep ==
    ASSUME IInv, Idle, SessionTypes', \A t \in Ids : Session(t)', Running',
           UNCHANGED <<seen, original, checked, passed>>,
           \A t \in Ids : task'[t] # "InputsNew"
    PROVE  SessionStep
<1>1. \A t \in Ids : task[t] = "Idle"
  BY IdleTasks
<1>2. \A t \in Ids : Claim(t)' = Claim(t)
  BY <1>1 DEF Claim
<1> QED  BY <1>2 DEF SessionStep, ClaimStep

LEMMA StartRunning ==
    ASSUME NEW c \in {"receive", "resume", "cancel"}, NEW S, NEW state, Start(c, S, state)
    PROVE  Running' /\ Idle
BY DEF Start, Running

(* receive inserts a row with no events. *)
LEMMA ReceiveStep ==
    ASSUME IInv, NEW u \in Uris, receive_payjoin(u)
    PROVE  SessionStep
<1>1. PICK s \in Ids : /\ insert_session(s, u)
                       /\ Start("receive", {s}, [t \in Ids |-> "ChooseDirectory"])
  BY DEF receive_payjoin
<1>2. Idle /\ Running' /\ SessionTypes
  BY <1>1, StartRunning DEF IInv
<1>3. /\ row[s] = "None" /\ row' = [row EXCEPT ![s] = u]
      /\ task' = [t \in Ids |-> IF t = s THEN "ChooseDirectory" ELSE "Idle"]
      /\ UNCHANGED <<completed, events, seen, expired, original, checked, fallback, reported,
                     passed, unread>>
  <2>1. task' = [t \in Ids |-> IF t \in {s} THEN [r \in Ids |-> "ChooseDirectory"][t]
                                            ELSE "Idle"]
    BY <1>1 DEF Start
  <2>2. task' = [t \in Ids |-> IF t = s THEN "ChooseDirectory" ELSE "Idle"]
    BY <2>1
  <2> QED  BY <1>1, <2>2 DEF insert_session, Rows, receive_payjoin, sessionVars
<1>4. SessionTypes'
  BY <1>2, <1>3 DEF SessionTypes, Steps
<1>5. ASSUME NEW t \in Ids PROVE Session(t)'
  <2>1. task[t] = "Idle" /\ checked[t] = {} /\ Session(t)
    BY <1>2, IdleTasks
  <2>2. {"ChooseDirectory", "Idle"} \cap (States \cup Looking \cup Cancelling) = {}
    BY DEF States, Steps, Open, Posting, Checking, Building, ClosedStates, Looking,
                    Cancelling
  <2>3. CASE t = s
    <3>1. events[t] = "None" /\ t \notin completed
      BY <1>3, <2>1, <2>3 DEF Session
    <3>2. task'[t] = "ChooseDirectory" /\ row'[t] = u /\ u # "None"
      BY <1>2, <1>3, <2>3, UriAssumption DEF SessionTypes
    <3> QED  BY <1>3, <2>1, <2>2, <3>1, <3>2 DEF Session, ClosedStates
  <2>4. CASE t # s
    <3>1. task'[t] = "Idle" /\ row'[t] = row[t]
      BY <1>2, <1>3, <2>4 DEF SessionTypes
    <3> QED  BY <1>3, <2>1, <2>2, <3>1 DEF Session
  <2> QED  BY <2>3, <2>4
<1>6. \A t \in Ids : task'[t] # "InputsNew"
  BY <1>3
<1> QED  BY <1>2, <1>3, <1>4, <1>5, <1>6, CommandStep

(* resume drives the sessions that replay, reports the expired ones it        *)
(* closes, and closes those it could not read.                                *)
LEMMA ResumeStep ==
    ASSUME IInv, NEW S \in SUBSET Ids, NEW L \in SUBSET S, NEW C \in SUBSET S, Resume(S, L, C)
    PROVE  SessionStep
<1>1. /\ Start("resume", {t \in S \ L : Replays(t)}, events)
      /\ completed' = completed \cup C /\ C \subseteq L \cup {t \in S : ~Replays(t)}
      /\ S \subseteq active_session_ids
      /\ reported' = reported \cup ExpiredFallbacks(C \ L)
      /\ unread' = unread \cup (C \cap L \cap fallback)
      /\ UNCHANGED <<row, events, seen, expired, original, checked, fallback, passed>>
  BY DEF Resume, resume_payjoins, close
<1>2. Idle /\ Running' /\ SessionTypes
  BY <1>1, StartRunning DEF IInv
<1>3. task' = [t \in Ids |-> IF t \in {r \in S \ L : Replays(r)} THEN events[t] ELSE "Idle"]
  BY <1>1 DEF Start
<1>4. \A t \in Ids :
         \/ task'[t] = "Idle"
         \/ t \in S \ L /\ Replays(t) /\ task'[t] = events[t] /\ events[t] # "None"
  BY <1>3 DEF Replays
<1>5. SessionTypes'
  <2>1. \A t \in Ids : task'[t] \in Steps
    BY <1>2, <1>4 DEF SessionTypes, Steps
  <2> QED  BY <1>1, <1>2, <1>3, <2>1 DEF SessionTypes
<1>6. \A t \in Ids : task'[t] \in States \cup {"Idle"}
  BY <1>2, <1>4 DEF SessionTypes
<1>7. (States \cup {"Idle"}) \cap (Looking \cup Cancelling \cup {"ChooseDirectory", "Closing"})
        = {}
  BY DEF States, Steps, Open, Posting, Checking, Building, ClosedStates, Looking,
                    Cancelling
<1>8. ASSUME NEW t \in Ids PROVE Session(t)'
  <2>1. task[t] = "Idle" /\ checked[t] = {} /\ Session(t)
    BY <1>2, IdleTasks
  <2>2. task'[t] \notin Looking \cup Cancelling \cup {"ChooseDirectory", "Closing"}
    BY <1>6, <1>7
  <2>3. task'[t] # "Idle" => t \notin completed' /\ row[t] # "None" /\ events[t] = task'[t]
    BY <1>1, <1>4 DEF active_session_ids, Rows
  <2>4. task'[t] \in States => task'[t] # "Idle"
    BY DEF States, Steps, Open, Posting, Checking, Building, ClosedStates, Looking,
                    Cancelling
  <2>5. t \in C => row[t] # "None" /\ (t \in L \/ ~Replays(t))
    BY <1>1 DEF active_session_ids, Rows
  <2>6. t \in C \ L => events[t] = "None" \/ (t \in expired /\ events[t] \notin ClosedStates)
    BY <2>5 DEF Replays
  <2>7. t \in C \ L /\ t \in fallback => t \in reported'
    BY <1>1, <2>1, <2>5, <2>6 DEF ExpiredFallbacks, Session
  <2>a. t \in fallback => events[t] \in Open \cup ClosedStates
    BY <1>2, <2>1 DEF Session, SessionTypes, States
  <2>b. t \in fallback /\ (t \in completed' \/ events[t] \in ClosedStates) =>
           \/ t \in reported' \/ events[t] \in ClosedStates \ {"Aborted"}
           \/ t \in unread' /\ events[t] \in Open
    <3>1. CASE t \in C /\ t \in L /\ events[t] \in Open
      BY <1>1, <3>1
    <3>2. CASE t \in C \ L
      BY <2>7, <3>2
    <3>3. CASE t \notin C \/ events[t] \in ClosedStates
      BY <1>1, <2>1, <3>3 DEF Session
    <3> QED  BY <2>a, <3>1, <3>2, <3>3
  <2>8. "CloseFallback" \in Cancelling /\ "SomeInputsNew" \in Looking
    BY DEF Cancelling, Looking
  <2> QED  BY <1>1, <2>1, <2>2, <2>3, <2>4, <2>5, <2>b, <2>8 DEF Session
<1>9. \A t \in Ids : task'[t] # "InputsNew"
  BY <1>6, <1>7 DEF Looking
<1> QED  BY <1>1, <1>2, <1>5, <1>8, <1>9, CommandStep

(* cancel saves the end of a session without a fallback, and PendingFallback  *)
(* for one that has it to report.                                             *)
LEMMA CancelStep ==
    ASSUME IInv, NEW s \in Ids, NEW step \in {"BroadcastFallback", "PrintFallback"},
           cancel_open(s, step)
    PROVE  SessionStep
<1>1. PICK e, k : /\ events' = [events EXCEPT ![s] = e]
                  /\ Start("cancel", {s}, [t \in Ids |-> k])
                  /\ \/ e = "Aborted" /\ k = "Closing" /\ NoFallback(s)
                     \/ e = "PendingFallback" /\ k = step
  <2>1. CASE NoFallback(s)
    BY <2>1 DEF cancel_open, save_event
  <2>2. CASE ~NoFallback(s)
    BY <2>2 DEF cancel_open, save_event
  <2> QED  BY <2>1, <2>2
<1>2. Idle /\ Running' /\ SessionTypes
  BY <1>1, StartRunning DEF IInv
<1>3. /\ row[s] # "None" /\ Replays(s) /\ events[s] \in Open
      /\ UNCHANGED <<row, completed, seen, expired, original, checked, fallback, reported,
                     passed, unread>>
  BY DEF cancel_open, Rows, sessionVars
<1>4. task' = [t \in Ids |-> IF t = s THEN k ELSE "Idle"]
  <2>1. task' = [t \in Ids |-> IF t \in {s} THEN [r \in Ids |-> k][t] ELSE "Idle"]
    BY <1>1 DEF Start
  <2> QED  BY <2>1
<1>5. /\ e \in States /\ k \in Steps
      /\ k \notin States \cup Looking \cup {"ChooseDirectory", "CloseFallback", "Idle"}
      /\ k = "Closing" => e \in ClosedStates
      /\ k \in Cancelling => e = "PendingFallback"
  BY <1>1 DEF States, Steps, Open, Posting, Checking, Building, ClosedStates, Looking,
                    Cancelling
<1>6. SessionTypes'
  BY <1>2, <1>1, <1>3, <1>4, <1>5 DEF SessionTypes, Steps
<1>7. ASSUME NEW t \in Ids PROVE Session(t)'
  <2>1. task[t] = "Idle" /\ checked[t] = {} /\ Session(t)
    BY <1>2, IdleTasks
  <2>2. CASE t = s
    <3>1. events'[t] = e /\ task'[t] = k
      BY <1>1, <1>2, <1>4, <2>2 DEF SessionTypes
    <3>2. /\ k \in Cancelling \cup {"Closing"} /\ "PendingFallback" \in Open
          /\ t \in fallback /\ t \in completed => t \in reported \/ t \in unread
      <4>1. events[t] \notin ClosedStates
        BY <1>3, <2>2 DEF Open, Posting, Checking, Building, ClosedStates
      <4> QED  BY <1>1, <2>1, <4>1 DEF Session, Cancelling, Open
    <3>3. e # "PendingFallback" => e = "Aborted" /\ t \notin fallback
      BY <1>1, <2>1, <2>2 DEF NoFallback, Session
    <3>4. "PendingFallback" \notin ClosedStates
      BY DEF ClosedStates
    <3> QED
      BY <1>3, <1>5, <2>1, <2>2, <3>1, <3>2, <3>3, <3>4 DEF Session, Looking
  <2>3. CASE t # s
    <3>1. events'[t] = events[t] /\ task'[t] = "Idle"
      BY <1>1, <1>2, <1>4, <2>3 DEF SessionTypes
    <3>2. "Idle" \notin States \cup Looking \cup Cancelling
      BY DEF States, Steps, Open, Posting, Checking, Building, ClosedStates, Looking,
                    Cancelling
    <3> QED  BY <1>3, <2>1, <3>1, <3>2 DEF Session
  <2> QED  BY <2>2, <2>3
<1>8. \A t \in Ids : task'[t] # "InputsNew"
  BY <1>4, <1>5 DEF Looking
<1> QED  BY <1>2, <1>3, <1>6, <1>7, <1>8, CommandStep

(* cancel of any other session: what it closes it has reported. *)
LEMMA CancelOtherStep ==
    ASSUME IInv, NEW s \in Ids, cancel_other(s)
    PROVE  SessionStep
<1>1. /\ Idle /\ row[s] # "None"
      /\ completed' = completed \/ (completed' = completed \cup {s} /\ ~Replays(s))
      /\ reported' = IF s \in fallback /\ (events[s] = "Aborted" \/ ~Replays(s))
                     THEN reported \cup {s} ELSE reported
      /\ UNCHANGED <<row, events, seen, expired, original, checked, fallback, passed, unread,
                     task, command>>
  BY DEF cancel_other, close, processVars, Rows
<1>2. SessionTypes' /\ Running'
  BY <1>1 DEF IInv, SessionTypes, Running
<1>3. ASSUME NEW t \in Ids PROVE Session(t)'
  <2>1. task[t] = "Idle" /\ checked[t] = {} /\ Session(t)
    BY <1>1, IdleTasks
  <2>2. /\ reported \subseteq reported'
        /\ t \in completed' \ completed =>
             /\ row[t] # "None" /\ ~Replays(t)
             /\ t \in fallback => t \in reported'
    BY <1>1
  <2>3. ~Replays(t) => events[t] = "None" \/ t \in expired
    BY DEF Replays
  <2>4. completed \subseteq completed'
    BY <1>1
  <2> QED  BY <1>1, <2>1, <2>2, <2>3, <2>4 DEF Session
<1>4. \A t \in Ids : task'[t] # "InputsNew"
  BY <1>1, IdleTasks
<1> QED  BY <1>1, <1>2, <1>3, <1>4, CommandStep

(* history closes the rows of sessions without events. *)
LEMMA HistoryStep ==
    ASSUME IInv, history, UNCHANGED sessionVars
    PROVE  SessionStep
<1>1. /\ Idle
      /\ \E C \in SUBSET {s \in active_session_ids : events[s] = "None"} :
            completed' = completed \cup C
      /\ UNCHANGED <<row, events, seen, expired, original, checked, fallback, reported, passed, unread,
                     task, command>>
  BY DEF history, close, processVars, sessionVars
<1>2. SessionTypes' /\ Running'
  BY <1>1 DEF IInv, SessionTypes, Running
<1>3. ASSUME NEW t \in Ids PROVE Session(t)'
  <2>1. task[t] = "Idle" /\ checked[t] = {} /\ Session(t)
    BY <1>1, IdleTasks
  <2>2. t \in completed' \ completed => row[t] # "None" /\ events[t] = "None"
    BY <1>1 DEF Rows, active_session_ids
  <2>3. completed \subseteq completed'
    BY <1>1
  <2> QED  BY <1>1, <2>1, <2>2, <2>3 DEF Session
<1>4. \A t \in Ids : task'[t] # "InputsNew"
  BY <1>1, IdleTasks
<1> QED  BY <1>1, <1>2, <1>3, <1>4, CommandStep

(* Time may pass for a session at any moment. *)
LEMMA ExpireStep ==
    ASSUME IInv, NEW s \in Ids, Expire(s), UNCHANGED sessionVars
    PROVE  SessionStep
<1>1. /\ expired' = expired \cup {s}
      /\ UNCHANGED <<row, completed, events, seen, original, checked, fallback, reported,
                     passed, unread, task, command>>
  BY DEF Expire, storeVars, processVars, sessionVars
<1>2. SessionTypes' /\ Running'
  BY <1>1 DEF IInv, SessionTypes, Running
<1>3. ASSUME NEW t \in Ids PROVE Session(t)'
  <2>1. Session(t)
    BY DEF IInv
  <2> QED  BY <1>1, <2>1 DEF Session
<1>4. \A t \in Ids : Claim(t)' = Claim(t)
  BY <1>1 DEF Claim
<1> QED  BY <1>1, <1>2, <1>3, <1>4 DEF SessionStep, ClaimStep

(* A process that stops forgets what its checks had looked up; inputs_seen    *)
(* remembers it.                                                              *)
LEMMA StopStep ==
    ASSUME IInv, ProcessStops
    PROVE  SessionStep
<1>1. /\ task' = [t \in Ids |-> "Idle"] /\ checked' = [t \in Ids |-> {}]
      /\ UNCHANGED <<row, completed, events, seen, expired, original, fallback, reported,
                     passed, unread>>
  BY DEF ProcessStops, Stop, storeVars
<1>2. SessionTypes' /\ Running'
  BY <1>1 DEF IInv, SessionTypes, Running, Steps
<1>3. "Idle" \notin States \cup Looking \cup Cancelling
  BY DEF States, Open, Posting, Checking, Building, ClosedStates, Looking, Cancelling
<1>4. ASSUME NEW t \in Ids PROVE Session(t)'
  <2>1. Session(t) /\ task'[t] = "Idle" /\ checked'[t] = {}
    BY <1>1 DEF IInv
  <2> QED  BY <1>1, <1>3, <2>1 DEF Session
<1>5. \A t \in Ids : Claim(t)' \subseteq Claim(t)
  BY <1>1 DEF Claim
<1> QED  BY <1>1, <1>2, <1>4, <1>5 DEF SessionStep, ClaimStep

(* Every step of the v2 app. *)
LEMMA V2Step ==
    ASSUME IInv, Next
    PROVE  SessionStep
BY ReceiveStep, ResumeStep, CancelStep, CancelOtherStep, TaskInv, HistoryStep, ExpireStep,
   StopStep
DEF Next

-----------------------------------------------------------------------------
(* BIP 78 requests *)

(* What a step of the server or of a sender has to keep. *)
ExchangeStep == ExchangeTypes' /\ (\A x \in Exchanges : Exchange(x)')

(* Sessions and requests are different claimants. *)
LEMMA Apart == \A x \in Exchanges : x \notin Ids
BY ExchangesAssumption

(* A step that changes only request x, and writes at most to inputs_seen. *)
LEMMA OneExchange ==
    ASSUME IInv, NEW x \in Exchanges, seen \subseteq seen',
           UNCHANGED <<row, completed, events, expired, processVars, sessionVars>>,
           ExchangeTypes', Exchange(x)', Claim(x)' \subseteq Claim(x) \cup (seen' \ seen),
           \A y \in Exchanges \ {x} : /\ exchange'[y] = exchange[y] /\ payer'[y] = payer[y]
                                      /\ y \in passed_v1' <=> y \in passed_v1
    PROVE  IInv'
<1>1. SessionTypes' /\ Running'
  BY DEF IInv, SessionTypes, Running, processVars, sessionVars
<1>2. \A t \in Ids : Same(t)
  BY DEF Same, processVars, sessionVars
<1>3. \A t \in Ids : Session(t)' /\ Claim(t)' = Claim(t)
  BY <1>2, SameSession, SameClaim DEF IInv
<1>4. ASSUME NEW y \in Exchanges \ {x} PROVE Exchange(y)' /\ Claim(y)' = Claim(y)
  <2>1. Exchange(y) /\ y \notin Ids
    BY Apart DEF IInv
  <2> QED  BY <2>1 DEF Exchange, Claim
<1>5. \A y \in Exchanges : Exchange(y)'
  BY <1>4
<1>6. \A p \in Claimants \ {x} : Claim(p)' = Claim(p)
  BY <1>3, <1>4 DEF Claimants
<1>7. ClaimStep(Claimants)
  BY <1>6 DEF ClaimStep
<1>8. Claimed'
  BY <1>7, ClaimsKept DEF IInv
<1> QED  BY <1>1, <1>3, <1>5, <1>8 DEF IInv

(* The record of x after a step that sets at and checked. *)
LEMMA ExchangeSet ==
    ASSUME ExchangeTypes, NEW x \in Exchanges, NEW a \in V1Steps, NEW c \in SUBSET Outpoints,
           exchange' = [exchange EXCEPT ![x].at = a, ![x].checked = c],
           payer' = [y \in Exchanges |-> payer'[y]], passed_v1' \subseteq Exchanges
    PROVE  /\ ExchangeTypes'
           /\ exchange'[x].at = a /\ exchange'[x].checked = c
           /\ exchange'[x].inputs = exchange[x].inputs
           /\ \A y \in Exchanges \ {x} : exchange'[y] = exchange[y]
<1> DEFINE R == [at : V1Steps, inputs : SUBSET Outpoints, checked : SUBSET Outpoints]
<1>1. exchange \in [Exchanges -> R] /\ exchange[x] \in R
  BY DEF ExchangeTypes
<1> DEFINE A == [exchange[x] EXCEPT !.at = a]
           X == [exchange EXCEPT ![x] = A]
           B == [at |-> a, inputs |-> exchange[x].inputs, checked |-> c]
<1>2. exchange' = [X EXCEPT ![x] = [X[x] EXCEPT !.checked = c]]
  OBVIOUS
<1>3. X[x] = A /\ [A EXCEPT !.checked = c] = B
  <2>1. A = [at |-> a, inputs |-> exchange[x].inputs, checked |-> exchange[x].checked]
    BY <1>1
  <2>2. [A EXCEPT !.checked = c] = B
    <3>1. [[at |-> a, inputs |-> exchange[x].inputs, checked |-> exchange[x].checked]
             EXCEPT !.checked = c] = B
      OBVIOUS
    <3> HIDE DEF A
    <3> QED  BY <2>1, <3>1
  <2>3. X[x] = A
    <3> HIDE DEF A
    <3> QED  BY <1>1
  <2> QED  BY <2>2, <2>3
<1>4. exchange' = [exchange EXCEPT ![x] = B]
  <2>1. exchange' = [X EXCEPT ![x] = B]
    BY <1>2, <1>3
  <2>2. ASSUME NEW Y, NEW Z PROVE [[exchange EXCEPT ![x] = Y] EXCEPT ![x] = Z]
                                   = [exchange EXCEPT ![x] = Z]
    BY <1>1
  <2> HIDE DEF A, B
  <2> QED  BY <2>1, <2>2
<1>5. exchange[x].inputs \in SUBSET Outpoints
  BY <1>1
<1>6. [at |-> a, inputs |-> exchange[x].inputs, checked |-> c] \in R
  BY <1>5
<1>7. exchange' \in [Exchanges -> R]
  BY <1>1, <1>4, <1>6
<1>8. exchange'[x] = [at |-> a, inputs |-> exchange[x].inputs, checked |-> c]
  BY <1>1, <1>4
<1>9. \A y \in Exchanges \ {x} : exchange'[y] = exchange[y]
  BY <1>1, <1>4
<1> QED  BY <1>7, <1>8, <1>9 DEF ExchangeTypes

(* A handler that goes on, or answers with an error. *)
LEMMA StepToStep ==
    ASSUME IInv, NEW x \in Exchanges, exchange[x].at # "None",
           NEW step \in V1Steps \ {"None", "SomeInputsNew"}, StepTo(x, step),
           UNCHANGED <<vars, payer, passed_v1>>
    PROVE  IInv'
<1>1. ExchangeTypes /\ Exchange(x) /\ x \notin Ids
  BY Apart DEF IInv
<1>2. exchange' = [exchange EXCEPT ![x].at = step, ![x].checked = {}]
  BY DEF StepTo
<1>3. /\ ExchangeTypes'
      /\ exchange'[x].at = step /\ exchange'[x].checked = {}
      /\ exchange'[x].inputs = exchange[x].inputs
      /\ \A y \in Exchanges \ {x} : exchange'[y] = exchange[y]
  <2>1. payer' = [y \in Exchanges |-> payer'[y]] /\ passed_v1' \subseteq Exchanges
    BY <1>1 DEF ExchangeTypes
  <2>2. {} \in SUBSET Outpoints
    OBVIOUS
  <2> QED  BY <1>1, <1>2, <2>1, <2>2, ExchangeSet
<1>4. Exchange(x)'
  BY <1>1, <1>3 DEF Exchange
<1>5. Claim(x)' \subseteq Claim(x)
  BY <1>1, <1>3 DEF Claim
<1>6. UNCHANGED <<seen, row, completed, events, expired, processVars, sessionVars>>
  BY DEF vars, processVars, sessionVars
<1> QED  BY <1>3, <1>4, <1>5, <1>6, OneExchange

(* The check of the outpoints in the handler of a BIP 78 request. *)
LEMMA V1LookStep ==
    ASSUME IInv, NEW x \in Exchanges, v1_check_no_inputs_seen_before(x)
    PROVE  IInv'
<1>1. ExchangeTypes /\ Exchange(x) /\ x \notin Ids /\ x \in Claimants /\ Claimed
  BY Apart DEF IInv, Claimants
<1>2. /\ exchange[x].at \in {"MaybeInputsSeen", "SomeInputsNew"}
      /\ UNCHANGED <<row, completed, events, expired, processVars, sessionVars, payer>>
  BY DEF v1_check_no_inputs_seen_before
<1>3. CASE StepTo(x, "Error") /\ UNCHANGED <<seen, passed_v1>>
  <2>1. UNCHANGED <<vars, payer, passed_v1>>
    BY <1>3 DEF v1_check_no_inputs_seen_before, vars, processVars, sessionVars
  <2>2. "Error" \in V1Steps \ {"None", "SomeInputsNew"}
    BY DEF V1Steps
  <2> QED  BY <1>2, <1>3, <2>1, <2>2, StepToStep
<1>4. CASE ~(StepTo(x, "Error") /\ UNCHANGED <<seen, passed_v1>>)
  <2> DEFINE before == exchange[x].checked
             inputs == exchange[x].inputs
  <2>1. PICK o \in inputs \ before, was_seen_before \in BOOLEAN :
          /\ insert_input_seen_before(o, was_seen_before)
          /\ passed_v1' = IF before \cup {o} = inputs /\ ~was_seen_before
                          THEN passed_v1 \cup {x} ELSE passed_v1
          /\ exchange' = [exchange EXCEPT
               ![x].at = IF was_seen_before THEN "Error"
                         ELSE IF before \cup {o} = inputs THEN "OutputsUnknown"
                         ELSE "SomeInputsNew",
               ![x].checked = IF was_seen_before \/ before \cup {o} = inputs THEN {}
                              ELSE @ \cup {o}]
    BY <1>4 DEF v1_check_no_inputs_seen_before
  <2>2. was_seen_before = (o \in seen) /\ seen' = seen \cup {o}
    BY <2>1 DEF insert_input_seen_before
  <2>3. before \in SUBSET Outpoints /\ inputs \in SUBSET Outpoints /\ o \in Outpoints
    BY <1>1, <2>1 DEF ExchangeTypes
  <2>4. payer[x] # "None"
    BY <1>1, <1>2 DEF Exchange
  <2>5. payer' = [y \in Exchanges |-> payer'[y]] /\ passed_v1' \subseteq Exchanges
    BY <1>1, <1>2, <2>1 DEF ExchangeTypes
  <2>6. /\ "Error" \in V1Steps /\ "OutputsUnknown" \in V1Steps
        /\ "SomeInputsNew" \in V1Steps /\ {} \in SUBSET Outpoints
    BY DEF V1Steps, Checking
  <2>7. \A y \in Exchanges \ {x} : y \in passed_v1' <=> y \in passed_v1
    BY <2>1
  <2>8. CASE o \in seen
    <3>1. passed_v1' = passed_v1
          /\ exchange' = [exchange EXCEPT ![x].at = "Error", ![x].checked = {}]
      BY <2>1, <2>2, <2>8
    <3>2. /\ ExchangeTypes'
          /\ exchange'[x].at = "Error" /\ exchange'[x].checked = {}
          /\ exchange'[x].inputs = exchange[x].inputs
          /\ \A y \in Exchanges \ {x} : exchange'[y] = exchange[y]
      BY <1>1, <2>5, <2>6, <3>1, ExchangeSet
    <3>3. Exchange(x)' /\ Claim(x)' \subseteq Claim(x)
      BY <1>1, <1>2, <2>4, <3>1, <3>2 DEF Exchange, Claim
    <3> QED  BY <1>2, <2>2, <2>7, <3>2, <3>3, OneExchange
  <2>9. CASE o \notin seen /\ before \cup {o} = inputs
    <3>1. passed_v1' = passed_v1 \cup {x}
          /\ exchange' = [exchange EXCEPT ![x].at = "OutputsUnknown", ![x].checked = {}]
      BY <2>1, <2>2, <2>9
    <3>2. /\ ExchangeTypes'
          /\ exchange'[x].at = "OutputsUnknown" /\ exchange'[x].checked = {}
          /\ exchange'[x].inputs = exchange[x].inputs
          /\ \A y \in Exchanges \ {x} : exchange'[y] = exchange[y]
      BY <1>1, <2>5, <2>6, <3>1, ExchangeSet
    <3>3. Exchange(x)'
      BY <1>1, <1>2, <2>4, <3>1, <3>2 DEF Exchange
    <3>4. Claim(x)' \subseteq Claim(x) \cup (seen' \ seen)
      <4>1. Claim(x)' = before \cup {o}
        BY <1>1, <2>9, <3>1, <3>2 DEF Claim
      <4>2. before \subseteq Claim(x)
        BY <1>1, <2>1, <2>9 DEF Claim
      <4> QED  BY <2>2, <2>9, <4>1, <4>2
    <3> QED  BY <1>2, <2>2, <2>7, <3>2, <3>3, <3>4, OneExchange
  <2>10. CASE o \notin seen /\ before \cup {o} # inputs
    <3>1. passed_v1' = passed_v1
          /\ exchange' = [exchange EXCEPT ![x].at = "SomeInputsNew",
                                          ![x].checked = before \cup {o}]
      BY <2>1, <2>2, <2>10
    <3>2. /\ ExchangeTypes'
          /\ exchange'[x].at = "SomeInputsNew" /\ exchange'[x].checked = before \cup {o}
          /\ exchange'[x].inputs = exchange[x].inputs
          /\ \A y \in Exchanges \ {x} : exchange'[y] = exchange[y]
      <4>1. before \cup {o} \in SUBSET Outpoints
        BY <2>3
      <4> HIDE DEF before
      <4> QED  BY <1>1, <2>5, <2>6, <3>1, <4>1, ExchangeSet
    <3>3. Exchange(x)'
      BY <1>1, <1>2, <2>4, <3>1, <3>2 DEF Exchange
    <3>4. Claim(x)' \subseteq Claim(x) \cup (seen' \ seen)
      <4>1. CASE x \in passed_v1
        BY <1>1, <3>1, <3>2, <4>1 DEF Claim
      <4>2. CASE x \notin passed_v1
        BY <1>1, <2>2, <2>10, <3>1, <3>2, <4>2 DEF Claim
      <4> QED  BY <4>1, <4>2
    <3> QED  BY <1>2, <2>2, <2>7, <3>2, <3>3, <3>4, OneExchange
  <2> QED  BY <2>8, <2>9, <2>10
<1> QED  BY <1>3, <1>4

(* What is left of a request that ended. *)
LEMMA EndedIs ==
    ASSUME ExchangeTypes, NEW x \in Exchanges
    PROVE  /\ Ended(x).at = "None" /\ Ended(x).checked = {}
           /\ x \in passed_v1 => Ended(x).inputs = exchange[x].inputs
           /\ Ended(x) \in [at : V1Steps, inputs : SUBSET Outpoints, checked : SUBSET Outpoints]
<1> DEFINE left == IF x \in passed_v1 THEN exchange[x].inputs ELSE {}
<1>1. left \in SUBSET Outpoints
  BY DEF ExchangeTypes
<1>2. Ended(x) = [at |-> "None", inputs |-> left, checked |-> {}]
  BY DEF Ended, NoRequest
<1>3. "None" \in V1Steps /\ {} \in SUBSET Outpoints
  BY DEF V1Steps
<1>4. x \in passed_v1 => left = exchange[x].inputs
  OBVIOUS
<1> HIDE DEF left
<1> QED  BY <1>1, <1>2, <1>3, <1>4

(* The answer, or the error, is sent. *)
LEMMA RespondStep ==
    ASSUME IInv, NEW x \in Exchanges, respond(x)
    PROVE  IInv'
<1>1. ExchangeTypes /\ Exchange(x) /\ x \notin Ids
  BY Apart DEF IInv
<1>2. /\ exchange' = [exchange EXCEPT ![x] = Ended(x)] /\ passed_v1' = passed_v1
      /\ exchange[x].at \in {"PayjoinProposal", "Error"}
      /\ UNCHANGED <<seen, row, completed, events, expired, processVars, sessionVars>>
  BY DEF respond, vars, processVars, sessionVars
<1>3. payer[x] # "None"
  BY <1>1, <1>2 DEF Exchange
<1>4. PICK p : payer' = [payer EXCEPT ![x] = p] /\ p # "None"
  <2>1. CASE payer[x] = "Waiting"
    BY <1>2, <2>1 DEF respond
  <2>2. CASE payer[x] # "Waiting"
    <3>1. payer' = [payer EXCEPT ![x] = payer[x]]
      BY <1>1, <2>2 DEF respond, ExchangeTypes
    <3> QED  BY <1>3, <3>1
  <2> QED  BY <2>1, <2>2
<1>5. ExchangeTypes'
  BY <1>1, <1>2, <1>4, EndedIs DEF ExchangeTypes
<1>6. exchange'[x] = Ended(x) /\ payer'[x] = p
  BY <1>1, <1>2, <1>4 DEF ExchangeTypes
<1>7. Exchange(x)' /\ Claim(x)' \subseteq Claim(x)
  BY <1>1, <1>2, <1>4, <1>6, EndedIs DEF Exchange, Claim
<1>8. \A y \in Exchanges \ {x} : exchange'[y] = exchange[y] /\ payer'[y] = payer[y]
  BY <1>1, <1>2, <1>4 DEF ExchangeTypes
<1> QED  BY <1>2, <1>5, <1>7, <1>8, OneExchange

(* A new request has claimed nothing. *)
LEMMA PostStep ==
    ASSUME IInv, NEW x \in Exchanges, NEW O \in Originals, post_v1(x, O)
    PROVE  IInv'
<1>1. ExchangeTypes /\ Exchange(x) /\ x \notin Ids
  BY Apart DEF IInv
<1>2. /\ exchange' = [exchange EXCEPT ![x].at = "Posted", ![x].inputs = O]
      /\ payer' = [payer EXCEPT ![x] = "Waiting"] /\ passed_v1' = passed_v1
      /\ payer[x] = "None"
      /\ UNCHANGED <<seen, row, completed, events, expired, processVars, sessionVars>>
  BY DEF post_v1, vars, processVars, sessionVars
<1> DEFINE R == [at : V1Steps, inputs : SUBSET Outpoints, checked : SUBSET Outpoints]
           A == [exchange[x] EXCEPT !.at = "Posted"]
           X == [exchange EXCEPT ![x] = A]
           B == [at |-> "Posted", inputs |-> O, checked |-> {}]
<1>3. exchange \in [Exchanges -> R] /\ exchange[x] \in R /\ exchange[x].checked = {}
      /\ x \notin passed_v1
  BY <1>1, <1>2 DEF ExchangeTypes, Exchange
<1>4. A = [at |-> "Posted", inputs |-> exchange[x].inputs, checked |-> {}]
  BY <1>3
<1>5. [A EXCEPT !.inputs = O] = B
  <2>1. [[at |-> "Posted", inputs |-> exchange[x].inputs, checked |-> {}] EXCEPT !.inputs = O]
          = B
    OBVIOUS
  <2> HIDE DEF A
  <2> QED  BY <1>4, <2>1
<1>6. exchange' = [X EXCEPT ![x] = [X[x] EXCEPT !.inputs = O]]
  BY <1>2
<1>7. X[x] = A
  <2> HIDE DEF A
  <2> QED  BY <1>3
<1>8. exchange' = [exchange EXCEPT ![x] = B]
  <2>1. exchange' = [X EXCEPT ![x] = B]
    BY <1>5, <1>6, <1>7
  <2>2. ASSUME NEW Y, NEW Z PROVE [[exchange EXCEPT ![x] = Y] EXCEPT ![x] = Z]
                                   = [exchange EXCEPT ![x] = Z]
    BY <1>3
  <2> HIDE DEF A, B
  <2> QED  BY <2>1, <2>2
<1>9. "Posted" \in V1Steps /\ O \in SUBSET Outpoints /\ {} \in SUBSET Outpoints
  BY DEF V1Steps, Outpoints
<1>10. B \in R
  BY <1>9
<1>11. ExchangeTypes'
  <2> HIDE DEF A, B, X
  <2> QED  BY <1>1, <1>2, <1>3, <1>8, <1>10 DEF ExchangeTypes
<1>12. exchange'[x] = B /\ payer'[x] = "Waiting"
       /\ \A y \in Exchanges \ {x} : exchange'[y] = exchange[y] /\ payer'[y] = payer[y]
  <2> HIDE DEF A, B, X
  <2> QED  BY <1>1, <1>2, <1>3, <1>8 DEF ExchangeTypes
<1>13. Exchange(x)' /\ Claim(x)' \subseteq Claim(x)
  BY <1>1, <1>2, <1>3, <1>12 DEF Exchange, Claim
<1> QED  BY <1>2, <1>11, <1>12, <1>13, OneExchange

(* A sender that goes on without the receiver. *)
LEMMA PayerStep ==
    ASSUME IInv, NEW x \in Exchanges, request_fails(x) \/ process_response(x)
    PROVE  IInv'
<1>1. ExchangeTypes /\ Exchange(x) /\ x \notin Ids
  BY Apart DEF IInv
<1>2. PICK p : payer' = [payer EXCEPT ![x] = p] /\ p # "None" /\ payer[x] # "None"
  <2>1. CASE request_fails(x)
    BY <2>1 DEF request_fails
  <2>2. CASE process_response(x)
    BY <2>2 DEF process_response
  <2> QED  BY <2>1, <2>2
<1>3. UNCHANGED <<seen, row, completed, events, expired, processVars, sessionVars, exchange,
                  passed_v1>>
  BY DEF request_fails, process_response, vars, processVars, sessionVars
<1>4. ExchangeTypes' /\ payer'[x] = p /\ \A y \in Exchanges \ {x} : payer'[y] = payer[y]
  BY <1>1, <1>2, <1>3 DEF ExchangeTypes
<1>5. Exchange(x)' /\ Claim(x)' = Claim(x)
  BY <1>1, <1>2, <1>3, <1>4 DEF Exchange, Claim
<1> QED  BY <1>3, <1>4, <1>5, OneExchange

(* A step of the v2 app, with the requests that end with its process. *)
LEMMA CommandsStep ==
    ASSUME IInv, Commands
    PROVE  IInv'
<1>1. SessionStep /\ ExchangeTypes /\ passed_v1' = passed_v1
  BY V2Step DEF Commands, IInv
<1>2. ASSUME NEW x \in Exchanges
      PROVE  Exchange(x)' /\ Claim(x)' \subseteq Claim(x)
  <2>1. Exchange(x) /\ x \notin Ids
    BY <1>2, Apart DEF IInv
  <2>2. CASE command = "receive_v1" /\ command' = "None"
    <3>1. exchange'[x] = Ended(x) /\ (payer'[x] = "None" => payer[x] = "None")
      BY <1>2, <2>2 DEF Commands
    <3> QED  BY <1>1, <1>2, <2>1, <3>1, EndedIs DEF Exchange, Claim
  <2>3. CASE ~(command = "receive_v1" /\ command' = "None")
    <3>1. exchange' = exchange /\ payer' = payer
      BY <2>3 DEF Commands
    <3> QED  BY <1>1, <2>1, <3>1 DEF Exchange, Claim
  <2> QED  BY <2>2, <2>3
<1>3. ExchangeTypes'
  <2>1. CASE command = "receive_v1" /\ command' = "None"
    <3>1. exchange' = [x \in Exchanges |-> Ended(x)]
          /\ payer' = [x \in Exchanges |-> IF payer[x] = "Waiting" THEN "Unpaid" ELSE payer[x]]
      BY <2>1 DEF Commands
    <3>2. \A x \in Exchanges : Ended(x) \in [at : V1Steps, inputs : SUBSET Outpoints,
                                              checked : SUBSET Outpoints]
      BY <1>1, EndedIs
    <3> QED  BY <1>1, <3>1, <3>2 DEF ExchangeTypes
  <2>2. CASE ~(command = "receive_v1" /\ command' = "None")
    BY <1>1, <2>2 DEF Commands, ExchangeTypes
  <2> QED  BY <2>1, <2>2
<1>4. ClaimStep(Claimants)
  BY <1>1, <1>2 DEF SessionStep, ClaimStep, Claimants
<1>5. Claimed'
  BY <1>4, ClaimsKept DEF IInv
<1> QED  BY <1>1, <1>2, <1>3, <1>5 DEF SessionStep, IInv

(* Every step of the client keeps the invariant. *)
LEMMA NextInv == IInv /\ [AppNext]_appVars => IInv'
<1> SUFFICES ASSUME IInv, [AppNext]_appVars PROVE IInv'
  OBVIOUS
<1>1. CASE Commands
  BY <1>1, CommandsStep
<1>2. CASE start_http_server
  <2>1. /\ UNCHANGED <<row, completed, events, seen, expired, task, sessionVars, v1Vars>>
        /\ Idle
    BY <1>2 DEF start_http_server, storeVars
  <2>2. \A t \in Ids : task'[t] = "Idle"
    BY <2>1, IdleTasks
  <2>3. SessionTypes' /\ ExchangeTypes' /\ Running' /\ Claimed'
        /\ (\A t \in Ids : Session(t)') /\ \A x \in Exchanges : Exchange(x)'
    BY <2>1, <2>2 DEF IInv, SessionTypes, ExchangeTypes, Running, Session, Exchange, Claimed,
                      Claim, sessionVars, v1Vars
  <2> QED  BY <2>3 DEF IInv
<1>3. ASSUME NEW x \in Exchanges, ServerStep(x) PROVE IInv'
  <2>1. ASSUME NEW from \in V1Steps \ {"None"}, NEW to \in V1Steps \ {"None", "SomeInputsNew"},
               Handler(x, from, to)
        PROVE  IInv'
    <3>1. PICK step \in {to, "Error"} : StepTo(x, step)
      BY <2>1 DEF Handler
    <3>2. /\ exchange[x].at # "None" /\ UNCHANGED <<vars, payer, passed_v1>>
          /\ step \in V1Steps \ {"None", "SomeInputsNew"}
      BY <2>1 DEF Handler, V1Steps
    <3> QED  BY <3>1, <3>2, StepToStep
  <2>2. CASE from_request(x)
    BY <2>1, <2>2 DEF from_request, V1Steps, Checking, Building
  <2>3. CASE v1_check_broadcast_suitability(x)
    BY <2>1, <2>3 DEF v1_check_broadcast_suitability, V1Steps, Checking, Building
  <2>4. CASE v1_check_inputs_not_owned(x)
    BY <2>1, <2>4 DEF v1_check_inputs_not_owned, V1Steps, Checking, Building
  <2>5. CASE v1_check_no_inputs_seen_before(x)
    BY <2>5, V1LookStep
  <2>6. CASE v1_identify_receiver_outputs(x)
    BY <2>1, <2>6 DEF v1_identify_receiver_outputs, V1Steps, Checking, Building
  <2>7. CASE v1_commit_outputs(x)
    BY <2>1, <2>7 DEF v1_commit_outputs, V1Steps, Checking, Building
  <2>8. CASE try_contributing_inputs(x)
    BY <2>1, <2>8 DEF try_contributing_inputs, V1Steps, Checking, Building
  <2>9. CASE v1_apply_fee_range(x)
    BY <2>1, <2>9 DEF v1_apply_fee_range, V1Steps, Checking, Building
  <2>10. CASE v1_finalize_proposal(x)
    BY <2>1, <2>10 DEF v1_finalize_proposal, V1Steps, Checking, Building
  <2>11. CASE respond(x)
    BY <2>11, RespondStep
  <2> QED
    BY <1>3, <2>2, <2>3, <2>4, <2>5, <2>6, <2>7, <2>8, <2>9, <2>10, <2>11 DEF ServerStep
<1>4. ASSUME NEW x \in Exchanges, request_fails(x) \/ process_response(x) PROVE IInv'
  BY <1>4, PayerStep
<1>5. ASSUME NEW x \in Exchanges, \E O \in Originals : post_v1(x, O) PROVE IInv'
  BY <1>5, PostStep
<1>6. CASE UNCHANGED appVars
  BY <1>6 DEF IInv, SessionTypes, ExchangeTypes, Running, Session, Exchange, Claimed, Claim,
              appVars, vars, v1Vars
<1> QED  BY <1>1, <1>2, <1>3, <1>4, <1>5, <1>6 DEF AppNext

(* The empty database satisfies it. *)
LEMMA InitInv == AppInit => IInv
<1> SUFFICES ASSUME AppInit PROVE IInv
  OBVIOUS
<1>1. /\ row = [s \in Ids |-> "None"] /\ events = [s \in Ids |-> "None"] /\ completed = {}
      /\ task = [s \in Ids |-> "Idle"] /\ seen = {} /\ original = [s \in Ids |-> {}]
      /\ checked = [s \in Ids |-> {}] /\ fallback = {} /\ passed = {}
      /\ exchange = [x \in Exchanges |-> NoRequest]
      /\ payer = [x \in Exchanges |-> "None"] /\ passed_v1 = {}
  BY DEF AppInit, Init, ProcessInit, StoreInit
<1>2. NoRequest = [at |-> "None", inputs |-> {}, checked |-> {}] /\ "None" \in V1Steps
  BY DEF NoRequest, V1Steps
<1>3. SessionTypes /\ ExchangeTypes /\ Running
  BY <1>1, <1>2 DEF SessionTypes, ExchangeTypes, Running, Steps
<1>4. "Idle" \notin States \cup Looking \cup Cancelling /\ "None" \notin ClosedStates
  BY DEF States, Open, Posting, Checking, Building, ClosedStates, Looking, Cancelling
<1>5. (\A s \in Ids : Session(s)) /\ \A x \in Exchanges : Exchange(x)
  BY <1>1, <1>2, <1>4 DEF Session, Exchange
<1>6. \A p \in Claimants : Claim(p) = {}
  BY <1>1, <1>2 DEF Claim, Claimants
<1> QED  BY <1>3, <1>5, <1>6 DEF IInv, Claimed

-----------------------------------------------------------------------------
(* The invariant holds in every state of the receiving client. *)
THEOREM Invariance == AppSpec => []IInv
BY InitInv, NextInv, PTL DEF AppSpec

(* No outpoint gets past check_no_inputs_seen_before in two payments, be they *)
(* BIP 77 sessions or BIP 78 requests, run at the same time, resumed or       *)
(* stopped in between: inputs_seen is written before the outcome is saved.    *)
THEOREM ProbedOnce == AppSpec => []InputsProbedOnce
<1>1. IInv => InputsProbedOnce
  <2> SUFFICES ASSUME IInv PROVE InputsProbedOnce
    OBVIOUS
  <2> DEFINE inputs(p) == IF p \in Ids THEN original[p] ELSE exchange[p].inputs
  <2>1. ASSUME NEW p \in passed \cup passed_v1
        PROVE  p \in Claimants /\ inputs(p) = Claim(p)
    <3>1. passed \subseteq Ids /\ passed_v1 \subseteq Exchanges
      BY DEF IInv, SessionTypes, ExchangeTypes
    <3> QED  BY <2>1, <3>1, Apart DEF Claim, Claimants
  <2>2. ASSUME NEW p \in passed \cup passed_v1, NEW q \in passed \cup passed_v1, p # q
        PROVE  inputs(p) \cap inputs(q) = {}
    <3>1. Claim(p) \cap Claim(q) = {}
      BY <2>1, <2>2 DEF IInv, Claimed
    <3> QED  BY <2>1, <2>2, <3>1
  <2> QED  BY <2>2 DEF InputsProbedOnce
<1> QED  BY <1>1, Invariance, PTL

(* A session that ends without a payjoin although it holds a fallback has     *)
(* printed or broadcast it, whether it was cancelled, expired while it ran or *)
(* was found expired by resume or cancel; and one that was closed unread has  *)
(* an open log, from which cancel shows it.                                   *)
THEOREM FallbackShown == AppSpec => []FallbackReported
<1>1. IInv => FallbackReported
  <2> SUFFICES ASSUME IInv, NEW s \in fallback, s \in completed \/ events[s] \in ClosedStates
               PROVE  \/ s \in reported \/ events[s] \in ClosedStates \ {"Aborted"}
                      \/ s \in unread /\ events[s] \in Open
    BY DEF FallbackReported
  <2> QED  BY DEF IInv, Session, SessionTypes
<1> QED  BY <1>1, Invariance, PTL
-----------------------------------------------------------------------------
(***************************************************************************)
(* The sending half of the client: a receiver key is paid once.            *)
(*                                                                         *)
(* That is not inductive.  What a session broadcast has to be tied to the  *)
(* state of its log (BroadcastLogged), which every command looks at before *)
(* it starts a task; a task to the log it works on (TaskSaved), also in    *)
(* the steps that lie between two typestates (TaskLogged); and a session   *)
(* id to its row (RowsKept), so that a new session starts from an empty    *)
(* log.                                                                    *)
(***************************************************************************)
Send == INSTANCE CliSend

SenderSteps == Send!States \cup Cancelling \cup {"Idle", "Build", "Closing"}

(* Every variable the argument is about has its type. *)
TypeInv ==
    /\ row \in [Ids -> Uris \cup {"None"}]
    /\ events \in [Ids -> Send!States \cup {"None"}]
    /\ task \in [Ids -> SenderSteps]
    /\ broadcast \in [Ids -> SUBSET {"payjoin", "original"}]

(* A session without a row has no events and no task. *)
RowsKept == \A s \in Ids : row[s] = "None" => events[s] = "None" /\ task[s] = "Idle"

(* SenderPersister::new refuses a second row for a receiver key, ever. *)
UniqueKeys == \A s, t \in Send!Rows : KeyOf[row[s]] = KeyOf[row[t]] => s = t

(* A task that is at a typestate has it from the log. *)
TaskSaved == \A s \in Ids : task[s] \in Send!States => events[s] = task[s]

(* A step that lies between two typestates has the log of the first. *)
TaskLogged ==
    \A s \in Ids :
        /\ task[s] = "Build" => events[s] = "None"
        /\ task[s] \in Cancelling => events[s] = "PendingFallback"
        /\ task[s] = "Closing" => events[s] \in {"Success", "Aborted"}

(* A session that broadcast a transaction can only go on with that one. *)
BroadcastLogged ==
    \A s \in Ids :
        /\ "payjoin" \in broadcast[s] => events[s] = "Success"
        /\ "original" \in broadcast[s] => events[s] \in {"PendingFallback", "Aborted"}

(* The inductive invariant. *)
SenderIInv ==
    /\ TypeInv
    /\ RowsKept
    /\ UniqueKeys
    /\ TaskSaved
    /\ TaskLogged
    /\ BroadcastLogged

-----------------------------------------------------------------------------
(* What the invariant says of one session. *)
SenderSession(s) ==
    /\ row[s] \in Uris \cup {"None"} /\ events[s] \in Send!States \cup {"None"}
    /\ task[s] \in SenderSteps /\ broadcast[s] \in SUBSET {"payjoin", "original"}
    /\ row[s] = "None" => events[s] = "None" /\ task[s] = "Idle"
    /\ task[s] \in Send!States => events[s] = task[s]
    /\ task[s] = "Build" => events[s] = "None"
    /\ task[s] \in Cancelling => events[s] = "PendingFallback"
    /\ task[s] = "Closing" => events[s] \in {"Success", "Aborted"}
    /\ "payjoin" \in broadcast[s] => events[s] = "Success"
    /\ "original" \in broadcast[s] => events[s] \in {"PendingFallback", "Aborted"}

Shapes == /\ row = [s \in Ids |-> row[s]] /\ events = [s \in Ids |-> events[s]]
          /\ task = [s \in Ids |-> task[s]] /\ broadcast = [s \in Ids |-> broadcast[s]]

(* The invariant is that of every session, and of their keys together. *)
LEMMA Sessionwise ==
    (SenderIInv <=> Shapes /\ UniqueKeys /\ \A s \in Ids : SenderSession(s))
    /\ (SenderIInv' <=> Shapes' /\ UniqueKeys' /\ \A s \in Ids : SenderSession(s)')
BY DEF SenderIInv, TypeInv, Shapes, SenderSession, RowsKept, TaskSaved, TaskLogged,
   BroadcastLogged

-----------------------------------------------------------------------------
(* A step of a task may leave its session with log e, step k and broadcast b. *)
SenderFits(s, e, k, b) ==
    /\ e \in Send!States \cup {"None"} /\ k \in SenderSteps /\ b \in SUBSET {"payjoin", "original"}
    /\ row[s] = "None" => e = "None" /\ k = "Idle"
    /\ k \in Send!States => e = k
    /\ k = "Build" => e = "None"
    /\ k \in Cancelling => e = "PendingFallback"
    /\ k = "Closing" => e \in {"Success", "Aborted"}
    /\ "payjoin" \in b => e = "Success"
    /\ "original" \in b => e \in {"PendingFallback", "Aborted"}

(* A task changes its own session only. *)
LEMMA Local ==
    ASSUME SenderIInv, NEW s \in Ids, NEW e, NEW k, NEW b, SenderFits(s, e, k, b), row' = row,
           events' = [events EXCEPT ![s] = e], task' = [task EXCEPT ![s] = k],
           broadcast' = [broadcast EXCEPT ![s] = b]
    PROVE  SenderIInv'
<1>1. Shapes /\ UniqueKeys /\ \A t \in Ids : SenderSession(t)
  BY Sessionwise
<1>2. Shapes'
  BY <1>1 DEF Shapes
<1>3. UniqueKeys'
  BY <1>1 DEF UniqueKeys, Send!Rows
<1>4. ASSUME NEW t \in Ids PROVE SenderSession(t)'
  <2>1. CASE t = s
    <3>1. events'[t] = e /\ task'[t] = k /\ broadcast'[t] = b /\ row'[t] = row[s]
      BY <2>1, <1>1 DEF Shapes
    <3>2. row[s] \in Uris \cup {"None"}
      BY <1>1 DEF SenderSession
    <3> QED  BY <2>1, <3>1, <3>2 DEF SenderSession, SenderFits
  <2>2. CASE t # s
    <3>1. events'[t] = events[t] /\ task'[t] = task[t] /\ broadcast'[t] = broadcast[t]
      BY <2>2, <1>1 DEF Shapes
    <3>2. SenderSession(t)
      BY <1>1
    <3> QED  BY <3>1, <3>2 DEF SenderSession
  <2> QED  BY <2>1, <2>2
<1> QED  BY <1>2, <1>3, <1>4, Sessionwise

(* A session is unchanged by an assignment of what it has. *)
LEMMA SameValues ==
    ASSUME SenderIInv, NEW s \in Ids
    PROVE  /\ events = [events EXCEPT ![s] = events[s]]
           /\ task = [task EXCEPT ![s] = task[s]]
           /\ broadcast = [broadcast EXCEPT ![s] = broadcast[s]]
BY DEF SenderIInv, TypeInv

(* Every step of a task keeps the invariant. *)
LEMMA SenderTaskInv ==
    ASSUME SenderIInv, NEW s \in Ids, Send!TaskStep(s)
    PROVE  SenderIInv'
<1>1. SenderSession(s)
  BY Sessionwise
<1>2. /\ events = [events EXCEPT ![s] = events[s]]
      /\ task = [task EXCEPT ![s] = task[s]]
      /\ broadcast = [broadcast EXCEPT ![s] = broadcast[s]]
  BY SameValues
<1>3. SenderFits(s, events[s], task[s], broadcast[s])
  BY <1>1 DEF SenderFits, SenderSession
<1>4. SenderFits(s, events[s], "Idle", broadcast[s])
  BY <1>3 DEF SenderFits, SenderSteps, Send!States, Send!Open, Send!Posting, Cancelling
<1>5. ASSUME Send!Return(s), row' = row, events' = events, broadcast' = broadcast
      PROVE  SenderIInv'
  <2>1. task' = [task EXCEPT ![s] = "Idle"]
    BY <1>5 DEF Send!Return
  <2> QED  BY <1>2, <1>4, <1>5, <2>1, Local
<1>6. ASSUME NEW e, NEW k, Send!SaveGoto(s, e, k), SenderFits(s, e, k, broadcast[s])
      PROVE  SenderIInv'
  <2>1. /\ events' = [events EXCEPT ![s] = e] /\ task' = [task EXCEPT ![s] = k]
        /\ row' = row /\ broadcast' = broadcast
    BY <1>6 DEF Send!SaveGoto, Send!save_event, Send!Goto
  <2> QED  BY <1>2, <1>6, <2>1, Local
<1>10. CASE task[s] # "Idle" /\ Send!CallFails(s)
  BY <1>10, <1>5 DEF Send!CallFails, Send!storeVars
<1>11. CASE task[s] \in Send!Posting /\ Send!RelayFails(s)
  <2>1. row' = row /\ events' = events /\ task' = task /\ broadcast' = broadcast
    BY <1>11 DEF Send!RelayFails, Send!storeVars
  <2> QED  BY <1>2, <1>3, <2>1, Local
<1>12. CASE task[s] \in Send!Posting /\ Send!finalize_expired_session(s)
  BY <1>12, <1>5 DEF Send!finalize_expired_session
<1>13. CASE Send!build(s)
  <2>1. SenderFits(s, "WithReplyKey", "WithReplyKey", broadcast[s])
    BY <1>1, <1>13 DEF Send!build, SenderFits, SenderSession, SenderSteps, Send!States,
       Send!Open, Send!Posting, Cancelling
  <2> QED  BY <1>13, <1>6, <2>1 DEF Send!build
<1>14. CASE Send!post_original_proposal(s)
  <2>1. /\ SenderFits(s, "PollingForProposal", "PollingForProposal", broadcast[s])
        /\ SenderFits(s, "Aborted", "Closing", broadcast[s])
    BY <1>1, <1>14
    DEF Send!post_original_proposal, SenderFits, SenderSession, SenderSteps, Send!States, Send!Open, Send!Posting, Cancelling
  <2> QED  BY <1>14, <1>6, <2>1 DEF Send!post_original_proposal
<1>15. CASE Send!get_proposed_payjoin_psbt(s)
  <2>1. /\ SenderFits(s, "Success", "Closing", broadcast[s])
        /\ SenderFits(s, "Aborted", "Closing", broadcast[s])
    BY <1>1, <1>15
    DEF Send!get_proposed_payjoin_psbt, SenderFits, SenderSession, SenderSteps, Send!States, Send!Open, Send!Posting, Cancelling
  <2> QED  BY <1>15, <1>6, <2>1 DEF Send!get_proposed_payjoin_psbt
<1>16. CASE Send!FinishClose(s)
  <2>1. row' = row /\ events' = events /\ broadcast' = broadcast
    BY <1>16 DEF Send!FinishClose
  <2>2. CASE events[s] = "Success"
    <3>1. task' = [task EXCEPT ![s] = "Success"]
      BY <1>16, <2>2 DEF Send!FinishClose, Send!Goto
    <3>2. SenderFits(s, events[s], "Success", broadcast[s])
      BY <1>1, <2>2 DEF SenderFits, SenderSession, SenderSteps, Send!States, Send!Open,
         Send!Posting, Cancelling
    <3> QED  BY <1>2, <2>1, <3>1, <3>2, Local
  <2>3. CASE events[s] # "Success"
    BY <1>16, <2>1, <2>3, <1>5 DEF Send!FinishClose
  <2> QED  BY <2>2, <2>3
<1>17. CASE Send!process_pj_response(s)
  <2>1. /\ row' = row /\ events' = events
        /\ task' = [task EXCEPT ![s] = "Idle"]
        /\ broadcast' = [broadcast EXCEPT ![s] = broadcast[s] \cup {"payjoin"}]
    BY <1>17 DEF Send!process_pj_response, Send!Return, Send!storeVars
  <2>2. SenderFits(s, events[s], "Idle", broadcast[s] \cup {"payjoin"})
    BY <1>1, <1>17
    DEF Send!process_pj_response, SenderFits, SenderSession, SenderSteps, Send!States, Send!Open, Send!Posting, Cancelling
  <2> QED  BY <1>2, <2>1, <2>2, Local
<1>18. CASE Send!Terminal(s)
  BY <1>18, <1>5 DEF Send!Terminal, Send!storeVars
<1>19. CASE Send!broadcast_fallback(s)
  <2>1. /\ row' = row /\ events' = events
        /\ task' = [task EXCEPT ![s] = "CloseFallback"]
        /\ task[s] \in Cancelling
    BY <1>19 DEF Send!broadcast_fallback, Send!Goto, Send!storeVars, Cancelling
  <2>2. /\ SenderFits(s, events[s], "CloseFallback", broadcast[s])
        /\ SenderFits(s, events[s], "CloseFallback", broadcast[s] \cup {"original"})
    BY <1>1, <2>1 DEF SenderFits, SenderSession, SenderSteps, Send!States, Send!Open,
       Send!Posting, Cancelling
  <2>3. \/ broadcast' = broadcast
        \/ broadcast' = [broadcast EXCEPT ![s] = broadcast[s] \cup {"original"}]
    BY <1>19 DEF Send!broadcast_fallback
  <2>4. CASE broadcast' = broadcast
    BY <1>2, <2>1, <2>2, <2>4, Local
  <2>5. CASE broadcast' = [broadcast EXCEPT ![s] = broadcast[s] \cup {"original"}]
    BY <1>2, <2>1, <2>2, <2>5, Local
  <2> QED  BY <2>3, <2>4, <2>5
<1>20. CASE Send!close_fallback(s)
  <2>1. SenderFits(s, "Aborted", "Closing", broadcast[s])
    BY <1>1, <1>20
    DEF Send!close_fallback, SenderFits, SenderSession, SenderSteps, Send!States, Send!Open, Send!Posting, Cancelling
  <2> QED  BY <1>20, <1>6, <2>1 DEF Send!close_fallback
<1> QED
  BY <1>10, <1>11, <1>12, <1>13, <1>14, <1>15, <1>16, <1>17, <1>18, <1>19, <1>20
  DEF Send!TaskStep

-----------------------------------------------------------------------------
(* A session with no row has no events, and broadcast nothing. *)
LEMMA FreshSession ==
    ASSUME NEW s \in Ids, SenderSession(s), s \notin Send!Rows
    PROVE  events[s] = "None" /\ broadcast[s] = {}
BY DEF SenderSession, Send!Rows

(* A process that starts drives sessions whose step fits their log. *)
LEMMA StartInv ==
    ASSUME SenderIInv, row' = row, broadcast' = broadcast,
           events' = [t \in Ids |-> events'[t]], task' = [t \in Ids |-> task'[t]],
           \A t \in Ids : SenderFits(t, events'[t], task'[t], broadcast[t])
    PROVE  SenderIInv'
<1>1. Shapes /\ UniqueKeys /\ \A t \in Ids : SenderSession(t)
  BY Sessionwise
<1>2. Shapes'
  BY <1>1 DEF Shapes
<1>3. UniqueKeys'
  BY <1>1 DEF UniqueKeys, Send!Rows
<1>4. ASSUME NEW t \in Ids PROVE SenderSession(t)'
  <2>1. SenderSession(t) /\ SenderFits(t, events'[t], task'[t], broadcast[t])
    BY <1>1
  <2> QED  BY <2>1 DEF SenderSession, SenderFits
<1> QED  BY <1>2, <1>3, <1>4, Sessionwise

(* send makes a row only for a key that no row has. *)
LEMMA SendNewInv ==
    ASSUME SenderIInv, NEW u \in Uris, Send!send_new(u)
    PROVE  SenderIInv'
<1>1. Shapes /\ UniqueKeys /\ \A t \in Ids : SenderSession(t)
  BY Sessionwise
<1>2. PICK s \in Ids : Send!insert_session(s, u) /\ Send!Start("send", {s}, [t \in Ids |-> "Build"])
  BY DEF Send!send_new
<1>3. /\ s \notin Send!Rows /\ row' = [row EXCEPT ![s] = u]
      /\ task' = [t \in Ids |-> IF t \in {s} THEN "Build" ELSE "Idle"]
      /\ events' = events /\ broadcast' = broadcast
  <2>1. task' = [t \in Ids |-> IF t \in {s} THEN [r \in Ids |-> "Build"][t] ELSE "Idle"]
    BY <1>2 DEF Send!Start
  <2> QED  BY <1>2, <2>1 DEF Send!insert_session, Send!send_new
<1>4. Shapes'
  BY <1>1, <1>3 DEF Shapes
<1>5. u # "None" /\ ~Send!DuplicateSendSession(u)
  BY UriAssumption DEF Send!send_new
<1>6. UniqueKeys'
  <2>1. Send!Rows' = Send!Rows \cup {s} /\ row'[s] = u
    BY <1>1, <1>3, <1>5 DEF Shapes, Send!Rows
  <2>2. \A t \in Send!Rows : row'[t] = row[t] /\ KeyOf[row[t]] # KeyOf[u]
    BY <1>1, <1>3, <1>5 DEF Shapes, Send!Rows, Send!DuplicateSendSession
  <2> QED  BY <1>1, <2>1, <2>2 DEF UniqueKeys
<1>7. ASSUME NEW t \in Ids PROVE SenderSession(t)'
  <2>1. SenderSession(t)
    BY <1>1
  <2>2. CASE t = s
    <3>1. row'[t] = u /\ task'[t] = "Build" /\ events'[t] = "None" /\ broadcast'[t] = {}
      BY <1>1, <1>3, <2>1, <2>2, FreshSession DEF Shapes
    <3> QED  BY <3>1, <1>5 DEF SenderSession, SenderSteps, Send!States, Send!Open,
                Send!Posting, Cancelling
  <2>3. CASE t # s
    <3>1. row'[t] = row[t] /\ task'[t] = "Idle" /\ events'[t] = events[t]
          /\ broadcast'[t] = broadcast[t]
      BY <1>1, <1>3, <2>3 DEF Shapes
    <3> QED  BY <2>1, <3>1 DEF SenderSession, SenderSteps, Send!States, Send!Open,
                Send!Posting, Cancelling
  <2> QED  BY <2>2, <2>3
<1> QED  BY <1>4, <1>6, <1>7, Sessionwise

(* The sessions a command resumes go on where their log ends. *)
LEMMA ResumeInv ==
    ASSUME SenderIInv, NEW c, NEW S, Send!Start(c, S, events), \A s \in S : s \in Send!Rows /\ Send!Replays(s),
           row' = row, events' = events, broadcast' = broadcast
    PROVE  SenderIInv'
<1>1. Shapes /\ \A t \in Ids : SenderSession(t)
  BY Sessionwise
<1>2. task' = [t \in Ids |-> IF t \in S THEN events[t] ELSE "Idle"]
  BY DEF Send!Start
<1>3. ASSUME NEW t \in Ids PROVE SenderFits(t, events'[t], task'[t], broadcast[t])
  <2>1. SenderSession(t) /\ events'[t] = events[t]
    BY <1>1
  <2>2. CASE t \in S
    <3>1. task'[t] = events[t] /\ events[t] # "None" /\ row[t] # "None"
      BY <1>2, <2>2 DEF Send!Replays, Send!Rows
    <3> QED  BY <2>1, <3>1 DEF SenderFits, SenderSession, SenderSteps, Send!States, Send!Open,
                Send!Posting, Cancelling
  <2>3. CASE t \notin S
    <3>1. task'[t] = "Idle"
      BY <1>2, <2>3
    <3> QED  BY <2>1, <3>1 DEF SenderFits, SenderSession, SenderSteps, Send!States, Send!Open,
                Send!Posting, Cancelling
  <2> QED  BY <2>2, <2>3
<1> QED  BY <1>1, <1>2, <1>3, StartInv DEF Shapes

(* A command that starts no task leaves the sessions as they are. *)
LEMMA SameSessions ==
    ASSUME SenderIInv, row' = row, events' = events, task' = task, broadcast' = broadcast
    PROVE  SenderIInv'
BY DEF SenderIInv, TypeInv, RowsKept, UniqueKeys, TaskSaved, TaskLogged,
   BroadcastLogged, Send!Rows

(* cancel saves PendingFallback and starts with the broadcast. *)
LEMMA CancelInv ==
    ASSUME SenderIInv, NEW s \in Ids, NEW step \in {"BroadcastFallback", "PrintFallback"},
           Send!cancel_open(s, step)
    PROVE  SenderIInv'
<1>1. Shapes /\ \A t \in Ids : SenderSession(t)
  BY Sessionwise
<1>2. /\ events' = [events EXCEPT ![s] = "PendingFallback"]
      /\ row[s] # "None" /\ events[s] \in Send!Open
      /\ row' = row /\ broadcast' = broadcast
      /\ task' = [t \in Ids |-> IF t \in {s} THEN step ELSE "Idle"]
  <2>1. task' = [t \in Ids |-> IF t \in {s} THEN [r \in Ids |-> step][t] ELSE "Idle"]
    BY DEF Send!cancel_open, Send!Start
  <2> QED  BY <2>1 DEF Send!cancel_open, Send!save_event, Send!Rows
<1>3. ASSUME NEW t \in Ids PROVE SenderFits(t, events'[t], task'[t], broadcast[t])
  <2>1. SenderSession(t)
    BY <1>1
  <2>2. CASE t = s
    <3>1. events'[t] = "PendingFallback" /\ task'[t] = step
      BY <1>1, <1>2, <2>2 DEF Shapes
    <3> QED
      BY <1>2, <2>1, <2>2, <3>1 DEF SenderFits, SenderSession, SenderSteps, Send!States,
         Send!Open, Send!Posting, Cancelling
  <2>3. CASE t # s
    <3>1. events'[t] = events[t] /\ task'[t] = "Idle"
      BY <1>1, <1>2, <2>3 DEF Shapes
    <3> QED  BY <2>1, <3>1 DEF SenderFits, SenderSession, SenderSteps, Send!States, Send!Open,
                Send!Posting, Cancelling
  <2> QED  BY <2>2, <2>3
<1> QED  BY <1>1, <1>2, <1>3, StartInv DEF Shapes

(* A stopped process leaves no task. *)
LEMMA StopInv ==
    ASSUME SenderIInv, Send!Stop
    PROVE  SenderIInv'
<1>1. Shapes /\ \A t \in Ids : SenderSession(t)
  BY Sessionwise
<1>2. /\ task' = [t \in Ids |-> "Idle"] /\ row' = row /\ events' = events
      /\ broadcast' = broadcast
  BY DEF Send!Stop, Send!storeVars
<1>3. ASSUME NEW t \in Ids PROVE SenderFits(t, events'[t], task'[t], broadcast[t])
  <2>1. SenderSession(t) /\ events'[t] = events[t] /\ task'[t] = "Idle"
    BY <1>1, <1>2
  <2> QED  BY <2>1 DEF SenderFits, SenderSession, SenderSteps, Send!States, Send!Open,
              Send!Posting, Cancelling
<1> QED  BY <1>1, <1>2, <1>3, StartInv DEF Shapes

(* Every step of the client keeps the invariant. *)
LEMMA SenderNextInv == SenderIInv /\ [Send!Next]_(Send!vars) => SenderIInv'
<1> SUFFICES ASSUME SenderIInv, [Send!Next]_(Send!vars) PROVE SenderIInv'
  OBVIOUS
<1>1. CASE \E u \in Uris : Send!send_new(u)
  BY <1>1, SendNewInv
<1>2. ASSUME NEW u \in Uris, Send!send_again(u) PROVE SenderIInv'
  <2>1. row' = row /\ events' = events /\ broadcast' = broadcast
    BY <1>2 DEF Send!send_again
  <2>2. PICK s \in Send!get_send_session_id_by_receiver_pk(KeyOf[u]) :
          \/ Send!Replays(s) /\ Send!Start("send", {s}, events) /\ UNCHANGED completed
          \/ events[s] = "None" /\ Send!close({s}) /\ Send!Idle /\ UNCHANGED Send!processVars
    BY <1>2 DEF Send!send_again
  <2>3. s \in Send!Rows
    BY DEF Send!get_send_session_id_by_receiver_pk, Send!active_session_ids
  <2>4. CASE Send!Replays(s) /\ Send!Start("send", {s}, events)
    BY <2>1, <2>3, <2>4, ResumeInv
  <2>5. CASE UNCHANGED Send!processVars
    <3>1. task' = task
      BY <2>5 DEF Send!processVars
    <3> QED  BY <2>1, <3>1, SameSessions
  <2> QED  BY <2>2, <2>4, <2>5
<1>3. ASSUME NEW S \in SUBSET Ids, NEW L \in SUBSET S, NEW C \in SUBSET S,
             Send!resume_payjoins(S, L, C)
      PROVE  SenderIInv'
  <2>1. /\ row' = row /\ events' = events /\ broadcast' = broadcast
        /\ Send!Start("resume", {s \in S \ L : Send!Replays(s)}, events)
    BY <1>3 DEF Send!resume_payjoins
  <2>2. \A s \in {t \in S \ L : Send!Replays(t)} : s \in Send!Rows /\ Send!Replays(s)
    BY <1>3 DEF Send!resume_payjoins, Send!active_session_ids
  <2> QED  BY <2>1, <2>2, ResumeInv
<1>4. ASSUME NEW s \in Ids,
             \E step \in {"BroadcastFallback", "PrintFallback"} : Send!cancel_open(s, step)
      PROVE  SenderIInv'
  BY <1>4, CancelInv
<1>5. ASSUME NEW s \in Ids, Send!cancel_other(s) PROVE SenderIInv'
  BY <1>5, SameSessions DEF Send!cancel_other, Send!processVars
<1>6. ASSUME NEW s \in Ids, Send!TaskStep(s) PROVE SenderIInv'
  BY <1>6, SenderTaskInv
<1>7. CASE Send!history
  BY <1>7, SameSessions DEF Send!history, Send!processVars
<1>8. CASE Send!Stop
  BY <1>8, StopInv
<1>9. ASSUME NEW s \in Ids, Send!Expire(s) PROVE SenderIInv'
  BY <1>9, SameSessions DEF Send!Expire, Send!storeVars, Send!processVars
<1>10. CASE UNCHANGED Send!vars
  BY <1>10, SameSessions DEF Send!vars
<1> QED  BY <1>1, <1>2, <1>3, <1>4, <1>5, <1>6, <1>7, <1>8, <1>9, <1>10 DEF Send!Next

(* The empty database satisfies it. *)
LEMMA SenderInitInv == Send!Init => SenderIInv
<1> SUFFICES ASSUME Send!Init PROVE SenderIInv
  OBVIOUS
<1>1. /\ row = [s \in Ids |-> "None"] /\ events = [s \in Ids |-> "None"]
      /\ task = [s \in Ids |-> "Idle"] /\ broadcast = [s \in Ids |-> {}]
  BY DEF Send!Init, Send!ProcessInit, Send!StoreInit
<1>2. Send!Rows = {}
  BY <1>1 DEF Send!Rows
<1> QED
  BY <1>1, <1>2 DEF SenderIInv, TypeInv, RowsKept, UniqueKeys, TaskSaved, TaskLogged,
                    BroadcastLogged, SenderSteps, Send!States, Send!Open, Send!Posting, Cancelling

-----------------------------------------------------------------------------
(* The invariant holds in every state of the sending client. *)
THEOREM SenderInvariance == Send!Spec => []SenderIInv
BY SenderInitInv, SenderNextInv, PTL DEF Send!Spec

(* However often a URI is sent again, a session resumed or cancelled, or the  *)
(* process stopped, no receiver key is paid by two transactions.              *)
THEOREM KeyPaidOnce == Send!Spec => []PaidOnce
<1>1. SenderIInv => PaidOnce
  <2> SUFFICES ASSUME SenderIInv, NEW s \in Rows, NEW t \in Rows,
                      KeyOf[row[s]] = KeyOf[row[t]],
                      NEW x \in broadcast[s], NEW y \in broadcast[t]
               PROVE  s = t /\ x = y
    BY DEF PaidOnce
  <2>1. s = t /\ s \in Ids
    BY DEF SenderIInv, UniqueKeys, Rows, Send!Rows
  <2>2. /\ x \in {"payjoin", "original"} /\ y \in {"payjoin", "original"}
        /\ ~("payjoin" \in broadcast[s] /\ "original" \in broadcast[s])
    BY <2>1 DEF SenderIInv, TypeInv, BroadcastLogged
  <2> QED  BY <2>1, <2>2
<1> QED  BY <1>1, SenderInvariance, PTL
=============================================================================
