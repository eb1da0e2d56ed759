# A TLA+ verification of rust-payjoin

This directory holds TLA+ models of the parts of the repository that carry its
protocol logic, the TLC runs that check them on small instances, and TLAPS
proofs of the most important results for every instance. Paths below are
relative to the repository.

## The system

Payjoin (BIP 78, BIP 77) lets the receiver of a Bitcoin payment contribute
inputs to the transaction that pays it. The sender posts a signed *Original
PSBT*; the receiver validates it, adds inputs and outputs, signs its part and
sends a *Proposal PSBT* back; the sender checks it, signs and broadcasts. If
anything goes wrong, either of them can broadcast the Original PSBT, the
*fallback*. In BIP 77 the two never meet: they exchange encrypted messages
through mailboxes of a *directory*, over OHTTP, possibly days apart, so both
sides are state machines whose progress is an event log kept by the
application.

| component | state | operations | interacts with |
|---|---|---|---|
| session persistence, `payjoin/src/core/persist.rs` | an append-only event log and a closed flag per session, behind the application's `SessionPersister` | `save_event`, `close`, `load`; `save()` of a transition executes `NoOp`, `Save` or `SaveAndClose` | both session machines call it at every transition |
| BIP 77 receiver, `payjoin/src/core/receive/v2` | a typestate `Receiver<S>` (13 states), rebuilt from the log | poll, four checks, output and input choice, fee range, signing, posting, monitoring, error reply, cancel, close; replay | directory (poll, post, error), wallet callbacks, persistence |
| BIP 77 sender, `payjoin/src/core/send/v2` | a typestate `Sender<S>` with the reply key | post, poll and check the proposal, cancel, close; replay | directory, persistence |
| directory store, `payjoin-mailroom/src/db/files.rs` | mailbox files, `insert_order`, waiting readers `pending_v2`, waiting BIP 78 senders `pending_v1`, a mutex | post, long poll, BIP 78 request and response, prune, restart | HTTP handlers, disk, clock |
| directory service, `payjoin-mailroom/src/directory.rs`, `key_config.rs` | its OHTTP keys and the file they come from | OHTTP gateway, dispatch by method and path, start | store |
| command line client, `payjoin-cli/src/app/v2`, `src/db` | SQLite tables of sessions, events and seen inputs; per process the tasks and the relays that failed | send, receive, resume, history, cancel | both session machines, relays, directories, wallet |
| BIP 78 server and sender, `payjoin-cli/src/app/v1.rs`, `receive/v1`, `send/v1.rs` | requests being handled; the table of seen inputs of the client | accept, check and answer an Original PSBT; post one and process the answer | the client's database, wallet |
| proposal construction and checks, `receive/common`, `receive/mod.rs`, `send/mod.rs` | the working proposal with its amounts and its change output | substitute outputs, contribute inputs, apply a fee range; accept or refuse a proposal | session machines |
| OHTTP relay, `payjoin-mailroom/src/ohttp_relay` | a cache of probed gateways with its expiry heap, bootstrap tunnels and their permits | forward requests, probe gateways, tunnel | directory, clients |
| language bindings, `payjoin-ffi` | transition objects, each a lock around an optional transition | every method of the two session APIs, `save`, `save_async` | session machines, the host's persister |
| URIs, HPKE and OHTTP encoding, configuration, metrics | none | conversions and wiring | |

What is hard to test: a crash, a storage error or a lost answer at any of a
dozen points of a session, after which a *second* implementation of every
transition (`process_event`) must rebuild the state the first one had;
retries towards a directory that silently keeps only the first message of a
mailbox; sessions that expire between two calls; in the directory, requests that
share a waiting channel, time out, clean up after each other, disconnect, and
race with pruning; a client program that is stopped between saving, closing and
broadcasting; a relay whose requests wait for a probe another client's request
carries; a foreign host that keeps handles a Rust caller would have given up.
`PROJECT.json` lists these hazards at their lines with the
properties that cover them.

What makes each component correct:

* persistence and sessions: replay reconstructs the live state; a log is never
  extended past its end; a session is marked closed only when its log ends it.
* receiver: one session never tells the sender two different things; the
  fallback is never lost once obtained; the recorded outcome is what happened.
* sender: one reply mailbox per session, at most one proposal to sign, none
  after a cancellation.
* directory: no lost wakeup, no reader left without a channel, the first writer
  of a mailbox wins, capacity and time to live hold.
* proposal construction and checks: the sender loses no output, no input and no
  more than it offered, and that only to fees for the receiver's inputs; the
  receiver pays no more than its limit; each accepts what the other builds
  within its terms.
* sender, receiver and directory together: what they record agrees with the
  transaction that confirms, and a payjoin nobody gives up completes.
* command line client: one payment per receiver key, no coin probed twice, no
  fallback withheld, every session ends.
* bindings: as long as a host goes on from where its session is, whatever
  objects it makes, drops or saves twice, its log replays and its session says
  one thing.
* relay: one probe per gateway, requests admitted only on a policy in force,
  tunnels within their budget and of limited life.

## Modules

| module | models | |
|---|---|---|
| `Persist` | `persist.rs` | the log, the closed flag, the handles, and what each `PersistActions` does when it succeeds, fails or dies half way |
| `ReceiveSession` | `receive/v2/mod.rs`, `receive/v2/session.rs` | extends `Persist`; one action per public transition, replay event by event, expiration, crashes, lost answers |
| `SendSession` | `send/v2/mod.rs`, `send/v2/session.rs` | extends `Persist`; the same for the sender |
| `Mailboxes` | `db/files.rs` and the handlers that call it | one task per request; what happens under the mutex is one action |
| `Psbts` | `psbt/mod.rs` and the arithmetic of the bitcoin crate | amounts, weights and fees of a PSBT |
| `ProposalCheck` | `send/mod.rs` | extends `Psbts`; the sender's context and the checks of a proposal, as operators |
| `Proposal` | `receive/common/mod.rs`, `receive/mod.rs` | extends `ProposalCheck`; the receiver's construction, between the sender's builder and its verdict |
| `ReceiverContract`, `SenderContract` | | what a session promises the others: the abstract specifications that `ReceiveSession` and `SendSession` implement |
| `KeyConfig` | `key_config.rs`, `init_ohttp_config` of `lib.rs` | the directory's OHTTP keys across crashes and restarts |
| `Payjoin` | `core/ohttp.rs`, the gateway and handlers of `directory.rs`, the request and response halves of both sessions | extends `KeyConfig`; instances of both contracts, the directory between them, the chain |
| `CliStore` | `payjoin-cli/src/db` | the SQLite tables |
| `MailroomManager` | `app/v2/ohttp.rs` | the relays and directories that failed |
| `CliProcess` | `app/v2/mod.rs`, what both halves share | extends the two above; process, tasks, expiration, interruption |
| `CliSend`, `CliReceive` | `app/v2/mod.rs` | extend `CliProcess`; the commands and the drivers of the sessions |
| `CliV1` | `app/v1.rs`, `receive/v1`, `send/v1.rs` | extends `CliReceive`; the BIP 78 server and its senders |
| `Bindings` | `payjoin-ffi/src/receive`, `send` | extends `Persist`; the transition objects over the events of both session modules |
| `Prober` | `ohttp_relay/gateway_prober.rs` | the cache, one operator per critical section |
| `Relay` | `ohttp_relay/mod.rs`, `bootstrap` | extends `Prober`; requests, probes, tunnels |
| `ReceiveSession_proofs`, `SendSession_proofs`, `Mailboxes_proofs`, `Relay_proofs`, `Payjoin_proofs`, `Proposal_proofs`, `Bindings_proofs` | | theorems about the module each is named after |
| `Cli_proofs` | | theorems about `CliV1`, with `CliReceive` under it, and about an instance of `CliSend` |
| `MC*` | | instances for TLC |

### Persist

`log` is the event log, `is_closed` whether `close()` took effect, `live` the
typestate handles the application holds (a set, because the model must be able
to show that there are never two), and `trace` a history variable: `trace[i]`
is the typestate that the transition which wrote `log[i]` returned. A
transition consumes its handle (`self`), so `SaveThen(e, s)` either appends `e`
and leaves exactly the handle `s`, or fails (`SaveError`): the handle is gone
and the event may or may not have been stored. `SaveAndClose` can fail between
its two calls. `KeepState` is a transient rejection or a stasis: nothing is
persisted and the caller gets its state back.

### ReceiveSession

A typestate is a record: its tag, the Original payload, whether it carries a
fallback transaction, the working or final PSBT, the change output, the
outcome. PSBTs are abstract values with a number of outputs: the randomised
shuffles, the input insertion, the fee adjustment and the wallet's signature
are choices over `Proposals`, restricted to the same number of outputs where
the code keeps them. Callbacks of the application and validation results are
choices among the outcomes the code distinguishes: accepted, replyable error,
transient error. The output maps of a PSBT are left out: without an output
replacement the live path keeps them and replay resets them, but
`prepare_psbt` discards them in both.

`process_event` is translated arm by arm. `start_replay`, `replay_event` and
`construct_history` are the steps of `replay_event_log`, so that a crash can
fall between them; replay reads the log only, never `trace`. `create_request`
covers the three request constructors; a request that is not a poll adds a
message to `sent`, the set of everything that was handed to the network for
the sender (a set: messages may be lost, duplicated or reordered). `request`
is the OHTTP context an answer is processed with. `Broadcast` is the sender's
wallet: it can settle with the fallback or with a proposal it was sent.

### SendSession

The same structure over the sender's four typestates. `close` is different: it
takes `&self`, so the handle survives it. `accepted` records the proposals the
application was given to sign.

### Mailboxes

`task[r]` is the program counter of request `r` (`new`, waiting, cleaning up,
`done`) and names the oneshot channel it waits on. `channel[c]` is `None` while
open, the value sent, or `Dropped` when the sending half went away unsent.
`Pruned` is what `Mailboxes::prune` leaves, evaluated inside every
`has_capacity` as in the code.

A request ends early because a disk operation fails or because its client is
gone and its future is dropped where it awaits; `Faults` selects which of these,
and restarts, an instance explores. Each can fall

* inside `prune`, which pops an entry before it removes the file
  (`has_capacity_stopped`; in the background task, which then panics and prunes
  no more, `prune_failed`);
* between the steps of `try_insert` and up to the booking: the message is linked
  or not, the temporary file left or not, and nobody is told
  (`post_v2_stopped`). What tokio's blocking pool was asked to do is done or is
  not;
* while a message is looked up or compared (`post_v2_unread`, `read_stopped`);
* while a request waits or is about to clean up (`Disconnect`).

Three history variables name the files these leave behind: `torn` those linked
and neither booked nor announced, `stuck` those popped and not removed, `found`
those of either kind that a restart booked. The model is of the release build,
without the debug assertion of `prune`.

### Psbts, ProposalCheck, Proposal

`ReceiveSession` and `SendSession` carry PSBTs as abstract values; these three
modules look into them. A PSBT is its inputs (outpoint, sequence number, the
PSBT fields that are set), its outputs (script, value, whether it carries key
derivations) and a header for version and lock time. What is known of a coin,
its value, script, type and expected weight, is the constant `Coin`; weights and
rates are small numbers with the code's rounding: a fee is rounded up, a rate
down, to `Scale` weight units (1000 in the code).

`ProposalCheck` holds the functions of `send/mod.rs` under their names. The loops
over two peekable iterators are folds whose accumulator is the index of the next
original. A builder function that can fail is the set of its results, empty for
an error.

`Proposal` is one payjoin without crashes: `BuildContext` (every way the
builder offers, recommended, explicit with or without clamping, none), then
either the receiver's operations in the order of its typestates or `Answer`, a
proposal by another implementation, then `process_proposal`. The random choices
of the receiver, which replacement takes which place, how the others are
interleaved, where inputs go, are existential. A call that returns an error and
leaves the session unchanged takes no step; where the code panics, or fails for
good, the model has a final stage (`OutOfBounds`, `SenderUnderflow`,
`DrainUnderflow`, `FeeTooHigh`). `committed` is a history variable.
Weights wrap as `u64` does in a release build (`Word`).

### The contracts

`ReceiverContract` says what the rest of the system can rely on of a receiver
session: one Original PSBT, one message in the sender's mailbox however often it
is posted, one outcome, and an outcome that is true (`Justified`: `Success` only
when the transaction that settled is the one that was proposed, and so on).
`SenderContract` says it of a sender session: one reply key in all its requests,
one outcome, and a proposal handed to the wallet only when the outcome names
it. They know nothing of logs, handles, retries, replays and crashes.
`ReceiveSession` and `SendSession` implement them (`ImplementsContract`): the
refinement mapping reads the original and the outcome from the *stored log* and
the messages from what was handed to the network, so it says that a crash at any
point is a stutter or a step of the contract.

### Payjoin

One receiver, the senders its URI was shown to, and the directory between them.
The sessions are instances of the contracts, which is sound by the refinement;
every step of theirs is joined with the request it puts on the network. Posts
are lost, delivered once or again (`LosePost`, `post_mailbox` with or without
its OK arriving); a poll answers with the mailbox or with nothing; the directory
keeps the first message of a mailbox, and refuses a request that was
encapsulated for keys it does not have. `KeyConfig` is its process: the key file
is read or created while it starts, and a crash may fall between creating and
writing it. `settled` is the chain: one transaction spends a sender's inputs.

### CliStore, MailroomManager, CliProcess, CliSend, CliReceive, CliV1

The client keeps events in SQLite; a log is represented by the typestate it
replays to, which `ReplayMatchesLive` justifies. One process at a time runs one
command (the database is locked exclusively); `task[s]` is where its driver of
session `s` is. Every call the driver makes that can fail, and every await at
which an interrupt can stop it, lies between two actions: saving an event,
closing, broadcasting, printing a fallback are steps of their own, in the order
of the code. `check_no_inputs_seen_before` looks outpoints up and inserts them
one at a time (`checked`), from several tasks at once. `resume` replays every
open session first, and the loads that fail, the logs that do not replay and the
`close` calls that fail are three independent choices (`resume_payjoins`); a
session whose log failed to load is closed by it, and is in `unread` when it had
a fallback to show. `CliV1` adds the BIP 78
server of the same program, which shares that table, and the senders that post
to it; a request that is interrupted leaves nothing but what it inserted.

### Bindings

A foreign host cannot consume a typestate: each method clones the handle and
returns an object with the transition in a lock, which `save` takes out before it
calls the host's persister. `value[t]` is that lock, `saves` the calls in
progress. The host may call methods on any handle it still has, the current one
or those of the objects it holds (`Handles`), create transitions it never saves,
save one twice or from two threads, drop a `save_async` future, and replay at
any time. Nothing in the code stops it from saving an object of a handle the
session has left, two `finalize_proposal` objects of one handle for instance, or
from replaying while a save is in progress. It then forks the session; `forks`
counts how often it did, and `MaxForks` bounds that. The transitions themselves
are those of `ReceiveSession` and `SendSession`, through `INSTANCE`.

### Prober, Relay

`by_url` and `by_expiry` are the map and the heap behind the prober's lock. Time
is what is left of a policy's time to live. A request runs in the task of its
connection: it is admitted by a cached policy, waits for a probe, or becomes the
one that probes; a client that disconnects drops the task wherever it waits. An
admitted request waits for its body, without a bound, before it goes out. A
tunnel holds a permit and a unit of the gauge through its phases, until it
ends, fails or meets its deadline; the permit goes with the inner future
(`Close`), the gauge with the guard afterwards (`drop_guard`). `heard` is a
history variable: how long ago a gateway last answered with an opt-in.

## Runs

Bounds are constants of the instances. Passing runs:

* `receive`: two payloads (one BIP 77 with SegWit inputs, one BIP 78 without),
  two proposals that differ in their number of outputs. One of each kind is
  enough for every branch of the code; two proposals are enough to tell a
  session that sends two things from one that sends one. The log is bounded by
  the machine itself. 75 thousand states. `ImplementsContract` is the refinement
  of `ReceiverContract`.
* `send`: two reply keys, two proposals, at most six events (`MaxEvents`
  bounds only the repeated `close`); with the refinement of `SenderContract`.
* `mailboxes`: three mailboxes, two messages, three requests of any kind,
  capacity 2, time to live 1, time up to 3, all faults. Three requests are two
  readers sharing a channel and a writer, or a write that stopped, two more and
  a restart that finds more files than the capacity; the capacity is reachable.
  Ids, messages and requests are interchangeable, which the symmetry uses.
* `proposal`: five Original PSBTs (payment first, change first, no change, two
  owned outputs, two sender outputs of one script), one or two sender inputs of
  different types, two receiver coins contributed in one call
  (`MaxContributions`) in every order and place, replacements that raise, split,
  drain and substitute the receiver's output with lighter and heavier scripts,
  two fee rates on each side of the Original's, contributions below and above
  the change; and about eight hundred proposals of other receivers, whose
  outputs are all sequences of up to three from six, with the sender's inputs
  missing, shuffled, signed or changed. Amounts are below 20 and weights below
  4, enough for every rounding and comparison to go both ways. The system stops
  at a verdict, so deadlock is not checked. 200 thousand states.
* `payjoin`: two senders of one URI, one with SegWit inputs and one without, one
  proposal (a second one is excluded by the contract), one crash of the
  directory (`MaxCrashes`), which starts with or without a key file. Safety and
  liveness together; it stops when everything is settled, so deadlock is not
  checked. 730 thousand states.
* `cli_send`: two sessions, three URIs of which two have the same receiver key,
  two relays. Two sessions are what a second payment needs; the third URI makes
  the key, and not the URI, what counts. 51 thousand states.
* `cli_receive`: two payments (`MaxPayments`), each a BIP 77 session or a request
  to the BIP 78 server, whose Original PSBTs spend the same two coins; any set of
  loads and closes fails at a `resume`; one relay and one directory (`cli_send` has the relays' interplay).
* `bindings`: one session of either role, two transition objects at a time, a
  proposal that is signed as it is or changed, two reply keys, no fork. 450
  thousand states, with symmetry.
* `relay`: the default gateway and two others with a cache of two entries, two
  requests, two tunnel tasks for one permit, times to live 1, 2 and 3. The cache
  fills, the heap holds two entries of one instant, and a tunnel is refused. 300
  thousand states.

`OfferCovered` and `TermsAccepted` exclude Original PSBTs that pay one script
twice. The terms of `TermsAccepted` (`WithinTerms`) are the conditions under
which the code's two halves agree, found with TLC. Outside of them a proposal
can be refused although the receiver followed its API: outputs that were raised
without contributing inputs lower the fee; without output substitution an extra
output in front of the payee's is taken for the payee's; two owned outputs are
known to the receiver only; and a receiver that asks for a higher rate than the
Original PSBT pays has the sender contribute more than `check_fees` allows.

`PaidOnce` is about BIP 77 URIs. A BIP 78 URI has no session row, so sending to
it twice pays twice, as the wallet would. `PayjoinCompletes` has the premise that
the directory has the session's keys from some time on, because of
`payjoin_keys`.

### Fairness

* `relay`: time passes, a request whose probe was answered is polled, and so is a
  tunnel; `run_tunnel_within` is a timeout around the whole tunnel, so
  `TunnelsEnd` needs nothing of the client or the gateway.
* `cli_send`, `cli_receive`: tasks are polled, expiration comes, and the user of
  sessions that are open runs `resume` again and again (strong fairness, because
  the process may be busy or be stopped in between); a BIP 78 server is stopped
  at some time. The database does not refuse for ever to load and to close a
  session. No relay, directory or wallet call is assumed to succeed.
* `payjoin`: the operator restarts a directory that crashed; both sides keep
  retrying, as the client's loops do; a request that is repeated for ever is
  answered at last (strong fairness of delivery with its answer); a proposal
  that was handed over is broadcast, and the receiver watches the chain. Giving
  up and expiration are never assumed and never excluded.

### Disagreements

Runs that show a disagreement between the code and what the repository says
about it, each with its finding in `PROJECT.json`:

* `bindings_forked`: "The events can be replayed from the log". The bindings save
  two objects of one handle, and the log does not replay.
* `relay_probe`: `check_opt_in` expects that "probe task should never be dropped".
  The probe runs in the future of a client's request; when that client
  disconnects, the requests that wait for it panic, and the gateway's entry has
  no expiry and stays.
* `payjoin_keys`: the `ikm` that is persisted is not the key material of the
  server that is run, so the first restart changes the OHTTP keys.

Others were met and are not runs of their own; the model has the behaviour
wherever it covers the code, and claims nothing that excludes it. In the
sessions and the store:

* The error reply for a BIP 78 sender goes to a mailbox nobody reads
  (`receive/v2/mod.rs:1527`).
* A BIP 78 sender waits with "receiver must not fail" (`db/files.rs:282`). The
  cleanup of one request removes the entry of the next one on that mailbox, whose
  wait then panics. `ReaderKeepsChannel` shows that readers are safe from this.
* `prune` asserts, in a debug build, that the sender of every pending BIP 78
  request still waits (`db/files.rs:462`). One that timed out stops waiting before
  it takes the lock to clean up.
* A stale duplicate in `insert_order`, left by re-posting an identical message,
  prunes a fresh mailbox (`db/files.rs:467`) and makes the capacity check count
  one mailbox twice. Five requests on two mailboxes show it, two more than the
  `mailboxes` run has; see the proof of `FirstWriterWins` below.
* A message linked and not booked is not told to the readers that wait, and not
  pruned before a restart (`db/files.rs:142`).
* The writer that loses a mailbox to an earlier message is told OK.
* "Closed sessions terminated before expiration" (`construct_history`) does not
  hold: the transitions that close do not look at the clock.
* `SessionPersister::close` "Marks the session as closed, no more events will be
  appended": `Sender<PendingFallback>::close` takes `&self` and can be saved
  again, which appends a second `Closed` event.
* The temporary file of `try_insert` is not "always unlink[ed] before
  returning": a failed write returns before, and later posts to that mailbox
  fail until a restart.

In the construction of a proposal:

* A second `contribute_inputs` recomputes what the receiver must fund from
  outputs the first call changed, and loses the first contribution to fees
  (`receive/common/mod.rs:381`).
* `try_preserving_privacy` can select a coin that does not avoid the heuristic it
  names (`receive/common/mod.rs:308`).
* Key derivations of an unchanged change output are not restored when an output
  before it was changed (`send/mod.rs:479`).
* `substitute_receiver_script` after `replace_receiver_outputs` uses the index
  of the replaced outputs in the Original PSBT (`receive/common/mod.rs:99`).
* A replacement output lighter than the original makes
  `additional_output_weight` wrap.
* `minfeerate` travels as an `f32` in sat/vB and is rounded up by the reader, so
  the receiver may read one sat/kwu more than the sender meant.

In the command line client:

* The v1 and v2 `SenderBuilder::from_parts` enable output substitution
  always, so `pjos=0` is ignored where the v2 app sends to a BIP 78 URI.
* A failed `send` names `cancel` as the way to broadcast the original transaction
  (`app/v2/mod.rs:308`). When it is the wallet that failed on an accepted
  proposal, the session is completed: `cancel` refuses it, `resume` does not list
  it, and `send` refuses the URI.
* An open session "may resume" (`payjoin-cli/README.md:145`); `resume` closes one
  whose log could not be loaded (`app/v2/mod.rs:422`).
* `DuplicateSendSession` says a session is "already active" also when it is
  completed or never got an event.
* Coins are not reserved: two sessions or BIP 78 requests at a time may
  contribute the same receiver coin.
* Two Original PSBTs that share inputs can both be rejected, because each inserts
  its outpoints one at a time.

In the bindings, the mailroom and the relay:

* The bindings' macro reports every error of a save as a storage error.
* A key file that was created and not written makes every later start panic.
* The tunnel's WebSocket reader takes a Ping, a Close or an empty frame for the
  end of the stream, and returns pending without a waker on a Pong or a text
  frame; only the tunnel's deadline ends the wait. Probes have no timeout.
* The address list fetched at run time replaces the one from the file, and its
  cache is not written atomically.

Every property of a passing run has a mutant in `PROJECT.json`: a variant of a
definition, kept beside it, that a plausible slip in the code would produce and
that violates the property.

## Proofs

The theorems hold for every value of the constants that satisfies the named
assumptions of the modules: any number of payloads, proposals, sessions,
mailboxes, requests, gateways, senders; any capacity, time to live or budget.
The assumptions say that null values are none of the real ones, that classes
are subsets of what they classify, that every PSBT has an output, that ids of
different kinds differ (`ExchangesAssumption`, `NamesAssumption`,
`UriAssumption`), and that the mailbox ids are finitely many (`IdsAssumption`).
Every proof module states the inductive invariant its theorems rest on. TLC
checked it on the instance of the component's run before it was proved, except
in `Proposal_proofs` and `Bindings_proofs`, whose invariants quantify over all
PSBTs or all sessions. The proof that a step keeps it has one lemma or step per
action.

| module | theorem | shows |
|---|---|---|
| `ReceiveSession_proofs` | `TypeCorrect`, `ReplayCorrect`, `NoEquivocation`, `ClosedEnded`, `LogFinal` | `TypeOK`, `ReplayMatchesLive`, `NeverEquivocates`, `ClosedSessionsEnded`, `ClosedIsFinal` |
| `ReceiveSession_proofs`, history | `FallbackCorrect`, `StatusCorrect`, `Refinement` | `FallbackAgrees`, `StatusAgrees`, `ImplementsContract` |
| `SendSession_proofs` | `TypeCorrect`, `ReplayCorrect`, `AtMostOneProposal`, `Refinement` | `TypeOK`, `ReplayMatchesLive`, `OneProposal`, `ImplementsContract` |
| `Mailboxes_proofs` | `OneKind`, `ReadersStayConnected`, `NoOverwriting` | `OneKindPending`, `ReaderKeepsChannel`, `FirstWriterWins` |
| `Mailboxes_proofs`, but for files left behind | `WakeupsKept`, `FilesFound`, `CapacityKept` | `NoLostWakeup`, `FilesTracked`, `WithinCapacity` |
| `Relay_proofs` | `OneProbeEach`, `CacheCorrect`, `BudgetKept`, `OptInRespected` | `OneProbe`, `CacheTracked`, `TunnelBudget`, `AdmittedOnOptIn` |
| `Cli_proofs`, sending | `KeyPaidOnce` | `PaidOnce` |
| `Cli_proofs`, receiving | `ProbedOnce`, `FallbackShown` | `InputsProbedOnce`, `FallbackReported` |
| `Payjoin_proofs` | `SidesAgree` | `OutcomesAgree` |
| `Proposal_proofs` | `TypeCorrect` | `TypeInv`, the types and what each part relies on |
| `Proposal_proofs`, any proposal | `OutputsKeptAlways`, `InputsKeptAlways`, `ContributionAlwaysPaysInputs` | `SenderOutputsKept`, `SenderInputsKept`, `ContributionPaysInputs` |
| `Proposal_proofs`, the receiver | `OfferAlwaysCovered`, `ReceiverFeeAlwaysBounded` | `OfferCovered`, `ReceiverFeeBounded` |
| `Bindings_proofs`, hosts that do not fork | `LogAlwaysReplays`, `SaysOneThing` | `StoredLogReplays`, `BoundSessionSaysOneThing` |

**Receiver.** `NeverEquivocates` is not inductive: why can a proposal not be
sent, then another, then an error? Because a message is only sent from a handle
whose state is the last of `trace`, and `trace` never returns to an earlier
stage. `IInv` makes that precise: `Advances` gives every typestate a rank and
says ranks grow strictly along `trace`; `SentLogged` says that every message in
`sent` is that of a `PayjoinProposal` or a `HasReplyableError` state of `trace`.
These two share a rank, so `trace` holds one of them at most, and all messages
stem from it. `ReplayMatchesLive` is needed so that the handle a replay returns
is that last state too, and `StatesWellFormed` (no invalid state in `trace`, a
working PSBT exactly where the typestate has one) so that `process_event` never
refuses a log the transitions wrote. `ClosedLogged` ties `Closed` states to
`Closed` events. Each action either keeps the log (`KeepStep`), appends one
event with the state `process_event` gives for it (`SavedStep`), or replays; the
lemmas `SaveThenStep` and `CloseStep` reduce the two persist actions to these,
and each transition is left with showing that its event replays to its state.

The history reads the log, the live session reads its state. `HInv` relates the
two: the events `fallback_tx` looks for are in the log exactly when the states
after them carry a fallback (`FallbackHeld`, `FallbackLogged`); the payload of
the states is the logged one (`OriginalLogged`); a posted proposal was requested
and a monitored one was sent (`PostRequested`, `MonitoredSent`), which is what
makes an outcome `Justified` in the contract. The refinement then maps every
action: an appended event is the step of the contract it stands for, a request
is `Answer`, the sender's wallet is `Settle`, and everything else, crashes,
replays and failed saves included, is a stutter.

**Sender.** `close` keeps its handle, so a log may end in several `Closed`
events: `EventsStand` says which state each stored event stands for, and that
exactly the successes name a proposal, `OneKey` and `RequestsNameKey` that all
states and requests carry the reply key of the `Created` event, `GivenLogged`
that a proposal the wallet was given is the one the log's last event,
`Closed(Success)`, names.

**Directory store.** `IInv` (the channels: who is registered where, that
channels not yet used are untouched, and that a task's channel is its own or one
it shares with the readers of its mailbox) and `SInv` (the files,
`insert_order` and the capacity) hold for every choice of `Faults`. `SInv` has
its exceptions in the store itself: a `torn` or `stuck` file need not be booked,
readers may be registered for a `torn` one, and `insert_order` may exceed the
capacity by the files in `found`, which are on disk and neither `torn` nor
`stuck` again before they are pruned. The exceptions end: a restart empties
`torn` and `stuck`, the same message posted again leaves them, and pruning an
entry takes it out of `found`. A
request works on what `prune` leaves, wherever it stopped (`PrunedTo`), so both
invariants are stated over a store given as an argument, and shown of the pruned
store first.

The proof of `FirstWriterWins` changed the property. It used to say that a
message stands until its own time to live is over, which TLC confirmed for four
requests and which is false for five: re-posting an identical message books it a
second time (`files.rs:379`); when the first entry has expired and the mailbox is
used again, the second entry, held up behind a fresher one of another mailbox,
later prunes the younger message before its time. The property now says what the
code keeps: a message is replaced only after *some* booking of its mailbox
expired.

**Relay.** `OneProbe` follows from the mark a probe leaves (`ProbeMarked`: the
entry of a gateway is in flight while a request probes it), and
`AdmittedOnOptIn`, an action property, from ages: the time to live left of an opt-in in the cache and
the time since it was heard add up to a week (`OptInFresh`), and a request told
of an opt-in goes on before any time passes (`ToldFresh`). It is about
admission: between there and the gateway is the wait for the body, which has no
bound, so all that can be said of what goes out is that it was admitted, for
that gateway. `TunnelBudget` counts permits over `Holding` and the gauge over
`Open`.

**Command line client.** `PaidOnce` needs the states of the log
(`BroadcastLogged`: a session that broadcast the payjoin is `Success`, one that
broadcast the Original PSBT is `PendingFallback` or `Aborted`), because a command
decides by the log what to do next; `TaskLogged` and `TaskSaved` tie the steps
of the driver to it, and `UniqueKeys` is what the two queries of
`SenderPersister::new` keep. `InputsProbedOnce` needs the outpoints a check has
written and not yet passed: `Claimed` says that what sessions and requests claim
is in `inputs_seen`, and that no two of them claim the same outpoint; an outpoint
is claimed with its insertion, because only a new one goes on, and whatever a
stopped process claimed is given up and stays in the table. `FallbackReported` is
one conjunct of `Session`, with how rows come to be completed; a session in
`unread` was closed by `resume` with its log open, and `cancel` still shows its
fallback.

**Together.** `OutcomesAgree` speaks of the two ends, so the invariant follows a
message between them: the network and the mailboxes hold only Original PSBTs for
the receiver and its one answer for the sender it took (`Delivered`), a sender
records, signs and broadcasts only that (`Signed`), and a fallback before the
deadline was broadcast by a side that gave up (`FallbackExcused`). Liveness of
retries and the OHTTP keys play no part. With the two refinement theorems, what
is proved of the contracts here holds of the sessions.

**Proposal.** What the sender keeps of a proposal it accepts does not depend on
who made it: `VerdictInv`, a part of `TypeInv`, says that an accepted proposal
is what `Restored` makes of a PSBT that passed `Acceptable`, and the three
theorems about any proposal are consequences of the checks alone. They are
about folds: the accumulator of `check_inputs` and `check_outputs` is followed
index by index, and its `next` gives the embedding of the sender's inputs and
outputs that the properties ask for. The provers cannot instantiate the
library's induction theorems, which take a predicate. These proofs put a set in
its place (`UpTo`, `LeastNat` and `LeastSubset`, from the well-foundedness of
`<` and of strict inclusion), and show once that the sums and folds of the
community modules, recursions over subsets of the indexes, have exactly one
solution, so that each fold can be unfolded from its last element.

The receiver's two theorems need an invariant of their own. `OfferInv` says that
the fee output is in the proposal and holds the whole offer until
`apply_fee_range` takes from it; `MoneyInv` that what the receiver's outputs hold
is what it was to be paid and put in (`FundedInv`, `BalancedInv`), so that all it
loses is the fee `apply_fee_range` deducts. Their hypotheses:

* `NoSenderScript` and `OwnReplacements`: the outputs an application hands to
  `replace_receiver_outputs` pay none of the sender's scripts, or pay its own.
  The code checks neither; with a replacement to the sender's fee script
  `Position` finds the wrong output. `ReplacementsAssumption` of `MCProposal`
  has TLC evaluate both on the checked instance.
* `AddedWeightFits`: the weight the receiver added is neither negative nor wider
  than a machine word. With outputs lighter than the Original's the subtraction
  wraps in a release build (`additional_output_weight`), and the bound the code
  computes is no bound.

**Bindings.** `ForkInv` says that `BindInv` holds as long as `forks` is 0: from
the first fork on nothing is claimed. A transition object is taken out of its
cell when it is saved, so there is at most one current handle or one save in
progress, and it stands where the log ends (`HandleInv`; a handle that was reworked by the methods that save nothing
has the same place, `SamePlace`). The log is then extended only by events that
apply to its last state (`LogInv`). For `BoundSessionSaysOneThing` the typestates
are divided into those before anything is told, those that tell, and those after:
`Step` shows of every method of either role that a session goes only forward
through these three, and that what it tells stays the same while it does.
Handles the session has left can still be asked for requests, so `SentInv` is
about all a handle in `Handles` could still tell, not about the current one. `ReplayedEnding` shows that replaying the log gives the last state.

Model-checked only:

* liveness (`PayjoinCompletes`, `SessionsEnd`, `TunnelsEnd`):
  fairness is out of the proof system's reach;
* `TermsAccepted` of `Proposal`, that the receiver's arithmetic satisfies the
  sender's checks: it is not true of all constants. A receiver coin with a script
  of the sender's, for instance, is paid for by the receiver's arithmetic and
  weighs nothing in `check_fees`. What it takes of weights and scripts for the
  two computations to agree was not worked out; TLC checks them on the
  instance.

## Not modelled

* Cryptography and OHTTP encoding, beyond which keys a request was made for: a
  message arrives whole or not at all. Bit-level conversions have no states to
  explore, and test vectors cover them.
* URIs, short ids and expiration times as text, for the same reason.
* Address screening, size limits, TLS, configuration, metrics and the landing
  page: filters and wiring in front of what is modelled.
* The validation of UTXO fields (`validate_utxo`) and of signatures: a PSBT's
  inputs name coins that exist.
* The bytes a relay forwards, the WebSocket framing of tunnels, conversions of
  values and generated code of the bindings.
* What the client prints, except fallbacks. Wallets and nodes are choices among
  the outcomes the code distinguishes.

## Plan

1. Sessions and store (done): `Persist`, `ReceiveSession`, `SendSession`,
   `Mailboxes`, and the proofs of the receiver.
2. Amounts (done): `Psbts`, `ProposalCheck`, `Proposal`.
3. Command line client (done): `CliStore`, `MailroomManager`, `CliProcess`,
   `CliSend`, `CliReceive`, `CliV1`.
4. Composition (done): the contracts with their refinements, `KeyConfig`,
   `Payjoin`.
5. Bindings and relay (done): `Bindings`, `Prober`, `Relay`.
6. Proofs (done, as listed above): the sessions and their refinements, the
   store, the relay, the client, the composition, the amounts and the bindings.
7. Open: the conditions on coins and weights under which `TermsAccepted` holds of
   every instance.
