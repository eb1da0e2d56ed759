----------------------------- MODULE Mailboxes -----------------------------
(***************************************************************************)
(* The payjoin directory's mailbox store                                   *)
(* (payjoin-mailroom/src/db/files.rs): BIP 77 payloads on disk, readers    *)
(* long-polling for them, BIP 78 senders waiting in memory for their       *)
(* receiver's answer, a capacity, and a time to live.                      *)
(*                                                                         *)
(* A request is one task.  What it does while holding the mutex of FilesDb *)
(* is one action; between its wait and its cleanup the mutex is free and   *)
(* every other request may run.                                            *)
(***************************************************************************)
EXTENDS Sequences, Integers, FiniteSets

CONSTANTS
    Ids,       \* mailbox ids (ShortId)
    Payloads,  \* contents of BIP 77 messages
    Requests,  \* request tasks; each names the oneshot channel it creates
    Capacity,  \* Mailboxes::capacity
    TTL,       \* Mailboxes::ttl
    MaxTime,   \* bound: the last instant that is modelled
    Faults,    \* which of "restart", "disconnect", "disk" happen
    None, Dropped

FaultKinds == {"restart", "disconnect", "disk"}

ASSUME CapacityAssumption == Capacity \in Nat \ {0} /\ TTL \in Nat /\ MaxTime \in Nat
ASSUME IdsAssumption == IsFiniteSet(Ids)
ASSUME NoneAssumption ==
    /\ None \notin Ids \cup Payloads \cup Requests \cup Int
    /\ Dropped \notin Payloads \cup Requests \cup {None}
ASSUME FaultAssumption == Faults \subseteq FaultKinds

VARIABLES
    disk,          \* disk[id]: the mailbox file, [created, payload] or None
    tmp,           \* ids whose temporary file exists
    insert_order,  \* (created, id) pairs, in insertion order
    pending_v1,    \* pending_v1[id]: [owner, unread] or None
    pending_v2,    \* pending_v2[id]: the channel its readers share, or None
    channel,       \* channel[c]: None while nothing was sent on c, the value
                   \* sent, or Dropped when its sender was dropped unsent
    task,          \* task[r]: [pc, id, chan, result]
    pruner,        \* the background task that prunes is running
    now,
    torn,          \* history: ids whose write stopped after the link
    stuck,         \* history: ids whose file prune popped and did not remove
    found          \* history: such files that a restart found and that are not
                   \* pruned yet

vars == <<disk, tmp, insert_order, pending_v1, pending_v2, channel, task, pruner, now,
          torn, stuck, found>>

-----------------------------------------------------------------------------
(* Requests *)

Finish(r, id, result) ==
    task' = [task EXCEPT ![r] = [pc |-> "done", id |-> id, chan |-> None,
                                 result |-> result]]

(* A task blocks on channel c; r's receiver is dropped when it stops waiting. *)
Block(r, pc, id, c) ==
    task' = [task EXCEPT ![r] = [pc |-> pc, id |-> id, chan |-> c, result |-> "none"]]

Waiting(c) == {r \in Requests : task[r].pc = "wait_v2" /\ task[r].chan = c}

Populated(id) == disk[id] # None

-----------------------------------------------------------------------------
(* Mailboxes::prune, run inside has_capacity and by the background task:      *)
(* drop readers' entries nobody waits on, and remove the files at the front   *)
(* of insert_order whose time to live is over.                                *)

Expired(e) == e.created + TTL < now

(* How many entries the loop pops before it meets one that is in force. *)
FrontExpired ==
    Cardinality({i \in DOMAIN insert_order : \A j \in 1..i : Expired(insert_order[j])})

(* n entries are popped, and the files of the first m of them removed. *)
PrunedTo(n, m) ==
    LET FrontIds(k) == {insert_order[i].id : i \in 1..k}
    IN  [order |-> SubSeq(insert_order, n + 1, Len(insert_order)),
         disk |-> [id \in Ids |-> IF id \in FrontIds(m) THEN None ELSE disk[id]],
         v2 |-> [id \in Ids |->
                    IF pending_v2[id] # None /\ Waiting(pending_v2[id]) = {}
                    THEN None ELSE pending_v2[id]],
         stuck |-> stuck \cup {insert_order[i].id : i \in (m + 1)..n},
         found |-> found \ FrontIds(n)]

Pruned == PrunedTo(FrontExpired, FrontExpired)

(* Where prune may stop: an entry is popped before its file is removed, which *)
(* may fail; and the future may be dropped while it waits for the removal.    *)
Stopped(fault) ==
    {PrunedTo(n, n - 1) : n \in 1..FrontExpired}
        \cup IF fault = "disk" THEN {} ELSE {PrunedTo(n, n) : n \in 1..FrontExpired}

(* len() after pruning. *)
len(pr) ==
    Len(pr.order) + Cardinality({id \in Ids : pending_v1[id] # None})
                  + Cardinality({id \in Ids : pr.v2[id] # None})

(* Variant: off by one. *)
has_capacity_inclusive(pr) == len(pr) <= Capacity

has_capacity(pr) == len(pr) < Capacity

(* Channels whose sender goes away unsent when an entry is dropped. *)
Dropping(v2) ==
    [c \in Requests |-> IF (\E id \in Ids : pending_v2[id] = c /\ v2[id] = None)
                        THEN Dropped ELSE channel[c]]

(* What pruning leaves. *)
Keep(pr) ==
    /\ disk' = pr.disk /\ insert_order' = pr.order /\ pending_v2' = pr.v2
    /\ channel' = Dropping(pr.v2)
    /\ stuck' = pr.stuck /\ found' = pr.found

(* A request turned away after has_capacity has pruned. *)
Refuse(r, id, pr, result) ==
    Finish(r, id, result) /\ Keep(pr) /\ UNCHANGED <<tmp, pending_v1, pruner, now, torn>>

(* The fault that ends a request, and how the request then ends. *)
Failure == {[fault |-> "disk", result |-> "io_error"],
            [fault |-> "disconnect", result |-> "reset"]}
Failures == {f \in Failure : f.fault \in Faults}

(* A request ends inside the prune of its has_capacity. *)
has_capacity_stopped(r, id) ==
    /\ task[r].pc = "new"
    /\ \E f \in Failures : \E pr \in Stopped(f.fault) : Refuse(r, id, pr, f.result)

(* The background task. *)
prune ==
    /\ pruner /\ Keep(Pruned)
    /\ UNCHANGED <<tmp, pending_v1, task, pruner, now, torn>>

(* A removal fails: the background task panics ("disk storage failed"). *)
prune_failed ==
    /\ pruner /\ pruner' = FALSE /\ "disk" \in Faults
    /\ \E pr \in Stopped("disk") : Keep(pr)
    /\ UNCHANGED <<tmp, pending_v1, task, now, torn>>

-----------------------------------------------------------------------------
(* post_v2_payload: a BIP 77 message is stored once; the identical message    *)
(* again is accepted, a different one is silently rejected.                   *)

(* Variant: the readers are not told. *)
Notify_nobody(pr, id, value) ==
    pending_v2' = pr.v2 /\ channel' = Dropping(pr.v2)

(* The entry's readers, if any, are sent the value. *)
Notify(pr, id, value) ==
    /\ pending_v2' = [pr.v2 EXCEPT ![id] = None]
    /\ channel' = IF pr.v2[id] = None THEN Dropping(pr.v2)
                  ELSE [Dropping(pr.v2) EXCEPT ![pr.v2[id]] = value]

(* Variant: the link overwrites. *)
try_insert_overwriting(dsk, id, p) ==
    IF dsk[id] # None /\ dsk[id].payload = p THEN dsk[id].created ELSE now

(* DiskStorage::try_insert: the creation time, or None when another message   *)
(* holds the mailbox.                                                         *)
try_insert(dsk, id, p) ==
    IF dsk[id] = None THEN now
    ELSE IF dsk[id].payload = p THEN dsk[id].created ELSE None

post_v2(r, id, p) ==
    LET pr == Pruned
        created == try_insert(pr.disk, id, p)
    IN  /\ task[r].pc = "new"
        /\ \/ ~has_capacity(pr) /\ Refuse(r, id, pr, "over_capacity")
           \/ /\ has_capacity(pr)
              /\ pr.disk[id] = None /\ id \in tmp          \* create_new fails
              /\ Refuse(r, id, pr, "io_error")
           \/ has_capacity(pr) /\ created = None /\ Refuse(r, id, pr, "rejected")
           \/ /\ has_capacity(pr) /\ created # None
              /\ pr.disk[id] = None => id \notin tmp
              /\ disk' = [pr.disk EXCEPT ![id] = [created |-> created, payload |-> p]]
              /\ insert_order' = Append(pr.order, [created |-> created, id |-> id])
              /\ Notify(pr, id, p)
              /\ torn' = torn \ {id} /\ stuck' = pr.stuck \ {id} /\ found' = pr.found
              /\ Finish(r, id, "ok")
              /\ UNCHANGED <<tmp, pending_v1, pruner, now>>

(* An error, or a client that disconnects and whose handler's future is       *)
(* dropped, ends the write between two steps of try_insert or before the      *)
(* message is booked and its readers are told: the message may be linked, and *)
(* the temporary file may be left.                                            *)
post_v2_stopped(r, id, p) ==
    LET pr == Pruned
    IN  /\ task[r].pc = "new" /\ has_capacity(pr) /\ pr.disk[id] = None /\ id \notin tmp
        /\ \E f \in Failures : Finish(r, id, f.result)
        /\ \E linked, left \in BOOLEAN :
              /\ tmp' = IF left THEN tmp \cup {id} ELSE tmp
              /\ disk' = IF linked
                         THEN [pr.disk EXCEPT ![id] = [created |-> now, payload |-> p]]
                         ELSE pr.disk
              /\ torn' = IF linked THEN torn \cup {id} ELSE torn
        /\ insert_order' = pr.order /\ pending_v2' = pr.v2
        /\ channel' = Dropping(pr.v2)
        /\ stuck' = pr.stuck /\ found' = pr.found
        /\ UNCHANGED <<pending_v1, pruner, now>>

(* The mailbox's message cannot be looked up, or cannot be read to compare:   *)
(* then the post is answered as if it were a different one.                   *)
post_v2_unread(r, id) ==
    LET pr == Pruned
    IN  /\ task[r].pc = "new" /\ has_capacity(pr) /\ pr.disk[id] # None
        /\ \E f \in Failures : \E result \in {f.result, "rejected"} :
              /\ result = "rejected" => f.fault = "disk"
              /\ Refuse(r, id, pr, result)

-----------------------------------------------------------------------------
(* wait_for_v2_payload: read() under the lock, or join the readers' entry;    *)
(* wait with a timeout; lock again and clean up.                              *)

(* Variant: a BIP 78 request in flight is not looked at. *)
wait_v2_any(r, id) ==
    LET pr == Pruned
        c == IF pr.v2[id] = None THEN r ELSE pr.v2[id]
    IN  /\ has_capacity(pr)
        /\ pending_v2' = [pr.v2 EXCEPT ![id] = c]
        /\ channel' = Dropping(pr.v2)
        /\ disk' = pr.disk /\ insert_order' = pr.order
        /\ stuck' = pr.stuck /\ found' = pr.found
        /\ Block(r, "wait_v2", id, c)
        /\ UNCHANGED <<tmp, pending_v1, pruner, now, torn>>

(* (read() has just found no unread BIP 78 request, under the same lock, so    *)
(* the branch for an unread one is never taken.)                              *)
wait_v2(r, id) ==
    LET pr == Pruned
        c == IF pr.v2[id] = None THEN r ELSE pr.v2[id]
    IN  \/ ~has_capacity(pr) /\ Refuse(r, id, pr, "over_capacity")
        \/ /\ has_capacity(pr) /\ pending_v1[id] # None
           /\ Refuse(r, id, pr, "already_read")
        \/ /\ has_capacity(pr) /\ pending_v1[id] = None
           /\ pending_v2' = [pr.v2 EXCEPT ![id] = c]
           /\ channel' = Dropping(pr.v2)
           /\ disk' = pr.disk /\ insert_order' = pr.order
           /\ stuck' = pr.stuck /\ found' = pr.found
           /\ Block(r, "wait_v2", id, c)
           /\ UNCHANGED <<tmp, pending_v1, pruner, now, torn>>

(* An unread BIP 78 request. *)
Unread(id) == pending_v1[id] # None /\ pending_v1[id].unread

(* read() takes an unread BIP 78 request first, then looks on disk. *)
read(r, id) ==
    /\ Unread(id) \/ Populated(id)
    /\ pending_v1' = IF Unread(id) THEN [pending_v1 EXCEPT ![id].unread = FALSE]
                     ELSE pending_v1
    /\ Finish(r, id, "ok")
    /\ UNCHANGED <<disk, tmp, insert_order, pending_v2, channel, pruner, now, torn, stuck, found>>

(* The disk cannot be read, or the client does not wait for it. *)
read_stopped(r, id) ==
    /\ ~Unread(id)
    /\ \E f \in Failures : Finish(r, id, f.result)
    /\ UNCHANGED <<disk, tmp, insert_order, pending_v1, pending_v2, channel, pruner, now,
                   torn, stuck, found>>

wait_for_v2_payload(r, id) ==
    /\ task[r].pc = "new"
    /\ \/ read(r, id) \/ read_stopped(r, id)
       \/ ~Unread(id) /\ ~Populated(id) /\ wait_v2(r, id)

(* The wait ends: the value is there, the sender was dropped ("receiver must  *)
(* not fail" panics), or the timeout fires while the channel is still open.   *)
WaitOver(r, pc, next) ==
    /\ task[r].pc = pc
    /\ IF channel[task[r].chan] = Dropped
       THEN Finish(r, task[r].id, "panic")
       ELSE task' = [task EXCEPT ![r].pc = next,
                        ![r].result = IF channel[task[r].chan] = None
                                      THEN "timeout" ELSE "ok"]
    /\ UNCHANGED <<disk, tmp, insert_order, pending_v1, pending_v2, channel, pruner, now,
                   torn, stuck, found>>

reader_wait_over(r) == WaitOver(r, "wait_v2", "cleanup_v2")

(* Variant: the entry is removed while others still wait on it. *)
maybe_cleanup_v2_waitmap_always(r) ==
    /\ task[r].pc = "cleanup_v2"
    /\ pending_v2' = [pending_v2 EXCEPT ![task[r].id] = None]
    /\ channel' = Dropping(pending_v2')
    /\ Finish(r, task[r].id, task[r].result)
    /\ UNCHANGED <<disk, tmp, insert_order, pending_v1, pruner, now, torn, stuck, found>>

maybe_cleanup_v2_waitmap(r) ==
    LET id == task[r].id
        last == pending_v2[id] # None /\ Waiting(pending_v2[id]) = {}
    IN  /\ task[r].pc = "cleanup_v2"
        /\ pending_v2' = [pending_v2 EXCEPT ![id] = IF last THEN None ELSE @]
        /\ channel' = Dropping(pending_v2')
        /\ Finish(r, id, task[r].result)
        /\ UNCHANGED <<disk, tmp, insert_order, pending_v1, pruner, now, torn, stuck, found>>

-----------------------------------------------------------------------------
(* post_v1_request_and_wait_for_response: a BIP 78 sender's request stays in  *)
(* memory while the sender waits for the answer.                              *)

post_v1_req_and_wait(r, id) ==
    LET pr == Pruned
    IN  /\ task[r].pc = "new"
        /\ \/ ~has_capacity(pr) /\ Refuse(r, id, pr, "over_capacity")
           \/ /\ has_capacity(pr) /\ pending_v1[id] # None   \* in flight already
              /\ Notify(pr, id, r)
              /\ pending_v1' = IF pr.v2[id] = None THEN pending_v1
                               ELSE [pending_v1 EXCEPT ![id].unread = FALSE]
              /\ Finish(r, id, "over_capacity")
              /\ disk' = pr.disk /\ insert_order' = pr.order
              /\ stuck' = pr.stuck /\ found' = pr.found
              /\ UNCHANGED <<tmp, pruner, now, torn>>
           \/ /\ has_capacity(pr) /\ pending_v1[id] = None
              /\ pending_v1' = [pending_v1 EXCEPT
                                  ![id] = [owner |-> r, unread |-> pr.v2[id] = None]]
              /\ Notify(pr, id, r)
              /\ Block(r, "wait_v1", id, r)
              /\ disk' = pr.disk /\ insert_order' = pr.order
              /\ stuck' = pr.stuck /\ found' = pr.found
              /\ UNCHANGED <<tmp, pruner, now, torn>>

sender_wait_over(r) == WaitOver(r, "wait_v1", "cleanup_v1")

(* The entry is removed whoever owns it; the owner's channel is dropped.      *)
remove_pending_v1(r) ==
    LET id == task[r].id
    IN  /\ task[r].pc = "cleanup_v1"
        /\ channel' = IF pending_v1[id] # None /\ channel[pending_v1[id].owner] = None
                      THEN [channel EXCEPT ![pending_v1[id].owner] = Dropped]
                      ELSE channel
        /\ pending_v1' = [pending_v1 EXCEPT ![id] = None]
        /\ Finish(r, id, task[r].result)
        /\ UNCHANGED <<disk, tmp, insert_order, pending_v2, pruner, now, torn, stuck, found>>

(* post_v1_response: send() fails when the sender's task no longer waits. *)
post_v1_res(r, id) ==
    /\ task[r].pc = "new"
    /\ IF pending_v1[id] # None /\ task[pending_v1[id].owner].pc = "wait_v1"
       THEN /\ channel' = [channel EXCEPT ![pending_v1[id].owner] = r]
            /\ Finish(r, id, "ok")
       ELSE /\ Finish(r, id, "sender_unavailable")
            /\ UNCHANGED channel
    /\ pending_v1' = [pending_v1 EXCEPT ![id] = None]
    /\ UNCHANGED <<disk, tmp, insert_order, pending_v2, pruner, now, torn, stuck, found>>

-----------------------------------------------------------------------------
(* The environment: time, disconnecting clients, restarts. *)

Tick ==
    /\ now < MaxTime /\ now' = now + 1
    /\ UNCHANGED <<disk, tmp, insert_order, pending_v1, pending_v2, channel, task, pruner,
                   torn, stuck, found>>

(* The client goes away: its handler's future is dropped where it waits. *)
Disconnect(r) ==
    /\ "disconnect" \in Faults
    /\ task[r].pc \in {"wait_v2", "wait_v1", "cleanup_v2", "cleanup_v1"}
    /\ Finish(r, task[r].id, "reset")
    /\ UNCHANGED <<disk, tmp, insert_order, pending_v1, pending_v2, channel, pruner, now,
                   torn, stuck, found>>

(* DiskStorage::insert_order: the files, sorted by creation time. *)
SortedFiles(order) ==
    /\ Len(order) = Cardinality({id \in Ids : Populated(id)})
    /\ \A id \in Ids : Populated(id) =>
          \E i \in DOMAIN order : order[i] = [created |-> disk[id].created, id |-> id]
    /\ \A i, j \in DOMAIN order : i < j => order[i].created <= order[j].created

FileEntries == {[created |-> disk[id].created, id |-> id] : id \in {i \in Ids : Populated(i)}}

(* Variant: the order is not rebuilt. *)
Restart_order_lost ==
    /\ "restart" \in Faults
    /\ insert_order' = <<>> /\ tmp' = {}
    /\ pending_v1' = [id \in Ids |-> None]
    /\ pending_v2' = [id \in Ids |-> None]
    /\ channel' = [c \in Requests |-> None]
    /\ task' = [r \in Requests |-> [task[r] EXCEPT !.pc = "done"]]
    /\ pruner' = TRUE /\ torn' = {} /\ stuck' = {}
    /\ found' = found \cup {id \in torn \cup stuck : Populated(id)}
    /\ UNCHANGED <<disk, now>>

(* The process dies and FilesDb::init runs again: memory is lost, the         *)
(* temporary files are cleared, the order is rebuilt from the files.          *)
Restart ==
    /\ "restart" \in Faults
    /\ \E order \in [1..Cardinality(FileEntries) -> FileEntries] :
          SortedFiles(order) /\ insert_order' = order
    /\ tmp' = {}
    /\ pending_v1' = [id \in Ids |-> None]
    /\ pending_v2' = [id \in Ids |-> None]
    /\ channel' = [c \in Requests |-> None]
    /\ task' = [r \in Requests |->
                   IF task[r].pc \in {"new", "done"} THEN task[r]
                   ELSE [pc |-> "done", id |-> task[r].id, chan |-> None,
                         result |-> "reset"]]
    /\ pruner' = TRUE /\ torn' = {} /\ stuck' = {}
    /\ found' = found \cup {id \in torn \cup stuck : Populated(id)}
    /\ UNCHANGED <<disk, now>>

-----------------------------------------------------------------------------
Init ==
    /\ disk = [id \in Ids |-> None] /\ tmp = {} /\ insert_order = <<>>
    /\ pending_v1 = [id \in Ids |-> None]
    /\ pending_v2 = [id \in Ids |-> None]
    /\ channel = [c \in Requests |-> None]
    /\ task = [r \in Requests |-> [pc |-> "new", id |-> None, chan |-> None,
                                   result |-> "none"]]
    /\ pruner = TRUE /\ now = 0
    /\ torn = {} /\ stuck = {} /\ found = {}

(* A task's own continuation once it waits. *)
Continue(r) ==
    \/ reader_wait_over(r) \/ maybe_cleanup_v2_waitmap(r)
    \/ sender_wait_over(r) \/ remove_pending_v1(r)

Arrive(r) ==
    \E id \in Ids :
        \/ \E p \in Payloads : post_v2(r, id, p) \/ post_v2_stopped(r, id, p)
        \/ post_v2_unread(r, id) \/ has_capacity_stopped(r, id)
        \/ wait_for_v2_payload(r, id)
        \/ post_v1_req_and_wait(r, id)
        \/ post_v1_res(r, id)

Next ==
    \/ \E r \in Requests : Arrive(r) \/ Continue(r) \/ Disconnect(r)
    \/ prune \/ prune_failed \/ Tick \/ Restart

Spec == Init /\ [][Next]_vars

-----------------------------------------------------------------------------
(* Properties *)

(* A mailbox never has a BIP 78 sender and long-polling readers pending at    *)
(* the same time, so a reader never waits past a request it could have taken  *)
(* (wait_v2, post_v1_req_and_wait).                                           *)
OneKindPending == \A id \in Ids : pending_v1[id] = None \/ pending_v2[id] = None

(* Every waiting reader can still be woken: the channel it waits on holds the *)
(* value or is the one registered for its mailbox, whoever timed out, cleaned *)
(* up or pruned meanwhile ("receiver must not fail" in wait_for_v2_payload).  *)
(* Of BIP 78 senders it is not true: remove_pending_v1 drops the channel of   *)
(* whoever has the entry.                                                     *)
ReaderKeepsChannel ==
    \A r \in Requests : task[r].pc = "wait_v2" =>
        \/ channel[task[r].chan] \in Payloads \cup Requests
        \/ /\ channel[task[r].chan] = None
           /\ pending_v2[task[r].id] = task[r].chan

(* No lost wakeup: once a message is stored nobody is left registered waiting *)
(* for it, and it was stored for everyone who waits later (post_v2 notifying  *)
(* under the lock wait_for_v2_payload reads under).  The exception is a       *)
(* message whose post stopped after the link, until the message is posted     *)
(* again or the process restarts.                                             *)
NoLostWakeup == \A id \in Ids \ torn : Populated(id) => pending_v2[id] = None

(* len() exceeds the capacity by no more than the torn and stuck files that a *)
(* restart found and that are not pruned yet: has_capacity is checked before  *)
(* every insertion and nothing else grows behind it.                          *)
WithinCapacity ==
    len([order |-> insert_order, v2 |-> pending_v2]) <= Capacity + Cardinality(found)

(* Every stored mailbox is in insert_order with its creation time, also after *)
(* a restart rebuilt it, so that prune can find it when its time is over.     *)
(* The exceptions are a file whose write stopped after the link, which was    *)
(* not booked, and one that prune popped and could not remove; the same       *)
(* message posted again or a restart books it.                                *)
FilesTracked ==
    \A id \in Ids \ (torn \cup stuck) : Populated(id) =>
        \E i \in DOMAIN insert_order :
            insert_order[i] = [created |-> disk[id].created, id |-> id]

(* First writer wins: the content of a mailbox is not replaced before prune   *)
(* has removed it for an entry of its whose time to live is over (try_insert  *)
(* links without overwriting).  The entry need not be the one of the content: *)
(* see Mailboxes_proofs and the README.                                       *)
FirstWriterWins ==
    [][\A id \in Ids : Populated(id) /\ disk'[id] \notin {None, disk[id]} =>
          \E i \in DOMAIN insert_order :
              insert_order[i].id = id /\ Expired(insert_order[i])]_vars
=============================================================================
