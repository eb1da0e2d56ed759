-------------------------- MODULE Mailboxes_proofs --------------------------
(***************************************************************************)
(* Theorems about the directory's mailbox store, for any number of         *)
(* mailboxes and requests, any capacity and any faults: BIP 78 and BIP 77  *)
(* requests never pend together, no reader loses its channel, messages are *)
(* not overwritten; but for the files that a write or a removal stopped    *)
(* half way has torn, no wakeup is lost, every file is found by prune and  *)
(* the capacity is kept.                                                   *)
(*                                                                         *)
(* The first part of the inductive invariant (Channels) says whose a       *)
(* channel is: one that is registered is open and registered once, the     *)
(* channel of a BIP 78 sender is no reader's, and a request that has not   *)
(* started has none.  The second (Store) counts entries.  Both are stated  *)
(* of arguments rather than of the variables, since a request first        *)
(* prunes: its action goes through a state that is not a state of the      *)
(* system.                                                                 *)
(***************************************************************************)
EXTENDS Mailboxes, FiniteSetTheorems, SequenceTheorems, TLAPS

Files == [created : Int, payload : Payloads]
Entries == [created : Int, id : Ids]
Senders == [owner : Requests, unread : BOOLEAN]
Results == {"none", "ok", "over_capacity", "io_error", "rejected", "reset", "panic",
            "timeout", "already_read", "sender_unavailable"}
Tasks == [pc : {"new", "wait_v2", "cleanup_v2", "wait_v1", "cleanup_v1", "done"},
          id : Ids \cup {None}, chan : Requests \cup {None}, result : Results]

(* Every variable has its type, and a request that waits has a mailbox and a *)
(* channel.                                                                  *)
TypeInv ==
    /\ disk \in [Ids -> Files \cup {None}] /\ tmp \in SUBSET Ids
    /\ insert_order \in Seq(Entries)
    /\ pending_v1 \in [Ids -> Senders \cup {None}]
    /\ pending_v2 \in [Ids -> Requests \cup {None}]
    /\ channel \in [Requests -> Payloads \cup Requests \cup {None, Dropped}]
    /\ task \in [Requests -> Tasks]
    /\ \A r \in Requests : task[r].pc \notin {"new", "done"} =>
                              task[r].id \in Ids /\ task[r].chan \in Requests
    /\ now \in Nat
    /\ torn \in SUBSET Ids /\ stuck \in SUBSET Ids /\ found \in SUBSET Ids

-----------------------------------------------------------------------------
(* prune *)

(* The entries prune pops are those at the front whose time is over. *)
LEMMA FrontFacts ==
    ASSUME TypeInv
    PROVE  /\ FrontExpired \in 0..Len(insert_order)
           /\ \A i \in 1..FrontExpired : Expired(insert_order[i])
<1> DEFINE S == {i \in DOMAIN insert_order : \A j \in 1..i : Expired(insert_order[j])}
           n == Len(insert_order)
<1>1. n \in Nat /\ DOMAIN insert_order = 1..n
  BY DEF TypeInv
<1>2. \A k \in Nat : IsFiniteSet(1..k) /\ Cardinality(1..k) = k
  BY FS_Interval
<1>3. S \subseteq 1..n /\ IsFiniteSet(S) /\ Cardinality(S) \in 0..n
  <2>1. S \subseteq 1..n
    BY <1>1
  <2>2. IsFiniteSet(S) /\ Cardinality(S) <= Cardinality(1..n)
    BY <1>1, <1>2, <2>1, FS_Subset
  <2> QED
    BY <1>1, <1>2, <2>1, <2>2, FS_CardinalityType
<1>4. ASSUME NEW i \in 1..n, i \notin S
      PROVE  Cardinality(S) < i
  <2>1. S \subseteq 1..(i-1)
    <3> SUFFICES ASSUME NEW k \in S, k >= i
                 PROVE  FALSE
      BY <1>1, <1>3
    <3>1. \A j \in 1..k : Expired(insert_order[j])
      OBVIOUS
    <3>2. \A j \in 1..i : j \in 1..k
      BY <1>1, <1>3
    <3> QED
      BY <1>1, <1>4, <3>1, <3>2
  <2>2. i-1 \in Nat
    BY <1>1
  <2>3. Cardinality(S) <= i-1
    BY <1>2, <2>1, <2>2, FS_Subset
  <2> QED
    BY <1>1, <1>3, <2>3
<1>5. FrontExpired = Cardinality(S)
  BY DEF FrontExpired
<1>6. ASSUME NEW i \in 1..Cardinality(S) PROVE Expired(insert_order[i])
  <2>1. i \in 1..n /\ i \in 1..i
    BY <1>1, <1>3
  <2>2. i \in S
    BY <1>3, <1>4, <2>1
  <2> QED
    BY <2>1, <2>2
<1> HIDE DEF S
<1> QED
  BY <1>3, <1>5, <1>6

(* The pending readers' entries that remain of v2. *)
Remaining(w2) ==
    /\ w2 \in [Ids -> Requests \cup {None}]
    /\ \A id \in Ids : w2[id] # pending_v2[id] =>
           w2[id] = None /\ Waiting(pending_v2[id]) = {}

(* Every file that is not excepted is in the order with its creation time. *)
InOrder(dsk, order, except) ==
    \A id \in Ids \ except : dsk[id] # None =>
        \E i \in DOMAIN order : order[i] = [created |-> dsk[id].created, id |-> id]

(* How far a prune may get. *)
Halfway(n, m) == n \in 0..FrontExpired /\ m \in 0..n

(* What prune leaves, wherever it stops: fewer files, and the entries of       *)
(* readers that still wait.  A file goes only for an entry that is over.       *)
LEMMA StopFacts ==
    ASSUME TypeInv, NEW n, NEW m, Halfway(n, m), NEW pr, pr = PrunedTo(n, m)
    PROVE  /\ pr.disk \in [Ids -> Files \cup {None}]
           /\ \A id \in Ids : pr.disk[id] # disk[id] =>
                 /\ pr.disk[id] = None
                 /\ \E i \in DOMAIN insert_order :
                       insert_order[i].id = id /\ Expired(insert_order[i])
           /\ pr.order \in Seq(Entries) /\ Len(pr.order) = Len(insert_order) - n
           /\ \A i \in 1..(Len(insert_order) - n) : pr.order[i] = insert_order[n + i]
           /\ Remaining(pr.v2)
           /\ pr.stuck \in SUBSET Ids /\ pr.found \in SUBSET Ids
           /\ pr.found = found \ {insert_order[i].id : i \in 1..n}
           /\ pr.stuck = stuck \cup {insert_order[i].id : i \in (m+1)..n}
           /\ \A id \in Ids : pr.disk[id] =
                 IF \E i \in 1..m : insert_order[i].id = id THEN None ELSE disk[id]
           /\ n \in Nat /\ m \in 0..n /\ n <= Len(insert_order)
<1> DEFINE len_ == Len(insert_order)
<1>1. len_ \in Nat /\ DOMAIN insert_order = 1..len_ /\ n \in 0..len_ /\ m \in 0..n
      /\ \A i \in 1..n : Expired(insert_order[i])
  BY FrontFacts DEF TypeInv, Halfway
<1>2. /\ pr.order = SubSeq(insert_order, n + 1, len_)
      /\ pr.disk = [id \in Ids |->
             IF id \in {insert_order[i].id : i \in 1..m} THEN None ELSE disk[id]]
      /\ pr.v2 = [id \in Ids |->
             IF pending_v2[id] # None /\ Waiting(pending_v2[id]) = {}
             THEN None ELSE pending_v2[id]]
      /\ pr.found = found \ {insert_order[i].id : i \in 1..n}
      /\ pr.stuck = stuck \cup {insert_order[i].id : i \in (m+1)..n}
  BY DEF PrunedTo
<1> HIDE DEF len_
<1>3. pr.disk \in [Ids -> Files \cup {None}]
  BY <1>2 DEF TypeInv
<1>4. ASSUME NEW id \in Ids, pr.disk[id] # disk[id]
      PROVE  /\ pr.disk[id] = None
             /\ \E i \in DOMAIN insert_order :
                   insert_order[i].id = id /\ Expired(insert_order[i])
  <2>1. PICK i \in 1..m : insert_order[i].id = id
    BY <1>2, <1>4
  <2>2. i \in DOMAIN insert_order /\ i \in 1..n
    BY <1>1, <2>1
  <2> QED
    BY <1>1, <1>2, <2>1, <2>2
<1>5. /\ pr.order \in Seq(Entries) /\ Len(pr.order) = len_ - n
      /\ \A i \in 1..(len_ - n) : pr.order[i] = insert_order[n + i]
  <2>1. insert_order \in Seq(Entries) /\ n + 1 \in 1..(len_ + 1) /\ len_ \in n..len_
    BY <1>1 DEF TypeInv
  <2>2. \A i \in (n+1)..len_ : insert_order[i] \in Entries
    BY <1>1, <2>1
  <2> QED
    BY <1>1, <1>2, <2>1, <2>2
<1>6. Remaining(pr.v2)
  BY <1>2 DEF Remaining, TypeInv
<1>7. pr.stuck \in SUBSET Ids /\ pr.found \in SUBSET Ids
  <2>1. insert_order \in Seq(Entries)
    BY DEF TypeInv
  <2>2. \A i \in 1..len_ : insert_order[i] \in Entries
    BY <1>1, <2>1
  <2>3. \A i \in (m+1)..n : insert_order[i].id \in Ids
    <3>1. \A i \in (m+1)..n : i \in 1..len_
      BY <1>1
    <3> QED
      BY <2>2, <3>1 DEF Entries
  <2> QED
    BY <1>2, <2>3 DEF TypeInv
<1>8. \A id \in Ids : pr.disk[id] =
         IF \E i \in 1..m : insert_order[i].id = id THEN None ELSE disk[id]
  BY <1>2
<1>9. n \in Nat /\ m \in 0..n /\ n <= len_
  BY <1>1
<1> QED
  BY <1>2, <1>3, <1>4, <1>5, <1>6, <1>7, <1>8, <1>9 DEF len_

(* A completed prune and every stopped one are such. *)
LEMMA PruneStops ==
    ASSUME TypeInv
    PROVE  /\ \E n, m : Halfway(n, m) /\ Pruned = PrunedTo(n, m)
           /\ \A fault : \A pr \in Stopped(fault) :
                 \E n, m : Halfway(n, m) /\ pr = PrunedTo(n, m)
<1>1. FrontExpired \in Nat
  BY FrontFacts DEF TypeInv
<1>2. Halfway(FrontExpired, FrontExpired)
  BY <1>1 DEF Halfway
<1>3. \A n \in 1..FrontExpired : Halfway(n, n) /\ Halfway(n, n - 1)
  BY <1>1 DEF Halfway
<1>4. ASSUME NEW fault, NEW pr \in Stopped(fault)
      PROVE  \E n, m : Halfway(n, m) /\ pr = PrunedTo(n, m)
  <2>1. PICK n \in 1..FrontExpired : pr = PrunedTo(n, n - 1) \/ pr = PrunedTo(n, n)
    BY <1>4 DEF Stopped
  <2> QED
    BY <1>3, <2>1
<1> QED
  BY <1>2, <1>4 DEF Pruned

-----------------------------------------------------------------------------
(* Channels *)

(* Whose the channels are: v1 and v2 the pending entries, ch what was sent,  *)
(* tk the tasks.                                                             *)
ChannelTypes(v1, v2, ch, tk) ==
    /\ v1 \in [Ids -> Senders \cup {None}]
    /\ v2 \in [Ids -> Requests \cup {None}]
    /\ ch \in [Requests -> Payloads \cup Requests \cup {None, Dropped}]
    /\ tk \in [Requests -> Tasks]
    /\ \A r \in Requests : tk[r].pc \notin {"new", "done"} =>
                              tk[r].id \in Ids /\ tk[r].chan \in Requests

(* A channel that is registered is open, and registered for one mailbox. *)
Registered(v2, ch, tk) ==
    \A id \in Ids : v2[id] # None =>
        /\ ch[v2[id]] = None /\ tk[v2[id]].pc # "new"
        /\ \A other \in Ids : v2[other] = v2[id] => other = id

(* The channel of a BIP 78 sender is no reader's. *)
SendersApart(v1, v2, tk) ==
    \A id \in Ids : v1[id] # None =>
        /\ tk[v1[id].owner].pc # "new"
        /\ \A other \in Ids : v2[other] # v1[id].owner
        /\ \A q \in Requests : tk[q].pc = "wait_v2" => tk[q].chan # v1[id].owner

(* Nobody uses the channel of a request that has not started. *)
UnusedNew(ch, tk) ==
    \A r \in Requests : tk[r].pc = "new" =>
        /\ ch[r] = None
        /\ \A q \in Requests : tk[q].pc = "wait_v2" => tk[q].chan # r

(* A reader's channel holds the value, or is the one registered. *)
ReadersConnected(v2, ch, tk) ==
    \A r \in Requests : tk[r].pc = "wait_v2" =>
        \/ ch[tk[r].chan] \in Payloads \cup Requests
        \/ ch[tk[r].chan] = None /\ v2[tk[r].id] = tk[r].chan

Channels(v1, v2, ch, tk) ==
    /\ ChannelTypes(v1, v2, ch, tk)
    /\ \A id \in Ids : v1[id] = None \/ v2[id] = None
    /\ Registered(v2, ch, tk)
    /\ SendersApart(v1, v2, tk)
    /\ UnusedNew(ch, tk)
    /\ ReadersConnected(v2, ch, tk)

(* The part of the inductive invariant that holds whatever clients do. *)
IInv == TypeInv /\ Channels(pending_v1, pending_v2, channel, task)

(* Dropping entries nobody waits on. *)
LEMMA DropChannels ==
    ASSUME IInv, NEW w2, Remaining(w2)
    PROVE  Channels(pending_v1, w2, Dropping(w2), task)
<1> DEFINE ch == Dropping(w2)
<1>0. ChannelTypes(pending_v1, pending_v2, channel, task) /\ None \notin Requests
  BY NoneAssumption DEF IInv, Channels
<1>1. /\ ch \in [Requests -> Payloads \cup Requests \cup {None, Dropped}]
      /\ \A c \in Requests :
            \/ ch[c] = channel[c]
            \/ \E id \in Ids : pending_v2[id] = c /\ w2[id] = None
  BY <1>0 DEF Dropping, ChannelTypes
<1>2. \A c \in Requests : (\E id \in Ids : pending_v2[id] = c /\ w2[id] = None) \/ ch[c] = channel[c]
  BY <1>1
<1>3. \A id \in Ids : w2[id] # None => w2[id] = pending_v2[id]
  BY DEF Remaining
<1>4. \A id \in Ids : pending_v2[id] # None /\ w2[id] = None => Waiting(pending_v2[id]) = {}
  BY DEF Remaining
<1> HIDE DEF ch
<1>5. ChannelTypes(pending_v1, w2, ch, task)
  BY <1>0, <1>1 DEF ChannelTypes, Remaining
<1>6. Registered(w2, ch, task)
  BY <1>0, <1>1, <1>3 DEF IInv, Channels, Registered, ChannelTypes
<1>7. SendersApart(pending_v1, w2, task)
  <2> SUFFICES ASSUME NEW id \in Ids, pending_v1[id] # None, NEW other \in Ids
               PROVE  w2[other] # pending_v1[id].owner
    BY DEF IInv, Channels, SendersApart
  <2>1. pending_v1[id].owner \in Requests /\ pending_v2[other] # pending_v1[id].owner
    BY <1>0 DEF IInv, Channels, SendersApart, ChannelTypes, Senders
  <2> QED
    BY <1>0, <1>3, <2>1
<1>8. UnusedNew(ch, task)
  <2> SUFFICES ASSUME NEW r \in Requests, task[r].pc = "new"
               PROVE  ch[r] = None
    BY DEF IInv, Channels, UnusedNew
  <2>1. channel[r] = None /\ \A id \in Ids : pending_v2[id] # r
    BY <1>0 DEF IInv, Channels, UnusedNew, Registered
  <2> QED
    BY <1>1, <2>1
<1>9. ReadersConnected(w2, ch, task)
  <2> SUFFICES ASSUME NEW r \in Requests, task[r].pc = "wait_v2"
               PROVE  \/ ch[task[r].chan] \in Payloads \cup Requests
                      \/ ch[task[r].chan] = None /\ w2[task[r].id] = task[r].chan
    BY DEF ReadersConnected
  <2>1. task[r].chan \in Requests /\ task[r].id \in Ids /\ r \in Waiting(task[r].chan)
    BY <1>0 DEF ChannelTypes, Waiting
  <2>2. ch[task[r].chan] = channel[task[r].chan]
    BY <1>0, <1>1, <1>4, <2>1
  <2>3. channel[task[r].chan] = None => w2[task[r].id] = task[r].chan
    <3>1. channel[task[r].chan] = None /\ None \notin Payloads \cup Requests
             => pending_v2[task[r].id] = task[r].chan
      BY DEF IInv, Channels, ReadersConnected
    <3> QED
      BY <1>0, <1>4, <2>1, <3>1, NoneAssumption DEF Remaining
  <2> QED
    BY <2>2, <2>3 DEF IInv, Channels, ReadersConnected
<1>10. \A id \in Ids : pending_v1[id] = None \/ w2[id] = None
  BY <1>3 DEF IInv, Channels
<1> QED
  BY <1>5, <1>6, <1>7, <1>8, <1>9, <1>10 DEF Channels, ch

(* A value is sent to the readers of a mailbox, if it has any. *)
LEMMA SendChannels ==
    ASSUME NEW v1, NEW v2, NEW ch, NEW tk, Channels(v1, v2, ch, tk),
           NEW id \in Ids, NEW value \in Payloads \cup Requests
    PROVE  Channels(v1, [v2 EXCEPT ![id] = None],
                    IF v2[id] = None THEN ch ELSE [ch EXCEPT ![v2[id]] = value], tk)
<1>0. ChannelTypes(v1, v2, ch, tk) /\ None \notin Requests /\ None \notin Payloads
  BY NoneAssumption DEF Channels
<1>1. CASE v2[id] = None
  <2>1. [v2 EXCEPT ![id] = None] = v2
    BY <1>0, <1>1 DEF ChannelTypes
  <2> QED
    BY <1>1, <2>1
<1>2. CASE v2[id] # None
  <2> DEFINE w2 == [v2 EXCEPT ![id] = None]
             c == v2[id]
             dh == [ch EXCEPT ![c] = value]
  <2>1. c \in Requests /\ w2 \in [Ids -> Requests \cup {None}] /\ w2[id] = None
        /\ \A o \in Ids : o # id => w2[o] = v2[o]
    BY <1>0, <1>2 DEF ChannelTypes
  <2>2. dh \in [Requests -> Payloads \cup Requests \cup {None, Dropped}] /\ dh[c] = value
        /\ \A d \in Requests : d # c => dh[d] = ch[d]
    BY <1>0, <2>1 DEF ChannelTypes
  <2> HIDE DEF w2, dh
  <2>3. ChannelTypes(v1, w2, dh, tk)
    BY <1>0, <2>1, <2>2 DEF ChannelTypes
  <2>4. Registered(w2, dh, tk)
    <3> SUFFICES ASSUME NEW i \in Ids, w2[i] # None
                 PROVE  /\ dh[w2[i]] = None /\ tk[w2[i]].pc # "new"
                        /\ \A other \in Ids : w2[other] = w2[i] => other = i
      BY DEF Registered
    <3>1. i # id /\ w2[i] = v2[i] /\ v2[i] \in Requests
      BY <1>0, <2>1 DEF ChannelTypes
    <3>2. v2[i] # c
      BY <1>2, <2>1, <3>1 DEF Channels, Registered
    <3> QED
      BY <2>1, <2>2, <3>1, <3>2 DEF Channels, Registered
  <2>5. SendersApart(v1, w2, tk)
    <3> SUFFICES ASSUME NEW i \in Ids, v1[i] # None, NEW other \in Ids
                 PROVE  w2[other] # v1[i].owner
      BY DEF Channels, SendersApart
    <3>1. v1[i].owner \in Requests /\ v2[other] # v1[i].owner
      BY <1>0 DEF Channels, SendersApart, ChannelTypes, Senders
    <3> QED
      BY <1>0, <2>1, <3>1
  <2>6. UnusedNew(dh, tk)
    <3>1. tk[c].pc # "new"
      BY <1>2 DEF Channels, Registered
    <3> QED
      BY <2>1, <2>2, <3>1 DEF Channels, UnusedNew
  <2>7. ReadersConnected(w2, dh, tk)
    <3> SUFFICES ASSUME NEW r \in Requests, tk[r].pc = "wait_v2"
                 PROVE  \/ dh[tk[r].chan] \in Payloads \cup Requests
                        \/ dh[tk[r].chan] = None /\ w2[tk[r].id] = tk[r].chan
      BY DEF ReadersConnected
    <3>1. tk[r].chan \in Requests /\ tk[r].id \in Ids
      BY <1>0 DEF ChannelTypes
    <3>2. CASE tk[r].chan = c
      BY <2>2, <3>2
    <3>3. CASE tk[r].chan # c
      BY <2>1, <2>2, <3>1, <3>3 DEF Channels, ReadersConnected
    <3> QED
      BY <3>2, <3>3
  <2>8. \A i \in Ids : v1[i] = None \/ w2[i] = None
    BY <2>1 DEF Channels
  <2> QED
    BY <1>2, <2>3, <2>4, <2>5, <2>6, <2>7, <2>8 DEF Channels, w2, dh
<1> QED
  BY <1>1, <1>2

(* A request ends, or goes on without waiting for a message. *)
LEMMA TaskChannels ==
    ASSUME NEW v1, NEW v2, NEW ch, NEW tk, Channels(v1, v2, ch, tk),
           NEW r \in Requests, NEW t \in Tasks, t.pc \notin {"new", "wait_v2"},
           t.pc # "done" => t.id \in Ids /\ t.chan \in Requests
    PROVE  Channels(v1, v2, ch, [tk EXCEPT ![r] = t])
<1> DEFINE uk == [tk EXCEPT ![r] = t]
<1>0. ChannelTypes(v1, v2, ch, tk)
  BY DEF Channels
<1>1. uk \in [Requests -> Tasks] /\ uk[r] = t /\ \A q \in Requests : q # r => uk[q] = tk[q]
  BY <1>0 DEF ChannelTypes
<1> HIDE DEF uk
<1>2. ChannelTypes(v1, v2, ch, uk)
  BY <1>0, <1>1 DEF ChannelTypes
<1>3. Registered(v2, ch, uk)
  BY <1>0, <1>1 DEF Channels, Registered, ChannelTypes
<1>4. SendersApart(v1, v2, uk)
  <2>1. \A id \in Ids : v1[id] # None => v1[id].owner \in Requests
    BY <1>0 DEF ChannelTypes, Senders
  <2> QED
    BY <1>1, <2>1 DEF Channels, SendersApart
<1>5. UnusedNew(ch, uk)
  BY <1>1 DEF Channels, UnusedNew
<1>6. ReadersConnected(v2, ch, uk)
  BY <1>1 DEF Channels, ReadersConnected
<1> QED
  BY <1>2, <1>3, <1>4, <1>5, <1>6 DEF Channels, uk

(* A reader joins the readers of a mailbox, or is the first of them. *)
LEMMA JoinChannels ==
    ASSUME NEW v1, NEW v2, NEW ch, NEW tk, Channels(v1, v2, ch, tk),
           NEW r \in Requests, NEW id \in Ids, NEW c, tk[r].pc = "new", v1[id] = None,
           c = (IF v2[id] = None THEN r ELSE v2[id]),
           NEW t \in Tasks, t.pc = "wait_v2", t.id = id, t.chan = c
    PROVE  Channels(v1, [v2 EXCEPT ![id] = c], ch, [tk EXCEPT ![r] = t])
<1> DEFINE uk == [tk EXCEPT ![r] = t]
           w2 == [v2 EXCEPT ![id] = c]
<1>0. ChannelTypes(v1, v2, ch, tk) /\ None \notin Requests
  BY NoneAssumption DEF Channels
<1>1. uk \in [Requests -> Tasks] /\ uk[r] = t /\ \A q \in Requests : q # r => uk[q] = tk[q]
  BY <1>0 DEF ChannelTypes
<1>2. c \in Requests /\ w2 \in [Ids -> Requests \cup {None}] /\ w2[id] = c
      /\ \A o \in Ids : o # id => w2[o] = v2[o]
  BY <1>0 DEF ChannelTypes
<1> HIDE DEF uk, w2
<1>3. ch[c] = None
  BY <1>0 DEF Channels, Registered, UnusedNew
<1>4. \A o \in Ids : o # id => v2[o] # c
  BY <1>0 DEF Channels, Registered
<1>5. ChannelTypes(v1, w2, ch, uk)
  BY <1>0, <1>1, <1>2 DEF ChannelTypes
<1>6. Registered(w2, ch, uk)
  <2> SUFFICES ASSUME NEW i \in Ids, w2[i] # None
               PROVE  /\ ch[w2[i]] = None /\ uk[w2[i]].pc # "new"
                      /\ \A other \in Ids : w2[other] = w2[i] => other = i
    BY DEF Registered
  <2>1. CASE i = id
    <3>1. uk[c].pc # "new"
      BY <1>0, <1>1, <1>2 DEF Channels, Registered
    <3> QED
      BY <1>2, <1>3, <1>4, <2>1, <3>1
  <2>2. CASE i # id
    <3>1. v2[i] \in Requests /\ w2[i] = v2[i] /\ v2[i] # c /\ tk[v2[i]].pc # "new"
          /\ ch[v2[i]] = None
      BY <1>0, <1>2, <1>4, <2>2 DEF Channels, Registered, ChannelTypes
    <3>2. \A other \in Ids : v2[other] = v2[i] => other = i
      BY <1>2, <2>2 DEF Channels, Registered
    <3> QED
      BY <1>1, <1>2, <2>2, <3>1, <3>2
  <2> QED
    BY <2>1, <2>2
<1>7. SendersApart(v1, w2, uk)
  <2> SUFFICES ASSUME NEW i \in Ids, v1[i] # None
               PROVE  /\ uk[v1[i].owner].pc # "new"
                      /\ \A other \in Ids : w2[other] # v1[i].owner
                      /\ \A q \in Requests : uk[q].pc = "wait_v2" => uk[q].chan # v1[i].owner
    BY DEF SendersApart
  <2>1. v1[i].owner \in Requests /\ tk[v1[i].owner].pc # "new"
        /\ \A other \in Ids : v2[other] # v1[i].owner
    BY <1>0 DEF Channels, SendersApart, ChannelTypes, Senders
  <2>2. v1[i].owner # r /\ v1[i].owner # c
    BY <2>1
  <2> QED
    BY <1>1, <1>2, <2>1, <2>2 DEF Channels, SendersApart
<1>8. UnusedNew(ch, uk)
  <2> SUFFICES ASSUME NEW q \in Requests, uk[q].pc = "new"
               PROVE  /\ ch[q] = None
                      /\ \A p \in Requests : uk[p].pc = "wait_v2" => uk[p].chan # q
    BY DEF UnusedNew
  <2>1. q # r /\ tk[q].pc = "new" /\ q # c
    BY <1>0, <1>1 DEF Channels, Registered
  <2> QED
    BY <1>1, <2>1 DEF Channels, UnusedNew
<1>9. ReadersConnected(w2, ch, uk)
  <2> SUFFICES ASSUME NEW q \in Requests, uk[q].pc = "wait_v2"
               PROVE  \/ ch[uk[q].chan] \in Payloads \cup Requests
                      \/ ch[uk[q].chan] = None /\ w2[uk[q].id] = uk[q].chan
    BY DEF ReadersConnected
  <2>1. CASE q = r
    BY <1>1, <1>2, <1>3, <2>1
  <2>2. CASE q # r
    <3>1. uk[q] = tk[q] /\ tk[q].id \in Ids /\ tk[q].chan \in Requests
      BY <1>0, <1>1, <2>2 DEF ChannelTypes
    <3>2. v2[tk[q].id] = tk[q].chan => w2[tk[q].id] = tk[q].chan
      BY <1>0, <1>2, <3>1
    <3> QED
      BY <3>1, <3>2 DEF Channels, ReadersConnected
  <2> QED
    BY <2>1, <2>2
<1>10. \A i \in Ids : v1[i] = None \/ w2[i] = None
  BY <1>2 DEF Channels
<1> QED
  BY <1>5, <1>6, <1>7, <1>8, <1>9, <1>10 DEF Channels, uk, w2

(* A BIP 78 sender's request is entered where no reader waits. *)
LEMMA EnterChannels ==
    ASSUME NEW v1, NEW v2, NEW ch, NEW tk, Channels(v1, v2, ch, tk),
           NEW r \in Requests, NEW id \in Ids, tk[r].pc = "new", v2[id] = None,
           NEW e \in Senders, e.owner = r,
           NEW t \in Tasks, t.pc = "wait_v1", t.id = id, t.chan = r
    PROVE  Channels([v1 EXCEPT ![id] = e], v2, ch, [tk EXCEPT ![r] = t])
<1> DEFINE uk == [tk EXCEPT ![r] = t]
           w1 == [v1 EXCEPT ![id] = e]
<1>0. ChannelTypes(v1, v2, ch, tk) /\ None \notin Requests
  BY NoneAssumption DEF Channels
<1>1. Channels(v1, v2, ch, uk)
  BY TaskChannels
<1>2. uk[r] = t /\ \A q \in Requests : q # r => uk[q] = tk[q]
  BY <1>0 DEF ChannelTypes
<1>3. w1 \in [Ids -> Senders \cup {None}] /\ w1[id] = e
      /\ \A o \in Ids : o # id => w1[o] = v1[o]
  BY <1>0 DEF ChannelTypes
<1> HIDE DEF uk, w1
<1>4. ChannelTypes(w1, v2, ch, uk)
  BY <1>1, <1>3 DEF Channels, ChannelTypes
<1>5. /\ \A other \in Ids : v2[other] # r
      /\ \A q \in Requests : tk[q].pc = "wait_v2" => tk[q].chan # r
  BY <1>0 DEF Channels, Registered, UnusedNew
<1>6. SendersApart(w1, v2, uk)
  BY <1>1, <1>2, <1>3, <1>5 DEF Channels, SendersApart
<1> QED
  BY <1>1, <1>3, <1>4, <1>6 DEF Channels, uk, w1

(* A BIP 78 sender's request is taken out; its channel may be used or lost. *)
LEMMA RemoveChannels ==
    ASSUME NEW v1, NEW v2, NEW ch, NEW tk, Channels(v1, v2, ch, tk), NEW id \in Ids,
           NEW dh \in [Requests -> Payloads \cup Requests \cup {None, Dropped}],
           \A c \in Requests : dh[c] = ch[c] \/ (v1[id] # None /\ c = v1[id].owner)
    PROVE  Channels([v1 EXCEPT ![id] = None], v2, dh, tk)
<1> DEFINE w1 == [v1 EXCEPT ![id] = None]
<1>0. ChannelTypes(v1, v2, ch, tk) /\ None \notin Requests
  BY NoneAssumption DEF Channels
<1>1. w1 \in [Ids -> Senders \cup {None}] /\ w1[id] = None
      /\ \A o \in Ids : o # id => w1[o] = v1[o]
  BY <1>0 DEF ChannelTypes
<1> HIDE DEF w1
<1>2. ChannelTypes(w1, v2, dh, tk)
  BY <1>0, <1>1 DEF ChannelTypes
<1>3. Registered(v2, dh, tk)
  <2>1. \A o \in Ids : v2[o] # None => v2[o] \in Requests /\ dh[v2[o]] = ch[v2[o]]
    BY <1>0 DEF Channels, ChannelTypes, SendersApart
  <2> QED
    BY <2>1 DEF Channels, Registered
<1>4. SendersApart(w1, v2, tk)
  BY <1>1 DEF Channels, SendersApart
<1>5. UnusedNew(dh, tk)
  <2>1. \A r \in Requests : tk[r].pc = "new" => dh[r] = ch[r]
    BY DEF Channels, SendersApart
  <2> QED
    BY <2>1 DEF Channels, UnusedNew
<1>6. ReadersConnected(v2, dh, tk)
  <2>1. \A r \in Requests : tk[r].pc = "wait_v2" =>
           tk[r].chan \in Requests /\ dh[tk[r].chan] = ch[tk[r].chan]
    BY <1>0 DEF Channels, ChannelTypes, SendersApart
  <2> QED
    BY <2>1 DEF Channels, ReadersConnected
<1>7. \A i \in Ids : w1[i] = None \/ v2[i] = None
  BY <1>1 DEF Channels
<1> QED
  BY <1>2, <1>3, <1>4, <1>5, <1>6, <1>7 DEF Channels, w1

(* A BIP 78 sender's request is read. *)
LEMMA ReadChannels ==
    ASSUME NEW v1, NEW v2, NEW ch, NEW tk, Channels(v1, v2, ch, tk), NEW id \in Ids,
           v1[id] # None
    PROVE  Channels([v1 EXCEPT ![id].unread = FALSE], v2, ch, tk)
<1> DEFINE e == [v1[id] EXCEPT !.unread = FALSE]
           w1 == [v1 EXCEPT ![id] = e]
<1>0. ChannelTypes(v1, v2, ch, tk)
  BY DEF Channels
<1>1. e \in Senders /\ e.owner = v1[id].owner
  BY <1>0 DEF ChannelTypes, Senders
<1> HIDE DEF e
<1>2. w1 \in [Ids -> Senders \cup {None}] /\ w1[id] = e
      /\ \A o \in Ids : o # id => w1[o] = v1[o]
  BY <1>0, <1>1 DEF ChannelTypes
<1> HIDE DEF w1
<1>3. ChannelTypes(w1, v2, ch, tk)
  BY <1>0, <1>2 DEF ChannelTypes
<1>4. SendersApart(w1, v2, tk)
  BY <1>1, <1>2 DEF Channels, SendersApart
<1>5. \A i \in Ids : w1[i] = None \/ v2[i] = None
  BY <1>2 DEF Channels
<1>6. Channels(w1, v2, ch, tk)
  BY <1>3, <1>4, <1>5 DEF Channels
<1>7. w1 = [v1 EXCEPT ![id].unread = FALSE]
  BY DEF w1, e
<1> QED
  BY <1>6, <1>7

-----------------------------------------------------------------------------
(* Every action keeps the first part of the invariant. *)

StoreTypes ==
    /\ disk \in [Ids -> Files \cup {None}] /\ tmp \in SUBSET Ids
    /\ insert_order \in Seq(Entries) /\ now \in Nat
    /\ torn \in SUBSET Ids /\ stuck \in SUBSET Ids /\ found \in SUBSET Ids

(* What a prune leaves, as the later proofs use it. *)
PruneTypes(pr) ==
    /\ pr.disk \in [Ids -> Files \cup {None}] /\ pr.order \in Seq(Entries)
    /\ pr.stuck \in SUBSET Ids /\ pr.found \in SUBSET Ids
    /\ Remaining(pr.v2)

LEMMA PruneFacts ==
    ASSUME TypeInv
    PROVE  /\ PruneTypes(Pruned)
           /\ \A fault : \A pr \in Stopped(fault) : PruneTypes(pr)
           /\ \A id \in Ids : Pruned.disk[id] # disk[id] =>
                 /\ Pruned.disk[id] = None
                 /\ \E i \in DOMAIN insert_order :
                       insert_order[i].id = id /\ Expired(insert_order[i])
           /\ \A fault : \A pr \in Stopped(fault) : \A id \in Ids :
                 pr.disk[id] \in {None, disk[id]}
<1>1. ASSUME NEW n, NEW m, Halfway(n, m)
      PROVE  PruneTypes(PrunedTo(n, m)) /\ \A id \in Ids : PrunedTo(n, m).disk[id] \in {None, disk[id]}
  BY <1>1, StopFacts DEF PruneTypes
<1>2. \A fault : \A pr \in Stopped(fault) :
         PruneTypes(pr) /\ \A id \in Ids : pr.disk[id] \in {None, disk[id]}
  BY <1>1, PruneStops
<1>3. PICK n, m : Halfway(n, m) /\ Pruned = PrunedTo(n, m)
  BY PruneStops
<1> QED
  BY <1>1, <1>2, <1>3, StopFacts

(* The two parts make up the invariant. *)
LEMMA Assemble ==
    ASSUME StoreTypes', Channels(pending_v1', pending_v2', channel', task')
    PROVE  IInv'
BY DEF IInv, TypeInv, StoreTypes, Channels, ChannelTypes, Registered, SendersApart,
       UnusedNew, ReadersConnected

(* A request that ends leaves the channels as they are. *)
LEMMA FinishChannels ==
    ASSUME NEW v1, NEW v2, NEW ch, Channels(v1, v2, ch, task),
           NEW r \in Requests, NEW id \in Ids \cup {None}, NEW result \in Results,
           Finish(r, id, result)
    PROVE  Channels(v1, v2, ch, task')
<1> DEFINE t == [pc |-> "done", id |-> id, chan |-> None, result |-> result]
<1>1. t \in Tasks /\ t.pc = "done"
  BY DEF Tasks
<1>2. task' = [task EXCEPT ![r] = t]
  BY DEF Finish
<1> HIDE DEF t
<1> QED
  BY <1>1, <1>2, TaskChannels

(* A step that prunes and does nothing else to the files and the readers. *)
LEMMA PrunedInv ==
    ASSUME IInv, NEW pr, PruneTypes(pr), Keep(pr), UNCHANGED <<tmp, pending_v1, now, torn>>,
           \/ UNCHANGED task
           \/ \E r \in Requests, id \in Ids, result \in Results : Finish(r, id, result)
    PROVE  IInv'
<1>1. StoreTypes'
  BY DEF IInv, TypeInv, StoreTypes, PruneTypes, Keep
<1>2. Channels(pending_v1, pr.v2, Dropping(pr.v2), task)
  BY DropChannels DEF PruneTypes
<1>3. Channels(pending_v1, pr.v2, Dropping(pr.v2), task')
  BY <1>2, FinishChannels
<1> QED
  BY <1>1, <1>3, Assemble DEF Keep

LEMMA RefuseInv ==
    ASSUME IInv, NEW pr, PruneTypes(pr), NEW r \in Requests, NEW id \in Ids,
           NEW result \in Results, Refuse(r, id, pr, result)
    PROVE  IInv'
BY PrunedInv DEF Refuse

(* How a failing request ends. *)
LEMMA FailureResults == \A f \in Failures : f.result \in Results \ {"ok"}
BY DEF Failures, Failure, Results

(* A request that ends inside its prune, or cannot look at its mailbox. *)
LEMMA RefusedInv ==
    ASSUME IInv, NEW r \in Requests, NEW id \in Ids,
           post_v2_unread(r, id) \/ has_capacity_stopped(r, id)
    PROVE  IInv'
<1>0. TypeInv /\ PruneTypes(Pruned)
  BY PruneFacts DEF IInv
<1>1. CASE has_capacity_stopped(r, id)
  <2>1. PICK f \in Failures : \E pr \in Stopped(f.fault) : Refuse(r, id, pr, f.result)
    BY <1>1 DEF has_capacity_stopped
  <2>2. PICK pr \in Stopped(f.fault) : Refuse(r, id, pr, f.result)
    BY <2>1
  <2>3. PruneTypes(pr)
    BY <1>0, <2>2, PruneFacts
  <2> QED
    BY <2>2, <2>3, RefuseInv, FailureResults
<1>2. CASE post_v2_unread(r, id)
  <2>1. PICK result \in Results : Refuse(r, id, Pruned, result)
    BY <1>2, FailureResults DEF post_v2_unread, Results
  <2> QED
    BY <1>0, <2>1, RefuseInv
<1> QED
  BY <1>1, <1>2

(* post_v2_payload, completed or not. *)
LEMMA PostInv ==
    ASSUME IInv, NEW r \in Requests, NEW id \in Ids, NEW p \in Payloads,
           post_v2(r, id, p) \/ post_v2_stopped(r, id, p)
    PROVE  IInv'
<1>0. TypeInv /\ PruneTypes(Pruned)
  BY PruneFacts DEF IInv
<1>3. CASE post_v2_stopped(r, id, p)
  <2>1. PICK linked \in BOOLEAN, left \in BOOLEAN :
           /\ tmp' = IF left THEN tmp \cup {id} ELSE tmp
           /\ disk' = IF linked
                      THEN [Pruned.disk EXCEPT ![id] = [created |-> now, payload |-> p]]
                      ELSE Pruned.disk
           /\ torn' = IF linked THEN torn \cup {id} ELSE torn
    BY <1>3 DEF post_v2_stopped
  <2>2. /\ insert_order' = Pruned.order /\ pending_v2' = Pruned.v2
        /\ channel' = Dropping(Pruned.v2) /\ UNCHANGED <<pending_v1, now>>
        /\ stuck' = Pruned.stuck /\ found' = Pruned.found
        /\ \E result \in Results : Finish(r, id, result)
    BY <1>3, FailureResults DEF post_v2_stopped
  <2>3. [created |-> now, payload |-> p] \in Files
    BY <1>0 DEF Files, TypeInv
  <2>4. StoreTypes'
    <3>1. disk' \in [Ids -> Files \cup {None}]
      BY <1>0, <2>1, <2>3 DEF PruneTypes
    <3>2. tmp' \in SUBSET Ids /\ torn' \in SUBSET Ids
      BY <1>0, <2>1 DEF TypeInv
    <3> QED
      BY <1>0, <2>2, <3>1, <3>2 DEF TypeInv, StoreTypes, PruneTypes
  <2>5. Channels(pending_v1, Pruned.v2, Dropping(Pruned.v2), task)
    BY <1>0, DropChannels DEF PruneTypes
  <2>6. Channels(pending_v1, Pruned.v2, Dropping(Pruned.v2), task')
    BY <2>2, <2>5, FinishChannels
  <2> QED
    BY <2>2, <2>4, <2>6, Assemble
<1>4. CASE post_v2(r, id, p)
  <2> DEFINE created == try_insert(Pruned.disk, id, p)
  <2>1. CASE \E result \in {"over_capacity", "io_error", "rejected"} :
               Refuse(r, id, Pruned, result)
    BY <1>0, <2>1, RefuseInv DEF Results
  <2>2. CASE /\ created # None
             /\ disk' = [Pruned.disk EXCEPT ![id] = [created |-> created, payload |-> p]]
             /\ insert_order' = Append(Pruned.order, [created |-> created, id |-> id])
             /\ Notify(Pruned, id, p)
             /\ torn' = torn \ {id} /\ stuck' = Pruned.stuck \ {id} /\ found' = Pruned.found
             /\ Finish(r, id, "ok")
             /\ UNCHANGED <<tmp, pending_v1, now>>
    <3>1. created \in Int
      BY <1>0, <2>2 DEF try_insert, TypeInv, Files, PruneTypes
    <3>2. [created |-> created, payload |-> p] \in Files
          /\ [created |-> created, id |-> id] \in Entries
      BY <3>1 DEF Files, Entries
    <3> HIDE DEF created
    <3>3. StoreTypes'
      <4>1. disk' \in [Ids -> Files \cup {None}]
        BY <1>0, <2>2, <3>2 DEF PruneTypes
      <4>2. insert_order' \in Seq(Entries)
        BY <1>0, <2>2, <3>2 DEF PruneTypes
      <4>3. torn' \in SUBSET Ids /\ stuck' \in SUBSET Ids /\ found' \in SUBSET Ids
        BY <1>0, <2>2 DEF TypeInv, PruneTypes
      <4> QED
        BY <1>0, <2>2, <4>1, <4>2, <4>3 DEF TypeInv, StoreTypes
    <3>4. Channels(pending_v1, Pruned.v2, Dropping(Pruned.v2), task)
      BY <1>0, DropChannels DEF PruneTypes
    <3>5. Channels(pending_v1, pending_v2', channel', task)
      BY <2>2, <3>4, SendChannels DEF Notify
    <3>6. Channels(pending_v1, pending_v2', channel', task')
      BY <2>2, <3>5, FinishChannels DEF Results
    <3> QED
      BY <2>2, <3>3, <3>6, Assemble
  <2> QED
    BY <1>4, <2>1, <2>2 DEF post_v2
<1> QED
  BY <1>3, <1>4

(* wait_for_v2_payload up to its wait. *)
LEMMA ReadInv ==
    ASSUME IInv, NEW r \in Requests, NEW id \in Ids, wait_for_v2_payload(r, id)
    PROVE  IInv'
<1>0. TypeInv /\ PruneTypes(Pruned)
  BY PruneFacts DEF IInv
<1>1. CASE read_stopped(r, id)
  <2>1. /\ UNCHANGED <<disk, tmp, insert_order, pending_v1, pending_v2, channel, now,
                       torn, stuck, found>>
        /\ \E result \in Results : Finish(r, id, result)
    BY <1>1, FailureResults DEF read_stopped
  <2>2. Channels(pending_v1, pending_v2, channel, task')
    BY <2>1, FinishChannels DEF IInv
  <2> QED
    BY <1>0, <2>1, <2>2, Assemble DEF TypeInv, StoreTypes
<1>2. CASE read(r, id)
  <2>1. /\ pending_v1' = IF Unread(id) THEN [pending_v1 EXCEPT ![id].unread = FALSE]
                         ELSE pending_v1
        /\ Finish(r, id, "ok")
        /\ UNCHANGED <<disk, tmp, insert_order, pending_v2, channel, now, torn, stuck, found>>
    BY <1>2 DEF read
  <2>2. Channels(pending_v1', pending_v2, channel, task)
    BY <2>1, ReadChannels DEF IInv, Unread
  <2>3. Channels(pending_v1', pending_v2, channel, task')
    BY <2>1, <2>2, FinishChannels DEF Results
  <2>4. StoreTypes'
    BY <1>0, <2>1 DEF TypeInv, StoreTypes
  <2> QED
    BY <2>1, <2>3, <2>4, Assemble
<1>3. CASE wait_v2(r, id)
  <2> DEFINE c == IF Pruned.v2[id] = None THEN r ELSE Pruned.v2[id]
             t == [pc |-> "wait_v2", id |-> id, chan |-> c, result |-> "none"]
  <2>1. CASE \E result \in {"over_capacity", "already_read"} : Refuse(r, id, Pruned, result)
    BY <1>0, <2>1, RefuseInv DEF Results
  <2>2. CASE /\ pending_v1[id] = None
             /\ pending_v2' = [Pruned.v2 EXCEPT ![id] = c]
             /\ channel' = Dropping(Pruned.v2)
             /\ disk' = Pruned.disk /\ insert_order' = Pruned.order
             /\ stuck' = Pruned.stuck /\ found' = Pruned.found
             /\ Block(r, "wait_v2", id, c)
             /\ UNCHANGED <<tmp, pending_v1, now, torn>>
    <3>1. Channels(pending_v1, Pruned.v2, Dropping(Pruned.v2), task)
      BY <1>0, DropChannels DEF PruneTypes
    <3>2. c \in Requests
      BY <1>0 DEF PruneTypes, Remaining
    <3>3. t \in Tasks /\ t.pc = "wait_v2" /\ t.id = id /\ t.chan = c
      BY <3>2 DEF Tasks, Results
    <3>4. task[r].pc = "new" /\ task' = [task EXCEPT ![r] = t]
      BY <2>2 DEF wait_for_v2_payload, Block
    <3> HIDE DEF t
    <3>5. Channels(pending_v1, pending_v2', channel', task')
      BY <2>2, <3>1, <3>3, <3>4, JoinChannels
    <3>6. StoreTypes'
      BY <1>0, <2>2 DEF TypeInv, StoreTypes, PruneTypes
    <3> QED
      BY <2>2, <3>5, <3>6, Assemble
  <2> QED
    BY <1>3, <2>1, <2>2 DEF wait_v2
<1> QED
  BY <1>1, <1>2, <1>3 DEF wait_for_v2_payload

(* post_v1_request_and_wait_for_response up to its wait. *)
LEMMA SenderInv ==
    ASSUME IInv, NEW r \in Requests, NEW id \in Ids, post_v1_req_and_wait(r, id)
    PROVE  IInv'
<1>0. TypeInv /\ PruneTypes(Pruned)
  BY PruneFacts DEF IInv
<1>1. Channels(pending_v1, Pruned.v2, Dropping(Pruned.v2), task)
  BY <1>0, DropChannels DEF PruneTypes
<1>2. CASE Refuse(r, id, Pruned, "over_capacity")
  BY <1>0, <1>2, RefuseInv DEF Results
<1>3. ASSUME Notify(Pruned, id, r)
      PROVE  Channels(pending_v1, pending_v2', channel', task) /\ pending_v2'[id] = None
  <2>1. Pruned.v2 \in [Ids -> Requests \cup {None}]
    BY <1>0 DEF PruneTypes, Remaining
  <2> QED
    BY <1>1, <1>3, <2>1, SendChannels DEF Notify
<1>4. ASSUME disk' = Pruned.disk, insert_order' = Pruned.order, stuck' = Pruned.stuck,
             found' = Pruned.found, UNCHANGED <<tmp, now, torn>>
      PROVE  StoreTypes'
  BY <1>0, <1>4 DEF TypeInv, StoreTypes, PruneTypes
<1>5. CASE /\ pending_v1[id] # None
           /\ Notify(Pruned, id, r)
           /\ pending_v1' = IF Pruned.v2[id] = None THEN pending_v1
                            ELSE [pending_v1 EXCEPT ![id].unread = FALSE]
           /\ Finish(r, id, "over_capacity")
           /\ disk' = Pruned.disk /\ insert_order' = Pruned.order
           /\ stuck' = Pruned.stuck /\ found' = Pruned.found
           /\ UNCHANGED <<tmp, now, torn>>
  <2>1. Channels(pending_v1', pending_v2', channel', task)
    BY <1>3, <1>5, ReadChannels
  <2>2. Channels(pending_v1', pending_v2', channel', task')
    BY <1>5, <2>1, FinishChannels DEF Results
  <2> QED
    BY <1>4, <1>5, <2>2, Assemble
<1>6. CASE /\ pending_v1[id] = None
           /\ pending_v1' = [pending_v1 EXCEPT
                               ![id] = [owner |-> r, unread |-> Pruned.v2[id] = None]]
           /\ Notify(Pruned, id, r)
           /\ Block(r, "wait_v1", id, r)
           /\ disk' = Pruned.disk /\ insert_order' = Pruned.order
           /\ stuck' = Pruned.stuck /\ found' = Pruned.found
           /\ UNCHANGED <<tmp, now, torn>>
  <2> DEFINE b == Pruned.v2[id] = None
             e == [owner |-> r, unread |-> b]
             t == [pc |-> "wait_v1", id |-> id, chan |-> r, result |-> "none"]
  <2>1. b \in BOOLEAN
    OBVIOUS
  <2>2. pending_v1' = [pending_v1 EXCEPT ![id] = e]
    BY <1>6
  <2> HIDE DEF b
  <2>3. e \in Senders /\ e.owner = r
    BY <2>1 DEF Senders
  <2>4. t \in Tasks /\ t.pc = "wait_v1" /\ t.id = id /\ t.chan = r
    BY DEF Tasks, Results
  <2>5. task[r].pc = "new" /\ task' = [task EXCEPT ![r] = t]
    BY <1>6 DEF post_v1_req_and_wait, Block
  <2> HIDE DEF e, t
  <2>6. Channels(pending_v1, pending_v2', channel', task) /\ pending_v2'[id] = None
    BY <1>3, <1>6
  <2>7. Channels([pending_v1 EXCEPT ![id] = e], pending_v2', channel', [task EXCEPT ![r] = t])
    BY <2>3, <2>4, <2>5, <2>6, EnterChannels
  <2>8. Channels(pending_v1', pending_v2', channel', task')
    BY <2>2, <2>5, <2>7
  <2> QED
    BY <1>4, <1>6, <2>8, Assemble
<1> QED
  BY <1>2, <1>5, <1>6 DEF post_v1_req_and_wait

(* post_v1_response. *)
LEMMA ResponseInv ==
    ASSUME IInv, NEW r \in Requests, NEW id \in Ids, post_v1_res(r, id)
    PROVE  IInv'
<1>0. TypeInv
  BY DEF IInv
<1>1. /\ pending_v1' = [pending_v1 EXCEPT ![id] = None]
      /\ UNCHANGED <<disk, tmp, insert_order, pending_v2, now, torn, stuck, found>>
      /\ \/ /\ pending_v1[id] # None
            /\ channel' = [channel EXCEPT ![pending_v1[id].owner] = r]
            /\ Finish(r, id, "ok")
         \/ UNCHANGED channel /\ Finish(r, id, "sender_unavailable")
  BY DEF post_v1_res
<1>2. /\ channel' \in [Requests -> Payloads \cup Requests \cup {None, Dropped}]
      /\ \A c \in Requests : channel'[c] = channel[c]
                                \/ (pending_v1[id] # None /\ c = pending_v1[id].owner)
  <2>1. channel \in [Requests -> Payloads \cup Requests \cup {None, Dropped}]
    BY <1>0 DEF TypeInv
  <2>2. pending_v1[id] # None => pending_v1[id].owner \in Requests
    BY <1>0 DEF TypeInv, Senders
  <2> QED
    BY <1>1, <2>1, <2>2
<1>3. Channels(pending_v1', pending_v2, channel', task)
  BY <1>1, <1>2, RemoveChannels DEF IInv
<1>4. Channels(pending_v1', pending_v2, channel', task')
  BY <1>1, <1>3, FinishChannels DEF Results
<1>5. StoreTypes'
  BY <1>0, <1>1 DEF TypeInv, StoreTypes
<1> QED
  BY <1>1, <1>4, <1>5, Assemble

(* A wait ends. *)
LEMMA WaitOverInv ==
    ASSUME IInv, NEW r \in Requests, reader_wait_over(r) \/ sender_wait_over(r)
    PROVE  IInv'
<1>0. TypeInv
  BY DEF IInv
<1>1. PICK pc \in {"wait_v2", "wait_v1"}, next \in {"cleanup_v2", "cleanup_v1"} :
         WaitOver(r, pc, next)
  BY DEF reader_wait_over, sender_wait_over
<1>2. UNCHANGED <<disk, tmp, insert_order, pending_v1, pending_v2, channel, now, torn, stuck, found>>
      /\ task[r].pc = pc
  BY <1>1 DEF WaitOver
<1>3. task[r] \in Tasks /\ task[r].id \in Ids /\ task[r].chan \in Requests
  BY <1>0, <1>1, <1>2 DEF TypeInv
<1>4. CASE Finish(r, task[r].id, "panic")
  <2>1. Channels(pending_v1, pending_v2, channel, task')
    BY <1>3, <1>4, FinishChannels DEF IInv, Results
  <2> QED
    BY <1>0, <1>2, <2>1, Assemble DEF TypeInv, StoreTypes
<1>5. CASE task' = [task EXCEPT ![r].pc = next,
                       ![r].result = IF channel[task[r].chan] = None THEN "timeout" ELSE "ok"]
  <2> DEFINE result == IF channel[task[r].chan] = None THEN "timeout" ELSE "ok"
             t == [task[r] EXCEPT !.pc = next, !.result = result]
  <2>1. result \in Results
    BY DEF Results
  <2>2. task' = [task EXCEPT ![r] = t]
    BY <1>0, <1>5 DEF TypeInv
  <2> HIDE DEF result
  <2>3. t \in Tasks /\ t.pc = next /\ t.id = task[r].id /\ t.chan = task[r].chan
    BY <1>1, <1>3, <2>1 DEF Tasks
  <2> HIDE DEF t
  <2>4. Channels(pending_v1, pending_v2, channel, task')
    BY <1>1, <1>3, <2>2, <2>3, TaskChannels DEF IInv
  <2> QED
    BY <1>0, <1>2, <2>4, Assemble DEF TypeInv, StoreTypes
<1> QED
  BY <1>1, <1>4, <1>5 DEF WaitOver

(* A request cleans up after its wait, or its client is gone. *)
LEMMA CleanupInv ==
    ASSUME IInv, NEW r \in Requests,
           maybe_cleanup_v2_waitmap(r) \/ remove_pending_v1(r) \/ Disconnect(r)
    PROVE  IInv'
<1>0. TypeInv
  BY DEF IInv
<1>1. task[r].pc \in {"wait_v2", "wait_v1", "cleanup_v2", "cleanup_v1"}
  BY DEF maybe_cleanup_v2_waitmap, remove_pending_v1, Disconnect
<1>2. task[r].id \in Ids /\ task[r].result \in Results /\ "reset" \in Results
  BY <1>0, <1>1 DEF TypeInv, Tasks, Results
<1>3. CASE maybe_cleanup_v2_waitmap(r)
  <2> DEFINE id == task[r].id
             last == pending_v2[id] # None /\ Waiting(pending_v2[id]) = {}
  <2>1. /\ pending_v2' = [pending_v2 EXCEPT ![id] = IF last THEN None ELSE pending_v2[id]]
        /\ channel' = Dropping(pending_v2') /\ Finish(r, id, task[r].result)
        /\ UNCHANGED <<disk, tmp, insert_order, pending_v1, now, torn, stuck, found>>
    BY <1>3 DEF maybe_cleanup_v2_waitmap
  <2>2. Remaining(pending_v2')
    BY <1>0, <1>2, <2>1 DEF Remaining, TypeInv
  <2>3. Channels(pending_v1, pending_v2', channel', task)
    BY <2>1, <2>2, DropChannels
  <2>4. Channels(pending_v1, pending_v2', channel', task')
    BY <1>2, <2>1, <2>3, FinishChannels
  <2> QED
    BY <1>0, <2>1, <2>4, Assemble DEF TypeInv, StoreTypes
<1>4. CASE remove_pending_v1(r)
  <2> DEFINE id == task[r].id
  <2>1. /\ pending_v1' = [pending_v1 EXCEPT ![id] = None]
        /\ channel' = IF pending_v1[id] # None /\ channel[pending_v1[id].owner] = None
                      THEN [channel EXCEPT ![pending_v1[id].owner] = Dropped]
                      ELSE channel
        /\ Finish(r, id, task[r].result)
        /\ UNCHANGED <<disk, tmp, insert_order, pending_v2, now, torn, stuck, found>>
    BY <1>4 DEF remove_pending_v1
  <2>2. /\ channel' \in [Requests -> Payloads \cup Requests \cup {None, Dropped}]
        /\ \A c \in Requests : channel'[c] = channel[c]
                                  \/ (pending_v1[id] # None /\ c = pending_v1[id].owner)
    <3>1. channel \in [Requests -> Payloads \cup Requests \cup {None, Dropped}]
      BY <1>0 DEF TypeInv
    <3>2. pending_v1[id] # None => pending_v1[id].owner \in Requests
      BY <1>0, <1>2 DEF TypeInv, Senders
    <3> QED
      BY <2>1, <3>1, <3>2
  <2> HIDE DEF id
  <2>a. id \in Ids /\ Channels(pending_v1, pending_v2, channel, task)
    BY <1>2 DEF id, IInv
  <2>b. Channels([pending_v1 EXCEPT ![id] = None], pending_v2, channel', task)
    BY <2>2, <2>a, RemoveChannels
  <2>3. Channels(pending_v1', pending_v2, channel', task)
    BY <2>1, <2>b
  <2>4. Channels(pending_v1', pending_v2, channel', task')
    BY <1>2, <2>1, <2>3, <2>a, FinishChannels
  <2> QED
    BY <1>0, <2>1, <2>4, Assemble DEF TypeInv, StoreTypes
<1>5. CASE Disconnect(r)
  <2>1. /\ UNCHANGED <<disk, tmp, insert_order, pending_v1, pending_v2, channel, now, torn, stuck, found>>
        /\ Finish(r, task[r].id, "reset")
    BY <1>5 DEF Disconnect
  <2>2. Channels(pending_v1, pending_v2, channel, task')
    BY <1>2, <2>1, FinishChannels DEF IInv
  <2> QED
    BY <1>0, <2>1, <2>2, Assemble DEF TypeInv, StoreTypes
<1> QED
  BY <1>3, <1>4, <1>5

(* The process starts again with what is on disk. *)
LEMMA RestartInv ==
    ASSUME IInv, Restart
    PROVE  IInv'
<1>0. TypeInv
  BY DEF IInv
<1>1. PICK order \in [1..Cardinality(FileEntries) -> FileEntries] :
         SortedFiles(order) /\ insert_order' = order
  BY DEF Restart
<1>2. FileEntries \subseteq Entries /\ IsFiniteSet(FileEntries)
  <2>1. \A id \in Ids : Populated(id) => disk[id].created \in Int
    BY <1>0 DEF TypeInv, Populated, Files
  <2>2. FileEntries \subseteq Entries
    BY <2>1 DEF FileEntries, Entries
  <2> DEFINE S == {i \in Ids : Populated(i)}
             f == [id \in S |-> [created |-> disk[id].created, id |-> id]]
  <2>3. IsFiniteSet(S)
    BY IdsAssumption, FS_Subset
  <2>4. f \in Surjection(S, FileEntries)
    BY DEF Surjection, FileEntries
  <2>5. IsFiniteSet(FileEntries)
    BY <2>3, <2>4, FS_Surjection
  <2> QED
    BY <2>2, <2>5
<1>3. insert_order' \in Seq(Entries)
  BY <1>1, <1>2, FS_CardinalityType
<1>4. StoreTypes'
  <2>1. torn' = {} /\ stuck' = {} /\ tmp' = {} /\ UNCHANGED <<disk, now>>
        /\ found' = found \cup {id \in torn \cup stuck : Populated(id)}
    BY DEF Restart
  <2> QED
    BY <1>0, <1>3, <2>1 DEF TypeInv, StoreTypes
<1>5. /\ pending_v1' = [id \in Ids |-> None] /\ pending_v2' = [id \in Ids |-> None]
      /\ channel' = [c \in Requests |-> None]
      /\ task' = [r \in Requests |->
                   IF task[r].pc \in {"new", "done"} THEN task[r]
                   ELSE [pc |-> "done", id |-> task[r].id, chan |-> None,
                         result |-> "reset"]]
  BY DEF Restart
<1>6. task' \in [Requests -> Tasks] /\ \A r \in Requests : task'[r].pc \in {"new", "done"}
  BY <1>0, <1>5 DEF TypeInv, Tasks, Results
<1>7. Channels(pending_v1', pending_v2', channel', task')
  BY <1>5, <1>6 DEF Channels, ChannelTypes, Registered, SendersApart, UnusedNew,
                    ReadersConnected
<1> QED
  BY <1>4, <1>7, Assemble

(* The first part of the invariant is inductive. *)
LEMMA InitInv == Init => IInv
<1> SUFFICES ASSUME Init
             PROVE  IInv
  OBVIOUS
<1>1. task \in [Requests -> Tasks] /\ \A r \in Requests : task[r].pc = "new"
  BY DEF Init, Tasks, Results
<1>2. /\ disk = [id \in Ids |-> None] /\ tmp = {} /\ insert_order = <<>> /\ now = 0
      /\ torn = {} /\ stuck = {} /\ found = {}
      /\ pending_v1 = [id \in Ids |-> None] /\ pending_v2 = [id \in Ids |-> None]
      /\ channel = [c \in Requests |-> None]
  BY DEF Init
<1>3. TypeInv
  BY <1>1, <1>2 DEF TypeInv
<1>4. Channels(pending_v1, pending_v2, channel, task)
  BY <1>1, <1>2 DEF Channels, ChannelTypes, Registered, SendersApart, UnusedNew,
                    ReadersConnected
<1> QED
  BY <1>3, <1>4 DEF IInv

LEMMA NextInv == IInv /\ [Next]_vars => IInv'
<1> SUFFICES ASSUME IInv, [Next]_vars
             PROVE  IInv'
  OBVIOUS
<1>1. ASSUME NEW r \in Requests, Arrive(r) PROVE IInv'
  <2>1. PICK id \in Ids :
           \/ \E p \in Payloads : post_v2(r, id, p) \/ post_v2_stopped(r, id, p)
           \/ post_v2_unread(r, id) \/ has_capacity_stopped(r, id)
           \/ wait_for_v2_payload(r, id)
           \/ post_v1_req_and_wait(r, id)
           \/ post_v1_res(r, id)
    BY <1>1 DEF Arrive
  <2>2. CASE post_v2_unread(r, id) \/ has_capacity_stopped(r, id)
    BY <2>2, RefusedInv
  <2> QED
    BY <2>1, <2>2, PostInv, ReadInv, SenderInv, ResponseInv
<1>2. ASSUME NEW r \in Requests, Continue(r) \/ Disconnect(r) PROVE IInv'
  BY <1>2, WaitOverInv, CleanupInv DEF Continue
<1>3. CASE prune \/ prune_failed
  <2>1. PICK pr : PruneTypes(pr) /\ Keep(pr)
    BY <1>3, PruneFacts DEF prune, prune_failed, IInv
  <2>2. UNCHANGED <<tmp, pending_v1, task, now, torn>>
    BY <1>3 DEF prune, prune_failed
  <2> QED
    BY <2>1, <2>2, PrunedInv
<1>4. CASE Tick \/ UNCHANGED vars
  <2>1. UNCHANGED <<disk, tmp, insert_order, pending_v1, pending_v2, channel, task,
                    torn, stuck, found>>
        /\ now' \in Nat
    BY <1>4 DEF Tick, vars, IInv, TypeInv
  <2>2. StoreTypes'
    BY <2>1 DEF IInv, TypeInv, StoreTypes
  <2> QED
    BY <2>1, <2>2, Assemble DEF IInv
<1>5. CASE Restart
  BY <1>5, RestartInv
<1> QED
  BY <1>1, <1>2, <1>3, <1>4, <1>5 DEF Next

(* The first part of the invariant holds in every reachable state. *)
THEOREM Invariance == Spec => []IInv
BY InitInv, NextInv, PTL DEF Spec

(* BIP 78 senders and BIP 77 readers never pend at the same mailbox. *)
THEOREM OneKind == Spec => []OneKindPending
<1>1. IInv => OneKindPending
  BY DEF IInv, Channels, OneKindPending
<1> QED
  BY <1>1, Invariance, PTL

(* No reader loses the channel it waits on, whoever times out, cleans up,    *)
(* prunes or goes away meanwhile: "receiver must not fail" holds for it.     *)
THEOREM ReadersStayConnected == Spec => []ReaderKeepsChannel
<1>1. IInv => ReaderKeepsChannel
  BY DEF IInv, Channels, ReadersConnected, ReaderKeepsChannel
<1> QED
  BY <1>1, Invariance, PTL

-----------------------------------------------------------------------------
(* Files, their order, and the capacity *)

Count(v) == Cardinality({id \in Ids : v[id] # None})

(* The second part of the invariant.  A file whose write stopped after the   *)
(* link (tn) is not in the order and its readers were not told; one that     *)
(* could not be removed (st) is not in the order either.  Those that a       *)
(* restart books (fd) are what the capacity may be exceeded by; they are     *)
(* there, and not torn again, until prune pops them.                         *)
Store(dsk, order, v1, v2, tn, st, fd) ==
    /\ \A id \in Ids \ tn : dsk[id] # None => v2[id] = None
    /\ InOrder(dsk, order, tn \cup st)
    /\ Len(order) + Count(v1) + Count(v2) <= Capacity + Cardinality(fd)
    /\ fd \in SUBSET Ids /\ \A id \in fd : dsk[id] # None
    /\ fd \cap (tn \cup st) = {}

SInv == Store(disk, insert_order, pending_v1, pending_v2, torn, stuck, found)

(* SInv gives the three properties. *)
LEMMA StoreMeans == SInv => NoLostWakeup /\ FilesTracked /\ WithinCapacity
BY DEF SInv, Store, InOrder, Count, NoLostWakeup, FilesTracked, WithinCapacity, Populated, len

(* Sets of mailboxes are finite. *)
LEMMA IdSets == \A S \in SUBSET Ids : IsFiniteSet(S) /\ Cardinality(S) \in Nat
BY IdsAssumption, FS_Subset, FS_CardinalityType

(* Counting entries. *)
LEMMA CountFacts ==
    ASSUME NEW v, NEW w
    PROVE  /\ Count(v) \in Nat
           /\ (\A id \in Ids : w[id] # None => v[id] # None) => Count(w) <= Count(v)
           /\ \A i \in Ids : (\A id \in Ids \ {i} : w[id] # None => v[id] # None)
                                => Count(w) <= Count(v) + 1
<1> DEFINE S(u) == {id \in Ids : u[id] # None}
<1>1. \A u : IsFiniteSet(S(u)) /\ Count(u) = Cardinality(S(u)) /\ Cardinality(S(u)) \in Nat
  BY IdsAssumption, FS_Subset, FS_CardinalityType DEF Count
<1>2. ASSUME \A id \in Ids : w[id] # None => v[id] # None
      PROVE  Count(w) <= Count(v)
  <2>1. S(w) \subseteq S(v)
    BY <1>2
  <2> QED
    BY <1>1, <2>1, FS_Subset
<1>3. ASSUME NEW i \in Ids, \A id \in Ids \ {i} : w[id] # None => v[id] # None
      PROVE  Count(w) <= Count(v) + 1
  <2>1. S(w) \subseteq S(v) \cup {i}
    BY <1>3
  <2>2. IsFiniteSet(S(v) \cup {i}) /\ Cardinality(S(v) \cup {i}) <= Cardinality(S(v)) + 1
    <3> HIDE DEF S
    <3>0. IsFiniteSet(S(v))
      BY <1>1
    <3>1. /\ IsFiniteSet(S(v) \cup {i})
          /\ \/ Cardinality(S(v) \cup {i}) = Cardinality(S(v))
             \/ Cardinality(S(v) \cup {i}) = Cardinality(S(v)) + 1
      BY <3>0, FS_AddElement
    <3> QED
      BY <1>1, <3>1
  <2>3. Cardinality(S(w)) <= Cardinality(S(v) \cup {i}) /\ Cardinality(S(v) \cup {i}) \in Nat
    BY <2>1, <2>2, FS_Subset, FS_CardinalityType
  <2> HIDE DEF S
  <2> QED
    BY <1>1, <2>2, <2>3
<1> QED
  BY <1>1, <1>2, <1>3

(* Entries only go. *)
LEMMA StoreShrinks ==
    ASSUME NEW dsk, NEW order, NEW v1, NEW v2, NEW tn, NEW st, NEW fd,
           Store(dsk, order, v1, v2, tn, st, fd), Len(order) \in Nat,
           NEW w1, NEW w2,
           \A id \in Ids : (w1[id] # None => v1[id] # None) /\ (w2[id] # None => v2[id] # None)
    PROVE  Store(dsk, order, w1, w2, tn, st, fd)
<1>1. Count(w1) <= Count(v1) /\ Count(w2) <= Count(v2)
      /\ Count(w1) \in Nat /\ Count(v1) \in Nat /\ Count(w2) \in Nat /\ Count(v2) \in Nat
  BY CountFacts
<1>2. Cardinality(fd) \in Nat
  BY IdSets DEF Store
<1> QED
  BY <1>1, <1>2, CapacityAssumption DEF Store

(* What is left after prune, wherever it stops. *)
LEMMA StoreStops ==
    ASSUME IInv, SInv, NEW n, NEW m, Halfway(n, m), NEW pr, pr = PrunedTo(n, m)
    PROVE  Store(pr.disk, pr.order, pending_v1, pr.v2, torn, pr.stuck, pr.found)
<1>0. TypeInv
  BY DEF IInv
<1> DEFINE len_ == Len(insert_order)
           Front == {insert_order[i].id : i \in 1..n}
<1>1. /\ \A id \in Ids : pr.disk[id] # None => pr.disk[id] = disk[id]
      /\ \A id \in Ids : pr.disk[id] =
            IF \E i \in 1..m : insert_order[i].id = id THEN None ELSE disk[id]
      /\ \A id \in Ids : pr.v2[id] # None => pending_v2[id] # None
      /\ pr.order \in Seq(Entries) /\ Len(pr.order) = len_ - n
      /\ \A i \in 1..(len_ - n) : pr.order[i] = insert_order[n + i]
      /\ pr.found = found \ Front
      /\ pr.stuck = stuck \cup {insert_order[i].id : i \in (m+1)..n}
      /\ n \in Nat /\ m \in 0..n /\ n <= len_
  BY <1>0, StopFacts DEF Remaining
<1>2. len_ \in Nat /\ DOMAIN insert_order = 1..len_ /\ DOMAIN pr.order = 1..(len_ - n)
  BY <1>0, <1>1 DEF TypeInv
<1>3. \A i \in 1..n : i \in 1..m \/ i \in (m+1)..n
  BY <1>1
<1>4. \A i \in (m+1)..n : i \in 1..n
  BY <1>1
<1>5. \A i \in 1..m : i \in 1..n
  BY <1>1
<1>6. /\ \A id \in Ids \ torn : disk[id] # None => pending_v2[id] = None
      /\ InOrder(disk, insert_order, torn \cup stuck)
      /\ len_ + Count(pending_v1) + Count(pending_v2) <= Capacity + Cardinality(found)
      /\ found \in SUBSET Ids /\ \A id \in found : disk[id] # None
      /\ found \cap (torn \cup stuck) = {}
  BY DEF SInv, Store
<1> HIDE DEF len_
<1>7. \A id \in Ids \ torn : pr.disk[id] # None => pr.v2[id] = None
  BY <1>1, <1>6
<1>8. InOrder(pr.disk, pr.order, torn \cup pr.stuck)
  <2> SUFFICES ASSUME NEW id \in Ids \ (torn \cup pr.stuck), pr.disk[id] # None
               PROVE  \E i \in DOMAIN pr.order :
                         pr.order[i] = [created |-> pr.disk[id].created, id |-> id]
    BY DEF InOrder
  <2>1. pr.disk[id] = disk[id] /\ \A i \in 1..n : insert_order[i].id # id
    BY <1>1, <1>3
  <2>2. PICK i \in 1..len_ : insert_order[i] = [created |-> disk[id].created, id |-> id]
    BY <1>1, <1>2, <1>6, <2>1 DEF InOrder
  <2>3. insert_order[i].id = id
    BY <2>2
  <2>4. i - n \in 1..(len_ - n) /\ n + (i - n) = i
    BY <1>1, <1>2, <2>1, <2>3
  <2>5. pr.order[i - n] = insert_order[i]
    BY <1>1, <2>4
  <2> QED
    BY <1>2, <2>1, <2>2, <2>4, <2>5
<1>9. Cardinality(found) <= Cardinality(pr.found) + n
  <2>1. IsFiniteSet(1..n) /\ Cardinality(1..n) = n
    BY <1>1, FS_Interval
  <2> DEFINE f == [i \in 1..n |-> insert_order[i].id]
  <2>2. f \in Surjection(1..n, Front)
    BY DEF Surjection
  <2> HIDE DEF f, Front
  <2>3. IsFiniteSet(Front) /\ Cardinality(Front) <= n
    BY <2>1, <2>2, FS_Surjection
  <2>4. IsFiniteSet(found) /\ found \cap Front \subseteq Front
    BY <1>6, IdSets
  <2>5. Cardinality(found \ Front) = Cardinality(found) - Cardinality(found \cap Front)
    BY <2>4, FS_Difference
  <2>6. Cardinality(found \cap Front) <= Cardinality(Front) /\ IsFiniteSet(found \cap Front)
    BY <2>3, <2>4, FS_Subset
  <2>7. /\ Cardinality(found \cap Front) \in Nat /\ Cardinality(Front) \in Nat
        /\ Cardinality(found) \in Nat
    BY <2>3, <2>4, <2>6, FS_CardinalityType
  <2> QED
    BY <1>1, <2>3, <2>5, <2>6, <2>7
<1>10. Len(pr.order) + Count(pending_v1) + Count(pr.v2) <= Capacity + Cardinality(pr.found)
  <2>1. /\ Count(pr.v2) <= Count(pending_v2) /\ Count(pr.v2) \in Nat
        /\ Count(pending_v2) \in Nat /\ Count(pending_v1) \in Nat
    BY <1>1, CountFacts
  <2>2. Cardinality(pr.found) \in Nat /\ Cardinality(found) \in Nat
    BY <1>1, <1>6, IdSets
  <2> QED
    BY <1>1, <1>2, <1>6, <1>9, <2>1, <2>2, CapacityAssumption
<1>11. pr.found \in SUBSET Ids /\ \A id \in pr.found : pr.disk[id] # None
  BY <1>1, <1>5, <1>6
<1>12. pr.found \cap (torn \cup pr.stuck) = {}
  BY <1>1, <1>4, <1>6
<1> QED
  BY <1>7, <1>8, <1>10, <1>11, <1>12 DEF Store

(* What is left after a prune that completes. *)
LEMMA StorePruned ==
    ASSUME IInv, SInv
    PROVE  /\ Store(Pruned.disk, Pruned.order, pending_v1, Pruned.v2, torn, Pruned.stuck,
                    Pruned.found)
           /\ Pruned.order \in Seq(Entries) /\ Len(Pruned.order) \in Nat
           /\ Pruned.disk \in [Ids -> Files \cup {None}]
           /\ Pruned.v2 \in [Ids -> Requests \cup {None}]
           /\ pending_v1 \in [Ids -> Senders \cup {None}]
           /\ len(Pruned) = Len(Pruned.order) + Count(pending_v1) + Count(Pruned.v2)
<1>1. Store(Pruned.disk, Pruned.order, pending_v1, Pruned.v2, torn, Pruned.stuck, Pruned.found)
  BY StoreStops, PruneStops DEF IInv
<1>2. PruneTypes(Pruned)
  BY PruneFacts DEF IInv
<1>3. len(Pruned) = Len(Pruned.order) + Count(pending_v1) + Count(Pruned.v2)
  BY DEF len, Count
<1> QED
  BY <1>1, <1>2, <1>3 DEF IInv, TypeInv, PruneTypes, Remaining

(* A message is stored, entered last, and its readers told. *)
LEMMA StorePosts ==
    ASSUME NEW dsk \in [Ids -> Files \cup {None}], NEW order \in Seq(Entries), NEW v1,
           NEW v2 \in [Ids -> Requests \cup {None}], NEW tn, NEW st, NEW fd,
           Store(dsk, order, v1, v2, tn, st, fd),
           Len(order) + Count(v1) + Count(v2) < Capacity,
           NEW id \in Ids, NEW created \in Int, NEW p \in Payloads,
           dsk[id] # None => dsk[id] = [created |-> created, payload |-> p]
    PROVE  Store([dsk EXCEPT ![id] = [created |-> created, payload |-> p]],
                 Append(order, [created |-> created, id |-> id]),
                 v1, [v2 EXCEPT ![id] = None], tn \ {id}, st \ {id}, fd)
<1> DEFINE file == [created |-> created, payload |-> p]
           entry == [created |-> created, id |-> id]
           esk == [dsk EXCEPT ![id] = file]
           longer == Append(order, entry)
           w2 == [v2 EXCEPT ![id] = None]
<1>1. entry \in Entries /\ file.created = created
  BY DEF Entries
<1>2. /\ Len(longer) = Len(order) + 1 /\ Len(order) \in Nat
      /\ DOMAIN longer = 1..(Len(order) + 1) /\ DOMAIN order = 1..Len(order)
      /\ longer[Len(order) + 1] = entry
      /\ \A i \in 1..Len(order) : longer[i] = order[i]
  BY <1>1
<1>3. esk[id] = file /\ \A i \in Ids : i # id => esk[i] = dsk[i]
  OBVIOUS
<1>4. w2[id] = None /\ \A i \in Ids : i # id => w2[i] = v2[i]
  OBVIOUS
<1>5. Count(w2) <= Count(v2) /\ Count(w2) \in Nat /\ Count(v2) \in Nat /\ Count(v1) \in Nat
  BY <1>4, CountFacts
<1>6. entry = [created |-> esk[id].created, id |-> id]
  BY <1>1, <1>3
<1> HIDE DEF file, entry, esk, longer, w2
<1>7. InOrder(esk, longer, (tn \ {id}) \cup (st \ {id}))
  <2> SUFFICES ASSUME NEW i \in Ids \ ((tn \ {id}) \cup (st \ {id})), esk[i] # None
               PROVE  \E k \in DOMAIN longer : longer[k] = [created |-> esk[i].created, id |-> i]
    BY DEF InOrder
  <2>1. CASE i = id
    <3>1. Len(order) + 1 \in DOMAIN longer
      BY <1>2
    <3> QED
      BY <1>2, <1>6, <2>1, <3>1
  <2>2. CASE i # id
    <3>1. PICK k \in 1..Len(order) : order[k] = [created |-> dsk[i].created, id |-> i]
      BY <1>2, <1>3, <2>2 DEF Store, InOrder
    <3>2. k \in DOMAIN longer /\ longer[k] = order[k]
      BY <1>2
    <3> QED
      BY <1>3, <2>2, <3>1, <3>2
  <2> QED
    BY <2>1, <2>2
<1>8. \A i \in Ids \ (tn \ {id}) : esk[i] # None => w2[i] = None
  BY <1>3, <1>4 DEF Store
<1>9. Len(longer) + Count(v1) + Count(w2) <= Capacity + Cardinality(fd)
  <2>1. Cardinality(fd) \in Nat
    BY IdSets DEF Store
  <2> QED
    BY <1>2, <1>5, <2>1, CapacityAssumption
<1>a. fd \in SUBSET Ids /\ (\A i \in fd : esk[i] # None)
      /\ fd \cap ((tn \ {id}) \cup (st \ {id})) = {}
  <2>1. \A i \in fd : esk[i] = dsk[i]
    BY <1>3 DEF Store, file
  <2> QED
    BY <2>1 DEF Store
<1>10. Store(esk, longer, v1, w2, tn \ {id}, st \ {id}, fd)
  BY <1>7, <1>8, <1>9, <1>a DEF Store
<1> QED
  BY <1>10 DEF file, entry, esk, longer, w2

(* One entry is added where there is no file. *)
LEMMA StoreAdds ==
    ASSUME NEW dsk, NEW order, NEW v1, NEW v2, NEW tn, NEW st, NEW fd,
           Store(dsk, order, v1, v2, tn, st, fd), Len(order) \in Nat,
           Len(order) + Count(v1) + Count(v2) < Capacity, NEW id \in Ids, NEW w1, NEW w2,
           \A i \in Ids \ {id} : w1[i] = v1[i] /\ w2[i] = v2[i],
           \/ w2[id] = None
           \/ w1[id] = v1[id] /\ dsk[id] = None
    PROVE  Store(dsk, order, w1, w2, tn, st, fd)
<1>0. Cardinality(fd) \in Nat
  BY IdSets DEF Store
<1>1. /\ Count(w1) \in Nat /\ Count(v1) \in Nat /\ Count(w2) \in Nat /\ Count(v2) \in Nat
      /\ Count(w1) <= Count(v1) + 1 /\ Count(w2) <= Count(v2) + 1
  BY CountFacts
<1>2. CASE w2[id] = None
  <2>1. Count(w2) <= Count(v2)
    <3>1. \A i \in Ids : w2[i] # None => v2[i] # None
      BY <1>2
    <3> QED
      BY <3>1, CountFacts
  <2>2. \A i \in Ids \ tn : dsk[i] # None => w2[i] = None
    BY <1>2 DEF Store
  <2>3. Len(order) + Count(w1) + Count(w2) <= Capacity + Cardinality(fd)
    BY <1>0, <1>1, <2>1, CapacityAssumption
  <2> QED
    BY <2>2, <2>3 DEF Store
<1>3. CASE w1[id] = v1[id] /\ dsk[id] = None
  <2>1. Count(w1) <= Count(v1)
    <3>1. \A i \in Ids : w1[i] # None => v1[i] # None
      BY <1>3
    <3> QED
      BY <3>1, CountFacts
  <2>2. \A i \in Ids \ tn : dsk[i] # None => w2[i] = None
    BY <1>3 DEF Store
  <2>3. Len(order) + Count(w1) + Count(w2) <= Capacity + Cardinality(fd)
    BY <1>0, <1>1, <2>1, CapacityAssumption
  <2> QED
    BY <2>2, <2>3 DEF Store
<1> QED
  BY <1>2, <1>3

(* Every step keeps the second part. *)
LEMMA NextStore == IInv /\ SInv /\ [Next]_vars => SInv'
<1> SUFFICES ASSUME IInv, SInv, [Next]_vars
             PROVE  SInv'
  OBVIOUS
<1>0. TypeInv
  BY DEF IInv
<1> DEFINE pr == Pruned
<1>1. /\ Store(pr.disk, pr.order, pending_v1, pr.v2, torn, pr.stuck, pr.found)
      /\ pr.order \in Seq(Entries) /\ Len(pr.order) \in Nat
      /\ pr.disk \in [Ids -> Files \cup {None}] /\ pr.v2 \in [Ids -> Requests \cup {None}]
      /\ pending_v1 \in [Ids -> Senders \cup {None}]
      /\ has_capacity(pr) => Len(pr.order) + Count(pending_v1) + Count(pr.v2) < Capacity
  BY StorePruned DEF has_capacity
<1>2. ASSUME NEW n, NEW m, Halfway(n, m), Keep(PrunedTo(n, m)), UNCHANGED <<pending_v1, torn>>
      PROVE  SInv'
  <2> DEFINE st == PrunedTo(n, m)
  <2>1. Store(st.disk, st.order, pending_v1, st.v2, torn, st.stuck, st.found)
    BY <1>2, StoreStops
  <2> HIDE DEF st
  <2>2. /\ disk' = st.disk /\ insert_order' = st.order /\ pending_v2' = st.v2
        /\ stuck' = st.stuck /\ found' = st.found
    BY <1>2 DEF Keep, st
  <2> QED
    BY <1>2, <2>1, <2>2 DEF SInv, Store, InOrder, Count
<1>3. ASSUME NEW r \in Requests, NEW id \in Ids, NEW result, Refuse(r, id, pr, result)
      PROVE  SInv'
  BY <1>0, <1>2, <1>3, PruneStops DEF Refuse
<1>4. ASSUME UNCHANGED <<disk, insert_order, torn, stuck, found>>,
             \A id \in Ids : /\ pending_v1'[id] # None => pending_v1[id] # None
                             /\ pending_v2'[id] # None => pending_v2[id] # None
      PROVE  SInv'
  <2>1. Len(insert_order) \in Nat
    BY <1>0 DEF TypeInv
  <2>2. Store(disk, insert_order, pending_v1', pending_v2', torn, stuck, found)
    BY <1>4, <2>1, StoreShrinks DEF SInv
  <2> QED
    BY <1>4, <2>2 DEF SInv, Store, InOrder, Count
<1>5. ASSUME NEW r \in Requests, NEW id \in Ids, NEW p \in Payloads, post_v2(r, id, p)
      PROVE  SInv'
  <2> DEFINE created == try_insert(pr.disk, id, p)
  <2>1. CASE \E result : Refuse(r, id, pr, result)
    BY <1>3, <2>1
  <2>2. CASE /\ has_capacity(pr) /\ created # None
             /\ disk' = [pr.disk EXCEPT ![id] = [created |-> created, payload |-> p]]
             /\ insert_order' = Append(pr.order, [created |-> created, id |-> id])
             /\ Notify(pr, id, p) /\ UNCHANGED pending_v1
             /\ torn' = torn \ {id} /\ stuck' = pr.stuck \ {id} /\ found' = pr.found
    <3>1. created \in Int
      BY <1>0, <1>1, <2>2 DEF try_insert, TypeInv, Files
    <3>2. pr.disk[id] # None => pr.disk[id] = [created |-> created, payload |-> p]
      <4>1. pr.disk[id] # None => /\ created = pr.disk[id].created /\ pr.disk[id].payload = p
                                 /\ pr.disk[id] \in Files
        BY <1>1, <2>2 DEF try_insert
      <4> HIDE DEF created, pr
      <4> QED
        BY <4>1 DEF Files
    <3> HIDE DEF created, pr
    <3>3. pending_v2' = [pr.v2 EXCEPT ![id] = None]
      BY <2>2 DEF Notify
    <3>4. Store(disk', insert_order', pending_v1, pending_v2', torn', stuck', found')
      BY <1>1, <2>2, <3>1, <3>2, <3>3, StorePosts
    <3> QED
      BY <2>2, <3>4 DEF SInv, Store, InOrder, Count
  <2> QED
    BY <1>5, <2>1, <2>2 DEF post_v2
<1>6. ASSUME NEW r \in Requests, NEW id \in Ids, wait_for_v2_payload(r, id)
      PROVE  SInv'
  <2>1. CASE read(r, id)
    <3>1. \A i \in Ids : pending_v1'[i] # None => pending_v1[i] # None
      BY <1>0, <2>1 DEF read, Unread, TypeInv
    <3> QED
      BY <1>4, <2>1, <3>1 DEF read
  <2>a. CASE read_stopped(r, id)
    BY <1>4, <2>a DEF read_stopped
  <2>2. CASE wait_v2(r, id) /\ ~Populated(id)
    <3>1. CASE \E result : Refuse(r, id, pr, result)
      BY <1>3, <3>1
    <3>2. CASE /\ has_capacity(pr)
               /\ \E c : pending_v2' = [pr.v2 EXCEPT ![id] = c]
               /\ disk' = pr.disk /\ insert_order' = pr.order /\ UNCHANGED <<pending_v1, torn>>
               /\ stuck' = pr.stuck /\ found' = pr.found
      <4>1. \A i \in Ids \ {id} : pending_v2'[i] = pr.v2[i]
        BY <1>1, <3>2
      <4>2. pr.disk[id] = None
        BY <1>0, <2>2, PruneFacts DEF Populated
      <4>3. Store(pr.disk, pr.order, pending_v1, pending_v2', torn, pr.stuck, pr.found)
        BY <1>1, <3>2, <4>1, <4>2, StoreAdds
      <4> QED
        BY <3>2, <4>3 DEF SInv, Store, InOrder, Count
    <3> QED
      BY <2>2, <3>1, <3>2 DEF wait_v2
  <2> QED
    BY <1>6, <2>1, <2>a, <2>2 DEF wait_for_v2_payload
<1>7. ASSUME NEW r \in Requests, NEW id \in Ids, post_v1_req_and_wait(r, id)
      PROVE  SInv'
  <2>1. CASE Refuse(r, id, pr, "over_capacity")
    BY <1>3, <2>1
  <2>2. CASE /\ has_capacity(pr) /\ Notify(pr, id, r)
             /\ \A i \in Ids \ {id} : pending_v1'[i] = pending_v1[i]
             /\ disk' = pr.disk /\ insert_order' = pr.order
             /\ stuck' = pr.stuck /\ found' = pr.found /\ UNCHANGED torn
    <3>1. pending_v2'[id] = None /\ \A i \in Ids \ {id} : pending_v2'[i] = pr.v2[i]
      BY <1>1, <2>2 DEF Notify
    <3>2. Store(pr.disk, pr.order, pending_v1', pending_v2', torn, pr.stuck, pr.found)
      BY <1>1, <2>2, <3>1, StoreAdds
    <3> QED
      BY <2>2, <3>2 DEF SInv, Store, InOrder, Count
  <2> QED
    BY <1>1, <1>7, <2>1, <2>2 DEF post_v1_req_and_wait
<1>8. ASSUME NEW r \in Requests, NEW id \in Ids, post_v1_res(r, id)
      PROVE  SInv'
  <2>1. \A i \in Ids : pending_v1'[i] # None => pending_v1[i] # None
    BY <1>0, <1>8 DEF post_v1_res, TypeInv
  <2> QED
    BY <1>4, <1>8, <2>1 DEF post_v1_res
<1>9. ASSUME NEW r \in Requests, Continue(r)
      PROVE  SInv'
  <2>1. CASE reader_wait_over(r) \/ sender_wait_over(r)
    BY <1>4, <2>1 DEF reader_wait_over, sender_wait_over, WaitOver
  <2>2. CASE maybe_cleanup_v2_waitmap(r)
    <3>1. \A i \in Ids : pending_v2'[i] # None => pending_v2[i] # None
      BY <1>0, <2>2 DEF maybe_cleanup_v2_waitmap, TypeInv
    <3> QED
      BY <1>4, <2>2, <3>1 DEF maybe_cleanup_v2_waitmap
  <2>3. CASE remove_pending_v1(r)
    <3>1. \A i \in Ids : pending_v1'[i] # None => pending_v1[i] # None
      BY <1>0, <2>3 DEF remove_pending_v1, TypeInv
    <3> QED
      BY <1>4, <2>3, <3>1 DEF remove_pending_v1
  <2> QED
    BY <1>9, <2>1, <2>2, <2>3 DEF Continue
<1>a. ASSUME NEW r \in Requests, NEW id \in Ids, NEW p \in Payloads, post_v2_stopped(r, id, p)
      PROVE  SInv'
  <2>1. PICK linked \in BOOLEAN :
           /\ disk' = IF linked
                      THEN [pr.disk EXCEPT ![id] = [created |-> now, payload |-> p]]
                      ELSE pr.disk
           /\ torn' = IF linked THEN torn \cup {id} ELSE torn
    BY <1>a DEF post_v2_stopped
  <2>2. /\ pr.disk[id] = None /\ insert_order' = pr.order /\ pending_v2' = pr.v2
        /\ stuck' = pr.stuck /\ found' = pr.found /\ UNCHANGED pending_v1
    BY <1>a DEF post_v2_stopped
  <2> HIDE DEF pr
  <2>3. CASE ~linked
    BY <1>1, <2>1, <2>2, <2>3 DEF SInv, Store, InOrder, Count
  <2>4. CASE linked
    <3> DEFINE file == [created |-> now, payload |-> p]
    <3>0. disk' = [pr.disk EXCEPT ![id] = file] /\ torn' = torn \cup {id}
      BY <2>1, <2>4
    <3> HIDE DEF file
    <3>1. id \notin pr.found
      BY <1>1, <2>2 DEF Store
    <3>2. \A i \in Ids : i # id => disk'[i] = pr.disk[i]
      BY <1>1, <3>0
    <3>3. InOrder(disk', pr.order, torn' \cup pr.stuck)
      BY <1>1, <3>0, <3>2 DEF Store, InOrder
    <3>4. \A i \in Ids \ torn' : disk'[i] # None => pr.v2[i] = None
      BY <1>1, <3>0, <3>2 DEF Store
    <3>5. pr.found \in SUBSET Ids /\ (\A i \in pr.found : disk'[i] # None)
          /\ pr.found \cap (torn' \cup pr.stuck) = {}
      BY <1>1, <3>0, <3>1, <3>2 DEF Store
    <3>6. Store(disk', pr.order, pending_v1, pr.v2, torn', pr.stuck, pr.found)
      BY <1>1, <3>3, <3>4, <3>5 DEF Store
    <3> QED
      BY <2>2, <3>6 DEF SInv, Store, InOrder, Count
  <2> QED
    BY <2>3, <2>4
<1>b. ASSUME NEW r \in Requests, NEW id \in Ids,
             post_v2_unread(r, id) \/ has_capacity_stopped(r, id)
      PROVE  SInv'
  <2>1. CASE post_v2_unread(r, id)
    BY <1>3, <2>1 DEF post_v2_unread
  <2>2. CASE has_capacity_stopped(r, id)
    <3>1. PICK f \in Failures : \E q \in Stopped(f.fault) : Refuse(r, id, q, f.result)
      BY <2>2 DEF has_capacity_stopped
    <3>2. PICK q \in Stopped(f.fault) : Refuse(r, id, q, f.result)
      BY <3>1
    <3>3. PICK n, m : Halfway(n, m) /\ q = PrunedTo(n, m)
      BY <1>0, <3>2, PruneStops
    <3> QED
      BY <1>2, <3>2, <3>3 DEF Refuse
  <2> QED
    BY <1>b, <2>1, <2>2
<1>c. ASSUME NEW r \in Requests, Disconnect(r)
      PROVE  SInv'
  BY <1>4, <1>c DEF Disconnect
<1>10. ASSUME NEW r \in Requests, Arrive(r) \/ Continue(r) \/ Disconnect(r)
       PROVE  SInv'
  BY <1>5, <1>6, <1>7, <1>8, <1>9, <1>10, <1>a, <1>b, <1>c DEF Arrive
<1>11. CASE prune \/ prune_failed
  <2>1. PICK q : Keep(q) /\ \E n, m : Halfway(n, m) /\ q = PrunedTo(n, m)
    BY <1>0, <1>11, PruneStops DEF prune, prune_failed
  <2>2. UNCHANGED <<pending_v1, torn>>
    BY <1>11 DEF prune, prune_failed
  <2> QED
    BY <1>2, <2>1, <2>2
<1>12. CASE Tick \/ UNCHANGED vars
  BY <1>4, <1>12 DEF Tick, vars
<1>13. CASE Restart
  <2>1. PICK order \in [1..Cardinality(FileEntries) -> FileEntries] :
           SortedFiles(order) /\ insert_order' = order
    BY <1>13 DEF Restart
  <2> DEFINE S == {i \in Ids : Populated(i)}
             T == {i \in torn \cup stuck : Populated(i)}
             n == Len(insert_order)
             K == {i \in 1..n : insert_order[i].id \in S \ T}
             f == [i \in K |-> insert_order[i].id]
  <2>2. n \in Nat /\ IsFiniteSet(1..n) /\ Cardinality(1..n) = n /\ DOMAIN insert_order = 1..n
    <3>1. n \in Nat /\ DOMAIN insert_order = 1..n
      BY <1>0 DEF TypeInv
    <3>2. \A k \in Nat : IsFiniteSet(1..k) /\ Cardinality(1..k) = k
      BY FS_Interval
    <3> QED
      BY <3>1, <3>2
  <2>3. IsFiniteSet(K) /\ Cardinality(K) <= n /\ Cardinality(K) \in Nat
    <3>1. K \subseteq 1..n
      OBVIOUS
    <3> QED
      BY <2>2, <3>1, FS_Subset, FS_CardinalityType
  <2>4. f \in Surjection(K, S \ T)
    <3>1. \A id \in S \ T : \E i \in K : f[i] = id
      <4> SUFFICES ASSUME NEW id \in S \ T
                   PROVE  \E i \in K : f[i] = id
        OBVIOUS
      <4>1. PICK i \in 1..n : insert_order[i] = [created |-> disk[id].created, id |-> id]
        BY <2>2 DEF SInv, Store, InOrder, Populated
      <4>2. insert_order[i].id = id
        BY <4>1
      <4> QED
        BY <4>2
    <3>2. f \in [K -> S \ T]
      OBVIOUS
    <3> HIDE DEF K, S, T, f
    <3> QED
      BY <3>1, <3>2 DEF Surjection
  <2>5. T \subseteq S /\ S \in SUBSET Ids /\ T \in SUBSET Ids /\ found \in SUBSET Ids
        /\ found \cap T = {} /\ found \subseteq S
    BY <1>0 DEF TypeInv, SInv, Store, Populated
  <2>6. Len(insert_order') = Cardinality(S) /\ found' = found \cup T
        /\ torn' = {} /\ stuck' = {}
    BY <1>13, <2>1 DEF SortedFiles, Restart
  <2>7. /\ pending_v1' = [id \in Ids |-> None] /\ pending_v2' = [id \in Ids |-> None]
        /\ UNCHANGED disk
    BY <1>13 DEF Restart
  <2>8. Count(pending_v1') = 0 /\ Count(pending_v2') = 0
    <3>1. {id \in Ids : pending_v1'[id] # None} = {} /\ {id \in Ids : pending_v2'[id] # None} = {}
      BY <2>7
    <3> QED
      BY <3>1, FS_EmptySet DEF Count
  <2>a. \A id \in S : disk[id] # None
    BY DEF Populated
  <2>9. n <= Capacity + Cardinality(found)
    <3>1. n + Count(pending_v1) + Count(pending_v2) <= Capacity + Cardinality(found)
      BY DEF SInv, Store
    <3>2. Cardinality(found) \in Nat
      BY <2>5, IdSets
    <3> QED
      BY <2>2, <3>1, <3>2, CountFacts, CapacityAssumption
  <2>10. InOrder(disk', insert_order', {})
    BY <2>1, <2>7 DEF SortedFiles, InOrder, Populated
  <2> HIDE DEF S, T, K, f, n
  <2>11. Cardinality(S) <= Capacity + Cardinality(found \cup T)
    <3>1. Cardinality(S \ T) <= n
      <4>1. Cardinality(S \ T) <= Cardinality(K)
        BY <2>3, <2>4, FS_Surjection
      <4>2. Cardinality(S \ T) \in Nat
        BY <2>5, IdSets
      <4> QED
        BY <2>2, <2>3, <4>1, <4>2
    <3>2. Cardinality(S \ T) = Cardinality(S) - Cardinality(T)
      <4>1. S \cap T = T /\ IsFiniteSet(S)
        BY <2>5, IdSets
      <4> QED
        BY <4>1, FS_Difference
    <3>3. Cardinality(found \cup T) = Cardinality(found) + Cardinality(T)
      <4>1. IsFiniteSet(found) /\ IsFiniteSet(T) /\ Cardinality(found \cap T) = 0
        BY <2>5, IdSets, FS_EmptySet
      <4>2. Cardinality(found) \in Nat /\ Cardinality(T) \in Nat
        BY <2>5, IdSets
      <4>3. Cardinality(found \cup T)
               = Cardinality(found) + Cardinality(T) - Cardinality(found \cap T)
        BY <4>1, FS_Union
      <4> QED
        BY <4>1, <4>2, <4>3
    <3>4. Cardinality(S) \in Nat /\ Cardinality(T) \in Nat /\ Cardinality(found) \in Nat
      BY <2>5, IdSets
    <3> QED
      BY <2>2, <2>9, <3>1, <3>2, <3>3, <3>4, CapacityAssumption
  <2>12. Len(insert_order') + Count(pending_v1') + Count(pending_v2')
            <= Capacity + Cardinality(found')
    <3>1. Cardinality(S) \in Nat
      BY <2>5, IdSets
    <3> QED
      BY <2>6, <2>8, <2>11, <3>1
  <2>13. found' \in SUBSET Ids /\ (\A id \in found' : disk'[id] # None)
         /\ found' \cap (torn' \cup stuck') = {}
    BY <2>5, <2>6, <2>7, <2>a
  <2>14. torn' \cup stuck' = {} /\ \A id \in Ids \ torn' : pending_v2'[id] = None
    BY <2>6, <2>7
  <2>15. Store(disk', insert_order', pending_v1', pending_v2', torn', stuck', found')
    BY <2>10, <2>12, <2>13, <2>14 DEF Store
  <2> QED
    BY <2>15 DEF SInv, Store, InOrder, Count
<1> QED
  BY <1>10, <1>11, <1>12, <1>13 DEF Next

(* The store starts empty. *)
LEMMA InitStore == Init => SInv
<1> SUFFICES ASSUME Init
             PROVE  SInv
  OBVIOUS
<1>1. /\ disk = [id \in Ids |-> None] /\ insert_order = <<>>
      /\ pending_v1 = [id \in Ids |-> None] /\ pending_v2 = [id \in Ids |-> None]
      /\ torn = {} /\ stuck = {} /\ found = {}
  BY DEF Init
<1>2. Count(pending_v1) = 0 /\ Count(pending_v2) = 0
  <2>1. {id \in Ids : pending_v1[id] # None} = {} /\ {id \in Ids : pending_v2[id] # None} = {}
    BY <1>1
  <2> QED
    BY <2>1, FS_EmptySet DEF Count
<1> QED
  BY <1>1, <1>2, CapacityAssumption, FS_EmptySet DEF SInv, Store, InOrder

(* The second part holds in every reachable state. *)
LEMMA StoreInvariance == Spec => []SInv
BY InitStore, NextStore, Invariance, PTL DEF Spec

(* A message that is stored has been handed to everyone who was waiting for  *)
(* it, unless its post stopped after the link and it was not posted again.   *)
THEOREM WakeupsKept == Spec => []NoLostWakeup
<1>1. SInv => NoLostWakeup
  BY StoreMeans
<1> QED
  BY <1>1, StoreInvariance, PTL

(* Every file is in the order prune goes by, after a restart too, unless a   *)
(* write or a removal of it stopped half way since the process started.      *)
THEOREM FilesFound == Spec => []FilesTracked
<1>1. SInv => FilesTracked
  BY StoreMeans
<1> QED
  BY <1>1, StoreInvariance, PTL

(* Files, readers and senders together are within the capacity, but for the  *)
(* files left half way that a restart found: it counts each other file it    *)
(* finds once, which was counted before.                                     *)
THEOREM CapacityKept == Spec => []WithinCapacity
<1>1. SInv => WithinCapacity
  BY StoreMeans
<1> QED
  BY <1>1, StoreInvariance, PTL

-----------------------------------------------------------------------------
(* The content of a mailbox *)

(* A file that is not pruned is not replaced. *)
LEMMA ContentKept ==
    ASSUME IInv, Next, NEW id \in Ids, disk'[id] \notin {None, disk[id]}
    PROVE  Pruned.disk[id] = None
<1>0. TypeInv
  BY DEF IInv
<1>1. SUFFICES ASSUME Pruned.disk[id] # None PROVE FALSE
  OBVIOUS
<1>2. Pruned.disk[id] = disk[id] /\ Pruned.disk \in [Ids -> Files \cup {None}]
      /\ disk[id] \in Files
  BY <1>0, <1>1, PruneFacts DEF PruneTypes
<1>3. disk' # Pruned.disk /\ disk' # disk
      /\ \A fault : \A pr \in Stopped(fault) : disk' # pr.disk
  BY <1>0, <1>2, PruneFacts
<1>4. ASSUME NEW r \in Requests, NEW i \in Ids, NEW p \in Payloads, post_v2(r, i, p)
      PROVE  FALSE
  <2> DEFINE created == try_insert(Pruned.disk, i, p)
  <2>1. /\ created # None
        /\ disk' = [Pruned.disk EXCEPT ![i] = [created |-> created, payload |-> p]]
    BY <1>3, <1>4 DEF post_v2, Refuse, Keep
  <2>2. i = id
    BY <1>2, <2>1
  <2>3. created = disk[id].created /\ disk[id].payload = p
    BY <1>1, <1>2, <2>1, <2>2 DEF try_insert
  <2>4. disk'[id] = [created |-> disk[id].created, payload |-> disk[id].payload]
    BY <1>2, <2>1, <2>2, <2>3
  <2>5. disk[id] = [created |-> disk[id].created, payload |-> disk[id].payload]
    BY <1>2 DEF Files
  <2> QED
    BY <2>4, <2>5
<1>5. ASSUME NEW r \in Requests, NEW i \in Ids, NEW p \in Payloads, post_v2_stopped(r, i, p)
      PROVE  FALSE
  <2>1. Pruned.disk[i] = None /\ (disk' = Pruned.disk \/ \E x : disk' = [Pruned.disk EXCEPT ![i] = x])
    BY <1>5 DEF post_v2_stopped
  <2> QED
    BY <1>1, <1>2, <1>3, <2>1
<1>6. ASSUME NEW r \in Requests, NEW i \in Ids,
             \/ post_v2_unread(r, i) \/ has_capacity_stopped(r, i) \/ wait_for_v2_payload(r, i)
             \/ post_v1_req_and_wait(r, i) \/ post_v1_res(r, i)
      PROVE  FALSE
  BY <1>3, <1>6 DEF post_v2_unread, has_capacity_stopped, wait_for_v2_payload, read,
                    read_stopped, wait_v2, Refuse, Keep, post_v1_req_and_wait, post_v1_res
<1>7. ASSUME NEW r \in Requests, Continue(r) \/ Disconnect(r) PROVE FALSE
  BY <1>3, <1>7 DEF Continue, reader_wait_over, sender_wait_over, WaitOver,
                    maybe_cleanup_v2_waitmap, remove_pending_v1, Disconnect
<1>8. CASE prune \/ prune_failed \/ Tick \/ Restart
  BY <1>3, <1>8 DEF prune, prune_failed, Keep, Tick, Restart
<1> QED
  BY <1>4, <1>5, <1>6, <1>7, <1>8 DEF Next, Arrive

(* First writer wins, whatever faults happen: the content of a mailbox is    *)
(* replaced only after prune has removed it for an entry whose time is over. *)
THEOREM NoOverwriting == Spec => FirstWriterWins
<1> DEFINE Kept == \A id \in Ids : Populated(id) /\ disk'[id] \notin {None, disk[id]} =>
                      \E i \in DOMAIN insert_order :
                          insert_order[i].id = id /\ Expired(insert_order[i])
<1>1. IInv /\ [Next]_vars => [Kept]_vars
  <2> SUFFICES ASSUME IInv, Next, NEW id \in Ids, Populated(id),
                      disk'[id] \notin {None, disk[id]}
               PROVE  \E i \in DOMAIN insert_order :
                         insert_order[i].id = id /\ Expired(insert_order[i])
    OBVIOUS
  <2>1. Pruned.disk[id] # disk[id]
    BY ContentKept DEF Populated
  <2> QED
    BY <2>1, PruneFacts DEF IInv
<1> QED
  BY <1>1, Invariance, PTL DEF Spec, FirstWriterWins
=============================================================================
