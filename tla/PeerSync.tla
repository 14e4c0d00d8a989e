------------------------------ MODULE PeerSync ------------------------------
(***************************************************************************)
(* The heartbeat registry of controller/peer_sync.py and the nodes that    *)
(* sign heartbeats for it.  The transport is whatever carries them: a      *)
(* heartbeat may be lost, duplicated, delayed, reordered or garbled.  The  *)
(* registry is in memory and forgets everything when its process ends; it  *)
(* starts no loop, its callers receive and sweep at clock readings of      *)
(* their own, and the clock may be set back.                               *)
(*                                                                         *)
(* A signature is good for exactly the content some node signed with that  *)
(* key.  Schema, capabilities and reported state of a heartbeat decide     *)
(* nothing beyond its validity and are left out.                           *)
(***************************************************************************)
EXTENDS Integers, FiniteSets

CONSTANTS
  Peer, Key,
  Owner,             \* trusted_keys: the peer a key is bound to, or Nobody
  Node,              \* pairs of peer id and key that nodes are set up with
  Nobody,
  MaxAge, MaxSkew,   \* max_age_seconds and max_future_skew_seconds
  Drift,             \* by how much a node's clock may differ
  MaxSeq, MaxTime,   \* bounds of the numbers and of the clock
  MaxSent            \* bound of the heartbeats in one behaviour

ASSUME PSAssumption ==
  /\ Nobody \notin Peer
  /\ Owner \in [Key -> Peer \cup {Nobody}]
  /\ Node \subseteq Peer \X Key
  /\ MaxAge \in Nat /\ MaxSkew \in Nat /\ Drift \subseteq Int
  /\ MaxSeq \in Nat /\ MaxTime \in Nat /\ MaxSent \in Nat

VARIABLES
  now,          \* what time.time() returns to the registry's caller
  next,         \* the number each node gives its next heartbeat
  sent,         \* the heartbeats that were ever signed
  last,         \* _last_sequence
  shown,        \* _states: the standing of a peer
  acceptedAt,   \* _accepted_at
  taken         \* history: how often the registry has used each number

sender == <<next, sent>>
registry == <<last, shown, acceptedAt, taken>>
vars == <<now, sender, registry>>

Seqs == 1 .. MaxSeq
(* Whatever may arrive, signed by somebody or not. *)
Arrival == [peer : Peer, key : Key, seq : Seqs,
            stamp : {t + d : t \in 0 .. MaxTime, d \in Drift}]

NoNumber == [p \in Peer |-> 0]
NobodyKnown == [p \in Peer |-> "UNKNOWN"]
NothingTaken == [p \in Peer |-> [n \in Seqs |-> 0]]

Init ==
  /\ now = 0
  /\ next = [c \in Node |-> 1] /\ sent = {}
  /\ last = NoNumber /\ shown = NobodyKnown
  /\ acceptedAt = NoNumber /\ taken = NothingTaken

-----------------------------------------------------------------------------
(* The signature covers every field but itself, so a heartbeat is what was *)
(* signed.                                                                 *)
Heartbeat(c, d) == [peer |-> c[1], key |-> c[2], seq |-> next[c], stamp |-> now + d]

(* create_heartbeat, called by a node with its own clock and number.       *)
Send(c) ==
  /\ next[c] \in Seqs /\ Cardinality(sent) < MaxSent
  /\ \E d \in Drift : sent' = sent \cup {Heartbeat(c, d)}
  /\ next' = [next EXCEPT ![c] = @ + 1]
  /\ UNCHANGED <<now, registry>>

(* A node that keeps no state starts counting again. *)
NodeRestarts(c) ==
  /\ next' = [next EXCEPT ![c] = 1]
  /\ UNCHANGED <<now, sent, registry>>

SetClock(t) ==
  /\ now' = t
  /\ UNCHANGED <<sender, registry>>

-----------------------------------------------------------------------------
Bound(m) == Owner[m.key] = m.peer

Authentic(m) == Bound(m) /\ m \in sent

Age(m) == now - m.stamp

TooEarly(m) == Age(m) < - MaxSkew

(* Variant: the same number again is not a replay. *)
NotOlder(m) == m.seq >= last[m.peer]

Increasing(m) == m.seq > last[m.peer]

(* Variant: no freshness window. *)
NeverStale(m) == "ALIVE_VERIFIED"

Standing(m) == IF Age(m) > MaxAge THEN "STALE" ELSE "ALIVE_VERIFIED"

(* receive and receive_and_track, for any message that arrives, authentic  *)
(* or not.  One that is refused changes nothing and is left out.           *)
Receive(m) ==
  /\ Authentic(m) /\ ~ TooEarly(m) /\ Increasing(m)
  /\ last' = [last EXCEPT ![m.peer] = m.seq]
  /\ taken' = [taken EXCEPT ![m.peer][m.seq] = @ + 1]
  /\ shown' = [shown EXCEPT ![m.peer] = Standing(m)]
  /\ acceptedAt' = IF Standing(m) = "ALIVE_VERIFIED"
                   THEN [acceptedAt EXCEPT ![m.peer] = now] ELSE acceptedAt
  /\ UNCHANGED <<now, sender>>

Expired(p) == now - acceptedAt[p] > MaxAge

(* mark_unseen_stale, called on demand. *)
Sweep ==
  /\ shown' = [p \in Peer |->
       IF shown[p] = "ALIVE_VERIFIED" /\ Expired(p) THEN "STALE" ELSE shown[p]]
  /\ UNCHANGED <<now, sender, last, acceptedAt, taken>>

(* The process ends and a new PeerRegistry is made. *)
RegistryRestarts ==
  /\ last' = NoNumber /\ shown' = NobodyKnown
  /\ acceptedAt' = NoNumber /\ taken' = NothingTaken
  /\ UNCHANGED <<now, sender>>

Next ==
  \/ \E c \in Node : Send(c) \/ NodeRestarts(c)
  \/ \E t \in 0 .. MaxTime : SetClock(t)
  \/ \E m \in Arrival : Receive(m)
  \/ Sweep
  \/ RegistryRestarts

Spec == Init /\ [][Next]_vars

-----------------------------------------------------------------------------
Standings == {"UNKNOWN", "ALIVE_VERIFIED", "STALE"}

TypeOK ==
  /\ now \in 0 .. MaxTime
  /\ next \in [Node -> 1 .. MaxSeq + 1] /\ sent \subseteq Arrival
  /\ last \in [Peer -> Nat] /\ shown \in [Peer -> Standings]
  /\ acceptedAt \in [Peer -> Int]
  /\ taken \in [Peer -> [Seqs -> Nat]]

(* docs/PEER-SYNC-MVP.md: "increasing per-peer sequence numbers for replay *)
(* rejection".  As long as its process lives, the registry uses a number   *)
(* of a peer once, however often the heartbeats arrive, in which order,    *)
(* and whatever the clock does in between.                                 *)
CountedOnce == \A p \in Peer : \A n \in Seqs : taken[p][n] <= 1

(* mark_unseen_stale: whoever is still shown alive after a sweep has, by   *)
(* the clocks' readings, signed a heartbeat within twice the window, and   *)
(* it is the newest of its heartbeats that the registry has used.          *)
AliveIsRecent ==
  [][Sweep => \A p \in Peer : shown'[p] = "ALIVE_VERIFIED" =>
       \E m \in sent :
         /\ m.peer = p /\ Owner[m.key] = p /\ m.seq = last[p]
         /\ now - m.stamp <= 2 * MaxAge]_vars
=============================================================================
