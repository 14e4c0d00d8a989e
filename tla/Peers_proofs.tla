----------------------------- MODULE Peers_proofs -----------------------------
(***************************************************************************)
(* Proofs about PeerSync and ObjectStore, for any peers, keys, nodes,      *)
(* clocks, objects, owners and stores.                                     *)
(*                                                                         *)
(* PeerSync.  The invariant relates what the registry remembers of a peer  *)
(* to the numbers it has used and to the heartbeats that were signed.      *)
(***************************************************************************)
EXTENDS PeerSync, ObjectStore, TLAPS

(* The numbers used are those up to the last one, each once. *)
NumbersUsed ==
  \A p \in Peer : \A n \in Seqs :
    /\ taken[p][n] <= 1
    /\ n > last[p] => taken[p][n] = 0

(* A peer shown alive signed its newest number, and in time. *)
SignedInTime(p) ==
  \E m \in sent :
    /\ m.peer = p /\ Owner[m.key] = p /\ m.seq = last[p]
    /\ acceptedAt[p] - m.stamp <= MaxAge

AliveIsSigned ==
  \A p \in Peer : shown[p] = "ALIVE_VERIFIED" => SignedInTime(p)

IInv == TypeOK /\ NumbersUsed /\ AliveIsSigned

(* What arrives has a peer, a key, a number and a whole number of seconds. *)
LEMMA ArrivalType ==
  ASSUME NEW m \in Arrival
  PROVE  m.peer \in Peer /\ m.key \in Key /\ m.seq \in Seqs /\ m.stamp \in Int
<1>1. \A t \in 0 .. MaxTime, d \in Drift : t + d \in Int
  BY PSAssumption
<1> QED BY <1>1 DEF Arrival

(* A new registry knows nobody and has used no number. *)
LEMMA Initial == Init => IInv
<1> SUFFICES ASSUME Init PROVE IInv
  OBVIOUS
<1> USE PSAssumption DEF Init, NoNumber, NobodyKnown, NothingTaken
<1>1. TypeOK
  BY DEF TypeOK, Standings
<1>2. NumbersUsed
  BY DEF NumbersUsed
<1>3. AliveIsSigned
  BY DEF AliveIsSigned
<1> QED BY <1>1, <1>2, <1>3 DEF IInv

(* Each action keeps every variable in its type. *)
LEMMA TypeStep == TypeOK /\ [Next]_vars => TypeOK'
<1> SUFFICES ASSUME TypeOK, [Next]_vars PROVE TypeOK'
  OBVIOUS
<1> USE PSAssumption DEF TypeOK
<1>1. ASSUME NEW c \in Node, Send(c) PROVE TypeOK'
  <2>1. PICK d \in Drift :
          sent' = sent \cup {[peer |-> c[1], key |-> c[2], seq |-> next[c],
                              stamp |-> now + d]}
    BY <1>1 DEF Send, Heartbeat
  <2>2. [peer |-> c[1], key |-> c[2], seq |-> next[c], stamp |-> now + d] \in Arrival
    <3>1. c[1] \in Peer /\ c[2] \in Key /\ next[c] \in Seqs
      BY <1>1 DEF Send
    <3>2. now + d \in {t + e : t \in 0 .. MaxTime, e \in Drift}
      OBVIOUS
    <3> QED BY <3>1, <3>2 DEF Arrival
  <2>3. sent' \subseteq Arrival
    BY <2>1, <2>2
  <2>4. next' \in [Node -> 1 .. MaxSeq + 1]
    BY <1>1 DEF Send, Heartbeat, Seqs
  <2> QED BY <1>1, <2>3, <2>4 DEF Send, registry
<1>2. ASSUME NEW c \in Node, NodeRestarts(c) PROVE TypeOK'
  BY <1>2 DEF NodeRestarts, registry
<1>3. ASSUME NEW t \in 0 .. MaxTime, SetClock(t) PROVE TypeOK'
  BY <1>3 DEF SetClock, sender, registry
<1>4. ASSUME NEW m \in Arrival, Receive(m) PROVE TypeOK'
  <2>1. m.peer \in Peer /\ m.seq \in Seqs
    BY ArrivalType
  <2>2. last' \in [Peer -> Nat] /\ shown' \in [Peer -> Standings]
    BY <1>4, <2>1 DEF Receive, Standing, Standings, Seqs
  <2>3. acceptedAt' \in [Peer -> Int]
    BY <1>4, <2>1 DEF Receive
  <2>4. taken' \in [Peer -> [Seqs -> Nat]]
    BY <1>4, <2>1 DEF Receive
  <2> QED BY <1>4, <2>2, <2>3, <2>4 DEF Receive, sender
<1>5. CASE Sweep
  BY <1>5 DEF Sweep, sender, Standings
<1>6. CASE RegistryRestarts
  BY <1>6 DEF RegistryRestarts, sender, NoNumber, NobodyKnown, NothingTaken, Standings
<1>7. CASE UNCHANGED vars
  BY <1>7 DEF vars, sender, registry
<1> QED BY <1>1, <1>2, <1>3, <1>4, <1>5, <1>6, <1>7 DEF Next

(* Only receive uses a number, a higher one than before. *)
LEMMA NumbersStep == IInv /\ [Next]_vars => NumbersUsed'
<1> SUFFICES ASSUME IInv, [Next]_vars PROVE NumbersUsed'
  OBVIOUS
<1> USE PSAssumption DEF IInv, TypeOK, NumbersUsed
<1>1. ASSUME UNCHANGED <<last, taken>> PROVE NumbersUsed'
  BY <1>1
<1>2. ASSUME NEW m \in Arrival, Receive(m) PROVE NumbersUsed'
  <2>1. m.peer \in Peer /\ m.seq \in Seqs
    BY ArrivalType
  <2>2. /\ m.seq > last[m.peer]
        /\ last' = [last EXCEPT ![m.peer] = m.seq]
        /\ taken' = [taken EXCEPT ![m.peer][m.seq] = @ + 1]
    BY <1>2 DEF Receive, Increasing
  <2> SUFFICES ASSUME NEW p \in Peer, NEW n \in Seqs
               PROVE  taken'[p][n] <= 1 /\ (n > last'[p] => taken'[p][n] = 0)
    OBVIOUS
  <2>3. taken[p][n] <= 1 /\ (n > last[p] => taken[p][n] = 0) /\ taken[p][n] \in Nat
    OBVIOUS
  <2>4. n \in Nat /\ m.seq \in Nat /\ last[p] \in Nat
    BY <2>1 DEF Seqs
  <2>5. CASE p = m.peer /\ n = m.seq
    BY <2>1, <2>2, <2>3, <2>4, <2>5
  <2>6. CASE p = m.peer /\ n # m.seq
    BY <2>1, <2>2, <2>3, <2>4, <2>6
  <2>7. CASE p # m.peer
    BY <2>1, <2>2, <2>3, <2>7
  <2> QED BY <2>5, <2>6, <2>7
<1>3. CASE RegistryRestarts
  BY <1>3 DEF RegistryRestarts, NoNumber, NothingTaken
<1> QED BY <1>1, <1>2, <1>3 DEF Next, Send, NodeRestarts, SetClock, Sweep, registry, vars

(* A peer becomes alive by a fresh heartbeat with its newest number; its   *)
(* standing changes with the number; and no heartbeat is ever unsigned.    *)
LEMMA AliveStep == IInv /\ [Next]_vars => AliveIsSigned'
<1> SUFFICES ASSUME IInv, [Next]_vars,
                    NEW p \in Peer, shown'[p] = "ALIVE_VERIFIED"
             PROVE  SignedInTime(p)'
  BY DEF AliveIsSigned
<1> USE PSAssumption DEF IInv, TypeOK
<1>1. ASSUME sent \subseteq sent', shown[p] = "ALIVE_VERIFIED",
             last'[p] = last[p], acceptedAt'[p] = acceptedAt[p]
      PROVE  SignedInTime(p)'
  BY <1>1 DEF AliveIsSigned, SignedInTime
<1>2. ASSUME NEW m \in Arrival, Receive(m) PROVE SignedInTime(p)'
  <2>1. m.peer \in Peer /\ m.seq \in Seqs /\ m.stamp \in Int
    BY ArrivalType
  <2>2. /\ last' = [last EXCEPT ![m.peer] = m.seq]
        /\ shown' = [shown EXCEPT ![m.peer] = Standing(m)]
        /\ acceptedAt' = IF Standing(m) = "ALIVE_VERIFIED"
                         THEN [acceptedAt EXCEPT ![m.peer] = now] ELSE acceptedAt
        /\ sent' = sent
    BY <1>2 DEF Receive, sender
  <2>3. CASE p = m.peer
    <3>1. Standing(m) = "ALIVE_VERIFIED"
      BY <2>1, <2>2, <2>3
    <3>2. now - m.stamp <= MaxAge
      BY <3>1, <2>1 DEF Standing, Age
    <3>3. acceptedAt'[p] = now /\ last'[p] = m.seq
      BY <3>1, <2>1, <2>2, <2>3
    <3>4. m \in sent /\ Owner[m.key] = p
      BY <1>2, <2>3 DEF Receive, Authentic, Bound
    <3> QED BY <3>2, <3>3, <3>4, <2>2, <2>3 DEF SignedInTime
  <2>4. CASE p # m.peer
    <3>1. shown[p] = "ALIVE_VERIFIED" /\ last'[p] = last[p]
          /\ acceptedAt'[p] = acceptedAt[p]
      BY <2>1, <2>2, <2>4
    <3> QED BY <1>1, <2>2, <3>1
  <2> QED BY <2>3, <2>4
<1>3. CASE RegistryRestarts
  BY <1>3 DEF RegistryRestarts, NobodyKnown
<1>4. CASE Sweep
  BY <1>1, <1>4 DEF Sweep, sender
<1>5. ASSUME NEW c \in Node, Send(c) PROVE SignedInTime(p)'
  BY <1>1, <1>5 DEF Send, registry
<1>6. ASSUME NEW c \in Node, NodeRestarts(c) PROVE SignedInTime(p)'
  BY <1>1, <1>6 DEF NodeRestarts, registry
<1>7. ASSUME NEW t \in 0 .. MaxTime, SetClock(t) PROVE SignedInTime(p)'
  BY <1>1, <1>7 DEF SetClock, sender, registry
<1>8. CASE UNCHANGED vars
  BY <1>1, <1>8 DEF vars, sender, registry
<1> QED BY <1>2, <1>3, <1>4, <1>5, <1>6, <1>7, <1>8 DEF Next

(* IInv holds throughout. *)
LEMMA Invariance == Spec => []IInv
<1>1. IInv /\ [Next]_vars => IInv'
  BY TypeStep, NumbersStep, AliveStep DEF IInv
<1> QED BY Initial, <1>1, PTL DEF Spec

-----------------------------------------------------------------------------
(* Every variable of registry, nodes and transport keeps its type. *)
THEOREM TypeCorrect == Spec => []TypeOK
<1>1. IInv => TypeOK
  BY DEF IInv
<1> QED BY Invariance, <1>1, PTL

(* A registry uses no number of a peer twice, whatever arrives. *)
THEOREM NoReplay == Spec => []CountedOnce
<1>1. IInv => CountedOnce
  BY DEF IInv, NumbersUsed, CountedOnce
<1> QED BY Invariance, <1>1, PTL

(* After a sweep, whoever is shown alive has signed a recent heartbeat. *)
THEOREM RecentlyAlive == Spec => AliveIsRecent
<1> DEFINE Recent == Sweep => \A p \in Peer : shown'[p] = "ALIVE_VERIFIED" =>
             \E m \in sent :
               /\ m.peer = p /\ Owner[m.key] = p /\ m.seq = last[p]
               /\ now - m.stamp <= 2 * MaxAge
<1>1. IInv /\ [Next]_vars => [Recent]_vars
  <2> SUFFICES ASSUME IInv, Sweep, NEW p \in Peer, shown'[p] = "ALIVE_VERIFIED"
               PROVE  \E m \in sent :
                        /\ m.peer = p /\ Owner[m.key] = p /\ m.seq = last[p]
                        /\ now - m.stamp <= 2 * MaxAge
    OBVIOUS
  <2>1. shown[p] = "ALIVE_VERIFIED" /\ ~ Expired(p)
    BY DEF Sweep
  <2>2. PICK m \in sent : /\ m.peer = p /\ Owner[m.key] = p /\ m.seq = last[p]
                          /\ acceptedAt[p] - m.stamp <= MaxAge
    BY <2>1 DEF IInv, AliveIsSigned, SignedInTime
  <2>3. m.stamp \in Int
    BY ArrivalType DEF IInv, TypeOK
  <2>4. now \in Int /\ acceptedAt[p] \in Int /\ MaxAge \in Int
    BY PSAssumption DEF IInv, TypeOK
  <2>5. now - acceptedAt[p] <= MaxAge
    BY <2>1, <2>4 DEF Expired
  <2>6. now - m.stamp <= 2 * MaxAge
    BY <2>2, <2>3, <2>4, <2>5
  <2> QED BY <2>2, <2>6
<1> QED BY Invariance, <1>1, PTL DEF Spec, AliveIsRecent

-----------------------------------------------------------------------------
(* ObjectStore: an entry is what was stored or damaged; and what a receipt  *)
(* of this life says of an encrypted entry is still so, up to damage.       *)
EntriesOK ==
    /\ entries \in [Stores -> [Data -> [nonce : Nat, content : Data \cup {Damaged}]]]
    /\ nonces \in [Stores -> Nat]
    /\ life \in [Stores -> Nat]

NoncesOK == \A s \in Stores, d \in Data : Held(s, d) => entries[s][d].nonce > 0

ReceiptOK(r) ==
    /\ r.store \in Stores /\ r.data \in Data
    /\ r.cipher \in [nonce : Nat, content : Data \cup {Damaged}]
    /\ r.life \in Nat /\ r.life <= life[r.store]

StillThere(r) ==
    r.store \in Encrypted /\ r.life = life[r.store] =>
        LET entry == entries[r.store][r.data] IN
        entry.nonce > 0 /\ entry.nonce = r.cipher.nonce
        /\ entry.content \in {r.cipher.content, Damaged}

StoreInv == EntriesOK /\ NoncesOK /\ \A r \in receipts : ReceiptOK(r) /\ StillThere(r)

(* Empty stores satisfy the invariant. *)
LEMMA StoreStarts == StoreInit => StoreInv
  BY DEF StoreInit, StoreInv, EntriesOK, NoncesOK, Held, Missing

(* Storing, damage and restarts keep it. *)
LEMMA StoreStep == StoreInv /\ [StoreNext]_storeVars => StoreInv'
<1> SUFFICES ASSUME StoreInv, [StoreNext]_storeVars PROVE StoreInv'
  OBVIOUS
<1> USE StoreAssumption DEF StoreInv
<1>1. ASSUME NEW s \in Stores, NEW d \in Data, NEW o \in Owners, StorePlain(s, d, o)
      PROVE  StoreInv'
  <2>1. EntriesOK'
    BY <1>1 DEF StorePlain, EntriesOK
  <2>0. NoncesOK'
    BY <1>1 DEF StorePlain, EntriesOK, NoncesOK, Held, Missing
  <2> DEFINE entry == [nonce |-> 1, content |-> d]
  <2>2. ReceiptOK(Receipt(s, d, o, entry))' /\ s \notin Encrypted
    BY <1>1 DEF StorePlain, EntriesOK, ReceiptOK, Receipt
  <2>3. StillThere(Receipt(s, d, o, entry))'
    BY <2>2 DEF StillThere, Receipt
  <2>4. ASSUME NEW r \in receipts PROVE (ReceiptOK(r) /\ StillThere(r))'
    <3>1. r.store \in Encrypted => entries'[r.store] = entries[r.store]
      BY <1>1, <2>2 DEF StorePlain, EntriesOK, ReceiptOK
    <3> QED
      BY <1>1, <3>1 DEF StorePlain, ReceiptOK, StillThere
  <2>5. receipts' = receipts \cup {Receipt(s, d, o, entry)}
    BY <1>1 DEF StorePlain
  <2>6. Receipt(s, d, o, entry)' = Receipt(s, d, o, entry)
    BY <1>1 DEF StorePlain, Receipt
  <2> QED
    BY <2>0, <2>1, <2>2, <2>3, <2>4, <2>5, <2>6
<1>2. ASSUME NEW s \in Stores, NEW d \in Data, NEW o \in Owners, StoreSealed(s, d, o)
      PROVE  StoreInv'
  <2> PICK entry : entry = IF Keeps(s, d) THEN entries[s][d]
                           ELSE [nonce |-> nonces[s] + 1, content |-> d]
    OBVIOUS
  <2> PICK given : given = [store |-> s, data |-> d, owner |-> o, cipher |-> entry,
                            life |-> life[s], signed |-> s \in Signing]
    OBVIOUS
  <2>1. EntriesOK' /\ UNCHANGED life
    BY <1>2 DEF StoreSealed, EntriesOK
  <2>0. NoncesOK'
    BY <1>2 DEF StoreSealed, EntriesOK, NoncesOK, Keeps, Held, Missing
  <2>2. entry \in [nonce : Nat, content : Data \cup {Damaged}]
    BY DEF EntriesOK
  <2>3. entries' = [entries EXCEPT ![s][d] = entry] /\ receipts' = receipts \cup {given}
    BY <1>2 DEF StoreSealed, Receipt
  <2>4. entries'[s][d] = entry
    BY <2>3 DEF EntriesOK
  <2>5. ReceiptOK(given)'
    BY <2>1, <2>2 DEF EntriesOK, ReceiptOK
  <2>6. ASSUME NEW r \in receipts PROVE (ReceiptOK(r) /\ StillThere(r))'
    <3>1. ReceiptOK(r)'
      BY <2>1 DEF ReceiptOK
    <3>2. CASE r.store = s /\ r.data = d
      <4>1. r.store \in Encrypted /\ r.life = life[r.store] => Keeps(s, d)
        BY <3>2 DEF StillThere, Keeps, Held, Missing
      <4>2. Keeps(s, d) => entries'[r.store][r.data] = entries[r.store][r.data]
        BY <3>2, <2>4
      <4> QED
        BY <2>1, <3>1, <4>1, <4>2 DEF StillThere
    <3>3. CASE ~ (r.store = s /\ r.data = d)
      <4>1. entries'[r.store][r.data] = entries[r.store][r.data]
        BY <2>3, <3>3 DEF EntriesOK, ReceiptOK
      <4> QED
        BY <2>1, <3>1, <4>1 DEF StillThere
    <3> QED
      BY <3>2, <3>3
  <2>7. StillThere(given)'
    <3>1. entry.nonce > 0
      <4>1. CASE Keeps(s, d)
        BY <4>1 DEF Keeps, NoncesOK
      <4>2. CASE ~ Keeps(s, d)
        BY <4>2 DEF EntriesOK
      <4> QED
        BY <4>1, <4>2
    <3> QED
      BY <2>4, <3>1 DEF StillThere
  <2> QED
    BY <2>0, <2>1, <2>3, <2>5, <2>6, <2>7
<1>3. ASSUME NEW s \in Stores, NEW d \in Data, DamageObject(s, d) PROVE StoreInv'
  <2>1. EntriesOK' /\ UNCHANGED <<life, receipts>>
    BY <1>3 DEF DamageObject, EntriesOK
  <2>0. NoncesOK'
    BY <1>3 DEF DamageObject, EntriesOK, NoncesOK, Held, Missing
  <2>2. ASSUME NEW r \in receipts PROVE (ReceiptOK(r) /\ StillThere(r))'
    <3>1. /\ entries'[r.store][r.data].nonce = entries[r.store][r.data].nonce
          /\ entries'[r.store][r.data].content \in {entries[r.store][r.data].content, Damaged}
      BY <1>3 DEF DamageObject, EntriesOK, ReceiptOK
    <3> QED
      BY <2>1, <3>1 DEF ReceiptOK, StillThere
  <2> QED
    BY <2>0, <2>1, <2>2
<1>4. ASSUME NEW s \in Stores, StoreRestarts(s) PROVE StoreInv'
  <2>1. EntriesOK' /\ UNCHANGED receipts
    BY <1>4 DEF StoreRestarts, EntriesOK, Missing
  <2>0. NoncesOK'
    BY <1>4 DEF StoreRestarts, EntriesOK, NoncesOK, Held, Missing
  <2>2. ASSUME NEW r \in receipts PROVE (ReceiptOK(r) /\ StillThere(r))'
    <3>1. CASE r.store = s
      BY <1>4, <3>1 DEF StoreRestarts, EntriesOK, ReceiptOK, StillThere
    <3>2. CASE r.store # s
      BY <1>4, <3>2 DEF StoreRestarts, EntriesOK, ReceiptOK, StillThere
    <3> QED
      BY <3>1, <3>2
  <2> QED
    BY <2>0, <2>1, <2>2
<1>5. CASE UNCHANGED storeVars
  BY <1>5 DEF storeVars, EntriesOK, NoncesOK, Held, ReceiptOK, StillThere
<1> QED
  BY <1>1, <1>2, <1>3, <1>4, <1>5 DEF StoreNext

(* PeerObjectStore and EncryptedObjectStore: an object that is available is *)
(* retrieved with any unsigned receipt ever given for it, for encrypted     *)
(* stores since the last restart.                                           *)
THEOREM ReceiptsStayGood == StoreSpec => []AvailableIsRetrievable
<1>1. StoreInv => AvailableIsRetrievable
  <2> SUFFICES ASSUME StoreInv, NEW r \in receipts, NEW key \in KeyFields,
                      ~r.signed, Available(r.store, r.data),
                      r.store \in Encrypted => r.life = life[r.store]
               PROVE  Retrieves(r, key)
    BY DEF AvailableIsRetrievable
  <2>1. CASE r.store \in Encrypted
    <3> DEFINE entry == entries[r.store][r.data]
    <3>1. entry \in [nonce : Nat, content : Data \cup {Damaged}]
      BY DEF StoreInv, EntriesOK, ReceiptOK
    <3>2. r.cipher \in [nonce : Nat, content : Data \cup {Damaged}]
      BY DEF StoreInv, ReceiptOK
    <3>3. entry.nonce = r.cipher.nonce /\ entry.content = r.cipher.content
      <4>1. entry.content = r.data /\ r.data # Damaged
        BY StoreAssumption DEF StoreInv, ReceiptOK, Available
      <4> QED
        BY <2>1, <4>1 DEF StoreInv, StillThere
    <3>4. entry = r.cipher
      BY <3>1, <3>2, <3>3
    <3> QED
      BY <3>4 DEF Retrieves
  <2>2. CASE r.store \notin Encrypted
    BY <2>2 DEF Retrieves
  <2> QED
    BY <2>1, <2>2
<1> QED
  BY <1>1, StoreStarts, StoreStep, PTL DEF StoreSpec

=============================================================================
