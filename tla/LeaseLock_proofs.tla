-------------------------- MODULE LeaseLock_proofs --------------------------
(***************************************************************************)
(* Proofs about LeaseLock for any locks, holders, durations and bounds.    *)
(***************************************************************************)
EXTENDS LeaseLock, TLAPS

IInv == TypeOK /\ LeaseIsNewest

(* A token belongs to one holder: acquire never returns the same number    *)
(* twice for a lock.                                                       *)
OneHolderPerToken ==
  \A l \in Lock : \A p, q \in granted[l] : p[2] = q[2] => p = q

(* A granted pair carries a number the lock has issued.                    *)
LEMMA GrantedTokens ==
  ASSUME IInv, NEW l \in Lock, NEW p \in granted[l]
  PROVE  /\ p \in Holder \X Nat /\ p[1] \in Holder /\ p[2] \in Nat
         /\ p = <<p[1], p[2]>>
         /\ 0 < p[2] /\ p[2] <= lastToken[l] /\ lastToken[l] \in Nat
<1>1. granted[l] \in SUBSET (Holder \X Nat) /\ lastToken[l] \in Nat
  BY DEF IInv, TypeOK
<1>2. p \in Holder \X Nat
  BY <1>1
<1>3. 0 < p[2] /\ p[2] <= lastToken[l]
  BY DEF IInv, LeaseIsNewest
<1>. QED BY <1>1, <1>2, <1>3

(* An empty table satisfies every invariant. *)
LEMMA InitInv == Init => IInv /\ OneHolderPerToken
BY LLAssumption DEF Init, IInv, TypeOK, LeaseIsNewest, OneHolderPerToken

(* A new lease gets a number above every number granted before.            *)
LEMMA AcquireInv ==
  ASSUME IInv, NEW l \in Lock, NEW h \in Holder, NEW d \in Duration,
         Acquire(l, h, d)
  PROVE  IInv'
<1> DEFINE t == lastToken[l] + 1
           e == [holder |-> h, token |-> t, expires |-> now + d]
<1> USE DEF IInv
<1>1. /\ t \in Nat /\ t > 0 /\ lastToken[l] < t
      /\ lastToken' = [lastToken EXCEPT ![l] = t]
      /\ leases' = [leases EXCEPT ![l] = e]
      /\ granted' = [granted EXCEPT ![l] = @ \cup {<<h, t>>}]
      /\ UNCHANGED <<now, written>>
  BY DEF Acquire, NextToken, TypeOK
<1>2. e \in Lease /\ e # NoLease
  BY <1>1, LLAssumption DEF Lease, TypeOK
<1>3. TypeOK'
  BY <1>1, <1>2 DEF TypeOK
<1>4. LeaseIsNewest'
  <2> SUFFICES ASSUME NEW k \in Lock
               PROVE  /\ \A p \in granted'[k] : 0 < p[2] /\ p[2] <= lastToken'[k]
                      /\ leases'[k] # NoLease =>
                           /\ <<leases'[k].holder, leases'[k].token>> \in granted'[k]
                           /\ leases'[k].token = lastToken'[k]
    BY DEF LeaseIsNewest
  <2>1. CASE k = l
    <3>1. \A p \in granted[l] : p[2] \in Nat /\ 0 < p[2] /\ p[2] <= lastToken[l]
      BY GrantedTokens
    <3>2. /\ granted'[k] = granted[l] \cup {<<h, t>>}
          /\ lastToken'[k] = t /\ leases'[k] = e
      BY <1>1, <2>1 DEF TypeOK
    <3>3. lastToken[l] \in Nat
      BY DEF TypeOK
    <3>. QED BY <1>1, <3>1, <3>2, <3>3
  <2>2. CASE k # l
    BY <1>1, <2>2 DEF TypeOK, LeaseIsNewest
  <2>. QED BY <2>1, <2>2
<1>. QED BY <1>3, <1>4

(* Renewal, release, writes and the clock neither issue a number nor       *)
(* replace a lease by another one.                                         *)
LEMMA OtherInv ==
  ASSUME IInv,
         \/ UNCHANGED vars
         \/ Tick
         \/ \E l \in Lock : \E p \in granted[l] :
              \/ \E d \in Duration : Renew(l, p[1], p[2], d)
              \/ Release(l, p[1], p[2])
              \/ GuardedWrite(l, p[2])
  PROVE  /\ IInv'
         /\ UNCHANGED <<lastToken, granted>>
<1> USE DEF IInv
<1>1. CASE UNCHANGED vars
  BY <1>1 DEF vars, TypeOK, LeaseIsNewest
<1>2. CASE Tick
  BY <1>2 DEF Tick, TypeOK, LeaseIsNewest
<1>3. ASSUME NEW l \in Lock, NEW p \in granted[l], NEW d \in Duration,
             Renew(l, p[1], p[2], d)
      PROVE  IInv' /\ UNCHANGED <<lastToken, granted>>
  <2>1. leases[l] \in Lease /\ now + d \in Nat
    BY <1>3, LLAssumption DEF Renew, HeldBy, TypeOK
  <2>2. DEFINE e == [leases[l] EXCEPT !.expires = now + d]
  <2>3. /\ e \in Lease /\ e.holder = leases[l].holder /\ e.token = leases[l].token
        /\ leases[l] # NoLease
        /\ leases' = [leases EXCEPT ![l] = e]
        /\ UNCHANGED <<now, lastToken, granted, written>>
    BY <1>3, <2>1 DEF Renew, HeldBy, Lease
  <2>. HIDE DEF e
  <2>4. TypeOK'
    BY <2>3 DEF TypeOK
  <2>5. LeaseIsNewest'
    BY <2>3 DEF TypeOK, LeaseIsNewest
  <2>. QED BY <2>3, <2>4, <2>5
<1>4. ASSUME NEW l \in Lock, NEW p \in granted[l], Release(l, p[1], p[2])
      PROVE  IInv' /\ UNCHANGED <<lastToken, granted>>
  BY <1>4 DEF Release, TypeOK, LeaseIsNewest
<1>5. ASSUME NEW l \in Lock, NEW p \in granted[l], GuardedWrite(l, p[2])
      PROVE  IInv' /\ UNCHANGED <<lastToken, granted>>
  <2>1. p[2] \in Nat /\ p[2] <= lastToken[l]
    BY GrantedTokens
  <2>. QED BY <1>5, <2>1 DEF GuardedWrite, TypeOK, LeaseIsNewest
<1>. QED BY <1>1, <1>2, <1>3, <1>4, <1>5

(* Every step preserves the inductive invariant.                           *)
LEMMA NextInv == IInv /\ [Next]_vars => IInv'
BY AcquireInv, OtherInv DEF Next

(* The inductive invariant holds in every reachable state.                 *)
LEMMA Invariance == Spec => []IInv
BY InitInv, NextInv, PTL DEF Spec

(* Type correctness of the lease table, the tokens and the resource.       *)
THEOREM TypeCorrect == Spec => []TypeOK
BY Invariance, PTL DEF IInv

(* A lease in the table is a granted one and the newest of its lock.       *)
THEOREM NewestLease == Spec => []LeaseIsNewest
BY Invariance, PTL DEF IInv

(* acquire never grants a number twice for the same lock.                  *)
LEMMA UniqueTokenStep == IInv /\ OneHolderPerToken /\ [Next]_vars => OneHolderPerToken'
<1> SUFFICES ASSUME IInv, OneHolderPerToken, [Next]_vars
             PROVE  OneHolderPerToken'
  OBVIOUS
<1>1. ASSUME NEW l \in Lock, NEW h \in Holder, NEW d \in Duration, Acquire(l, h, d)
      PROVE  OneHolderPerToken'
  <2>1. granted' = [granted EXCEPT ![l] = @ \cup {<<h, lastToken[l] + 1>>}]
    BY <1>1 DEF Acquire, NextToken
  <2>2. \A p \in granted[l] : p[2] \in Nat /\ p[2] <= lastToken[l]
    BY GrantedTokens
  <2>3. \A p \in granted[l] : p[2] # lastToken[l] + 1
    BY <2>2 DEF IInv, TypeOK
  <2>4. granted \in [Lock -> SUBSET (Holder \X Nat)]
    BY DEF IInv, TypeOK
  <2>. QED BY <2>1, <2>3, <2>4 DEF OneHolderPerToken
<1>2. CASE UNCHANGED granted
  BY <1>2 DEF OneHolderPerToken
<1>. QED BY <1>1, <1>2, OtherInv DEF Next

(* The uniqueness of tokens in every reachable state.                      *)
THEOREM UniqueTokens == Spec => []OneHolderPerToken
BY InitInv, UniqueTokenStep, Invariance, PTL DEF Spec

(* While a lease is in force the guard turns away every other token ever   *)
(* granted for the lock, whoever presents it and however late.             *)
THEOREM StaleHoldersAreFenced == Spec => []OthersAreFenced
<1>1. IInv /\ OneHolderPerToken => OthersAreFenced
  <2> SUFFICES ASSUME IInv, OneHolderPerToken, NEW l \in Lock,
                      NEW p \in granted[l], NEW q \in granted[l],
                      Valid(l, p[1], p[2]), p # q
               PROVE  q[2] < lastToken[l]
    BY DEF OthersAreFenced, Fenced
  <2>1. p[2] = lastToken[l]
    BY DEF Valid, HeldBy, IInv, LeaseIsNewest
  <2>2. q[2] # p[2]
    BY DEF OneHolderPerToken
  <2>3. q[2] \in Nat /\ q[2] <= lastToken[l] /\ lastToken[l] \in Nat
    BY GrantedTokens
  <2>. QED BY <2>1, <2>2, <2>3
<1>. QED BY <1>1, Invariance, UniqueTokens, PTL

(* "Late writes from stale holders cannot win": the tokens of accepted     *)
(* writes never decrease.                                                  *)
THEOREM LateWrites == Spec => LateWritesLose
<1>1. IInv /\ [Next]_vars => [\A l \in Lock : written'[l] >= written[l]]_vars
  <2> SUFFICES ASSUME IInv, Next, NEW l \in Lock
               PROVE  written'[l] >= written[l]
    OBVIOUS
  <2>1. written[l] \in Nat /\ lastToken[l] \in Nat /\ written[l] <= lastToken[l]
    BY DEF IInv, TypeOK
  <2>2. CASE UNCHANGED written
    BY <2>1, <2>2
  <2>3. ASSUME NEW k \in Lock, NEW p \in granted[k], GuardedWrite(k, p[2])
        PROVE  written'[l] >= written[l]
    <3>1. /\ written' = [written EXCEPT ![k] = p[2]]
          /\ ~ (p[2] < lastToken[k])
          /\ p[2] \in Nat /\ lastToken[k] \in Nat
      BY <2>3, GrantedTokens DEF GuardedWrite, Fenced
    <3>. QED BY <2>1, <3>1 DEF IInv, TypeOK
  <2>. QED BY <2>2, <2>3 DEF Next, Tick, Acquire, Renew, Release
<1>. QED BY <1>1, Invariance, PTL DEF Spec, LateWritesLose

(* A granted token whose lease has expired or was released is never valid  *)
(* again.                                                                  *)
THEOREM ExpiredForGood == Spec => NoResurrection
<1> DEFINE P(l) == \A p \in granted[l] :
                     ~ Valid(l, p[1], p[2]) => ~ Valid(l, p[1], p[2])'
<1>1. IInv /\ [Next]_vars => [\A l \in Lock : P(l)]_vars
  <2> SUFFICES ASSUME IInv, Next, NEW l \in Lock, NEW p \in granted[l],
                      Valid(l, p[1], p[2])'
               PROVE  Valid(l, p[1], p[2])
    OBVIOUS
  <2>0. /\ leases \in [Lock -> Lease \cup {NoLease}] /\ now \in Nat
        /\ lastToken[l] \in Nat /\ p[2] \in Nat /\ p[2] <= lastToken[l]
    BY GrantedTokens DEF IInv, TypeOK
  <2>1. CASE Tick
    <3>1. leases' = leases /\ now' = now + 1
      BY <2>1 DEF Tick
    <3>2. leases[l] \in Lease /\ now' < leases[l].expires
      BY <2>0, <3>1 DEF Valid, HeldBy, Expired, Lease
    <3>. QED BY <2>0, <3>1, <3>2 DEF Valid, HeldBy, Expired, Lease
  <2>2. CASE UNCHANGED <<now, leases>>
    BY <2>2 DEF Valid, HeldBy, Expired
  <2>3. ASSUME NEW k \in Lock, NEW h \in Holder, NEW d \in Duration, Acquire(k, h, d)
        PROVE  Valid(l, p[1], p[2])
    <3>1. CASE k = l
      <4>1. leases'[l].token = lastToken[l] + 1
        BY <2>0, <2>3, <3>1 DEF Acquire, NextToken
      <4>2. leases'[l].token = p[2]
        BY DEF Valid, HeldBy
      <4>. QED BY <2>0, <4>1, <4>2
    <3>2. CASE k # l
      BY <2>0, <2>3, <3>2 DEF Acquire, Valid, HeldBy, Expired
    <3>. QED BY <3>1, <3>2
  <2>4. ASSUME NEW k \in Lock, NEW h, NEW t, NEW d \in Duration, Renew(k, h, t, d)
        PROVE  Valid(l, p[1], p[2])
    <3>1. CASE k = l
      <4>1. leases[l] \in Lease
        BY <2>0, <2>4, <3>1 DEF Renew, HeldBy
      <4>2. /\ leases'[l].holder = leases[l].holder
            /\ leases'[l].token = leases[l].token
            /\ leases[l] # NoLease /\ ~ Expired(leases[l])
        BY <2>0, <2>4, <3>1, <4>1 DEF Renew, HeldBy, Lease
      <4>. QED BY <4>2 DEF Valid, HeldBy
    <3>2. CASE k # l
      BY <2>0, <2>4, <3>2 DEF Renew, Valid, HeldBy, Expired
    <3>. QED BY <3>1, <3>2
  <2>5. ASSUME NEW k \in Lock, NEW h, NEW t, Release(k, h, t)
        PROVE  Valid(l, p[1], p[2])
    BY <2>0, <2>5 DEF Release, Valid, HeldBy, Expired
  <2>. QED BY <2>1, <2>2, <2>3, <2>4, <2>5 DEF Next, GuardedWrite
<1>. QED BY <1>1, Invariance, PTL DEF Spec, NoResurrection

-----------------------------------------------------------------------------
(* An acquisition is a grant of a free lock, numbered one above the last.  *)
LEMMA AcquireSimulates ==
  ASSUME IInv, NEW l \in Lock, NEW h \in Holder, NEW d \in Duration,
         Acquire(l, h, d)
  PROVE  Promise!Grant(l, h)
<1> DEFINE t == lastToken[l] + 1
           e == [holder |-> h, token |-> t, expires |-> now + d]
<1>0. /\ leases \in [Lock -> Lease \cup {NoLease}] /\ now \in Nat /\ t \in Nat
      /\ d \in Nat \ {0}
  BY LLAssumption DEF IInv, TypeOK
<1>1. /\ leases' = [leases EXCEPT ![l] = e] /\ now' = now
      /\ lastToken' = [lastToken EXCEPT ![l] = t]
      /\ GrantOf(l) = Nobody
  BY DEF Acquire, NextToken, GrantOf
<1>2. e # NoLease
  BY <1>0, LLAssumption
<1>3. GrantOf(l)' = [holder |-> h, token |-> t]
  <2>1. leases'[l] = e /\ ~ (now' >= e.expires)
    BY <1>0, <1>1
  <2>. QED BY <1>2, <2>1 DEF GrantOf, Live, Expired
<1>4. \A k \in Lock : k # l => GrantOf(k)' = GrantOf(k)
  BY <1>0, <1>1 DEF GrantOf, Live, Expired
<1>. QED BY <1>1, <1>3, <1>4 DEF Promise!Grant

(* The clock and release end grants; a renewal keeps the grant it renews.  *)
LEMMA OtherSimulates ==
  ASSUME IInv, UNCHANGED lastToken,
         \A l \in Lock : GrantOf(l)' \in {GrantOf(l), Nobody}
  PROVE  \E S \in SUBSET Lock : Promise!End(S)
<1> DEFINE S == {l \in Lock : GrantOf(l)' = Nobody}
<1>1. Promise!End(S)
  BY DEF Promise!End
<1>. QED BY <1>1

(* The lease manager implements the fenced lock.                           *)
THEOREM Refinement == Spec => ImplementsFencedLock
<1>1. Init => Promise!Init
  BY DEF Init, Promise!Init, GrantOf, Live
<1>2. IInv /\ [Next]_vars => [Promise!Next]_(Promise!vars)
  <2> SUFFICES ASSUME IInv, [Next]_vars PROVE [Promise!Next]_(Promise!vars)
    OBVIOUS
  <2>0. leases \in [Lock -> Lease \cup {NoLease}] /\ now \in Nat
    BY DEF IInv, TypeOK
  <2>1. ASSUME NEW l \in Lock, NEW h \in Holder, NEW d \in Duration, Acquire(l, h, d)
        PROVE  Promise!Next
    BY <2>1, AcquireSimulates DEF Promise!Next
  <2>2. CASE UNCHANGED <<now, leases, lastToken>>
    BY <2>2 DEF Promise!vars, GrantOf, Live, Expired
  <2>3. CASE Tick
    <3>1. leases' = leases /\ now' = now + 1 /\ UNCHANGED lastToken
      BY <2>3 DEF Tick
    <3>2. \A l \in Lock : Live(l)' => Live(l)
      BY <2>0, <3>1 DEF Live, Expired, Lease
    <3>3. \A l \in Lock : GrantOf(l)' \in {GrantOf(l), Nobody}
      BY <3>1, <3>2 DEF GrantOf
    <3>. QED BY <3>1, <3>3, OtherSimulates DEF Promise!Next
  <2>4. ASSUME NEW k \in Lock, NEW h, NEW t, NEW d \in Duration, Renew(k, h, t, d)
        PROVE  Promise!Next
    <3>1. leases[k] \in Lease /\ Live(k)
      BY <2>0, <2>4 DEF Renew, HeldBy, Live
    <3>2. /\ leases'[k].holder = leases[k].holder
          /\ leases'[k].token = leases[k].token
      BY <2>0, <2>4, <3>1 DEF Renew, Lease
    <3>3. GrantOf(k)' \in {GrantOf(k), Nobody}
      BY <3>1, <3>2 DEF GrantOf
    <3>4. \A l \in Lock : l # k => GrantOf(l)' = GrantOf(l)
      BY <2>0, <2>4 DEF Renew, GrantOf, Live, Expired
    <3>. QED BY <2>4, <3>3, <3>4, OtherSimulates DEF Renew, Promise!Next
  <2>5. ASSUME NEW k \in Lock, NEW h, NEW t, Release(k, h, t)
        PROVE  Promise!Next
    <3>1. \A l \in Lock : GrantOf(l)' \in {GrantOf(l), Nobody}
      BY <2>0, <2>5 DEF Release, GrantOf, Live, Expired
    <3>. QED BY <2>5, <3>1, OtherSimulates DEF Release, Promise!Next
  <2>. QED BY <2>1, <2>2, <2>3, <2>4, <2>5 DEF Next, GuardedWrite, vars
<1>. QED BY <1>1, <1>2, Invariance, PTL DEF Spec, ImplementsFencedLock, Promise!Spec

=============================================================================
