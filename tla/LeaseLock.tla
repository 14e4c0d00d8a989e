----------------------------- MODULE LeaseLock ------------------------------
(***************************************************************************)
(* LeaseLockManager of controller/lease_lock.py: expiring leases with a    *)
(* fencing token per lock, on an injected monotonic clock, in one process. *)
(* A holder is a caller that may be paused between any two of its calls    *)
(* and then presents a token it was granted long ago.  The guarded         *)
(* resource asks is_fenced when a write reaches it.                        *)
(***************************************************************************)
EXTENDS Integers

CONSTANTS Lock, Holder,
          Duration,      \* the durations callers ask for
          NoLease, Nobody,
          MaxTime, MaxToken    \* bounds: clock readings; acquisitions per lock

ASSUME LLAssumption ==
  /\ Duration \subseteq Nat \ {0}
  /\ MaxTime \in Nat /\ MaxToken \in Nat
  /\ NoLease \notin [holder : Holder, token : Nat, expires : Nat]
  /\ Nobody \notin [holder : Holder, token : Nat]

VARIABLES
  now,        \* the clock
  leases,     \* _leases
  lastToken,  \* _last_token
  granted,    \* history: every <<holder, token>> acquire ever returned
  written     \* the token of the last write the guarded resource accepted

vars == <<now, leases, lastToken, granted, written>>

Init ==
  /\ now = 0
  /\ leases = [l \in Lock |-> NoLease]
  /\ lastToken = [l \in Lock |-> 0]
  /\ granted = [l \in Lock |-> {}]
  /\ written = [l \in Lock |-> 0]

Expired(lease) == now >= lease.expires

Live(l) == leases[l] # NoLease /\ ~ Expired(leases[l])

HeldBy(l, h, t) ==
  leases[l] # NoLease /\ leases[l].holder = h /\ leases[l].token = t

(* validate_action and is_fenced. *)
Valid(l, h, t) == HeldBy(l, h, t) /\ ~ Expired(leases[l])

(* Variant: a token is compared with the lease in force instead of with    *)
(* the last token issued.                                                  *)
FencedByLease(l, t) == leases[l] # NoLease /\ t < leases[l].token

Fenced(l, t) == t < lastToken[l]

-----------------------------------------------------------------------------
NextToken(l) == lastToken[l] + 1

Acquire(l, h, d) ==
  /\ ~ Live(l)
  /\ NextToken(l) <= MaxToken
  /\ lastToken' = [lastToken EXCEPT ![l] = NextToken(l)]
  /\ leases' = [leases EXCEPT ![l] =
                  [holder |-> h, token |-> NextToken(l), expires |-> now + d]]
  /\ granted' = [granted EXCEPT ![l] = @ \cup {<<h, NextToken(l)>>}]
  /\ UNCHANGED <<now, written>>

(* Variant: an expired lease may be renewed by its holder. *)
RenewExpired(l, h, t, d) ==
  /\ HeldBy(l, h, t)
  /\ leases' = [leases EXCEPT ![l].expires = now + d]
  /\ UNCHANGED <<now, lastToken, granted, written>>

Renew(l, h, t, d) ==
  /\ HeldBy(l, h, t)
  /\ ~ Expired(leases[l])
  /\ leases' = [leases EXCEPT ![l].expires = now + d]
  /\ UNCHANGED <<now, lastToken, granted, written>>

(* release does not look at the clock. *)
Release(l, h, t) ==
  /\ HeldBy(l, h, t)
  /\ leases' = [leases EXCEPT ![l] = NoLease]
  /\ UNCHANGED <<now, lastToken, granted, written>>

(* A write that arrives at the guarded resource, however late. *)
GuardedWrite(l, t) ==
  /\ ~ Fenced(l, t)
  /\ written' = [written EXCEPT ![l] = t]
  /\ UNCHANGED <<now, leases, lastToken, granted>>

Tick ==
  /\ now < MaxTime
  /\ now' = now + 1
  /\ UNCHANGED <<leases, lastToken, granted, written>>

Next ==
  \/ Tick
  \/ \E l \in Lock :
       \/ \E h \in Holder, d \in Duration : Acquire(l, h, d)
       \/ \E p \in granted[l] :
            \/ \E d \in Duration : Renew(l, p[1], p[2], d)
            \/ Release(l, p[1], p[2])
            \/ GuardedWrite(l, p[2])

Spec == Init /\ [][Next]_vars

-----------------------------------------------------------------------------
Lease == [holder : Holder, token : Nat, expires : Nat]

TypeOK ==
  /\ now \in Nat
  /\ leases \in [Lock -> Lease \cup {NoLease}]
  /\ lastToken \in [Lock -> Nat]
  /\ granted \in [Lock -> SUBSET (Holder \X Nat)]
  /\ written \in [Lock -> Nat]
  /\ \A l \in Lock : written[l] <= lastToken[l]

(* A lease in the table is one that was granted, and no later one was.     *)
LeaseIsNewest ==
  \A l \in Lock :
    /\ \A p \in granted[l] : 0 < p[2] /\ p[2] <= lastToken[l]
    /\ leases[l] # NoLease =>
         /\ <<leases[l].holder, leases[l].token>> \in granted[l]
         /\ leases[l].token = lastToken[l]

(* While somebody's lease is in force, the guard turns away every other    *)
(* token ever granted for that lock, whoever presents it.                  *)
OthersAreFenced ==
  \A l \in Lock : \A p, q \in granted[l] :
    Valid(l, p[1], p[2]) /\ p # q => Fenced(l, q[2])

(* "Late writes from stale holders cannot win" (module docstring): the     *)
(* resource never accepts a token below one it has accepted before.        *)
LateWritesLose == [][\A l \in Lock : written'[l] >= written[l]]_vars

(* A grant that has expired or was released is never valid again, by       *)
(* renewal, by the clock or by a later grant that looks the same.          *)
NoResurrection ==
  [][\A l \in Lock : \A p \in granted[l] :
       ~ Valid(l, p[1], p[2]) => ~ Valid(l, p[1], p[2])']_vars

(* tests/test_lease_lock.py: "released: lock is free, token still fenced   *)
(* for late writers".                                                      *)
ReleasedTokenIsFenced ==
  \A l \in Lock : \A p \in granted[l] : leases[l] = NoLease => Fenced(l, p[2])

(* The lease manager implements FencedLock: a grant is in force while its  *)
(* lease is in the table and has not expired.                              *)
GrantOf(l) == IF Live(l) THEN [holder |-> leases[l].holder,
                               token |-> leases[l].token] ELSE Nobody

Promise == INSTANCE FencedLock WITH
  grant <- [l \in Lock |-> GrantOf(l)], highest <- lastToken

ImplementsFencedLock == Promise!Spec
=============================================================================
