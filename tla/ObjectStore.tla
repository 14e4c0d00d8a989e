----------------------------- MODULE ObjectStore -----------------------------
(***************************************************************************)
(* The opt-in object stores of a peer: controller/peer_store.py, which     *)
(* keeps objects under their digest and gives receipts with a MAC, and     *)
(* controller/encrypted_store.py, which keeps them encrypted under a       *)
(* random nonce and may sign its receipts (crypto_receipts.py).  Both keep *)
(* everything in memory; what they hold may be damaged at any time, and a  *)
(* restart with the same keys begins empty.                                *)
(*                                                                         *)
(* A digest is what was hashed, a ciphertext its nonce and content.  Only  *)
(* receipts that the stores gave are presented; the argument checks, which *)
(* any such receipt passes, are left out.                                  *)
(***************************************************************************)
EXTENDS Integers, FiniteSets

CONSTANTS Data, Owners,
          Stores, Encrypted, Signing,  \* stores, those that encrypt, those that sign
          Damaged,                     \* content no digest and no tag fits
          MaxNonce, MaxLives           \* bounds: encryptions and starts of a store

ASSUME StoreAssumption ==
    /\ Signing \subseteq Encrypted /\ Encrypted \subseteq Stores
    /\ Damaged \notin Data
    /\ MaxNonce \in Nat /\ MaxLives \in Nat

VARIABLES entries,   \* _objects or _entries of a store: by digest
          nonces,    \* history: nonces a store has drawn
          life,      \* history: starts of a store
          receipts   \* history: the receipts given

storeVars == <<entries, nonces, life, receipts>>

Missing == [nonce |-> 0, content |-> Damaged]

StoreInit ==
    /\ entries = [s \in Stores |-> [d \in Data |-> Missing]]
    /\ nonces = [s \in Stores |-> 0]
    /\ life = [s \in Stores |-> 1]
    /\ receipts = {}

Held(s, d) == entries[s][d] # Missing

-----------------------------------------------------------------------------
(* A receipt names the object, and that of an encrypted store the nonce and *)
(* the digest of the ciphertext as they are in the store now.               *)
Receipt(s, d, o, entry) ==
    [store |-> s, data |-> d, owner |-> o, cipher |-> entry, life |-> life[s],
     signed |-> s \in Signing]

(* A variant: the object is encrypted again whenever it is stored. *)
KeepsNever(s, d) == FALSE
Keeps(s, d) == Held(s, d)

(* PeerObjectStore.store: what is there must be what is stored. *)
StorePlain(s, d, o) ==
    /\ s \notin Encrypted
    /\ Held(s, d) => entries[s][d].content = d
    /\ LET entry == [nonce |-> 1, content |-> d] IN
       /\ entries' = [entries EXCEPT ![s][d] = entry]
       /\ receipts' = receipts \cup {Receipt(s, d, o, entry)}
    /\ UNCHANGED <<nonces, life>>

(* EncryptedObjectStore.store: an entry that is there stays as it is. *)
StoreSealed(s, d, o) ==
    /\ s \in Encrypted
    /\ Keeps(s, d) \/ nonces[s] < MaxNonce
    /\ LET entry == IF Keeps(s, d) THEN entries[s][d]
                    ELSE [nonce |-> nonces[s] + 1, content |-> d] IN
       /\ entries' = [entries EXCEPT ![s][d] = entry]
       /\ receipts' = receipts \cup {Receipt(s, d, o, entry)}
    /\ nonces' = [nonces EXCEPT ![s] = IF Keeps(s, d) THEN @ ELSE @ + 1]
    /\ UNCHANGED life

DamageObject(s, d) ==
    /\ Held(s, d)
    /\ entries' = [entries EXCEPT ![s][d].content = Damaged]
    /\ UNCHANGED <<nonces, life, receipts>>

StoreRestarts(s) ==
    /\ life[s] < MaxLives
    /\ life' = [life EXCEPT ![s] = @ + 1]
    /\ entries' = [entries EXCEPT ![s] = [d \in Data |-> Missing]]
    /\ UNCHANGED <<nonces, receipts>>

StoreNext ==
    \E s \in Stores :
        \/ \E d \in Data : \/ \E o \in Owners : StorePlain(s, d, o) \/ StoreSealed(s, d, o)
                           \/ DamageObject(s, d)
        \/ StoreRestarts(s)

StoreSpec == StoreInit /\ [][StoreNext]_storeVars

-----------------------------------------------------------------------------
(* is_available of either store: present, and the content has the digest.   *)
Available(s, d) == Held(s, d) /\ entries[s][d].content = d

(* The key to check a signature with is presented inside the receipt, under *)
(* one of two names; json.dumps refuses the bytes under the first.          *)
KeyFields == {"_verification_key", "verification_key_hex"}
ReceiptFields == {"object_digest", "owner_id", "store_id", "algorithm", "encryption",
                  "nonce", "ciphertext_digest"}

(* What verify_record_signature recomputes is the record that was signed.   *)
SignatureHolds(key) ==
    /\ key # "_verification_key"
    /\ ReceiptFields \cup {key} = ReceiptFields

(* retrieve returns the object, the key being presented under this name.    *)
Retrieves(r, key) ==
    /\ Available(r.store, r.data)
    /\ r.store \in Encrypted =>
          /\ r.signed => SignatureHolds(key)
          /\ entries[r.store][r.data] = r.cipher

-----------------------------------------------------------------------------
(* is_available, "rechecked, never assumed" (peer_store.py:110): while an   *)
(* object is available, every unsigned receipt ever given for it is good,   *)
(* to whichever owner and however often it was stored since; for encrypted  *)
(* stores, every receipt since the last restart, which draws a new nonce.   *)
AvailableIsRetrievable ==
    \A r \in receipts :
        /\ ~r.signed /\ Available(r.store, r.data)
        /\ r.store \in Encrypted => r.life = life[r.store]
        => \A key \in KeyFields : Retrieves(r, key)

(* tests/test_encrypted_store.py:43-44: a signed receipt to which the key   *)
(* is added is redeemed while the object is available.                      *)
SignedIsRetrievable ==
    \A r \in receipts :
        r.signed /\ r.life = life[r.store] /\ Available(r.store, r.data)
        => \E key \in KeyFields : Retrieves(r, key)

=============================================================================
