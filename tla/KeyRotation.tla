----------------------------- MODULE KeyRotation -----------------------------
(***************************************************************************)
(* v99/security: rotate_key replaces a provider's key by a new one, keeps  *)
(* the new secret in a store (secret_store.py: in memory, or in a file     *)
(* that is truncated and then written) and revokes the old key last.  The  *)
(* process may die between any two steps, and a call of the provider or a  *)
(* write to the disk may raise; whoever operates the agent rotates again.  *)
(* A power failure is not modelled: nothing here is synced to the disk, so *)
(* after one a file may be empty, or the old secret, whatever was returned.*)
(*                                                                         *)
(* The provider is external: its keys are numbered as they are created,    *)
(* and revoke_old revokes all of them but the newest.  A call that raises  *)
(* may have been carried out.                                              *)
(***************************************************************************)
EXTENDS Integers

CONSTANT MaxKeys  \* bound: keys the provider creates

ASSUME KeysAssumption == MaxKeys \in Nat \ {0}

VARIABLES store,    \* "memory" or "file", for good
          secret,   \* what the store has under secret_name
          created,  \* the provider's newest key
          valid,    \* the keys the provider accepts
          stage,    \* where rotate_key stands
          new,      \* new_secret
          answer    \* the status code last returned, or "raised"

provider == <<created, valid>>
rotationVars == <<store, secret, provider, stage, new, answer>>

Absent == [kind |-> "absent", key |-> 0]
Empty == [kind |-> "empty", key |-> 0]
Partial(k) == [kind |-> "partial", key |-> k]
Whole(k) == [kind |-> "whole", key |-> k]

(* The first key is in use when the agent is set up. *)
RotationInit ==
    /\ store \in {"memory", "file"}
    /\ secret = Whole(1)
    /\ created = 1 /\ valid = {1}
    /\ stage = "idle" /\ new = 0 /\ answer = "none"

Return(code) == stage' = "idle" /\ new' = 0 /\ answer' = code

-----------------------------------------------------------------------------
(* Lines 34-39; a name that is not a string, or empty, is refused like a    *)
(* missing approval.  A blank name, or one with a slash, is refused by      *)
(* StoreSecret, when there is a new key already.                            *)
Refuse ==
    /\ stage = "idle"
    /\ answer' \in {"APPROVAL_REQUIRED", "PROVIDER_NOT_HEALTHY"}
    /\ UNCHANGED <<store, secret, provider, stage, new>>

Create ==
    /\ stage = "idle" /\ created < MaxKeys
    /\ \/ /\ created' = created + 1 /\ valid' = valid \cup {created + 1}
          /\ \/ stage' = "validate" /\ new' = created + 1 /\ answer' = "none"
             \/ Return("raised")
       \/ Return("CREATION_FAILED") /\ UNCHANGED provider
    /\ UNCHANGED <<store, secret>>

Validate ==
    /\ stage = "validate"
    /\ \/ stage' = "store" /\ UNCHANGED <<new, answer>>
       \/ Return("VALIDATION_FAILED")
       \/ Return("raised")
    /\ UNCHANGED <<store, secret, provider>>

(* InMemorySecretStore.store, and the checks and os.open with O_TRUNC of    *)
(* FileSecretStore.store.  Either raises, for a bad name, a secret that is  *)
(* no string or a file that cannot be opened, before it has changed anything.*)
StoreSecret ==
    /\ stage = "store"
    /\ \/ /\ store = "memory"
          /\ secret' = Whole(new) /\ stage' = "activate" /\ UNCHANGED <<new, answer>>
       \/ /\ store = "file"
          /\ secret' = Empty /\ stage' = "write" /\ UNCHANGED <<new, answer>>
       \/ Return("raised") /\ UNCHANGED secret
    /\ UNCHANGED <<store, provider>>

WriteSecret ==
    /\ stage = "write"
    /\ secret' = Whole(new) /\ stage' = "activate"
    /\ UNCHANGED <<store, provider, new, answer>>

(* A variant: the error of a write is taken for activate to find. *)
AfterFailedWriteActivate == stage' = "activate" /\ UNCHANGED <<new, answer>>
AfterFailedWrite == Return("raised")

WriteSecretRaises ==
    /\ stage = "write"
    /\ secret' \in {Empty, Partial(new)}
    /\ AfterFailedWrite
    /\ UNCHANGED <<store, provider>>

(* activate of either store: something is there, and it is not empty.       *)
Activates == secret.kind \in {"partial", "whole"}

Activate ==
    /\ stage = "activate"
    /\ IF Activates THEN stage' = "revoke" /\ UNCHANGED <<new, answer>>
       ELSE Return("ACTIVATION_FAILED_OLD_KEY_RETAINED")
    /\ UNCHANGED <<store, secret, provider>>

RevokeOld ==
    /\ stage = "revoke"
    /\ \/ valid' = {created} /\ (Return("ROTATION_SUCCESSFUL") \/ Return("raised"))
       \/ /\ UNCHANGED valid
          /\ Return("OLD_KEY_REVOCATION_PENDING") \/ Return("raised")
    /\ UNCHANGED <<store, secret, created>>

(* The process dies; what it was writing may be there in part.              *)
AgentDies ==
    /\ Return("none")
    /\ IF store = "memory" THEN secret' = Absent
       ELSE IF stage = "write" THEN secret' \in {Empty, Partial(new), Whole(new)}
       ELSE UNCHANGED secret
    /\ UNCHANGED <<store, provider>>

RotationNext ==
    \/ Refuse \/ Create \/ Validate \/ StoreSecret \/ WriteSecret
    \/ WriteSecretRaises \/ Activate \/ RevokeOld \/ AgentDies

RotationSpec == RotationInit /\ [][RotationNext]_rotationVars

-----------------------------------------------------------------------------
(* read of a store that was written whole: through failed and repeated      *)
(* rotations, crashes and lost answers it returns a key that the provider   *)
(* accepts, and after ROTATION_SUCCESSFUL the only one.                     *)
StoredKeyWorks ==
    /\ secret.kind = "whole" => secret.key \in valid
    /\ answer = "ROTATION_SUCCESSFUL" => secret = Whole(created) /\ valid = {created}

(* Lines 5-7: no key is ever revoked before the secret of its replacement   *)
(* is in the store, whole; whatever fails before that leaves every key that *)
(* worked working.                                                          *)
RevokedAfterReplaced ==
    [][valid \ valid' # {} => secret = Whole(created) /\ created \in valid']_rotationVars

(* Lines 29-32, "keinAusfall": activate tests the new connection, and       *)
(* otherwise the old key stays active.  A file that was replaced has no old *)
(* secret to go back to.                                                    *)
SomeSecretStays == store = "file" /\ stage = "idle" => secret.kind = "whole"

=============================================================================
