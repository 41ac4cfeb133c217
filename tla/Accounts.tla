------------------------------ MODULE Accounts ------------------------------
(***************************************************************************)
(* How identities come to exist and are given up over HTTP.                *)
(*                                                                         *)
(* Source: internal/alloc/alloc.go (AllocateRandom, ProvisionNamed,        *)
(* ResolveOrCreateNamed) and internal/api/identities.go (DestroyIdentity). *)
(*                                                                         *)
(* DestroyIdentity makes two statements outside any transaction, so the    *)
(* event of a destroyed identity is a step of its own and can be lost.     *)
(***************************************************************************)
EXTENDS MailRows

VARIABLE destroying   \* identities whose DELETE request is between the two

AccountsInit == destroying = {}

AccountsTypeOK == destroying \subseteq Random

\* The row, with its data key, and its event are one transaction.
CreateIdentity(i) ==
  /\ state[i] = "absent"
  /\ Unlocked(i)
  /\ state'   = [state EXCEPT ![i] = "active"]
  /\ dataKey' = [dataKey EXCEPT ![i] = TRUE]
  /\ Emit({Event("identity.created", i, 0)})
  /\ UNCHANGED <<deliverySeq, usedMessages, usedBytes, lock, deliveries,
                 attachments, blobVars, faults, destroying>>

\* Only a random address can be minted again under another local part, so an
\* address of either kind gets at most one row.
AllocateRandom(i) == i \in Random /\ CreateIdentity(i)

\* Opening a name that exists changes nothing, whatever its state.
OpenNamed(i) == i \in Named /\ CreateIdentity(i)

\* SetIdentityState(expired, from active or expiring) waits for the row lock.
DestroyIdentity(i) ==
  /\ i \in Random
  /\ AcceptsMail(i)
  /\ Unlocked(i)
  /\ state'      = [state EXCEPT ![i] = "expired"]
  /\ destroying' = destroying \cup {i}
  /\ UNCHANGED <<dataKey, deliverySeq, usedMessages, usedBytes, lock,
                 deliveries, attachments, blobVars, events, faults>>

RecordDestroyed(i) ==
  /\ i \in destroying
  /\ Emit({Event("identity.expired", i, 0)})
  /\ destroying' = destroying \ {i}
  /\ UNCHANGED <<identityVars, lock, deliveries, attachments, blobVars,
                 faults>>

\* The process dies, or the second statement fails: nothing retries it.
LoseDestroyed(i) ==
  /\ i \in destroying
  /\ Fault
  /\ destroying' = destroying \ {i}
  /\ UNCHANGED <<identityVars, lock, deliveries, attachments, blobVars,
                 events>>

AccountsStep ==
  \E i \in Identities :
    \/ AllocateRandom(i)
    \/ OpenNamed(i)
    \/ DestroyIdentity(i)
    \/ RecordDestroyed(i)
    \/ LoseDestroyed(i)
=============================================================================
