---------------------------- MODULE Idempotency -----------------------------
(***************************************************************************)
(* The idempotency records of StorageCore (src/storage/core.rs): what is   *)
(* known of an operation that an agent asked for under a key.              *)
(* A record that stays pending for PendingTimeout is taken for lost, and   *)
(* its key may be used again.  No caller ever records a failure.           *)
(***************************************************************************)
EXTENDS Naturals

CONSTANTS
  Agents,           \* agent ids
  Keys,             \* idempotency keys, which agents choose
  PendingTimeout    \* how long a pending operation keeps its key

VARIABLE idempotency   \* IdempotencyRecord by agent and key

Pending == [state |-> "Pending"]
Succeeded(answer) == [state |-> "Succeeded", answer |-> answer]

IdempotencyInit == idempotency = [i \in {} |-> {}]

-----------------------------------------------------------------------------

(* fault: agents that choose the same key share the record.                *)
IndexByKey(caller, key) == <<CHOOSE a \in Agents : TRUE, key>>

IndexOf(caller, key) == <<caller, key>>

HasRecord(i) == i \in DOMAIN idempotency

IsPending(i) == idempotency[i].outcome = Pending

(* fault: a retry that is one tick early takes the key over.               *)
ExpiredEarly(i, at) == at + 1 >= idempotency[i].updatedAt + PendingTimeout

(* pending_expired; an earlier time is refused.                            *)
Expired(i, at) == at >= idempotency[i].updatedAt + PendingTimeout

(* begin_idempotency: Started.  The other decisions change nothing: an     *)
(* error, or Replay with the record.                                       *)
Begin(i, operation, at) ==
  /\ HasRecord(i) => /\ idempotency[i].operation = operation
                     /\ IsPending(i)
                     /\ Expired(i, at)
  /\ idempotency' = [j \in DOMAIN idempotency \cup {i} |->
                       IF j = i THEN [operation |-> operation,
                                      outcome |-> Pending, updatedAt |-> at]
                                ELSE idempotency[j]]

(* fault: whoever comes last has the answer.                               *)
MayFinishAgain(i, operation, at) ==
  HasRecord(i) /\ idempotency[i].operation = operation

(* Otherwise: IdempotencyNotFound, IdempotencyConflict,                    *)
(* IdempotencyTimestampWentBackwards, or an outcome was recorded before.   *)
MayFinish(i, operation, at) ==
  /\ HasRecord(i)
  /\ idempotency[i].operation = operation
  /\ at >= idempotency[i].updatedAt
  /\ IsPending(i)

Finish(i, operation, outcome, at) ==
  /\ MayFinish(i, operation, at)
  /\ idempotency' = [idempotency EXCEPT ![i] =
                       [operation |-> operation, outcome |-> outcome,
                        updatedAt |-> at]]

=============================================================================
