------------------------------- MODULE Delivery -------------------------------
(***************************************************************************)
(* The delivery of work: the handler submit_artifact (src/server/app.rs),  *)
(* over the live sessions, the idempotency records and the artifact        *)
(* locators of the storage (src/storage/core.rs), which tell where the     *)
(* manifest of a submission can be found.                                  *)
(*                                                                         *)
(* The handler makes four calls that change something: it takes its key,   *)
(* submits the manifest, stores the locator and finishes the key.  It may  *)
(* be dropped or end with an error between them.  What it reads in between *)
(* (who the assignment is for, the hash it has recorded) never changes any *)
(* more, and is read with the next call.                                   *)
(***************************************************************************)
EXTENDS LiveSession, Artifact

CONSTANTS
  Manifests,           \* what agents may submit
  Uris,                \* where they say it is; a number, see Artifact
  Keys, PendingTimeout,
  MaxCalls             \* bound of the model: handlers under way

ASSUME DeliveryAssumption ==
  /\ PendingTimeout \in Nat \ {0}
  /\ \A m \in Manifests :
       IsManifest(m) /\ (ValidShape(m) => ManifestHash(m) \in Outputs)

VARIABLES
  idempotency,   \* Storage: the records of keys
  locators,      \* Storage: ArtifactLocator by assignment
  calls          \* the handlers that have taken their key

I == INSTANCE Idempotency

deliveryVars == <<liveSessionVars, idempotency, locators, calls>>

SubmitArtifact == "SubmitArtifact"

Index(call) == I!IndexOf(call.caller, call.key)

-----------------------------------------------------------------------------

Ends(call) == calls' = calls \ {call}

(* Once it is submitted the manifest is not looked at any more.            *)
Reaches(call, stage) ==
  calls' = (calls \ {call}) \cup
             {[stage |-> stage, caller |-> call.caller, key |-> call.key,
               assignment |-> call.assignment, uri |-> call.uri,
               at |-> call.at]}

(* The caller is the agent of the assignment; its key is new or expired.   *)
BeginSubmit(a, key, m, uri, at) ==
  /\ Cardinality(calls) < MaxCalls
  /\ a \in DOMAIN assignments
  /\ I!Begin(I!IndexOf(assignments[a].agent, key), SubmitArtifact, at)
  /\ calls' = calls \cup
       {[stage |-> "begun", caller |-> assignments[a].agent, key |-> key,
         assignment |-> a, manifest |-> m, uri |-> uri, at |-> at]}
  /\ UNCHANGED <<liveSessionVars, locators>>

Accepts(call) ==
  ValidSubmission(call.manifest, assignments[call.assignment].task,
                  call.assignment, call.caller)

(* live_sessions.submit_artifact.  A submission may be recorded and yet be *)
(* refused by the clock of its session.                                    *)
Submit(call) ==
  /\ call.stage = "begun"
  /\ Accepts(call)
  /\ SubmitOutput(call.assignment, call.caller, ManifestHash(call.manifest),
                  call.at)
  /\ \/ reply' = "Ok" /\ Reaches(call, "submitted")
     \/ reply' # "Ok" /\ Ends(call)
  /\ UNCHANGED <<idempotency, locators>>

(* fault: the error of the live session is only logged.                    *)
SubmitFailsQuietly(call) ==
  /\ call.stage = "begun"
  /\ \/ ~Accepts(call)
     \/ ~StatusAt(call.assignment, {"Assigned"}, call.at)
  /\ Reaches(call, "submitted")
  /\ UNCHANGED <<liveSessionVars, idempotency, locators>>

(* An invalid manifest, or an assignment that is not waiting for one.      *)
SubmitFails(call) ==
  /\ call.stage = "begun"
  /\ \/ ~Accepts(call)
     \/ ~StatusAt(call.assignment, {"Assigned"}, call.at)
  /\ Ends(call)
  /\ UNCHANGED <<liveSessionVars, idempotency, locators>>

Locator(call) ==
  [hash |-> assignments[call.assignment].output, uri |-> call.uri,
   producer |-> call.caller, createdAt |-> call.at]

(* store_artifact_locator: what is stored stays.                           *)
StoreLocator(call) ==
  /\ call.stage = "submitted"
  /\ call.uri # Blank
  /\ call.assignment \in DOMAIN locators =>
       locators[call.assignment] = Locator(call)
  /\ locators' = [a \in DOMAIN locators \cup {call.assignment} |->
                    IF a = call.assignment THEN Locator(call) ELSE locators[a]]
  /\ Reaches(call, "stored")
  /\ UNCHANGED <<liveSessionVars, idempotency>>

(* ArtifactLocator::new wants a URI, after the submission was recorded.    *)
LocatorFails(call) ==
  /\ call.stage = "submitted"
  /\ \/ call.uri = Blank
     \/ /\ call.assignment \in DOMAIN locators
        /\ locators[call.assignment] # Locator(call)
  /\ Ends(call)
  /\ UNCHANGED <<liveSessionVars, idempotency, locators>>

FinishSubmit(call) ==
  /\ call.stage = "stored"
  /\ \/ I!Finish(Index(call), SubmitArtifact, I!Succeeded(call.assignment),
                 call.at)
     \/ /\ ~I!MayFinish(Index(call), SubmitArtifact, call.at)
        /\ UNCHANGED idempotency
  /\ Ends(call)
  /\ UNCHANGED <<liveSessionVars, locators>>

(* submitted_artifact: what a replay of a finished key answers with.       *)
IsAnswerable(a) == assignments[a].output # NoOutput /\ a \in DOMAIN locators

(* The client goes away.                                                   *)
Drop(call) ==
  /\ Ends(call)
  /\ UNCHANGED <<liveSessionVars, idempotency, locators>>

(* The other operations of the live sessions.                              *)
ElsewhereInLiveSession ==
  /\ \E at \in Time :
       \/ \E task \in Tasks : CreateSession(task, at)
       \/ \E s \in SessionId : CloseSession(s, at)
       \/ \E task \in Tasks, s \in SessionId, agent \in Agents,
             target \in AssignmentId \cup {NoTarget} :
            Assign(task, s, agent, target, at)
       \/ \E a \in AssignmentId : CancelIfAssigned(a, at) \/ CancelAssignment(a, at)
       \/ \E a \in AssignmentId, status \in {"Approved", "Rejected"} :
            MarkReviewed(a, status, at)
  /\ UNCHANGED <<idempotency, locators, calls>>

DeliveryInit ==
  /\ LiveSessionInit
  /\ I!IdempotencyInit
  /\ locators = [a \in {} |-> {}]
  /\ calls = {}

DeliveryNext ==
  \/ \E a \in AssignmentId, key \in Keys, m \in Manifests, uri \in Uris,
        at \in Time : BeginSubmit(a, key, m, uri, at)
  \/ \E call \in calls : \/ Submit(call) \/ SubmitFails(call)
                         \/ StoreLocator(call) \/ LocatorFails(call)
                         \/ FinishSubmit(call) \/ Drop(call)
  \/ ElsewhereInLiveSession

DeliverySpec == DeliveryInit /\ [][DeliveryNext]_deliveryVars

-----------------------------------------------------------------------------
(* Properties.                                                             *)

(* The hash of a submission is about that assignment, by its agent, and    *)
(* about files that can be told apart and fetched                          *)
(* (artifact/validator.rs:39-65, 110-152; livesession/core.rs:166-189).    *)
OutputsNameTheirWork ==
  \A a \in DOMAIN assignments :
    assignments[a].output # NoOutput =>
      LET payload == assignments[a].output.sha256
          files == payload.files
      IN  /\ payload.task = assignments[a].task
          /\ payload.assignment = a
          /\ payload.producer = assignments[a].agent
          /\ files # << >>
          /\ \A i \in DOMAIN files : files[i].uri # Blank
          /\ \A i, j \in DOMAIN files : i # j => files[i].path # files[j].path

(* A locator is that of the submission that was recorded, it is stored     *)
(* once, by the handler that submitted, and a key is only answered once    *)
(* the locator can be found: a replay never fails for want of it           *)
(* (app.rs:464-526, 1079-1094; storage/core.rs:170-186).                   *)
LocatorsFindTheWork ==
  /\ \A a \in DOMAIN locators :
       /\ locators[a].hash = assignments[a].output
       /\ locators[a].hash # NoOutput
       /\ locators[a].producer = assignments[a].agent
  /\ \A call \in calls :
       call.stage = "submitted" =>
         /\ call.assignment \notin DOMAIN locators
         /\ \A other \in calls \ {call} : other.assignment = call.assignment
                                            => other.stage = "begun"
  /\ \A i \in DOMAIN idempotency :
       ~I!IsPending(i) =>
         LET a == idempotency[i].outcome.answer
         IN  IsAnswerable(a) /\ locators[a].producer = i[1]

(* Whoever delivers the same artifact gets the same hash, however its      *)
(* files are listed.  Other files have another one, and so have the same   *)
(* files as an artifact made anew, with another id or time.  The kind of a *)
(* property is no part of its description (artifact/validator.rs:14-17,    *)
(* 67-108, 242-289).                                                       *)
RetriesHashAlike ==
  \A m, n \in {call.manifest : call \in {c \in calls : c.stage = "begun"
                                                       /\ Accepts(c)}} :
    ManifestHash(m) = ManifestHash(n) <=>
      /\ m.artifact = n.artifact /\ m.createdAt = n.createdAt
      /\ m.assignment = n.assignment
      /\ m.kind = n.kind
      /\ {Described(m.files[i]) : i \in DOMAIN m.files}
           = {Described(n.files[i]) : i \in DOMAIN n.files}

===============================================================================
