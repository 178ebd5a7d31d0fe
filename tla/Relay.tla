-------------------------------- MODULE Relay --------------------------------
(***************************************************************************)
(* RelayCore (src/relay/core.rs): slots in which one agent leaves an       *)
(* encrypted blob for another, for a time and for a number of downloads.   *)
(*                                                                         *)
(* A blob is known by its length.  A token names the slot and the right it *)
(* gives: 32 random bytes and their hash do no more.  The time of a call   *)
(* is the one its handler read, so times reach the core in any order.      *)
(***************************************************************************)
EXTENDS Naturals, FiniteSets

CONSTANTS
  MaxBlobSize, DefaultTtl, MaxTtl,     \* RelayConfig
  DefaultDownloads, DownloadLimit,
  Sizes, Ttls, Downloads,              \* what callers ask for
  MaxTime,                             \* bound of the model: the last time
  MaxSlots                             \* bound of the model: relay ids

(* validate_config.                                                        *)
ASSUME RelayConfigAssumption ==
  /\ MaxBlobSize \in Nat \ {0}
  /\ MaxTtl \in Nat /\ DefaultTtl \in 1 .. MaxTtl
  /\ DownloadLimit \in Nat /\ DefaultDownloads \in 1 .. DownloadLimit

ASSUME RelayBounds ==
  /\ Sizes \subseteq Nat /\ Ttls \subseteq Nat /\ Downloads \subseteq Nat
  /\ MaxTime \in Nat /\ MaxSlots \in Nat

VARIABLES
  slots,    \* RelaySlot by the number of its id
  served    \* history: blobs handed out, by slot

relayVars == <<slots, served>>

-----------------------------------------------------------------------------
(* Types.                                                                  *)

RelayTime == 0 .. MaxTime
RelayId == 1 .. MaxSlots
Default == 0              \* a ttl or a number of downloads that is not given
NoBlob == 0               \* encrypted_blob is None; a slot has room for more
Status == {"Created", "Uploaded", "Consumed", "Expired", "Deleted"}

RelaySlot ==
  [size : 1 .. MaxBlobSize, maxDownloads : 1 .. DownloadLimit, count : Nat,
   status : Status, createdAt : Nat, expiresAt : Nat, blob : Nat]

Right == {"upload", "download"}
TokenFor(right, r) == [right |-> right, slot |-> r]
Token == {TokenFor(right, r) : right \in Right, r \in RelayId}

-----------------------------------------------------------------------------
(* What a call is told: "Ok", or the first of these that applies.          *)

ValidDownloads(downloads) == downloads \in 1 .. DownloadLimit

(* create_slot, with the defaults filled in.                               *)
CreateReply(size, ttl, downloads) ==
  IF size \notin 1 .. MaxBlobSize THEN "InvalidSize"
  ELSE IF ttl \notin 1 .. MaxTtl THEN "InvalidTtl"
  ELSE IF ~ValidDownloads(downloads) THEN "InvalidMaxDownloads"
  ELSE "Ok"

(* reject_if_time_went_backwards, reject_if_expired.                       *)
TooEarly(r, now) == now < slots[r].createdAt
IsPast(r, now) == now >= slots[r].expiresAt

(* What upload and download have in common.                                *)
AccessReply(r, right, token, now) ==
  IF r \notin DOMAIN slots THEN "RelayNotFound"
  ELSE IF TooEarly(r, now) THEN "TimestampWentBackwards"
  ELSE IF IsPast(r, now) THEN "Expired"
  ELSE IF token # TokenFor(right, r) THEN "Unauthorized"
  ELSE IF slots[r].status = "Deleted" THEN "Deleted"
  ELSE "Ok"

UploadReply(r, token, blob, now) ==
  LET access == AccessReply(r, "upload", token, now)
  IN  IF access # "Ok" THEN access
      ELSE IF slots[r].blob # NoBlob \/ slots[r].status = "Uploaded"
           THEN "AlreadyUploaded"
      ELSE IF blob # slots[r].size THEN "SizeMismatch"
      ELSE "Ok"

IsSpent(slot) == slot.count >= slot.maxDownloads

DownloadReply(r, token, now) ==
  LET access == AccessReply(r, "download", token, now)
  IN  IF access # "Ok" THEN access
      ELSE IF slots[r].status = "Created" THEN "NotUploaded"
      ELSE IF IsSpent(slots[r]) THEN "DownloadLimitExceeded"
      ELSE IF slots[r].blob = NoBlob THEN "NotUploaded"
      ELSE "Ok"

DeleteReply(r, token, now) ==
  IF r \notin DOMAIN slots THEN "RelayNotFound"
  ELSE IF TooEarly(r, now) THEN "TimestampWentBackwards"
  ELSE IF token # TokenFor("upload", r) THEN "Unauthorized"
  ELSE "Ok"

-----------------------------------------------------------------------------
(* What a call does, whatever it is told.                                  *)

RelayInit ==
  /\ slots = [r \in {} |-> {}]
  /\ served = [r \in {} |-> 0]

OrDefault(value, default) == IF value = Default THEN default ELSE value

NextRelayId == Cardinality(DOMAIN slots) + 1

NewSlot(size, ttl, downloads, now) ==
  [size |-> size, maxDownloads |-> downloads, count |-> 0,
   status |-> "Created", createdAt |-> now, expiresAt |-> now + ttl,
   blob |-> NoBlob]

CreateSlot(size, ttl, downloads, now) ==
  LET life == OrDefault(ttl, DefaultTtl)
      limit == OrDefault(downloads, DefaultDownloads)
  IN  \/ /\ CreateReply(size, life, limit) = "Ok"
         /\ slots' = [r \in DOMAIN slots \cup {NextRelayId} |->
                        IF r = NextRelayId
                        THEN NewSlot(size, life, limit, now) ELSE slots[r]]
         /\ served' = [r \in DOMAIN slots \cup {NextRelayId} |->
                         IF r = NextRelayId THEN 0 ELSE served[r]]
      \/ /\ CreateReply(size, life, limit) # "Ok"
         /\ UNCHANGED relayVars

(* fault: a second upload starts the count again.                          *)
UploadAfresh(r, token, blob, now) ==
  /\ slots' = IF UploadReply(r, token, blob, now) = "Ok"
              THEN [slots EXCEPT ![r].blob = blob, ![r].count = 0,
                                 ![r].status = "Uploaded"]
              ELSE slots
  /\ UNCHANGED served

(* A slot whose blob was consumed may be uploaded to again.                *)
Upload(r, token, blob, now) ==
  /\ slots' = IF UploadReply(r, token, blob, now) = "Ok"
              THEN [slots EXCEPT ![r].blob = blob, ![r].status = "Uploaded"]
              ELSE slots
  /\ UNCHANGED served

(* The last download that is granted takes the blob.                       *)
Counted(slot) ==
  LET taken == [slot EXCEPT !.count = @ + 1]
  IN  IF IsSpent(taken)
      THEN [taken EXCEPT !.status = "Consumed", !.blob = NoBlob]
      ELSE taken

(* A download that is refused for the limit still says so in the status.   *)
Download(r, token, now) ==
  \/ /\ DownloadReply(r, token, now) = "Ok"
     /\ slots' = [slots EXCEPT ![r] = Counted(@)]
     /\ served' = [served EXCEPT ![r] = @ + 1]
  \/ /\ DownloadReply(r, token, now) = "DownloadLimitExceeded"
     /\ slots' = [slots EXCEPT ![r].status = "Consumed"]
     /\ UNCHANGED served
  \/ /\ DownloadReply(r, token, now) \notin {"Ok", "DownloadLimitExceeded"}
     /\ UNCHANGED relayVars

(* fault: the blob is only marked.                                         *)
MarkDeleted(r, token, now) ==
  /\ slots' = IF DeleteReply(r, token, now) = "Ok"
              THEN [slots EXCEPT ![r].status = "Deleted"]
              ELSE slots
  /\ UNCHANGED served

Delete(r, token, now) ==
  /\ slots' = IF DeleteReply(r, token, now) = "Ok"
              THEN [slots EXCEPT ![r].blob = NoBlob, ![r].status = "Deleted"]
              ELSE slots
  /\ UNCHANGED served

(* fault: a sweep at the very time leaves the slot.                        *)
SweptLater(r, now) ==
  /\ slots[r].status \notin {"Consumed", "Deleted", "Expired"}
  /\ now > slots[r].expiresAt

(* Slots that are Consumed, Deleted or Expired are taken to be empty.      *)
IsSwept(r, now) ==
  /\ slots[r].status \notin {"Consumed", "Deleted", "Expired"}
  /\ IsPast(r, now)

Expire(now) ==
  /\ slots' = [r \in DOMAIN slots |->
                 IF IsSwept(r, now)
                 THEN [slots[r] EXCEPT !.blob = NoBlob, !.status = "Expired"]
                 ELSE slots[r]]
  /\ UNCHANGED served

-----------------------------------------------------------------------------
(* Calls as the service gets them.                                         *)

(* RelayCommand, without its reply.                                        *)
RelayCommand ==
  [op : {"CreateSlot"}, size : Sizes, ttl : Ttls, downloads : Downloads,
   now : RelayTime]
    \cup [op : {"Upload"}, relay : RelayId, token : Token, blob : Sizes,
          now : RelayTime]
    \cup [op : {"Download", "Delete"}, relay : RelayId, token : Token,
          now : RelayTime]
    \cup [op : {"Expire"}, now : RelayTime]
    \cup [op : {"Shutdown"}]

(* handle_command.                                                         *)
Perform(call) ==
  \/ /\ call.op = "CreateSlot"
     /\ CreateSlot(call.size, call.ttl, call.downloads, call.now)
  \/ /\ call.op = "Upload"
     /\ Upload(call.relay, call.token, call.blob, call.now)
  \/ /\ call.op = "Download"
     /\ Download(call.relay, call.token, call.now)
  \/ /\ call.op = "Delete"
     /\ Delete(call.relay, call.token, call.now)
  \/ call.op = "Expire" /\ Expire(call.now)
  \/ call.op = "Shutdown" /\ UNCHANGED relayVars

(* What `reply` carries back.                                              *)
ReplyTo(call) ==
  CASE call.op = "CreateSlot" ->
         CreateReply(call.size, OrDefault(call.ttl, DefaultTtl),
                     OrDefault(call.downloads, DefaultDownloads))
    [] call.op = "Upload" ->
         UploadReply(call.relay, call.token, call.blob, call.now)
    [] call.op = "Download" -> DownloadReply(call.relay, call.token, call.now)
    [] call.op = "Delete" -> DeleteReply(call.relay, call.token, call.now)
    [] OTHER -> "Ok"

(* What the client is told: map_relay_error and the status of HttpError.   *)
AnswerTo(call) ==
  LET reply == ReplyTo(call)
  IN  CASE reply = "Ok" -> "Ok"
        [] reply = "Unauthorized" -> "Unauthorized"
        [] reply \in {"RelayNotFound", "Expired", "Deleted"} -> "NotFound"
        [] OTHER -> "BadRequest"

Failure == "InternalServerError"   \* Stopped or ResponseDropped

RelayNext == \E call \in RelayCommand : Perform(call)

RelaySpec == RelayInit /\ [][RelayNext]_relayVars

-----------------------------------------------------------------------------
(* Properties.                                                             *)

(* Ids are given out without gaps; a slot is within the limits it was      *)
(* granted, and only a slot that was uploaded to holds a blob, of the size *)
(* that was announced (core.rs:39-86, 108-121).                            *)
RelayTypeOK ==
  /\ DOMAIN slots = 1 .. Cardinality(DOMAIN slots)
  /\ \A r \in DOMAIN slots :
       /\ slots[r] \in RelaySlot
       /\ slots[r].blob \in {NoBlob, slots[r].size}
       /\ slots[r].blob # NoBlob => slots[r].status \in {"Uploaded", "Consumed"}

(* A slot never hands out more blobs than it was granted downloads in all  *)
(* its life, however often it is consumed, uploaded to again and asked for *)
(* (core.rs:91-161).                                                       *)
CopiesAreCounted ==
  /\ DOMAIN served = DOMAIN slots
  /\ \A r \in DOMAIN slots :
       /\ served[r] = slots[r].count
       /\ served[r] <= slots[r].maxDownloads

(* A slot that was deleted stays so and stays empty, although calls that   *)
(* began earlier come later; what was granted never changes; downloads are *)
(* never taken back (core.rs:103-105, 135-137, 163-196).                   *)
SlotAdvances(r) ==
  LET old == slots[r]
      new == slots'[r]
  IN  /\ old.status = "Deleted" => new.status = "Deleted" /\ new.blob = NoBlob
      /\ new.count >= old.count
      /\ <<new.size, new.maxDownloads, new.createdAt, new.expiresAt>>
           = <<old.size, old.maxDownloads, old.createdAt, old.expiresAt>>

DeletedIsFinal ==
  [][\A r \in DOMAIN slots : r \in DOMAIN slots' /\ SlotAdvances(r)]_relayVars

=============================================================================
