----------------------------- MODULE RelayProofs -----------------------------
(***************************************************************************)
(* What the relay keeps, for every configuration, all sizes, lives and     *)
(* numbers of downloads that are asked for, calls that arrive in any order *)
(* of their times, and any number of callers and places in the channel;    *)
(* and that the service with its channel implements AtomicRelay.           *)
(***************************************************************************)
EXTENDS RelayService, FiniteSetTheorems, SequenceTheorems, TLAPS

(* A slot is within what it was granted, and its blob is what was          *)
(* announced.  What a sweep passes over holds a blob only if it was asked  *)
(* for in vain.                                                            *)
IsSound(slot) ==
  /\ slot \in RelaySlot
  /\ slot.blob \in {NoBlob, slot.size}
  /\ slot.blob # NoBlob => slot.status \in {"Uploaded", "Consumed"}
  /\ slot.count <= slot.maxDownloads
  /\ slot.status = "Consumed" /\ slot.blob # NoBlob => IsSpent(slot)

(* The inductive invariant: CopiesAreCounted needs to know that a count is *)
(* a number, and the ids that they have no gaps.                           *)
RelayInv ==
  /\ \E n \in Nat : DOMAIN slots = 1 .. n
  /\ slots = [r \in DOMAIN slots |-> slots[r]]
  /\ \A r \in DOMAIN slots : IsSound(slots[r])
  /\ served = [r \in DOMAIN slots |-> slots[r].count]

(* SlotAdvances, as a relation of two slots.                               *)
Advances(old, new) ==
  /\ old.status = "Deleted" => new.status = "Deleted" /\ new.blob = NoBlob
  /\ new.count >= old.count
  /\ new.size = old.size
  /\ new.maxDownloads = old.maxDownloads
  /\ new.createdAt = old.createdAt
  /\ new.expiresAt = old.expiresAt

(* What a step keeps and does.                                             *)
Keeps == RelayInv' /\ \A r \in DOMAIN slots : r \in DOMAIN slots' /\ SlotAdvances(r)

-----------------------------------------------------------------------------

LEMMA NextId ==
  ASSUME NEW n \in Nat, DOMAIN slots = 1 .. n
  PROVE  NextRelayId = n + 1 /\ Cardinality(DOMAIN slots) = n
BY FS_Interval DEF NextRelayId

LEMMA InvImpliesProperties ==
  RelayInv => RelayTypeOK /\ CopiesAreCounted
<1> SUFFICES ASSUME RelayInv
             PROVE  RelayTypeOK /\ CopiesAreCounted
  OBVIOUS
<1>1. PICK n \in Nat : DOMAIN slots = 1 .. n
  BY DEF RelayInv
<1>2. DOMAIN slots = 1 .. Cardinality(DOMAIN slots)
  BY <1>1, NextId
<1> QED
  BY <1>2 DEF RelayInv, IsSound, RelayTypeOK, CopiesAreCounted

LEMMA InitInv == RelayInit => RelayInv
<1> SUFFICES ASSUME RelayInit
             PROVE  RelayInv
  OBVIOUS
<1>1. 0 \in Nat /\ 1 .. 0 = {}
  OBVIOUS
<1> QED
  BY <1>1 DEF RelayInit, RelayInv

LEMMA StutterKeeps ==
  ASSUME RelayInv, UNCHANGED relayVars
  PROVE  Keeps
<1>1. slots' = slots /\ served' = served
  BY DEF relayVars
<1>2. RelayInv'
  BY <1>1 DEF RelayInv, IsSound
<1>3. \A r \in DOMAIN slots : SlotAdvances(r)
  BY <1>1 DEF RelayInv, IsSound, RelaySlot, SlotAdvances
<1> QED
  BY <1>1, <1>2, <1>3 DEF Keeps

LEMMA AdvancesAgree ==
  ASSUME NEW r, Advances(slots[r], slots'[r])
  PROVE  SlotAdvances(r)
BY DEF SlotAdvances, Advances

LEMMA StaysAsItIs ==
  ASSUME NEW slot, IsSound(slot)
  PROVE  Advances(slot, slot)
BY DEF Advances, IsSound, RelaySlot, NoBlob

(* What the operations change in a slot.                                   *)
Changed(slot, count, status, blob) ==
  [slot EXCEPT !.count = count, !.status = status, !.blob = blob]

LEMMA ChangedSlot ==
  ASSUME NEW slot, IsSound(slot),
         NEW count \in Nat, NEW status \in Status, NEW blob \in {NoBlob, slot.size},
         count >= slot.count, count <= slot.maxDownloads,
         blob # NoBlob => status \in {"Uploaded", "Consumed"},
         status = "Consumed" /\ blob # NoBlob => count >= slot.maxDownloads,
         slot.status = "Deleted" => status = "Deleted"
  PROVE  /\ IsSound(Changed(slot, count, status, blob))
         /\ Advances(slot, Changed(slot, count, status, blob))
         /\ Changed(slot, count, status, blob).count = count
<1> DEFINE new == Changed(slot, count, status, blob)
<1>1. slot \in RelaySlot
  BY DEF IsSound
<1>2. blob \in Nat
  BY <1>1, RelayConfigAssumption DEF RelaySlot, NoBlob
<1>3. new \in RelaySlot
  BY <1>1, <1>2 DEF RelaySlot, Changed
<1>4. /\ new.size = slot.size /\ new.maxDownloads = slot.maxDownloads
      /\ new.createdAt = slot.createdAt /\ new.expiresAt = slot.expiresAt
      /\ new.count = count /\ new.status = status /\ new.blob = blob
  BY <1>1 DEF RelaySlot, Changed
<1>5. status = "Deleted" => blob = NoBlob
  OBVIOUS
<1> HIDE DEF new
<1>6. IsSound(new) /\ Advances(slot, new) /\ new.count = count
  BY <1>1, <1>3, <1>4, <1>5 DEF IsSound, IsSpent, Advances
<1> QED
  BY <1>6 DEF new

(* What ChangedSlot asks of the parts that are left.                       *)
LEMMA Fields ==
  ASSUME NEW slot, IsSound(slot)
  PROVE  /\ slot.count \in Nat /\ slot.count >= slot.count
         /\ slot.count <= slot.maxDownloads
         /\ slot.status \in Status
         /\ slot.blob \in {NoBlob, slot.size}
         /\ slot.blob # NoBlob => slot.status \in {"Uploaded", "Consumed"}
         /\ slot.status = "Consumed" /\ slot.blob # NoBlob
              => slot.count >= slot.maxDownloads
BY DEF IsSound, IsSpent, RelaySlot

(* One slot is replaced by a later state of it.                            *)
LEMMA ReplaceKeeps ==
  ASSUME RelayInv, NEW r \in DOMAIN slots, NEW new,
         IsSound(new), Advances(slots[r], new),
         slots' = [slots EXCEPT ![r] = new],
         served' = [served EXCEPT ![r] = new.count]
  PROVE  Keeps
<1>1. DOMAIN slots' = DOMAIN slots
  BY DEF RelayInv
<1>2. \A q \in DOMAIN slots : slots'[q] = IF q = r THEN new ELSE slots[q]
  BY DEF RelayInv
<1>3. served' = [q \in DOMAIN slots' |-> slots'[q].count]
  BY <1>1, <1>2 DEF RelayInv
<1>4. slots' = [q \in DOMAIN slots' |-> slots'[q]]
  BY <1>1, <1>2 DEF RelayInv
<1>5. \A q \in DOMAIN slots' : IsSound(slots'[q])
  BY <1>1, <1>2 DEF RelayInv
<1>6. RelayInv'
  BY <1>1, <1>3, <1>4, <1>5 DEF RelayInv, IsSound
<1>7. \A q \in DOMAIN slots : Advances(slots[q], slots'[q])
  BY <1>2, StaysAsItIs DEF RelayInv
<1>8. \A q \in DOMAIN slots : SlotAdvances(q)
  BY <1>7, AdvancesAgree
<1> QED
  BY <1>1, <1>6, <1>8 DEF Keeps

-----------------------------------------------------------------------------
(* The operations of the core.                                             *)

LEMMA CreateKeeps ==
  ASSUME RelayInv, NEW size, NEW ttl, NEW downloads, NEW now \in RelayTime,
         CreateSlot(size, ttl, downloads, now)
  PROVE  Keeps
<1> DEFINE life == OrDefault(ttl, DefaultTtl)
           limit == OrDefault(downloads, DefaultDownloads)
           new == NewSlot(size, life, limit, now)
<1>1. CASE CreateReply(size, life, limit) # "Ok"
  BY <1>1, StutterKeeps DEF CreateSlot
<1>2. CASE CreateReply(size, life, limit) = "Ok"
  <2>1. PICK n \in Nat : DOMAIN slots = 1 .. n
    BY DEF RelayInv
  <2>2. NextRelayId = n + 1 /\ NextRelayId \notin DOMAIN slots
    BY <2>1, NextId
  <2>3. DOMAIN slots \cup {NextRelayId} = 1 .. n + 1
    BY <2>1, <2>2
  <2>4. /\ slots' = [r \in 1 .. n + 1 |->
                       IF r = NextRelayId THEN new ELSE slots[r]]
        /\ served' = [r \in 1 .. n + 1 |->
                        IF r = NextRelayId THEN 0 ELSE served[r]]
    BY <1>2, <2>3 DEF CreateSlot, relayVars
  <2>5. now \in Nat
    BY RelayBounds DEF RelayTime
  <2>6. /\ size \in 1 .. MaxBlobSize /\ life \in 1 .. MaxTtl
        /\ limit \in 1 .. DownloadLimit
    BY <1>2 DEF CreateReply, ValidDownloads
  <2>7. IsSound(new) /\ new.count = 0
    BY <2>5, <2>6, RelayConfigAssumption
       DEF NewSlot, IsSound, RelaySlot, Status, NoBlob
  <2>8. \A r \in 1 .. n : slots'[r] = slots[r] /\ served'[r] = served[r]
    BY <2>1, <2>2, <2>4
  <2>9. RelayInv'
    <3>1. DOMAIN slots' = 1 .. n + 1 /\ n + 1 \in Nat
      BY <2>4
    <3>2. \A r \in DOMAIN slots' : IsSound(slots'[r])
      BY <2>1, <2>2, <2>3, <2>4, <2>7 DEF RelayInv
    <3>3. served' = [r \in DOMAIN slots' |-> slots'[r].count]
      BY <2>1, <2>2, <2>3, <2>4, <2>7 DEF RelayInv
    <3> QED
      BY <2>4, <3>1, <3>2, <3>3 DEF RelayInv, IsSound
  <2>10. \A r \in DOMAIN slots : r \in DOMAIN slots' /\ SlotAdvances(r)
    <3>1. \A r \in DOMAIN slots : Advances(slots[r], slots'[r])
      BY <2>1, <2>8, StaysAsItIs DEF RelayInv
    <3> QED
      BY <2>1, <2>3, <2>4, <3>1, AdvancesAgree
  <2> QED
    BY <2>9, <2>10 DEF Keeps
<1> QED
  BY <1>1, <1>2

LEMMA UploadKeeps ==
  ASSUME RelayInv, NEW r, NEW token, NEW blob, NEW now,
         Upload(r, token, blob, now)
  PROVE  Keeps
<1>1. CASE UploadReply(r, token, blob, now) # "Ok"
  BY <1>1, StutterKeeps DEF Upload, relayVars
<1>2. CASE UploadReply(r, token, blob, now) = "Ok"
  <2> DEFINE new == [slots[r] EXCEPT !.blob = blob, !.status = "Uploaded"]
  <2>1. /\ r \in DOMAIN slots
        /\ slots[r].status # "Deleted"
        /\ blob = slots[r].size
    BY <1>2 DEF UploadReply, AccessReply
  <2>2. IsSound(slots[r]) /\ served[r] = slots[r].count
    BY <2>1 DEF RelayInv
  <2>3. slots' = [slots EXCEPT ![r] = new]
    BY <1>2, <2>1, <2>2 DEF Upload, IsSound, RelaySlot
  <2>4. IsSound(new) /\ Advances(slots[r], new) /\ new.count = slots[r].count
    <3>1. new = Changed(slots[r], slots[r].count, "Uploaded", blob)
      BY <2>2 DEF IsSound, RelaySlot, Changed
    <3> QED
      BY <2>1, <2>2, <3>1, Fields, ChangedSlot DEF Status
  <2>5. served' = [served EXCEPT ![r] = new.count]
    BY <2>1, <2>2, <2>4 DEF Upload, RelayInv
  <2> QED
    BY <2>1, <2>3, <2>4, <2>5, ReplaceKeeps
<1> QED
  BY <1>1, <1>2

LEMMA DownloadKeeps ==
  ASSUME RelayInv, NEW r, NEW token, NEW now, Download(r, token, now)
  PROVE  Keeps
<1>1. CASE DownloadReply(r, token, now) \notin {"Ok", "DownloadLimitExceeded"}
  BY <1>1, StutterKeeps DEF Download
<1>2. CASE DownloadReply(r, token, now) \in {"Ok", "DownloadLimitExceeded"}
  <2>1. /\ r \in DOMAIN slots
        /\ slots[r].status \notin {"Created", "Deleted"}
        /\ DownloadReply(r, token, now) = "Ok" => ~IsSpent(slots[r])
    BY <1>2 DEF DownloadReply, AccessReply
  <2>2. IsSound(slots[r]) /\ served[r] = slots[r].count
    BY <2>1 DEF RelayInv
  <2>3. CASE DownloadReply(r, token, now) = "Ok"
    <3> DEFINE new == Counted(slots[r])
    <3>1. /\ slots' = [slots EXCEPT ![r] = new]
          /\ served' = [served EXCEPT ![r] = @ + 1]
      BY <2>3 DEF Download
    <3>2. slots[r].count + 1 <= slots[r].maxDownloads
      BY <2>1, <2>2, <2>3 DEF IsSpent, IsSound, RelaySlot
    <3>3. IsSound(new) /\ Advances(slots[r], new) /\ new.count = slots[r].count + 1
      <4> DEFINE taken == [slots[r] EXCEPT !.count = @ + 1]
      <4>1. /\ slots[r] \in RelaySlot /\ slots[r].count + 1 \in Nat
            /\ slots[r].count + 1 >= slots[r].count
            /\ slots[r].status \in Status
            /\ slots[r].blob \in {NoBlob, slots[r].size}
            /\ slots[r].blob # NoBlob => slots[r].status \in {"Uploaded", "Consumed"}
        BY <2>2 DEF IsSound, RelaySlot
      <4>2. CASE IsSpent(taken)
        <5>1. new = Changed(slots[r], slots[r].count + 1, "Consumed", NoBlob)
          BY <4>1, <4>2 DEF Counted, RelaySlot, Changed
        <5> QED
          BY <2>1, <2>2, <3>2, <4>1, <5>1, ChangedSlot DEF Status
      <4>3. CASE ~IsSpent(taken)
        <5>1. new = Changed(slots[r], slots[r].count + 1, slots[r].status, slots[r].blob)
          BY <4>1, <4>3 DEF Counted, RelaySlot, Changed
        <5>2. ~(slots[r].status = "Consumed" /\ slots[r].blob # NoBlob)
          BY <2>1, <2>2, <2>3 DEF IsSound
        <5> QED
          BY <2>1, <2>2, <3>2, <4>1, <5>1, <5>2, ChangedSlot
      <4> QED
        BY <4>2, <4>3
    <3>4. served' = [served EXCEPT ![r] = new.count]
      BY <2>1, <2>2, <3>1, <3>3 DEF RelayInv
    <3> QED
      BY <2>1, <3>1, <3>3, <3>4, ReplaceKeeps
  <2>4. CASE DownloadReply(r, token, now) = "DownloadLimitExceeded"
    <3> DEFINE new == [slots[r] EXCEPT !.status = "Consumed"]
    <3>1. slots' = [slots EXCEPT ![r] = new] /\ served' = served
      BY <2>4 DEF Download
    <3>2. IsSound(new) /\ Advances(slots[r], new) /\ new.count = slots[r].count
      <4>1. new = Changed(slots[r], slots[r].count, "Consumed", slots[r].blob)
        BY <2>2 DEF IsSound, RelaySlot, Changed
      <4>2. slots[r].count >= slots[r].maxDownloads
        BY <2>4 DEF DownloadReply, AccessReply, IsSpent
      <4> QED
        BY <2>1, <2>2, <4>1, <4>2, Fields, ChangedSlot DEF Status
    <3>3. served' = [served EXCEPT ![r] = new.count]
      BY <2>1, <2>2, <3>1, <3>2 DEF RelayInv
    <3> QED
      BY <2>1, <3>1, <3>2, <3>3, ReplaceKeeps
  <2> QED
    BY <1>2, <2>3, <2>4
<1> QED
  BY <1>1, <1>2

LEMMA DeleteKeeps ==
  ASSUME RelayInv, NEW r, NEW token, NEW now, Delete(r, token, now)
  PROVE  Keeps
<1>1. CASE DeleteReply(r, token, now) # "Ok"
  BY <1>1, StutterKeeps DEF Delete, relayVars
<1>2. CASE DeleteReply(r, token, now) = "Ok"
  <2> DEFINE new == [slots[r] EXCEPT !.blob = NoBlob, !.status = "Deleted"]
  <2>1. r \in DOMAIN slots
    BY <1>2 DEF DeleteReply
  <2>2. IsSound(slots[r]) /\ served[r] = slots[r].count
    BY <2>1 DEF RelayInv
  <2>3. slots' = [slots EXCEPT ![r] = new]
    BY <1>2, <2>1, <2>2 DEF Delete, IsSound, RelaySlot
  <2>4. IsSound(new) /\ Advances(slots[r], new) /\ new.count = slots[r].count
    <3>1. new = Changed(slots[r], slots[r].count, "Deleted", NoBlob)
      BY <2>2 DEF IsSound, RelaySlot, Changed
    <3> QED
      BY <2>2, <3>1, Fields, ChangedSlot DEF Status
  <2>5. served' = [served EXCEPT ![r] = new.count]
    BY <2>1, <2>2, <2>4 DEF Delete, RelayInv
  <2> QED
    BY <2>1, <2>3, <2>4, <2>5, ReplaceKeeps
<1> QED
  BY <1>1, <1>2

LEMMA ExpireKeeps ==
  ASSUME RelayInv, NEW now, Expire(now)
  PROVE  Keeps
<1>1. DOMAIN slots' = DOMAIN slots /\ served' = served
  BY DEF Expire
<1>2. ASSUME NEW r \in DOMAIN slots
      PROVE  /\ IsSound(slots'[r])
             /\ Advances(slots[r], slots'[r])
             /\ slots'[r].count = slots[r].count
  <2>1. IsSound(slots[r])
    BY DEF RelayInv
  <2>2. slots'[r] = IF IsSwept(r, now)
                    THEN [slots[r] EXCEPT !.blob = NoBlob, !.status = "Expired"]
                    ELSE slots[r]
    BY DEF Expire
  <2>3. CASE IsSwept(r, now)
    <3>1. slots'[r] = Changed(slots[r], slots[r].count, "Expired", NoBlob)
      BY <2>1, <2>2, <2>3 DEF IsSound, RelaySlot, Changed
    <3>2. slots[r].status # "Deleted"
      BY <2>3 DEF IsSwept
    <3> QED
      BY <2>1, <3>1, <3>2, Fields, ChangedSlot DEF Status
  <2>4. CASE ~IsSwept(r, now)
    BY <2>1, <2>2, <2>4, StaysAsItIs
  <2> QED
    BY <2>3, <2>4
<1>3. served' = [r \in DOMAIN slots' |-> slots'[r].count]
  BY <1>1, <1>2 DEF RelayInv
<1>4. slots' = [r \in DOMAIN slots' |-> slots'[r]]
  BY DEF Expire
<1>5. RelayInv'
  BY <1>1, <1>2, <1>3, <1>4 DEF RelayInv, IsSound
<1>6. \A r \in DOMAIN slots : SlotAdvances(r)
  BY <1>2, AdvancesAgree
<1> QED
  BY <1>1, <1>5, <1>6 DEF Keeps

LEMMA PerformKeeps ==
  ASSUME RelayInv, NEW call \in RelayCommand, Perform(call)
  PROVE  Keeps
<1>1. call.op = "CreateSlot" => call.now \in RelayTime
  BY DEF RelayCommand
<1> QED
  BY <1>1, CreateKeeps, UploadKeeps, DownloadKeeps, DeleteKeeps, ExpireKeeps,
     StutterKeeps DEF Perform

-----------------------------------------------------------------------------
(* The service.                                                            *)

(* Whatever waits anywhere is a command: a handler that built it keeps it  *)
(* until it is sent, and the channel until it is received.                 *)
Command == [from : Callers \cup {Nobody}, call : RelayCommand]

CommandsOK ==
  /\ callers = [c \in Callers |-> callers[c]]
  /\ \A c \in Callers : ~IsWaiting(c, "idle") => callers[c].call \in RelayCommand
  /\ queue \in Seq(Command)

ServiceInv == RelayInv /\ CommandsOK

LEMMA BecomesOK ==
  ASSUME CommandsOK, NEW c, NEW state, Becomes(c, state),
         state.state = "idle" \/ state.call \in RelayCommand
  PROVE  /\ callers' = [d \in Callers |-> callers'[d]]
         /\ \A d \in Callers :
              ~(callers'[d].state = "idle") => callers'[d].call \in RelayCommand
<1>1. callers' = [callers EXCEPT ![c] = state]
  BY DEF Becomes
<1>2. \A d \in Callers : callers'[d] = IF d = c THEN state ELSE callers[d]
  BY <1>1 DEF CommandsOK
<1>3. callers' = [d \in Callers |-> callers'[d]]
  BY <1>1 DEF CommandsOK
<1> QED
  BY <1>2, <1>3 DEF CommandsOK, IsWaiting

LEMMA LeavesOK ==
  ASSUME CommandsOK, NEW c, NEW outcome, Leaves(c, outcome)
  PROVE  /\ callers' = [d \in Callers |-> callers'[d]]
         /\ \A d \in Callers :
              ~(callers'[d].state = "idle") => callers'[d].call \in RelayCommand
<1>1. Idle(outcome).state = "idle"
  BY DEF Idle
<1> QED
  BY <1>1, BecomesOK DEF Leaves

LEMMA AnswerOK ==
  ASSUME CommandsOK, NEW command, NEW outcome, Answer(command, outcome)
  PROVE  /\ callers' = [d \in Callers |-> callers'[d]]
         /\ \A d \in Callers :
              ~(callers'[d].state = "idle") => callers'[d].call \in RelayCommand
<1>1. CASE command.from = Nobody
  BY <1>1 DEF Answer, CommandsOK, IsWaiting
<1>2. CASE command.from # Nobody
  BY <1>2, LeavesOK DEF Answer
<1> QED
  BY <1>1, <1>2

LEMMA RequestOK ==
  ASSUME CommandsOK, NEW c \in Callers, Request(c)
  PROVE  CommandsOK'
<1>1. PICK call \in RelayCommand : Becomes(c, Waiting("sending", call))
  BY DEF Request
<1>2. Waiting("sending", call).call \in RelayCommand
  BY DEF Waiting
<1>3. queue' = queue
  BY DEF Request
<1> QED
  BY <1>1, <1>2, <1>3, BecomesOK DEF CommandsOK, IsWaiting

LEMMA SendOK ==
  ASSUME CommandsOK, NEW c \in Callers, Send(c)
  PROVE  CommandsOK'
<1>1. callers[c].call \in RelayCommand
  BY DEF Send, CommandsOK, IsWaiting
<1>2. CASE service # "stopped"
  <2>1. /\ queue' = Append(queue, [from |-> c, call |-> callers[c].call])
        /\ Becomes(c, Waiting("waiting", callers[c].call))
    BY <1>2 DEF Send
  <2>2. Waiting("waiting", callers[c].call).call \in RelayCommand
    BY <1>1 DEF Waiting
  <2>3. [from |-> c, call |-> callers[c].call] \in Command
    BY <1>1 DEF Command
  <2>4. queue' \in Seq(Command)
    BY <2>1, <2>3 DEF CommandsOK
  <2> QED
    BY <2>1, <2>2, <2>4, BecomesOK DEF CommandsOK, IsWaiting
<1>3. CASE service = "stopped"
  <2>1. Leaves(c, Failure) /\ queue' = queue
    BY <1>3 DEF Send
  <2> QED
    BY <2>1, LeavesOK DEF CommandsOK, IsWaiting
<1> QED
  BY <1>2, <1>3

LEMMA DisconnectOK ==
  ASSUME CommandsOK, NEW c \in Callers, Disconnect(c)
  PROVE  CommandsOK'
<1>1. queue' \in Seq(Command)
  <2>1. /\ queue \in [1 .. Len(queue) -> Command] /\ Len(queue) \in Nat
        /\ DOMAIN queue = 1 .. Len(queue)
    BY DEF CommandsOK
  <2>2. \A i \in 1 .. Len(queue) : queue'[i] \in Command
    BY <2>1 DEF Disconnect, Command
  <2>3. queue' \in [1 .. Len(queue) -> Command]
    BY <2>1, <2>2 DEF Disconnect
  <2> QED
    BY <2>1, <2>3, SeqDef
<1>2. Leaves(c, "nothing")
  BY DEF Disconnect
<1> QED
  BY <1>1, <1>2, LeavesOK DEF CommandsOK, IsWaiting

LEMMA TurnOK ==
  ASSUME CommandsOK, NEW outcome, queue # << >>,
         Answer(Head(queue), outcome), queue' = Tail(queue)
  PROVE  CommandsOK'
<1>1. queue' \in Seq(Command)
  BY DEF CommandsOK
<1> QED
  BY <1>1, AnswerOK DEF CommandsOK, IsWaiting

LEMMA CloseOK ==
  ASSUME CommandsOK, Close
  PROVE  CommandsOK'
<1>1. queue' \in Seq(Command)
  BY DEF Close
<1>2. \A c \in Callers :
        callers'[c] = IF IsWaiting(c, "waiting") THEN Idle(Failure)
                      ELSE callers[c]
  BY DEF Close
<1>3. callers' = [c \in Callers |-> callers'[c]]
  BY DEF Close
<1> QED
  BY <1>1, <1>2, <1>3 DEF CommandsOK, IsWaiting, Idle

(* Only Serve reaches the core, and with a command; all other steps leave  *)
(* the slots alone.                                                        *)
LEMMA ServiceStep ==
  ASSUME ServiceInv, [ServiceNext]_serviceVars
  PROVE  CommandsOK' /\ Keeps
<1> USE DEF ServiceInv
<1>1. CASE UNCHANGED serviceVars
  <2>1. CommandsOK'
    BY <1>1 DEF serviceVars, CommandsOK, IsWaiting
  <2> QED
    BY <1>1, <2>1, StutterKeeps DEF serviceVars
<1>2. ASSUME NEW c \in Callers, Request(c)
      PROVE  CommandsOK' /\ Keeps
  BY <1>2, RequestOK, StutterKeeps DEF Request
<1>3. ASSUME NEW c \in Callers, Send(c)
      PROVE  CommandsOK' /\ Keeps
  BY <1>3, SendOK, StutterKeeps DEF Send
<1>4. ASSUME NEW c \in Callers, Disconnect(c)
      PROVE  CommandsOK' /\ Keeps
  BY <1>4, DisconnectOK, StutterKeeps DEF Disconnect
<1>5. CASE Serve
  <2>1. Head(queue) \in Command
    BY <1>5 DEF Serve, CommandsOK
  <2>2. Head(queue).call \in RelayCommand
    BY <2>1 DEF Command
  <2>3. Keeps
    BY <1>5, <2>2, PerformKeeps DEF Serve
  <2>4. CommandsOK'
    BY <1>5, TurnOK DEF Serve
  <2> QED
    BY <2>3, <2>4
<1>6. CASE Shutdown
  BY <1>6, TurnOK, StutterKeeps DEF Shutdown
<1>7. CASE Close
  BY <1>7, CloseOK, StutterKeeps DEF Close
<1>8. CASE Tick
  <2>1. CommandsOK'
    BY <1>8 DEF Tick, CommandsOK, IsWaiting
  <2> QED
    BY <1>8, <2>1, StutterKeeps DEF Tick
<1> QED
  BY <1>1, <1>2, <1>3, <1>4, <1>5, <1>6, <1>7, <1>8 DEF ServiceNext

LEMMA ServiceInvariant == ServiceSpec => []ServiceInv
<1>1. ServiceInit => ServiceInv
  <2> SUFFICES ASSUME ServiceInit
               PROVE  ServiceInv
    OBVIOUS
  <2>1. RelayInv
    BY InitInv DEF ServiceInit
  <2>2. CommandsOK
    BY DEF ServiceInit, CommandsOK, IsWaiting, Idle
  <2> QED
    BY <2>1, <2>2 DEF ServiceInv
<1>2. ServiceInv /\ [ServiceNext]_serviceVars => ServiceInv'
  BY ServiceStep DEF ServiceInv, Keeps
<1> QED
  BY <1>1, <1>2, PTL DEF ServiceSpec

-----------------------------------------------------------------------------

(* Whatever is asked of the relay, in whatever order of times, ids have no *)
(* gaps and a slot stays within what create_slot granted, its blob being   *)
(* of the size that was announced (core.rs:39-86, 108-121).                *)
THEOREM RelayTypeCorrect == ServiceSpec => []RelayTypeOK
<1>1. ServiceInv => RelayTypeOK
  BY InvImpliesProperties DEF ServiceInv
<1> QED
  BY <1>1, ServiceInvariant, PTL

(* Over its whole life a slot hands out at most the blobs it was granted,  *)
(* also when uploads and downloads alternate and requests race for the     *)
(* last one (core.rs:91-161).                                              *)
THEOREM CopiesStayCounted == ServiceSpec => []CopiesAreCounted
<1>1. ServiceInv => CopiesAreCounted
  BY InvImpliesProperties DEF ServiceInv
<1> QED
  BY <1>1, ServiceInvariant, PTL

(* No request that was under way when a slot was deleted brings it back or *)
(* leaves a blob in it, and what was granted and counted is never taken    *)
(* back (core.rs:103-105, 135-137, 163-196).                               *)
THEOREM DeletedStaysFinal == ServiceSpec => DeletedIsFinal
<1>1. ServiceInv /\ [ServiceNext]_serviceVars
        => [\A r \in DOMAIN slots :
              r \in DOMAIN slots' /\ SlotAdvances(r)]_relayVars
  BY ServiceStep DEF Keeps
<1> QED
  BY <1>1, ServiceInvariant, PTL DEF ServiceSpec, DeletedIsFinal

(* What an expiry leaves behind.                                           *)
LEMMA ExpireEmpties ==
  ASSUME RelayInv, NEW now, Expire(now), NEW r \in DOMAIN slots,
         IsPast(r, now), slots'[r].blob # NoBlob
  PROVE  slots[r].status = "Consumed" /\ IsSpent(slots[r])
<1>1. IsSound(slots[r])
  BY DEF RelayInv
<1>2. slots'[r] = IF IsSwept(r, now)
                  THEN [slots[r] EXCEPT !.blob = NoBlob, !.status = "Expired"]
                  ELSE slots[r]
  BY DEF Expire
<1>3. ~IsSwept(r, now)
  BY <1>1, <1>2 DEF IsSound, RelaySlot
<1>4. slots[r].blob # NoBlob /\ slots[r].status \in {"Consumed", "Deleted", "Expired"}
  BY <1>2, <1>3 DEF IsSwept
<1> QED
  BY <1>1, <1>4 DEF IsSound

(* A channel that has lost its first command is another one than before,   *)
(* and than one that has just got a command.                               *)
LEMMA TailDiffers ==
  ASSUME NEW T, NEW q \in Seq(T), q # << >>
  PROVE  Len(Tail(q)) = Len(q) - 1 /\ Len(q) \in Nat \ {0}
OBVIOUS

(* Once a sweep at some time has been performed, a blob whose time had     *)
(* come remains only in a slot that was consumed, uploaded to once more    *)
(* and asked for in vain, for all numbers of slots and callers             *)
(* (core.rs:109-115, 141-144, 178-196).                                    *)
THEOREM SweepsStayThorough == ServiceSpec => SweepsAreThorough
<1> DEFINE Sweeps(now) ==
             /\ service = "running" /\ queue # << >>
             /\ Head(queue).call.op = "Expire" /\ Head(queue).call.now = now
             /\ queue' = Tail(queue)
           Empties(now) ==
             \A r \in DOMAIN slots :
               (IsPast(r, now) /\ slots'[r].blob # NoBlob)
                 => slots[r].status = "Consumed" /\ IsSpent(slots[r])
<1>1. ASSUME ServiceInv, [ServiceNext]_serviceVars, NEW now \in RelayTime,
             Sweeps(now)
      PROVE  Empties(now)
  <2>1. queue \in Seq(Command) /\ queue # << >>
    BY <1>1 DEF ServiceInv, CommandsOK
  <2>2. Len(queue') = Len(queue) - 1 /\ Len(queue) \in Nat \ {0}
    BY <1>1, <2>1, TailDiffers
  <2>3. queue' # queue
    BY <2>2
  <2>4. ~ \E c \in Callers : Request(c) \/ Send(c) \/ Disconnect(c)
    <3>1. ASSUME NEW c \in Callers, Request(c) PROVE FALSE
      BY <2>3, <3>1 DEF Request
    <3>2. ASSUME NEW c \in Callers, Send(c) PROVE FALSE
      <4> DEFINE command == [from |-> c, call |-> callers[c].call]
      <4>1. queue' = Append(queue, command)
        BY <1>1, <3>2 DEF Send
      <4>2. Len(Append(queue, command)) = Len(queue) + 1
        BY <2>1
      <4> QED
        BY <2>2, <4>1, <4>2
    <3>3. ASSUME NEW c \in Callers, Disconnect(c) PROVE FALSE
      <4>1. DOMAIN queue' = 1 .. Len(queue) /\ DOMAIN queue' = 1 .. Len(queue')
        <5>1. queue' \in Seq(Command)
          BY <1>1, <2>1
        <5> QED
          BY <2>1, <3>3, <5>1 DEF Disconnect
      <4> QED
        BY <2>2, <4>1
    <3> QED
      BY <3>1, <3>2, <3>3
  <2>5. ~Shutdown /\ ~Close /\ ~Tick /\ ~UNCHANGED serviceVars
    BY <1>1, <2>3 DEF Shutdown, Close, Tick, serviceVars
  <2>6. Serve
    BY <1>1, <2>4, <2>5 DEF ServiceNext
  <2>7. Expire(now)
    BY <1>1, <2>6 DEF Serve, Perform
  <2> QED
    BY <1>1, <2>7, ExpireEmpties DEF ServiceInv
<1>2. ServiceInv /\ [ServiceNext]_serviceVars
        => [\A now \in RelayTime : Sweeps(now) => Empties(now)]_serviceVars
  BY <1>1
<1> QED
  BY <1>2, ServiceInvariant, PTL DEF ServiceSpec, SweepsAreThorough

-----------------------------------------------------------------------------
(* The service implements AtomicRelay.                                     *)

(* The operators of the core mean the same in both modules.                *)
LEMMA SameCommands == Promise!RelayCommand = RelayCommand
<1>1. Promise!RelayTime = RelayTime /\ Promise!RelayId = RelayId
  BY DEF Promise!RelayTime, RelayTime, Promise!RelayId, RelayId
<1>2. Promise!Token = Token
  BY DEF Promise!Token, Token, Promise!TokenFor, TokenFor, Promise!Right,
     Right, Promise!RelayId, RelayId
<1> QED
  BY <1>1, <1>2, Zenon DEF Promise!RelayCommand, RelayCommand

LEMMA SameReplies ==
  ASSUME NEW r, NEW token, NEW now
  PROVE  /\ \A right : Promise!AccessReply(r, right, token, now)
                         = AccessReply(r, right, token, now)
         /\ \A blob : Promise!UploadReply(r, token, blob, now)
                        = UploadReply(r, token, blob, now)
         /\ Promise!DownloadReply(r, token, now) = DownloadReply(r, token, now)
         /\ Promise!DeleteReply(r, token, now) = DeleteReply(r, token, now)
<1>1. \A right : Promise!AccessReply(r, right, token, now)
                   = AccessReply(r, right, token, now)
  BY Zenon DEF Promise!AccessReply, AccessReply, Promise!TooEarly, TooEarly,
     Promise!IsPast, IsPast, Promise!TokenFor, TokenFor
<1>2. \A blob : Promise!UploadReply(r, token, blob, now)
                  = UploadReply(r, token, blob, now)
  BY <1>1, Zenon DEF Promise!UploadReply, UploadReply, Promise!NoBlob, NoBlob
<1>3. Promise!DownloadReply(r, token, now) = DownloadReply(r, token, now)
  BY <1>1, Zenon DEF Promise!DownloadReply, DownloadReply, Promise!IsSpent,
     IsSpent, Promise!NoBlob, NoBlob
<1>4. Promise!DeleteReply(r, token, now) = DeleteReply(r, token, now)
  BY Zenon DEF Promise!DeleteReply, DeleteReply, Promise!TooEarly, TooEarly,
     Promise!TokenFor, TokenFor
<1> QED
  BY <1>1, <1>2, <1>3, <1>4

LEMMA SameCreation ==
  /\ \A size, ttl, downloads :
       Promise!CreateReply(size, ttl, downloads) = CreateReply(size, ttl, downloads)
  /\ \A value, default : Promise!OrDefault(value, default) = OrDefault(value, default)
  /\ Promise!NextRelayId = NextRelayId
<1>1. \A X : Promise!Cardinality(X) = Cardinality(X)
  BY Zenon DEF Promise!Cardinality, Cardinality
<1>2. Promise!NextRelayId = NextRelayId
  BY <1>1, Zenon DEF Promise!NextRelayId, NextRelayId
<1>3. \A value, default : Promise!OrDefault(value, default) = OrDefault(value, default)
  BY Zenon DEF Promise!OrDefault, OrDefault, Promise!Default, Default
<1>4. \A size, ttl, downloads :
        Promise!CreateReply(size, ttl, downloads) = CreateReply(size, ttl, downloads)
  BY Zenon DEF Promise!CreateReply, CreateReply, Promise!ValidDownloads, ValidDownloads
<1> QED
  BY <1>2, <1>3, <1>4

LEMMA SameEffects ==
  ASSUME NEW call, Perform(call)
  PROVE  Promise!Perform(call)
<1>1. ASSUME NEW size, NEW ttl, NEW downloads, NEW now,
             CreateSlot(size, ttl, downloads, now)
      PROVE  Promise!CreateSlot(size, ttl, downloads, now)
  BY <1>1, SameCreation, Zenon DEF Promise!CreateSlot, CreateSlot,
     Promise!NewSlot, NewSlot, Promise!NoBlob, NoBlob, Promise!relayVars, relayVars
<1>2. ASSUME NEW r, NEW token, NEW blob, NEW now, Upload(r, token, blob, now)
      PROVE  Promise!Upload(r, token, blob, now)
  <2>1. Promise!UploadReply(r, token, blob, now) = UploadReply(r, token, blob, now)
    BY SameReplies
  <2> QED
    BY <1>2, <2>1, Zenon DEF Promise!Upload, Upload
<1>3. ASSUME NEW r, NEW token, NEW now, Download(r, token, now)
      PROVE  Promise!Download(r, token, now)
  BY <1>3, SameReplies, Zenon DEF Promise!Download, Download, Promise!Counted,
     Counted, Promise!IsSpent, IsSpent, Promise!NoBlob, NoBlob,
     Promise!relayVars, relayVars
<1>4. ASSUME NEW r, NEW token, NEW now, Delete(r, token, now)
      PROVE  Promise!Delete(r, token, now)
  <2>1. Promise!DeleteReply(r, token, now) = DeleteReply(r, token, now)
    BY SameReplies
  <2> QED
    BY <1>4, <2>1, Zenon DEF Promise!Delete, Delete, Promise!NoBlob, NoBlob
<1>5. ASSUME NEW now, Expire(now)
      PROVE  Promise!Expire(now)
  BY <1>5, Zenon DEF Promise!Expire, Expire, Promise!IsSwept, IsSwept,
     Promise!IsPast, IsPast, Promise!NoBlob, NoBlob
<1> QED
  BY <1>1, <1>2, <1>3, <1>4, <1>5, Zenon DEF Perform, Promise!Perform,
     relayVars, Promise!relayVars

LEMMA SameAnswers ==
  ASSUME NEW call
  PROVE  Promise!AnswerTo(call) = AnswerTo(call)
<1>1. Promise!ReplyTo(call) = ReplyTo(call)
  BY SameCreation, SameReplies, Zenon DEF Promise!ReplyTo, ReplyTo
<1> QED
  BY <1>1, Zenon DEF Promise!AnswerTo, AnswerTo

-----------------------------------------------------------------------------
(* The channel seen from outside.                                          *)

Seen(state) ==
  IF state.state = "idle" THEN state ELSE [state |-> "asking", call |-> state.call]

SeenCallers == [c \in Callers |-> View(c)]
SeenAdrift == [call \in RelayCommand |-> Cardinality(Adrift(call))]

(* A command in the channel is that of its caller, who waits for it, and   *)
(* is the caller's only one.                                               *)
CallsMatch ==
  \A i \in DOMAIN queue :
    queue[i].from # Nobody =>
      /\ callers[queue[i].from] = Waiting("waiting", queue[i].call)
      /\ \A j \in DOMAIN queue : queue[j].from = queue[i].from => j = i

LEMMA OneIsSeen ==
  ASSUME CommandsOK, NEW c \in Callers, NEW state, Becomes(c, state)
  PROVE  SeenCallers' = [SeenCallers EXCEPT ![c] = Seen(state)]
<1>1. \A d \in Callers : callers'[d] = IF d = c THEN state ELSE callers[d]
  BY DEF Becomes, CommandsOK
<1>2. \A d \in Callers : View(d) = Seen(callers[d]) /\ View(d)' = Seen(callers'[d])
  BY DEF View, Seen, IsWaiting
<1> QED
  BY <1>1, <1>2 DEF SeenCallers

LEMMA NoneIsSeen ==
  ASSUME callers' = callers
  PROVE  SeenCallers' = SeenCallers
BY DEF SeenCallers, View, IsWaiting

LEMMA QueueIs ==
  ASSUME CommandsOK
  PROVE  /\ Len(queue) \in Nat /\ DOMAIN queue = 1 .. Len(queue)
         /\ \A i \in DOMAIN queue : /\ queue[i] \in Command
                                    /\ queue[i].from \in Callers \cup {Nobody}
                                    /\ queue[i].call \in RelayCommand
<1>1. queue \in Seq(Command)
  BY DEF CommandsOK
<1>2. \A i \in DOMAIN queue : queue[i] \in Command
  BY <1>1
<1> QED
  BY <1>1, <1>2 DEF Command

LEMMA AdriftIsFinite ==
  ASSUME CommandsOK, NEW call
  PROVE  IsFiniteSet(Adrift(call)) /\ Cardinality(Adrift(call)) \in Nat
<1>1. Adrift(call) \subseteq 1 .. Len(queue) /\ IsFiniteSet(1 .. Len(queue))
  BY QueueIs, FS_Interval DEF Adrift
<1> QED
  BY <1>1, FS_Subset, FS_CardinalityType

(* The first command leaves, and the others move up.                       *)
LEMMA TailCounts ==
  ASSUME CommandsOK, queue # << >>, queue' = Tail(queue), NEW call
  PROVE  Cardinality(Adrift(call)') = Cardinality(Adrift(call) \ {1})
<1> DEFINE S == Adrift(call) \ {1}
           T == Adrift(call)'
           up == [i \in S |-> i - 1]
<1>1. /\ Len(queue) \in Nat \ {0} /\ DOMAIN queue = 1 .. Len(queue)
      /\ DOMAIN queue' = 1 .. Len(queue) - 1
      /\ \A i \in 1 .. Len(queue) - 1 : queue'[i] = queue[i + 1]
  BY QueueIs DEF CommandsOK
<1>2. \A i \in S : i \in 2 .. Len(queue) /\ i - 1 \in T
  BY <1>1 DEF Adrift
<1>3. \A i \in T : i + 1 \in S /\ i \in Nat
  BY <1>1 DEF Adrift
<1>4. up \in [S -> T]
  BY <1>2
<1>5. \A i, j \in S : up[i] = up[j] => i = j
  BY <1>2
<1>6. \A i \in T : \E j \in S : up[j] = i
  <2> TAKE i \in T
  <2>1. i + 1 \in S /\ up[i + 1] = i
    BY <1>3
  <2> QED
    BY <2>1
<1>7. up \in Bijection(S, T)
  BY <1>4, <1>5, <1>6 DEF Bijection, Injection, IsInjective, Surjection
<1>8. IsFiniteSet(S)
  BY AdriftIsFinite, FS_RemoveElement
<1> HIDE DEF S, T, up
<1>9. ExistsBijection(S, T)
  BY <1>7 DEF ExistsBijection
<1>10. Cardinality(T) = Cardinality(S)
  BY <1>8, <1>9, FS_Bijection
<1> QED
  BY <1>10 DEF S, T

LEMMA HeadCounts ==
  ASSUME CommandsOK, queue # << >>, queue' = Tail(queue)
  PROVE  /\ Head(queue).from # Nobody => SeenAdrift' = SeenAdrift
         /\ Head(queue).from = Nobody =>
              /\ Head(queue).call \in RelayCommand
              /\ SeenAdrift[Head(queue).call] > 0
              /\ SeenAdrift' =
                   [SeenAdrift EXCEPT ![Head(queue).call] = @ - 1]
<1>1. 1 \in DOMAIN queue /\ Head(queue) = queue[1]
  BY QueueIs DEF CommandsOK
<1>2. \A call : 1 \in Adrift(call) <=>
                  Head(queue).from = Nobody /\ call = Head(queue).call
  BY <1>1 DEF Adrift
<1>4. ASSUME NEW call \in RelayCommand
      PROVE  /\ SeenAdrift[call] \in Nat
             /\ SeenAdrift'[call] = IF 1 \in Adrift(call) THEN SeenAdrift[call] - 1
                                    ELSE SeenAdrift[call]
             /\ 1 \in Adrift(call) => SeenAdrift[call] > 0
  <2>1. IsFiniteSet(Adrift(call)) /\ Cardinality(Adrift(call)) \in Nat
    BY AdriftIsFinite
  <2>2. /\ IsFiniteSet(Adrift(call) \ {1})
        /\ Cardinality(Adrift(call) \ {1}) =
             IF 1 \in Adrift(call) THEN Cardinality(Adrift(call)) - 1
             ELSE Cardinality(Adrift(call))
    BY <2>1, FS_RemoveElement
  <2>3. Cardinality(Adrift(call) \ {1}) \in Nat
    BY <2>2, FS_CardinalityType
  <2>4. Cardinality(Adrift(call)') = Cardinality(Adrift(call) \ {1})
    BY TailCounts
  <2>5. /\ SeenAdrift[call] = Cardinality(Adrift(call))
        /\ SeenAdrift'[call] = Cardinality(Adrift(call)')
    BY DEF SeenAdrift
  <2> QED
    BY <2>1, <2>2, <2>3, <2>4, <2>5
<1>5. /\ SeenAdrift = [call \in RelayCommand |-> SeenAdrift[call]]
      /\ SeenAdrift' = [call \in RelayCommand |-> SeenAdrift'[call]]
  BY DEF SeenAdrift
<1>6. Head(queue).call \in RelayCommand
  BY <1>1, QueueIs
<1> HIDE DEF SeenAdrift
<1>7. CASE Head(queue).from # Nobody
  <2>1. \A call \in RelayCommand : SeenAdrift'[call] = SeenAdrift[call]
    BY <1>2, <1>4, <1>7
  <2> QED
    BY <1>5, <1>7, <2>1, Zenon
<1>8. CASE Head(queue).from = Nobody
  <2>1. \A call \in RelayCommand :
          SeenAdrift'[call] = IF call = Head(queue).call THEN SeenAdrift[call] - 1
                              ELSE SeenAdrift[call]
    BY <1>2, <1>4, <1>8
  <2>2. SeenAdrift[Head(queue).call] > 0
    BY <1>2, <1>4, <1>6, <1>8
  <2>3. SeenAdrift' = [SeenAdrift EXCEPT ![Head(queue).call] = @ - 1]
    BY <1>5, <1>6, <2>1
  <2> QED
    BY <1>6, <1>8, <2>2, <2>3
<1> QED
  BY <1>7, <1>8

-----------------------------------------------------------------------------
(* Every step of the service is one of the promise, or none.               *)

RelayServiceInv == ServiceInv /\ CallsMatch

Promised == CallsMatch' /\ [Promise!AtomicNext]_(Promise!atomicVars)

LEMMA Unseen ==
  ASSUME UNCHANGED relayVars, SeenCallers' = SeenCallers, SeenAdrift' = SeenAdrift
  PROVE  UNCHANGED Promise!atomicVars
BY DEF Promise!atomicVars, Promise!relayVars, relayVars, SeenCallers, SeenAdrift

LEMMA SameAdrift ==
  ASSUME queue' = queue
  PROVE  SeenAdrift' = SeenAdrift
BY DEF SeenAdrift, Adrift

(* A caller that waits for no answer has no command in the channel.        *)
LEMMA NothingSent ==
  ASSUME CallsMatch, NEW c \in Callers, ~IsWaiting(c, "waiting")
  PROVE  \A i \in DOMAIN queue : queue[i].from # c
<1> SUFFICES ASSUME NEW i \in DOMAIN queue, queue[i].from = c
             PROVE  FALSE
  OBVIOUS
<1>1. callers[c] = Waiting("waiting", queue[i].call)
  BY ServiceAssumption DEF CallsMatch
<1> QED
  BY <1>1 DEF IsWaiting, Waiting

LEMMA OthersMatch ==
  ASSUME CallsMatch, CommandsOK, queue' = queue, NEW c \in Callers, NEW state,
         ~IsWaiting(c, "waiting"), Becomes(c, state)
  PROVE  CallsMatch'
<1>1. \A d \in Callers \ {c} : callers'[d] = callers[d]
  BY DEF Becomes, CommandsOK
<1>2. \A i \in DOMAIN queue : queue[i].from # c
  BY NothingSent
<1> QED
  BY <1>1, <1>2, QueueIs DEF CallsMatch

LEMMA RequestPromised ==
  ASSUME RelayServiceInv, NEW c \in Callers, Request(c)
  PROVE  Promised
<1>1. PICK call \in RelayCommand : Becomes(c, Waiting("sending", call))
  BY DEF Request
<1>2. CommandsOK /\ CallsMatch /\ IsWaiting(c, "idle") /\ queue' = queue
  BY DEF RelayServiceInv, ServiceInv, Request
<1>3. CallsMatch'
  BY <1>1, <1>2, OthersMatch DEF IsWaiting
<1>4. Seen(Waiting("sending", call)) = Promise!Asking(call)
  BY DEF Seen, Waiting, Promise!Asking
<1>5. SeenCallers' = [SeenCallers EXCEPT ![c] = Promise!Asking(call)]
  BY <1>1, <1>2, <1>4, OneIsSeen
<1>6. SeenAdrift' = SeenAdrift /\ UNCHANGED relayVars
  BY <1>2, SameAdrift DEF Request
<1>7. SeenCallers[c].state = "idle" /\ SeenCallers'[c].state = "asking"
  <2>1. SeenCallers[c].state = "idle"
    BY <1>2 DEF SeenCallers, View, IsWaiting
  <2>2. SeenCallers'[c] = Promise!Asking(call)
    BY <1>5 DEF SeenCallers
  <2> QED
    BY <2>1, <2>2 DEF Promise!Asking
<1>8. Promise!Ask(c)
  BY <1>5, <1>6, <1>7, SameCommands
     DEF Promise!Ask, Promise!Becomes, SeenCallers, SeenAdrift,
         Promise!relayVars, relayVars
<1> QED
  BY <1>3, <1>8 DEF Promised, Promise!AtomicNext

LEMMA SendPromised ==
  ASSUME RelayServiceInv, NEW c \in Callers, Send(c)
  PROVE  Promised
<1>1. /\ CommandsOK /\ CallsMatch /\ UNCHANGED relayVars
      /\ IsWaiting(c, "sending") /\ ~IsWaiting(c, "waiting")
  BY DEF RelayServiceInv, ServiceInv, Send, IsWaiting
<1>2. CASE service # "stopped"
  <2> DEFINE command == [from |-> c, call |-> callers[c].call]
             state == Waiting("waiting", callers[c].call)
  <2>1. queue' = Append(queue, command) /\ Becomes(c, state)
    BY <1>2 DEF Send
  <2>2. /\ Len(queue) \in Nat /\ DOMAIN queue = 1 .. Len(queue)
        /\ DOMAIN queue' = 1 .. Len(queue) + 1
        /\ \A i \in DOMAIN queue : queue'[i] = queue[i]
        /\ queue'[Len(queue) + 1] = command
    BY <1>1, <2>1 DEF CommandsOK
  <2>3. c # Nobody /\ command.from = c /\ command.call = callers[c].call
    BY ServiceAssumption
  <2>4. \A i \in DOMAIN queue : queue[i].from # c
    BY <1>1, NothingSent
  <2>5. \A d \in Callers : callers'[d] = IF d = c THEN state ELSE callers[d]
    BY <1>1, <2>1 DEF Becomes, CommandsOK
  <2> HIDE DEF command, state
  <2>6. CallsMatch'
    <3> SUFFICES ASSUME NEW i \in DOMAIN queue', queue'[i].from # Nobody
                 PROVE  /\ callers'[queue'[i].from] = Waiting("waiting", queue'[i].call)
                        /\ \A j \in DOMAIN queue' :
                             queue'[j].from = queue'[i].from => j = i
      BY DEF CallsMatch
    <3>1. CASE i \in DOMAIN queue
      <4>1. queue[i].from \in Callers \ {c}
        BY <1>1, <2>2, <2>4, <3>1, QueueIs
      <4> QED
        BY <1>1, <2>2, <2>3, <2>5, <3>1, <4>1 DEF CallsMatch
    <3>2. CASE i = Len(queue) + 1
      BY <2>2, <2>3, <2>4, <2>5, <3>2 DEF state
    <3> QED
      BY <2>2, <3>1, <3>2
  <2>7. SeenCallers' = SeenCallers
    <3>1. Seen(state) = View(c)
      BY <1>1 DEF Seen, View, IsWaiting, state, Waiting
    <3> QED
      BY <1>1, <2>1, <3>1, OneIsSeen DEF SeenCallers
  <2>8. SeenAdrift' = SeenAdrift
    <3>1. \A call : Adrift(call)' = Adrift(call)
      BY <2>2, <2>3 DEF Adrift
    <3> QED
      BY <3>1 DEF SeenAdrift
  <2> QED
    BY <1>1, <2>6, <2>7, <2>8, Unseen DEF Promised
<1>3. CASE service = "stopped"
  <2>1. Leaves(c, Failure) /\ queue' = queue
    BY <1>3 DEF Send
  <2>2. CallsMatch' /\ SeenAdrift' = SeenAdrift
    BY <1>1, <2>1, OthersMatch, SameAdrift DEF Leaves
  <2>3. SeenCallers' = [SeenCallers EXCEPT ![c] = Promise!Idle(Promise!Failure)]
    <3>1. Seen(Idle(Failure)) = Promise!Idle(Promise!Failure)
      BY DEF Seen, Idle, Promise!Idle, Failure, Promise!Failure
    <3> QED
      BY <1>1, <2>1, <3>1, OneIsSeen DEF Leaves
  <2>4. SeenCallers[c].state = "asking"
    BY <1>1 DEF SeenCallers, View, IsWaiting
  <2>5. Promise!Fail(c)
    BY <1>1, <2>2, <2>3, <2>4
       DEF Promise!Fail, Promise!IsAsking, Promise!Becomes, SeenCallers,
           SeenAdrift, Promise!relayVars, relayVars
  <2> QED
    BY <2>2, <2>5 DEF Promised, Promise!AtomicNext
<1> QED
  BY <1>2, <1>3

LEMMA DisconnectPromised ==
  ASSUME RelayServiceInv, NEW c \in Callers, Disconnect(c)
  PROVE  Promised
<1>0. PICK call : call = callers[c].call
  OBVIOUS
<1>1. /\ CommandsOK /\ CallsMatch /\ UNCHANGED relayVars /\ ~IsWaiting(c, "idle")
      /\ Becomes(c, Idle("nothing")) /\ call \in RelayCommand /\ c # Nobody
  BY <1>0, ServiceAssumption DEF RelayServiceInv, ServiceInv, CommandsOK, Disconnect, Leaves
<1>2. \A d \in Callers \ {c} : callers'[d] = callers[d]
  BY <1>1 DEF Becomes, CommandsOK
<1>3. /\ DOMAIN queue' = DOMAIN queue
      /\ \A i \in DOMAIN queue :
           /\ queue'[i].from = IF queue[i].from = c THEN Nobody ELSE queue[i].from
           /\ queue'[i].call = queue[i].call
  <2>1. /\ DOMAIN queue' = DOMAIN queue
        /\ \A i \in DOMAIN queue :
             queue'[i] = IF queue[i].from = c THEN [queue[i] EXCEPT !.from = Nobody]
                         ELSE queue[i]
    BY DEF Disconnect
  <2> QED
    BY <1>1, <2>1, QueueIs DEF Command
<1>4. CallsMatch'
  <2> SUFFICES ASSUME NEW i \in DOMAIN queue', queue'[i].from # Nobody
               PROVE  /\ callers'[queue'[i].from] = Waiting("waiting", queue'[i].call)
                      /\ \A j \in DOMAIN queue' :
                           queue'[j].from = queue'[i].from => j = i
    BY DEF CallsMatch
  <2>1. /\ queue[i].from \in Callers \ {c} /\ queue'[i].from = queue[i].from
        /\ queue'[i].call = queue[i].call
    BY <1>1, <1>3, QueueIs
  <2>2. /\ callers[queue[i].from] = Waiting("waiting", queue[i].call)
        /\ \A j \in DOMAIN queue : queue[j].from = queue[i].from => j = i
    BY <1>1, <1>3, <2>1, ServiceAssumption DEF CallsMatch
  <2>3. \A j \in DOMAIN queue : queue'[j].from = queue[i].from => j = i
    BY <1>3, <2>1, <2>2, ServiceAssumption
  <2> QED
    BY <1>2, <1>3, <2>1, <2>2, <2>3
<1>5. SeenCallers' = [SeenCallers EXCEPT ![c] = Promise!Idle("nothing")]
  <2>1. Seen(Idle("nothing")) = Promise!Idle("nothing")
    BY DEF Seen, Idle, Promise!Idle
  <2> QED
    BY <1>1, <2>1, OneIsSeen
<1>6. SeenCallers[c] = [state |-> "asking", call |-> call]
  BY <1>0, <1>1 DEF SeenCallers, View
<1>7. SeenAdrift' \in {SeenAdrift, [SeenAdrift EXCEPT ![call] = @ + 1]}
  <2>1. CASE \A i \in DOMAIN queue : queue[i].from # c
    <3>1. \A x : Adrift(x)' = Adrift(x)
      BY <1>3, <2>1 DEF Adrift
    <3> QED
      BY <3>1 DEF SeenAdrift
  <2>2. ASSUME NEW i \in DOMAIN queue, queue[i].from = c
        PROVE  SeenAdrift' = [SeenAdrift EXCEPT ![call] = @ + 1]
    <3>1. /\ callers[c] = Waiting("waiting", queue[i].call)
          /\ \A j \in DOMAIN queue : queue[j].from = c => j = i
      BY <1>1, <2>2 DEF CallsMatch
    <3>2. queue[i].call = call
      BY <1>0, <3>1 DEF Waiting
    <3>3. /\ Adrift(call)' = Adrift(call) \cup {i} /\ i \notin Adrift(call)
          /\ \A x : x # call => Adrift(x)' = Adrift(x)
      BY <1>1, <1>3, <2>2, <3>1, <3>2 DEF Adrift
    <3>4. Cardinality(Adrift(call) \cup {i}) = Cardinality(Adrift(call)) + 1
      BY <1>1, <3>3, AdriftIsFinite, FS_AddElement
    <3>5. \A x \in RelayCommand :
            /\ SeenAdrift'[x] = Cardinality(Adrift(x)')
            /\ SeenAdrift[x] = Cardinality(Adrift(x))
      BY DEF SeenAdrift
    <3>6. \A x \in RelayCommand :
            SeenAdrift'[x] = IF x = call THEN SeenAdrift[x] + 1 ELSE SeenAdrift[x]
      BY <3>3, <3>4, <3>5
    <3>7. /\ SeenAdrift = [x \in RelayCommand |-> SeenAdrift[x]]
          /\ SeenAdrift' = [x \in RelayCommand |-> SeenAdrift'[x]]
      BY DEF SeenAdrift
    <3> HIDE DEF SeenAdrift
    <3> QED
      BY <1>1, <3>6, <3>7
  <2> QED
    BY <2>1, <2>2
<1>8. Promise!GoAway(c)
  <2>1. SeenCallers[c].state = "asking" /\ SeenCallers[c].call = call
    BY <1>6
  <2> QED
    BY <1>1, <1>5, <1>7, <2>1
       DEF Promise!GoAway, Promise!IsAsking, Promise!Becomes, SeenCallers,
           SeenAdrift, Promise!relayVars, relayVars
<1> QED
  BY <1>4, <1>8 DEF Promised, Promise!AtomicNext

(* A turn of the service: the first command takes effect.                  *)
LEMMA TurnPromised ==
  ASSUME RelayServiceInv, queue # << >>, Head(queue).call \in RelayCommand,
         Perform(Head(queue).call), queue' = Tail(queue),
         Answer(Head(queue), AnswerTo(Head(queue).call))
  PROVE  Promised
<1> DEFINE command == Head(queue)
           call == Head(queue).call
           answer == AnswerTo(Head(queue).call)
<1>1. CommandsOK /\ CallsMatch
  BY DEF RelayServiceInv, ServiceInv
<1>2. /\ Len(queue) \in Nat \ {0} /\ DOMAIN queue = 1 .. Len(queue)
      /\ DOMAIN queue' = 1 .. Len(queue) - 1
      /\ \A i \in 1 .. Len(queue) - 1 : queue'[i] = queue[i + 1]
      /\ 1 \in DOMAIN queue /\ command = queue[1]
  BY <1>1, QueueIs DEF CommandsOK
<1>3. Promise!Perform(call) /\ Promise!AnswerTo(call) = answer
  BY SameEffects, SameAnswers
<1>4. ASSUME command.from = Nobody
      PROVE  Promised
  <2>1. callers' = callers
    BY <1>4 DEF Answer
  <2>2. CallsMatch'
    <3> SUFFICES ASSUME NEW i \in DOMAIN queue', queue'[i].from # Nobody
                 PROVE  /\ callers'[queue'[i].from] = Waiting("waiting", queue'[i].call)
                        /\ \A j \in DOMAIN queue' :
                             queue'[j].from = queue'[i].from => j = i
      BY DEF CallsMatch
    <3>1. /\ i + 1 \in DOMAIN queue /\ queue'[i] = queue[i + 1]
          /\ \A j \in DOMAIN queue' : j + 1 \in DOMAIN queue /\ queue'[j] = queue[j + 1]
      BY <1>2
    <3>2. /\ callers[queue[i + 1].from] = Waiting("waiting", queue[i + 1].call)
          /\ \A k \in DOMAIN queue : queue[k].from = queue[i + 1].from => k = i + 1
      BY <1>1, <3>1 DEF CallsMatch
    <3>3. \A j \in DOMAIN queue' : queue'[j].from = queue'[i].from => j + 1 = i + 1
      BY <3>1, <3>2
    <3> QED
      BY <1>2, <2>1, <3>1, <3>2, <3>3
  <2>3. /\ SeenAdrift[call] > 0
        /\ SeenAdrift' = [SeenAdrift EXCEPT ![call] = @ - 1]
    BY <1>1, <1>4, HeadCounts
  <2>4. SeenCallers' = SeenCallers
    BY <2>1, NoneIsSeen
  <2> HIDE DEF call
  <2>5. Promise!TakeLateEffect(call)
    BY <1>3, <2>3, <2>4 DEF Promise!TakeLateEffect, SeenCallers, SeenAdrift
  <2>6. call \in Promise!RelayCommand
    BY SameCommands DEF call
  <2> QED
    BY <2>2, <2>5, <2>6 DEF Promised, Promise!AtomicNext
<1>5. ASSUME command.from # Nobody
      PROVE  Promised
  <2> DEFINE c == command.from
  <2>1. c \in Callers /\ Becomes(c, Idle(answer))
    BY <1>1, <1>2, <1>5, QueueIs DEF Answer, Leaves
  <2>2. /\ callers[c] = Waiting("waiting", call)
        /\ \A j \in DOMAIN queue : queue[j].from = c => j = 1
    BY <1>1, <1>2, <1>5 DEF CallsMatch
  <2>3. \A d \in Callers \ {c} : callers'[d] = callers[d]
    BY <1>1, <2>1 DEF Becomes, CommandsOK
  <2>4. CallsMatch'
    <3> SUFFICES ASSUME NEW i \in DOMAIN queue', queue'[i].from # Nobody
                 PROVE  /\ callers'[queue'[i].from] = Waiting("waiting", queue'[i].call)
                        /\ \A j \in DOMAIN queue' :
                             queue'[j].from = queue'[i].from => j = i
      BY DEF CallsMatch
    <3>1. /\ i + 1 \in DOMAIN queue /\ queue'[i] = queue[i + 1] /\ i + 1 # 1
          /\ \A j \in DOMAIN queue' : j + 1 \in DOMAIN queue /\ queue'[j] = queue[j + 1]
      BY <1>2
    <3>2. /\ callers[queue[i + 1].from] = Waiting("waiting", queue[i + 1].call)
          /\ \A k \in DOMAIN queue : queue[k].from = queue[i + 1].from => k = i + 1
      BY <1>1, <3>1 DEF CallsMatch
    <3>3. \A j \in DOMAIN queue' : queue'[j].from = queue'[i].from => j + 1 = i + 1
      BY <3>1, <3>2
    <3>4. queue[i + 1].from \in Callers \ {c}
      <4>1. queue[i + 1].from \in Callers
        BY <1>1, <3>1, QueueIs
      <4>2. queue[i + 1].from # c
        BY <2>2, <3>1
      <4> QED
        BY <4>1, <4>2
    <3> QED
      BY <1>2, <2>3, <3>1, <3>2, <3>3, <3>4
  <2>5. SeenAdrift' = SeenAdrift
    BY <1>1, <1>5, HeadCounts
  <2>6. SeenCallers' = [SeenCallers EXCEPT ![c] = Promise!Idle(answer)]
    <3>1. Seen(Idle(answer)) = Promise!Idle(answer)
      BY DEF Seen, Idle, Promise!Idle
    <3> QED
      BY <1>1, <2>1, <3>1, OneIsSeen
  <2>7. SeenCallers[c].state = "asking" /\ SeenCallers[c].call = call
    BY <2>1, <2>2 DEF SeenCallers, View, IsWaiting, Waiting
  <2> HIDE DEF call, answer, c
  <2>8. Promise!TakeEffect(c)
    BY <1>3, <2>1, <2>5, <2>6, <2>7
       DEF Promise!TakeEffect, Promise!IsAsking, Promise!Becomes, SeenCallers,
           SeenAdrift
  <2> QED
    BY <2>1, <2>4, <2>8 DEF Promised, Promise!AtomicNext
<1> QED
  BY <1>4, <1>5

LEMMA ClosePromised ==
  ASSUME RelayServiceInv, Close
  PROVE  Promised
<1>1. CommandsOK /\ queue' = << >> /\ UNCHANGED relayVars
  BY DEF RelayServiceInv, ServiceInv, Close
<1>2. CallsMatch'
  BY <1>1 DEF CallsMatch
<1> DEFINE lost == {c \in Callers : IsWaiting(c, "waiting")}
<1>3. SeenAdrift' = Promise!NoneAdrift
  <2>1. \A call : Adrift(call)' = {}
    BY <1>1 DEF Adrift
  <2>2. Cardinality({}) = 0
    BY FS_EmptySet
  <2> QED
    BY <2>1, <2>2, SameCommands DEF SeenAdrift, Promise!NoneAdrift
<1>4. \A c \in Callers : callers'[c] = IF c \in lost THEN Idle(Failure) ELSE callers[c]
  BY DEF Close
<1>5. SeenCallers' = [c \in Callers |-> IF c \in lost THEN Promise!Idle(Promise!Failure)
                                        ELSE SeenCallers[c]]
  BY <1>4 DEF SeenCallers, View, IsWaiting, Idle, Promise!Idle, Failure, Promise!Failure
<1>6. lost \in SUBSET {c \in Callers : SeenCallers[c].state = "asking"}
  BY DEF SeenCallers, View, IsWaiting
<1> HIDE DEF lost
<1>7. Promise!Stop
  BY <1>1, <1>3, <1>5, <1>6
     DEF Promise!Stop, Promise!IsAsking, SeenCallers, SeenAdrift,
         Promise!relayVars, relayVars
<1> QED
  BY <1>2, <1>7 DEF Promised, Promise!AtomicNext

LEMMA ServicePromised ==
  ASSUME RelayServiceInv, [ServiceNext]_serviceVars
  PROVE  Promised
<1>1. CommandsOK /\ CallsMatch
  BY DEF RelayServiceInv, ServiceInv
<1>2. ASSUME queue' = queue, callers' = callers, UNCHANGED relayVars
      PROVE  Promised
  <2>1. CallsMatch'
    BY <1>1, <1>2 DEF CallsMatch
  <2> QED
    BY <1>2, <2>1, NoneIsSeen, SameAdrift, Unseen DEF Promised
<1>3. CASE UNCHANGED serviceVars
  BY <1>2, <1>3 DEF serviceVars
<1>4. CASE Serve
  <2>1. Head(queue) \in Command
    BY <1>1, <1>4 DEF Serve, CommandsOK
  <2> QED
    BY <1>4, <2>1, TurnPromised DEF Serve, Command
<1>5. CASE Shutdown
  <2>1. Head(queue) \in Command
    BY <1>1, <1>5 DEF Shutdown, CommandsOK
  <2>2. Perform(Head(queue).call) /\ AnswerTo(Head(queue).call) = "Ok"
    BY <1>5 DEF Shutdown, Perform, AnswerTo, ReplyTo
  <2> QED
    BY <1>5, <2>1, <2>2, TurnPromised DEF Shutdown, Command
<1>6. CASE Tick
  BY <1>2, <1>6 DEF Tick
<1> QED
  BY <1>3, <1>4, <1>5, <1>6, RequestPromised, SendPromised, DisconnectPromised,
     ClosePromised DEF ServiceNext

LEMMA ServiceStartsPromised == ServiceInit => CallsMatch /\ Promise!AtomicInit
<1> SUFFICES ASSUME ServiceInit
             PROVE  CallsMatch /\ Promise!AtomicInit
  OBVIOUS
<1>1. CallsMatch
  BY DEF ServiceInit, CallsMatch
<1>2. SeenCallers = [c \in Callers |-> Promise!Idle("nothing")]
  BY DEF ServiceInit, SeenCallers, View, IsWaiting, Idle, Promise!Idle
<1>3. SeenAdrift = Promise!NoneAdrift
  <2>1. \A call : Adrift(call) = {}
    BY DEF ServiceInit, Adrift
  <2>2. Cardinality({}) = 0
    BY FS_EmptySet
  <2> QED
    BY <2>1, <2>2, SameCommands DEF SeenAdrift, Promise!NoneAdrift
<1> QED
  BY <1>1, <1>2, <1>3 DEF Promise!AtomicInit, SeenCallers, SeenAdrift,
     Promise!RelayInit, RelayInit, ServiceInit

(* For any length of the channel and any number of callers, a call that a  *)
(* handler makes takes effect at most once, as one step between being made *)
(* and being answered, and one that fails did nothing: this is what allows *)
(* the other modules to take a call for one action (service.rs:58-157,     *)
(* 209-290).                                                               *)
THEOREM ServiceKeepsItsPromise == ServiceSpec => CallsAreAtomic
<1>1. RelayServiceInv /\ [ServiceNext]_serviceVars => Promised
  BY ServicePromised
<1> QED
  BY <1>1, ServiceInvariant, ServiceStartsPromised, PTL
     DEF ServiceSpec, RelayServiceInv, Promised, CallsAreAtomic, Promise!AtomicSpec

=============================================================================
