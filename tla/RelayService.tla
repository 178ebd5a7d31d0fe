---------------------------- MODULE RelayService ----------------------------
(***************************************************************************)
(* The relay as it runs: requests (src/server/http.rs, src/server/app.rs,  *)
(* and the command line client that sends them) put commands into the      *)
(* bounded channel of the RelayService task (src/relay/service.rs), which  *)
(* performs them one after the other and answers each to its own caller.   *)
(*                                                                         *)
(* A request reads the clock before its command is sent.  A client that    *)
(* goes away takes its request with it, but not the command it has sent.   *)
(* Who was told that a slot was created knows its tokens, and passes them  *)
(* on; nobody else can name them.                                          *)
(***************************************************************************)
EXTENDS Relay, Sequences

CONSTANTS
  Callers,         \* requests that may be under way at once
  CommandBuffer,   \* room in the channel; 128 in the code
  Nobody           \* whom a command is answered to when its caller is gone

ASSUME ServiceAssumption ==
  CommandBuffer \in Nat \ {0} /\ Nobody \notin Callers

VARIABLES
  callers,   \* every caller's call, or what it was told last
  service,   \* "running", "stopping" once told to shut down, or "stopped"
  queue,     \* the commands in the channel
  clock,     \* what now() reads
  told       \* slots whose tokens are known

serviceVars == <<relayVars, callers, service, queue, clock, told>>

-----------------------------------------------------------------------------
(* A caller is idle, waits for room in the channel, or waits for an answer. *)

Idle(outcome) == [state |-> "idle", outcome |-> outcome]
Waiting(state, call) == [state |-> state, call |-> call]

IsWaiting(c, state) == callers[c].state = state

Becomes(c, state) == callers' = [callers EXCEPT ![c] = state]
Leaves(c, outcome) == Becomes(c, Idle(outcome))

(* Only tokens that somebody was told are used.                            *)
IsNameable(call) ==
  call.op \in {"Upload", "Download", "Delete"} =>
    call.relay \in told /\ call.token.slot \in told

(* Bound of the model: creations that could still be under way.            *)
Creations ==
  Cardinality(DOMAIN slots)
    + Cardinality({c \in Callers : /\ callers[c].state # "idle"
                                   /\ callers[c].call.op = "CreateSlot"})
    + Cardinality({i \in DOMAIN queue : /\ queue[i].from = Nobody
                                        /\ queue[i].call.op = "CreateSlot"})

(* A handler builds its command with the time at which it began.           *)
IsBuilt(call) == call.op # "Shutdown" => call.now = clock

Request(c) ==
  /\ IsWaiting(c, "idle")
  /\ \E call \in RelayCommand :
       /\ IsBuilt(call)
       /\ call.op = "CreateSlot" => Creations < MaxSlots
       /\ IsNameable(call)
       /\ Becomes(c, Waiting("sending", call))
  /\ UNCHANGED <<relayVars, service, queue, clock, told>>

(* send: the channel takes the command when it has room and a receiver.    *)
Send(c) ==
  /\ IsWaiting(c, "sending")
  /\ \/ /\ service # "stopped"
        /\ Len(queue) < CommandBuffer
        /\ queue' = Append(queue, [from |-> c, call |-> callers[c].call])
        /\ Becomes(c, Waiting("waiting", callers[c].call))
     \/ /\ service = "stopped"
        /\ Leaves(c, Failure)
        /\ UNCHANGED queue
  /\ UNCHANGED <<relayVars, service, clock, told>>

(* fault: the command that was sent is still the client's.                 *)
DisconnectLoosely(c) ==
  /\ ~IsWaiting(c, "idle")
  /\ Leaves(c, "nothing")
  /\ UNCHANGED <<relayVars, service, queue, clock, told>>

(* The client disconnects and the handler is dropped where it awaits.      *)
Disconnect(c) ==
  /\ ~IsWaiting(c, "idle")
  /\ Leaves(c, "nothing")
  /\ queue' = [i \in DOMAIN queue |->
                 IF queue[i].from = c THEN [queue[i] EXCEPT !.from = Nobody]
                 ELSE queue[i]]
  /\ UNCHANGED <<relayVars, service, clock, told>>

(* reply.send, which fails when the caller is gone.                        *)
Answer(command, outcome) ==
  IF command.from = Nobody THEN UNCHANGED callers
  ELSE Leaves(command.from, outcome)

(* Created: the next slot is told to whoever waits for it.                 *)
Learns(command, outcome) ==
  IF /\ command.from # Nobody
     /\ command.call.op = "CreateSlot"
     /\ outcome = "Ok"
  THEN {NextRelayId} ELSE {}

(* One turn of run.                                                        *)
Serve ==
  /\ service = "running"
  /\ queue # << >>
  /\ Head(queue).call.op # "Shutdown"
  /\ Perform(Head(queue).call)
  /\ Answer(Head(queue), AnswerTo(Head(queue).call))
  /\ told' = told \cup Learns(Head(queue), AnswerTo(Head(queue).call))
  /\ queue' = Tail(queue)
  /\ UNCHANGED <<service, clock>>

(* The loop ends with a Shutdown, which is answered first.                 *)
Shutdown ==
  /\ service = "running"
  /\ queue # << >>
  /\ Head(queue).call.op = "Shutdown"
  /\ Answer(Head(queue), "Ok")
  /\ service' = "stopping"
  /\ queue' = Tail(queue)
  /\ UNCHANGED <<relayVars, clock, told>>

(* fault: those who wait are not told.                                     *)
CloseQuietly ==
  /\ service = "stopping"
  /\ service' = "stopped"
  /\ queue' = << >>
  /\ UNCHANGED <<relayVars, callers, clock, told>>

(* The receiver is dropped with the commands it holds and their replies.   *)
Close ==
  /\ service = "stopping"
  /\ service' = "stopped"
  /\ queue' = << >>
  /\ callers' = [c \in Callers |->
                   IF IsWaiting(c, "waiting") THEN Idle(Failure)
                   ELSE callers[c]]
  /\ UNCHANGED <<relayVars, clock, told>>

Tick ==
  /\ clock < MaxTime
  /\ clock' = clock + 1
  /\ UNCHANGED <<relayVars, callers, service, queue, told>>

ServiceInit ==
  /\ RelayInit
  /\ callers = [c \in Callers |-> Idle("nothing")]
  /\ service = "running"
  /\ queue = << >>
  /\ clock = 0
  /\ told = {}

ServiceNext ==
  \/ \E c \in Callers : Request(c) \/ Send(c) \/ Disconnect(c)
  \/ Serve \/ Shutdown \/ Close
  \/ Tick

(* The executor runs whatever can run.  Nothing makes a client call, leave *)
(* or stop the service.                                                    *)
ServiceFairness ==
  /\ WF_serviceVars(Serve \/ Shutdown \/ Close)
  /\ \A c \in Callers : SF_serviceVars(Send(c))

ServiceSpec == ServiceInit /\ [][ServiceNext]_serviceVars /\ ServiceFairness

-----------------------------------------------------------------------------
(* Properties.                                                             *)

(* Where in the channel a call is that nobody waits for any more.          *)
Adrift(call) ==
  {i \in DOMAIN queue : queue[i].from = Nobody /\ queue[i].call = call}

View(c) ==
  IF IsWaiting(c, "idle") THEN callers[c]
  ELSE [state |-> "asking", call |-> callers[c].call]

Promise == INSTANCE AtomicRelay WITH
  callers <- [c \in Callers |-> View(c)],
  adrift <- [call \in RelayCommand |-> Cardinality(Adrift(call))]

(* The channel and the task keep what a RelayHandle promises: a call takes *)
(* effect at most once, between being made and being answered, and one     *)
(* that fails did nothing (service.rs:58-157, 209-290).                    *)
CallsAreAtomic == Promise!AtomicSpec

(* Nobody waits for ever: neither for room in a full channel nor for an    *)
(* answer, although the caller before it may have gone away and the        *)
(* service may be shut down meanwhile (service.rs:78-83, 150-157, 209-222).*)
CallsAreAnswered ==
  \A c \in Callers : ~IsWaiting(c, "idle") ~> IsWaiting(c, "idle")

(* Once a sweep at some time has been performed, a blob whose time had     *)
(* come remains only in a slot that was consumed, uploaded to once more    *)
(* and asked for in vain (core.rs:109-115, 141-144, 178-196).              *)
SweepsAreThorough ==
  [][\A now \in RelayTime :
       (/\ service = "running" /\ queue # << >>
        /\ Head(queue).call.op = "Expire" /\ Head(queue).call.now = now
        /\ queue' = Tail(queue))
       => \A r \in DOMAIN slots :
            (IsPast(r, now) /\ slots'[r].blob # NoBlob)
              => slots[r].status = "Consumed" /\ IsSpent(slots[r])
    ]_serviceVars

=============================================================================
