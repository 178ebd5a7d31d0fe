# agentMarketplace in TLA+

agentMarketplace is a platform (Rust, tokio) on which one agent publishes a
task, others work on it, others again review the work, and money that the
publisher put aside is paid out according to the reviews. This directory models
the parts of it that keep state, checks them with TLC on small instances and
proves the central invariants with TLAPS for all instances.

Source references are relative to the repository: `core.rs:67-77` in a comment
of a module is the `core.rs` of the component that the module's head names.

## The system

Every component is a *core*, a plain struct without concurrency, owned by a
*service*, a task that takes one command at a time from a channel and answers
it. HTTP handlers (`server/app.rs`) and the runtime await one call after the
other, so everything may happen between two calls, and a handler may be dropped
between two calls when its client goes away.

| Component | State | Operations | Talks to |
|---|---|---|---|
| Settlement core | balances, holds, ledger | deposit, hold, release, refund | called by handlers, gateway, runtime |
| LiveSession core | sessions, assignments, four indexes | create/close session, assign, submit, cancel, approve, reject | called by handlers, gateway (reads), runtime |
| Review core | review sessions with verdicts | request, submit | called by handlers, gateway (reads) |
| Settlement gateway | none | settle after a verdict, release an execute hold, release a review hold | reads LiveSession and Review, writes Settlement |
| Runtime | none | handle a heartbeat event | Registry, LiveSession, Settlement, Task |
| Heartbeat | last ping, busy, timed out | ping, scan, forget | publishes to Runtime, with a timeout |
| Task core | tasks, indexes of the agents | create, add, remove, complete, cancel | called by handlers and runtime |
| Registry | agents, capabilities, who is alive | register, declare, mark alive/timed out, discover | called by handlers and runtime |
| Storage | credentials, idempotency records, locators | begin/finish an operation, store a locator, store/revoke a credential | called by every writing handler |
| Relay | slots with blobs, counts of downloads | create, upload, download, delete, expire | called by handlers |
| Artifact validation | none | validate a manifest, hash it | called by the handler that submits |
| Server application | the number of the next token | the handlers | everything |
| Command line client | the credentials file | one request for each command; register and deregister change the file | server application |
| HTTP layer | none | parsing, formatting, reading the clock | server application |

What is hard in it:

- **Time stamps race.** A handler reads the clock once, before it queues at any
  service; a core compares the time with the last one it saw and may refuse.
- **Reads and writes are in different calls.** The gateway reads statuses, the
  reviewers and the verdicts in three calls of two services and pays in a
  fourth.
- **Nothing is retried.** A settlement that fails, a publication that outlasts
  its timeout, a cleanup call that is refused: all are logged and forgotten.
- **The same facts are kept twice**: ledger and balances, participants and the
  index of the active tasks, declarations and the index of discovery.
- **A client may leave at any await.** A command that stands in the channel of a
  service is performed all the same; the calls that were to follow it are not.

What makes each part correct:

| Component | Properties |
|---|---|
| Settlement core | money is conserved; the ledger explains holds and balances; a hold is settled once; one active hold for each piece of work |
| LiveSession core | statuses, outputs and clocks go forward, also when a call is refused halfway; references are sound |
| Review core | one verdict for each named reviewer, final; the latest session is well defined and never an overtaken one |
| Settlement gateway | nothing is paid that was not delivered and accepted; what is due is paid, at the latest with the last verdict |
| Runtime | work that was delivered is kept; holds for abandoned work go back (with exceptions) |
| Heartbeat | who is silent is reported, once, and nobody else |
| Registry | discovery finds exactly who is suitable; nobody who was heard of is hidden, unless the news of it was dropped |
| Task core | participants and indexes agree; a closed task stays closed |
| Storage | one handler for each key within the timeout; answers are true and final; a finished submission has its locator; a revoked token stays revoked |
| Artifact validation | what was submitted is about the assignment and can be fetched; who delivers the same artifact gets the same hash, however its files are listed |
| Relay | no more downloads than were granted; a deleted slot stays empty; a sweep leaves nothing behind but in one named case; a call takes effect at most once before it is answered, and is answered |
| Command line client | a registered agent can prove who it is, but in three named cases |

## The modules

| Module | Models | Notes |
|---|---|---|
| `Settlement` | `settlement/core.rs` | one action per operation |
| `Journal` | the promise of the ledger | abstract; implemented by `Settlement` |
| `LiveSession` | `livesession/core.rs` | one action per operation |
| `Artifact` | `artifact/types.rs`, `profile.rs`, `validator.rs`; `hash.rs` is taken to be injective | operators only |
| `Delivery` | `submit_artifact` of `server/app.rs` and the locators of `storage/core.rs` | composes `LiveSession`, `Artifact`, `Idempotency` |
| `DeliveryProofs` | | TLAPS, about `LiveSession`, `Artifact` and `Delivery` |
| `Review` | `review/core.rs`, and `latest_review_session` of the gateway | |
| `CoreProofs` | | TLAPS, about `Settlement`, `Journal` and `Review` |
| `SettlementGateway` | `settlement/gateway.rs` and the handlers of `server/app.rs` that lead to it | composes `LiveSession`, `Review`, `Settlement` |
| `GatewayProofs` | | TLAPS |
| `Task` | `task/core.rs` | |
| `Idempotency` | the idempotency records of `storage/core.rs` | |
| `KeyedTasks` | the handlers of `server/app.rs` that create a task and add a participant, each under a key | composes `Idempotency`, `Task` |
| `KeyedTasksProofs` | | TLAPS, about `Task` and `KeyedTasks` |
| `Heartbeat` | `heartbeat/core.rs` | |
| `Registry` | `registry/core.rs` | |
| `Presence` | `heartbeat/service.rs`, `registry/service.rs` and the handlers that ping, register, declare and deregister | composes `Heartbeat`, `Registry` |
| `PresenceProofs` | | TLAPS |
| `Runtime` | `runtime/core.rs`, `heartbeat/service.rs`, the handlers it races with | composes `Heartbeat`, `LiveSession`, `Settlement`, `Task` |
| `RuntimeProofs` | | TLAPS |
| `Relay` | `relay/core.rs` | a slot, its tokens, and what a call is told |
| `AtomicRelay` | the promise of a `RelayHandle` | abstract; implemented by `RelayService` |
| `RelayService` | `relay/service.rs`, the handlers of the relay and the client that sends them | the channel, the task, its shutdown |
| `RelayProofs` | | TLAPS, about `Relay`, `RelayService` and `AtomicRelay` |
| `Accounts` | `register_agent_with_proof`, `deregister_agent_with_proof`, the credentials of `storage/core.rs`, and the commands and the credentials file of `bin/agent-marketplace.rs` | extends `Registry` |
| `AccountsProofs` | | TLAPS |
| `MC...` | the small instances | values of the constants, symmetry sets |

How they correspond to the code:

- *A call is an action.* A service runs one command to its end, so every
  operation of a core is one action; its guard is the conjunction of what the
  code checks, in no order because a refused call changes nothing and is a
  stuttering step. The one exception is in `LiveSession`: `touch_session` comes
  last and may refuse after the assignment was written. There the refusal is a
  disjunct of the action, and the variable `reply` tells which one the caller was
  told of.
- *That a call is an action* is itself checked, for the service of the relay:
  `RelayService` has the bounded channel, callers that wait for room or for an
  answer and may go away, and a shutdown that drops the receiver, and implements
  `AtomicRelay`, where a call takes effect once or fails without one. The other
  services have the same channel, the same loop and the same handle, so the
  other modules begin where `AtomicRelay` ends.
- *Indexes.* The indexes of LiveSession, Review and Settlement are written where
  the record is and only read through queries; the queries are sets computed
  from the records. The indexes of `Task` are maintained by three operations and
  are variables.
- *Ids* are the numbers in `"hold-3"`. Only the ids of reviews are ever compared,
  as strings, and `Review` compares their decimal digits.
- *Money* is a natural number up to `MaxBalance`, the `u64::MAX` of the model;
  `checked_add` and `checked_sub` are the guards `CanCredit` and `CanPay`.
- *Handlers* (`SettlementGateway`) are a function from a handler to the place
  where it waits; each step makes the awaited call. Reads of what never changes
  (the kind and the agent of an assignment, the terms of a hold) are merged with
  the next step. `Drop` is a client that disconnects. All calls are made at one
  instant: refusals for time are the subject of `LiveSession` and `Runtime`.
  Of the idempotency keys this module has what decides about payment. A first use
  is `BeginSubmitReview`; a repeated one is `ReplaySubmitReview`, which settles
  once more, as the code does; and between the verdict and the settlement stands
  `FinishKey`, whose error skips the settlement. It fails only when a retry has
  taken the key over after its timeout, which `KeysExpire` allows.
- *Handlers with a key* (`KeyedTasks`) are records in the set `calls`: begin,
  effect and finish are three actions, after each of which the handler may be
  dropped or end with an error. Such a record has the time that the handler
  read when it started, so handlers may reach the storage in another order than
  that of their times. The other handlers that write are built from the same
  three calls.
- *Marks* (`Presence`): `mark_alive` and `mark_timed_out` are sent without
  waiting, so a mark stands in `marks`, the channel of the registry, and what an
  agent is when the registry comes to its mark is not what it was when it was sent.
  Ping handlers send their mark in a step of their own and may be dropped before
  it. The heartbeat service drops a publication that takes longer than
  `publish_timeout`: `Overrun` consumes the event without a mark. It is always
  possible, since the channel may be full of calls that `marks` leaves out. The
  history variable `missed` remembers whom that leaves behind a mark that hides
  them. Agents are numbers in the order of their ids, the order in which discovery
  takes them.
- *Credentials* are the subject of `Accounts`. A token is a number in the order
  of issue. A command line process goes from stage to stage: it reads the file,
  waits for the handler's calls, and truncates and writes the file; `GiveUp` ends
  it anywhere. In all other modules a call comes from the agent it names.
- *Relay tokens* name a slot and a right. Who was told that a slot was created
  may pass its tokens on (`told`), and nobody else can name it. The time of a
  command is the one the handler read before it was sent.
- *Manifests* (`Artifact`, `Delivery`): paths and URIs are numbers, because they
  are sorted and may be blank; a digest is the payload it is made of, so that two
  payloads never share one. Names of properties are taken to have neither `=` nor
  a line break.
- *A publication* (`Runtime`) is the record `service`: the next call and what the
  last listing has left to do. A listing in the code reads a vector and then
  calls for each element; the set of the elements that remain is `todo`.
  `CutOff` drops it at any call. A command that stands in the channel of a service
  by then is performed later in the code; the model performs it before the drop
  or not at all.

Operators that are marked `fault:` are wrong on purpose. Each stands before the
definition it could replace and has its parameters; the specification does not
use it. It says which mistake the property beside it in `PROJECT.json` catches.

## The runs

| Run | Shows | Bounds and why they are enough |
|---|---|---|
| `settlement` | types, one active hold for each assignment and kind, conservation, ledger = balances = holds, finality, implements `Journal` | 2 agents, amounts with zero, a `MaxBalance` small enough to overflow, enough holds for a hold to be settled and the slot to be taken again |
| `delivery` | types, references, clocks, nothing goes back, calls that are refused halfway included; recorded hashes are about the right work; a finished key has its locator; hashes agree exactly when artifact and files do | two assignments of one session and two handlers at once, times 0..2 with a timeout of 2, so a call can be older than the session and newer than the assignment or the reverse, and a key can expire while its handler is at work; two pictures in either order, and once more as an artifact made anew; a bundle in which a path repeats, a manifest that is not sealed |
| `review` | types, one verdict each, no session becomes the latest again | ids 9 and 10, the first pair whose order as strings is not that of the numbers |
| `gateway` | holds name their work; paid reviews were given, paid work was delivered and accepted | two sessions of one work and one review assignment, two holds, two handlers at once; settlements by hand, refunds, drops, keys that expire |
| `due_work` | the last verdict pays the worker, and not before | two reviewers whose verdicts race, two holds, two handlers |
| `keyed_tasks` | one handler for each key within the timeout, answers are true and final; indexes of tasks match | two agents that choose the same keys, two handlers at once, three records, times 0..2 with a timeout of 2: a retry comes in time or too late, before or after the first handler ended |
| `presence` | discovery is exact, no false alarm, silence is reported, nobody is hidden who was heard of unless the publication and the ping handler both failed | an agent that is always idle and one that is always busy, with different timeouts, and the second with a load; two marks in the channel, so that an old mark stands before a new one; pings and publications may be dropped |
| `runtime` | a cleanup takes nothing from delivered work, and settles every hold for open work of the silent agent unless it overruns its timeout or is overtaken by a later time | two assignments, so that one may be cancelled and the other refused or delivered meanwhile; one hold, two instants, cut-offs |
| `relay` | types, downloads are counted, sweeps are thorough, implements `AtomicRelay`, everybody who waits is answered | two callers and one place in the channel, so that one waits for room while another waits for an answer; a slot for two downloads, or for more than it may have; two instants, so that a slot expires. One size: another one is refused before any effect. Longer channels are covered by the proof of the refinement |
| `accounts` | types, a token is revoked once and for good, an identity is lost only in the named cases | two agents and two processes over one file, two tokens, two instants, a server with and without a registration token |

Two runs end in a violation because the code does not do what its documents
say; each is a finding in `PROJECT.json`:

- `repeated_task`: a handler is dropped after it created a task and before it
  finished its key; when the record has expired, the retry creates another task
  (`storage/core.rs:109`).
- `review_paid_by_hand`: a review hold that is released by hand while the
  automatic settlement runs makes the settlement give up before the execute hold
  (`settlement/gateway.rs:78-80`).

More weaknesses show in the models and have no run of their own.

Live sessions and delivery:

- A submission, review mark or cancellation may be refused with
  `TimestampWentBackwards` after the assignment was written
  (`livesession/core.rs:161, 254, 300`): `touch_session` comes last. The design
  (`design/livesession/rust-design.md:153`) asks for the check and does not say
  what a refused call leaves. `LiveSession` has the refused half of each action, and
  every property of `delivery` holds with it.
- An error after the submission (that refusal, a blank URI, a handler that was
  dropped) leaves the work submitted with no locator; no retry can store one,
  since the assignment is not `Assigned` any more (`server/app.rs:499-526`).
  `LocatorsFindTheWork` is the direction that holds. The documents call the
  locator a legacy path (`design/server/overview.md:110-133`).
- The payload of a hash has the values of properties and not their kinds: a flag
  `true` and a text `true` hash alike (`artifact/validator.rs:67-108`).

Money and cleanup:

- A cleanup whose cancellation is refused because a handler has a later time
  strands the hold (`runtime/core.rs:98-115`; `design/coordination.md:171-178`
  says that the holds are refunded). So does a publication that is cut off
  between a cancellation and the refund, since a later cleanup only refunds what
  it cancels itself. `AbandonedHoldsAreRefunded` has both as exceptions.
- Money may be held for work that was cancelled already (`server/app.rs:960`).
- A refund is not held against the evidence: the payer or the publisher of a hold
  gets the money of work that was delivered and accepted back, if it comes
  before the settlement (`server/app.rs:824-855`).

Relay:

- A slot that was consumed may be uploaded to again. If somebody then asks for the
  blob in vain, the slot is `Consumed` once more *with* a blob, and `expire` passes
  it by for ever (`relay/core.rs:109-115, 141-144, 178-185`); this is the one
  case that `SweepsAreThorough` leaves. Nothing in the server calls `expire`.
- A client that goes away does not take its command back: a download is used up
  that nobody received, and a slot is created that nobody can name.

Accounts and presence:

- Whether an agent is known is read in one call and it is registered in another:
  of two first registrations of one agent both get a token
  (`server/app.rs:157-188`), while `README.md:50` has a registration of a known
  agent always take a proof.
- A ping handler that is late to send `mark_alive` undoes a `mark_timed_out`
  (`server/app.rs:227-239`): a silent agent may be found until it pings and times
  out once more.
- In the other direction, an old `mark_timed_out` hides an agent that was heard
  of since only if two things went wrong: the publication of `AgentRecovered`
  outlasted its timeout and was dropped (`heartbeat/service.rs:324-337`), and no
  ping handler has sent its `mark_alive` behind the mark. Then the agent stays
  hidden until the next ping whose handler is not dropped. `HiddenOnlyWhenSilent`
  says that there is no other way. A dropped `AgentTimedOut` leaves a silent agent
  visible.
- Discovery looks at its limit after it took an agent, so a limit of zero finds
  one (`registry/core.rs:139-187`); `DiscoveryIsExact` starts at one.

Reviews:

- Two review sessions of the same millisecond are ordered by their ids as
  strings, `"review-10" < "review-9"` (`settlement/gateway.rs:284-290`). `Review`
  models the comparison, and `NeverLatestAgain` holds all the same.

`CHECK_DEADLOCK` is off, except in `presence`, because the other models stop when
the bounds on ids are used up.

### Fairness

- `FairGatewaySpec`: weak fairness of `Proceed` for every handler. tokio polls a
  future whose call was answered, every service answers the calls in its channel
  in order, and each call is a bounded computation. Nothing is assumed about new
  requests. `due_work` excludes `Drop` and keys that expire while their handler is
  at work, which no fairness would repair.
- `PresenceSpec`: time passes (`Silence`), the ticker of the heartbeat service
  goes off (`ScanPings`), it publishes what it found (`Publish`) or drops it
  (`Overrun`, of which nothing is assumed), and the registry goes through its
  channel (`HandleMark`). Nothing is assumed about agents or
  about ping handlers.
- `RuntimeSpec`: the service goes on with the publication it is in, scans, and a
  ping handler that has begun makes its second call. Nothing is assumed about
  agents pinging, or about publishers refunding.
- `ServiceFairness` (`RelayService`): weak fairness of the task, which takes the
  next command, sees a shutdown or closes, and strong fairness of each caller
  that waits for room, because the channel of tokio is fair: it serves those who
  wait in their order. Nothing is assumed about clients, who may always leave.

The liveness runs state under which behaviour of the publisher they hold:
`HoldsFirst` means that it holds the money and has the work before it asks for
the review, since nothing but a verdict triggers a settlement; `ByHand` is what
it settles by hand meanwhile.

## The proofs

`tlapm` checks them with SMT (Z3), Zenon and LS4, for all values of the
constants that satisfy the `ASSUME`s of the modules. These say that

- bounds, times and amounts are naturals, timeouts are positive, and a
  configuration of the relay is one that `RelayConfig` accepts;
- the marks for "no output" and "no credentials" are none of the things they
  are the absence of, and nobody's command is no caller's;
- the set of agents is finite (`Settlement`, `Presence`), since balances are
  added up and agents are counted; in `SettlementGateway` publisher, worker and
  reviewer are three agents;
- the deposit that `SettlementGateway` and `Runtime` begin with is not zero: the
  core refuses to deposit nothing;
- every manifest in `Delivery` is a record as `artifact/types.rs` has it, whose
  hash is one of the outputs, and tasks end by being completed or cancelled.

TLC evaluates each of them on the runs of the module.

Every safety invariant and every action property of the passing runs is a
theorem, and so are both refinements. What each rests on:

**Induction.** Facts about sums, decimal digits, sorting and the first few of a
set need an induction, and the installed provers cannot use an induction theorem
that takes a predicate. Each such fact is proved by a smallest counterexample
instead: the numbers, or the finite sets, for which the claim fails form a set;
if it has an element it has a least one (`LeastNumber`, `Smallest`), and there
the claim follows from what is smaller. So `CoreProofs` knows what `SumFunctionOnSet` does
when one value changes, and that two ids have different digits;
`DeliveryProofs` that two sorted lists of the same files are equal
(`FilesSorted`); `PresenceProofs` what discovery takes of a set under a limit.

**Settlement.** Types are inductive by themselves. `OneActiveHoldPerSlot` follows
from the types and the guard `Taken`. `LedgerMatchesHolds` says for every hold
that the ledger has exactly one entry that opened it, and exactly one that
closed it if it is settled, with its amount and its parties: it is inductive
because a new id is greater than all earlier ones, so no old entry names it.
Finality of holds is an action property from the type invariant.
`FundsConserved` is an equation of three sums (`Books`): each operation changes
one summand in two of them by the same amount. `LedgerIsAJournal` has the
invariant `Replays`: what the ledger adds up to for an agent is its balance, so
an entry that the core writes is one that the journal allows.

**Reviews.** `ReviewInv`: types, the reviewers of a session never change, and
there is at most one verdict of each. `NeverLatestAgain` needs of the order of
the sessions only that it is strict and total, and that is where the work is:
ids are compared as strings, digit by digit, so two numbers with equal digits
must be equal and the comparison must be transitive for strings of any length.

**LiveSession.** The inductive invariant is the conjunction of the types,
`OutputFollowsStatus` (an assignment has an output unless it is `Assigned` or
`Cancelled`), `ReferencesSound` and `SessionClockLeads`. The third is what makes
the refused half of `SubmitOutput` harmless to the clocks: the refused call
leaves the assignment with a time before that of its session. `NothingGoesBack`
needs `OutputFollowsStatus`, without which a step could submit an assignment
that has an output already.

**Delivery.** Every step of the handler is a step of `LiveSession` or none
(`DeliveryIsLiveSession`), so what is proved of the sessions holds here too.
`DeliveryInv` ties what is stored to the manifest: every output is the hash of an
accepted manifest for that assignment by its agent; one handler at most has yet
to store a locator for an assignment; and an answered key names a locator that
stands. `RetriesHashAlike` is a fact about `Artifact`: two accepted manifests have
one hash exactly if they list the same files as the same artifact, since sorting by path forgets the
order and paths do not repeat. The kinds of properties are no part of the hash,
and the property says so.

**Keyed handlers.** `OneHandlerPerKey` is inductive together with the shape of the
records and of the handlers. It speaks of the handlers *and* the record, and it
has to: a handler that begins looks at the record only, so the record must tell
when the handlers under way began. Every step is first reduced to one of five
kinds (`StepKinds`), in which the tasks no longer occur; so the theorem holds for
whatever the keys protect, and is not one about tasks. That answers are final
follows from the guards of begin and finish together. `AnswersAreTrue` needs an
invariant about answers that are on their way (`Truthful`): a handler that has
created a task carries it, and no record and no other handler has that task.

**Tasks.** `IndexesMatch` is inductive with the types: each operation is reduced to
the replacement of one task (`ReplaceGood`), and what it does to the two indexes
of an agent must be what it does to that agent's participation. By
`HandlersImplementTask` it holds under the handlers too.

**Settlement gateway.** A handler acts on what it read some calls ago.
`HandlersStand` says that what it remembers is still so when it acts: reviews
only get verdicts, delivered work stays delivered, a hold keeps its terms
(`EverythingStays`). `PaidIsEarned` says of the cores alone that a released hold
was earned, by delivered work and the verdicts that accept it, so it outlives the
handler that released it. `MoneyMoves` shows that every step of a handler is one
of the settlement core or none, with evidence that the core can be given; so what
the core keeps of its money (`Accounting`: types, slots, ledger, conservation) is
kept here (`MoneyIsAccountedFor`), and a hold is settled by the first handler that
gets to it (`PaidAtMostOnce`). The module begins with one deposit made and not
with the empty core, which is why the invariant carries over rather than
`SettlementSpec`.

**Runtime.** `MemoryIsTrue`: whatever handlers do between the calls of a
publication, the assignments it has cancelled stay cancelled and without an
output, and the holds it is about to refund stay holds of the silent agent for
those assignments. Two theorems are about what a publication does from what it
listed earlier. The other two are about the money, by the argument of the
gateway: here the runtime and the publisher race for refunds
(`SilenceLosesNoMoney`, `RefundedAtMostOnce`).

**Presence.** `AliveStayRegistered` is inductive. `HiddenStayTrue` needs an
invariant about what is on its way (`NewsOK`): every hiding mark is true of its
agent, or stands before news of the same agent that undo it, or that news was
dropped (`missed`). A hiding event that is not published yet is true, since the
heartbeat service takes no ping before. So the order of the two channels, from
the heartbeat to the registry, carries the proof, and `OverrunNews` is the one
step that puts an agent among the missed.
`DiscoveryIsExact` rests on the index being exactly who offers what, and on a
count: of a set of agents, those with fewer than `limit` before them are
`limit`, or all.

**Relay.** The theorems are about `ServiceSpec`, not about the core alone. The
invariant is that of the slots (`RelayInv`: types, the blob of an uploaded slot
has the announced size, what was served is what was counted, a consumed slot
with a blob was asked for in vain) together with `CommandsOK`: whatever waits
anywhere, with a caller or in the channel, is a command. Each operation changes
one slot (`ChangedSlot`, `ReplaceKeeps`) or, in a sweep, each slot in one of two
ways. That a slot hands out no more than it was granted needs its type, since a
download compares before it adds.

`ServiceKeepsItsPromise` maps the channel to `AtomicRelay`. Its invariant
(`CallsMatch`) is that a command in the channel is the one its caller waits for,
and the only one of that caller; commands of callers that are gone are counted
by what they ask for. `Send` is a stutter, `Serve` is
`TakeEffect` or, when nobody waits, `TakeLateEffect`.

**Accounts.** `AccountsInv` is about credentials, the file and the processes
together: a process that has a token to save or to revoke names an agent to
whom it was issued, and so does the file. It does not hold of the credentials
alone. Every action but one leaves all old credentials as they are;
`RevokeCredential` changes that of the process, at a time that is no `Never`.
`IdentityIsKept` needs `TokensOK` besides: a token that is not in the file yet is
active and in one hand only, so nobody can be about to revoke it, and a process
that is about to remove the file has had its token revoked.

**What the proofs corrected.** `AtomicRelay` kept the calls of callers that are
gone in a sequence, in the order in which they left; with more than one place
in the channel that is not the order in which they are performed, and the
refinement failed. It counts them now. `RetriesHashAlike` had taken the kinds of
properties for a part of the hash.

**Only model-checked.** `DueWorkIsPaid`, `SilenceIsReported`,
`AbandonedHoldsAreRefunded` and `CallsAreAnswered`: liveness under fairness, which
is out of the provers' reach. The two runs that end in a violation.

## Not modelled

- Routes, headers, JSON and the texts that the command line prints: parsing and
  formatting without a state of their own.
- What else a command can be given as a token (`--token`, the environment), and
  other home directories: in `Accounts` the token is the one in the file, and ids
  are equally long, so that of two writes of the file the last one stands.
- A failed outcome of an idempotent operation: no handler records one.
- Operations without a caller in production: `close_session`, `mark_approved`,
  `mark_rejected` and `cancel_assignment` are in `LiveSession` because the core
  offers them; `forget` of the heartbeat is in no module.
- `list_agents` and the texts of an identity, which are answered as stored.
- Sizes of texts, scores of verdicts, blobs of another size than announced:
  rejected before anything happens.
- The seconds of a relay's ttl beside the milliseconds of its times, and the
  saturating arithmetic between them.
- References of a second task in `delivery`, whose instance has one task: that
  they are refused is part of `ReferencesStaySound`, which is proved.
- A service that has shut down or a full channel, except in `RelayService`: a call
  then fails with an error and without an effect, which is a stuttering step, or
  waits. The heartbeat service does neither: it gives a publication up, and the
  event is gone (`Overrun` in `Presence`, `CutOff` in `Runtime`).
- Restarts of the server: nothing is persisted, a new process starts from `Init`.

## The plan

What is left, in this order:

1. Keys around the handlers that hold, deposit and open sessions, as `KeyedTasks`
   has them around tasks and `Delivery` around submissions, with the abstract
   specification of an operation that has at most one effect within the timeout.
2. An abstract specification of an escrow that `SettlementGateway` implements:
   work is offered, delivered, accepted and paid.
3. Proofs: that `SettlementGateway` and `Runtime` move the sessions and the reviews
   by steps of `LiveSession` and `Review`, as they move the money by steps of
   `Settlement`, so that the clocks and the arrows of the statuses carry over;
   the escrow of 2.
4. The other services with their channels, by instancing what `RelayService` and
   `AtomicRelay` have in common.
