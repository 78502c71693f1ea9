# Lifecycle Guard in TLA+

A verification project for the Teleport lifecycle controller of this
repository: TLA+ modules translated from its source, TLC runs that check them on
small instances, and proofs that TLAPS checks for every instance.

## 1. The system

The controller turns HR records into access. A joiner, mover or leaver event
about a person, or a deploy event about an AI agent, is reconciled against a
Teleport cluster; an audit pass then compares the cluster with what HR and the
policy say.

| part | code | state it keeps | operations | modelled in |
|---|---|---|---|---|
| HR and agent events | `go/internal/hris`, `go/internal/subject` | none | `Validate`, `ParseStream` | `Subjects`, `Connectors` |
| Policy | `go/internal/policy` | none (tables) | `RolesFor`, `RolesForAgent`, `CanAutoApprove` | `Policy`, `DefaultPolicy` |
| Teleport access plane | `go/internal/teleport` (`Mock`) | users, locks, sessions, workload identities, bots | upsert, delete, lock, mint | `AccessPlane` (and `Runner` for sessions) |
| Engine, people | `go/internal/engine/engine.go` | none of its own | `Reconcile`, `EvaluateAccessRequest` | `Engine` |
| Engine, agents | `go/internal/engine/agent.go` | none of its own | `ReconcileAgent` | `AgentEngine` |
| Temporal activities and workflows | `go/temporal` | workflow histories | reconcile, audit emission, approval wait, lockout saga, retries | `Workflows`; the reconcile activity call by call in `Engine` |
| Audit | `go/internal/audit` | none | `Detect` | `Audit` |
| Device trust | `go/internal/jamf` | inventory | `PostureMaps`, `IsCompliant` | `Audit` |
| Scenario runner | `go/internal/scenario` | a cluster, the HR roster, devices, logs | live events, lock, terminate, device, incident, load, trace | `Runner`, `Scenarios`, `Console`; the device slice in `TraceSnapshot` |
| HTTP server | `go/cmd/server` | one runner | one handler per operation | `Console`, `TraceSnapshot`, `ReviewDesk` |
| Lean model | `lean/LifecycleGuard` | none | `reconcile`, `deprovision` | `LeanModel`, which the engine is compared with |
| Temporal worker and starter | `go/temporal/worker`, `go/temporal/cmd` | per process: a cluster mock | start a run, signal, restart | `Workflows` |
| Helpdesk classifier and update | `go/internal/connector/zendesk` | tickets | `ClassifyAndExtract`, `UpdateTicket` | `Workflows` |
| Vendor connectors | `go/internal/connector/rippling`, `okta` | none | `ParseWebhook`, `Poll` | `Connectors` |
| Copilot | `go/internal/copilot` | none | `Generate`, `Ask` | `Copilot`, with its endpoints in `ReviewDesk` |
| Command line pipeline | `go/cmd/lifecycleguard` | a cluster per run, `trace.json` | one run | `CommandLine` |
| Warehouse | `dbt/models` | incremental and rebuilt tables | one build per model | `Warehouse` |
| macOS, Terraform, Kubernetes, dashboard, Panther and Chrome | | | | not modelled, see section 7 |

How they interact. Connectors and HTTP handlers produce events; a Temporal
workflow (or the runner, under its mutex) hands one to the engine; the engine
makes a few separate calls on the Teleport client; the audit pass reads the
cluster, the roster the runner kept of past events, and the device inventory.
Everything shared lives in the `Mock`, whose methods are atomic, and in the
`Runner`, whose methods are, but for the device slice that `Trace` hands out. The
command line program does in one process what the others do in several: it reads a
stream of events, reconciles, plants failure modes, audits, and may ask the copilot.
The warehouse sees none of this; it derives the same promise from the audit log.

What is hard. The engine has no lock: reconciles of one identity interleave
call by call. Temporal retries a failed attempt from the beginning up to five
times and may start an attempt while one that timed out is still running,
because no Teleport call looks at its cancelled context. A leave is two calls
(people) or three (agents) that can each fail. A deleted bot does not revoke a
credential minted before. The console serves requests concurrently, and one of
its operations is two critical sections. A response is encoded after the mutex was
released, from memory a later request rewrites. Every Temporal worker process holds a
cluster in memory, and any of them may run the next activity. Vendor messages arrive
late, twice and out of order. The warehouse loads by watermark, twice in a row, and its
runs may stop half way. `PROJECT.json` lists these hazards one
by one, each at its line, with the properties that would catch it.

What makes each part correct:

* engine: an undisturbed reconcile converges to what its event says; an
  offboarded identity never regains access; no access appears that no HR record
  entitles; the order lock, then delete, holds wherever an attempt stops;
* agents: the same promise, and a credential that outlives its bot is severed;
* workflows: what the SIEM is told happened, and an offboarding is told in full;
  the first answer to an access request decides it, and no answer denies it; a
  ticket is resolved only behind its lock; every run closes;
* console: the roster, the cluster and the findings agree; containment lasts;
  device trust follows the last registration and concerns its owner; the device list
  a response shows is the one its snapshot took;
* pipeline: the last word about a person decides, nobody gone is overlooked, nothing
  is half reconciled;
* copilot: every request is answered, and no recommendation does without a human;
* warehouse: an exception is missed only if its event landed late.

## 2. The modules

```
Subjects -- Policy -- AccessPlane --+-- Engine ------- MCEngine, EngineProofs
   |                                +-- AgentEngine -- MCAgentEngine, AgentEngineProofs
   |                                +-- Workflows ---- MCWorkflows, WorkflowsProofs
   |                                +-- Audit -- Runner -- Console -- MCConsole, ConsoleProofs
   |                                                |
   |                                             Scenarios --+
   +-- Connectors -------------------------------------------+-- CommandLine -- MCCommandLine,
Copilot -----------------------------------------------------+                  CommandLineProofs
   +-- ReviewDesk -- MCReviewDesk, ReviewDeskProofs
TraceSnapshot -- MCTraceSnapshot, TraceSnapshotProofs
Warehouse ------ MCWarehouse, WarehouseProofs

LeanModel:     extended by Engine, AgentEngine and Workflows
Offboarding:   instantiated by Engine and AgentEngine
Inventory:     instantiated by TraceSnapshot
DefaultPolicy: the tables of policy.Default(), taken by the MC modules
MCAnswers:     the language model's answers, taken by two MC modules
```

* **Subjects**: `Employee`, `Event`, `Validate`; `Subject`, `AgentEvent`. An
  event type or status the code does not know is the value "other". Names, ids,
  event sources and timestamps reach only log text and are left out.
* **Policy**: role sets, where the code has sorted lists without duplicates.
* **AccessPlane**: one pure operator per method of the `Mock` that writes. The
  method holds the mutex throughout, so a caller that applies one operator in an
  action has the atomicity of the code. There is no operator that removes a lock
  because there is no such method.
* **Engine**: see below.
* **AgentEngine**: the same structure for `ReconcileAgent`; `svids` is the set of
  agents holding an unexpired SVID, minted by `IssueSVID` at any time and expired
  by `Expire`.
* **Workflows**: see below.
* **Offboarding**: the promise, without calls or retries: access changes only to
  a role set that some record of the identity entitles it to, an identity is
  severed only if HR terminates it, and a severed identity never has access.
* **LeanModel**: the functions of `Basic.lean` that describe the engine.
* **Audit**: the four detectors and the reduction of the device inventory.
* **Runner**: the runner's state as one record, `Cluster`, and its operations as
  functions on it; also the helpers that scenarios are written with.
* **Scenarios**: the five built-in scenarios as scripts, executed by `SeedOf`.
* **Console**: the handlers as actions over one runner.
* **TraceSnapshot**, **Inventory**: the device slice at the grain of its memory, and
  the one value it stands for; see below.
* **Connectors**: what a message of Rippling or Okta becomes, message by message.
* **CommandLine**: the pipeline behind them; see below.
* **Copilot**: a call to the language model as a function from its answer to the
  reviews or texts that may come of it, none for an error.
* **ReviewDesk**: the console's two copilot endpoints with requests served at once.
* **Warehouse**: raw rows, the dbt models up to the offboarding exceptions, and runs
  that build them one by one; see below.

### Engine in detail

| TLA+ | code |
|---|---|
| `users`, `locks` | the maps of the `Mock` |
| `calls[s]` | the attempt activity slot `s` runs: program counter, event, attempt number, and whether the server has timed it out (`orphan`) |
| `Submit` | a workflow schedules `ReconcileHuman` |
| `Reject` | `Validate` fails: `PolicyViolation`, not retried |
| `ConvergeRead`, `ConvergeWrite` | `GetUser` and `UpsertUser` in `converge`, with other calls possible in between |
| `DeprovisionLock`, `DeprovisionDelete` | the two calls of `deprovision` |
| `Complete` | the result reaches the server |
| `Retry`, `GiveUp` | the retry policy, after an error at any call or a worker that died, before or after its last write |
| `TimeOut` | `StartToCloseTimeout`: a new attempt starts in another slot, the old one runs on |
| `AutoApproves` | `EvaluateAccessRequest`, a single read |

Four history variables state what the properties need: `alone` (slots whose call
met no other call on its identity, a retry of the same call in the same slot
included), `settled` (the event of the last completed call that was alone, until
the next call on that identity begins), `offboarded` (a leaver was reported
done) and `abandoned` (some event ran out of attempts). They guard no action.

### Workflows in detail

`jml`, `jit` and `lockout` are the runs of the three workflows, one per workflow
id: the server has at most one open run of an id, and a closed one is replaced
when the id is started again (`StartJml`, `StartJit`, `StartLockout`). A run's
`pc` is the activity it waits for; of an access request it is the status the
query handler answers. `clusters[w]` is the mock worker `w` was wired with, and
`Restart(w)` empties it.

An activity attempt is one step. `...Done` is an attempt whose result reaches the
server, `...Fails` one that stopped before, half way (`Stops`) or after its last
effect; `Again` is the retry policy. The interleaving of attempts, call by call,
is not repeated here: it is what `Engine` is about. `EmitFails`, `UpdateFails`
and `AuditForwarded` go on after the last attempt, as the code does; `LockFails`
ends the saga. `Narrate` is the advisory summary and the return. Parts of
Temporal itself that the code relies on (the order of the selector, buffered
signals, reuse of ids) are modelled as the SDK defines them.

`changed`, `sent`, `silent` (of a lifecycle run), `on` (of a saga), `employed`
and `crashed` are history.

### Console in detail

`run` is the runner's record, `current` the loaded scenario. Each handler is one
action, since each runner method holds the mutex, except `Incident`, which is
`IncidentLock` and `IncidentTerminate`. `Load` covers `Seed` and the fallback of
an unknown id, which refuses and loads the baseline. `reconciled`, `upserted`
and the outcome part of `incidents` are history.

### The device slice in detail

`TraceSnapshot` keeps what a Go slice is: `devices` is an array and a length, `mem`
the cells of each array, as many as its capacity. A registration holds the mutex
from `Enter` to `Put` or `Grow` and copies one field at a time (`Drop`, `Keep`,
`Kept`), because the encoder, which holds nothing, may read between any two of its
writes. `TakeTrace` hands out the slice; `EncodeOwner` and `EncodePosture` read it
cell by cell. An array nothing refers to is garbage and its place is used again.
`list` is the inventory the slice stood for when the mutex was last free; it is what
`Inventory`, one value replaced in one step, is compared with. A device is two fields,
enough to tell a value that mixes two devices from one that does not.

### The pipeline in detail

`received` is the stream as vendors delivered it: any message of `Inbox`, any number
of times, in any order. `program` is the run under way and `file` what `trace.json`
holds. `Start` reads what the connectors make of the stream so far, `StartDemo` the
built-in events; every stage of `main` is an action; `WriteFails` is a write that fails
after the old content was cut off. No code of the repository feeds the connectors'
output to the program: the packages' documents describe it, and a file in the format
of `ParseStream` is how the program takes it, so the composition is theirs and the
parts are the code's.

The properties are stated against `Words`, which says what a vendor's message means
without going through the connectors: who is gone, and which roles the record of the
others entitles to. `Said(n)` is the words of the first n messages, as `Stream(n)` is
their events.

### The warehouse in detail

An event is its uid, time, user and type; a raw row is an event in a file, so one event
may land twice. `late` marks rows that landed after one at least as new, which is what
a watermark cannot see. `built` is how far the current run came; `Run` starts another
one wherever that was. `staging` and `facts` only grow, as delete+insert does when the
filter lets no loaded uid through again. The roster is a seed that HR edits at any time.

## 3. The runs

| run | what it asks | bounds | states | result |
|---|---|---|---|---|
| `engine` | safety, action properties, refinement and liveness of `Engine` | 1 person, 3 slots, 2 attempts, 4 events | 271 451 | pass |
| `agents` | safety, action properties and refinement of `AgentEngine` | 2 agents, 2 slots, 2 attempts, 5 events | 196 024 | pass |
| `console` | the console on all five scenarios | 1 person per scenario, 1 open incident, 2 serial numbers | 17 080 | pass |
| `console_incident` | does every incident response contain its target | same | | violation |
| `snapshot` | does the slice implement the inventory, and what disturbs a response | 2 owners, 2 requests, lists of 2 | 2 638 806 | pass |
| `torn_trace` | is every response a snapshot | same | | violation |
| `workflows` | lifecycle and access request workflows: audit, answers, auto-approval | 1 person, 2 workers, 2 attempts, 5 events, 2 signals | 2 310 852 | pass |
| `workflows_fair` | all three workflows: every run closes, requests are decided, resolved means locked | 1 person, 1 worker, 2 attempts, 1 event, 1 ticket, 1 signal | 94 838 | pass |
| `lost_audit` | does the SIEM hear of every change | 1 person, 1 worker | | violation |
| `pipeline` | connectors and command line together | 12 messages, streams of 3 | 705 314 | pass |
| `copilot` | every kind of answer of the language model | 2 requests, 9 answers | 650 | pass |
| `warehouse` | late, repeated and tombstoned rows, runs that stop | 2 users, 5 events, 2 files, 3 rows | 3 637 832 | pass |

Why the bounds are enough.

* Engine. The feed has a joiner, a mover of a terminated record, a leaver and a leaver
  with a wrong status, which are the branches of `Validate` and `Reconcile`.
  Interference is between two calls on one identity, or between an attempt and its own
  late predecessor; three slots hold both and a later event. Two attempts give a first
  and a last one. Calls on different people do not interfere, and the proofs, which
  hold for any number of people, slots and attempts, say so.
* Agents. The same with two agents, since bots, identities and locks are three maps.
* Console. One person per scenario receives requests (three the seed leaves with
  findings, two without) while the others stay as seeded, which is what a finding about
  somebody else needs.
* Snapshot. One response under way and one request that registers, loads or encodes: a
  tear needs one reader and one writer. The list of two is the shortest whose
  compaction moves a device; three arrays are the list, the response's and a new one.
* Workflows. Two workers are the replicas of `worker-deployment.yaml`, and symmetric;
  a second signal is what makes a first one. The liveness run keeps one worker, since a
  restart in it already loses whatever another worker would not have.
* Pipeline. Every kind of message about one person (`bob`, who asks for just-in-time
  access), and polls in which `alice`, `dave` and `erin`, whom the program plants failures
  on, are hired, moved or gone, one at a time and together, a record without an e-mail
  and messages that map to nothing. Three suffice for a
  message, its correction and a repetition or a late one.
* Warehouse. Events before, within a day of and after a termination, two at one time,
  one that is no use, one that is not relevant and one that names nobody; the roster of
  one user hired, terminated with and without a date, and dropped; a third row is what lands late
  between the two watermarks.

`Slot`, `MaxAttempts`, `Live`, `LiveDepartment`, `LiveAgent`, `LivePosture`, `MaxOpen`,
`Serial`, `Followed`, `Array`, `MaxCap`, `Worker`, `MaxSignals`, `MaxReceived`, `MaxRows`
and `Date` are the names of the bounds.

The three violation runs record disagreements between the code and what the
repository says of it; `findings` in `PROJECT.json` quotes both sides:

1. A scenario load between the halves of an incident response undoes one half.
2. When the result of the attempt that provisioned a user is lost, the retry finds
   nothing to do, and a no-op is all the SIEM hears.
3. `Trace` returns the device slice uncopied: a registration that compacts it while the
   response is encoded makes the response show devices no moment had.

More were met and have no run of their own.

* A re-joiner stays locked, where Lean's `reconcile` unlocks an active employee, and a
  mover whose record is terminated is left with an empty, unlocked user, where Lean
  deprovisions (`AgreesWithLean` says exactly when the two agree). The audit reports the
  second (`GoneIsSeveredOrReported`).
* An agent that left and joined again mints SVIDs while the lock on its bot user stands
  (`AddBot` replaces the entry that recorded it).
* Each replica of the worker holds a cluster of its own (`worker.go:27`), so a joiner on
  one and the leaver on the other leave the person with access on the first.
* The first device registered in the rogue-agent scenario turns device detection on for
  everybody: every session of the others, the agent's included, is then reported as from
  an unmanaged device. `RegistrationConcernsOneOwner` states this beside the ordinary case.
* The saga reports a ticket resolved when every update of it failed. A ticket that gives
  a name instead of an e-mail locks that name.
* The program plants a user and a live session of a terminated `dave` "for the audit pass
  to catch" (`main.go:145`, `244`), but does not lift the lock that a leaver event of the
  stream left on him, and the audit passes over whoever is locked. `FindingsAreDeserved`
  says that this is exactly when the two findings are missing.
* `Chat` returns an answer cut off at `max_tokens` as if it were whole, although
  `client.go:24` says to check for it; only `complete` does.
* `BuildEvidence` sorts findings by detector and user and no further, with `sort.Slice`,
  which keeps no order of equals, so two findings of one user may swap; its comment
  promises identical bytes.
* The rows that staging's watermark passes are lost for good, although its comment says
  a re-sync replaces them; a tombstoned row that is already loaded stays, although a
  comment says it must not survive; an event that lands twice in one batch is loaded
  twice. `MissedOnlyIfLate` states what is left. A failed login counts as an exception,
  where the mart's description speaks of a logged-in identity.
* An event without a user becomes a fact without one, which the `not_null` test on
  `teleport_user` (`_access_review__models.yml:37`) would report. Somebody the roster
  terminates without a date is no exception whatever he does, and neither is somebody it
  dropped, who is "unknown".

Fairness. `LeaverSevers` assumes weak fairness of `Work(s)`: Temporal keeps
dispatching a scheduled activity and a worker carries an attempt on, or it fails
and is retried, or it is given up. Nothing is assumed of `Submit` and `TimeOut`:
HR need not deliver an event and an attempt need not time out. `Retry` and
`GiveUp` belong to `Work`, so fairness does not exclude that every attempt
fails; that is why the property allows an identity that was given up on.
`RunsClose` and `RequestsAreDecided` assume the same of each workflow run: the
server dispatches attempts, delivers buffered signals and fires timers. Starting a
run, answering a request and restarting a worker are left free; a worker may
restart forever. `RequestsAreAnswered` assumes that a handler's goroutine runs on and
that the deadline of its context passes; nothing makes the language model answer.

Deadlock is checked in every run.

### Mutants

Operators described as mutants are the code with a plausible mistake in it, such
as a retry too many, a merge instead of a replacement, a forgotten lock. Every
property of a passing run is violated when the definition it guards is replaced
by one of them; `mutants` in `PROJECT.json` gives the pairs.

## 4. Proofs

Eight modules hold theorems. Each holds for every value of the constants: any number of
people, agents, workers, slots, attempts, rows, messages or array cells, any policy, feed
and seeds. Every safety and action property of the passing runs is among them.

| module | proves |
|---|---|
| `EngineProofs` | `TypeOK`, `ReconcileConverges`, `OffboardedStaysOut`, `LockBeforeDelete`, `JitFollowsHr`, `EffectsFollowHrStatus`, `ImplementsOffboarding`, and that an undisturbed reconcile agrees with Lean's |
| `AgentEngineProofs` | `TypeOK`, `AgentConverges`, `LeaveSeversFirst`, `OutstandingSvidsAreSevered`, `MintingOnlyByGrant`, `ImplementsOffboarding` |
| `WorkflowsProofs` | `TypeOK`, `OffboardingIsAudited`, `GrantsReportedWereMade`, `FirstAnswerDecides`, `AutoApprovalFollowsHr`, `ResolvedIsLocked` |
| `ConsoleProofs` | `TypeOK`, `ReconciledIsClean`, `IncidentContains`, `PostureFollowsUpsert`, `CleanStaysClean`, `RequestsAddNoIdentityFinding`, `RegistrationConcernsOneOwner` |
| `WarehouseProofs` | `TypeOK`, `FactsFollowStaging`, `MissedOnlyIfLate` |
| `ReviewDeskProofs` | `ReviewsAreSafe` |
| `TraceSnapshotProofs` | `TornOnlyByReRegistration`, `ImplementsInventory` |
| `CommandLineProofs` | `TypeOK`, `NothingHalfReconciled`, `LastWordDecides`, `GoneIsSeveredOrReported`, `FindingsAreDeserved` |

None of the invariants is inductive alone. In each module `IInv` is the type invariant
with what the properties need besides, each action has a lemma that preserves it, and
one theorem, `Invariance` in most, puts them together.

* Engine. `CallInv` says what a call's program counter implies: an event that was
  accepted, of the type its branch is for, and a lock in place from the delete on, which
  no step removes. `AloneInv` says what a call that met no other may rely on: it has no
  rival, and when it is done the cluster is as its event says. `SettledInv`: a settled
  identity has no call under way and has converged. `UsersRecorded`: whoever has roles
  has those of a record of the feed about him, which is what bounds auto-approval while
  the cluster lags behind HR. The refinement maps a write to
  `Grant` when the identity is unlocked and to a stutter when it is not, and the lock to
  `Sever`.
* Agents. The same three for agents, with the position of a call between its three
  writes, and `EntitledInv`: a bot that can mint carries the roles of some record of its
  agent.
* Workflows. `JmlInv`: what a lifecycle run has sent and still has to send together hold
  both records of an offboarding, and a grant among them was made by that run.
  `GrantInv`: a user's roles on any worker are those of a record HR delivered.
  `LockInv`: a saga past its lock left it on a worker, or the process is gone.
* Console. Every request but a load adds locks, ends sessions, and otherwise touches
  only people it leaves with at most the roles they are entitled to and on the roster or
  locked (`Settles`). Hence no finding about an identity can appear, and `ReconInv`,
  `IncidentInv`, `PostureInv` and `CleanInv` are kept. `PostureInv` says an owner's only
  device is the one last registered.
* Warehouse. `TimelyInv` and `FactsInv`: a row still to be taken in is newer than all the
  table holds, for the facts always, for staging unless the row landed late. `BuiltInv`
  and `UpToDate`: a run builds in the order of the references, and a finished one is
  current unless the sources were touched since.
* Copilot. A review that is shown is what `Generate` made of the one answer that came.
* Device slice. `CompactInv` is the loop invariant of the compaction: the cells before
  its write position hold the others' devices read so far, those from its read position
  on are as they were; `AppendInv` is what it ends in, and a free slice holds `list`
  (`Stands`). `Whole` says that a response which shares the array and is not disturbed
  meets a compaction that has dropped nothing, so each cell is written onto itself.
  In the refinement a copied field is a stutter; `Leave`, which frees the mutex, is
  `Upsert`.
* Pipeline. Two arguments meet. The first is about data: event by event, the stream the
  connectors make corresponds to the words the vendors said (`StreamMatches`, from
  `PollMatches`, `WebhookMatches` and `HookMatches`), so the last event about somebody
  is his last word (`LastWordSays`). The second is about the run: after n events the
  cluster follows the last of them about everybody (`Follows`, kept by `FollowsNext`),
  the demo agent changes nothing of that (`FollowsAfterAgents`), and `Planted` is what
  the planted failures leave of it. `LockFollows` is exact, a lock stands if and only if
  some message so far was news of a departure, and that decides when dave's two findings
  are missing. `IInv` holds these at each stage of the run and for the file, so the
  theorems are read off a trace that was audited, without going back to its run.

Both of the last two need an argument by induction: over the list a compaction runs
through, over a stream that is flattened, over a script that is played. The library's
induction theorems cannot be used, so the two modules prove their own (`Induction`): a
set of numbers with 0 that is closed under successor holds them all, since otherwise
the finite set of those missing up to some number would map one-to-one into itself less
one. Recursion is written as functions (`Others`, `Played`) or with `FlattenSeq`, whose
recursions `OthersRecursion`, `PlayRecursion` and `FlattenRecursion` establish.

The proofs assume what the modules assume of their constants (`NoEmailAssumption`,
`NoUserAssumption`, `PolicyAssumption`, `BotUserAssumption`, `FeedAssumption`, `AttemptAssumption`,
`SerialAssumption`, `SeedAssumption`, `LiveAssumption`, `CleanAssumption` and those of
`Workflows`, `Warehouse`, `ReviewDesk`, `TraceSnapshot`, `Connectors` and `CommandLine`);
TLC evaluates them in the runs. `CleanAssumption` is about the data of `seedClean`, and
TLC confirms it of that data. `ArrayAssumption` grants `TraceSnapshot` enough arrays
that an allocation finds one nobody refers to, as the garbage collector does.
`DemoAssumption` says that the people, roles and sessions the program names in its source
exist, that the demo agent's bot user is not `dave`, whom its offboarding would lock, and
that the default policy gives no `it-admin` to an SRE without a title, without which the
escalation it plants for `alice` would be none.

Left to TLC. Liveness under fairness (`LeaverSevers`, `RunsClose`,
`RequestsAreDecided`, `RequestsAreAnswered`) and `ENABLED` are out of this prover's
reach. No module with theorems reaches a recursive operator.

## 5. Assumptions worth knowing

* The Teleport client is the in-memory `Mock`. A call is atomic, fails before it
  has an effect or succeeds; a call that took effect and whose reply was lost is
  covered by failing afterwards.
* In `Engine` and `AgentEngine` one cluster is shared by all slots, as with a real
  Teleport. In the deployed worker each process has a `Mock` of its own; that is
  `Workflows`.
* The engine's agent half uses the same activity options as the human half;
  `ReconcileAgent` is registered with the worker but no workflow schedules it
  yet. A refused agent event is an ordinary error there, hence retried.
* In the refinement a locked identity counts as having no access, as in
  `hasAccess` of `Basic.lean`.
* An empty agent name or lock target is refused by the first call and changes
  nothing, so neither is an input.
* `TraceSnapshot` takes the memory of the program to be sequentially consistent: a
  reader sees a field as some write left it. The race detector's stricter view would
  only add outcomes to those already found.
* dbt builds a model whole or not at all, after the models it refers to; Fivetran lands
  a row as delivered. Both are outside the repository.

## 6. Plan

What a next step would add, in this order: the seeded scenarios in the proofs of the
console, whose `CleanAssumption` could be derived from the script as the pipeline derives
`Planted`; the marts of standing and dormant access; and the agreement of the macOS
hardening script with its compliance check.

## 7. Not modelled, and why

* Panther's `ListAlerts` and `ToFindings`, Chrome's signal, Okta's `DeactivateUser` and
  `GroupRoleMap`, and the SCIM records have no caller in the repository.
* The standing-access, dormant-access and summary marts are one aggregate query each
  over the tables modelled; what could go wrong with them went wrong before.
* The macOS scripts set and read system settings through Apple's tools, whose
  behaviour is not in the repository.
* Terraform, Kubernetes manifests and the dashboard have no behaviour of their
  own. The replica count of the worker is the `Worker` of `MCWorkflows`.
* Prompts, the evidence bundle and the text of answers.
* Within modelled parts: logs of past steps and decisions, wording and ordering
  of reports, traits, lock reasons, certificate lifetimes beyond "unexpired", request
  decoding, the loading of `.env`.
