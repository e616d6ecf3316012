# Verification of AItelier

AItelier lets several *drivers* (agents and the people behind them) work on one
long-lived project. The project is a graph of nodes with acceptance criteria,
kept in SQLite by the *State* service; work on a node is an *attempt*, carried
out by a SkillFlow run or by an external harness; a node is *verified* when the
evidence about an attempt's candidate passes every criterion. This directory
models that service, how work on it is owned, launched and observed, and three
parts of the machinery underneath: the scheduler's ticks over a run's steps, the
arbitration of a checkout with the deployments that must not interrupt it, and
the queue in front of the host's test gate. The models are checked with TLC and
the central theorems proved with TLAPS.

Paths below are relative to `src/`.

## Inventory

| Part | State it keeps | Operations | What makes it correct |
|---|---|---|---|
| State graph, `core/state_graph.py` | nodes (status, revision, contract, receipt), dependencies, events | add, batch, import, revise, split, supersede; `_invalidate` | acyclic; an edit withdraws every acceptance above it; the frontier cannot wedge |
| Attempts, evidence, acceptance, `core/state_attempts.py`, `core/state_external.py` | attempts with pinned inputs, append-only evidence, receipts | reserve, launch transitions, bind, reconcile, observe, abandon, record evidence, verify | an acceptance stands only on current inputs, a standing candidate and passing last evidence |
| Ownership: `core/state_claims.py`, `state_enforcement.py`, `state_recovery.py`, `state_takeover.py`, `state_handoffs.py`, `driver_presence.py` | claims with leases and fences, attempt owners, handoff offers, presence | claim, heartbeat, release, sweep, dispatch, settle, abandon, take over, offer, accept | one exclusive holder; fences only grow; a late call changes nothing; a dead driver does not keep the node |
| Waiting, `core/state_changes.py` | event cursor, wakeup tokens | scan, notify, recovery pages, idle verdicts | no event is skipped, no wakeup lost, no verdict stale |
| Launch, `core/state_service.py`, `core/run_launcher.py`, `core/scheduler.py` | attempt row, project row, seed, engine runs, isolation records | start, replay, recover; the poller's adoption | one dispatcher; nothing runs unprepared; a launch that got far enough is found again |
| Seed publication, `core/seed_publication.py` | the `_seed` directory and its marker | publish, adopt, gate | a reader gets one complete generation |
| Ticks, claims and operations of a run: `core/scheduler.py`, `core/skillflow_host.py`, `core/run_driver.py`, `aitelier/runner.py` | run and step rows, claim epochs, unsettled operations, executor threads | tick, claim, admit, deliver, fail, stop, reap, release | effects of one run never overlap; a stop reported done is done; a run fails for its own reasons and ends |
| Run isolation, `core/run_isolation.py` | checkout leases, admitted writes, worktrees | ensure, admit, retire, mark pending, clear, sweep | one writer per checkout; a lease does not outlive its run |
| Deployment, `core/deployment_quiescence.py`, `cli/server.py` | cutover lock, journal and its checkpoint | fence, measure, authorize, act, finalize, reconcile | a cutover interrupts nothing; the journal stays valid |
| Gate queue, `scripts/gate_queue.py`, `tools/gate_run.sh` | tickets, mutation lock, reports, exit files | submit, cancel, report-context, decide, pick, admit, launch, recover | a launch is accounted for; a withdrawn ticket does not run; a restart loses no work |
| Driver inbox, director messaging, notes | messages, deliveries, acknowledgements, note revisions | send, list, acknowledge, resolve | not modelled: delivery and quorum |
| Gate deferral, todo runtime, registration | holds, todo rows, files and rows registered together | | not modelled |
| Workflow engine (vendored SkillFlow) | runs and steps | | external: modelled from how `src/` uses it |
| API, web, CLI, model routing, prompts, tools | | | not modelled: transport, presentation, network, text |

`PROJECT.json` lists every part with its files and, where it is left out, the
reason.

**How the parts interact.** Every State operation is one `BEGIN IMMEDIATE`
transaction of SQLite, so operations of all processes are serialised; what is
*not* atomic is everything around them: the engine is read before the
transaction that records it, the launcher works between two transactions, the
poller adopts the same project from another thread, drivers act on rows they read
earlier, the wait reads, recovers, decides and sleeps in separate steps, and the
seed directory has no transaction at all. The engine's executors are threads that
outlive the tick that waits for them, and subprocesses outlive the server; the gate
daemon's child outlives the daemon; a deployment is another process, kept apart
from the backend by a kernel lock. Those gaps are where the models put
their interleavings. Committed transactions append to `state_events` and then
notify the waiters of their own process.

**What is hard.** Stale observations applied late; inputs withdrawn under work in
progress; leases that lapse while their holder is still calling; crashes between
publishing, creating, isolating, starting and binding; a lost response; lost
wakeups; two launchers of one project; a cancelled tick whose thread works on; a
server that dies with a tool running; a measurement that is old when it is acted on;
a daemon that dies between starting a child and recording it. `PROJECT.json` lists each of these hazards
at its line with the properties that cover it.

## Modules

| Module | Models |
|---|---|
| `Dag` | what `_validate_dag` accepts, as a predicate |
| `StateGraph` | nodes, dependencies and the authoring operations |
| `StateAttempts` (extends `StateGraph`) | attempts, evidence, acceptance: the State service as a whole |
| `Acceptance` | abstract: what an acceptance promises, without attempts or evidence |
| `StateOwnership` | claims, enforcement, recovery, takeover, handoffs on one node |
| `SeedPublication` | publishing a seed and reading it, one filesystem step at a time |
| `StateWait` | `wait_for_state_change` with its writers and notifications |
| `StateLaunch` | launching one reserved attempt, with replays, recovery, poller and crashes |
| `StepClaims` | one run under the scheduler: ticks, claims, executor threads, operations, deaths of the server |
| `Cutover` | one checkout with its leases and admissions, composed with the deployment's fence and journal |
| `GateQueue` | tickets, the daemon, the launcher and their clients |
| `MCStateAttempts`, `MCStateOwnership`, `MCSeedPublication` | TLC instances |
| `StateAttemptsProofs` (also about `Acceptance`), `StateOwnershipProofs`, `SeedPublicationProofs`, `StateWaitProofs`, `StateLaunchProofs`, `StepClaimsProofs`, `CutoverProofs`, `GateQueueProofs` | theorems and proofs, one module per component |

Reading the models:

- **`StateGraph`, `StateAttempts`.** A variable is a column: `status`,
  `revision`, `contract`, `receipt`, `deps` of a node; the rows of
  `state_attempts`, `state_evidence`, `state_acceptances` are functions from
  their sequence numbers. An action is one write transaction, with its guards in
  the code's order; a refused request rolls back and is a stuttering step. The
  engine's and the harness's reports are parameters, so a report may be older than
  the last one recorded. `_invalidate` is the recursive query over dependents,
  written as the least closed set (`Affected`). Contracts are sets of criteria;
  goals, texts and hashes are left out, since equality of the contract is what
  they serve. Facets are left out.
- **`StateOwnership`.** One node at one revision, with or without a candidate (an
  imported node may have one). Time is the flag `lapsed` of a
  lease (expiry plus grace), raised at any moment and in any order, since leases
  have lengths of their own. A caller presents the fence it read; a wrong one is
  refused. `gone` drivers never act again.
- **`SeedPublication`.** `pub[p]` is the next filesystem step of a publisher.
  Publishers crash anywhere. The reader is the gate (`seed_is_published`), file by
  file, followed by the engine's context resolver (external), path by path. The
  review input bundle in the marker is one more entry of a generation.
- **`StateWait`.** The waiter is a coroutine, so everything between two awaits is
  one action. A commit and its notification are separate, as are reading the
  subscribers and setting their event. Events are `"hit"` or `"quiet"`: selected by
  the wait's SQL filter or not. `work` is the kinds of attempt in the wait's scope:
  `"running"`, `"lapsed"` (not ended, but nobody renewed its lease past the grace),
  `"paused"`, or `"unpinned"` (a candidate without its artifact, which takes the same
  branch as a paused one); a lease lapses without a commit (`Lease`). `note` compares
  the driver's note with the revision the call was given, if any. `Outcome` is the rest
  of `wait_disposition` in its order: a newer note; a paused or unpinned attempt,
  reported even while others run; nothing but lapsed ones; something to sleep on;
  nothing to wait for. The driver inbox's own page, which the same call may return first,
  is not modelled.
- **`StateLaunch`.** `pc[c]` is the next step of a call of start or recover,
  `view[c]` the row it decides on; `poll` is the poller's step in this project. A
  crash ends all calls and the poller's tick and leaves the durable state. The
  engine's `get_or_create_run` reuses only runs that have not ended. The poller's seed
  gate is not absolute: a pipeline without a gated seed passes (`Gated = FALSE`), and a
  gate that raises is taken as open, deliberately (`core/scheduler.py:583-584`); `opened`
  remembers that a run may have been let through that way. The poller may refuse a seed
  whose review context it cannot read (`PollRefused`), and a run whose isolation failed is
  settled as failed or, when that is not possible, stays pending (`PollIsolate`).
- **`StepClaims`.** `rows` are the engine's step rows, a token is a step with its
  claim epoch, `thread` the executor working for a token, `op` the run's unsettled
  operation and `effects` the operations that are really going on: the record and
  the effect part when the server dies. `tick` is one run of `_run_skillflow_tick`,
  from the restart check to delivery or failure, with the awaits as its steps;
  cancelling it leaves its thread at work. A crash ends the tick and the threads
  and leaves subprocesses; a restart runs recovery. The engine is external and its
  row changes are taken from what the host relies on.
- **`Cutover`.** The backend's half is one checkout: who holds the lease, whose
  rows are admitted, whose writes may still land. `call` is `ensure_for_run`,
  `sweep` is `reconcile_run_lease`, each reading step by step. The deployer's half is the
  cutover lock, the measurement, and the journal: `draft` holds events that the
  checkpoint file already counts, which is what a crash between the two renames
  leaves. Admissions take the shared side of the lock. The isolation record is in
  `StateLaunch`; no production caller asks for direct mode by argument, so the mode
  is the configuration's.
- **`GateQueue`.** A ticket's record is its file; every command of a client is one
  step under `mutation.lock`, which the daemon holds over several steps (`lock`).
  `phase[t][i]` is the i-th launcher of a ticket, through its container to its
  exit file; `gate_run.sh` may also refuse before its container, with an exit file of
  its own or without (`GateRefuses`). A daemon that selected an owned ticket whose adapter
  is unavailable or whose controller is another ends and leaves the ticket as it is
  (`RefuseSelected`). `Crash` kills the daemon, `Reboot` the launchers too. A State answer
  that is neither healthy nor failed holds the ticket like no answer. Decisions
  carry the ticket's revision and are compared with it, so a controller's reading
  is current. Candidate and non-terminal reports change no state and are left out,
  and so is the exit-receipt branch of `reconcile_owned`, whose condition no writer
  of the record ever meets.

## Runs

| Run | Bounds | Shows |
|---|---|---|
| `state_chain` | chain of 3 nodes, one added or split off; batches of 1, passing evidence; 3 attempts, evidence rows and receipts | acceptances rest on current inputs; stale pins stay stale; authoring never wedges the frontier; State implements `Acceptance` |
| `state_attempts` | 1 node, both kinds, every report and verdict | acceptances rest on standing candidates and on last evidence; settled work stays settled; superseded is final |
| `ownership_claims` | 2 drivers, 3 claims, 4 fences, 1 handoff | one exclusive holder, newest fence, fenced offers |
| `ownership_policy` | an admin who may vanish, both kinds, review claims, enforcement on and off | bound claims end with their attempt; ended claims stay ended; the node does not stay with a dead driver |
| `seed_publication` | 2 publishers, 1 reader, 2 files, 3 generations, 4 legacy directories | one immutable generation |
| `state_wait` | 2 events, pages of 1, two processes, 2 lost responses, 4 scopes | no event skipped, no wakeup lost, no stale verdict, everything delivered |
| `state_launch` | 2 calls, 2 runs, 1 crash | one dispatcher; refused intents have no effects; a run is driven only in its own tree and created over a seed unless the poller's gate was open; a published launch ends bound to its run |
| `step_claims` | 2 steps, the second an inline tool; 1 retry, 3 claims, 1 crash, 2 cancelled ticks | effects never overlap; stops are truthful; failures have a cause; the run ends |
| `cutover` | 2 runs, 1 editor, 1 caller, 1 deployer, an operator; 4 events, 1 crash | one writer; quiet cutovers; a valid journal; leases of ended runs are released |
| `gate_queue` | 1 owned and 1 unowned ticket, 1 context, 1 request; 1 decision, 3 launches, 2 faults | owned launches happen once and are accounted for; withdrawn tickets stay so; failed contexts are not admitted; unowned tickets settle, under the premises below |
| `ownership_checkout`, `launch_reconcile` | | disagreements between the code and its own documents, below |

Why the bounds are enough for what is asked: three chained nodes are the least
with a dependent of a dependent, and three receipts let an input be accepted,
a dependent be accepted on it, and the input be withdrawn and accepted again; two attempts with two
evidence rows per criterion contradict an acceptance, three claims let a claim
lapse, be replaced and be replaced again by the first driver; a page of one event
overflows with two hits; two runs of an execution project are one more than
recovery can bind; two events let one commit fall before and one after any scan, and
the four scopes hold every verdict and the sleep; two cancelled ticks put two executors of one step beside a third
claim, and the crash may fall on any of them; two runs and an editor are one more
than a checkout admits (there is no generic writer here: a coding one against a
generic one is left to the theorem `CheckoutIsExclusive`); four events are an
authorization, its abortion, its
reconciliation and the next authorization; two faults crash the daemon again while
it recovers from the first.

`CHECK_DEADLOCK FALSE` is set where the system comes to rest: a run that ended,
settled tickets, exhausted bounds of rows that are never deleted, publishers that are
all done.

### Fairness

- `StateOwnership!FairSpec`: time passes (leases of callers that are gone lapse)
  and a driver that is still at work sweeps and reclaims when it can. The property
  exempts the case in which every driver is gone, and SkillFlow attempts, which
  end with their run.
- `StateWait!PolledSpec`: the coroutine takes its next step, its client calls
  again, and the timer of `wait_for(..., timeout=min(1.0, remaining))` fires. No
  fairness of notifications is assumed, since commits of other processes have
  none; that the wakeup of this process is not lost is the invariant
  `NoLostWakeup`.
- `StateLaunch!FairSpec`: the poller ticks and a driver keeps asking for the
  attempt, and the marker of a published seed is not refused for ever (strong fairness of
  `PollCreate`, since a refusal sends the poller back). `PublishedLaunchIsBound` also assumes that the other projects come to
  rest: `get_active_projects` does not select a planning project without a brief
  while others are active, and the code does not bound that wait.

- `StepClaims!Fairness`: the poller ticks, a tool call ends (every one has a
  timeout), an executor returns (turn budget and wall cap; strongly fair, since
  each call of a tool suspends it), compose starts a dead server again, and
  `check_hung_claims` runs every 30 seconds. Operators are not fair: an operation
  whose owner is gone waits for one, and `RunEnds` allows that wait.
- `Cutover`: the scheduler calls `reconcile_all_leases` on every pass of its own
  interval, so weak fairness of the sweep alone. Nobody is obliged to deploy.
- `GateQueue`: a daemon that is up goes on. An operator starts it, and `gate_run.sh`
  sets no time limit, so `UnownedTicketSettles` states both as its premise
  (`Attended`): the daemon is up again and again, and no gate runs for ever. Its
  third premise is `HeadIsServed`: no owned ticket stays the oldest for ever. The queue
  is served from its head, and an owned head ticket with an unavailable adapter or
  another controller ends every daemon that selects it
  (`scripts/gate_queue.py:1299-1304`, `1308-1310`) until somebody changes the
  configuration or cancels it; what is behind it waits, with nothing blocked.

### Disagreements found

1. `ownership_checkout`: `docs/driver-claims.md` says that after an unknown
   abandon "two possibly live workers never share a checkout";
   `_after_unknown_abandon` looks at the node's last attempt only, so the second
   attempt after the abandon may go back to the abandoned checkout.
2. `launch_reconcile`: `core/scheduler.py` settles a run whose isolation failed
   "so State can reconcile"; a launcher that had not created its run yet then
   creates a second one, and with its isolation refused too the attempt stays
   `unknown`: every recovery refuses the two runs.

Each run produces the trace. Others that modelling met, without a run:

- `core/seed_publication.py:39-40` says re-publishing identical content is
  idempotent; a publisher overtaken between its check for a generation and its
  check at line 148 is refused for "unpublished content" that is the same,
  published bytes. (`SuccessMeansPublished` still holds: it is a spurious refusal.)
- `core/run_isolation.py:509-511` says `ensure_for_run` is called "again on every
  resume". `reactivate_run` (`core/skillflow_host.py:179`), which retry and rescue
  use, takes no lease, and the sweep may have released the run's. `OneWriter`
  therefore excludes reactivated runs; without that exclusion it is violated.
- `core/scheduler.py:1629-1637` keeps the claim of a refused delivery because "the
  run is already terminal". The same refusal comes from an operation that an
  executor of a cancelled tick admitted between the host's preflight and the
  engine's claim; the run is not terminal then, and neither `_has_active_claim` nor
  the reaper hands the claim back while the server lives. `RunEnds` names this
  state `Unattended` and is violated without it.
- `scripts/gate_queue.py:1232` says "a daemon restart must not lose work". An
  unowned ticket whose container ended, and whose exit file is not yet written when
  the daemon adopts it, is recorded as failed. It settles, which is all that
  `UnownedTicketSettles` says. And a ticket behind an owned one that every daemon
  refuses is not lost, but waits as long as that one does.
- `scripts/gate_queue.py:1076-1077` says "at most one" gate container exists. After a
  crash an unowned ticket whose launcher has no container yet is requeued and may be
  launched beside it; `LaunchesAreExclusive` therefore speaks of owned launchers only.
- `reconcile` of the deployment journal takes no fence, so an operator may abort a
  live deployment's pending event; `finalize` then refuses, as `JournalValidates`
  requires, although the action was performed.

## Proofs

Every invariant and every action property that a passing run checks is a theorem
of its specification, for every value of the constants that satisfies the named
assumptions of the module it is about. What a run checks on a small instance the
theorem says of any number of nodes, drivers, publishers, events, runs, tickets,
crashes and lost answers. Each proof rests on an inductive invariant; TLC checked
the ones that strengthen a property on the instances of the runs before they were
proved.

**State (`StateAttemptsProofs`).**

- `TypeCorrect`: `TypeOK` is inductive by itself; one lemma per action.
- `AcceptanceIsCurrent`, `GraphNeverWedges`: the inductive invariant is
  `IInv == TypeOK /\ GraphSound /\ AcceptedOnCurrentInputs`. `GraphSound` (acyclic,
  edges lead to existing nodes) is needed because a new node must not turn up as
  an input of an accepted one, and because the frontier argument takes a minimal
  unfinished node. Nodes that rest on a superseded one are outside
  `FrontierNeverWedged`: they do wait, until an author revises them. The argument goes through one fact, `StepCases`: every step is
  either a `Verify` or *withdraws* a set of nodes that is closed under dependents
  and leaves every other accepted node untouched. Withdrawal preserves the
  invariant because an accepted node outside the set has none of its inputs in it.
- `StateImplementsAcceptance`: `Spec => AcceptanceService!ASpec`, with receipts as
  acceptances and the receipts in an acceptance's pinned snapshot as its basis.
  Again by `StepCases`: a withdrawal maps to `Withdraw`, `Verify` to `Grant`.
- `AcceptancesAreGrounded`: the abstract service keeps every standing acceptance on
  exactly the acceptances it was granted on.
- `AcceptanceRestsOnItsCandidate`, `AcceptanceRestsOnLastEvidence`,
  `StalenessIsFinal`, `SettlementIsFinal`, `SupersessionIsFinal`: `JInv` adds to
  `IInv` the two acceptance invariants, `ActiveIsLatest` (only a node's newest attempt
  is in progress) and three facts about every attempt. `PinsAreGrounded`: a pinned
  revision is one the node has had, and fixes contract and edges; a pinned receipt
  was issued and fixes the rest of its snapshot row. Without it a pin could become
  current again by coincidence. `RetiredIsStale`: a bound run that was superseded had
  stale pins, which is why a late candidate report about it cannot revive it.
  `ExternalArtifactIsFinal`: an external attempt in progress has no artifact yet, so
  the first report does not replace one.

**Ownership (`StateOwnershipProofs`).** `OwnershipTypes`, `ExclusiveHolderIsUnique`,
`FencesOrderHolders`, `OffersMoveOwnershipOnce`, `ClaimsEndWithTheirAttempt`,
`EndedClaimsNeverReturn`. The invariants hold each other up: a new exclusive claim
has the newest fence only because the one before it has ended, and it is known to have
ended because there was one; offers need that what they refer to exists
(`OffersRefer`). The operations write claims in only three ways: they change
live claims without touching fence and purpose (*winding*), issue one claim above all
fences (*issuing*), or issue several and renew the holder's own fence (*reissuing*:
takeovers and handoffs, `MoveClaims`); an exclusive claim is issued only where no
other stays live. One lemma per operation says which, and the invariants are proved
once per way. Reissuing needs that the n-th moved claim gets the n-th new fence, a
small theory of positions in finite sets of numbers.

**Seed publication (`SeedPublicationProofs`).** `ReadersSeeOneGeneration`,
`SuccessIsHonest`, `PublicationIsFinal`. `SInv` follows a generation from the staging
directory (part of it while staging, all of it before the rename) through the
directory (`Whole`: the marker lists exactly the files there) to the reader, who past
the marker looks at a published directory and has checked and read what is in it.
`Adopting` is needed for the migration's two steps: between them its directory is not
empty, so no publisher's rename can take its place.

**Waiting (`StateWaitProofs`).** `CursorsCover`, `WakeupsAreNotLost`,
`VerdictsAreCurrent`. A verdict is given only when every selected event committed so
far is delivered, and beside running work only for a newer note or for an attempt that
waits for its driver. The promise about the driver's cursor is kept by the cursor
of the call, so `WInv` makes it of both; `Roused` says of a waiter past its scan that
every commit of its own process the scan did not see has its event set or on its way.
The lemmas `NothingFound` and `PageIsWhole` are about the scan itself, for any page
size: the first hit always fits a page, so a scan that returns nothing has seen
everything; and a full page ends at its last hit with no hit before it left out.

**Launching (`StateLaunchProofs`).** `RefusedIntentStaysWithoutEffects`,
`DispatcherIsUnique`, `RunsAreAlwaysPrepared`. `LInv` orders the effects (project,
seed or an open gate, runs; none before `claim_launch`) and says what each step of a call or of the
poller may rely on, since both act on what they saw some steps before.

**Steps of a run (`StepClaimsProofs`).**

- `EffectsAreExclusive`, `StopsAreTruthful`: the invariant is
  `TypeOK /\ Recorded /\ AtOneStep /\ StopIsTruthful`. `Recorded`: an effect going on,
  and the operation a thread or a delivery is in the middle of, is the one in
  `skillflow_active_ops`, so an admission beside it is refused. `AtOneStep`: only
  the step the run is at is claimed, so ending the run leaves no claim. Most steps of
  the engine only wind claims down; the lemmas about `Winds` say so once.
- `FailuresHaveCauses`: `Ledger` keeps accounts. `Charged`: a claimed step's retries
  are at most the executions of it that raised and whose tick is done with them;
  the one the tick is at work on is not counted yet, so that it can pay for the
  retry or the failure it causes. `Fresh`: a claim is made under an epoch no executor
  has worked under, so it wipes no mark. Inline tools spend retries without a
  mark and fail only with one.

**Checkout and cutover (`CutoverProofs`).**

- `CheckoutIsExclusive`: `OneWriter` speaks of effects, which nobody reads; the
  invariant `Exclusion` says that every effect is covered by a row, that a run with a
  row holds the lease, and that what the sweep has read stays true of a run nobody
  reactivates. The last part is needed because the sweep releases on readings of
  earlier steps.
- `CutoverIsQuiet`: `FenceHeld` (a deployer under way holds the fence, so is alone)
  and `Measured` (what it measured is still so), inductive relative to `Exclusion`.
- `JournalIsValid`: `Journal` adds to `JournalValidates` that one clerk at a time
  holds the file, that a deployer's draft is its own, and that a clearance whose
  number is still the latest is the deployer's own pending event; this is
  what lets `finalize` decide on a number it read before it acted.

**Gate queue (`GateQueueProofs`).** `LaunchesAreAccounted`, `LaunchesExclude`,
`CancellationIsFinal`, `FailuresExcludeContexts`. That an owned ticket is launched at
most once is not visible in any one record. `QInv` ties together the record, the
launchers and the daemon: a ticket's launchers are those its record counts; what was
launched was admitted and is never queued again; a context both active and failed has
failed in State, which no later admission overlooks; and at each step the daemon knows
enough of its ticket and of the owned launchers that may still live (`DaemonKnows`).
Every step but an admission and a launch is tame (`TameStep`), which is all that the
action properties need of it.

**Only model-checked.** The liveness properties (`GoneDriverFreesNode`,
`EveryHitIsDelivered`, `PublishedLaunchIsBound`, `RunEnds`, `EndedLeaseIsReleased`,
`UnownedTicketSettles`): fairness and `ENABLED` are outside this prover's reach. The
two disagreements are TLC's traces. That the loop of `_validate_dag` computes
`ValidDag` is assumed: what a recursive definition computes for every input cannot be
proved here.

## Not modelled

Of the modelled parts: the page of the driver inbox in the wait; the cancellation of
a tick while `advance_run`'s thread is before its first effect or about to start an
inline tool (`core/scheduler.py:1785`; the admission of the operation, which is
modelled, is what keeps its effects apart); quota holds, deferred gates, parked checkpoints, retry and
rescue of an ended run (the engine is pinned at skillflow-py 1.5.100 and its source
is not in the repository), the per-instance claim valve, claim contention backoff,
owners of unknown liveness; worktrees and their reaping; the sidecar's and docker's
inventories of a deployment, and the compose child that outlives a dead deployer;
the 128-entry history of a ticket. Two claims refused on equal fingerprints fail a
run (`successor_claim_blocked`); the model keeps the comparison and not what the
fingerprint hashes.

Of the whole: the API, the web and command line interfaces, model routing, prompts,
the content of workflow steps and tools, containers and harnesses are transport,
presentation, network or text, with no protocol of their own; they are most of the
repository's lines. `PROJECT.json` gives the reason for each part.

## Plan

Done: the State graph, attempts and acceptance with their theorems; ownership;
seed publication; the wait; launching; steps of a run; the checkout and its
cutover; the gate queue; and the theorems that state every safety property the runs
check.

Next, to model: `DriverInbox` and `DirectorMessaging` (deliveries with versions,
acknowledgements, quorum; the second cursor of the wait); quota holds and gate
deferral in `StepClaims`; registration with rollback.

Next, to prove: an abstract specification of exclusive ownership (a holder and a
fence) that `StateOwnership` implements, as `Acceptance` is for `StateAttempts`; the
enabling facts behind the liveness properties (that a state in which a ticket, a launch
or a node waits has somebody who can move it), as invariants.
