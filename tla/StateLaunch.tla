----------------------------- MODULE StateLaunch -----------------------------
(***************************************************************************)
(* Launching one reserved SkillFlow attempt: _launch_or_recover            *)
(* (core/state_service.py) with the attempt transactions it uses           *)
(* (core/state_attempts.py), the launcher start_config_run                 *)
(* (core/run_launcher.py) and the poller that may adopt the same execution *)
(* project (core/scheduler.py).                                            *)
(*                                                                         *)
(* start_attempt, its replays and recover_attempt are concurrent calls in  *)
(* one host process.  Each decides on the attempt row it read first and on *)
(* a later listing of the engine's runs; only the State transactions are   *)
(* atomic.  The host may crash between any two steps, which ends all calls *)
(* and the poller's tick; State rows, the project row, the seed, the runs  *)
(* and their isolation records survive.                                    *)
(***************************************************************************)
EXTENDS Naturals, FiniteSets, Sequences

CONSTANTS
    Caller,          \* calls in progress at the same time
    SchedulerOwned,  \* the workflow's runs are driven by the poller
    Gated,           \* the workflow reads its own seed, so the poller waits for it
    MaxRuns,         \* bound on the runs of the execution project
    MaxCrashes       \* bound on crashes of the host

ASSUME LaunchAssumption ==
    /\ SchedulerOwned \in BOOLEAN /\ Gated \in BOOLEAN
    /\ MaxRuns \in Nat /\ MaxCrashes \in Nat

VARIABLES
    attempt,    \* state_attempts: status and run_id (0 for NULL)
    current,    \* do the attempt's pinned inputs still hold?
    project,    \* the execution project's row exists
    seed,       \* its seed is published
    runs,       \* the engine's runs of the project, oldest first: their status
    isolated,   \* runs with an isolation record
    busy,       \* other scheduler-owned projects have active runs
    pc,         \* per call: its next step, "idle" when it is over
    view,       \* per call: the attempt row it decides on
    target,     \* per call: the run it launched or found
    poll,       \* the poller's next step in this project
    adopted,    \* the run the poller is launching
    opened,     \* history: the poller's gate let the project through without its
                \* seed, which is still not published
    crashes

host == <<pc, view, target, poll, adopted, opened>>
vars == <<attempt, current, project, seed, runs, isolated, busy, host, crashes>>

\* A paused run counts as a running one here.
ACTIVE == {"reserved", "launching", "running", "unknown"}
ENDED == {"completed", "failed"}
RunId == 1..MaxRuns

Run(c, from, to) == pc[c] = from /\ pc' = [pc EXCEPT ![c] = to]

-----------------------------------------------------------------------------
(* The engine (external) *)

Live == {r \in 1..Len(runs) : runs[r] \notin ENDED}

\* get_or_create_run, in one critical section: the run that has not ended, or a
\* new one.
GetOrCreate(r) ==
    IF Live # {} THEN r \in Live /\ UNCHANGED runs
    ELSE r = Len(runs) + 1 /\ r <= MaxRuns /\ runs' = Append(runs, "pending")

RunEnds(r, outcome) ==
    /\ runs[r] = "running"
    /\ runs' = [runs EXCEPT ![r] = outcome]
    /\ UNCHANGED <<attempt, current, project, seed, isolated, busy, host, crashes>>

-----------------------------------------------------------------------------
(* A call of start_attempt or recover_attempt *)

\* reserve's replay, or get: the row the call decides on.
Begin(c) ==
    /\ pc[c] = "idle"
    /\ pc' = [pc EXCEPT ![c] = IF attempt.run # 0 THEN "observe" ELSE "list"]
    /\ view' = [view EXCEPT ![c] = attempt.status]
    /\ UNCHANGED <<attempt, current, project, seed, runs, isolated, busy, target,
                   poll, adopted, opened, crashes>>

\* Mutant of List: an uncertain launch is held without looking for its run.
ListHeldFirst(c) ==
    /\ Run(c, "list", IF view[c] = "reserved" /\ Len(runs) = 0 THEN "preflight" ELSE "idle")
    /\ target' = [target EXCEPT ![c] = 0]
    /\ UNCHANGED <<attempt, current, project, seed, runs, isolated, busy, view,
                   poll, adopted, opened, crashes>>

\* list_runs: several runs are the operator's, one is bound, and none leaves
\* only an undispatched intent to launch.
List(c) ==
    /\ Run(c, "list", CASE Len(runs) = 1 -> "bind"
                        [] Len(runs) = 0 /\ view[c] = "reserved" -> "preflight"
                        [] OTHER -> "idle")
    /\ target' = [target EXCEPT ![c] = IF Len(runs) = 1 THEN 1 ELSE 0]
    /\ UNCHANGED <<attempt, current, project, seed, runs, isolated, busy, view,
                   poll, adopted, opened, crashes>>

\* record_preflight with an error, or retire_reservation after a refused relay.
PreflightRefused(c, as) ==
    /\ Run(c, "preflight", "idle")
    /\ attempt.status = "reserved" /\ attempt.run = 0
    /\ attempt' = [attempt EXCEPT !.status = as]
    /\ UNCHANGED <<current, project, seed, runs, isolated, busy, view, target,
                   poll, adopted, opened, crashes>>

\* Inputs that cannot be prepared, or a transaction that finds the attempt not
\* reserved any more, raise and change nothing.
PreflightRaised(c) ==
    /\ Run(c, "preflight", "idle")
    /\ UNCHANGED <<attempt, current, project, seed, runs, isolated, busy, view, target,
                   poll, adopted, opened, crashes>>

\* The preflight passes; the host contract may have been pinned by an earlier
\* call, so its transaction need not find the attempt reserved.
PreflightPassed(c) ==
    /\ Run(c, "preflight", "claim")
    /\ UNCHANGED <<attempt, current, project, seed, runs, isolated, busy, view, target,
                   poll, adopted, opened, crashes>>

\* Mutant of ClaimLaunch: trusts the row the call read at its beginning.
ClaimLaunchOnView(c) ==
    /\ Run(c, "claim", IF current THEN "register" ELSE "idle")
    /\ attempt' = [attempt EXCEPT !.status = IF current THEN "launching" ELSE "superseded"]
    /\ UNCHANGED <<current, project, seed, runs, isolated, busy, view, target,
                   poll, adopted, opened, crashes>>

\* Mutant of ClaimLaunch: a stale intent is retired, and launched all the same.
ClaimLaunchStale(c) ==
    /\ Run(c, "claim", IF attempt.status = "reserved" THEN "register" ELSE "idle")
    /\ attempt' = IF attempt.status # "reserved" THEN attempt
                  ELSE [attempt EXCEPT !.status = IF current THEN "launching" ELSE "superseded"]
    /\ UNCHANGED <<current, project, seed, runs, isolated, busy, view, target,
                   poll, adopted, opened, crashes>>

\* claim_launch: only the first caller dispatches, and only current inputs.
ClaimLaunch(c) ==
    /\ Run(c, "claim", IF attempt.status = "reserved" /\ current THEN "register" ELSE "idle")
    /\ attempt' = IF attempt.status # "reserved" THEN attempt
                  ELSE [attempt EXCEPT !.status = IF current THEN "launching" ELSE "superseded"]
    /\ UNCHANGED <<current, project, seed, runs, isolated, busy, view, target,
                   poll, adopted, opened, crashes>>

\* start_config_run: the project row makes the project visible to the poller.
Register(c) ==
    /\ Run(c, "register", "publish")
    /\ project' = TRUE
    /\ UNCHANGED <<attempt, current, seed, runs, isolated, busy, view, target,
                   poll, adopted, opened, crashes>>

\* publish_seeds, before any run exists; or the launch is refused with an error.
Publish(c, ok) ==
    /\ Run(c, "publish", IF ok THEN "create" ELSE "uncertain")
    /\ seed' = (seed \/ ok) /\ opened' = (opened /\ ~ok)
    /\ UNCHANGED <<attempt, current, project, runs, isolated, busy, view, target,
                   poll, adopted, crashes>>

Create(c) ==
    /\ Run(c, "create", "isolate")
    /\ \E r \in RunId : GetOrCreate(r) /\ target' = [target EXCEPT ![c] = r]
    /\ UNCHANGED <<attempt, current, project, seed, isolated, busy, view,
                   poll, adopted, opened, crashes>>

\* ensure_for_run: idempotent once recorded; otherwise it may refuse.
Isolate(c, ok) ==
    /\ Run(c, "isolate", IF ok THEN "start" ELSE "uncertain")
    /\ target[c] \in isolated => ok
    /\ isolated' = IF ok THEN isolated \cup {target[c]} ELSE isolated
    /\ UNCHANGED <<attempt, current, project, seed, runs, busy, view, target,
                   poll, adopted, opened, crashes>>

\* start_with_ledger for a pending run; a run the poller started is a success,
\* and one that ended in between raises or not, depending on when it was read.
Start(c, to) ==
    /\ Run(c, "start", to)
    /\ to = "uncertain" => runs[target[c]] \in ENDED
    /\ runs' = IF runs[target[c]] = "pending" THEN [runs EXCEPT ![target[c]] = "running"]
               ELSE runs
    /\ UNCHANGED <<attempt, current, project, seed, isolated, busy, view, target,
                   poll, adopted, opened, crashes>>

\* launch_uncertain: the outcome is unknown unless somebody bound a run.
LaunchUncertain(c) ==
    /\ Run(c, "uncertain", "idle")
    /\ attempt' = IF attempt.run = 0 /\ attempt.status \in {"launching", "unknown"}
                  THEN [attempt EXCEPT !.status = "unknown"] ELSE attempt
    /\ UNCHANGED <<current, project, seed, runs, isolated, busy, view, target,
                   poll, adopted, opened, crashes>>

\* bind_run: the same run again is fine, another run or a terminal attempt is a
\* conflict.
BindRun(c) ==
    /\ Run(c, "bind", IF attempt.run \in {0, target[c]} /\
                         (attempt.run = 0 => attempt.status \in ACTIVE)
                      THEN "observe" ELSE "idle")
    /\ attempt' = IF attempt.run = 0 /\ attempt.status \in ACTIVE
                  THEN [status |-> "running", run |-> target[c]] ELSE attempt
    /\ UNCHANGED <<current, project, seed, runs, isolated, busy, view, target,
                   poll, adopted, opened, crashes>>

\* reconcile_attempt: what the engine says of the bound run, without the races
\* between reading the run and recording it (StateAttempts has those).
Observe(c) ==
    LET seen == runs[attempt.run]
        st == CASE seen \notin ENDED -> "running"
                [] seen \in ENDED /\ ~current -> "superseded"
                [] seen = "completed" /\ current -> "candidate"
                [] OTHER -> "failed"
    IN  /\ Run(c, "observe", "idle")
        /\ attempt' = IF attempt.status \notin ACTIVE /\ st \in ACTIVE THEN attempt
                      ELSE [attempt EXCEPT !.status = st]
        /\ UNCHANGED <<current, project, seed, runs, isolated, busy, view, target,
                       poll, adopted, opened, crashes>>

-----------------------------------------------------------------------------
(* The poller: _get_or_create_skillflow_run *)

\* The project is picked when it is planning and no other project is active;
\* a run that is running, completed or failed is not replaced.
PollRead ==
    /\ SchedulerOwned /\ poll = "idle"
    /\ project /\ ~busy
    /\ runs # <<>> => runs[Len(runs)] = "pending"
    /\ poll' = "gate"
    /\ UNCHANGED <<attempt, current, project, seed, runs, isolated, busy, pc, view, target,
                   adopted, opened, crashes>>

\* Mutant of PollGate: does not wait for the seed.
PollGateOpen(raised) ==
    /\ poll = "gate"
    /\ poll' = "create"
    /\ UNCHANGED <<attempt, current, project, seed, runs, isolated, busy, pc, view, target,
                   adopted, opened, crashes>>

\* seed_is_published, for a workflow that reads its own seed; a guard that raises
\* stops no run.
PollGate(raised) ==
    LET guarded == Gated /\ ~raised
    IN  /\ poll = "gate"
        /\ poll' = IF guarded /\ ~seed THEN "idle" ELSE "create"
        /\ opened' = (opened \/ (~guarded /\ ~seed))
        /\ UNCHANGED <<attempt, current, project, seed, runs, isolated, busy, pc, view, target,
                       adopted, crashes>>

\* review_seed_context refuses the marker it reads.
PollRefused ==
    /\ poll = "create" /\ seed
    /\ poll' = "idle"
    /\ UNCHANGED <<attempt, current, project, seed, runs, isolated, busy, pc, view, target,
                   adopted, opened, crashes>>

PollCreate ==
    /\ poll = "create"
    /\ poll' = "isolate"
    /\ \E r \in RunId : GetOrCreate(r) /\ adopted' = r
    /\ UNCHANGED <<attempt, current, project, seed, isolated, busy, pc, view, target,
                   opened, crashes>>

\* Isolation that fails settles a run nobody has started; a run whose ownership
\* is uncertain, or that cannot be settled, stays as it is.
PollIsolate(ok, settles) ==
    /\ poll = "isolate"
    /\ adopted \in isolated => ok
    /\ poll' = IF ok THEN "start" ELSE "idle"
    /\ isolated' = IF ok THEN isolated \cup {adopted} ELSE isolated
    /\ runs' = IF ~ok /\ settles /\ runs[adopted] = "pending"
               THEN [runs EXCEPT ![adopted] = "failed"] ELSE runs
    /\ UNCHANGED <<attempt, current, project, seed, busy, pc, view, target, adopted, opened,
                   crashes>>

PollStart ==
    /\ poll = "start"
    /\ poll' = "idle"
    /\ runs' = IF runs[adopted] = "pending" THEN [runs EXCEPT ![adopted] = "running"] ELSE runs
    /\ UNCHANGED <<attempt, current, project, seed, isolated, busy, pc, view, target,
                   adopted, opened, crashes>>

-----------------------------------------------------------------------------
(* The environment *)

\* The node is revised or an input it rests on is withdrawn.
MoveInputs ==
    /\ current /\ current' = FALSE
    /\ UNCHANGED <<attempt, project, seed, runs, isolated, busy, host, crashes>>

OtherProjects ==
    /\ busy' = ~busy
    /\ UNCHANGED <<attempt, current, project, seed, runs, isolated, host, crashes>>

Idle == [c \in Caller |-> "idle"]

Crash ==
    /\ crashes < MaxCrashes /\ crashes' = crashes + 1
    /\ pc' = Idle /\ poll' = "idle"
    /\ target' = [c \in Caller |-> 0] /\ adopted' = 0
    /\ UNCHANGED <<attempt, current, project, seed, runs, isolated, busy, view, opened>>

-----------------------------------------------------------------------------
\* What a call does when it goes on.
CallNext(c) ==
    \/ Begin(c) \/ List(c)
    \/ \E as \in {"failed", "superseded"} : PreflightRefused(c, as)
    \/ PreflightRaised(c) \/ PreflightPassed(c)
    \/ ClaimLaunch(c) \/ Register(c)
    \/ \E ok \in BOOLEAN : Publish(c, ok)
    \/ Create(c)
    \/ \E ok \in BOOLEAN : Isolate(c, ok)
    \/ \E to \in {"bind", "uncertain"} : Start(c, to)
    \/ LaunchUncertain(c) \/ BindRun(c) \/ Observe(c)

PollNext ==
    \/ PollRead
    \/ \E raised \in BOOLEAN : PollGate(raised)
    \/ PollRefused \/ PollCreate
    \/ \E ok, settles \in BOOLEAN : PollIsolate(ok, settles)
    \/ PollStart

Next ==
    \/ \E c \in Caller : CallNext(c)
    \/ PollNext
    \/ \E r \in 1..Len(runs), outcome \in ENDED : RunEnds(r, outcome)
    \/ MoveInputs \/ OtherProjects
    \/ Crash

Init ==
    /\ attempt = [status |-> "reserved", run |-> 0]
    /\ current = TRUE /\ project = FALSE /\ seed = FALSE
    /\ runs = <<>> /\ isolated = {} /\ busy \in BOOLEAN
    /\ pc = Idle /\ view = [c \in Caller |-> "reserved"]
    /\ target = [c \in Caller |-> 0]
    /\ poll = "idle" /\ adopted = 0 /\ opened = FALSE
    /\ crashes = 0

Spec == Init /\ [][Next]_vars

\* The poller ticks, a published marker is not refused for ever, and drivers
\* keep asking for the attempt.
FairSpec ==
    /\ Spec
    /\ WF_vars(PollNext) /\ SF_vars(PollCreate)
    /\ \A c \in Caller : WF_vars(CallNext(c))

-----------------------------------------------------------------------------
Dispatching == {c \in Caller : pc[c] \in {"register", "publish", "create", "isolate", "start"}}

\* An intent refused or retired before its launch stays without effects: no
\* run, no seed and no project row, whatever replays and recoveries were under
\* way with an older view of it.
RefusedIntentHasNoEffects ==
    (attempt.run = 0 /\ attempt.status \in {"failed", "superseded"})
    => ~project /\ ~seed /\ runs = <<>>

\* Only the first caller dispatches, also across crashes: nobody else ever gets
\* past claim_launch for this attempt.
OneDispatcher ==
    /\ Cardinality(Dispatching) <= 1
    /\ attempt.status = "reserved" => Dispatching = {} /\ ~project

\* No run is ever driven before it owns an isolated tree, by whichever of the
\* launcher and the poller gets there first; and none is created before its
\* seed is published, wherever a launcher died or a tick fell, except by a
\* poller whose gate was open: the workflow does not read its own seed, or the
\* guard itself raised.
RunsArePrepared ==
    /\ runs # <<>> => seed \/ opened
    /\ \A r \in 1..Len(runs) : runs[r] \in {"running", "completed"} => r \in isolated

\* core/scheduler.py on a refused isolation: "Leave an explicit terminal owner
\* so State can reconcile".  An attempt of unknown launch whose project holds
\* several runs cannot be reconciled any more: every recovery refuses it.
UnknownLaunchIsReconcilable ==
    ~(/\ attempt.status = "unknown" /\ attempt.run = 0
      /\ Len(runs) > 1
      /\ Dispatching = {})

\* core/run_launcher.py: once the seed is published "the worst case is a
\* fully-seeded project the poller picks up itself".  If the other projects
\* come to rest, a published launch ends up bound to its run even when the
\* launcher died, or several runs need the operator.
PublishedLaunchIsBound ==
    <>[](~busy) => (seed ~> (attempt.run # 0 \/ Len(runs) > 1))

=============================================================================
