---------------------------- MODULE StepClaims ----------------------------
(***************************************************************************)
(* One scheduler-owned run: the poller's tick claims its steps, executor   *)
(* threads work on them and admit operations with effects on the           *)
(* repository, and the server may cancel ticks, die and start again        *)
(* (core/scheduler.py, core/run_driver.py, core/skillflow_host.py).        *)
(*                                                                         *)
(* The workflow engine is external; its rows are modelled from what the    *)
(* host reads and relies on.  The run's steps are 1..N in order, those in  *)
(* Tool executed inline by advance_run, the others claimed and handed to   *)
(* an executor thread.  Parked checkpoints, quota holds, deferred gates    *)
(* and retries of an ended run are left out.  A row's version is left out: *)
(* every step out of `claimed' changes it, so a token is current exactly   *)
(* while the row is claimed under the token's epoch.                       *)
(***************************************************************************)
EXTENDS Integers, FiniteSets

CONSTANTS N,            \* steps of the run
          Tool,         \* the steps that are inline tools
          MaxRetries,   \* a step's retry budget
          MaxSteps,     \* _MAX_STEPS_PER_RUN
          MaxCrashes,   \* bound: deaths of the server
          MaxCancels,   \* bound: cancellations of a tick
          None

\* What skillflow_active_ops records: the claim, the kind of effect and the
\* server process that performs it.
Operation == [node : Nat, epoch : Nat, kind : {"tool", "tool_step", "delivery"}, by : Nat]

ASSUME StepAssumption ==
    /\ N \in Nat /\ Tool \subseteq 1..N
    /\ MaxRetries \in Nat /\ MaxSteps \in Nat
    /\ MaxCrashes \in Nat /\ MaxCancels \in Nat
    /\ None \notin Operation

Node == 1..N
Epoch == 1..(MaxSteps + 1)
Token == Node \X Epoch

VARIABLES
    run,       \* skillflow_runs: status, cancel_requested_at, current_node
    rows,      \* skillflow_steps: status, claim_epoch, claimed_by, retry_count
    claims,    \* 'claimed' events in the run's trace
    op,        \* skillflow_active_ops: the run's unsettled operation, or None
    effects,   \* the operations whose effects are still going on
    thread,    \* executor threads, by the claim they work for
    tick,      \* the run's tick, which holds the project's lock unless idle
    gen,       \* which server process is, or was, running
    up,        \* is it running
    seen,      \* last successor_claim_blocked in the trace
    cancels    \* ticks cancelled so far

vars == <<run, rows, claims, op, effects, thread, tick, gen, up, seen, cancels>>
engine == <<run, rows, claims, op, effects, seen>>
process == <<gen, up, cancels>>

Idle == [phase |-> "idle", node |-> 0, epoch |-> 0]
At(phase) == [tick EXCEPT !.phase = phase]
Holding(t) == tick.node = t[1] /\ tick.epoch = t[2]
Set(t, phase) == thread' = [thread EXCEPT ![t] = phase]

\* owner_is_dead of a claim or an operation made by server process g.
Dead(g) == ~up \/ g # gen

Running == run.status = "running"

-----------------------------------------------------------------------------
(* Operations *)

\* Mutant of MayAdmit: only the run and the epoch are checked.
MayAdmitBeside(t) ==
    /\ Running /\ ~run.cancel
    /\ rows[t[1]].epoch = t[2]

\* _admit_op_under_fence, for a claim's own tool calls and its delivery.
MayAdmit(t) ==
    /\ Running /\ ~run.cancel
    /\ op = None
    /\ rows[t[1]].epoch = t[2]

Admit(t, kind) ==
    LET o == [node |-> t[1], epoch |-> t[2], kind |-> kind, by |-> gen]
    IN  op' = o /\ effects' = effects \cup {o}

\* Every claim of a run that is stopped is closed with it.
Closed == [n \in Node |-> IF rows[n].status = "claimed"
                          THEN [rows[n] EXCEPT !.status = "failed"] ELSE rows[n]]

\* The operation's record goes; a cancellation that waited for it is complete.
RetireOp ==
    /\ op' = None
    /\ IF run.cancel /\ Running
       THEN run' = [run EXCEPT !.status = "failed"] /\ rows' = Closed
       ELSE UNCHANGED <<run, rows>>

\* fail_run and stop_run: admission is closed first, and the run ends now only
\* if nothing admitted is left.
FailRun ==
    /\ run' = [run EXCEPT !.cancel = TRUE, !.status = IF op = None THEN "failed" ELSE @]
    /\ rows' = IF op = None THEN Closed ELSE rows

\* fail_step: ignored for a run that is ending and for a claim that was made
\* again; otherwise one retry is spent, or step and run fail at once.
FailStep(t, retryable) ==
    LET n == t[1] IN
    IF ~Running \/ run.cancel \/ rows[n].epoch # t[2] THEN UNCHANGED <<run, rows>>
    ELSE IF retryable /\ rows[n].retries < MaxRetries
    THEN /\ rows' = [rows EXCEPT ![n].status = "pending", ![n].retries = @ + 1]
         /\ UNCHANGED run
    ELSE /\ rows' = [rows EXCEPT ![n].status = "failed"]
         /\ run' = [run EXCEPT !.status = "failed"]

\* recover_stale_claims: claims of a process that is gone go back to pending,
\* whatever operation it left behind.  (The third time the row is failed and the
\* next claim opens a fresh one, which is claimable all the same.)
Reaped == [n \in Node |-> IF rows[n].status = "claimed" /\ Dead(rows[n].by)
                          THEN [rows[n] EXCEPT !.status = "pending"] ELSE rows[n]]

-----------------------------------------------------------------------------
(* The tick up to the claim *)

Dispatch ==
    /\ up /\ Running /\ tick.phase = "idle"
    /\ tick' = At("started")
    /\ UNCHANGED <<engine, thread, process>>

\* _has_active_claim: an unsettled operation, or a claim whose owner lives.  An
\* inline tool's claim is judged by the clock, so it may count either way.
InFlight ==
    \/ op # None
    \/ \E n \in Node : rows[n].status = "claimed" /\ (n \in Tool \/ ~Dead(rows[n].by))

NotInFlight ==
    /\ op = None
    /\ \A n \in Node \ Tool : rows[n].status = "claimed" => Dead(rows[n].by)

CheckActive ==
    /\ tick.phase = "started"
    /\ \/ InFlight /\ tick' = Idle /\ UNCHANGED <<engine, thread>>
       \/ NotInFlight /\ ~Running /\ tick' = Idle /\ UNCHANGED <<engine, thread>>
       \/ /\ NotInFlight /\ Running /\ claims > MaxSteps
          /\ FailRun /\ tick' = Idle
          /\ UNCHANGED <<claims, op, effects, seen, thread>>
       \/ /\ NotInFlight /\ Running /\ claims <= MaxSteps
          /\ tick' = At("advance") /\ UNCHANGED <<engine, thread>>
    /\ UNCHANGED process

\* advance_run before its first effect: the host refuses while an operation is
\* unsettled; otherwise dead claims are reaped and the position is resolved.
Advance ==
    /\ tick.phase = "advance"
    /\ \/ /\ op # None \/ ~Running \/ run.cancel
          /\ tick' = At("toClaim")
          /\ UNCHANGED <<run, rows, claims, op, effects, thread>>
       \/ /\ op = None /\ Running /\ ~run.cancel /\ run.node > N
          /\ run' = [run EXCEPT !.status = "completed"]
          /\ rows' = Reaped /\ tick' = Idle
          /\ UNCHANGED <<claims, op, effects, thread>>
       \/ /\ op = None /\ Running /\ ~run.cancel /\ run.node \in Node \ Tool
          /\ rows' = Reaped /\ tick' = At("toClaim")
          /\ UNCHANGED <<run, claims, op, effects, thread>>
       \/ /\ op = None /\ Running /\ ~run.cancel /\ run.node \in Tool
          /\ rows' = Reaped
          /\ tick' = [phase |-> "tool", node |-> run.node, epoch |-> rows[run.node].epoch + 1]
          /\ UNCHANGED <<run, claims, op, effects, thread>>
    /\ UNCHANGED <<seen, process>>

\* The worker thread of advance_run on an inline tool: admitted, then claimed,
\* then run.
StartTool ==
    LET n == tick.node
        t == <<tick.node, tick.epoch>>
    IN  /\ tick.phase = "tool"
        /\ \/ /\ Running /\ ~run.cancel /\ op = None /\ rows[n].status # "claimed"
              /\ Admit(t, "tool_step")
              /\ rows' = [rows EXCEPT ![n].status = "claimed", ![n].epoch = t[2], ![n].by = gen]
              /\ claims' = claims + 1
              /\ Set(t, "op") /\ tick' = At("advancing")
           \/ /\ ~(Running /\ ~run.cancel /\ op = None /\ rows[n].status # "claimed")
              /\ tick' = [Idle EXCEPT !.phase = "toClaim"]
              /\ UNCHANGED <<rows, claims, op, effects, thread>>
        /\ UNCHANGED <<run, seen, process>>

\* claim_next_step of the host: it asks for unsettled operations, and then calls
\* the engine.
Preflight ==
    /\ tick.phase = "toClaim"
    /\ tick' = IF ~Running THEN Idle ELSE At(IF op = None THEN "claiming" ELSE "noClaim")
    /\ UNCHANGED <<engine, thread, process>>

\* The engine's transaction: it hands out a pending step, or one that ended, of a
\* running run, and the executor thread starts.  A step that misses a required
\* input, or fails its precondition once too often, fails the run.
ClaimNextStep ==
    LET n == run.node
        e == rows[n].epoch + 1
    IN  /\ tick.phase = "claiming"
        /\ \/ /\ Running /\ ~run.cancel /\ n \in Node \ Tool /\ rows[n].status # "claimed"
              /\ rows' = [rows EXCEPT ![n].status = "claimed", ![n].epoch = e, ![n].by = gen]
              /\ claims' = claims + 1
              /\ Set(<<n, e>>, "work")
              /\ tick' = [phase |-> "executing", node |-> n, epoch |-> e]
              /\ UNCHANGED run
           \/ /\ Running /\ ~run.cancel /\ n \in Node \ Tool /\ rows[n].status # "claimed"
              /\ FailRun /\ tick' = Idle /\ UNCHANGED <<claims, thread>>
           \/ /\ \/ ~Running \/ run.cancel \/ n \notin Node \ Tool
                 \/ n \in Node \ Tool /\ rows[n].status = "claimed"
              /\ tick' = At("noClaim") /\ UNCHANGED <<run, rows, claims, thread>>
        /\ UNCHANGED <<op, effects, seen, process>>

\* _record_unclaimable_successor: nothing was claimed.  If nobody is at work
\* either, that is recorded, and the second identical record fails the run.
NoClaim ==
    LET n == run.node
        fingerprint == <<n, rows[n].status>>
    IN  /\ tick.phase = "noClaim"
        /\ \/ /\ Running /\ n \in Node \ Tool /\ NotInFlight
              /\ seen' = fingerprint
              /\ IF seen = fingerprint THEN FailRun ELSE UNCHANGED <<run, rows>>
           \/ /\ ~Running \/ n \notin Node \ Tool \/ InFlight
              /\ UNCHANGED <<run, rows, seen>>
        /\ tick' = Idle
        /\ UNCHANGED <<claims, op, effects, thread, process>>

-----------------------------------------------------------------------------
(* Executor threads.  Cancelling the task that awaits one does not stop it. *)

\* A tool call of the agent: admitted and run, or answered with an error.
StartCall(t) ==
    /\ thread[t] = "work" /\ MayAdmit(t)
    /\ Admit(t, "tool") /\ Set(t, "op")
    /\ UNCHANGED <<run, rows, claims, seen, tick, process>>

EndCall(t) ==
    /\ thread[t] = "op" /\ t[1] \notin Tool
    /\ effects' = effects \ {op}
    /\ RetireOp /\ Set(t, "work")
    /\ UNCHANGED <<claims, seen, tick, process>>

\* run_step returns, fails, or gives up for good.
Return(t) ==
    /\ thread[t] = "work"
    /\ \E outcome \in {"returned", "raised", "gaveup"} : Set(t, outcome)
    /\ UNCHANGED <<engine, tick, process>>

\* The inline tool's effect is over and its result is written: the step is
\* completed, reopened after a crash, or failed with the run.
EndTool(t) ==
    /\ thread[t] = "op" /\ t[1] \in Tool
    /\ effects' = effects \ {op}
    /\ \/ /\ rows' = [rows EXCEPT ![t[1]].status = "completed"]
          /\ run' = [run EXCEPT !.node = t[1] + 1]
          /\ Set(t, "settling")
       \/ /\ rows[t[1]].retries < MaxRetries
          /\ rows' = [rows EXCEPT ![t[1]].status = "pending", ![t[1]].retries = @ + 1]
          /\ UNCHANGED run /\ Set(t, "settling")
       \/ /\ rows' = [rows EXCEPT ![t[1]].status = "failed"]
          /\ run' = [run EXCEPT !.status = "failed"]
          /\ Set(t, "broken")
    /\ UNCHANGED <<claims, op, seen, tick, process>>

\* advance_run retires the operation last; a tick that still waits goes on, and
\* advances again if the next step is a tool too.
RetireTool(t) ==
    /\ thread[t] \in {"settling", "broken"} /\ t[1] \in Tool
    /\ op # None /\ op.node = t[1] /\ op.epoch = t[2]
    /\ RetireOp
    /\ Set(t, IF thread[t] = "broken" THEN "gaveup" ELSE "none")
    /\ tick' = IF tick.phase = "advancing" /\ Holding(t)
               THEN [Idle EXCEPT !.phase = IF run.node \in Tool \/ run.node > N
                                           THEN "advance" ELSE "toClaim"]
               ELSE tick
    /\ UNCHANGED <<claims, effects, seen, process>>

-----------------------------------------------------------------------------
(* The tick after its executor ended *)

\* confirm_step up to the delivery's admission.  Validation may refuse the
\* output, which spends a retry.  A refused admission ends the tick and leaves
\* the claim alone: the run is taken to be ending.
Confirm(t) ==
    /\ tick.phase = "executing" /\ Holding(t) /\ thread[t] = "returned"
    /\ \/ /\ MayAdmit(t) /\ Admit(t, "delivery")
          /\ tick' = At("delivering") /\ UNCHANGED <<run, rows, thread>>
       \/ /\ ~MayAdmit(t) /\ Set(t, "refused")
          /\ tick' = Idle /\ UNCHANGED <<run, rows, op, effects>>
       \/ /\ FailStep(t, TRUE) /\ Set(t, "raised")
          /\ tick' = Idle /\ UNCHANGED <<op, effects>>
    /\ UNCHANGED <<claims, seen, process>>

\* The lifecycle hooks are done and the completion is written, or the hooks
\* failed and the step failed or went back.
Deliver(t) ==
    /\ tick.phase = "delivering" /\ Holding(t)
    /\ effects' = effects \ {op}
    /\ \/ /\ rows' = [rows EXCEPT ![t[1]].status = "completed"]
          /\ run' = [run EXCEPT !.node = t[1] + 1]
          /\ UNCHANGED thread
       \/ FailStep(t, TRUE) /\ Set(t, "raised")
    /\ tick' = At("settling")
    /\ UNCHANGED <<claims, op, seen, process>>

Settle ==
    /\ tick.phase = "settling"
    /\ RetireOp /\ tick' = Idle
    /\ UNCHANGED <<claims, effects, seen, thread, process>>

\* The executor raised: one retry, or none if it gave up.
StepFailed(t) ==
    /\ tick.phase = "executing" /\ Holding(t) /\ thread[t] \in {"raised", "gaveup"}
    /\ FailStep(t, thread[t] = "raised")
    /\ tick' = Idle
    /\ UNCHANGED <<claims, op, effects, seen, thread, process>>

-----------------------------------------------------------------------------
(* Cancellation, death, restart, supervision, operators *)

Awaiting == {"started", "advancing", "executing"}

\* Mutants of CancelTick: the claim is failed, or left as it is.
CancelTickAsFailure ==
    /\ tick.phase \in Awaiting /\ cancels < MaxCancels
    /\ IF tick.phase = "executing" THEN FailStep(<<tick.node, tick.epoch>>, TRUE)
       ELSE UNCHANGED <<run, rows>>
    /\ tick' = Idle /\ cancels' = cancels + 1
    /\ UNCHANGED <<claims, op, effects, seen, thread, gen, up>>

CancelTickStranding ==
    /\ tick.phase \in Awaiting /\ cancels < MaxCancels
    /\ tick' = Idle /\ cancels' = cancels + 1
    /\ UNCHANGED <<engine, thread, gen, up>>

\* _cancel_detached_ticks, or a driver whose client went away: the task ends at
\* its await and release_claim_on_cancel hands the claim back, without a retry.
\* The thread goes on.
CancelTick ==
    /\ tick.phase \in Awaiting /\ cancels < MaxCancels
    /\ rows' = IF tick.phase = "executing" /\ rows[tick.node].status = "claimed"
               THEN [rows EXCEPT ![tick.node].status = "pending"] ELSE rows
    /\ tick' = Idle /\ cancels' = cancels + 1
    /\ UNCHANGED <<run, claims, op, effects, seen, thread, gen, up>>

\* The server dies.  A subprocess of an operation may live on.
Crash ==
    /\ up /\ gen <= MaxCrashes
    /\ up' = FALSE /\ tick' = Idle
    /\ thread' = [t \in Token |-> IF thread[t] \in {"raised", "gaveup"} THEN thread[t]
                                  ELSE IF thread[t] = "broken" THEN "gaveup" ELSE "none"]
    /\ \E still \in {{}, effects} : effects' = still
    /\ UNCHANGED <<run, rows, claims, op, seen, gen, cancels>>

OrphanEnds ==
    /\ op # None /\ Dead(op.by) /\ effects # {}
    /\ effects' = {}
    /\ UNCHANGED <<run, rows, claims, op, seen, thread, tick, process>>

\* The next server, with recover_claims_on_startup: claims of a run without an
\* unsettled operation are reopened; with one, or on an error, they are kept.
Restart ==
    /\ ~up /\ up' = TRUE /\ gen' = gen + 1
    /\ \/ op = None /\ rows' = Reaped
       \/ UNCHANGED rows
    /\ UNCHANGED <<run, claims, op, effects, seen, thread, tick, cancels>>

\* _check_hung_claims
CheckHungClaims ==
    /\ up /\ rows' = Reaped
    /\ UNCHANGED <<run, claims, op, effects, seen, thread, tick, process>>

\* Mutant of ReleaseOperation: the death of the owner is evidence enough.
ReleaseDeadOperation ==
    /\ op # None /\ Dead(op.by)
    /\ RetireOp
    /\ UNCHANGED <<claims, effects, seen, thread, tick, process>>

\* release_operation, by an operator who has evidence that the effects of an
\* operation without an owner have ended.
ReleaseOperation ==
    /\ up /\ op # None /\ Dead(op.by) /\ effects = {}
    /\ RetireOp
    /\ UNCHANGED <<claims, effects, seen, thread, tick, process>>

Stop ==
    /\ up /\ Running /\ ~run.cancel
    /\ FailRun
    /\ UNCHANGED <<claims, op, effects, seen, thread, tick, process>>

-----------------------------------------------------------------------------
TickStep ==
    \/ Dispatch \/ CheckActive \/ Advance \/ StartTool \/ Preflight \/ ClaimNextStep
    \/ NoClaim \/ Settle
    \/ \E t \in Token : Confirm(t) \/ Deliver(t) \/ StepFailed(t)

ToolStep(t) == EndCall(t) \/ EndTool(t) \/ RetireTool(t)

Next ==
    \/ TickStep
    \/ \E t \in Token : StartCall(t) \/ ToolStep(t) \/ Return(t)
    \/ CancelTick \/ Crash \/ OrphanEnds \/ Restart \/ CheckHungClaims
    \/ ReleaseOperation \/ Stop

Init ==
    /\ run = [status |-> "running", cancel |-> FALSE, node |-> 1]
    /\ rows = [n \in Node |-> [status |-> "pending", epoch |-> 0, by |-> 0, retries |-> 0]]
    /\ claims = 0 /\ op = None /\ effects = {} /\ seen = None
    /\ thread = [t \in Token |-> "none"]
    /\ tick = Idle /\ gen = 1 /\ up = TRUE /\ cancels = 0

\* The poller ticks, a tool call ends (timeouts), an executor returns (turn
\* budget, wall cap), a dead server is started again (compose's restart policy)
\* and the supervisor runs every 30 s.
Fairness ==
    /\ WF_vars(TickStep) /\ WF_vars(Restart) /\ WF_vars(CheckHungClaims)
    /\ \A t \in Token : WF_vars(ToolStep(t)) /\ SF_vars(Return(t))

Spec == Init /\ [][Next]_vars /\ Fairness

-----------------------------------------------------------------------------
(* Properties *)

\* Never are the effects of two operations of one run going on at once: not those
\* of an executor whose tick was cancelled beside its successor's, nor those of a
\* subprocess that outlived its server beside those of the step's replay.
OneEffect == \A f, g \in effects : f = g

\* A cancelled run that is reported ended is quiet: no effect of it is going on
\* and no claim of it is held, however the cancellation met operations, deaths
\* and operators.
StopIsTruthful ==
    (run.cancel /\ run.status = "failed") =>
        effects = {} /\ \A n \in Node : rows[n].status # "claimed"

\* A run that failed without being cancelled failed on its own work: some step
\* gave up, or raised more often than its budget allows.  Cancelled ticks, deaths
\* of the server and reclaimed claims are charged to nobody.
FailureHasCause ==
    (run.status = "failed" /\ ~run.cancel) =>
        \E n \in Node : \/ \E e \in Epoch : thread[<<n, e>>] \in {"broken", "gaveup"}
                        \/ Cardinality({e \in Epoch : thread[<<n, e>>] = "raised"}) > MaxRetries

\* An operation whose owner is gone waits for an operator.
Stranded == op # None /\ Dead(op.by)

\* A claim whose delivery was refused beside an operation of an earlier executor
\* is kept by a process that lives: nothing hands it back.
Unattended == \E n \in Node : rows[n].status = "claimed" /\ rows[n].epoch \in Epoch
                                /\ thread[<<n, rows[n].epoch>>] = "refused"

\* No run goes on for ever: it ends, or waits for an operator, whatever ticks are
\* cancelled and whenever the server dies.
RunEnds == []<>(~Running \/ Stranded \/ Unattended)

=============================================================================
