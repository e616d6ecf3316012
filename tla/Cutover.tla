------------------------------ MODULE Cutover ------------------------------
(***************************************************************************)
(* Who may write in one checkout, and when the backend may be restarted.   *)
(*                                                                         *)
(* core/run_isolation.py arbitrates the checkout between direct runs,      *)
(* which hold a lease, and other writers, which hold an admission row; a   *)
(* row outlives a writer that died until somebody shows that its effects   *)
(* have ended.  core/skillflow_host.py admits the operations of a run the  *)
(* same way.  Both admit under the shared side of one kernel lock, whose   *)
(* exclusive side a deployment (cli/server.py) holds from before it        *)
(* measures these rows until it has recorded its outcome in the journal    *)
(* of core/deployment_quiescence.py.  Backend, deployers and operators may *)
(* die at any step.                                                        *)
(***************************************************************************)
EXTENDS Naturals, Sequences

CONSTANTS
    Run,        \* direct runs on the checkout
    Coding,     \* coding_workspace writers, exclusive
    Generic,    \* other writers, which may coexist
    Caller,     \* launcher and poller: who calls ensure_for_run
    Deployer,   \* host CLI processes
    Operator,   \* who reconciles the journal by hand
    None,
    MaxEvents,  \* events of the journal the model explores
    MaxCrashes  \* deaths of backend, deployers and operator

ASSUME CutoverAssumption ==
    /\ Run \cap (Coding \cup Generic) = {} /\ Coding \cap Generic = {}
    /\ None \notin Run \cup Deployer /\ Operator \notin Deployer
    /\ MaxEvents \in Nat /\ MaxCrashes \in Nat

Writer == Coding \cup Generic
Actor == Run \cup Writer
Clerk == Deployer \cup {Operator}

VARIABLES
    status,      \* a run in the engine: pending, running or ended
    reactivated, \* runs that a retry or a rescue brought back
    lease,       \* the run in checkout_leases, or None
    row,         \* a run's admitted operation, a writer's admission:
                 \*   none, alive, or dead (its owner does not answer for it)
    landing,     \* whose writes may still land in the checkout
    call,        \* calls of ensure_for_run
    sweep,       \* reconcile_run_lease in progress
    fence,       \* the deployer holding the exclusive lock, or None
    clerk,       \* program counter of deployers and operator
    quiet,       \* what a deployer has measured so far
    clearance,   \* the number of a deployer's authorization
    latest,      \* the latest event of journal.json, numbered
    draft,       \* events the checkpoint file counts and the journal lacks
    crashes

backend == <<status, reactivated, lease, row, landing, call, sweep>>
office == <<fence, clerk, quiet, clearance, latest, draft>>
vars == <<backend, office, crashes>>

SetRow(x, s) == row' = [row EXCEPT ![x] = s]

Idle == [pc |-> "idle", run |-> None]

-----------------------------------------------------------------------------
(* The checkout.                                                           *)

\* Mutant of Unfenced: admissions do not look at the cutover lock.
UnfencedAlways == TRUE

\* operation_admission_fence: shared, so that it waits for a cutover to end.
Unfenced == fence = None

Conflicts(w) == IF w \in Coding THEN Writer ELSE Coding

AdmitWrite(w) ==
    /\ Unfenced /\ row[w] = "none"
    /\ lease = None
    /\ \A x \in Conflicts(w) : row[x] = "none"
    /\ SetRow(w, "alive") /\ landing' = landing \cup {w}
    /\ UNCHANGED <<status, reactivated, lease, call, sweep, office, crashes>>

\* _admit_op: refused for a run that is over or has an unsettled operation.
AdmitOp(r) ==
    /\ Unfenced /\ status[r] = "running" /\ row[r] = "none"
    /\ SetRow(r, "alive") /\ landing' = landing \cup {r}
    /\ UNCHANGED <<status, reactivated, lease, call, sweep, office, crashes>>

\* retire_write and _retire_op, in the owner's own finally.
Retire(x) ==
    /\ row[x] = "alive"
    /\ SetRow(x, "none") /\ landing' = landing \ {x}
    /\ UNCHANGED <<status, reactivated, lease, call, sweep, office, crashes>>

\* mark_write_admission_pending: the owner cannot confirm that its writers ended.
MarkPending(w) ==
    /\ row[w] = "alive"
    /\ SetRow(w, "dead") /\ UNCHANGED landing
    /\ UNCHANGED <<status, reactivated, lease, call, sweep, office, crashes>>

\* What a dead owner had started comes to its end.
EffectsEnd(x) ==
    /\ x \in landing /\ row[x] # "alive"
    /\ landing' = landing \ {x}
    /\ UNCHANGED <<status, reactivated, lease, row, call, sweep, office, crashes>>

\* Mutant of Settle: the death of the owner is taken for the end of its work.
SettleDead(x) ==
    /\ row[x] = "dead"
    /\ SetRow(x, "none") /\ UNCHANGED landing
    /\ UNCHANGED <<status, reactivated, lease, call, sweep, office, crashes>>

\* clear_write_admission and release_operation, on evidence that the effects
\* have ended.
Settle(x) ==
    /\ row[x] = "dead" /\ x \notin landing
    /\ SetRow(x, "none") /\ UNCHANGED landing
    /\ UNCHANGED <<status, reactivated, lease, call, sweep, office, crashes>>

\* ensure_for_run, decided on a pending run; the call may take effect late.
CallEnsure(k, r) ==
    /\ call[k] = Idle /\ status[r] = "pending"
    /\ call' = [call EXCEPT ![k] = [pc |-> "called", run |-> r]]
    /\ UNCHANGED <<status, reactivated, lease, row, landing, sweep, office, crashes>>

MayLease(r) == /\ \A w \in Writer : row[w] = "none"
               /\ lease \in {r, None}

AcquireLease(k) ==
    /\ call[k].pc = "called" /\ MayLease(call[k].run)
    /\ lease' = call[k].run
    /\ call' = [call EXCEPT ![k].pc = "returned"]
    /\ UNCHANGED <<status, reactivated, row, landing, sweep, office, crashes>>

\* The launcher reports the refusal; the poller settles a run still pending.
LeaseRefused(k) ==
    /\ call[k].pc = "called" /\ ~MayLease(call[k].run)
    /\ call' = [call EXCEPT ![k] = Idle]
    /\ \/ UNCHANGED status
       \/ /\ status[call[k].run] = "pending"
          /\ status' = [status EXCEPT ![call[k].run] = "ended"]
    /\ UNCHANGED <<reactivated, lease, row, landing, sweep, office, crashes>>

Start(k) ==
    /\ call[k].pc = "returned"
    /\ call' = [call EXCEPT ![k] = Idle]
    /\ status' = IF status[call[k].run] = "pending"
                 THEN [status EXCEPT ![call[k].run] = "running"] ELSE status
    /\ UNCHANGED <<reactivated, lease, row, landing, sweep, office, crashes>>

\* A run completes, fails or is stopped, in the last two cases with an
\* operation still on its way.
RunEnds(r) ==
    /\ status[r] \in {"pending", "running"}
    /\ status' = [status EXCEPT ![r] = "ended"]
    /\ UNCHANGED <<reactivated, lease, row, landing, call, sweep, office, crashes>>

\* reactivate_run by a retry or a rescue, which does not call ensure_for_run.
Reactivate(r) ==
    /\ status[r] = "ended" /\ r \notin reactivated
    /\ status' = [status EXCEPT ![r] = "running"]
    /\ reactivated' = reactivated \cup {r}
    /\ UNCHANGED <<lease, row, landing, call, sweep, office, crashes>>

SweepTo(pc, r) == sweep' = [pc |-> pc, run |-> r]

\* reconcile_run_lease reads the lease, the run and its operations one after
\* the other, and releases on what it read.
SweepHeld ==
    /\ sweep = Idle /\ lease # None
    /\ SweepTo("held", lease)
    /\ UNCHANGED <<status, reactivated, lease, row, landing, call, office, crashes>>

SweepStatus ==
    /\ sweep.pc = "held"
    /\ IF status[sweep.run] = "ended" THEN SweepTo("over", sweep.run) ELSE sweep' = Idle
    /\ UNCHANGED <<status, reactivated, lease, row, landing, call, office, crashes>>

SweepAudit ==
    /\ sweep.pc = "over"
    /\ IF row[sweep.run] = "none" THEN SweepTo("release", sweep.run) ELSE sweep' = Idle
    /\ UNCHANGED <<status, reactivated, lease, row, landing, call, office, crashes>>

\* Mutant of SweepRelease: the disposition is recorded, the lease row stays.
SweepReleaseRecord ==
    /\ sweep.pc = "release"
    /\ sweep' = Idle
    /\ UNCHANGED <<status, reactivated, lease, row, landing, call, office, crashes>>

SweepRelease ==
    /\ sweep.pc = "release"
    /\ lease' = IF lease = sweep.run THEN None ELSE lease
    /\ sweep' = Idle
    /\ UNCHANGED <<status, reactivated, row, landing, call, office, crashes>>

\* What the end of the backend process does, whoever ends it.
BackendDies ==
    /\ row' = [x \in Actor |-> IF row[x] = "alive" THEN "dead" ELSE row[x]]
    /\ call' = [k \in Caller |-> Idle] /\ sweep' = Idle
    /\ UNCHANGED <<status, reactivated, lease, landing>>

BackendCrash ==
    /\ crashes < MaxCrashes /\ crashes' = crashes + 1
    /\ BackendDies
    /\ UNCHANGED office

-----------------------------------------------------------------------------
(* A deployment.                                                           *)

Goto(d, pc) == clerk' = [clerk EXCEPT ![d] = pc]

\* What a deployer knew is gone when it ends.
Forget(c) == /\ quiet' = [d \in Deployer |-> d # c /\ quiet[d]]
             /\ clearance' = [d \in Deployer |-> IF d = c THEN 0 ELSE clearance[d]]

AcquireFence(d) ==
    /\ clerk[d] = "idle" /\ fence = None
    /\ latest.n + 3 <= MaxEvents
    /\ fence' = d /\ Goto(d, "runs") /\ quiet' = [quiet EXCEPT ![d] = TRUE]
    /\ UNCHANGED <<backend, clearance, latest, draft, crashes>>

\* measure: runs with their operations first, leases and admissions next, each
\* of which may fail to be read.  A run without an operation does not block:
\* it is resumed from its trace.
MeasureRuns(d) ==
    /\ clerk[d] = "runs" /\ Goto(d, "rows")
    /\ \E read \in BOOLEAN :
         quiet' = [quiet EXCEPT ![d] = read /\ \A r \in Run : row[r] = "none"]
    /\ UNCHANGED <<backend, fence, clearance, latest, draft, crashes>>

MeasureRows(d) ==
    /\ clerk[d] = "rows" /\ Goto(d, "decide")
    /\ quiet' = [quiet EXCEPT ![d] = @ /\ lease = None /\ \A w \in Writer : row[w] = "none"]
    /\ UNCHANGED <<backend, fence, clearance, latest, draft, crashes>>

Event(s, d) == [status |-> s, by |-> d]
Pending == {"authorized", "overridden"}

\* The journal lock is held while a clerk persists; a clerk that died there
\* leaves a checkpoint the journal does not match, which nobody may use.
JournalFree == \A c \in Clerk : clerk[c] \notin {"persist", "close"}
Usable == JournalFree /\ draft = <<>>
Broken == JournalFree /\ draft # <<>>

\* An authorization still pending belongs to a deployment that was interrupted.
Interrupted == IF latest.status \in Pending THEN <<Event("aborted", latest.by)>> ELSE <<>>

\* authorize: a quiet measurement, or an audited override; a refused decision
\* is recorded as well.
Authorize(d) ==
    /\ clerk[d] = "decide" /\ Usable
    /\ \E s \in {IF quiet[d] THEN "authorized" ELSE "overridden", "aborted"} :
         draft' = Append(Interrupted, Event(s, d))
    /\ Goto(d, "persist")
    /\ UNCHANGED <<backend, fence, quiet, clearance, latest, crashes>>

\* The checkpoint is on disk; now the journal.
WriteJournal ==
    /\ latest' = [n |-> latest.n + Len(draft), status |-> draft[Len(draft)].status, by |-> draft[Len(draft)].by]
    /\ draft' = <<>>

Persist(d) ==
    /\ clerk[d] = "persist" /\ WriteJournal
    /\ IF latest'.status \in Pending
       THEN /\ Goto(d, "act") /\ clearance' = [clearance EXCEPT ![d] = latest'.n]
            /\ UNCHANGED fence
            /\ UNCHANGED quiet
       ELSE Goto(d, "idle") /\ fence' = None /\ Forget(d)
    /\ UNCHANGED <<backend, crashes>>

\* compose restarts the backend, or fails before it does.
Act(d) ==
    /\ clerk[d] = "act"
    /\ \/ Goto(d, "acted") /\ BackendDies
       \/ Goto(d, "failed") /\ UNCHANGED backend
    /\ UNCHANGED <<fence, quiet, clearance, latest, draft, crashes>>

\* Mutant of Superseded: finalize trusts the clearance it was given.
SupersededNever(d) == FALSE

Superseded(d) == latest.n # clearance[d]

Finalize(d) ==
    /\ clerk[d] \in {"acted", "failed"} /\ Usable /\ ~Superseded(d)
    /\ \E s \in {IF clerk[d] = "acted" THEN "completed" ELSE "aborted", "aborted"} :
         draft' = <<Event(s, d)>>
    /\ Goto(d, "close")
    /\ UNCHANGED <<backend, fence, quiet, clearance, latest, crashes>>

\* DeploymentBlocked out of authorize or finalize: the fence is released.
Refused(d) ==
    /\ clerk[d] \in {"decide", "acted", "failed"}
    /\ Broken \/ (Usable /\ clerk[d] # "decide" /\ Superseded(d))
    /\ Goto(d, "idle") /\ fence' = None /\ Forget(d)
    /\ UNCHANGED <<backend, latest, draft, crashes>>

\* reconcile, called by hand with an observation taken outside the fence.
Reconcile ==
    /\ clerk[Operator] = "idle" /\ Usable /\ latest.n < MaxEvents
    /\ \/ latest.status \in Pending /\ draft' = Interrupted
       \/ /\ latest.status = "aborted"
          /\ \E s \in {"reconciled_quiescent", "aborted"} : draft' = <<Event(s, latest.by)>>
    /\ Goto(Operator, "close")
    /\ UNCHANGED <<backend, fence, quiet, clearance, latest, crashes>>

Close(c) ==
    /\ clerk[c] = "close" /\ WriteJournal
    /\ Goto(c, "idle")
    /\ fence' = IF fence = c THEN None ELSE fence
    /\ Forget(c)
    /\ UNCHANGED <<backend, crashes>>

\* The kernel releases both locks of a process that dies.
ClerkCrash(c) ==
    /\ clerk[c] # "idle" /\ crashes < MaxCrashes /\ crashes' = crashes + 1
    /\ Goto(c, "idle")
    /\ fence' = IF fence = c THEN None ELSE fence
    /\ Forget(c)
    /\ UNCHANGED <<backend, latest, draft>>

-----------------------------------------------------------------------------
Init ==
    /\ status = [r \in Run |-> "pending"] /\ reactivated = {}
    /\ lease = None /\ row = [x \in Actor |-> "none"] /\ landing = {}
    /\ call = [k \in Caller |-> Idle] /\ sweep = Idle
    /\ fence = None /\ clerk = [c \in Clerk |-> "idle"]
    /\ quiet = [d \in Deployer |-> FALSE] /\ clearance = [d \in Deployer |-> 0]
    /\ latest = [n |-> 0, status |-> "none", by |-> None] /\ draft = <<>> /\ crashes = 0

SweepStep == SweepHeld \/ SweepStatus \/ SweepAudit \/ SweepRelease

CheckoutStep ==
    \/ \E w \in Writer : AdmitWrite(w) \/ MarkPending(w)
    \/ \E r \in Run : AdmitOp(r) \/ RunEnds(r) \/ Reactivate(r)
    \/ \E x \in Actor : Retire(x) \/ EffectsEnd(x) \/ Settle(x)
    \/ \E k \in Caller : AcquireLease(k) \/ LeaseRefused(k) \/ Start(k)
                         \/ \E r \in Run : CallEnsure(k, r)
    \/ BackendCrash

DeploymentStep ==
    \/ \E d \in Deployer : \/ AcquireFence(d) \/ MeasureRuns(d) \/ MeasureRows(d) \/ Authorize(d)
                           \/ Persist(d) \/ Act(d) \/ Finalize(d) \/ Refused(d)
    \/ \E c \in Clerk : Close(c) \/ ClerkCrash(c)
    \/ Reconcile

Next == SweepStep \/ CheckoutStep \/ DeploymentStep

\* The scheduler sweeps the leases on every tick of its interval.
Spec == Init /\ [][Next]_vars /\ WF_vars(SweepStep)

-----------------------------------------------------------------------------
(* Properties.                                                             *)

\* While a direct run writes in the checkout nobody else does, and while a
\* coding workspace writes there no other writer does, through crashes, late
\* callers and leases released on earlier readings.  Runs that a retry or a
\* rescue reactivated are outside: reactivate_run takes no lease.
OneWriter == \A x \in landing \cap (Run \cup Coding) : \A y \in landing \ {x} :
    x \in reactivated \/ y \in reactivated

\* Between the authorization of a deployment on a quiet measurement and its
\* recorded outcome there is no operation and no admitted write anywhere, so
\* the restart it performs interrupts nothing.
QuietCutover == \A d \in Deployer :
    clerk[d] \in {"act", "acted", "failed", "close"} /\ quiet[d]
    => \A x \in Actor : row[x] = "none"

\* _validate_journal accepts every journal that is written: whatever dies and
\* whoever reconciles, outcomes follow their own authorization and nothing
\* else is appended to a pending one.
Successors(s) == CASE s \in Pending -> {"completed", "aborted"}
                   [] s = "aborted" -> {"authorized", "overridden", "aborted", "reconciled_quiescent"}
                   [] OTHER -> {"authorized", "overridden", "aborted"}

Legal(e, f) == /\ f.status \in Successors(e.status)
               /\ e.status \in Pending \/ f.status = "reconciled_quiescent" => f.by = e.by

JournalValidates ==
    /\ Len(draft) > 0 => Legal(latest, draft[1])
    /\ Len(draft) > 1 => Legal(draft[1], draft[2])

\* The lease of a run that is over and quiet does not keep the checkout.
EndedLeaseIsReleased == \A r \in Run :
    (lease = r /\ status[r] = "ended" /\ row[r] = "none") ~> (lease # r \/ status[r] = "running")

=============================================================================
