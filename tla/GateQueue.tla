----------------------------- MODULE GateQueue -----------------------------
(***************************************************************************)
(* The host's queue in front of the exclusive test gate                    *)
(* (scripts/gate_queue.py) with the launcher it starts                     *)
(* (tools/gate_run.sh).  Tickets are files; every transition of a ticket   *)
(* happens under mutation.lock, which the daemon holds from admission to   *)
(* the recorded identity of its child and never while the gate runs.  The  *)
(* daemon may die at any step, alone or with the host; its child survives  *)
(* the first and not the second.                                           *)
(*                                                                         *)
(* Unowned (v1) tickets may be cancelled while untouched.  Owned (v2)      *)
(* tickets carry contexts (State attempts): failures exclude contexts,     *)
(* decisions hold, cancel or requeue a ticket until it is admitted.        *)
(***************************************************************************)
EXTENDS Naturals, Sequences

CONSTANTS
    Owned, Unowned,  \* tickets bound to State contexts, and legacy ones
    Context,         \* State attempts; every owned ticket binds all of them
    Request,         \* request ids of report-context
    MaxDecisions,    \* decisions one ticket takes (32 in the code)
    MaxLaunches,     \* invocations of one ticket the model can count
    MaxFaults        \* crashes of the daemon, reboots and stops in a behaviour

ASSUME GateQueueAssumption ==
    /\ Owned \cap Unowned = {}
    /\ MaxFaults \in Nat /\ MaxDecisions \in Nat
    /\ MaxLaunches \in Nat /\ MaxLaunches > MaxFaults

Ticket == Owned \cup Unowned
None == "none"

VARIABLES
    ticket,      \* ticket.json of every ticket
    order,       \* tickets by submitted_at
    phase,       \* phase[t][i]: the i-th launcher started for t
    reports,     \* tickets whose report directory holds a launcher's files
    exitFile,    \* <SUFFIX>.gate.exit of every ticket
    eligible,    \* a context in State: healthy or failed
    request,     \* report-context requests
    daemon,      \* the daemon's program counter and its selected ticket
    lock,        \* the daemon holds mutation.lock across several steps
    faults

vars == <<ticket, order, phase, reports, exitFile, eligible, request, daemon, lock, faults>>
gateVars == <<phase, reports, exitFile>>
clientVars == <<eligible, request>>

Record(s, ctx) == [state |-> s, started |-> FALSE, admitted |-> FALSE, birth |-> FALSE,
                   executed |-> FALSE, blocks |-> FALSE, active |-> ctx, failed |-> {},
                   keep |-> "none", acked |-> {}, authority |-> {}, decisions |-> 0, launched |-> 0]

Alive(t, i) == phase[t][i] \in {"starting", "prepared", "container", "ending"}
Live(t) == \E i \in 1..MaxLaunches : Alive(t, i)

\* container_alive: any container of any gate matches the name filter.
ContainerAlive == \E t \in Ticket, i \in 1..MaxLaunches : phase[t][i] = "container"

Set(t, r) == ticket' = [ticket EXCEPT ![t] = r]
Goto(pc, t) == daemon' = [pc |-> pc, sel |-> t]

-----------------------------------------------------------------------------
(* Clients, each command one transition under mutation.lock.               *)

Submit(t) ==
    /\ ~lock /\ ticket[t].state = "absent"
    /\ t \in Owned => \A c \in Context : eligible[c] = "healthy"
    /\ Set(t, Record("queued", IF t \in Owned THEN Context ELSE {}))
    /\ order' = Append(order, t)
    /\ UNCHANGED <<gateVars, clientVars, daemon, lock, faults>>

\* Only a ticket exactly as submitted, which an owned one never is.
Cancel(t) ==
    /\ ~lock /\ t \in Unowned
    /\ ticket[t].state = "queued" /\ ~ticket[t].started
    /\ Set(t, [ticket[t] EXCEPT !.state = "cancelled"])
    /\ UNCHANGED <<order, gateVars, clientVars, daemon, lock, faults>>

Decidable(t) ==
    /\ ~lock /\ t \in Owned
    /\ ticket[t].state \notin {"absent", "cancelled"} /\ ticket[t].decisions < MaxDecisions

DecideCancel(t) ==
    /\ Decidable(t)
    /\ Set(t, IF ticket[t].admitted THEN [ticket[t] EXCEPT !.active = {}, !.decisions = @ + 1]
              ELSE [ticket[t] EXCEPT !.state = "cancelled", !.decisions = @ + 1])
    /\ UNCHANGED <<order, gateVars, clientVars, daemon, lock, faults>>

Requeue(t, keep, retain, authority) ==
    /\ Decidable(t) /\ ~ticket[t].admitted
    /\ Set(t, [ticket[t] EXCEPT !.state = "queued", !.active = retain, !.keep = keep,
                                !.acked = ticket[t].failed, !.authority = authority,
                                !.decisions = @ + 1])
    /\ UNCHANGED <<order, gateVars, clientVars, daemon, lock, faults>>

Recheck(t) ==
    /\ ticket[t].failed = {} /\ ticket[t].keep = "none"
    /\ \A c \in ticket[t].active : eligible[c] = "healthy"
    /\ Requeue(t, "none", ticket[t].active, {})

KeepContexts(t, retain) ==
    /\ retain # {} /\ retain \subseteq ticket[t].active
    /\ \A c \in retain : eligible[c] = "healthy"
    /\ Requeue(t, "continue", retain, {})

KeepBaseline(t, c) ==
    /\ c \in ticket[t].failed
    /\ Requeue(t, "baseline", {}, {c})

\* Mutant of ApplyFailure: the failure is recorded, its contexts stay active.
ApplyFailureKeepingContexts(r, affected, disposition) ==
    [r EXCEPT !.failed = @ \cup affected,
              !.state = IF r.admitted \/ @ = "cancelled" THEN @ ELSE disposition]

\* apply_failure: what a governing failure of the contexts `affected` does.
ApplyFailure(r, affected, disposition) ==
    [r EXCEPT !.active = @ \ affected, !.failed = @ \cup affected,
              !.state = IF r.admitted \/ @ = "cancelled" THEN @ ELSE disposition]

\* physical_quiescence of a terminal report: FALSE defers it.
Quiet(r) == ~(r.admitted /\ r.executed) \/ (r.state # "running" /\ ~r.blocks)
MayStillLaunch(r) == ~(r.admitted /\ r.executed) /\ r.state \notin {"held", "cancelled", "failed"}

\* The unresolved requests of a context, whose bytes must be replayed first.
Unresolved(t, c) == {q \in Request : /\ request[q].ticket = t /\ request[q].context = c
                                     /\ request[q].delivery \in {"sending", "open"}}

\* A request no later command looks at again.
Closed(d) == [ticket |-> None, context |-> None, delivery |-> d, taken |-> FALSE]

Prepare(q, t, c, r) ==
    /\ ~MayStillLaunch(r)
    /\ Set(t, r)
    /\ request' = [request EXCEPT ![q] = IF Quiet(r)
                      THEN [ticket |-> t, context |-> c, delivery |-> "sending", taken |-> @.taken]
                      ELSE Closed("deferred")]
    /\ UNCHANGED <<order, gateVars, eligible, daemon, lock, faults>>

\* report-context with a failed observation and its failure decision.
ReportFailed(q, t, c, affected, disposition) ==
    /\ ~lock /\ request[q].delivery = "unused" /\ ticket[t].state # "absent"
    /\ Unresolved(t, c) = {} /\ c \in affected
    /\ Prepare(q, t, c, ApplyFailure(ticket[t], affected, disposition))

\* The POST outside the lock, and the receipt of its answer.  State takes the
\* observation or not; a refusal, a lost answer and a client that died before
\* it wrote the answer down all leave a request open to be replayed.
Post(q) ==
    /\ request[q].delivery = "sending"
    /\ \E taken \in BOOLEAN, answer \in {"acknowledged", "open"} :
          /\ answer = "acknowledged" => taken
          /\ taken => eligible[request[q].context] = "healthy" \/ request[q].taken
          /\ eligible' = IF taken THEN [eligible EXCEPT ![request[q].context] = "failed"]
                         ELSE eligible
          /\ request' = [request EXCEPT ![q] = IF answer = "acknowledged" THEN Closed(answer)
                             ELSE [@ EXCEPT !.delivery = answer, !.taken = @ \/ taken]]
    /\ UNCHANGED <<ticket, order, gateVars, daemon, lock, faults>>

\* The same request again while its delivery is not known.
Replay(q) ==
    /\ ~lock /\ request[q].delivery = "open"
    /\ LET t == request[q].ticket
           c == request[q].context IN
       /\ eligible[c] = "healthy" \/ request[q].taken
       /\ Prepare(q, t, c, ticket[t])

\* An attempt fails in State without this queue.
StateMoves(c) ==
    /\ eligible[c] = "healthy"
    /\ eligible' = [eligible EXCEPT ![c] = "failed"]
    /\ UNCHANGED <<ticket, order, gateVars, request, daemon, lock, faults>>

-----------------------------------------------------------------------------
(* The daemon.                                                             *)

Start ==
    /\ daemon.pc = "down"
    /\ Goto("reconcile", None)
    /\ UNCHANGED <<ticket, order, gateVars, clientVars, lock, faults>>

Running == {t \in Ticket : ticket[t].state = "running"}

Finalized(t) ==
    [ticket[t] EXCEPT !.state = IF exitFile[t] = "verdict" THEN "done" ELSE "failed"]

\* Mutant of ReconcileOwned: what cannot be adopted is queued again.
ReconcileOwnedByRequeue(t) ==
    /\ daemon.pc = "reconcile" /\ t \in Running \cap Owned
    /\ IF ticket[t].birth /\ Live(t)
       THEN Goto("adopt", t) /\ UNCHANGED ticket
       ELSE Set(t, [ticket[t] EXCEPT !.state = "queued"]) /\ UNCHANGED daemon
    /\ UNCHANGED <<order, gateVars, clientVars, lock, faults>>

\* reconcile: an owned ticket is adopted while its recorded child lives, and
\* otherwise held so that nothing is admitted until somebody looks at it.
ReconcileOwned(t) ==
    /\ daemon.pc = "reconcile" /\ t \in Running \cap Owned
    /\ IF ticket[t].birth /\ Live(t)
       THEN Goto("adopt", t) /\ UNCHANGED ticket
       ELSE Set(t, [ticket[t] EXCEPT !.state = "held", !.blocks = TRUE]) /\ UNCHANGED daemon
    /\ UNCHANGED <<order, gateVars, clientVars, lock, faults>>

\* The exit file is looked for first, then any gate container.
ReconcileUnowned(t) ==
    /\ daemon.pc = "reconcile" /\ t \in Running \cap Unowned
    /\ Goto(CASE exitFile[t] # "none" -> "finalize" [] ContainerAlive -> "adopt" [] OTHER -> "requeue", t)
    /\ UNCHANGED <<ticket, order, gateVars, clientVars, lock, faults>>

Adopted ==
    /\ daemon.pc = "adopt"
    /\ IF daemon.sel \in Owned THEN ~Live(daemon.sel) ELSE ~ContainerAlive \/ exitFile[daemon.sel] # "none"
    /\ Goto("finalize", daemon.sel)
    /\ UNCHANGED <<ticket, order, gateVars, clientVars, lock, faults>>

FinalizeAdopted ==
    /\ daemon.pc = "finalize"
    /\ Set(daemon.sel, Finalized(daemon.sel))
    /\ Goto("reconcile", None)
    /\ UNCHANGED <<order, gateVars, clientVars, lock, faults>>

\* Mutant of RequeueLost: the lost ticket is logged and left as it is.
RequeueLostNever ==
    /\ daemon.pc = "requeue"
    /\ Goto("loop", None)
    /\ UNCHANGED <<ticket, order, gateVars, clientVars, lock, faults>>

RequeueLost ==
    /\ daemon.pc = "requeue"
    /\ Set(daemon.sel, [ticket[daemon.sel] EXCEPT !.state = "queued"])
    /\ Goto("reconcile", None)
    /\ UNCHANGED <<order, gateVars, clientVars, lock, faults>>

Reconciled ==
    /\ daemon.pc = "reconcile" /\ Running = {}
    /\ Goto("loop", None)
    /\ UNCHANGED <<ticket, order, gateVars, clientVars, lock, faults>>

Blocked == \E t \in Ticket : ticket[t].blocks

\* The queued ticket all_tickets lists first.
Oldest(t) == \E k \in 1..Len(order) :
    /\ order[k] = t /\ ticket[t].state = "queued"
    /\ \A j \in 1..k - 1 : ticket[order[j]].state # "queued"

\* A ticket whose recovery is not known ends the daemon, and so does the stop
\* file: it is looked at here only, and removed when a daemon starts or ends.
Leave ==
    /\ daemon.pc = "loop" /\ Blocked
    /\ Goto("down", None)
    /\ UNCHANGED <<ticket, order, gateVars, clientVars, lock, faults>>

Stop ==
    /\ daemon.pc = "loop" /\ faults < MaxFaults
    /\ Goto("down", None) /\ faults' = faults + 1
    /\ UNCHANGED <<ticket, order, gateVars, clientVars, lock>>

\* Mutant of Pick: tickets are picked although a recovery is not known.
PickDespiteUnknown ==
    /\ daemon.pc = "loop"
    /\ \E t \in Ticket : Oldest(t) /\ Goto("picked", t)
    /\ UNCHANGED <<ticket, order, gateVars, clientVars, lock, faults>>

Pick ==
    /\ daemon.pc = "loop" /\ ~Blocked
    /\ \E t \in Ticket : Oldest(t) /\ Goto("picked", t)
    /\ UNCHANGED <<ticket, order, gateVars, clientVars, lock, faults>>

\* An owned ticket whose adapter is unavailable, or whose controller is not the
\* daemon's identity, ends the daemon; the ticket stays as it is.
RefuseSelected ==
    /\ daemon.pc = "picked" /\ daemon.sel \in Owned
    /\ Goto("down", None)
    /\ UNCHANGED <<ticket, order, gateVars, clientVars, lock, faults>>

\* run_one re-reads the ticket, which may have changed since it was picked.
RunOneStale ==
    /\ daemon.pc = "picked" /\ ticket[daemon.sel].state # "queued"
    /\ Goto("loop", None)
    /\ UNCHANGED <<ticket, order, gateVars, clientVars, lock, faults>>

\* admission_snapshot: the contexts asked of State, what it may answer, and
\* the record with the failures State reported.
Asked(r) == IF r.keep = "baseline" THEN r.authority ELSE r.active
WithStateFailures(r) == [r EXCEPT !.failed = @ \cup {c \in Asked(r) : eligible[c] = "failed"}]
Admissible(r) ==
    /\ Asked(r) # {}
    /\ r.keep = "baseline" \/ \A c \in Asked(r) : eligible[c] = "healthy"
    /\ r.keep # "none" => r.acked = r.failed

\* A refusal of the snapshot, or a State that does not answer or answers
\* that an attempt is for the moment neither running nor settled.
HoldAtAdmission ==
    /\ daemon.pc = "picked" /\ daemon.sel \in Owned /\ ticket[daemon.sel].state = "queued"
    /\ \E answered \in BOOLEAN :
         LET r == IF answered THEN WithStateFailures(ticket[daemon.sel]) ELSE ticket[daemon.sel] IN
         /\ answered => ~Admissible(r)
         /\ Set(daemon.sel, [r EXCEPT !.state = "held"])
    /\ Goto("loop", None)
    /\ UNCHANGED <<order, gateVars, clientVars, lock, faults>>

\* Mutant of Selected: run_one trusts the record the daemon picked.
SelectedAsPicked ==
    /\ daemon.pc = "picked"
    /\ daemon.sel \in Owned => Admissible(WithStateFailures(ticket[daemon.sel]))

Selected ==
    /\ daemon.pc = "picked" /\ ticket[daemon.sel].state = "queued"
    /\ daemon.sel \in Owned => Admissible(WithStateFailures(ticket[daemon.sel]))

HeadMoved ==
    /\ Selected
    /\ Set(daemon.sel, [ticket[daemon.sel] EXCEPT !.state = "failed"])
    /\ Goto("loop", None)
    /\ UNCHANGED <<order, gateVars, clientVars, lock, faults>>

\* Admission is written before the launcher is started, and the lock is kept.
Admit ==
    /\ Selected
    /\ LET t == daemon.sel
           r == IF t \in Owned THEN WithStateFailures(ticket[t]) ELSE ticket[t]
       IN /\ Set(t, [r EXCEPT !.state = "running", !.started = TRUE, !.admitted = t \in Owned,
                              !.executed = t \in Owned, !.birth = FALSE])
          /\ Goto("spawn", t)
    /\ lock' = TRUE
    /\ UNCHANGED <<order, gateVars, clientVars, faults>>

Spawn ==
    /\ daemon.pc = "spawn"
    /\ LET t == daemon.sel
           i == ticket[t].launched + 1
       IN /\ i <= MaxLaunches
          /\ phase' = [phase EXCEPT ![t][i] = "starting"]
          /\ Set(t, [ticket[t] EXCEPT !.launched = i])
          /\ Goto(IF t \in Owned THEN "identify" ELSE "wait", t)
          /\ lock' = (t \in Owned)
    /\ UNCHANGED <<order, reports, exitFile, clientVars, faults>>

SpawnFails ==
    /\ daemon.pc = "spawn"
    /\ Set(daemon.sel, [ticket[daemon.sel] EXCEPT !.state = "failed", !.executed = FALSE])
    /\ Goto("loop", None) /\ lock' = FALSE
    /\ UNCHANGED <<order, gateVars, clientVars, faults>>

\* process_birth of a child that has already ended is null.
Identify ==
    /\ daemon.pc = "identify"
    /\ Set(daemon.sel, [ticket[daemon.sel] EXCEPT !.birth = Live(daemon.sel)])
    /\ Goto("wait", daemon.sel) /\ lock' = FALSE
    /\ UNCHANGED <<order, gateVars, clientVars, faults>>

ChildEnds ==
    /\ daemon.pc = "wait"
    /\ ~Alive(daemon.sel, ticket[daemon.sel].launched)
    /\ IF ticket[daemon.sel].state = "running" THEN Set(daemon.sel, Finalized(daemon.sel)) ELSE UNCHANGED ticket
    /\ Goto("loop", None)
    /\ UNCHANGED <<order, gateVars, clientVars, lock, faults>>

-----------------------------------------------------------------------------
(* tools/gate_run.sh.                                                      *)

\* Reports of an earlier launcher, or a tree that cannot be gated, refuse.  So
\* does a snapshot that fails after the reports were begun, and a sidecar whose
\* identity is not known, which leaves an exit file.
GateRefuses(t, i) ==
    /\ phase[t][i] \in {"starting", "prepared"}
    /\ phase' = [phase EXCEPT ![t][i] = "gone"]
    /\ \/ UNCHANGED exitFile
       \/ phase[t][i] = "prepared" /\ exitFile' = [exitFile EXCEPT ![t] = "other"]
    /\ UNCHANGED <<ticket, order, reports, clientVars, daemon, lock, faults>>

GatePrepares(t, i) ==
    /\ phase[t][i] = "starting" /\ t \notin reports
    /\ phase' = [phase EXCEPT ![t][i] = "prepared"]
    /\ reports' = reports \cup {t}
    /\ UNCHANGED <<ticket, order, exitFile, clientVars, daemon, lock, faults>>

\* docker run, which returns before the verdict is written.
GateRuns(t, i) ==
    /\ phase[t][i] \in {"prepared", "container"}
    /\ phase' = [phase EXCEPT ![t][i] = IF @ = "prepared" THEN "container" ELSE "ending"]
    /\ UNCHANGED <<ticket, order, reports, exitFile, clientVars, daemon, lock, faults>>

GateEnds(t, i) ==
    /\ phase[t][i] = "ending"
    /\ phase' = [phase EXCEPT ![t][i] = "gone"]
    /\ \E x \in {"verdict", "other"} : exitFile' = [exitFile EXCEPT ![t] = x]
    /\ UNCHANGED <<ticket, order, reports, clientVars, daemon, lock, faults>>

-----------------------------------------------------------------------------
(* Faults.                                                                 *)

Crash ==
    /\ daemon.pc # "down" /\ faults < MaxFaults
    /\ Goto("down", None) /\ lock' = FALSE /\ faults' = faults + 1
    /\ UNCHANGED <<ticket, order, gateVars, clientVars>>

Reboot ==
    /\ faults < MaxFaults /\ \E t \in Ticket : Live(t)
    /\ Goto("down", None) /\ lock' = FALSE /\ faults' = faults + 1
    /\ phase' = [t \in Ticket |-> [i \in 1..MaxLaunches |-> IF Alive(t, i) THEN "gone" ELSE phase[t][i]]]
    /\ UNCHANGED <<ticket, order, reports, exitFile, clientVars>>

-----------------------------------------------------------------------------
Init ==
    /\ ticket = [t \in Ticket |-> Record("absent", {})]
    /\ order = <<>>
    /\ phase = [t \in Ticket |-> [i \in 1..MaxLaunches |-> "none"]]
    /\ reports = {} /\ exitFile = [t \in Ticket |-> "none"]
    /\ eligible = [c \in Context |-> "healthy"]
    /\ request = [q \in Request |-> Closed("unused")]
    /\ daemon = [pc |-> "down", sel |-> None]
    /\ lock = FALSE /\ faults = 0

DaemonStep ==
    \/ Adopted \/ FinalizeAdopted \/ RequeueLost \/ Reconciled \/ Leave \/ Pick
    \/ RefuseSelected \/ RunOneStale \/ HoldAtAdmission \/ HeadMoved \/ Admit \/ Spawn \/ SpawnFails \/ Identify \/ ChildEnds
    \/ \E t \in Ticket : ReconcileOwned(t) \/ ReconcileUnowned(t)

GateStep == \E t \in Ticket, i \in 1..MaxLaunches :
    GateRefuses(t, i) \/ GatePrepares(t, i) \/ GateRuns(t, i) \/ GateEnds(t, i)

ClientStep ==
    \/ \E t \in Ticket : Submit(t) \/ Cancel(t)
    \/ \E t \in Owned : \/ DecideCancel(t) \/ Recheck(t)
                        \/ \E retain \in SUBSET Context : KeepContexts(t, retain)
                        \/ \E c \in Context : KeepBaseline(t, c)
    \/ \E q \in Request, t \in Owned, c \in Context :
         \E affected \in SUBSET Context, d \in {"held", "cancelled"} : ReportFailed(q, t, c, affected, d)
    \/ \E q \in Request : Post(q) \/ Replay(q)
    \/ \E c \in Context : StateMoves(c)

Next == Start \/ DaemonStep \/ GateStep \/ ClientStep \/ Crash \/ Reboot \/ Stop

\* A daemon that is up goes on.  Whether it is started again and whether a gate
\* ends is not in the code's hands: see Attended.
Spec == Init /\ [][Next]_vars /\ WF_vars(DaemonStep)

-----------------------------------------------------------------------------
(* Properties.                                                             *)

\* An owned ticket is launched at most once, whatever dies and whoever
\* decides, and while its launcher lives its record says so: it is running,
\* or its recovery keeps the queue closed (so no terminal report of it is
\* sent, and no other ticket admitted).
OwnedLaunchIsAccounted == \A t \in Owned :
    /\ ticket[t].launched <= 1
    /\ Live(t) => ticket[t].state = "running" \/ ticket[t].blocks

\* A launch never starts a cancelled ticket, nor any ticket while an owned
\* launcher lives: run_one decides on the record it re-reads under the lock.
LaunchesAreExclusive == [][ \A t \in Ticket :
    ticket'[t].launched > ticket[t].launched =>
        /\ ticket[t].state = "running"
        /\ \A o \in Owned : ~Live(o) ]_vars

\* A ticket withdrawn before it was admitted stays withdrawn and never runs.
CancelledIsFinal == [][ \A t \in Ticket :
    ticket[t].state = "cancelled" =>
        ticket'[t].state = "cancelled" /\ ticket'[t].launched = ticket[t].launched ]_vars

\* No ticket is admitted for a context whose failure the queue has recorded,
\* by a controller's decision or by State's own answer.
FailedContextsNotAdmitted == [][ \A t \in Owned :
    ticket'[t].admitted /\ ~ticket[t].admitted => ticket'[t].active \cap ticket'[t].failed = {} ]_vars

\* Somebody starts the daemon whenever it is down, and no gate runs for ever:
\* gate_run.sh sets no time limit.
Attended == []<>(daemon.pc # "down") /\ []<>(\A t \in Ticket : ~Live(t))

Settled(t) == ticket[t].state \in {"done", "failed", "cancelled"}

\* No owned ticket stays at the head of the queue for ever: a daemon that can
\* serve its controller comes up, or somebody decides about it.
HeadIsServed == []<>(\A o \in Owned : ~Oldest(o))

\* A daemon restart loses no work: an unowned ticket in the queue, or left
\* running by a daemon that died, reaches an end, unless the queue is closed
\* because an owned launch cannot be accounted for.  A ticket behind an owned
\* one that every daemon refuses waits as long as that one stays at the head.
UnownedTicketSettles == Attended /\ HeadIsServed => \A t \in Unowned :
    ticket[t].state \in {"queued", "running"} ~> Settled(t) \/ Blocked

=============================================================================
