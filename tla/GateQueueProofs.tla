-------------------------- MODULE GateQueueProofs --------------------------
(***************************************************************************)
(* The safety theorems of GateQueue, for any number of tickets, contexts,  *)
(* requests, launches and faults.                                          *)
(*                                                                         *)
(* That an owned ticket is launched at most once is not visible in any one *)
(* record: the record says what was admitted, the launchers live outside   *)
(* it, and the daemon acts on what it read some steps earlier.  The        *)
(* invariant therefore ties the three together: the launchers of a ticket  *)
(* are counted by its record, what was launched was admitted and is never  *)
(* queued again, and at each of its steps the daemon knows enough about    *)
(* its ticket and about the owned launchers that may still live.           *)
(***************************************************************************)
EXTENDS GateQueue, TLAPS

Launch == 1..MaxLaunches
TicketState == {"absent", "queued", "cancelled", "held", "running", "done", "failed"}
PhaseName == {"none", "starting", "prepared", "container", "ending", "gone"}
Counter == {"down", "reconcile", "adopt", "finalize", "requeue", "loop", "picked", "spawn",
            "identify", "wait"}

TicketRow ==
    [state : TicketState, started : BOOLEAN, admitted : BOOLEAN, birth : BOOLEAN,
     executed : BOOLEAN, blocks : BOOLEAN, active : SUBSET Context, failed : SUBSET Context,
     keep : {"none", "continue", "baseline"}, acked : SUBSET Context,
     authority : SUBSET Context, decisions : Nat, launched : 0..MaxLaunches]

\* Every record and program counter holds a value of its kind.
Types ==
    /\ ticket \in [Ticket -> TicketRow]
    /\ phase \in [Ticket -> [Launch -> PhaseName]]
    /\ eligible \in [Context -> {"healthy", "failed"}]
    /\ daemon \in [pc : Counter, sel : Ticket \cup {None}]
    /\ lock \in BOOLEAN

\* The launchers of a ticket are those its record counts.
Counted(t) ==
    /\ ticket[t].state = "absent" => ticket[t].launched = 0
    /\ \A i \in Launch : Alive(t, i) => i <= ticket[t].launched

\* An owned ticket is admitted once: what was launched was admitted, what was
\* admitted is never queued again, and what runs was admitted.
AdmittedOnce(t) ==
    /\ ticket[t].launched <= 1
    /\ ticket[t].launched > 0 => ticket[t].admitted
    /\ ticket[t].admitted => ticket[t].state \in {"running", "held", "done", "failed"}
    /\ ticket[t].state = "running" => ticket[t].admitted
    /\ Live(t) => ticket[t].state = "running" \/ ticket[t].blocks

\* A context that is active although its failure is recorded has failed in
\* State, which no later admission overlooks.
ContextsHonest(t) ==
    /\ ticket[t].keep = "baseline" => ticket[t].active = {}
    /\ \A c \in ticket[t].active \cap ticket[t].failed : eligible[c] = "failed"

\* What the daemon knows of its selected ticket at each step, and which owned
\* launchers may live while it is there.
DaemonKnows ==
    LET t == daemon.sel
    IN  /\ daemon.pc \notin {"down", "reconcile", "loop"} => t \in Ticket
        /\ daemon.pc \in {"adopt", "finalize", "requeue", "spawn"} => ticket[t].state = "running"
        /\ daemon.pc = "requeue" => t \in Unowned
        /\ daemon.pc = "finalize" /\ t \in Owned => ~Live(t)
        /\ daemon.pc = "spawn" /\ t \in Owned => ticket[t].launched = 0
        /\ daemon.pc \in {"spawn", "identify"} => lock
        /\ daemon.pc = "loop" => \A o \in Owned : Live(o) => ticket[o].blocks
        /\ daemon.pc \in {"picked", "spawn"} => \A o \in Owned : ~Live(o)
        /\ daemon.pc \in {"identify", "wait"} => \A o \in Owned : Live(o) => o = t

RowsSound ==
    /\ \A t \in Ticket : Counted(t)
    /\ \A t \in Owned : AdmittedOnce(t) /\ ContextsHonest(t)

QInv == Types /\ RowsSound /\ DaemonKnows

-----------------------------------------------------------------------------
(* Writing one ticket *)

\* What a record written for ticket t must say.
RowOK(t, r) ==
    /\ r \in TicketRow
    /\ r.launched = ticket[t].launched
    /\ r.state = "absent" => r.launched = 0
    /\ t \in Owned =>
          /\ r.launched > 0 => r.admitted
          /\ r.admitted => r.state \in {"running", "held", "done", "failed"}
          /\ r.state = "running" => r.admitted
          /\ Live(t) => r.state = "running" \/ r.blocks
          /\ r.keep = "baseline" => r.active = {}
          /\ \A c \in r.active \cap r.failed : eligible[c] = "failed"

\* What every step but an admission and a launch does: nothing is launched or
\* admitted, and what was cancelled stays so.
TameStep ==
    \A t \in Ticket :
        /\ ticket'[t].launched = ticket[t].launched
        /\ ticket[t].state = "cancelled" => ticket'[t].state = "cancelled"
        /\ t \in Owned /\ ticket'[t].admitted => ticket[t].admitted

\* The same of the record written for ticket t.
Tame(t, r) ==
    /\ ticket[t].state = "cancelled" => r.state = "cancelled"
    /\ t \in Owned /\ r.admitted => ticket[t].admitted

\* One ticket is written, the others stay.
LEMMA TicketWritten ==
    ASSUME Types, NEW t \in Ticket, NEW r \in TicketRow, Set(t, r)
    PROVE  /\ ticket' \in [Ticket -> TicketRow]
           /\ ticket'[t] = r
           /\ \A u \in Ticket \ {t} : ticket'[u] = ticket[u]
  BY DEF Types, Set

\* The launchers are as alive as their phases say.
LEMMA SamePhasesSameLife ==
    ASSUME UNCHANGED phase
    PROVE  \A t : (Live(t)' <=> Live(t)) /\ \A i : Alive(t, i)' <=> Alive(t, i)
  BY DEF Live, Alive

\* A record that is right about its ticket keeps all records right.
LEMMA WriteKeepsRows ==
    ASSUME Types, RowsSound, NEW t \in Ticket, NEW r, RowOK(t, r), Set(t, r),
           UNCHANGED <<phase, eligible>>
    PROVE  RowsSound'
  <1>1. r \in TicketRow
    BY DEF RowOK
  <1>2. ticket'[t] = r /\ \A u \in Ticket \ {t} : ticket'[u] = ticket[u]
    BY <1>1, TicketWritten
  <1>3. ASSUME NEW u \in Ticket PROVE Counted(u)'
    BY <1>2, SamePhasesSameLife DEF RowOK, RowsSound, Counted
  <1>4. ASSUME NEW u \in Owned PROVE AdmittedOnce(u)' /\ ContextsHonest(u)'
    <2>1. u \in Ticket
      BY DEF Ticket
    <2>2. AdmittedOnce(u) /\ ContextsHonest(u)
      BY DEF RowsSound
    <2>3. CASE u = t
      BY <1>2, <2>2, <2>3, SamePhasesSameLife DEF RowOK, AdmittedOnce, ContextsHonest
    <2>4. CASE u # t
      BY <1>2, <2>1, <2>2, <2>4, SamePhasesSameLife DEF AdmittedOnce, ContextsHonest
    <2> QED
      BY <2>3, <2>4
  <1> QED
    BY <1>3, <1>4 DEF RowsSound

\* So does a step that writes no record, starts no launcher and heals no context.
LEMMA QuietKeepsRows ==
    ASSUME Types, RowsSound, UNCHANGED ticket,
           \A t \in Ticket, i \in Launch : Alive(t, i)' => Alive(t, i),
           \A c \in Context : eligible[c] = "failed" => eligible'[c] = "failed"
    PROVE  RowsSound' /\ \A t \in Ticket : Live(t)' => Live(t)
  <1>1. \A t \in Ticket : Live(t)' => Live(t)
    BY DEF Live, Launch
  <1>2. ASSUME NEW u \in Ticket PROVE Counted(u)'
    BY DEF RowsSound, Counted
  <1>3. ASSUME NEW u \in Owned PROVE AdmittedOnce(u)' /\ ContextsHonest(u)'
    <2>1. u \in Ticket /\ AdmittedOnce(u) /\ ContextsHonest(u)
      BY DEF Ticket, RowsSound
    <2>2. \A c \in ticket[u].active : c \in Context
      BY <2>1 DEF Types, TicketRow
    <2> QED
      BY <1>1, <2>1, <2>2 DEF AdmittedOnce, ContextsHonest
  <1> QED
    BY <1>1, <1>2, <1>3 DEF RowsSound

-----------------------------------------------------------------------------
(* Clients *)

\* What a command of a client may write.
ClientMay(t, r) ==
    /\ RowOK(t, r) /\ Tame(t, r)
    /\ (ticket[t].state = "running") <=> (r.state = "running")
    /\ ticket[t].blocks /\ ticket[t].launched > 0 => r.blocks

\* A command keeps the invariant: it runs without the daemon's lock, and takes
\* no running ticket from the daemon.
LEMMA ClientKeeps ==
    ASSUME QInv, ~lock, NEW t \in Ticket, NEW r, ClientMay(t, r), Set(t, r),
           UNCHANGED <<phase, eligible, daemon, lock>>
    PROVE  QInv' /\ TameStep
  <1>1. Types /\ RowsSound /\ DaemonKnows /\ RowOK(t, r) /\ r \in TicketRow
    BY DEF QInv, ClientMay, RowOK
  <1>2. RowsSound'
    BY <1>1, WriteKeepsRows
  <1>3. /\ ticket' \in [Ticket -> TicketRow] /\ ticket'[t] = r
        /\ \A u \in Ticket \ {t} : ticket'[u] = ticket[u]
    BY <1>1, TicketWritten
  <1>4. Types'
    BY <1>1, <1>3 DEF Types
  <1>5. \A o \in Owned : o \in Ticket /\ (Live(o) => ticket[o].launched > 0)
    <2>1. ASSUME NEW o \in Owned, NEW i \in Launch, Alive(o, i)
          PROVE  ticket[o].launched > 0
      BY <1>1, <2>1, GateQueueAssumption DEF RowsSound, Counted, Types, TicketRow, Launch, Ticket
    <2> QED
      BY <2>1 DEF Live, Launch, Ticket
  <1>6. \A u \in Ticket : ticket[u].state = "running" => ticket'[u].state = "running"
    BY <1>3 DEF ClientMay
  <1>7. \A o \in Owned : Live(o) /\ ticket[o].blocks => ticket'[o].blocks
    BY <1>3, <1>5 DEF ClientMay
  <1>8. daemon.pc # "spawn" /\ daemon.pc # "identify"
    BY <1>1 DEF DaemonKnows
  <1>9. DaemonKnows'
    BY <1>1, <1>5, <1>6, <1>7, <1>8, SamePhasesSameLife DEF DaemonKnows
  <1>10. TameStep
    BY <1>1, <1>3 DEF TameStep, ClientMay, Tame, RowOK
  <1> QED
    BY <1>2, <1>4, <1>9, <1>10 DEF QInv

\* A ticket that was never launched has no launcher.
LEMMA UnlaunchedIsDead ==
    ASSUME QInv, NEW t \in Ticket, ticket[t].launched = 0
    PROVE  ~Live(t)
  <1>1. \A i \in Launch : ~(i <= 0)
    BY GateQueueAssumption DEF Launch
  <1> QED
    BY <1>1 DEF QInv, RowsSound, Counted, Live, Launch

\* An owned ticket that was not admitted was never launched.
LEMMA UnadmittedIsDead ==
    ASSUME QInv, NEW t \in Owned, ~ticket[t].admitted
    PROVE  t \in Ticket /\ ticket[t].launched = 0 /\ ~Live(t)
  <1>1. t \in Ticket /\ AdmittedOnce(t)
    BY DEF QInv, RowsSound, Ticket
  <1>2. ticket[t].launched \in Nat
    BY <1>1, GateQueueAssumption DEF QInv, Types, TicketRow
  <1>3. ticket[t].launched = 0
    BY <1>1, <1>2 DEF AdmittedOnce
  <1> QED
    BY <1>1, <1>3, UnlaunchedIsDead

\* submit
LEMMA SubmitKeeps ==
    ASSUME QInv, NEW t \in Ticket, Submit(t)
    PROVE  QInv' /\ TameStep
  <1> DEFINE r == Record("queued", IF t \in Owned THEN Context ELSE {})
  <1>1. /\ ~lock /\ ticket[t].state = "absent" /\ Set(t, r)
        /\ UNCHANGED <<phase, eligible, daemon, lock>>
    BY DEF Submit, gateVars, clientVars
  <1>2. ticket[t].launched = 0
    BY <1>1 DEF QInv, RowsSound, Counted
  <1>3. /\ r \in TicketRow /\ r.launched = 0 /\ r.state = "queued" /\ ~r.admitted
        /\ r.keep = "none" /\ r.failed = {}
    BY GateQueueAssumption DEF Record, TicketRow, TicketState
  <1> HIDE DEF r
  <1>4. ClientMay(t, r)
    BY <1>1, <1>2, <1>3, UnlaunchedIsDead DEF ClientMay, RowOK, Tame
  <1> QED
    BY <1>1, <1>4, ClientKeeps

\* cancel of an unowned ticket
LEMMA CancelKeeps ==
    ASSUME QInv, NEW t \in Ticket, Cancel(t)
    PROVE  QInv' /\ TameStep
  <1> DEFINE r == [ticket[t] EXCEPT !.state = "cancelled"]
  <1>1. /\ ~lock /\ t \in Unowned /\ t \notin Owned /\ ticket[t].state = "queued" /\ Set(t, r)
        /\ UNCHANGED <<phase, eligible, daemon, lock>>
    BY GateQueueAssumption DEF Cancel, gateVars, clientVars
  <1>2. ticket[t] \in TicketRow
    BY DEF QInv, Types
  <1>3. /\ r \in TicketRow /\ r.launched = ticket[t].launched /\ r.state = "cancelled"
        /\ r.blocks = ticket[t].blocks
    BY <1>2 DEF TicketRow, TicketState
  <1> HIDE DEF r
  <1>4. ClientMay(t, r)
    BY <1>1, <1>3 DEF ClientMay, RowOK, Tame
  <1> QED
    BY <1>1, <1>4, ClientKeeps

\* decide: cancel
LEMMA DecideCancelKeeps ==
    ASSUME QInv, NEW t \in Owned, DecideCancel(t)
    PROVE  QInv' /\ TameStep
  <1>0. /\ t \in Ticket /\ ticket[t] \in TicketRow /\ AdmittedOnce(t) /\ ContextsHonest(t)
        /\ ~lock /\ ticket[t].state # "absent"
        /\ UNCHANGED <<phase, eligible, daemon, lock>>
    BY DEF QInv, Types, RowsSound, Ticket, DecideCancel, Decidable, gateVars, clientVars
  <1>1. CASE ticket[t].admitted
    <2> DEFINE n == ticket[t].decisions + 1
               r == [ticket[t] EXCEPT !.active = {}, !.decisions = n]
    <2>1. Set(t, r)
      BY <1>1 DEF DecideCancel
    <2>n. n \in Nat
      BY <1>0 DEF TicketRow
    <2> HIDE DEF n
    <2>2. /\ r \in TicketRow /\ r.launched = ticket[t].launched /\ r.state = ticket[t].state
          /\ r.blocks = ticket[t].blocks /\ r.admitted = ticket[t].admitted /\ r.active = {}
      BY <1>0, <2>n DEF TicketRow
    <2> HIDE DEF r
    <2>3. ClientMay(t, r)
      BY <1>0, <2>2 DEF ClientMay, RowOK, Tame, AdmittedOnce
    <2> QED
      BY <1>0, <2>1, <2>3, ClientKeeps
  <1>2. CASE ~ticket[t].admitted
    <2> DEFINE n == ticket[t].decisions + 1
               r == [ticket[t] EXCEPT !.state = "cancelled", !.decisions = n]
    <2>1. Set(t, r)
      BY <1>2 DEF DecideCancel
    <2>n. n \in Nat
      BY <1>0 DEF TicketRow
    <2> HIDE DEF n
    <2>2. /\ r \in TicketRow /\ r.launched = ticket[t].launched /\ r.state = "cancelled"
          /\ r.admitted = ticket[t].admitted /\ r.active = ticket[t].active
          /\ r.keep = ticket[t].keep /\ r.failed = ticket[t].failed
          /\ r.blocks = ticket[t].blocks
      BY <1>0, <2>n DEF TicketRow, TicketState
    <2> HIDE DEF r
    <2>3. ClientMay(t, r)
      BY <1>0, <1>2, <2>2, UnadmittedIsDead DEF ClientMay, RowOK, Tame, AdmittedOnce, ContextsHonest
    <2> QED
      BY <1>0, <2>1, <2>3, ClientKeeps
  <1> QED
    BY <1>1, <1>2

\* decide: recheck, continue and baseline put an unadmitted ticket back.
LEMMA RequeueKeeps ==
    ASSUME QInv, NEW t \in Owned, NEW keep \in {"none", "continue", "baseline"},
           NEW retain \in SUBSET Context, NEW authority \in SUBSET Context,
           Requeue(t, keep, retain, authority),
           keep = "baseline" => retain = {},
           \A c \in retain \cap ticket[t].failed : eligible[c] = "failed"
    PROVE  QInv' /\ TameStep
  <1> DEFINE n == ticket[t].decisions + 1
             r == [ticket[t] EXCEPT !.state = "queued", !.active = retain, !.keep = keep,
                                    !.acked = ticket[t].failed, !.authority = authority,
                                    !.decisions = n]
  <1>1. /\ t \in Ticket /\ ticket[t] \in TicketRow /\ AdmittedOnce(t)
        /\ ~lock /\ ~ticket[t].admitted /\ ticket[t].state # "cancelled" /\ Set(t, r)
        /\ UNCHANGED <<phase, eligible, daemon, lock>>
    BY DEF QInv, Types, RowsSound, Ticket, Requeue, Decidable, gateVars, clientVars
  <1>n. n \in Nat
    BY <1>1 DEF TicketRow
  <1> HIDE DEF n
  <1>2. /\ r \in TicketRow /\ r.launched = ticket[t].launched /\ r.state = "queued"
        /\ r.admitted = ticket[t].admitted /\ r.active = retain
        /\ r.keep = keep /\ r.failed = ticket[t].failed /\ r.blocks = ticket[t].blocks
    BY <1>1, <1>n DEF TicketRow, TicketState
  <1> HIDE DEF r
  <1>3. ClientMay(t, r)
    BY <1>1, <1>2, UnadmittedIsDead DEF ClientMay, RowOK, Tame, AdmittedOnce
  <1> QED
    BY <1>1, <1>3, ClientKeeps

\* The three decisions that requeue, with the contexts they keep.
LEMMA DecisionsKeep ==
    ASSUME QInv, NEW t \in Owned,
           \/ Recheck(t)
           \/ \E retain \in SUBSET Context : KeepContexts(t, retain)
           \/ \E c \in Context : KeepBaseline(t, c)
    PROVE  QInv' /\ TameStep
  <1>1. t \in Ticket /\ ticket[t] \in TicketRow /\ ContextsHonest(t)
    BY DEF QInv, Types, RowsSound, Ticket
  <1>2. CASE Recheck(t)
    <2>1. ticket[t].active \in SUBSET Context /\ {} \in SUBSET Context
      BY <1>1 DEF TicketRow
    <2>2. \A c \in ticket[t].active \cap ticket[t].failed : eligible[c] = "failed"
      BY <1>1 DEF ContextsHonest
    <2> QED
      BY <1>2, <2>1, <2>2, RequeueKeeps DEF Recheck
  <1>3. ASSUME NEW retain \in SUBSET Context, KeepContexts(t, retain)
        PROVE  QInv' /\ TameStep
    <2>1. \A c \in retain \cap ticket[t].failed : eligible[c] = "failed"
      BY <1>1, <1>3 DEF KeepContexts, ContextsHonest
    <2>2. {} \in SUBSET Context
      OBVIOUS
    <2> QED
      BY <1>3, <2>1, <2>2, RequeueKeeps DEF KeepContexts
  <1>4. ASSUME NEW c \in Context, KeepBaseline(t, c)
        PROVE  QInv' /\ TameStep
    <2>1. {c} \in SUBSET Context /\ {} \in SUBSET Context
      OBVIOUS
    <2> QED
      BY <1>4, <2>1, RequeueKeeps DEF KeepBaseline
  <1> QED
    BY <1>2, <1>3, <1>4

\* report-context of a failure
LEMMA ReportFailedKeeps ==
    ASSUME QInv, NEW q \in Request, NEW t \in Owned, NEW c \in Context,
           NEW affected \in SUBSET Context, NEW d \in {"held", "cancelled"},
           ReportFailed(q, t, c, affected, d)
    PROVE  QInv' /\ TameStep
  <1> DEFINE r == ApplyFailure(ticket[t], affected, d)
  <1>1. /\ t \in Ticket /\ ticket[t] \in TicketRow /\ AdmittedOnce(t) /\ ContextsHonest(t)
        /\ ~lock /\ ticket[t].state # "absent" /\ Set(t, r)
        /\ UNCHANGED <<phase, eligible, daemon, lock>>
    BY DEF QInv, Types, RowsSound, Ticket, ReportFailed, Prepare, gateVars
  <1>2. /\ r \in TicketRow /\ r.launched = ticket[t].launched
        /\ r.admitted = ticket[t].admitted /\ r.keep = ticket[t].keep
        /\ r.blocks = ticket[t].blocks
        /\ r.active = ticket[t].active \ affected /\ r.failed = ticket[t].failed \cup affected
        /\ r.state = IF ticket[t].admitted \/ ticket[t].state = "cancelled"
                     THEN ticket[t].state ELSE d
    BY <1>1 DEF TicketRow, TicketState, ApplyFailure
  <1> HIDE DEF r
  <1>3. \A x \in r.active \cap r.failed : eligible[x] = "failed"
    BY <1>1, <1>2 DEF ContextsHonest
  <1>4. ~ticket[t].admitted => ~Live(t) /\ ticket[t].launched = 0 /\ ticket[t].state # "running"
    BY <1>1, UnadmittedIsDead DEF AdmittedOnce
  <1>5. r.keep = "baseline" => r.active = {}
    BY <1>1, <1>2 DEF ContextsHonest
  <1>6. RowOK(t, r)
    BY <1>1, <1>2, <1>3, <1>4, <1>5 DEF RowOK, AdmittedOnce
  <1>7. ClientMay(t, r)
    BY <1>1, <1>2, <1>4, <1>6 DEF ClientMay, Tame
  <1> QED
    BY <1>1, <1>7, ClientKeeps

\* What a step that leaves the records, the daemon and its lock alone keeps.
LEMMA OutsideKeeps ==
    ASSUME QInv, UNCHANGED <<ticket, daemon, lock>>,
           phase' \in [Ticket -> [Launch -> PhaseName]],
           eligible' \in [Context -> {"healthy", "failed"}],
           \A t \in Ticket, i \in Launch : Alive(t, i)' => Alive(t, i),
           \A c \in Context : eligible[c] = "failed" => eligible'[c] = "failed"
    PROVE  QInv' /\ TameStep
  <1>1. Types /\ RowsSound /\ DaemonKnows
    BY DEF QInv
  <1>2. RowsSound' /\ \A t \in Ticket : Live(t)' => Live(t)
    BY <1>1, QuietKeepsRows
  <1>3. \A o \in Owned : o \in Ticket /\ (Live(o)' => Live(o))
    BY <1>2 DEF Ticket
  <1>4. daemon.sel \in Owned => (Live(daemon.sel)' => Live(daemon.sel))
    BY <1>3
  <1>5. DaemonKnows'
    BY <1>1, <1>3, <1>4 DEF DaemonKnows
  <1> QED
    BY <1>1, <1>2, <1>5 DEF QInv, Types, TameStep

\* Posting, replaying, and State moving on its own.
LEMMA ReportsKeep ==
    ASSUME QInv, \/ \E q \in Request : Post(q) \/ Replay(q)
                 \/ \E c \in Context : StateMoves(c)
    PROVE  QInv' /\ TameStep
  <1>0. /\ phase \in [Ticket -> [Launch -> PhaseName]] /\ ticket \in [Ticket -> TicketRow]
        /\ eligible \in [Context -> {"healthy", "failed"}]
    BY DEF QInv, Types
  <1>1. ASSUME NEW q \in Request, Post(q)
        PROVE  QInv' /\ TameStep
    <2>1. /\ UNCHANGED <<ticket, daemon, lock, phase>>
          /\ eligible' = eligible \/ \E c : eligible' = [eligible EXCEPT ![c] = "failed"]
      BY <1>1 DEF Post, gateVars
    <2> QED
      BY <1>0, <2>1, OutsideKeeps, SamePhasesSameLife
  <1>2. ASSUME NEW q \in Request, Replay(q)
        PROVE  QInv' /\ TameStep
    <2>1. UNCHANGED <<daemon, lock, phase, eligible>>
      BY <1>2 DEF Replay, Prepare, gateVars
    <2>2. \E t : ticket' = [ticket EXCEPT ![t] = ticket[t]]
      BY <1>2 DEF Replay, Prepare, Set
    <2>3. ticket' = ticket
      BY <1>0, <2>2
    <2> QED
      BY <1>0, <2>1, <2>3, OutsideKeeps, SamePhasesSameLife
  <1>3. ASSUME NEW c \in Context, StateMoves(c)
        PROVE  QInv' /\ TameStep
    <2>1. /\ UNCHANGED <<ticket, daemon, lock, phase>>
          /\ eligible' = [eligible EXCEPT ![c] = "failed"]
      BY <1>3 DEF StateMoves, gateVars
    <2> QED
      BY <1>0, <2>1, OutsideKeeps, SamePhasesSameLife
  <1> QED
    BY <1>1, <1>2, <1>3

\* The clients.
LEMMA ClientStepKeeps ==
    ASSUME QInv, ClientStep
    PROVE  QInv' /\ TameStep
  BY SubmitKeeps, CancelKeeps, DecideCancelKeeps, DecisionsKeep, ReportFailedKeeps, ReportsKeep
     DEF ClientStep

-----------------------------------------------------------------------------
(* Launchers and faults *)

\* A launcher goes from phase to phase and ends, and none begins by itself.
LEMMA GateStepKeeps ==
    ASSUME QInv, GateStep
    PROVE  QInv' /\ TameStep
  <1>0. phase \in [Ticket -> [Launch -> PhaseName]]
        /\ eligible \in [Context -> {"healthy", "failed"}]
    BY DEF QInv, Types
  <1>1. PICK t \in Ticket, i \in Launch : GateRefuses(t, i) \/ GatePrepares(t, i)
                                          \/ GateRuns(t, i) \/ GateEnds(t, i)
    BY DEF GateStep, Launch
  <1>2. PICK p \in PhaseName : /\ phase' = [phase EXCEPT ![t][i] = p]
                               /\ Alive(t, i)
                               /\ UNCHANGED <<ticket, daemon, lock, eligible>>
    BY <1>0, <1>1 DEF GateRefuses, GatePrepares, GateRuns, GateEnds, clientVars, PhaseName, Alive
  <1>3. /\ phase' \in [Ticket -> [Launch -> PhaseName]]
        /\ \A u \in Ticket, j \in Launch :
              phase'[u][j] = IF u = t /\ j = i THEN p ELSE phase[u][j]
    BY <1>0, <1>2
  <1>4. \A u \in Ticket, j \in Launch : Alive(u, j)' => Alive(u, j)
    BY <1>2, <1>3 DEF Alive
  <1> QED
    BY <1>0, <1>2, <1>3, <1>4, OutsideKeeps

\* A daemon that is down, or just started, knows nothing and need not.
LEMMA IdleKeeps ==
    ASSUME QInv, UNCHANGED <<ticket, eligible>>,
           daemon' \in [pc : {"down", "reconcile"}, sel : {None}],
           lock' \in BOOLEAN,
           phase' \in [Ticket -> [Launch -> PhaseName]],
           \A t \in Ticket, i \in Launch : Alive(t, i)' => Alive(t, i)
    PROVE  QInv' /\ TameStep
  <1>1. Types /\ RowsSound
    BY DEF QInv
  <1>2. RowsSound'
    BY <1>1, QuietKeepsRows
  <1>3. daemon' \in [pc : Counter, sel : Ticket \cup {None}] /\ daemon'.pc \in {"down", "reconcile"}
    BY DEF Counter
  <1>4. DaemonKnows'
    BY <1>3 DEF DaemonKnows
  <1> QED
    BY <1>1, <1>2, <1>3, <1>4 DEF QInv, Types, TameStep

\* Starting, leaving, refusing a controller, stopping and crashing.
LEMMA FaultsKeep ==
    ASSUME QInv, Start \/ Leave \/ RefuseSelected \/ Stop \/ Crash \/ Reboot
    PROVE  QInv' /\ TameStep
  <1>0. phase \in [Ticket -> [Launch -> PhaseName]] /\ lock \in BOOLEAN
    BY DEF QInv, Types
  <1>1. CASE Start \/ Leave \/ RefuseSelected \/ Stop \/ Crash
    <2>1. /\ UNCHANGED <<ticket, eligible, phase>> /\ lock' \in {lock, FALSE}
          /\ \E pc \in {"down", "reconcile"} : daemon' = [pc |-> pc, sel |-> None]
      BY <1>1 DEF Start, Leave, RefuseSelected, Stop, Crash, Goto, gateVars, clientVars
    <2>2. daemon' \in [pc : {"down", "reconcile"}, sel : {None}]
      BY <2>1
    <2> QED
      BY <1>0, <2>1, <2>2, IdleKeeps, SamePhasesSameLife
  <1>2. CASE Reboot
    <2>1. /\ \A t \in Ticket, i \in Launch :
                phase'[t][i] = IF Alive(t, i) THEN "gone" ELSE phase[t][i]
          /\ phase' \in [Ticket -> [Launch -> PhaseName]]
      BY <1>0, <1>2 DEF Reboot, Launch, PhaseName
    <2>2. \A t \in Ticket, i \in Launch : Alive(t, i)' => Alive(t, i)
      BY <2>1 DEF Alive
    <2> QED
      BY <1>0, <1>2, <2>1, <2>2, IdleKeeps DEF Reboot, Goto, clientVars
  <1> QED
    BY <1>1, <1>2

-----------------------------------------------------------------------------
(* The daemon *)

\* The daemon moves on and writes nothing.
LEMMA MoveKeeps ==
    ASSUME QInv, UNCHANGED <<ticket, phase, eligible, lock>>,
           NEW pc \in Counter, NEW t \in Ticket \cup {None}, Goto(pc, t),
           pc \notin {"spawn", "identify"},
           pc \notin {"down", "reconcile", "loop"} => t \in Ticket,
           pc \in {"adopt", "finalize", "requeue"} => ticket[t].state = "running",
           pc = "requeue" => t \in Unowned,
           pc = "finalize" /\ t \in Owned => ~Live(t),
           pc = "loop" => \A o \in Owned : Live(o) => ticket[o].blocks,
           pc = "picked" => \A o \in Owned : ~Live(o),
           pc = "wait" => \A o \in Owned : Live(o) => o = t
    PROVE  QInv' /\ TameStep
  <1>1. Types /\ RowsSound
    BY DEF QInv
  <1>2. daemon' = [pc |-> pc, sel |-> t] /\ daemon'.pc = pc /\ daemon'.sel = t
    BY DEF Goto
  <1>3. RowsSound'
    BY <1>1, QuietKeepsRows, SamePhasesSameLife
  <1>4. Types'
    BY <1>1, <1>2 DEF Types
  <1>5. DaemonKnows'
    BY <1>2, SamePhasesSameLife DEF DaemonKnows
  <1> QED
    BY <1>3, <1>4, <1>5 DEF QInv, TameStep

\* The daemon writes a ticket and is done with it.
LEMMA WriteAndLoopKeeps ==
    ASSUME QInv, NEW t \in Ticket, NEW r, RowOK(t, r), Tame(t, r), Set(t, r),
           UNCHANGED <<phase, eligible>>, lock' \in BOOLEAN,
           NEW pc \in {"loop", "reconcile"}, Goto(pc, None),
           pc = "loop" => \A o \in Owned : Live(o) =>
                              IF o = t THEN r.blocks ELSE ticket[o].blocks
    PROVE  QInv' /\ TameStep
  <1>1. Types /\ RowsSound /\ r \in TicketRow
    BY DEF QInv, RowOK
  <1>2. daemon' = [pc |-> pc, sel |-> None] /\ daemon'.pc = pc /\ daemon'.sel = None
    BY DEF Goto
  <1>3. RowsSound'
    BY <1>1, WriteKeepsRows
  <1>4. /\ ticket' \in [Ticket -> TicketRow] /\ ticket'[t] = r
        /\ \A u \in Ticket \ {t} : ticket'[u] = ticket[u]
    BY <1>1, TicketWritten
  <1>5. Types'
    BY <1>1, <1>2, <1>4 DEF Types, Counter
  <1>6. pc = "loop" => \A o \in Owned : Live(o)' => ticket'[o].blocks
    BY <1>4, SamePhasesSameLife DEF Ticket
  <1>7. DaemonKnows'
    BY <1>2, <1>6 DEF DaemonKnows
  <1>8. TameStep
    BY <1>4 DEF TameStep, Tame, RowOK
  <1> QED
    BY <1>3, <1>5, <1>7, <1>8 DEF QInv

\* Reconciliation: the tickets found running.
LEMMA ReconcileKeeps ==
    ASSUME QInv, NEW t \in Ticket, ReconcileOwned(t) \/ ReconcileUnowned(t)
    PROVE  QInv' /\ TameStep
  <1>0. ticket[t] \in TicketRow /\ Types
    BY DEF QInv, Types
  <1>1. CASE ReconcileUnowned(t)
    <2>1. /\ t \in Unowned /\ t \notin Owned /\ ticket[t].state = "running"
          /\ UNCHANGED <<ticket, phase, eligible, lock>>
      BY <1>1, GateQueueAssumption DEF ReconcileUnowned, Running, gateVars, clientVars
    <2>2. PICK pc \in {"finalize", "adopt", "requeue"} : Goto(pc, t)
      BY <1>1 DEF ReconcileUnowned
    <2> QED
      BY <2>1, <2>2, MoveKeeps DEF Counter
  <1>2. CASE ReconcileOwned(t) /\ ticket[t].birth /\ Live(t)
    <2>1. /\ ticket[t].state = "running" /\ Goto("adopt", t)
          /\ UNCHANGED <<ticket, phase, eligible, lock>>
      BY <1>2 DEF ReconcileOwned, Running, gateVars, clientVars
    <2> QED
      BY <2>1, MoveKeeps DEF Counter
  <1>3. CASE ReconcileOwned(t) /\ ~(ticket[t].birth /\ Live(t))
    <2> DEFINE r == [ticket[t] EXCEPT !.state = "held", !.blocks = TRUE]
    <2>1. /\ t \in Owned /\ ticket[t].state = "running" /\ daemon.pc = "reconcile" /\ Set(t, r)
          /\ UNCHANGED <<phase, eligible, lock, daemon>>
      BY <1>3 DEF ReconcileOwned, Running, gateVars, clientVars
    <2>2. AdmittedOnce(t) /\ ContextsHonest(t) /\ RowsSound
      BY <2>1 DEF QInv, RowsSound
    <2>3. /\ r \in TicketRow /\ r.launched = ticket[t].launched /\ r.state = "held" /\ r.blocks
          /\ r.admitted = ticket[t].admitted /\ r.active = ticket[t].active
          /\ r.keep = ticket[t].keep /\ r.failed = ticket[t].failed
      BY <1>0 DEF TicketRow, TicketState
    <2> HIDE DEF r
    <2>4. RowOK(t, r)
      BY <2>1, <2>2, <2>3 DEF RowOK, AdmittedOnce, ContextsHonest
    <2>5. RowsSound'
      BY <1>0, <2>1, <2>2, <2>4, WriteKeepsRows
    <2>6. Types'
      BY <1>0, <2>1, <2>3, TicketWritten DEF Types
    <2>7. DaemonKnows'
      BY <2>1 DEF DaemonKnows
    <2>8. TameStep
      BY <1>0, <2>1, <2>3, TicketWritten DEF TameStep
    <2> QED
      BY <2>5, <2>6, <2>7, <2>8 DEF QInv
  <1> QED
    BY <1>1, <1>2, <1>3

\* Waiting for an adopted launcher, and the ends of reconciliation.
LEMMA AdoptionKeeps ==
    ASSUME QInv, Adopted \/ Reconciled \/ Pick \/ RunOneStale
    PROVE  QInv' /\ TameStep
  <1>0. /\ DaemonKnows /\ RowsSound /\ daemon.sel \in Ticket \cup {None}
    BY DEF QInv, Types
  <1>1. CASE Adopted
    <2>1. /\ daemon.sel \in Ticket /\ ticket[daemon.sel].state = "running"
          /\ UNCHANGED <<ticket, phase, eligible, lock>> /\ Goto("finalize", daemon.sel)
          /\ daemon.sel \in Owned => ~Live(daemon.sel)
      BY <1>0, <1>1 DEF Adopted, DaemonKnows, gateVars, clientVars
    <2> QED
      BY <2>1, MoveKeeps DEF Counter
  <1>2. CASE Reconciled
    <2>1. /\ \A t \in Ticket : ticket[t].state # "running"
          /\ UNCHANGED <<ticket, phase, eligible, lock>> /\ Goto("loop", None)
      BY <1>2 DEF Reconciled, Running, gateVars, clientVars
    <2>2. \A o \in Owned : Live(o) => ticket[o].blocks
      BY <1>0, <2>1 DEF RowsSound, AdmittedOnce, Ticket
    <2> QED
      BY <2>1, <2>2, MoveKeeps DEF Counter
  <1>3. CASE Pick
    <2>1. PICK t \in Ticket : Goto("picked", t)
      BY <1>3 DEF Pick
    <2>2. /\ daemon.pc = "loop" /\ \A u \in Ticket : ~ticket[u].blocks
          /\ UNCHANGED <<ticket, phase, eligible, lock>>
      BY <1>3 DEF Pick, Blocked, gateVars, clientVars
    <2>3. \A o \in Owned : ~Live(o)
      BY <1>0, <2>2 DEF DaemonKnows, Ticket
    <2> QED
      BY <2>1, <2>2, <2>3, MoveKeeps DEF Counter
  <1>4. CASE RunOneStale
    <2>1. /\ daemon.pc = "picked" /\ UNCHANGED <<ticket, phase, eligible, lock>>
          /\ Goto("loop", None)
      BY <1>4 DEF RunOneStale, gateVars, clientVars
    <2>2. \A o \in Owned : ~Live(o)
      BY <1>0, <2>1 DEF DaemonKnows
    <2> QED
      BY <2>1, <2>2, MoveKeeps DEF Counter
  <1> QED
    BY <1>1, <1>2, <1>3, <1>4

\* The record finalize writes.
LEMMA FinalizedRow ==
    ASSUME QInv, NEW t \in Ticket, ticket[t].state = "running", t \in Owned => ~Live(t)
    PROVE  RowOK(t, Finalized(t)) /\ Tame(t, Finalized(t))
  <1> DEFINE r == Finalized(t)
  <1>1. ticket[t] \in TicketRow
    BY DEF QInv, Types
  <1>2. /\ r \in TicketRow /\ r.launched = ticket[t].launched /\ r.state \in {"done", "failed"}
        /\ r.admitted = ticket[t].admitted /\ r.active = ticket[t].active
        /\ r.keep = ticket[t].keep /\ r.failed = ticket[t].failed
        /\ r.blocks = ticket[t].blocks
    BY <1>1 DEF TicketRow, TicketState, Finalized
  <1> HIDE DEF r
  <1>3. t \in Owned => AdmittedOnce(t) /\ ContextsHonest(t)
    BY DEF QInv, RowsSound
  <1>4. RowOK(t, r)
    BY <1>2, <1>3 DEF RowOK, AdmittedOnce, ContextsHonest
  <1>5. Tame(t, r)
    BY <1>2 DEF Tame
  <1> QED
    BY <1>4, <1>5 DEF r

\* The ends of a ticket: finalized after adoption, requeued, or finalized by the
\* daemon that launched it.
LEMMA EndsKeep ==
    ASSUME QInv, FinalizeAdopted \/ RequeueLost \/ ChildEnds
    PROVE  QInv' /\ TameStep
  <1>0. Types /\ DaemonKnows /\ RowsSound /\ lock \in BOOLEAN
    BY DEF QInv, Types
  <1>1. CASE FinalizeAdopted
    <2>1. PICK t \in Ticket : t = daemon.sel
      BY <1>0, <1>1 DEF FinalizeAdopted, DaemonKnows
    <2>2. /\ ticket[t].state = "running"
          /\ t \in Owned => ~Live(t)
      BY <1>0, <1>1, <2>1 DEF FinalizeAdopted, DaemonKnows
    <2>3. Set(t, Finalized(t)) /\ Goto("reconcile", None) /\ UNCHANGED <<phase, eligible, lock>>
      BY <1>1, <2>1 DEF FinalizeAdopted, gateVars, clientVars
    <2> QED
      BY <1>0, <2>2, <2>3, FinalizedRow, WriteAndLoopKeeps
  <1>2. CASE RequeueLost
    <2>1. PICK t \in Ticket : t = daemon.sel
      BY <1>0, <1>2 DEF RequeueLost, DaemonKnows
    <2> DEFINE r == [ticket[t] EXCEPT !.state = "queued"]
    <2>2. t \in Unowned /\ t \notin Owned /\ ticket[t] \in TicketRow
      BY <1>0, <1>2, <2>1, GateQueueAssumption DEF RequeueLost, DaemonKnows, Types
    <2>3. Set(t, r) /\ Goto("reconcile", None) /\ UNCHANGED <<phase, eligible, lock>>
      BY <1>2, <2>1 DEF RequeueLost, gateVars, clientVars
    <2>4. r \in TicketRow /\ r.launched = ticket[t].launched /\ r.state = "queued"
      BY <2>2 DEF TicketRow, TicketState
    <2> HIDE DEF r
    <2>5. RowOK(t, r) /\ Tame(t, r)
      BY <1>0, <1>2, <2>1, <2>2, <2>4 DEF RowOK, Tame, RequeueLost, DaemonKnows
    <2> QED
      BY <1>0, <2>3, <2>5, WriteAndLoopKeeps
  <1>3. CASE ChildEnds
    <2>1. PICK t \in Ticket : t = daemon.sel
      BY <1>0, <1>3 DEF ChildEnds, DaemonKnows
    <2>2. /\ daemon.pc = "wait" /\ ~Alive(t, ticket[t].launched)
          /\ Goto("loop", None) /\ UNCHANGED <<phase, eligible, lock>>
      BY <1>3, <2>1 DEF ChildEnds, gateVars, clientVars
    <2>3. t \in Owned => ~Live(t)
      <3>1. ASSUME t \in Owned, NEW i \in Launch, Alive(t, i)
            PROVE  FALSE
        <4>1. i <= ticket[t].launched /\ ticket[t].launched <= 1
          BY <1>0, <3>1 DEF RowsSound, Counted, AdmittedOnce
        <4>2. i \in Nat \ {0} /\ ticket[t].launched \in Nat
          BY <1>0, GateQueueAssumption DEF Launch, Types, TicketRow
        <4>3. i = ticket[t].launched
          BY <4>1, <4>2
        <4> QED
          BY <2>2, <3>1, <4>3
      <3> QED
        BY <3>1 DEF Live, Launch
    <2>4. \A o \in Owned : ~Live(o)
      BY <1>0, <2>1, <2>2, <2>3 DEF DaemonKnows
    <2>5. CASE ticket[t].state = "running"
      <3>1. Set(t, Finalized(t))
        BY <1>3, <2>1, <2>5 DEF ChildEnds
      <3> QED
        BY <1>0, <2>2, <2>3, <2>4, <2>5, <3>1, FinalizedRow, WriteAndLoopKeeps
    <2>6. CASE ticket[t].state # "running"
      <3>1. UNCHANGED ticket
        BY <1>3, <2>1, <2>6 DEF ChildEnds
      <3> QED
        BY <2>2, <2>4, <3>1, MoveKeeps DEF Counter
    <2> QED
      BY <2>5, <2>6
  <1> QED
    BY <1>1, <1>2, <1>3

-----------------------------------------------------------------------------
(* Admission and launch *)

\* A ticket found queued leaves the queue without a launch.
LEMMA RefusalsKeep ==
    ASSUME QInv, HoldAtAdmission \/ HeadMoved
    PROVE  QInv' /\ TameStep
  <1>0. Types /\ DaemonKnows /\ RowsSound /\ lock \in BOOLEAN
    BY DEF QInv, Types
  <1>1. /\ daemon.pc = "picked" /\ Goto("loop", None) /\ UNCHANGED <<phase, eligible, lock>>
        /\ ticket[daemon.sel].state = "queued"
    BY DEF HoldAtAdmission, HeadMoved, Selected, gateVars, clientVars
  <1>2. PICK t \in Ticket : t = daemon.sel
    BY <1>0, <1>1 DEF DaemonKnows
  <1>3. ticket[t] \in TicketRow /\ \A o \in Owned : ~Live(o)
    BY <1>0, <1>1 DEF Types, DaemonKnows
  <1>4. t \in Owned => AdmittedOnce(t) /\ ContextsHonest(t)
    BY <1>0 DEF RowsSound
  <1>5. CASE HeadMoved
    <2> DEFINE r == [ticket[t] EXCEPT !.state = "failed"]
    <2>1. Set(t, r)
      BY <1>2, <1>5 DEF HeadMoved
    <2>2. /\ r \in TicketRow /\ r.launched = ticket[t].launched /\ r.state = "failed"
          /\ r.admitted = ticket[t].admitted /\ r.active = ticket[t].active
          /\ r.keep = ticket[t].keep /\ r.failed = ticket[t].failed
      BY <1>3 DEF TicketRow, TicketState
    <2> HIDE DEF r
    <2>3. RowOK(t, r) /\ Tame(t, r)
      BY <1>1, <1>2, <1>3, <1>4, <2>2 DEF RowOK, Tame, AdmittedOnce, ContextsHonest
    <2> QED
      BY <1>0, <1>1, <1>3, <2>1, <2>3, WriteAndLoopKeeps
  <1>6. CASE HoldAtAdmission
    <2>0. t \in Owned
      BY <1>2, <1>6 DEF HoldAtAdmission
    <2>1. PICK answered \in BOOLEAN :
              Set(t, [(IF answered THEN WithStateFailures(ticket[t]) ELSE ticket[t])
                          EXCEPT !.state = "held"])
      BY <1>2, <1>6 DEF HoldAtAdmission
    <2> DEFINE F == IF answered THEN {c \in Asked(ticket[t]) : eligible[c] = "failed"} ELSE {}
               G == ticket[t].failed \cup F
               s == [ticket[t] EXCEPT !.failed = G]
               r == [s EXCEPT !.state = "held"]
    <2>2. F \subseteq Context /\ \A c \in F : eligible[c] = "failed"
      BY <1>3 DEF Asked, TicketRow
    <2>3. Set(t, r)
      <3>1. CASE answered
        BY <2>1, <3>1 DEF WithStateFailures
      <3>2. CASE ~answered
        <4>1. G = ticket[t].failed
          BY <3>2
        <4> HIDE DEF G
        <4>2. s = ticket[t]
          BY <1>3, <4>1 DEF TicketRow
        <4> QED
          BY <2>1, <3>2, <4>2
      <3> QED
        BY <3>1, <3>2
    <2>4. G \in SUBSET Context
      BY <1>3, <2>2 DEF TicketRow
    <2>5. G = ticket[t].failed \cup F
      OBVIOUS
    <2> HIDE DEF F, G
    <2>6. /\ r \in TicketRow /\ r.launched = ticket[t].launched /\ r.state = "held"
          /\ r.admitted = ticket[t].admitted /\ r.active = ticket[t].active
          /\ r.keep = ticket[t].keep /\ r.failed = G
      BY <1>3, <2>4 DEF TicketRow, TicketState
    <2> HIDE DEF r
    <2>7. \A c \in r.active \cap r.failed : eligible[c] = "failed"
      BY <1>4, <2>0, <2>2, <2>5, <2>6 DEF ContextsHonest
    <2>8. RowOK(t, r) /\ Tame(t, r)
      BY <1>1, <1>2, <1>3, <1>4, <2>0, <2>6, <2>7
         DEF RowOK, Tame, AdmittedOnce, ContextsHonest
    <2> QED
      BY <1>0, <1>1, <1>3, <2>3, <2>8, WriteAndLoopKeeps
  <1> QED
    BY <1>5, <1>6

\* What an admission writes: an owned ticket runs for contexts none of which has
\* a recorded failure.
LEMMA AdmitWrites ==
    ASSUME QInv, Admit
    PROVE  \E t \in Ticket, r \in TicketRow :
              /\ t = daemon.sel /\ daemon.pc = "picked" /\ ticket[t].state = "queued"
              /\ Set(t, r) /\ Goto("spawn", t) /\ lock' = TRUE /\ UNCHANGED <<phase, eligible>>
              /\ r.launched = ticket[t].launched /\ r.state = "running"
              /\ t \in Owned => /\ r.admitted /\ r.active \cap r.failed = {}
                                /\ r.keep = "baseline" => r.active = {}
  <1>0. Types /\ DaemonKnows /\ RowsSound
    BY DEF QInv
  <1>1. /\ daemon.pc = "picked" /\ lock' = TRUE /\ UNCHANGED <<phase, eligible>>
        /\ ticket[daemon.sel].state = "queued"
        /\ daemon.sel \in Owned => Admissible(WithStateFailures(ticket[daemon.sel]))
    BY DEF Admit, Selected, gateVars, clientVars
  <1>2. PICK t \in Ticket : t = daemon.sel
    BY <1>0, <1>1 DEF DaemonKnows
  <1>3. ticket[t] \in TicketRow
    BY <1>0 DEF Types
  <1> DEFINE u == IF t \in Owned THEN WithStateFailures(ticket[t]) ELSE ticket[t]
             own == t \in Owned
             r == [u EXCEPT !.state = "running", !.started = TRUE, !.admitted = own,
                            !.executed = own, !.birth = FALSE]
  <1>4. Set(t, r) /\ Goto("spawn", t) /\ own \in BOOLEAN
    BY <1>2 DEF Admit
  <1>5. /\ u \in TicketRow /\ u.launched = ticket[t].launched /\ u.active = ticket[t].active
        /\ u.keep = ticket[t].keep
        /\ t \in Owned => u.failed = ticket[t].failed
                               \cup {c \in Asked(ticket[t]) : eligible[c] = "failed"}
    <2>1. CASE t \notin Owned
      BY <1>3, <2>1
    <2>2. CASE t \in Owned
      <3> DEFINE G == ticket[t].failed \cup {c \in Asked(ticket[t]) : eligible[c] = "failed"}
      <3>1. G \in SUBSET Context
        BY <1>3 DEF Asked, TicketRow
      <3>2. u = [ticket[t] EXCEPT !.failed = G]
        BY <2>2 DEF WithStateFailures
      <3> HIDE DEF G, u
      <3>3. /\ u \in TicketRow /\ u.launched = ticket[t].launched
            /\ u.active = ticket[t].active /\ u.keep = ticket[t].keep /\ u.failed = G
        BY <1>3, <3>1, <3>2 DEF TicketRow
      <3> QED
        BY <3>3 DEF G
    <2> QED
      BY <2>1, <2>2
  <1>6. t \in Owned => u.active \cap u.failed = {} /\ (u.keep = "baseline" => u.active = {})
    <2> SUFFICES ASSUME t \in Owned
                 PROVE  u.active \cap u.failed = {} /\ (u.keep = "baseline" => u.active = {})
      OBVIOUS
    <2>1. Admissible(u) /\ ContextsHonest(t)
      BY <1>0, <1>1, <1>2 DEF RowsSound
    <2>2. ticket[t].active \subseteq Context
      BY <1>3 DEF TicketRow
    <2> HIDE DEF u
    <2>3. CASE u.keep = "baseline"
      BY <1>5, <2>1, <2>3 DEF ContextsHonest
    <2>4. CASE u.keep # "baseline"
      <3>1. \A c \in u.active : eligible[c] = "healthy"
        BY <2>1, <2>4 DEF Admissible, Asked
      <3>2. Asked(ticket[t]) = ticket[t].active
        BY <1>5, <2>4 DEF Asked
      <3> QED
        BY <1>5, <2>1, <2>4, <3>1, <3>2 DEF ContextsHonest
    <2> QED
      BY <2>3, <2>4
  <1> HIDE DEF u, own
  <1>7. /\ r \in TicketRow /\ r.launched = u.launched /\ r.state = "running"
        /\ r.admitted = own /\ r.active = u.active /\ r.failed = u.failed
        /\ r.keep = u.keep
    BY <1>4, <1>5 DEF TicketRow, TicketState
  <1>8. t \in Owned => r.admitted
    BY <1>7 DEF own
  <1> HIDE DEF r
  <1>9. /\ t = daemon.sel /\ daemon.pc = "picked" /\ ticket[t].state = "queued"
        /\ Set(t, r) /\ Goto("spawn", t) /\ lock' = TRUE /\ UNCHANGED <<phase, eligible>>
        /\ r.launched = ticket[t].launched /\ r.state = "running"
        /\ t \in Owned => /\ r.admitted /\ r.active \cap r.failed = {}
                          /\ r.keep = "baseline" => r.active = {}
    BY <1>1, <1>2, <1>4, <1>5, <1>6, <1>7, <1>8
  <1> QED
    BY <1>7, <1>9

\* run_one admits the ticket under the lock.
LEMMA AdmitKeeps ==
    ASSUME QInv, Admit
    PROVE  QInv'
  <1>0. Types /\ DaemonKnows /\ RowsSound
    BY DEF QInv
  <1>1. PICK t \in Ticket, r \in TicketRow :
              /\ t = daemon.sel /\ daemon.pc = "picked" /\ ticket[t].state = "queued"
              /\ Set(t, r) /\ Goto("spawn", t) /\ lock' = TRUE /\ UNCHANGED <<phase, eligible>>
              /\ r.launched = ticket[t].launched /\ r.state = "running"
              /\ t \in Owned => /\ r.admitted /\ r.active \cap r.failed = {}
                                /\ r.keep = "baseline" => r.active = {}
    BY AdmitWrites
  <1>2. RowOK(t, r)
    BY <1>1 DEF RowOK
  <1>3. RowsSound'
    BY <1>0, <1>1, <1>2, WriteKeepsRows
  <1>4. /\ ticket' \in [Ticket -> TicketRow] /\ ticket'[t] = r
    BY <1>0, <1>1, TicketWritten
  <1>5. daemon' = [pc |-> "spawn", sel |-> t] /\ daemon'.pc = "spawn" /\ daemon'.sel = t
    BY <1>1 DEF Goto
  <1>6. Types'
    BY <1>0, <1>1, <1>4, <1>5 DEF Types, Counter
  <1>7. \A o \in Owned : ~Live(o)'
    BY <1>0, <1>1, SamePhasesSameLife DEF DaemonKnows
  <1>8. t \in Owned => r.launched = 0
    <2>1. t \in Owned => ~ticket[t].admitted
      BY <1>0, <1>1 DEF RowsSound, AdmittedOnce
    <2> QED
      BY <1>1, <2>1, UnadmittedIsDead
  <1>9. DaemonKnows'
    BY <1>1, <1>4, <1>5, <1>7, <1>8 DEF DaemonKnows
  <1> QED
    BY <1>3, <1>6, <1>9 DEF QInv

\* The launcher is started: the one step that makes a ticket live.
LEMMA SpawnKeeps ==
    ASSUME QInv, Spawn
    PROVE  /\ QInv'
           /\ \E t \in Ticket : /\ daemon.pc = "spawn" /\ t = daemon.sel
                                /\ \A u \in Ticket \ {t} : ticket'[u] = ticket[u]
                                /\ ticket'[t].state = ticket[t].state
                                /\ ticket'[t].admitted = ticket[t].admitted
  <1>0. Types /\ DaemonKnows /\ RowsSound /\ daemon.pc = "spawn" /\ lock' \in BOOLEAN
    BY DEF QInv, Spawn
  <1>1. PICK t \in Ticket : t = daemon.sel
    BY <1>0 DEF DaemonKnows
  <1>2. ticket[t] \in TicketRow /\ ticket[t].state = "running"
    BY <1>0, <1>1 DEF Types, DaemonKnows
  <1>3. PICK i \in Nat : i = ticket[t].launched + 1
    BY <1>2, GateQueueAssumption DEF TicketRow
  <1> DEFINE r == [ticket[t] EXCEPT !.launched = i]
             pc == IF t \in Owned THEN "identify" ELSE "wait"
  <1>4. /\ i <= MaxLaunches /\ phase' = [phase EXCEPT ![t][i] = "starting"] /\ Set(t, r)
        /\ Goto(pc, t) /\ lock' = (t \in Owned) /\ UNCHANGED eligible
    BY <1>1, <1>3 DEF Spawn, clientVars
  <1>5. i \in Launch /\ i \in 0..MaxLaunches /\ ticket[t].launched \in Nat /\ ticket[t].launched < i
    BY <1>2, <1>3, <1>4, GateQueueAssumption DEF TicketRow, Launch
  <1>6. /\ r \in TicketRow /\ r.launched = i /\ r.state = ticket[t].state
        /\ r.admitted = ticket[t].admitted /\ r.active = ticket[t].active
        /\ r.keep = ticket[t].keep /\ r.failed = ticket[t].failed /\ r.blocks = ticket[t].blocks
    BY <1>2, <1>5 DEF TicketRow
  <1> HIDE DEF r
  <1>7. /\ ticket' \in [Ticket -> TicketRow] /\ ticket'[t] = r
        /\ \A u \in Ticket \ {t} : ticket'[u] = ticket[u]
    BY <1>0, <1>4, <1>6, TicketWritten
  <1>8. /\ phase' \in [Ticket -> [Launch -> PhaseName]]
        /\ \A u \in Ticket, j \in Launch : (u # t \/ j # i) => phase'[u][j] = phase[u][j]
    BY <1>0, <1>4, <1>5 DEF Types, PhaseName
  <1>9. \A u \in Ticket, j \in Launch : Alive(u, j)' => Alive(u, j) \/ (u = t /\ j = i)
    BY <1>8 DEF Alive
  <1>10. \A u \in Ticket \ {t} : Live(u)' => Live(u)
    BY <1>9 DEF Live, Launch
  <1>11. ASSUME NEW u \in Ticket PROVE Counted(u)'
    <2>1. Counted(u)
      BY <1>0 DEF RowsSound
    <2>2. CASE u # t
      BY <1>7, <1>9, <2>1, <2>2 DEF Counted
    <2>3. CASE u = t
      <3>1. \A j \in Launch : Alive(t, j)' => j <= i
        <4> SUFFICES ASSUME NEW j \in Launch, Alive(t, j)' PROVE j <= i
          OBVIOUS
        <4>1. j = i \/ j <= ticket[t].launched
          BY <1>9, <2>1, <2>3 DEF Counted
        <4>2. j \in Nat
          BY GateQueueAssumption DEF Launch
        <4> QED
          BY <1>5, <4>1, <4>2
      <3> QED
        BY <1>2, <1>6, <1>7, <2>3, <3>1 DEF Counted
    <2> QED
      BY <2>2, <2>3
  <1>12. ASSUME NEW u \in Owned PROVE AdmittedOnce(u)' /\ ContextsHonest(u)'
    <2>1. u \in Ticket /\ AdmittedOnce(u) /\ ContextsHonest(u)
      BY <1>0 DEF RowsSound, Ticket
    <2>2. CASE u # t
      BY <1>4, <1>7, <1>10, <2>1, <2>2 DEF AdmittedOnce, ContextsHonest
    <2>3. CASE u = t
      <3>1. i = 1
        BY <1>0, <1>1, <1>3, <2>3 DEF DaemonKnows
      <3> QED
        BY <1>2, <1>4, <1>6, <1>7, <2>1, <2>3, <3>1 DEF AdmittedOnce, ContextsHonest
    <2> QED
      BY <2>2, <2>3
  <1>13. /\ daemon' = [pc |-> pc, sel |-> t] /\ daemon'.pc = pc /\ daemon'.sel = t
         /\ pc \in {"identify", "wait"} /\ (pc = "identify" => lock')
    BY <1>4 DEF Goto
  <1> HIDE DEF pc
  <1>14. Types'
    BY <1>0, <1>4, <1>7, <1>8, <1>13 DEF Types, Counter
  <1>15. \A o \in Owned : Live(o)' => o = t
    BY <1>0, <1>10 DEF DaemonKnows, Ticket
  <1>16. DaemonKnows'
    BY <1>13, <1>15 DEF DaemonKnows
  <1> QED
    BY <1>0, <1>1, <1>6, <1>7, <1>11, <1>12, <1>14, <1>16 DEF QInv, RowsSound

\* The launcher cannot be started, or its identity is recorded.
LEMMA LaunchEndsKeep ==
    ASSUME QInv, SpawnFails \/ Identify
    PROVE  QInv' /\ TameStep
  <1>0. Types /\ DaemonKnows /\ RowsSound /\ daemon.pc \in {"spawn", "identify"}
    BY DEF QInv, SpawnFails, Identify
  <1>1. PICK t \in Ticket : t = daemon.sel
    BY <1>0 DEF DaemonKnows
  <1>2. /\ ticket[t] \in TicketRow
        /\ t \in Owned => AdmittedOnce(t) /\ ContextsHonest(t)
    BY <1>0 DEF Types, RowsSound
  <1>3. CASE SpawnFails
    <2> DEFINE r == [ticket[t] EXCEPT !.state = "failed", !.executed = FALSE]
    <2>1. /\ Set(t, r) /\ Goto("loop", None) /\ lock' = FALSE /\ UNCHANGED <<phase, eligible>>
          /\ ticket[t].state = "running" /\ \A o \in Owned : ~Live(o)
      BY <1>0, <1>1, <1>3 DEF SpawnFails, DaemonKnows, gateVars, clientVars
    <2>2. /\ r \in TicketRow /\ r.launched = ticket[t].launched /\ r.state = "failed"
          /\ r.admitted = ticket[t].admitted /\ r.active = ticket[t].active
          /\ r.keep = ticket[t].keep /\ r.failed = ticket[t].failed
      BY <1>2 DEF TicketRow, TicketState
    <2> HIDE DEF r
    <2>3. RowOK(t, r) /\ Tame(t, r)
      BY <1>2, <2>1, <2>2 DEF RowOK, Tame, AdmittedOnce, ContextsHonest
    <2> QED
      BY <2>1, <2>3, WriteAndLoopKeeps
  <1>4. CASE Identify
    <2>0. PICK b \in BOOLEAN : b = Live(t)
      BY DEF Live
    <2> DEFINE r == [ticket[t] EXCEPT !.birth = b]
    <2>1. /\ Set(t, r) /\ Goto("wait", t) /\ lock' = FALSE /\ UNCHANGED <<phase, eligible>>
          /\ \A o \in Owned : Live(o) => o = t
      BY <1>0, <1>1, <1>4, <2>0 DEF Identify, DaemonKnows, gateVars, clientVars
    <2>2. /\ r \in TicketRow /\ r.launched = ticket[t].launched /\ r.state = ticket[t].state
          /\ r.admitted = ticket[t].admitted /\ r.active = ticket[t].active
          /\ r.keep = ticket[t].keep /\ r.failed = ticket[t].failed
          /\ r.blocks = ticket[t].blocks
      BY <1>2 DEF TicketRow
    <2> HIDE DEF r
    <2>3. RowOK(t, r) /\ Tame(t, r)
      BY <1>0, <1>2, <2>2 DEF RowOK, Tame, AdmittedOnce, ContextsHonest, RowsSound, Counted
    <2>4. RowsSound'
      BY <1>0, <2>1, <2>3, WriteKeepsRows
    <2>5. /\ ticket' \in [Ticket -> TicketRow] /\ ticket'[t] = r
          /\ \A u \in Ticket \ {t} : ticket'[u] = ticket[u]
      BY <1>0, <2>1, <2>2, TicketWritten
    <2>6. daemon' = [pc |-> "wait", sel |-> t] /\ daemon'.pc = "wait" /\ daemon'.sel = t
      BY <2>1 DEF Goto
    <2>7. Types'
      BY <1>0, <2>1, <2>5, <2>6 DEF Types, Counter
    <2>8. DaemonKnows'
      BY <2>1, <2>6, SamePhasesSameLife DEF DaemonKnows
    <2>9. TameStep
      BY <2>2, <2>5 DEF TameStep
    <2> QED
      BY <2>4, <2>7, <2>8, <2>9 DEF QInv
  <1> QED
    BY <1>3, <1>4

-----------------------------------------------------------------------------
(* The invariant *)

\* The invariant holds of an empty queue.
LEMMA QInvInit == Init => QInv
  <1> SUFFICES ASSUME Init PROVE QInv
    OBVIOUS
  <1>1. \A t \in Ticket : ticket[t] = Record("absent", {})
    BY DEF Init
  <1>2. /\ Record("absent", {}) \in TicketRow /\ Record("absent", {}).launched = 0
        /\ Record("absent", {}).state = "absent" /\ ~Record("absent", {}).admitted
        /\ Record("absent", {}).active = {}
    BY GateQueueAssumption DEF Record, TicketRow, TicketState
  <1>3. \A t \in Ticket, i \in Launch : ~Alive(t, i)
    BY DEF Init, Alive, Launch
  <1>4. Types
    BY <1>1, <1>2 DEF Init, Types, Launch, PhaseName, Counter
  <1>5. \A t \in Ticket : Counted(t) /\ ~Live(t)
    BY <1>1, <1>2, <1>3 DEF Counted, Live, Launch
  <1>6. \A t \in Owned : AdmittedOnce(t) /\ ContextsHonest(t)
    BY <1>1, <1>2, <1>5 DEF AdmittedOnce, ContextsHonest, Ticket
  <1>7. DaemonKnows
    BY DEF Init, DaemonKnows
  <1> QED
    BY <1>4, <1>5, <1>6, <1>7 DEF QInv, RowsSound

\* Each step is tame, or admits the daemon's ticket, or starts its launcher.
LEMMA QStep ==
    ASSUME QInv, [Next]_vars
    PROVE  QInv' /\ (TameStep \/ Admit \/ Spawn)
  <1>1. CASE UNCHANGED vars
    <2>1. /\ UNCHANGED <<ticket, daemon, lock, phase, eligible>>
          /\ phase \in [Ticket -> [Launch -> PhaseName]]
          /\ eligible \in [Context -> {"healthy", "failed"}]
      BY <1>1 DEF vars, QInv, Types
    <2> QED
      BY <2>1, OutsideKeeps, SamePhasesSameLife
  <1>2. CASE DaemonStep
    BY <1>2, AdoptionKeeps, EndsKeep, FaultsKeep, RefusalsKeep, AdmitKeeps, SpawnKeeps,
       LaunchEndsKeep, ReconcileKeeps DEF DaemonStep
  <1>3. CASE Start \/ Crash \/ Reboot \/ Stop
    BY <1>3, FaultsKeep
  <1> QED
    BY <1>1, <1>2, <1>3, GateStepKeeps, ClientStepKeeps DEF Next

\* The invariant holds throughout.
LEMMA QInvariance == Spec => []QInv
  <1>1. QInv /\ [Next]_vars => QInv'
    BY QStep
  <1> QED
    BY <1>1, QInvInit, PTL DEF Spec

\* An owned ticket is launched at most once, and while its launcher lives its
\* record says running or keeps the queue closed, whatever dies in between
\* (reconcile holds what it cannot adopt; decide refuses admitted tickets).
THEOREM LaunchesAreAccounted == Spec => []OwnedLaunchIsAccounted
  <1>1. QInv => OwnedLaunchIsAccounted
    BY DEF QInv, RowsSound, AdmittedOnce, OwnedLaunchIsAccounted
  <1> QED
    BY <1>1, QInvariance, PTL

\* A launch starts no cancelled ticket, and none while an owned launcher lives
\* (run_one decides under the lock on the record it reads there).
THEOREM LaunchesExclude == Spec => LaunchesAreExclusive
  <1>1. ASSUME QInv, [Next]_vars, NEW t \in Ticket, ticket'[t].launched > ticket[t].launched
        PROVE  ticket[t].state = "running" /\ \A o \in Owned : ~Live(o)
    <2>1. ticket[t].launched \in Nat
      BY <1>1, GateQueueAssumption DEF QInv, Types, TicketRow
    <2>2. ticket'[t].launched # ticket[t].launched
      BY <1>1, <2>1
    <2>3. CASE TameStep
      BY <2>2, <2>3 DEF TameStep
    <2>4. CASE Admit
      <3>1. PICK u \in Ticket, r \in TicketRow :
                r.launched = ticket[u].launched /\ Set(u, r)
        BY <1>1, <2>4, AdmitWrites
      <3>2. u # t => ticket'[t] = ticket[t]
        BY <1>1, <3>1, TicketWritten DEF QInv
      <3>3. u = t => ticket'[t] = r
        BY <1>1, <3>1, TicketWritten DEF QInv
      <3> QED
        BY <2>2, <3>1, <3>2, <3>3
    <2>5. CASE Spawn
      BY <1>1, <2>2, <2>5, SpawnKeeps DEF QInv, DaemonKnows
    <2> QED
      BY <1>1, <2>3, <2>4, <2>5, QStep
  <1>2. QInv /\ [Next]_vars => [ \A t \in Ticket :
            ticket'[t].launched > ticket[t].launched =>
                /\ ticket[t].state = "running"
                /\ \A o \in Owned : ~Live(o) ]_vars
    BY <1>1
  <1> QED
    BY <1>2, QInvariance, PTL DEF Spec, LaunchesAreExclusive

\* A ticket withdrawn before its admission stays withdrawn and is not launched
\* (decide and report-context leave cancelled tickets alone, run_one re-reads).
THEOREM CancellationIsFinal == Spec => CancelledIsFinal
  <1>1. ASSUME QInv, [Next]_vars, NEW t \in Ticket, ticket[t].state = "cancelled"
        PROVE  ticket'[t].state = "cancelled" /\ ticket'[t].launched = ticket[t].launched
    <2>1. CASE TameStep
      BY <1>1, <2>1 DEF TameStep
    <2>2. CASE Admit
      <3>1. PICK u \in Ticket, r \in TicketRow : ticket[u].state = "queued" /\ Set(u, r)
        BY <1>1, <2>2, AdmitWrites
      <3>2. u # t /\ ticket'[t] = ticket[t]
        BY <1>1, <3>1, TicketWritten DEF QInv
      <3> QED
        BY <1>1, <3>2
    <2>3. CASE Spawn
      <3>1. PICK u \in Ticket : /\ daemon.pc = "spawn" /\ u = daemon.sel
                                /\ \A v \in Ticket \ {u} : ticket'[v] = ticket[v]
        BY <1>1, <2>3, SpawnKeeps
      <3>2. u # t
        BY <1>1, <3>1 DEF QInv, DaemonKnows
      <3> QED
        BY <1>1, <3>1, <3>2
    <2> QED
      BY <1>1, <2>1, <2>2, <2>3, QStep
  <1>2. QInv /\ [Next]_vars => [ \A t \in Ticket : ticket[t].state = "cancelled" =>
            ticket'[t].state = "cancelled" /\ ticket'[t].launched = ticket[t].launched ]_vars
    BY <1>1
  <1> QED
    BY <1>2, QInvariance, PTL DEF Spec, CancelledIsFinal

\* No ticket is admitted for a context whose failure is recorded, by a decision
\* or by the answer of State that admission_snapshot reads.
THEOREM FailuresExcludeContexts == Spec => FailedContextsNotAdmitted
  <1>1. ASSUME QInv, [Next]_vars, NEW t \in Owned, ticket'[t].admitted, ~ticket[t].admitted
        PROVE  ticket'[t].active \cap ticket'[t].failed = {}
    <2>0. t \in Ticket
      BY DEF Ticket
    <2>1. CASE TameStep
      BY <1>1, <2>0, <2>1 DEF TameStep
    <2>2. CASE Admit
      <3>1. PICK u \in Ticket, r \in TicketRow :
                Set(u, r) /\ (u \in Owned => r.active \cap r.failed = {})
        BY <1>1, <2>2, AdmitWrites
      <3> QED
        BY <1>1, <2>0, <3>1, TicketWritten DEF QInv
    <2>3. CASE Spawn
      BY <1>1, <2>0, <2>3, SpawnKeeps
    <2> QED
      BY <1>1, <2>1, <2>2, <2>3, QStep
  <1>2. QInv /\ [Next]_vars => [ \A t \in Owned :
            ticket'[t].admitted /\ ~ticket[t].admitted =>
                ticket'[t].active \cap ticket'[t].failed = {} ]_vars
    BY <1>1
  <1> QED
    BY <1>2, QInvariance, PTL DEF Spec, FailedContextsNotAdmitted

=============================================================================
