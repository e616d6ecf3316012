-------------------------- MODULE StepClaimsProofs --------------------------
(***************************************************************************)
(* Theorems about StepClaims, for any number of steps, retries, deaths of  *)
(* the server and cancelled ticks.                                         *)
(*                                                                         *)
(* The first invariant ties effects, threads and the tick to the recorded  *)
(* operation.  The second keeps accounts: every retry of a claimed step is *)
(* charged to an execution that raised, so that a step which runs out of   *)
(* retries has raised more often than its budget.                          *)
(***************************************************************************)
EXTENDS StepClaims, FiniteSetTheorems, TLAPS

ThreadPhase == {"none", "work", "op", "settling", "broken",
                "returned", "raised", "gaveup", "refused"}
TickPhase == {"idle", "started", "advance", "advancing", "tool", "toClaim", "claiming",
              "noClaim", "executing", "delivering", "settling"}
RunRecord == [status : {"running", "completed", "failed"}, cancel : BOOLEAN, node : Nat]
TickRecord == [phase : TickPhase, node : Nat, epoch : Nat]
Row == [status : {"pending", "claimed", "completed", "failed"},
        epoch : Nat, by : Nat, retries : Nat]

TypeOK ==
    /\ run \in RunRecord
    /\ rows \in [Node -> Row]
    /\ op \in Operation \cup {None}
    /\ effects \in SUBSET Operation
    /\ thread \in [Token -> ThreadPhase]
    /\ tick \in TickRecord
    /\ gen \in Nat
    /\ up \in BOOLEAN

\* Where a thread is within its operation.
Busy == {"op", "settling", "broken"}

\* An effect going on is recorded, and so is the operation a thread, or a tick
\* that delivers, is in the middle of; only its owner's death parts them.
Recorded ==
    /\ \A f \in effects : f = op
    /\ \A t \in Token : thread[t] \in Busy =>
          /\ up /\ op \in Operation /\ op.by = gen
          /\ op.node = t[1] /\ op.epoch = t[2] /\ op.kind # "delivery"
    /\ \A t \in Token : thread[t] \in {"settling", "broken"} => effects = {}
    /\ tick.phase \in {"delivering", "settling"} =>
          op \in Operation /\ op.by = gen /\ op.kind = "delivery"
    /\ tick.phase = "settling" => effects = {}
    /\ tick.phase # "idle" => up
    /\ \A t \in Token : thread[t] = "work" => up

\* Only the step the run is at is ever claimed, and the tick that claims or
\* delivers it does so with no inline tool on its way.
AtOneStep ==
    /\ \A n \in Node : rows[n].status = "claimed" => n = run.node
    /\ \A t \in Token : thread[t] = "op" /\ t[1] \in Tool => t[1] = run.node
    /\ \A t \in Token : thread[t] = "work" => t[1] \notin Tool
    /\ tick.phase \in {"tool", "executing", "delivering"} => tick.node = run.node
    /\ tick.phase \in {"tool", "claiming", "executing", "delivering"} =>
          \A t \in Token : thread[t] \in Busy => t[1] \notin Tool

IInv == TypeOK /\ Recorded /\ AtOneStep /\ StopIsTruthful

\* A token is a step and an epoch.
LEMMA TokenPairs == \A t \in Token : t[1] \in Node /\ t[2] \in Epoch /\ t = <<t[1], t[2]>>
  BY DEF Token

\* The invariant holds of a run not yet ticked.
LEMMA IInvInit == Init => IInv
  BY StepAssumption DEF Init, IInv, TypeOK, Recorded, AtOneStep, StopIsTruthful, Row, Idle,
     ThreadPhase, RunRecord, TickRecord, TickPhase, Busy, Node

-----------------------------------------------------------------------------
(* What the engine's helpers do to the run and its rows *)

Quiet == \A n \in Node : rows[n].status # "claimed"

\* The run stays where it is, no step becomes claimed, and the run only ends
\* cancelled with no step claimed.
Winds ==
    /\ run' \in RunRecord
    /\ rows' \in [Node -> Row]
    /\ run'.node = run.node
    /\ \A n \in Node : rows'[n].status = "claimed" => rows[n].status = "claimed"
    /\ run'.cancel /\ run'.status = "failed" => Quiet' \/ (run.cancel /\ run.status = "failed")

\* A step that leaves run and rows alone.
LEMMA StayingWinds == ASSUME TypeOK, UNCHANGED <<run, rows>> PROVE Winds
  BY DEF TypeOK, Winds

\* Closing a run leaves no row claimed.
LEMMA ClosedRows == ASSUME TypeOK PROVE /\ Closed \in [Node -> Row]
                                        /\ \A n \in Node : Closed[n].status # "claimed"
  BY DEF TypeOK, Closed, Row

\* The reaper only takes claims away.
LEMMA ReapedRows ==
    ASSUME TypeOK
    PROVE  /\ Reaped \in [Node -> Row]
           /\ \A n \in Node : Reaped[n].status = "claimed" => rows[n].status = "claimed"
  BY DEF TypeOK, Reaped, Row

\* The reaper, as one of those steps.
LEMMA ReapingWinds == ASSUME TypeOK, rows' = Reaped, UNCHANGED run PROVE Winds
  BY ReapedRows DEF TypeOK, Winds

\* Retiring an operation finishes a requested stop, or changes no row.
LEMMA RetireOpWinds == ASSUME TypeOK, RetireOp PROVE Winds
  <1>1. CASE run.cancel /\ Running
    BY <1>1, ClosedRows DEF RetireOp, TypeOK, RunRecord, Winds, Quiet, Running
  <1>2. CASE ~(run.cancel /\ Running)
    BY <1>2, StayingWinds DEF RetireOp
  <1> QED
    BY <1>1, <1>2

\* Failing a run ends it only with no operation unsettled.
LEMMA FailRunWinds ==
    ASSUME TypeOK, FailRun, Running
    PROVE  Winds /\ (run'.status = "failed" => op = None)
  BY ClosedRows DEF FailRun, TypeOK, RunRecord, Winds, Quiet, Running

\* Failing a step retries it or fails the run, never a run under a stop.
LEMMA FailStepWinds ==
    ASSUME TypeOK, NEW t \in Token, NEW b, FailStep(t, b)
    PROVE  Winds /\ (run'.cancel /\ run'.status = "failed" => run' = run)
  <1> DEFINE Ignored == ~Running \/ run.cancel \/ rows[t[1]].epoch # t[2]
             Again == b /\ rows[t[1]].retries < MaxRetries
  <1>1. t[1] \in Node
    BY TokenPairs
  <1>2. CASE Ignored
    BY <1>2, StayingWinds DEF FailStep
  <1>3. CASE ~Ignored /\ Again
    BY <1>1, <1>3 DEF FailStep, TypeOK, Winds, Row
  <1>4. CASE ~Ignored /\ ~Again
    <2>1. rows' = [rows EXCEPT ![t[1]].status = "failed"] /\ run' = [run EXCEPT !.status = "failed"]
      BY <1>4 DEF FailStep
    <2>2. ~run'.cancel
      BY <1>4, <2>1 DEF TypeOK, RunRecord
    <2> QED
      BY <1>1, <2>1, <2>2 DEF TypeOK, Winds, Row, RunRecord
  <1> QED
    BY <1>2, <1>3, <1>4

\* One thread's phase is set.
LEMMA Setting ==
    ASSUME TypeOK, NEW t, NEW x \in ThreadPhase, Set(t, x)
    PROVE  /\ thread' \in [Token -> ThreadPhase]
           /\ \A u \in Token : thread'[u] = IF u = t THEN x ELSE thread[u]
  BY DEF TypeOK, Set

\* The operation an admission records.
LEMMA Admitting ==
    ASSUME TypeOK, NEW t, t[1] \in Nat, t[2] \in Nat,
           NEW kind \in {"tool", "tool_step", "delivery"}, Admit(t, kind)
    PROVE  /\ op' \in Operation
           /\ op'.node = t[1] /\ op'.epoch = t[2] /\ op'.kind = kind /\ op'.by = gen
           /\ effects' = effects \cup {op'}
  BY DEF TypeOK, Admit, Operation

-----------------------------------------------------------------------------
\* The steps of the tick that belong to no claim.
LEMMA TickKeeps ==
    ASSUME IInv, \/ Dispatch \/ CheckActive \/ Advance \/ Preflight \/ NoClaim \/ Settle
    PROVE  IInv'
  <1> USE StepAssumption, TokenPairs DEF IInv, engine, process
  <1>1. ASSUME Dispatch PROVE IInv'
    <2>1. Winds
      BY <1>1, StayingWinds DEF Dispatch
    <2>2. TypeOK'
      BY <1>1, <2>1
         DEF Dispatch, Winds, Quiet, TypeOK, Row, RunRecord, ThreadPhase, TickRecord,
             TickPhase, Operation, Node, At, Idle
    <2>3. Recorded'
      BY <1>1, <2>1
         DEF Dispatch, Winds, Quiet, TypeOK, TickRecord, TickPhase, Recorded, Busy,
             ThreadPhase, At, Idle, Holding
    <2>4. AtOneStep'
      BY <1>1, <2>1
         DEF Dispatch, Winds, Quiet, TypeOK, TickRecord, TickPhase, RunRecord,
             Recorded, AtOneStep, Busy, ThreadPhase, Row, Node, At, Idle, Holding
    <2>5. StopIsTruthful'
      BY <1>1, <2>1
         DEF Dispatch, Winds, Quiet, TypeOK, RunRecord, Recorded, AtOneStep,
             StopIsTruthful, Running
    <2> QED
      BY <2>2, <2>3, <2>4, <2>5
  <1>2. ASSUME CheckActive PROVE IInv'
    <2>1. Winds /\ (run' = run \/ (run'.status = "failed" => op = None))
      BY <1>2, StayingWinds, FailRunWinds DEF CheckActive
    <2>2. effects' = effects /\ op' = op /\ thread' = thread /\ up' = up /\ gen' = gen
      BY <1>2 DEF CheckActive
    <2>3. tick' \in TickRecord /\ tick'.phase \in {"idle", "advance"} /\ (tick'.phase = "advance" => tick.phase # "idle")
      BY <1>2 DEF CheckActive, TypeOK, TickRecord, TickPhase, At, Idle
    <2>4. TypeOK'
      BY <2>1, <2>2, <2>3 DEF Winds, TypeOK
    <2>5. Recorded'
      BY <1>2, <2>1, <2>2, <2>3
         DEF CheckActive, Winds, Quiet, TypeOK, TickRecord, TickPhase, Recorded, Busy,
             ThreadPhase, At, Idle, Holding
    <2>6. AtOneStep'
      BY <1>2, <2>1, <2>2, <2>3
         DEF CheckActive, Winds, Quiet, TypeOK, TickRecord, TickPhase, RunRecord,
             Recorded, AtOneStep, Busy, ThreadPhase, Row, Node, At, Idle, Holding
    <2>7. StopIsTruthful'
      BY <1>2, <2>1, <2>2, <2>3
         DEF CheckActive, Winds, Quiet, TypeOK, RunRecord, Recorded, AtOneStep,
             StopIsTruthful, Running
    <2> QED
      BY <2>4, <2>5, <2>6, <2>7
  <1>3. ASSUME Advance PROVE IInv'
    <2>1. /\ run' \in RunRecord
          /\ run'.node = run.node /\ (run'.status = "failed" => run' = run)
      BY <1>3 DEF Advance, TypeOK, RunRecord
    <2>2. /\ rows' \in [Node -> Row]
          /\ \A n \in Node : rows'[n].status = "claimed" => rows[n].status = "claimed"
      BY <1>3, ReapedRows DEF Advance, TypeOK
    <2>3. /\ tick' \in TickRecord
          /\ tick'.phase \in {"idle", "toClaim", "tool"}
          /\ tick'.phase = "tool" => op = None /\ tick'.node = run.node
      <3>1. CASE tick' \in {At("toClaim"), Idle}
        BY <3>1 DEF TypeOK, TickRecord, TickPhase, At, Idle
      <3>2. CASE op = None /\ run.node \in Tool
                 /\ tick' = [phase |-> "tool", node |-> run.node, epoch |-> rows[run.node].epoch + 1]
        <4>1. run.node \in Node /\ run.node \in Nat /\ rows[run.node] \in Row
          BY <3>2 DEF TypeOK, RunRecord, Node
        <4>2. rows[run.node].epoch + 1 \in Nat
          BY <4>1 DEF Row
        <4> QED
          BY <3>2, <4>1, <4>2 DEF TickRecord, TickPhase
      <3> QED
        BY <1>3, <3>1, <3>2 DEF Advance
    <2>4. effects' = effects /\ op' = op /\ thread' = thread /\ up' = up /\ gen' = gen
      BY <1>3 DEF Advance
    <2>5. TypeOK'
      BY <2>1, <2>2, <2>3, <2>4 DEF TypeOK
    <2>6. Recorded'
      BY <1>3, <2>3, <2>4 DEF Advance, TypeOK, Recorded, Busy
    <2>7. AtOneStep'
      BY <2>1, <2>2, <2>3, <2>4 DEF TypeOK, Recorded, AtOneStep, Busy
    <2>8. StopIsTruthful'
      BY <2>1, <2>2, <2>4 DEF TypeOK, StopIsTruthful
    <2> QED
      BY <2>5, <2>6, <2>7, <2>8
  <1>4. ASSUME Preflight PROVE IInv'
    <2>1. Winds
      BY <1>4, StayingWinds DEF Preflight
    <2>2. TypeOK'
      BY <1>4, <2>1
         DEF Preflight, Winds, Quiet, TypeOK, Row, RunRecord, ThreadPhase, TickRecord,
             TickPhase, Operation, Node, At, Idle
    <2>3. Recorded'
      BY <1>4, <2>1
         DEF Preflight, Winds, Quiet, TypeOK, TickRecord, TickPhase, Recorded, Busy,
             ThreadPhase, At, Idle, Holding
    <2>4. AtOneStep'
      BY <1>4, <2>1
         DEF Preflight, Winds, Quiet, TypeOK, TickRecord, TickPhase, RunRecord,
             Recorded, AtOneStep, Busy, ThreadPhase, Row, Node, At, Idle, Holding
    <2>5. StopIsTruthful'
      BY <1>4, <2>1
         DEF Preflight, Winds, Quiet, TypeOK, RunRecord, Recorded, AtOneStep,
             StopIsTruthful, Running
    <2> QED
      BY <2>2, <2>3, <2>4, <2>5
  <1>5. ASSUME NoClaim PROVE IInv'
    <2>1. Winds /\ (run' = run \/ (run'.status = "failed" => op = None))
      BY <1>5, StayingWinds, FailRunWinds DEF NoClaim
    <2>2. effects' = effects /\ op' = op /\ thread' = thread
      BY <1>5 DEF NoClaim
    <2>3. TypeOK'
      BY <1>5, <2>1, <2>2
         DEF NoClaim, Winds, Quiet, TypeOK, Row, RunRecord, ThreadPhase, TickRecord,
             TickPhase, Operation, Node, At, Idle
    <2>4. Recorded'
      BY <1>5, <2>1, <2>2
         DEF NoClaim, Winds, Quiet, TypeOK, TickRecord, TickPhase, Recorded, Busy,
             ThreadPhase, At, Idle, Holding
    <2>5. AtOneStep'
      BY <1>5, <2>1, <2>2
         DEF NoClaim, Winds, Quiet, TypeOK, TickRecord, TickPhase, RunRecord,
             Recorded, AtOneStep, Busy, ThreadPhase, Row, Node, At, Idle, Holding
    <2>6. StopIsTruthful'
      BY <1>5, <2>1, <2>2
         DEF NoClaim, Winds, Quiet, TypeOK, RunRecord, Recorded, AtOneStep,
             StopIsTruthful, Running
    <2> QED
      BY <2>3, <2>4, <2>5, <2>6
  <1>6. ASSUME Settle PROVE IInv'
    <2>1. Winds
      BY <1>6, RetireOpWinds DEF Settle
    <2>2. TypeOK'
      BY <1>6, <2>1
         DEF Settle, RetireOp, Winds, Quiet, TypeOK, Row, RunRecord, ThreadPhase,
             TickRecord, TickPhase, Operation, Node, At, Idle
    <2>3. Recorded'
      BY <1>6, <2>1
         DEF Settle, RetireOp, Winds, Quiet, TypeOK, TickRecord, TickPhase, Recorded,
             Busy, ThreadPhase, At, Idle, Holding
    <2>4. AtOneStep'
      BY <1>6, <2>1
         DEF Settle, RetireOp, Winds, Quiet, TypeOK, TickRecord, TickPhase, RunRecord,
             Recorded, AtOneStep, Busy, ThreadPhase, Row, Node, At, Idle, Holding
    <2>5. StopIsTruthful'
      BY <1>6, <2>1
         DEF Settle, RetireOp, Winds, Quiet, TypeOK, RunRecord, Recorded, AtOneStep,
             StopIsTruthful, Running
    <2> QED
      BY <2>2, <2>3, <2>4, <2>5
  <1> QED
    BY <1>1, <1>2, <1>3, <1>4, <1>5, <1>6

\* An inline tool is admitted and claimed at once, at the step the run is at.
LEMMA StartToolKeeps == ASSUME IInv, StartTool PROVE IInv'
  <1> USE StepAssumption, TokenPairs DEF IInv, process
  <1> DEFINE t == <<tick.node, tick.epoch>>
  <1>1. CASE tick' = [Idle EXCEPT !.phase = "toClaim"] /\ UNCHANGED <<rows, op, effects, thread>>
    <2>1. run' = run /\ up' = up /\ gen' = gen
      BY DEF StartTool
    <2>2. tick' \in TickRecord /\ tick'.phase = "toClaim" /\ tick.phase # "idle"
      BY <1>1 DEF TickRecord, TickPhase, Idle, StartTool
    <2>3. TypeOK' /\ Recorded'
      BY <1>1, <2>1, <2>2 DEF TypeOK, Recorded, Busy
    <2>4. AtOneStep' /\ StopIsTruthful'
      BY <1>1, <2>1, <2>2 DEF AtOneStep, StopIsTruthful
    <2> QED
      BY <2>3, <2>4
  <1>2. CASE /\ Running /\ op = None /\ Admit(t, "tool_step")
             /\ rows' = [rows EXCEPT ![tick.node].status = "claimed", ![tick.node].epoch = t[2],
                                     ![tick.node].by = gen]
             /\ Set(t, "op") /\ tick' = At("advancing")
    <2>1. /\ run' = run /\ up' = up /\ gen' = gen /\ tick.node = run.node /\ up
          /\ tick.node \in Nat /\ tick.epoch \in Nat
      BY DEF StartTool, Recorded, AtOneStep, TypeOK, TickRecord
    <2>2. /\ op' \in Operation
          /\ op'.node = t[1] /\ op'.epoch = t[2] /\ op'.kind = "tool_step" /\ op'.by = gen
          /\ effects' = effects \cup {op'}
      BY <1>2, <2>1, Admitting
    <2>3. /\ thread' \in [Token -> ThreadPhase]
          /\ \A u \in Token : thread'[u] = IF u = t THEN "op" ELSE thread[u]
      BY <1>2, Setting DEF ThreadPhase
    <2>4. /\ rows' \in [Node -> Row]
          /\ \A n \in Node \ {run.node} : rows'[n] = rows[n]
      <3>1. tick.node \in Node => rows[tick.node] \in Row
        BY DEF TypeOK
      <3> QED
        BY <1>2, <2>1, <3>1 DEF TypeOK, Row
    <2>5. tick' \in TickRecord /\ tick'.phase = "advancing"
      BY <1>2 DEF TypeOK, TickRecord, TickPhase, At
    <2>6. effects = {} /\ \A u \in Token : thread[u] \notin Busy
      BY <1>2 DEF Recorded, TypeOK
    <2>7. TypeOK'
      BY <2>1, <2>2, <2>3, <2>4, <2>5 DEF TypeOK
    <2>8. Recorded'
      BY <2>1, <2>2, <2>3, <2>5, <2>6 DEF Recorded, Busy
    <2>9. AtOneStep'
      BY <2>1, <2>3, <2>4, <2>5, <2>6 DEF AtOneStep, Busy
    <2>10. StopIsTruthful'
      BY <1>2, <2>1 DEF StopIsTruthful, Running
    <2> QED
      BY <2>7, <2>8, <2>9, <2>10
  <1> QED
    BY <1>1, <1>2 DEF StartTool

\* A step is claimed where the run is, when no inline tool is on its way.
LEMMA ClaimKeeps == ASSUME IInv, ClaimNextStep PROVE IInv'
  <1> USE StepAssumption, TokenPairs DEF IInv, process
  <1> DEFINE n == run.node
             e == rows[n].epoch + 1
  <1>1. /\ op' = op /\ effects' = effects /\ up' = up /\ gen' = gen
        /\ tick.phase = "claiming"
    BY DEF ClaimNextStep
  <1>2. CASE tick' = At("noClaim") /\ UNCHANGED <<run, rows, thread>>
    <2>1. TypeOK' /\ Recorded'
      BY <1>1, <1>2 DEF TypeOK, Recorded, Busy, TickRecord, TickPhase, At
    <2>2. AtOneStep' /\ StopIsTruthful'
      BY <1>1, <1>2 DEF AtOneStep, StopIsTruthful, TypeOK, TickRecord, At
    <2> QED
      BY <2>1, <2>2
  <1>3. CASE /\ Running /\ n \in Node \ Tool
             /\ rows' = [rows EXCEPT ![n].status = "claimed", ![n].epoch = e, ![n].by = gen]
             /\ Set(<<n, e>>, "work")
             /\ tick' = [phase |-> "executing", node |-> n, epoch |-> e]
             /\ UNCHANGED run
    <2>1. n \in Nat /\ e \in Nat
      BY <1>3 DEF TypeOK, Row
    <2>2. /\ thread' \in [Token -> ThreadPhase]
          /\ \A u \in Token : thread'[u] = IF u = <<n, e>> THEN "work" ELSE thread[u]
      BY <1>3, Setting DEF ThreadPhase
    <2>3. rows' \in [Node -> Row] /\ \A m \in Node \ {n} : rows'[m] = rows[m]
      <3>1. rows[n] \in Row
        BY <1>3 DEF TypeOK
      <3> QED
        BY <1>3, <2>1, <3>1 DEF TypeOK, Row
    <2>4. /\ tick' \in TickRecord
          /\ tick'.phase = "executing" /\ tick'.node = n
      BY <1>3, <2>1 DEF TickRecord, TickPhase
    <2>5. TypeOK'
      BY <1>1, <1>3, <2>2, <2>3, <2>4 DEF TypeOK
    <2>6. Recorded'
      BY <1>1, <2>2, <2>4 DEF Recorded, Busy
    <2>7. AtOneStep'
      <3>1. \A u \in Token : u = <<n, e>> => u[1] \notin Tool
        BY <1>3
      <3> QED
        BY <1>1, <1>3, <2>2, <2>3, <2>4, <3>1 DEF AtOneStep, Busy
    <2>8. StopIsTruthful'
      BY <1>1, <1>3 DEF StopIsTruthful, Running
    <2> QED
      BY <2>5, <2>6, <2>7, <2>8
  <1>4. CASE FailRun /\ Running /\ tick' = Idle /\ UNCHANGED thread
    <2>1. Winds /\ (run'.status = "failed" => op = None)
      BY <1>4, FailRunWinds
    <2>2. TypeOK' /\ Recorded'
      BY <1>1, <1>4, <2>1 DEF TypeOK, Recorded, Winds, Busy, TickRecord, TickPhase, Idle
    <2>3. AtOneStep'
      BY <1>1, <1>4, <2>1 DEF AtOneStep, Winds, Running, Busy, Idle
    <2>4. run'.status = "failed" => effects' = {}
      BY <1>1, <2>1 DEF Recorded, TypeOK
    <2>5. StopIsTruthful'
      BY <1>1, <1>4, <2>1, <2>4 DEF StopIsTruthful, Winds, Quiet, Running
    <2> QED
      BY <2>2, <2>3, <2>5
  <1> QED
    BY <1>2, <1>3, <1>4 DEF ClaimNextStep

\* Executor threads admit and end operations; the tick delivers a claim.
LEMMA ThreadsKeep ==
    ASSUME IInv, NEW t \in Token,
           \/ StartCall(t) \/ EndCall(t) \/ EndTool(t) \/ RetireTool(t) \/ Return(t)
           \/ Confirm(t) \/ Deliver(t) \/ StepFailed(t)
    PROVE  IInv'
  <1> USE StepAssumption, TokenPairs DEF IInv, engine, process
  <1>1. ASSUME StartCall(t) PROVE IInv'
    <2>1. /\ run' = run /\ rows' = rows /\ tick' = tick /\ up' = up /\ gen' = gen
          /\ Running /\ op = None /\ thread[t] = "work"
      BY <1>1 DEF StartCall, MayAdmit
    <2>2. t[1] \in Nat /\ t[2] \in Nat
      BY DEF Node, Epoch
    <2>3. /\ op' \in Operation
          /\ op'.node = t[1] /\ op'.epoch = t[2] /\ op'.kind = "tool" /\ op'.by = gen
          /\ effects' = effects \cup {op'}
      BY <1>1, <2>2, Admitting DEF StartCall
    <2>4. /\ thread' \in [Token -> ThreadPhase]
          /\ \A u \in Token : thread'[u] = IF u = t THEN "op" ELSE thread[u]
      BY <1>1, Setting DEF ThreadPhase, StartCall
    <2>5. effects = {} /\ \A u \in Token : thread[u] \notin Busy
      BY <2>1 DEF Recorded, TypeOK
    <2>6. tick.phase \notin {"delivering", "settling"} /\ up
      BY <2>1 DEF Recorded
    <2>7. TypeOK'
      BY <2>1, <2>3, <2>4 DEF TypeOK
    <2>8. Recorded'
      BY <2>1, <2>3, <2>4, <2>5, <2>6 DEF Recorded, Busy
    <2>9. AtOneStep'
      BY <2>1, <2>4, <2>5 DEF AtOneStep, Busy
    <2>10. StopIsTruthful'
      BY <2>1 DEF StopIsTruthful, Running
    <2> QED
      BY <2>7, <2>8, <2>9, <2>10
  <1>2. ASSUME EndCall(t) PROVE IInv'
    <2>1. /\ Winds /\ op' = None /\ tick' = tick /\ up' = up /\ gen' = gen
          /\ thread[t] = "op" /\ t[1] \notin Tool /\ effects' = effects \ {op}
      BY <1>2, RetireOpWinds DEF EndCall, RetireOp
    <2>2. /\ thread' \in [Token -> ThreadPhase]
          /\ \A u \in Token : thread'[u] = IF u = t THEN "work" ELSE thread[u]
      BY <1>2, Setting DEF ThreadPhase, EndCall
    <2>3. /\ effects' = {} /\ up
          /\ \A u \in Token : thread'[u] \notin Busy
          /\ tick.phase \notin {"delivering", "settling"}
      BY <2>1, <2>2 DEF Recorded, Busy, Operation
    <2>4. TypeOK' /\ Recorded'
      BY <2>1, <2>2, <2>3 DEF TypeOK, Recorded, Winds, Busy
    <2>5. AtOneStep' /\ StopIsTruthful'
      BY <2>1, <2>2, <2>3 DEF AtOneStep, Winds, Quiet, StopIsTruthful, Busy
    <2> QED
      BY <2>4, <2>5
  <1>3. ASSUME EndTool(t) PROVE IInv'
    <2>1. /\ op' = op /\ tick' = tick /\ up' = up /\ gen' = gen /\ effects' = effects \ {op}
          /\ thread[t] = "op" /\ t[1] \in Tool /\ t[1] \in Node /\ t[1] = run.node
      BY <1>3 DEF EndTool, AtOneStep
    <2>2. PICK x \in {"settling", "broken"} : Set(t, x)
      BY <1>3 DEF EndTool
    <2>3. /\ thread' \in [Token -> ThreadPhase]
          /\ \A u \in Token : thread'[u] = IF u = t THEN x ELSE thread[u]
      BY <2>2, Setting DEF ThreadPhase
    <2>4. /\ effects' = {} /\ up
          /\ op \in Operation /\ op.by = gen /\ op.node = t[1] /\ op.epoch = t[2]
          /\ op.kind # "delivery"
          /\ \A u \in Token \ {t} : thread[u] \notin Busy
          /\ tick.phase \notin {"tool", "claiming", "executing", "delivering", "settling"}
      BY <2>1 DEF Recorded, AtOneStep, Busy
    <2>5. /\ rows' \in [Node -> Row]
          /\ \A n \in Node : rows'[n].status # "claimed"
      <3>1. PICK y \in Row : /\ rows' = [rows EXCEPT ![t[1]] = y]
                             /\ y.status # "claimed"
        <4> DEFINE r == rows[t[1]]
        <4>1. r \in Row
          BY <2>1 DEF TypeOK
        <4>2. CASE rows' = [rows EXCEPT ![t[1]].status = "completed"]
          <5>1. [r EXCEPT !.status = "completed"] \in Row
            BY <4>1 DEF Row
          <5> QED
            BY <4>1, <4>2, <5>1 DEF Row, TypeOK
        <4>3. CASE rows' = [rows EXCEPT ![t[1]].status = "pending", ![t[1]].retries = @ + 1]
          <5>1. r.retries + 1 \in Nat
            BY <4>1 DEF Row
          <5>2. [r EXCEPT !.status = "pending", !.retries = r.retries + 1] \in Row
            BY <4>1, <5>1 DEF Row
          <5> QED
            BY <4>1, <4>3, <5>2 DEF Row, TypeOK
        <4>4. CASE rows' = [rows EXCEPT ![t[1]].status = "failed"]
          <5>1. [r EXCEPT !.status = "failed"] \in Row
            BY <4>1 DEF Row
          <5> QED
            BY <4>1, <4>4, <5>1 DEF Row, TypeOK
        <4> QED
          BY <1>3, <4>2, <4>3, <4>4 DEF EndTool
      <3> QED
        BY <2>1, <3>1 DEF TypeOK, AtOneStep
    <2>6. run' \in RunRecord
      <3>1. t[1] + 1 \in Nat
        BY <2>1 DEF Node
      <3> QED
        BY <1>3, <3>1 DEF EndTool, TypeOK, RunRecord
    <2>7. TypeOK' /\ Recorded'
      BY <2>1, <2>3, <2>4, <2>5, <2>6 DEF TypeOK, Recorded, Busy
    <2>8. AtOneStep' /\ StopIsTruthful'
      BY <2>1, <2>2, <2>3, <2>4, <2>5 DEF AtOneStep, StopIsTruthful, Busy
    <2> QED
      BY <2>7, <2>8
  <1>4. ASSUME RetireTool(t) PROVE IInv'
    <2>1. /\ Winds /\ op' = None /\ effects' = effects /\ up' = up /\ gen' = gen
          /\ thread[t] \in {"settling", "broken"}
      BY <1>4, RetireOpWinds DEF RetireTool, RetireOp
    <2>2. PICK x \in {"gaveup", "none"} : Set(t, x)
      BY <1>4 DEF RetireTool
    <2>3. /\ thread' \in [Token -> ThreadPhase]
          /\ \A u \in Token : thread'[u] = IF u = t THEN x ELSE thread[u]
      BY <2>2, Setting DEF ThreadPhase
    <2>4. /\ effects' = {} /\ up
          /\ \A u \in Token : thread'[u] \notin Busy
          /\ tick.phase \notin {"delivering", "settling"}
      BY <2>1, <2>2, <2>3 DEF Recorded, Busy, Operation
    <2>5. /\ tick' \in TickRecord
          /\ tick' = tick \/ tick'.phase \in {"advance", "toClaim"}
      BY <1>4 DEF RetireTool, TypeOK, TickRecord, TickPhase, Idle
    <2>6. TypeOK' /\ Recorded'
      BY <2>1, <2>2, <2>3, <2>4, <2>5 DEF TypeOK, Recorded, Winds, Busy
    <2>7. AtOneStep' /\ StopIsTruthful'
      BY <2>1, <2>2, <2>3, <2>4, <2>5 DEF AtOneStep, Winds, Quiet, StopIsTruthful, Busy
    <2> QED
      BY <2>6, <2>7
  <1>5. ASSUME Return(t) PROVE IInv'
    <2>1. /\ UNCHANGED <<run, rows, op, effects, tick, up, gen>>
          /\ thread[t] = "work"
      BY <1>5 DEF Return
    <2>2. PICK x \in {"returned", "raised", "gaveup"} : Set(t, x)
      BY <1>5 DEF Return
    <2>3. /\ thread' \in [Token -> ThreadPhase]
          /\ \A u \in Token : thread'[u] = IF u = t THEN x ELSE thread[u]
      BY <2>2, Setting DEF ThreadPhase
    <2>4. TypeOK' /\ Recorded'
      BY <2>1, <2>2, <2>3 DEF TypeOK, Recorded, Busy
    <2>5. AtOneStep' /\ StopIsTruthful'
      BY <2>1, <2>2, <2>3 DEF AtOneStep, StopIsTruthful, Busy
    <2> QED
      BY <2>4, <2>5
  <1>6. ASSUME Confirm(t) PROVE IInv'
    <2>1. /\ up' = up /\ gen' = gen /\ tick.phase = "executing" /\ up /\ tick.node = run.node
      BY <1>6 DEF Confirm, Recorded, AtOneStep
    <2>2. CASE MayAdmit(t) /\ Admit(t, "delivery") /\ tick' = At("delivering")
               /\ UNCHANGED <<run, rows, thread>>
      <3>1. Running /\ op = None /\ t[1] \in Nat /\ t[2] \in Nat
        BY <2>2 DEF MayAdmit, Node, Epoch
      <3>2. /\ op' \in Operation /\ op'.kind = "delivery" /\ op'.by = gen
            /\ effects' = effects \cup {op'}
        BY <2>2, <3>1, Admitting
      <3>3. /\ tick' \in TickRecord
            /\ tick'.phase = "delivering" /\ tick'.node = tick.node
        BY <2>2 DEF TypeOK, TickRecord, TickPhase, At
      <3>4. effects = {} /\ \A u \in Token : thread[u] \notin Busy
        BY <3>1 DEF Recorded, TypeOK
      <3>5. TypeOK' /\ Recorded'
        BY <2>1, <2>2, <3>2, <3>3, <3>4 DEF TypeOK, Recorded, Busy
      <3>6. AtOneStep' /\ StopIsTruthful'
        BY <2>1, <2>2, <3>1, <3>3, <3>4 DEF AtOneStep, StopIsTruthful, Running, Busy
      <3> QED
        BY <3>5, <3>6
    <2>3. CASE \/ UNCHANGED <<run, rows>> /\ Set(t, "refused") /\ tick' = Idle
                  /\ UNCHANGED <<op, effects>>
               \/ FailStep(t, TRUE) /\ Set(t, "raised") /\ tick' = Idle
                  /\ UNCHANGED <<op, effects>>
      <3>1. Winds /\ (run'.cancel /\ run'.status = "failed" => run' = run)
        BY <2>3, StayingWinds, FailStepWinds
      <3>2. PICK x \in {"refused", "raised"} : Set(t, x)
        BY <2>3
      <3>3. /\ thread' \in [Token -> ThreadPhase]
            /\ \A u \in Token : thread'[u] = IF u = t THEN x ELSE thread[u]
        BY <3>2, Setting DEF ThreadPhase
      <3>4. /\ tick' \in TickRecord /\ tick'.phase = "idle"
        <4>1. tick' = Idle
          BY <2>3
        <4> QED
          BY <4>1 DEF TickRecord, TickPhase, Idle
      <3>5. TypeOK' /\ Recorded'
        BY <2>1, <2>3, <3>1, <3>2, <3>3, <3>4 DEF TypeOK, Recorded, Winds, Busy
      <3>6. AtOneStep' /\ StopIsTruthful'
        BY <2>3, <3>1, <3>2, <3>3, <3>4 DEF AtOneStep, StopIsTruthful, Winds, Busy
      <3> QED
        BY <3>5, <3>6
    <2> QED
      BY <1>6, <2>2, <2>3 DEF Confirm
  <1>7. ASSUME Deliver(t) PROVE IInv'
    <2>1. /\ op' = op /\ up' = up /\ gen' = gen /\ effects' = effects \ {op}
          /\ tick.phase = "delivering" /\ t[1] = run.node /\ t[1] \in Node
          /\ op \in Operation /\ op.by = gen /\ op.kind = "delivery" /\ up
      BY <1>7 DEF Deliver, Recorded, AtOneStep, Holding
    <2>2. /\ effects' = {} /\ \A u \in Token : thread[u] \notin Busy
      BY <2>1 DEF Recorded
    <2>3. /\ tick' \in TickRecord /\ tick'.phase = "settling"
      BY <1>7 DEF Deliver, TypeOK, TickRecord, TickPhase, At
    <2>4. /\ thread' \in [Token -> ThreadPhase]
          /\ thread' = thread \/ \A u \in Token : thread'[u] = IF u = t THEN "raised" ELSE thread[u]
      BY <1>7, Setting DEF Deliver, ThreadPhase, TypeOK
    <2>5. CASE rows' = [rows EXCEPT ![t[1]].status = "completed"]
               /\ run' = [run EXCEPT !.node = t[1] + 1]
      <3>1. /\ rows' \in [Node -> Row] /\ \A n \in Node : rows'[n].status # "claimed"
        BY <2>1, <2>5 DEF TypeOK, Row, AtOneStep
      <3>2. run' \in RunRecord
        <4>1. t[1] + 1 \in Nat
          BY <2>1 DEF Node
        <4> QED
          BY <2>5, <4>1 DEF TypeOK, RunRecord
      <3>3. TypeOK' /\ Recorded'
        BY <2>1, <2>2, <2>3, <2>4, <3>1, <3>2 DEF TypeOK, Recorded, Busy
      <3>4. AtOneStep' /\ StopIsTruthful'
        BY <2>2, <2>3, <2>4, <3>1 DEF AtOneStep, StopIsTruthful, Busy
      <3> QED
        BY <3>3, <3>4
    <2>6. CASE FailStep(t, TRUE)
      <3>1. Winds /\ (run'.cancel /\ run'.status = "failed" => run' = run)
        BY <2>6, FailStepWinds
      <3>2. TypeOK' /\ Recorded'
        BY <2>1, <2>2, <2>3, <2>4, <3>1 DEF TypeOK, Recorded, Winds, Busy
      <3>3. AtOneStep' /\ StopIsTruthful'
        BY <2>2, <2>3, <2>4, <3>1 DEF AtOneStep, StopIsTruthful, Winds, Busy
      <3> QED
        BY <3>2, <3>3
    <2> QED
      BY <1>7, <2>5, <2>6 DEF Deliver
  <1>8. ASSUME StepFailed(t) PROVE IInv'
    <2>1. /\ Winds /\ (run'.cancel /\ run'.status = "failed" => run' = run)
          /\ UNCHANGED <<op, effects, thread, up, gen>> /\ tick' = Idle
      BY <1>8, FailStepWinds DEF StepFailed
    <2>2. TypeOK' /\ Recorded'
      BY <2>1 DEF TypeOK, Recorded, Winds, Busy, TickRecord, TickPhase, Idle
    <2>3. AtOneStep' /\ StopIsTruthful'
      BY <2>1 DEF AtOneStep, StopIsTruthful, Winds, Busy, Idle
    <2> QED
      BY <2>2, <2>3
  <1> QED
    BY <1>1, <1>2, <1>3, <1>4, <1>5, <1>6, <1>7, <1>8

\* Cancelled ticks, deaths, restarts, the supervisor and operators.
LEMMA EnvironmentKeeps ==
    ASSUME IInv, \/ CancelTick \/ Crash \/ OrphanEnds \/ Restart \/ CheckHungClaims
                 \/ ReleaseOperation \/ Stop
    PROVE  IInv'
  <1> USE StepAssumption, TokenPairs DEF IInv, engine, process
  <1>1. ASSUME CancelTick PROVE IInv'
    <2>1. /\ rows' \in [Node -> Row]
          /\ \A n \in Node : rows'[n].status = "claimed" => rows[n].status = "claimed"
      BY <1>1 DEF CancelTick, TypeOK, Row
    <2>2. TypeOK'
      BY <1>1, <2>1
         DEF CancelTick, TypeOK, Row, RunRecord, ThreadPhase, TickRecord, TickPhase,
             Operation, Node, At, Idle
    <2>3. Recorded'
      BY <1>1, <2>1
         DEF CancelTick, TypeOK, TickRecord, TickPhase, Recorded, Busy, ThreadPhase,
             At, Idle, Holding
    <2>4. AtOneStep'
      BY <1>1, <2>1
         DEF CancelTick, TypeOK, TickRecord, TickPhase, RunRecord, Recorded,
             AtOneStep, Busy, ThreadPhase, Row, Node, At, Idle, Holding
    <2>5. StopIsTruthful'
      BY <1>1, <2>1
         DEF CancelTick, TypeOK, RunRecord, Recorded, AtOneStep, StopIsTruthful,
             Running
    <2> QED
      BY <2>2, <2>3, <2>4, <2>5
  <1>2. ASSUME Crash PROVE IInv'
    <2>1. Winds
      BY <1>2, StayingWinds DEF Crash
    <2>2. thread' \in [Token -> ThreadPhase] /\ \A u \in Token : thread'[u] \in {"none", "raised", "gaveup"}
      BY <1>2 DEF Crash, TypeOK, ThreadPhase
    <2>3. effects' \subseteq effects /\ op' = op /\ gen' = gen /\ up' = FALSE /\ tick' = Idle
      BY <1>2 DEF Crash
    <2>4. TypeOK'
      BY <2>1, <2>2, <2>3 DEF Winds, TypeOK, TickRecord, TickPhase, Idle
    <2>5. Recorded'
      BY <1>2, <2>1, <2>2, <2>3
         DEF Crash, Winds, Quiet, TypeOK, TickRecord, TickPhase, Recorded, Busy,
             ThreadPhase, At, Idle, Holding
    <2>6. AtOneStep'
      BY <1>2, <2>1, <2>2, <2>3
         DEF Crash, Winds, Quiet, TypeOK, TickRecord, TickPhase, RunRecord, Recorded,
             AtOneStep, Busy, ThreadPhase, Row, Node, At, Idle, Holding
    <2>7. StopIsTruthful'
      BY <1>2, <2>1, <2>2, <2>3
         DEF Crash, Winds, Quiet, TypeOK, RunRecord, Recorded, AtOneStep,
             StopIsTruthful, Running
    <2> QED
      BY <2>4, <2>5, <2>6, <2>7
  <1>3. ASSUME OrphanEnds PROVE IInv'
    <2>1. Winds
      BY <1>3, StayingWinds DEF OrphanEnds
    <2>2. TypeOK'
      BY <1>3, <2>1
         DEF OrphanEnds, Winds, Quiet, TypeOK, Row, RunRecord, ThreadPhase,
             TickRecord, TickPhase, Operation, Node, At, Idle
    <2>3. Recorded'
      BY <1>3, <2>1
         DEF OrphanEnds, Winds, Quiet, TypeOK, TickRecord, TickPhase, Recorded, Busy,
             ThreadPhase, At, Idle, Holding
    <2>4. AtOneStep'
      BY <1>3, <2>1
         DEF OrphanEnds, Winds, Quiet, TypeOK, TickRecord, TickPhase, RunRecord,
             Recorded, AtOneStep, Busy, ThreadPhase, Row, Node, At, Idle, Holding
    <2>5. StopIsTruthful'
      BY <1>3, <2>1
         DEF OrphanEnds, Winds, Quiet, TypeOK, RunRecord, Recorded, AtOneStep,
             StopIsTruthful, Running
    <2> QED
      BY <2>2, <2>3, <2>4, <2>5
  <1>4. ASSUME Restart PROVE IInv'
    <2>1. Winds
      BY <1>4, ReapingWinds, StayingWinds DEF Restart
    <2>2. TypeOK'
      BY <1>4, <2>1
         DEF Restart, Winds, Quiet, TypeOK, Row, RunRecord, ThreadPhase, TickRecord,
             TickPhase, Operation, Node, At, Idle
    <2>3. Recorded'
      BY <1>4, <2>1
         DEF Restart, Winds, Quiet, TypeOK, TickRecord, TickPhase, Recorded, Busy,
             ThreadPhase, At, Idle, Holding
    <2>4. AtOneStep'
      BY <1>4, <2>1
         DEF Restart, Winds, Quiet, TypeOK, TickRecord, TickPhase, RunRecord,
             Recorded, AtOneStep, Busy, ThreadPhase, Row, Node, At, Idle, Holding
    <2>5. StopIsTruthful'
      BY <1>4, <2>1
         DEF Restart, Winds, Quiet, TypeOK, RunRecord, Recorded, AtOneStep,
             StopIsTruthful, Running
    <2> QED
      BY <2>2, <2>3, <2>4, <2>5
  <1>5. ASSUME CheckHungClaims PROVE IInv'
    <2>1. Winds
      BY <1>5, ReapingWinds DEF CheckHungClaims
    <2>2. TypeOK'
      BY <1>5, <2>1
         DEF CheckHungClaims, Winds, Quiet, TypeOK, Row, RunRecord, ThreadPhase,
             TickRecord, TickPhase, Operation, Node, At, Idle
    <2>3. Recorded'
      BY <1>5, <2>1
         DEF CheckHungClaims, Winds, Quiet, TypeOK, TickRecord, TickPhase, Recorded,
             Busy, ThreadPhase, At, Idle, Holding
    <2>4. AtOneStep'
      BY <1>5, <2>1
         DEF CheckHungClaims, Winds, Quiet, TypeOK, TickRecord, TickPhase, RunRecord,
             Recorded, AtOneStep, Busy, ThreadPhase, Row, Node, At, Idle, Holding
    <2>5. StopIsTruthful'
      BY <1>5, <2>1
         DEF CheckHungClaims, Winds, Quiet, TypeOK, RunRecord, Recorded, AtOneStep,
             StopIsTruthful, Running
    <2> QED
      BY <2>2, <2>3, <2>4, <2>5
  <1>6. ASSUME ReleaseOperation PROVE IInv'
    <2>1. Winds
      BY <1>6, RetireOpWinds DEF ReleaseOperation
    <2>2. TypeOK'
      BY <1>6, <2>1
         DEF ReleaseOperation, RetireOp, Dead, Winds, Quiet, TypeOK, Row, RunRecord,
             ThreadPhase, TickRecord, TickPhase, Operation, Node, At, Idle
    <2>3. Recorded'
      BY <1>6, <2>1
         DEF ReleaseOperation, RetireOp, Dead, Winds, Quiet, TypeOK, TickRecord,
             TickPhase, Recorded, Busy, ThreadPhase, At, Idle, Holding
    <2>4. AtOneStep'
      BY <1>6, <2>1
         DEF ReleaseOperation, RetireOp, Dead, Winds, Quiet, TypeOK, TickRecord,
             TickPhase, RunRecord, Recorded, AtOneStep, Busy, ThreadPhase, Row, Node,
             At, Idle, Holding
    <2>5. StopIsTruthful'
      BY <1>6, <2>1
         DEF ReleaseOperation, RetireOp, Dead, Winds, Quiet, TypeOK, RunRecord,
             Recorded, AtOneStep, StopIsTruthful, Running
    <2> QED
      BY <2>2, <2>3, <2>4, <2>5
  <1>7. ASSUME Stop PROVE IInv'
    <2>1. Winds /\ (run'.status = "failed" => op = None)
      BY <1>7, FailRunWinds DEF Stop
    <2>2. UNCHANGED <<op, effects, thread, tick, up, gen>>
      BY <1>7 DEF Stop
    <2>3. TypeOK'
      BY <1>7, <2>1, <2>2
         DEF Stop, Winds, Quiet, TypeOK, Row, RunRecord, ThreadPhase, TickRecord,
             TickPhase, Operation, Node, At, Idle
    <2>4. Recorded'
      BY <1>7, <2>1, <2>2
         DEF Stop, Winds, Quiet, TypeOK, TickRecord, TickPhase, Recorded, Busy,
             ThreadPhase, At, Idle, Holding
    <2>5. AtOneStep'
      BY <1>7, <2>1, <2>2
         DEF Stop, Winds, Quiet, TypeOK, TickRecord, TickPhase, RunRecord, Recorded,
             AtOneStep, Busy, ThreadPhase, Row, Node, At, Idle, Holding
    <2>6. StopIsTruthful'
      BY <1>7, <2>1, <2>2
         DEF Stop, Winds, Quiet, TypeOK, RunRecord, Recorded, AtOneStep,
             StopIsTruthful, Running
    <2> QED
      BY <2>3, <2>4, <2>5, <2>6
  <1> QED
    BY <1>1, <1>2, <1>3, <1>4, <1>5, <1>6, <1>7

-----------------------------------------------------------------------------
\* The invariant is inductive.
LEMMA IInvInductive == IInv /\ [Next]_vars => IInv'
  <1>1. ASSUME IInv, Next PROVE IInv'
    BY <1>1, TickKeeps, StartToolKeeps, ClaimKeeps, ThreadsKeep, EnvironmentKeeps
       DEF Next, TickStep, ToolStep
  <1>2. ASSUME IInv, UNCHANGED vars PROVE IInv'
    BY <1>2 DEF IInv, TypeOK, Recorded, AtOneStep, StopIsTruthful, vars
  <1> QED
    BY <1>1, <1>2

\* The invariant holds throughout.
LEMMA Invariance == Spec => []IInv
  BY IInvInit, IInvInductive, PTL DEF Spec

\* Whatever ticks are cancelled and whenever the server dies, the host's gate on
\* operations keeps two effects of one run from overlapping.
THEOREM EffectsAreExclusive == Spec => []OneEffect
  <1>1. IInv => OneEffect
    BY DEF IInv, Recorded, OneEffect
  <1> QED
    BY <1>1, Invariance, PTL

\* A run that stop_run or fail_run reported ended has no effect going on and no
\* step claimed.
THEOREM StopsAreTruthful == Spec => []StopIsTruthful
  <1>1. IInv => StopIsTruthful
    BY DEF IInv
  <1> QED
    BY <1>1, Invariance, PTL

-----------------------------------------------------------------------------
(* What a failed run failed on *)

\* The tick is at work on the claim t, its executor's outcome not yet written.
Working(t) == tick.phase \in {"executing", "delivering"} /\ Holding(t)

\* The executions of a step that raised and whose outcome the run has seen.
Spent(n) == {e \in Epoch : thread[<<n, e>>] = "raised" /\ ~Working(<<n, e>>)}

\* The tick runs tools inline and claims the other steps, and delivers only what
\* an executor returned.
Places ==
    /\ tick.phase = "tool" => tick.node \in Tool
    /\ tick.phase \in {"executing", "delivering"} => tick.node \in Node \ Tool
    /\ \A t \in Token : tick.phase = "delivering" /\ Holding(t) => thread[t] = "returned"

\* Executors have worked only for claims that were made.
Fresh == \A t \in Token : t[1] \notin Tool /\ thread[t] # "none" => t[2] <= rows[t[1]].epoch

\* Each retry of a claimed step is charged to an execution of it that raised.
Charged == \A n \in Node \ Tool : rows[n].retries <= Cardinality(Spent(n))

\* What FailureHasCause asks for.
Cause ==
    \E n \in Node : \/ \E e \in Epoch : thread[<<n, e>>] \in {"broken", "gaveup"}
                    \/ Cardinality({e \in Epoch : thread[<<n, e>>] = "raised"}) > MaxRetries

Ledger == Places /\ Fresh /\ Charged

CInv == IInv /\ Ledger /\ FailureHasCause

\* Epochs are finitely many, and a smaller set of them counts less.
LEMMA EpochsCount ==
    ASSUME NEW S \in SUBSET Epoch, NEW T \in SUBSET S
    PROVE  /\ IsFiniteSet(S) /\ IsFiniteSet(T)
           /\ Cardinality(S) \in Nat /\ Cardinality(T) \in Nat
           /\ Cardinality(T) <= Cardinality(S)
  <1>1. MaxSteps + 1 \in Nat
    BY StepAssumption
  <1>2. IsFiniteSet(Epoch)
    BY <1>1, FS_Interval DEF Epoch
  <1>3. IsFiniteSet(S)
    BY <1>2, FS_Subset
  <1> QED
    BY <1>3, FS_Subset, FS_CardinalityType

\* What an executor ended with stays on record.
MarksStay ==
    \A t \in Token :
        /\ thread[t] = "raised" => thread'[t] = "raised"
        /\ thread[t] \in {"broken", "gaveup"} => thread'[t] \in {"broken", "gaveup"}

\* The step fails no run, or stops it.
BlamesNobody ==
    run'.status = "failed" /\ ~run'.cancel => run.status = "failed" /\ ~run.cancel

\* No retry is spent and no claim made of a step that is not a tool.
RowsPlain ==
    \A n \in Node \ Tool : rows'[n].retries = rows[n].retries /\ rows'[n].epoch = rows[n].epoch

\* A cause stays a cause as long as the marks do.
LEMMA CauseStays == ASSUME Cause, MarksStay PROVE Cause'
  <1>1. PICK n \in Node :
           \/ \E e \in Epoch : thread[<<n, e>>] \in {"broken", "gaveup"}
           \/ Cardinality({e \in Epoch : thread[<<n, e>>] = "raised"}) > MaxRetries
    BY DEF Cause
  <1>2. \A e \in Epoch : <<n, e>> \in Token
    BY DEF Token
  <1>3. CASE \E e \in Epoch : thread[<<n, e>>] \in {"broken", "gaveup"}
    BY <1>2, <1>3 DEF MarksStay, Cause
  <1>4. CASE Cardinality({e \in Epoch : thread[<<n, e>>] = "raised"}) > MaxRetries
    <2> DEFINE T == {e \in Epoch : thread[<<n, e>>] = "raised"}
               S == {e \in Epoch : thread'[<<n, e>>] = "raised"}
    <2>1. S \in SUBSET Epoch /\ T \in SUBSET S
      BY <1>2 DEF MarksStay
    <2> HIDE DEF T, S
    <2>2. Cardinality(S) \in Nat /\ Cardinality(T) \in Nat /\ Cardinality(T) <= Cardinality(S)
      BY <2>1, EpochsCount
    <2>3. Cardinality(S) > MaxRetries
      BY <1>4, <2>2, StepAssumption DEF T
    <2> QED
      BY <2>3 DEF S, Cause
  <1> QED
    BY <1>1, <1>3, <1>4

\* A step that charges nothing keeps the accounts.
LEMMA UnchargedKeeps ==
    ASSUME Fresh, Charged, RowsPlain, TypeOK, TypeOK',
           \A t \in Token : t[1] \notin Tool =>
               /\ thread[t] = "raised" => thread'[t] = "raised"
               /\ thread[t] = "none" => thread'[t] = "none",
           \A t \in Token : Working(t)' => Working(t)
    PROVE  Fresh' /\ Charged'
  <1>1. Fresh'
    BY TokenPairs DEF Fresh, RowsPlain
  <1>2. ASSUME NEW n \in Node \ Tool PROVE rows'[n].retries <= Cardinality(Spent(n)')
    <2>1. \A e \in Epoch : <<n, e>> \in Token /\ <<n, e>>[1] \notin Tool
      BY DEF Token
    <2>2. Spent(n)' \in SUBSET Epoch /\ Spent(n) \in SUBSET Spent(n)'
      BY <2>1 DEF Spent
    <2>3. /\ Cardinality(Spent(n)) \in Nat /\ Cardinality(Spent(n)') \in Nat
          /\ Cardinality(Spent(n)) <= Cardinality(Spent(n)')
      BY <2>2, EpochsCount
    <2>4. rows'[n].retries = rows[n].retries /\ rows[n].retries \in Nat
      BY DEF RowsPlain, TypeOK, Row
    <2>5. rows[n].retries <= Cardinality(Spent(n))
      BY DEF Charged
    <2> QED
      BY <2>3, <2>4, <2>5
  <1> QED
    BY <1>1, <1>2 DEF Charged

\* Most steps neither spend a retry nor begin an execution nor fail the run.
LEMMA PlainKeeps ==
    ASSUME CInv, IInv', RowsPlain, MarksStay, BlamesNobody,
           \A t \in Token : thread[t] = "none" => thread'[t] = "none",
           \/ /\ tick' = tick
              /\ \A t \in Token : thread[t] = "returned" => thread'[t] = "returned"
           \/ tick'.phase \notin {"tool", "executing", "delivering"}
    PROVE  CInv'
  <1>0. IInv /\ Places /\ Fresh /\ Charged /\ FailureHasCause /\ TypeOK /\ TypeOK'
    BY DEF CInv, Ledger, IInv
  <1>1. \A t \in Token : Working(t)' => Working(t)
    BY DEF Working, Holding
  <1>2. Places'
    BY <1>0 DEF Places, Holding
  <1>3. Fresh' /\ Charged'
    BY <1>0, <1>1, UnchargedKeeps DEF MarksStay
  <1>4. FailureHasCause'
    BY <1>0, CauseStays DEF BlamesNobody, FailureHasCause, Cause
  <1> QED
    BY <1>2, <1>3, <1>4 DEF CInv, Ledger

-----------------------------------------------------------------------------
(* The engine's helpers, as bookkeeping *)

\* Closing or reaping claims leaves retries and epochs alone.
LEMMA ClosedIsPlain == ASSUME TypeOK, rows' = Closed \/ rows' = Reaped PROVE RowsPlain
  BY DEF TypeOK, Closed, Reaped, RowsPlain, Row

\* Retiring an operation charges nobody.
LEMMA RetireOpIsPlain == ASSUME TypeOK, RetireOp PROVE RowsPlain /\ BlamesNobody
  <1>1. RowsPlain
    BY ClosedIsPlain DEF RetireOp, RowsPlain
  <1>2. BlamesNobody
    BY DEF RetireOp, BlamesNobody, TypeOK, RunRecord
  <1> QED
    BY <1>1, <1>2

\* A run that is failed as a whole is cancelled.
LEMMA FailRunIsPlain == ASSUME TypeOK, FailRun PROVE RowsPlain /\ BlamesNobody
  <1>1. RowsPlain
    BY ClosedIsPlain DEF FailRun, RowsPlain
  <1>2. BlamesNobody
    BY DEF FailRun, BlamesNobody, TypeOK, RunRecord
  <1> QED
    BY <1>1, <1>2

\* A step that leaves run and rows alone.
LEMMA StayingIsPlain == ASSUME UNCHANGED <<run, rows>> PROVE RowsPlain /\ BlamesNobody
  BY DEF RowsPlain, BlamesNobody

\* fail_step spends one retry, fails the run when none is left, or does nothing.
LEMMA FailStepAccounts ==
    ASSUME TypeOK, NEW t \in Token, NEW b, FailStep(t, b)
    PROVE  /\ \A n \in Node : rows'[n].epoch = rows[n].epoch
           /\ \A n \in Node \ {t[1]} : rows'[n].retries = rows[n].retries
           /\ rows'[t[1]].retries \in {rows[t[1]].retries, rows[t[1]].retries + 1}
           /\ ~b => rows'[t[1]].retries = rows[t[1]].retries
           /\ BlamesNobody \/ ~b \/ rows[t[1]].retries >= MaxRetries
  <1> DEFINE Ignored == ~Running \/ run.cancel \/ rows[t[1]].epoch # t[2]
             Again == b /\ rows[t[1]].retries < MaxRetries
  <1>1. t[1] \in Node /\ rows[t[1]] \in Row /\ rows[t[1]].retries \in Nat /\ MaxRetries \in Nat
    BY TokenPairs, StepAssumption DEF TypeOK, Row
  <1>2. CASE Ignored
    BY <1>2 DEF FailStep, BlamesNobody
  <1>3. CASE ~Ignored /\ Again
    <2>1. /\ rows' = [rows EXCEPT ![t[1]].status = "pending", ![t[1]].retries = @ + 1]
          /\ run' = run
      BY <1>3 DEF FailStep
    <2>2. /\ \A n \in Node \ {t[1]} : rows'[n] = rows[n]
          /\ rows'[t[1]].retries = rows[t[1]].retries + 1
          /\ rows'[t[1]].epoch = rows[t[1]].epoch
      BY <1>1, <2>1 DEF TypeOK, Row
    <2> QED
      BY <1>1, <1>3, <2>1, <2>2 DEF BlamesNobody
  <1>4. CASE ~Ignored /\ ~Again
    <2>1. rows' = [rows EXCEPT ![t[1]].status = "failed"]
      BY <1>4 DEF FailStep
    <2>2. /\ \A n \in Node \ {t[1]} : rows'[n] = rows[n]
          /\ rows'[t[1]].retries = rows[t[1]].retries
          /\ rows'[t[1]].epoch = rows[t[1]].epoch
      BY <1>1, <2>1 DEF TypeOK, Row
    <2>3. ~b \/ rows[t[1]].retries >= MaxRetries
      BY <1>1, <1>4
    <2> QED
      BY <2>2, <2>3
  <1> QED
    BY <1>2, <1>3, <1>4

\* An execution that raised pays for the retry it causes, and for the failure it
\* causes when there is none left.
LEMMA RaisedPays ==
    ASSUME CInv, IInv', NEW t \in Token, Working(t), FailStep(t, TRUE),
           thread[t] \in {"returned", "raised"}, thread' = [thread EXCEPT ![t] = "raised"],
           tick'.phase \in {"idle", "settling"}
    PROVE  CInv'
  <1>0. /\ IInv /\ Places /\ Fresh /\ Charged /\ FailureHasCause /\ TypeOK /\ TypeOK'
        /\ t[1] \in Node \ Tool /\ t[2] \in Epoch /\ t = <<t[1], t[2]>>
    BY TokenPairs DEF CInv, Ledger, IInv, Places, Working, Holding
  <1>1. /\ \A n \in Node : rows'[n].epoch = rows[n].epoch
        /\ \A n \in Node \ {t[1]} : rows'[n].retries = rows[n].retries
        /\ rows'[t[1]].retries \in {rows[t[1]].retries, rows[t[1]].retries + 1}
        /\ BlamesNobody \/ rows[t[1]].retries >= MaxRetries
    BY <1>0, FailStepAccounts
  <1>2. \A u \in Token : thread'[u] = IF u = t THEN "raised" ELSE thread[u]
    BY <1>0 DEF TypeOK
  <1>3. MarksStay
    BY <1>2 DEF MarksStay
  <1>4. \A u \in Token : ~Working(u)'
    BY DEF Working
  <1>5. Places'
    BY DEF Places
  <1>6. Fresh'
    BY <1>0, <1>1, <1>2, TokenPairs DEF Fresh
  <1>7. \A n \in Node : \A e \in Epoch : <<n, e>> \in Token
    BY DEF Token
  <1>8. ASSUME NEW n \in Node
        PROVE  /\ Spent(n)' = {e \in Epoch : thread'[<<n, e>>] = "raised"}
               /\ Spent(n) \in SUBSET Spent(n)' /\ Spent(n)' \in SUBSET Epoch
    BY <1>2, <1>4, <1>7 DEF Spent
  <1>9. t[2] \in Spent(t[1])' /\ t[2] \notin Spent(t[1])
    BY <1>0, <1>2, <1>4 DEF Spent
  <1>10. /\ Cardinality(Spent(t[1])) \in Nat /\ Cardinality(Spent(t[1])') \in Nat
         /\ Cardinality(Spent(t[1])) + 1 <= Cardinality(Spent(t[1])')
    <2> DEFINE S == Spent(t[1])
               T == Spent(t[1])'
    <2>1. S \in SUBSET T /\ T \in SUBSET Epoch /\ t[2] \in T /\ t[2] \notin S
      BY <1>0, <1>8, <1>9
    <2> HIDE DEF S, T
    <2>2. S \cup {t[2]} \in SUBSET T /\ IsFiniteSet(S) /\ Cardinality(S) \in Nat
      BY <2>1, EpochsCount
    <2>3. /\ Cardinality(S \cup {t[2]}) = Cardinality(S) + 1
      BY <2>1, <2>2, FS_AddElement
    <2>4. Cardinality(T) \in Nat /\ Cardinality(S \cup {t[2]}) <= Cardinality(T)
      BY <2>1, <2>2, EpochsCount
    <2>5. Cardinality(S) + 1 <= Cardinality(T)
      BY <2>3, <2>4
    <2> QED
      BY <2>2, <2>4, <2>5 DEF S, T
  <1>11. rows[t[1]].retries <= Cardinality(Spent(t[1])) /\ rows[t[1]].retries \in Nat
    BY <1>0 DEF Charged, TypeOK, Row
  <1>12. Charged'
    <2> SUFFICES ASSUME NEW n \in Node \ Tool
                 PROVE  rows'[n].retries <= Cardinality(Spent(n)')
      BY DEF Charged
    <2>1. CASE n = t[1]
      BY <1>1, <1>10, <1>11, <2>1
    <2>2. CASE n # t[1]
      <3>1. rows'[n].retries = rows[n].retries /\ rows[n].retries \in Nat
        BY <1>0, <1>1, <2>2 DEF TypeOK, Row
      <3>2. rows[n].retries <= Cardinality(Spent(n))
        BY <1>0 DEF Charged
      <3>3. /\ Cardinality(Spent(n)) \in Nat /\ Cardinality(Spent(n)') \in Nat
            /\ Cardinality(Spent(n)) <= Cardinality(Spent(n)')
        BY <1>8, EpochsCount
      <3> QED
        BY <3>1, <3>2, <3>3
    <2> QED
      BY <2>1, <2>2
  <1>13. FailureHasCause'
    <2>1. CASE BlamesNobody
      BY <1>0, <1>3, <2>1, CauseStays DEF BlamesNobody, FailureHasCause, Cause
    <2>2. CASE rows[t[1]].retries >= MaxRetries
      <3>1. Cardinality(Spent(t[1])') > MaxRetries
        BY <1>10, <1>11, <2>2, StepAssumption
      <3>2. Cardinality({e \in Epoch : thread'[<<t[1], e>>] = "raised"}) > MaxRetries
        BY <1>0, <1>8, <3>1
      <3> QED
        BY <1>0, <3>2 DEF FailureHasCause
    <2> QED
      BY <1>1, <2>1, <2>2
  <1> QED
    BY <1>5, <1>6, <1>12, <1>13 DEF CInv, Ledger

-----------------------------------------------------------------------------
(* The steps *)

\* Nothing has been spent on a run not yet ticked.
LEMMA CInvInit == Init => CInv
  <1> SUFFICES ASSUME Init PROVE CInv
    OBVIOUS
  <1>1. Places /\ Fresh /\ FailureHasCause
    BY DEF Init, Places, Fresh, FailureHasCause, Idle
  <1>2. ASSUME NEW n \in Node \ Tool PROVE rows[n].retries <= Cardinality(Spent(n))
    <2>1. rows[n].retries = 0
      BY DEF Init
    <2>2. Spent(n) \in SUBSET Epoch
      BY DEF Spent
    <2>3. Cardinality(Spent(n)) \in Nat
      BY <2>2, EpochsCount
    <2> QED
      BY <2>1, <2>3
  <1> QED
    BY <1>1, <1>2, IInvInit DEF CInv, Ledger, Charged

\* The steps of the tick and of the environment that only move the tick.
LEMMA TickAccounts ==
    ASSUME CInv, IInv',
           \/ Dispatch \/ CheckActive \/ Preflight \/ NoClaim \/ Settle
           \/ CancelTick \/ OrphanEnds \/ Restart \/ CheckHungClaims \/ ReleaseOperation \/ Stop
    PROVE  CInv'
  <1>0. TypeOK
    BY DEF CInv, IInv
  <1>1. thread' = thread
    BY DEF Dispatch, CheckActive, Preflight, NoClaim, Settle, CancelTick, OrphanEnds, Restart,
           CheckHungClaims, ReleaseOperation, Stop
  <1>2. tick' = tick \/ tick'.phase \notin {"tool", "executing", "delivering"}
    BY <1>0 DEF Dispatch, CheckActive, Preflight, NoClaim, Settle, CancelTick, OrphanEnds,
           Restart, CheckHungClaims, ReleaseOperation, Stop, At, Idle, TypeOK, TickRecord
  <1>3. RowsPlain /\ BlamesNobody
    <2>1. CASE Dispatch \/ Preflight \/ OrphanEnds
      BY <2>1, StayingIsPlain DEF Dispatch, Preflight, OrphanEnds, engine
    <2>2. CASE CheckActive \/ NoClaim \/ Stop
      BY <1>0, <2>2, StayingIsPlain, FailRunIsPlain DEF CheckActive, NoClaim, Stop, engine
    <2>3. CASE Settle \/ ReleaseOperation
      BY <1>0, <2>3, RetireOpIsPlain DEF Settle, ReleaseOperation
    <2>4. CASE Restart \/ CheckHungClaims
      <3>1. run' = run /\ (rows' = Reaped \/ rows' = rows)
        BY <2>4 DEF Restart, CheckHungClaims
      <3> QED
        BY <1>0, <3>1, ClosedIsPlain DEF RowsPlain, BlamesNobody
    <2>5. CASE CancelTick
      <3>1. BlamesNobody
        BY <2>5 DEF CancelTick, BlamesNobody
      <3>2. RowsPlain
        BY <1>0, <2>5 DEF CancelTick, RowsPlain, TypeOK, Row
      <3> QED
        BY <3>1, <3>2
    <2> QED
      BY <2>1, <2>2, <2>3, <2>4, <2>5
  <1> QED
    BY <1>1, <1>2, <1>3, PlainKeeps DEF MarksStay

\* A death leaves what executors ended with on record.
LEMMA CrashAccounts == ASSUME CInv, IInv', Crash PROVE CInv'
  <1>1. \A t \in Token : thread'[t] = IF thread[t] \in {"raised", "gaveup"} THEN thread[t]
                                      ELSE IF thread[t] = "broken" THEN "gaveup" ELSE "none"
    BY DEF Crash
  <1>2. MarksStay /\ \A t \in Token : thread[t] = "none" => thread'[t] = "none"
    BY <1>1 DEF MarksStay
  <1>3. RowsPlain /\ BlamesNobody
    BY StayingIsPlain DEF Crash
  <1>4. tick'.phase = "idle"
    BY DEF Crash, Idle
  <1> QED
    BY <1>2, <1>3, <1>4, PlainKeeps

\* advance_run reaps, and takes an inline tool in hand.
LEMMA AdvanceAccounts == ASSUME CInv, IInv', Advance PROVE CInv'
  <1>0. /\ IInv /\ Places /\ Fresh /\ Charged /\ FailureHasCause /\ TypeOK /\ TypeOK'
    BY DEF CInv, Ledger, IInv
  <1>1. thread' = thread
    BY DEF Advance
  <1>2. RowsPlain
    BY <1>0, ClosedIsPlain DEF Advance, RowsPlain
  <1>3. BlamesNobody
    BY <1>0 DEF Advance, BlamesNobody, TypeOK, RunRecord
  <1>4. CASE tick' \in {At("toClaim"), Idle}
    <2>1. tick'.phase \in {"toClaim", "idle"}
      BY <1>0, <1>4 DEF At, Idle, TypeOK, TickRecord
    <2> QED
      BY <1>1, <1>2, <1>3, <2>1, PlainKeeps DEF MarksStay
  <1>5. CASE run.node \in Tool
             /\ tick' = [phase |-> "tool", node |-> run.node, epoch |-> rows[run.node].epoch + 1]
    <2>1. tick'.phase = "tool" /\ tick'.node \in Tool
      BY <1>5
    <2>2. Places' /\ \A t \in Token : Working(t)' => Working(t)
      BY <2>1 DEF Places, Working
    <2>3. Fresh' /\ Charged'
      BY <1>0, <1>1, <1>2, <2>2, UnchargedKeeps
    <2>4. FailureHasCause'
      BY <1>0, <1>1, <1>3, CauseStays DEF BlamesNobody, FailureHasCause, Cause, MarksStay
    <2> QED
      BY <2>2, <2>3, <2>4 DEF CInv, Ledger
  <1> QED
    BY <1>4, <1>5 DEF Advance

\* An inline tool's claim is outside the accounts of the claimed steps.
LEMMA StartToolAccounts == ASSUME CInv, IInv', StartTool PROVE CInv'
  <1> DEFINE t == <<tick.node, tick.epoch>>
  <1>0. /\ IInv /\ Places /\ Fresh /\ Charged /\ FailureHasCause /\ TypeOK /\ TypeOK'
        /\ tick.phase = "tool" /\ tick.node \in Tool /\ run' = run
    BY DEF CInv, Ledger, IInv, Places, StartTool
  <1>1. CASE tick' = [Idle EXCEPT !.phase = "toClaim"] /\ UNCHANGED <<rows, thread>>
    <2>1. tick'.phase = "toClaim"
      BY <1>1 DEF Idle
    <2> QED
      BY <1>0, <1>1, <2>1, StayingIsPlain, PlainKeeps DEF MarksStay
  <1>2. CASE /\ Running
             /\ rows' = [rows EXCEPT ![tick.node].status = "claimed", ![tick.node].epoch = t[2],
                                     ![tick.node].by = gen]
             /\ Set(t, "op") /\ tick' = At("advancing")
    <2>1. \A n \in Node \ Tool : rows'[n] = rows[n]
      BY <1>0, <1>2 DEF TypeOK
    <2>2. \A u \in Token : u[1] \notin Tool => thread'[u] = thread[u]
      BY <1>0, <1>2, Setting DEF ThreadPhase
    <2>3. tick'.phase = "advancing"
      BY <1>0, <1>2 DEF TypeOK, TickRecord, At
    <2>4. Places' /\ \A u \in Token : Working(u)' => Working(u)
      BY <2>3 DEF Places, Working
    <2>5. Fresh' /\ Charged'
      BY <1>0, <2>1, <2>2, <2>4, UnchargedKeeps DEF RowsPlain
    <2>6. FailureHasCause'
      BY <1>0, <1>2 DEF FailureHasCause, Running
    <2> QED
      BY <2>4, <2>5, <2>6 DEF CInv, Ledger
  <1> QED
    BY <1>1, <1>2 DEF StartTool

\* A claim is made under an epoch no executor has worked under.
LEMMA ClaimAccounts == ASSUME CInv, IInv', ClaimNextStep PROVE CInv'
  <1> DEFINE n == run.node
             e == rows[n].epoch + 1
  <1>0. /\ IInv /\ Places /\ Fresh /\ Charged /\ FailureHasCause /\ TypeOK /\ TypeOK'
        /\ tick.phase = "claiming"
    BY DEF CInv, Ledger, IInv, ClaimNextStep
  <1>1. CASE tick' = At("noClaim") /\ UNCHANGED <<run, rows, thread>>
    <2>1. tick'.phase = "noClaim"
      BY <1>0, <1>1 DEF At, TypeOK, TickRecord
    <2> QED
      BY <1>1, <2>1, StayingIsPlain, PlainKeeps DEF MarksStay
  <1>2. CASE FailRun /\ tick' = Idle /\ UNCHANGED thread
    <2>1. tick'.phase = "idle"
      BY <1>2 DEF Idle
    <2> QED
      BY <1>0, <1>2, <2>1, FailRunIsPlain, PlainKeeps DEF MarksStay
  <1>3. CASE /\ Running /\ n \in Node \ Tool
             /\ rows' = [rows EXCEPT ![n].status = "claimed", ![n].epoch = e, ![n].by = gen]
             /\ Set(<<n, e>>, "work")
             /\ tick' = [phase |-> "executing", node |-> n, epoch |-> e]
             /\ UNCHANGED run
    <2>1. /\ n \in Node \ Tool /\ rows[n] \in Row /\ rows[n].epoch \in Nat /\ e = rows[n].epoch + 1
          /\ e \in Nat
      BY <1>0, <1>3 DEF TypeOK, Row
    <2>2. /\ thread' \in [Token -> ThreadPhase]
          /\ \A u \in Token : thread'[u] = IF u = <<n, e>> THEN "work" ELSE thread[u]
      BY <1>0, <1>3, Setting DEF ThreadPhase
    <2>3. /\ tick'.phase = "executing" /\ tick'.node = n /\ tick'.epoch = e
      BY <1>3
    <2>4. /\ \A m \in Node : rows'[m].retries = rows[m].retries
          /\ \A m \in Node \ {n} : rows'[m] = rows[m]
          /\ rows'[n].epoch = e
      BY <1>0, <1>3, <2>1 DEF TypeOK, Row
    <2> HIDE DEF n, e
    <2>5. Places'
      BY <2>1, <2>3 DEF Places
    <2>6. Fresh'
      <3> SUFFICES ASSUME NEW u \in Token, u[1] \notin Tool, thread'[u] # "none"
                   PROVE  u[2] <= rows'[u[1]].epoch
        BY DEF Fresh
      <3>1. CASE u = <<n, e>>
        BY <2>1, <2>4, <3>1
      <3>2. CASE u # <<n, e>>
        <4>1. u[2] <= rows[u[1]].epoch /\ u[1] \in Node /\ u[2] \in Nat
          BY <1>0, <2>2, <3>2, TokenPairs DEF Fresh, Epoch
        <4> QED
          BY <2>1, <2>4, <4>1
      <3> QED
        BY <3>1, <3>2
    <2>7. Charged'
      <3> SUFFICES ASSUME NEW m \in Node \ Tool
                   PROVE  rows'[m].retries <= Cardinality(Spent(m)')
        BY DEF Charged
      <3>1. ASSUME NEW i \in Spent(m) PROVE i \in Spent(m)'
        <4>1. <<m, i>> \in Token /\ i \in Epoch /\ i \in Nat /\ thread[<<m, i>>] = "raised"
          BY DEF Spent, Token, Epoch
        <4>2. i <= rows[m].epoch
          BY <1>0, <4>1 DEF Fresh
        <4>3. <<m, i>> # <<n, e>>
          BY <2>1, <4>1, <4>2
        <4>4. thread'[<<m, i>>] = "raised"
          BY <2>2, <4>1, <4>3
        <4>5. ~Working(<<m, i>>)'
          BY <2>3, <4>3 DEF Working, Holding
        <4> QED
          BY <4>1, <4>4, <4>5 DEF Spent
      <3>2. Spent(m)' \in SUBSET Epoch /\ Spent(m) \in SUBSET Spent(m)'
        BY <3>1 DEF Spent
      <3>3. /\ Cardinality(Spent(m)) \in Nat /\ Cardinality(Spent(m)') \in Nat
            /\ Cardinality(Spent(m)) <= Cardinality(Spent(m)')
        BY <3>2, EpochsCount
      <3>4. /\ rows'[m].retries = rows[m].retries /\ rows[m].retries \in Nat
            /\ rows[m].retries <= Cardinality(Spent(m))
        BY <1>0, <2>4 DEF Charged, TypeOK, Row
      <3> QED
        BY <3>3, <3>4
    <2>8. FailureHasCause'
      BY <1>3 DEF FailureHasCause, Running
    <2> QED
      BY <2>5, <2>6, <2>7, <2>8 DEF CInv, Ledger
  <1> QED
    BY <1>1, <1>2, <1>3 DEF ClaimNextStep

\* Executor threads and inline tools.
LEMMA ThreadAccounts ==
    ASSUME CInv, IInv', NEW t \in Token,
           \/ StartCall(t) \/ EndCall(t) \/ EndTool(t) \/ RetireTool(t) \/ Return(t)
    PROVE  CInv'
  <1>0. /\ IInv /\ Places /\ Fresh /\ Charged /\ FailureHasCause /\ TypeOK /\ TypeOK'
    BY DEF CInv, Ledger, IInv
  <1>1. CASE StartCall(t) \/ EndCall(t) \/ Return(t)
    <2>1. PICK x \in {"op", "work", "returned", "raised", "gaveup"} : Set(t, x)
      BY <1>1 DEF StartCall, EndCall, Return
    <2>2. \A u \in Token : thread'[u] = IF u = t THEN x ELSE thread[u]
      BY <1>0, <2>1, Setting DEF ThreadPhase
    <2>3. thread[t] \in {"work", "op"} /\ tick' = tick
      BY <1>1 DEF StartCall, EndCall, Return
    <2>4. RowsPlain /\ BlamesNobody
      BY <1>0, <1>1, StayingIsPlain, RetireOpIsPlain DEF StartCall, EndCall, Return, engine
    <2> QED
      BY <2>2, <2>3, <2>4, PlainKeeps DEF MarksStay
  <1>2. CASE RetireTool(t)
    <2> DEFINE x == IF thread[t] = "broken" THEN "gaveup" ELSE "none"
    <2>1. /\ thread[t] \in {"settling", "broken"} /\ Set(t, x)
          /\ RowsPlain /\ BlamesNobody
      BY <1>0, <1>2, RetireOpIsPlain DEF RetireTool
    <2>2. \A u \in Token : thread'[u] = IF u = t THEN x ELSE thread[u]
      BY <1>0, <2>1, Setting DEF ThreadPhase
    <2>3. tick' = tick \/ tick'.phase \in {"advance", "toClaim"}
      BY <1>2 DEF RetireTool, Idle
    <2> QED
      BY <2>1, <2>2, <2>3, PlainKeeps DEF MarksStay
  <1>3. CASE EndTool(t)
    <2>1. PICK x \in {"settling", "broken"} : Set(t, x)
      BY <1>3 DEF EndTool
    <2>2. \A u \in Token : thread'[u] = IF u = t THEN x ELSE thread[u]
      BY <1>0, <2>1, Setting DEF ThreadPhase
    <2>3. /\ thread[t] = "op" /\ t[1] \in Tool /\ tick' = tick
          /\ t[1] \in Node /\ t[2] \in Epoch /\ t = <<t[1], t[2]>>
      BY <1>3, TokenPairs DEF EndTool
    <2>4. RowsPlain
      BY <1>0, <1>3, <2>3 DEF EndTool, RowsPlain, TypeOK
    <2>5. MarksStay
      BY <2>2, <2>3 DEF MarksStay
    <2>6. Places' /\ \A u \in Token : Working(u)' => Working(u)
      BY <1>0, <2>2, <2>3 DEF Places, Working, Holding
    <2>7. Fresh' /\ Charged'
      BY <1>0, <2>2, <2>3, <2>4, <2>6, UnchargedKeeps
    <2>8. FailureHasCause'
      <3>1. BlamesNobody \/ thread'[t] = "broken"
        <4>1. CASE run' = [run EXCEPT !.node = t[1] + 1] \/ run' = run
          BY <1>0, <4>1 DEF BlamesNobody, TypeOK, RunRecord
        <4>2. CASE Set(t, "broken")
          BY <1>0, <4>2, Setting DEF ThreadPhase
        <4> QED
          BY <1>3, <4>1, <4>2 DEF EndTool
      <3>2. CASE BlamesNobody
        BY <1>0, <2>5, <3>2, CauseStays DEF BlamesNobody, FailureHasCause, Cause
      <3>3. CASE thread'[t] = "broken"
        BY <2>3, <3>3 DEF FailureHasCause
      <3> QED
        BY <3>1, <3>2, <3>3
    <2> QED
      BY <2>6, <2>7, <2>8 DEF CInv, Ledger
  <1> QED
    BY <1>1, <1>2, <1>3

\* The tick after its executor ended.
LEMMA OutcomeAccounts ==
    ASSUME CInv, IInv', NEW t \in Token, Confirm(t) \/ Deliver(t) \/ StepFailed(t)
    PROVE  CInv'
  <1>0. /\ IInv /\ Places /\ Fresh /\ Charged /\ FailureHasCause /\ TypeOK /\ TypeOK'
        /\ t[1] \in Node /\ t[2] \in Epoch /\ t = <<t[1], t[2]>>
    BY TokenPairs DEF CInv, Ledger, IInv
  <1>1. CASE Confirm(t)
    <2>1. tick.phase = "executing" /\ Holding(t) /\ thread[t] = "returned" /\ Working(t)
      BY <1>1 DEF Confirm, Working
    <2>2. CASE tick' = At("delivering") /\ UNCHANGED <<run, rows, thread>>
      <3>1. tick'.phase = "delivering" /\ tick'.node = tick.node /\ tick'.epoch = tick.epoch
        BY <1>0, <2>2 DEF At, TypeOK, TickRecord
      <3>2. \A u \in Token : Working(u)' => Working(u)
        BY <2>1, <3>1 DEF Working, Holding
      <3>3. \A u \in Token : Holding(u)' => u = t
        BY <1>0, <2>1, <3>1, TokenPairs DEF Holding
      <3>4. Places'
        BY <1>0, <2>1, <2>2, <3>1, <3>3 DEF Places
      <3>5. Fresh' /\ Charged'
        BY <1>0, <2>2, <3>2, StayingIsPlain, UnchargedKeeps
      <3>6. FailureHasCause'
        BY <1>0, <2>2 DEF FailureHasCause
      <3> QED
        BY <3>4, <3>5, <3>6 DEF CInv, Ledger
    <2>3. CASE Set(t, "refused") /\ tick' = Idle /\ UNCHANGED <<run, rows>>
      <3>1. \A u \in Token : thread'[u] = IF u = t THEN "refused" ELSE thread[u]
        BY <1>0, <2>3, Setting DEF ThreadPhase
      <3>2. tick'.phase = "idle"
        BY <2>3 DEF Idle
      <3> QED
        BY <2>1, <2>3, <3>1, <3>2, StayingIsPlain, PlainKeeps DEF MarksStay
    <2>4. CASE FailStep(t, TRUE) /\ Set(t, "raised") /\ tick' = Idle
      <3>1. tick'.phase = "idle" /\ thread' = [thread EXCEPT ![t] = "raised"]
        BY <2>4 DEF Idle, Set
      <3> QED
        BY <2>1, <2>4, <3>1, RaisedPays
    <2> QED
      BY <1>1, <2>2, <2>3, <2>4 DEF Confirm
  <1>2. CASE Deliver(t)
    <2>1. tick.phase = "delivering" /\ Holding(t) /\ thread[t] = "returned" /\ Working(t)
      BY <1>0, <1>2 DEF Deliver, Working, Places
    <2>2. tick'.phase = "settling"
      BY <1>0, <1>2 DEF Deliver, At, TypeOK, TickRecord
    <2>3. CASE rows' = [rows EXCEPT ![t[1]].status = "completed"]
               /\ run' = [run EXCEPT !.node = t[1] + 1] /\ UNCHANGED thread
      <3>1. RowsPlain
        BY <1>0, <2>3 DEF RowsPlain, TypeOK, Row
      <3>2. BlamesNobody
        BY <1>0, <2>3 DEF BlamesNobody, TypeOK, RunRecord
      <3> QED
        BY <2>2, <2>3, <3>1, <3>2, PlainKeeps DEF MarksStay
    <2>4. CASE FailStep(t, TRUE) /\ Set(t, "raised")
      <3>1. thread' = [thread EXCEPT ![t] = "raised"]
        BY <2>4 DEF Set
      <3> QED
        BY <2>1, <2>2, <2>4, <3>1, RaisedPays
    <2> QED
      BY <1>2, <2>3, <2>4 DEF Deliver
  <1>3. CASE StepFailed(t)
    <2>1. /\ tick.phase = "executing" /\ Holding(t) /\ Working(t) /\ thread' = thread
          /\ tick'.phase = "idle"
      BY <1>3 DEF StepFailed, Working, Idle
    <2>2. CASE thread[t] = "raised"
      <3>1. FailStep(t, TRUE) /\ thread' = [thread EXCEPT ![t] = "raised"]
        BY <1>0, <1>3, <2>1, <2>2 DEF StepFailed, TypeOK
      <3> QED
        BY <2>1, <2>2, <3>1, RaisedPays
    <2>3. CASE thread[t] = "gaveup"
      <3>1. FailStep(t, FALSE)
        BY <1>3, <2>3 DEF StepFailed
      <3>2. RowsPlain
        BY <1>0, <3>1, FailStepAccounts DEF RowsPlain
      <3>3. Places' /\ \A u \in Token : Working(u)' => Working(u)
        BY <2>1 DEF Places, Working
      <3>4. Fresh' /\ Charged'
        BY <1>0, <2>1, <3>2, <3>3, UnchargedKeeps
      <3>5. FailureHasCause'
        BY <1>0, <2>1, <2>3 DEF FailureHasCause
      <3> QED
        BY <3>3, <3>4, <3>5 DEF CInv, Ledger
    <2> QED
      BY <1>3, <2>2, <2>3 DEF StepFailed
  <1> QED
    BY <1>1, <1>2, <1>3

\* The accounts are kept by every step.
LEMMA CInvInductive == CInv /\ [Next]_vars => CInv'
  <1>1. ASSUME CInv, [Next]_vars PROVE IInv'
    BY <1>1, IInvInductive DEF CInv
  <1>2. ASSUME CInv, Next PROVE CInv'
    BY <1>1, <1>2, TickAccounts, CrashAccounts, AdvanceAccounts, StartToolAccounts, ClaimAccounts,
       ThreadAccounts, OutcomeAccounts DEF Next, TickStep, ToolStep
  <1>3. ASSUME CInv, UNCHANGED vars PROVE CInv'
    <2>1. RowsPlain /\ BlamesNobody /\ thread' = thread /\ tick' = tick
      BY <1>3, StayingIsPlain DEF vars
    <2> QED
      BY <1>1, <1>3, <2>1, PlainKeeps DEF MarksStay
  <1> QED
    BY <1>2, <1>3

\* A run that failed without being cancelled failed on its own work: an executor
\* gave up, or a step raised more often than its retry budget allows, however
\* often ticks were cancelled, claims reaped and the server restarted.
THEOREM FailuresHaveCauses == Spec => []FailureHasCause
  <1>1. CInv => FailureHasCause
    BY DEF CInv
  <1> QED
    BY <1>1, CInvInit, CInvInductive, PTL DEF Spec

=============================================================================
