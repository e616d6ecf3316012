------------------------- MODULE StateLaunchProofs -------------------------
(***************************************************************************)
(* Theorems about StateLaunch, for any callers and any number of runs and  *)
(* crashes.                                                                *)
(***************************************************************************)
EXTENDS StateLaunch, FiniteSetTheorems, SequenceTheorems, TLAPS

-----------------------------------------------------------------------------
(* The invariant *)

AttemptStatus == ACTIVE \cup {"failed", "superseded", "candidate"}
RunStatus == {"pending", "running"} \cup ENDED
CallStep == {"idle", "list", "preflight", "claim", "register", "publish", "create", "isolate",
             "start", "uncertain", "bind", "observe"}
PollStep == {"idle", "gate", "create", "isolate", "start"}

LTypes ==
    /\ attempt \in [status : AttemptStatus, run : Nat]
    /\ project \in BOOLEAN /\ seed \in BOOLEAN /\ runs \in Seq(RunStatus)
    /\ pc \in [Caller -> CallStep] /\ target \in [Caller -> Nat]
    /\ poll \in PollStep /\ adopted \in Nat /\ opened \in BOOLEAN

\* Nothing was done for the attempt, and nobody is about to.
Untouched == ~project /\ ~seed /\ runs = <<>> /\ Dispatching = {}

\* The launch's effects come in order, and none before claim_launch: the intent
\* that did not pass it is untouched.
Phases ==
    /\ attempt.status = "reserved" => attempt.run = 0
    /\ attempt.run = 0 /\ attempt.status \in {"reserved", "failed", "superseded"} => Untouched
    /\ seed => project
    /\ runs # <<>> => project /\ (seed \/ opened)

\* What a call may rely on at each of its steps.
Calls ==
    \A c \in Caller :
        /\ pc[c] \in {"publish", "create", "isolate", "start"} => project
        /\ pc[c] \in {"create", "isolate", "start"} => seed
        /\ pc[c] \in {"isolate", "start", "bind"} => target[c] \in 1..Len(runs)
        /\ pc[c] = "start" => target[c] \in isolated
        /\ pc[c] = "observe" => attempt.run # 0

\* What the poller may rely on.
Polling ==
    /\ poll # "idle" => project
    /\ poll \in {"create", "isolate", "start"} => seed \/ opened
    /\ poll \in {"isolate", "start"} => adopted \in 1..Len(runs)
    /\ poll = "start" => adopted \in isolated

Unique == \A c, e \in Dispatching : c = e

Prepared == \A r \in 1..Len(runs) : runs[r] \in {"running", "completed"} => r \in isolated

LInv == LTypes /\ Phases /\ Calls /\ Polling /\ Unique /\ Prepared

\* The invariant holds of the reserved attempt.
LEMMA LInvInit == Init => LInv
  <1> SUFFICES ASSUME Init PROVE LInv
    OBVIOUS
  <1>1. LTypes
    <2>1. runs \in Seq(RunStatus)
      BY EmptySeq DEF Init
    <2> QED
      BY <2>1 DEF Init, LTypes, AttemptStatus, ACTIVE, Idle, CallStep, PollStep
  <1>2. Dispatching = {}
    BY DEF Init, Dispatching, Idle
  <1> QED
    BY <1>1, <1>2 DEF Init, LInv, Phases, Untouched, Calls, Polling, Unique, Prepared, Idle

DispatchStep == {"register", "publish", "create", "isolate", "start"}

\* A call moves on without effects outside the attempt row.
LEMMA CallAdvances ==
    ASSUME LInv, NEW c \in Caller, NEW st \in CallStep, pc' = [pc EXCEPT ![c] = st],
           UNCHANGED <<project, seed, runs, isolated, poll, adopted, opened>>,
           target' \in [Caller -> Nat], \A e \in Caller \ {c} : target'[e] = target[e],
           attempt' \in [status : AttemptStatus, run : Nat],
           attempt.run # 0 => attempt'.run # 0,
           attempt'.status = "reserved" => attempt'.run = 0,
           attempt'.run = 0 /\ attempt'.status \in {"reserved", "failed", "superseded"}
              => Untouched /\ st \notin DispatchStep,
           st \in DispatchStep => st = "register" /\ Dispatching = {},
           st = "bind" => target'[c] \in 1..Len(runs),
           st = "observe" => attempt'.run # 0
    PROVE  LInv'
  <1>1. /\ pc \in [Caller -> CallStep] /\ pc'[c] = st
        /\ \A e \in Caller \ {c} : pc'[e] = pc[e]
    BY DEF LInv, LTypes
  <1>2. LTypes'
    BY <1>1 DEF LInv, LTypes
  <1>3. Dispatching' \subseteq Dispatching \cup {c} /\ (st \notin DispatchStep => c \notin Dispatching')
    BY <1>1 DEF Dispatching, DispatchStep
  <1>4. Unique'
    <2>1. CASE st \in DispatchStep
      BY <1>3, <2>1 DEF Unique
    <2>2. CASE st \notin DispatchStep
      BY <1>3, <2>2 DEF LInv, Unique
    <2> QED
      BY <2>1, <2>2
  <1>5. Phases'
    <2>1. st \notin DispatchStep /\ Untouched => Untouched'
      BY <1>3 DEF Untouched
    <2> QED
      BY <2>1 DEF LInv, Phases
  <1>6. Calls'
    <2>1. st \notin {"publish", "create", "isolate", "start"}
      BY DEF DispatchStep
    <2> QED
      BY <1>1, <2>1 DEF LInv, Calls
  <1>7. Polling' /\ Prepared'
    BY DEF LInv, Polling, Prepared
  <1> QED
    BY <1>2, <1>4, <1>5, <1>6, <1>7 DEF LInv

\* The steps of a call around the launch itself.
LEMMA CallStepsStand ==
    ASSUME LInv, NEW c \in Caller,
           \/ Begin(c) \/ List(c)
           \/ \E as \in {"failed", "superseded"} : PreflightRefused(c, as)
           \/ PreflightRaised(c) \/ PreflightPassed(c) \/ ClaimLaunch(c)
           \/ LaunchUncertain(c) \/ BindRun(c) \/ Observe(c)
    PROVE  LInv'
  <1>0. /\ attempt \in [status : AttemptStatus, run : Nat] /\ target \in [Caller -> Nat]
        /\ attempt = [status |-> attempt.status, run |-> attempt.run]
        /\ attempt.status \in AttemptStatus /\ attempt.run \in Nat
    BY DEF LInv, LTypes
  <1>1. /\ attempt.status = "reserved" => attempt.run = 0
        /\ attempt.run = 0 /\ attempt.status \in {"reserved", "failed", "superseded"} => Untouched
    BY DEF LInv, Phases
  <1>2. ASSUME attempt' = attempt, target' = target, NEW st \in CallStep,
               st \notin DispatchStep \cup {"bind"}, st = "observe" => attempt.run # 0,
               pc' = [pc EXCEPT ![c] = st], UNCHANGED <<project, seed, runs, isolated, poll, adopted, opened>>
        PROVE  LInv'
    BY <1>0, <1>1, <1>2, CallAdvances
  <1>3. CASE Begin(c)
    <2> DEFINE st == IF attempt.run # 0 THEN "observe" ELSE "list"
    <2>1. st \in CallStep /\ st \notin DispatchStep \cup {"bind"} /\ (st = "observe" => attempt.run # 0)
      BY DEF CallStep, DispatchStep
    <2>2. /\ pc' = [pc EXCEPT ![c] = st] /\ attempt' = attempt /\ target' = target
          /\ UNCHANGED <<project, seed, runs, isolated, poll, adopted, opened>>
      BY <1>3 DEF Begin
    <2> HIDE DEF st
    <2> QED
      BY <1>2, <2>1, <2>2
  <1>4. CASE List(c)
    <2> DEFINE st == CASE Len(runs) = 1 -> "bind"
                       [] Len(runs) = 0 /\ view[c] = "reserved" -> "preflight"
                       [] OTHER -> "idle"
               t == IF Len(runs) = 1 THEN 1 ELSE 0
    <2>1. /\ st \in {"bind", "preflight", "idle"} /\ (st = "bind" => Len(runs) = 1)
      OBVIOUS
    <2>2. /\ pc' = [pc EXCEPT ![c] = st] /\ attempt' = attempt /\ target' = [target EXCEPT ![c] = t]
          /\ UNCHANGED <<project, seed, runs, isolated, poll, adopted, opened>>
      BY <1>4 DEF List, Run
    <2>3. t \in Nat /\ (Len(runs) = 1 => t \in 1..Len(runs))
      OBVIOUS
    <2> HIDE DEF st, t
    <2>4. st \in CallStep /\ st \notin DispatchStep /\ st # "observe"
      BY <2>1 DEF CallStep, DispatchStep
    <2>5. /\ target' \in [Caller -> Nat] /\ \A e \in Caller \ {c} : target'[e] = target[e]
          /\ st = "bind" => target'[c] \in 1..Len(runs)
      BY <1>0, <2>1, <2>2, <2>3
    <2> QED
      BY <1>0, <1>1, <2>2, <2>4, <2>5, CallAdvances
  <1>5. ASSUME NEW as \in {"failed", "superseded"}, PreflightRefused(c, as) PROVE LInv'
    <2>1. /\ pc' = [pc EXCEPT ![c] = "idle"] /\ target' = target /\ attempt.status = "reserved"
          /\ attempt.run = 0 /\ attempt' = [attempt EXCEPT !.status = as]
          /\ UNCHANGED <<project, seed, runs, isolated, poll, adopted, opened>>
      BY <1>5 DEF PreflightRefused, Run
    <2>2. /\ attempt' \in [status : AttemptStatus, run : Nat] /\ attempt'.run = 0
          /\ attempt'.status = as
      BY <1>0, <2>1 DEF AttemptStatus
    <2>3. "idle" \in CallStep /\ "idle" \notin DispatchStep
      BY DEF CallStep, DispatchStep
    <2> QED
      BY <1>0, <1>1, <2>1, <2>2, <2>3, CallAdvances
  <1>6. CASE PreflightRaised(c) \/ PreflightPassed(c)
    BY <1>2, <1>6 DEF PreflightRaised, PreflightPassed, Run, CallStep, DispatchStep
  <1>7. CASE ClaimLaunch(c)
    <2>1. CASE attempt.status # "reserved"
      BY <1>2, <1>7, <2>1 DEF ClaimLaunch, Run, CallStep, DispatchStep
    <2>2. CASE attempt.status = "reserved" /\ current
      <3>1. /\ pc' = [pc EXCEPT ![c] = "register"] /\ target' = target
            /\ attempt' = [attempt EXCEPT !.status = "launching"]
            /\ UNCHANGED <<project, seed, runs, isolated, poll, adopted, opened>>
        BY <1>7, <2>2 DEF ClaimLaunch, Run
      <3>2. /\ attempt' \in [status : AttemptStatus, run : Nat] /\ attempt'.run = attempt.run
            /\ attempt'.status = "launching"
        BY <1>0, <3>1 DEF AttemptStatus, ACTIVE
      <3>3. "register" \in CallStep /\ Dispatching = {}
        BY <1>1, <2>2 DEF CallStep, Untouched
      <3> QED
        BY <1>0, <1>1, <3>1, <3>2, <3>3, CallAdvances
    <2>3. CASE attempt.status = "reserved" /\ ~current
      <3>1. /\ pc' = [pc EXCEPT ![c] = "idle"] /\ target' = target
            /\ attempt' = [attempt EXCEPT !.status = "superseded"]
            /\ UNCHANGED <<project, seed, runs, isolated, poll, adopted, opened>>
        BY <1>7, <2>3 DEF ClaimLaunch, Run
      <3>2. /\ attempt' \in [status : AttemptStatus, run : Nat] /\ attempt'.run = attempt.run
            /\ attempt'.status = "superseded"
        BY <1>0, <3>1 DEF AttemptStatus
      <3>3. "idle" \in CallStep /\ "idle" \notin DispatchStep /\ Untouched
        BY <1>1, <2>3 DEF CallStep, DispatchStep
      <3> QED
        BY <1>0, <1>1, <3>1, <3>2, <3>3, CallAdvances
    <2> QED
      BY <2>1, <2>2, <2>3
  <1>8. CASE LaunchUncertain(c)
    <2>1. /\ pc' = [pc EXCEPT ![c] = "idle"] /\ target' = target
          /\ UNCHANGED <<project, seed, runs, isolated, poll, adopted, opened>>
          /\ "idle" \in CallStep /\ "idle" \notin DispatchStep
      BY <1>8 DEF LaunchUncertain, Run, CallStep, DispatchStep
    <2>2. CASE attempt' = attempt
      BY <1>2, <2>1, <2>2
    <2>3. CASE attempt' = [attempt EXCEPT !.status = "unknown"]
      <3>1. /\ attempt' \in [status : AttemptStatus, run : Nat] /\ attempt'.run = attempt.run
            /\ attempt'.status = "unknown"
        BY <1>0, <2>3 DEF AttemptStatus, ACTIVE
      <3> QED
        BY <1>0, <2>1, <3>1, CallAdvances
    <2> QED
      BY <1>8, <2>2, <2>3 DEF LaunchUncertain
  <1>9. CASE BindRun(c)
    <2>0. pc[c] = "bind" /\ target[c] \in 1..Len(runs) /\ target[c] # 0
      BY <1>9 DEF BindRun, Run, LInv, Calls
    <2>1. CASE attempt.run = 0 /\ attempt.status \in ACTIVE
      <3>1. /\ pc' = [pc EXCEPT ![c] = "observe"] /\ target' = target
            /\ attempt' = [status |-> "running", run |-> target[c]]
            /\ UNCHANGED <<project, seed, runs, isolated, poll, adopted, opened>>
        BY <1>9, <2>1 DEF BindRun, Run
      <3>2. /\ attempt' \in [status : AttemptStatus, run : Nat] /\ attempt'.run # 0
            /\ attempt'.status = "running"
        BY <1>0, <2>0, <3>1 DEF AttemptStatus, ACTIVE
      <3>3. "observe" \in CallStep /\ "observe" \notin DispatchStep
        BY DEF CallStep, DispatchStep
      <3> QED
        BY <1>0, <3>1, <3>2, <3>3, CallAdvances
    <2>2. CASE ~(attempt.run = 0 /\ attempt.status \in ACTIVE)
      <3> DEFINE st == IF attempt.run \in {0, target[c]} /\
                          (attempt.run = 0 => attempt.status \in ACTIVE)
                       THEN "observe" ELSE "idle"
      <3>1. /\ pc' = [pc EXCEPT ![c] = st] /\ target' = target /\ attempt' = attempt
            /\ UNCHANGED <<project, seed, runs, isolated, poll, adopted, opened>>
        BY <1>9, <2>2 DEF BindRun, Run
      <3>2. st \in CallStep /\ st \notin DispatchStep \cup {"bind"} /\ (st = "observe" => attempt.run # 0)
        BY <2>2 DEF CallStep, DispatchStep
      <3> HIDE DEF st
      <3> QED
        BY <1>2, <3>1, <3>2
    <2> QED
      BY <2>1, <2>2
  <1>10. CASE Observe(c)
    <2>0. pc[c] = "observe" /\ attempt.run # 0
      BY <1>10 DEF Observe, Run, LInv, Calls
    <2>1. /\ pc' = [pc EXCEPT ![c] = "idle"] /\ target' = target
          /\ UNCHANGED <<project, seed, runs, isolated, poll, adopted, opened>>
          /\ "idle" \in CallStep /\ "idle" \notin DispatchStep
      BY <1>10 DEF Observe, Run, CallStep, DispatchStep
    <2>2. \/ attempt' = attempt
          \/ \E st \in {"running", "superseded", "candidate", "failed"} :
                attempt' = [attempt EXCEPT !.status = st]
      BY <1>10 DEF Observe
    <2>3. CASE attempt' = attempt
      BY <1>2, <2>1, <2>3
    <2>4. ASSUME NEW st \in {"running", "superseded", "candidate", "failed"},
                 attempt' = [attempt EXCEPT !.status = st]
          PROVE  LInv'
      <3>1. /\ attempt' \in [status : AttemptStatus, run : Nat] /\ attempt'.run = attempt.run
            /\ attempt'.status = st
        BY <1>0, <2>4 DEF AttemptStatus, ACTIVE
      <3>2. attempt'.status # "reserved"
        BY <3>1
      <3> QED
        BY <1>0, <2>0, <2>1, <3>1, <3>2, CallAdvances
    <2> QED
      BY <2>2, <2>3, <2>4
  <1> QED
    BY <1>3, <1>4, <1>5, <1>6, <1>7, <1>8, <1>9, <1>10

-----------------------------------------------------------------------------
(* Runs *)

\* What may happen to the runs: they keep their place, and one that is driven has
\* its isolation record.
RunsGo ==
    /\ runs' \in Seq(RunStatus) /\ Len(runs') >= Len(runs) /\ isolated \subseteq isolated'
    /\ \A r \in 1..Len(runs') :
          runs'[r] \in {"running", "completed"} =>
             \/ r \in isolated'
             \/ r \in 1..Len(runs) /\ runs[r] \in {"running", "completed"}

\* One run changes its status.
LEMMA RunChanges ==
    ASSUME runs \in Seq(RunStatus), NEW r \in 1..Len(runs), NEW st \in RunStatus,
           runs' = [runs EXCEPT ![r] = st], isolated \subseteq isolated',
           st \in {"running", "completed"} =>
              r \in isolated' \/ runs[r] \in {"running", "completed"}
    PROVE  RunsGo /\ Len(runs') = Len(runs)
  <1>1. /\ runs' \in Seq(RunStatus) /\ Len(runs') = Len(runs) /\ Len(runs) \in Nat
        /\ \A i \in 1..Len(runs) : runs'[i] = IF i = r THEN st ELSE runs[i]
    BY ExceptSeq, LenProperties
  <1> QED
    BY <1>1 DEF RunsGo

\* The engine's get_or_create_run.
LEMMA RunCreated ==
    ASSUME LInv, NEW r \in RunId, GetOrCreate(r), isolated' = isolated
    PROVE  RunsGo /\ r \in 1..Len(runs') /\ runs' # <<>>
  <1>0. runs \in Seq(RunStatus) /\ Len(runs) \in Nat
    BY LenProperties DEF LInv, LTypes
  <1>1. CASE Live # {}
    <2>1. r \in 1..Len(runs) /\ runs' = runs
      BY <1>1 DEF GetOrCreate, Live
    <2>2. runs # <<>>
      BY <1>0, <2>1
    <2> QED
      BY <1>0, <2>1, <2>2 DEF RunsGo
  <1>2. CASE Live = {}
    <2>1. r = Len(runs) + 1 /\ runs' = Append(runs, "pending")
      BY <1>2 DEF GetOrCreate
    <2>2. /\ runs' \in Seq(RunStatus) /\ Len(runs') = Len(runs) + 1
          /\ \A i \in 1..Len(runs) : runs'[i] = runs[i]
          /\ runs'[Len(runs) + 1] = "pending" /\ runs' # <<>>
      <3>1. "pending" \in RunStatus
        BY DEF RunStatus
      <3> QED
        BY <1>0, <2>1, <3>1, AppendProperties
    <2>3. \A i \in 1..Len(runs') : i \in 1..Len(runs) \/ i = Len(runs) + 1
      BY <1>0, <2>2
    <2> QED
      BY <1>0, <2>1, <2>2, <2>3 DEF RunsGo
  <1> QED
    BY <1>1, <1>2

\* An effect for an attempt past claim_launch.
LEMMA EffectsStand ==
    ASSUME LInv, attempt' = attempt, ~Untouched, project' \in BOOLEAN, seed' \in BOOLEAN,
           project => project', seed => seed', seed' => project', RunsGo,
           runs' # <<>> => project' /\ (seed' \/ opened')
    PROVE  /\ Phases' /\ Prepared'
           /\ \A c \in Caller : \/ pc[c] \notin {"isolate", "start", "bind"}
                               \/ target[c] \in 1..Len(runs')
  <1>1. Len(runs) \in Nat /\ Len(runs') \in Nat /\ Len(runs) <= Len(runs')
    BY LenProperties DEF LInv, LTypes, RunsGo
  <1>2. Phases'
    BY DEF LInv, Phases
  <1>3. Prepared'
    BY DEF LInv, Prepared, RunsGo
  <1>4. \A c \in Caller : pc[c] \in {"isolate", "start", "bind"} => target[c] \in 1..Len(runs')
    BY <1>1 DEF LInv, Calls
  <1> QED
    BY <1>2, <1>3, <1>4

\* The steps of the launch: start_config_run.
LEMMA LaunchStepsStand ==
    ASSUME LInv, NEW c \in Caller,
           \/ Register(c) \/ \E ok \in BOOLEAN : Publish(c, ok)
           \/ Create(c) \/ \E ok \in BOOLEAN : Isolate(c, ok)
           \/ \E to \in {"bind", "uncertain"} : Start(c, to)
    PROVE  LInv'
  <1>0. /\ runs \in Seq(RunStatus) /\ Len(runs) \in Nat /\ project \in BOOLEAN /\ seed \in BOOLEAN
        /\ pc \in [Caller -> CallStep] /\ target \in [Caller -> Nat]
        /\ (seed => project) /\ (runs # <<>> => project /\ (seed \/ opened)) /\ opened \in BOOLEAN
    BY LenProperties DEF LInv, LTypes, Phases
  <1>1. /\ attempt' = attempt /\ UNCHANGED <<poll, adopted>> /\ pc[c] \in DispatchStep
    BY DEF Register, Publish, Create, Isolate, Start, Run, DispatchStep
  <1>2. c \in Dispatching /\ ~Untouched
    BY <1>1 DEF Dispatching, DispatchStep, Untouched
  <1>3. runs' = runs /\ isolated \subseteq isolated' => RunsGo
    BY <1>0 DEF RunsGo
  <1>4. ASSUME NEW st \in CallStep, pc' = [pc EXCEPT ![c] = st],
               project' \in BOOLEAN, seed' \in BOOLEAN, opened' \in BOOLEAN,
               project => project', seed => seed', seed' => project', RunsGo,
               seed \/ opened => seed' \/ opened',
               runs' # <<>> => project' /\ (seed' \/ opened'),
               target' \in [Caller -> Nat], \A e \in Caller \ {c} : target'[e] = target[e],
               st \in {"publish", "create", "isolate", "start"} => project',
               st \in {"create", "isolate", "start"} => seed',
               st \in {"isolate", "start", "bind"} => target'[c] \in 1..Len(runs'),
               st = "start" => target'[c] \in isolated',
               st # "observe"
        PROVE  LInv'
    <2>1. pc'[c] = st /\ \A e \in Caller \ {c} : pc'[e] = pc[e]
      BY <1>0, <1>4
    <2>2. LTypes'
      BY <1>0, <1>1, <1>4 DEF LInv, LTypes, RunsGo
    <2>3. Dispatching' \subseteq Dispatching
      BY <1>2, <2>1 DEF Dispatching
    <2>4. Unique'
      BY <2>3 DEF LInv, Unique
    <2>5. /\ Phases' /\ Prepared'
          /\ \A e \in Caller : \/ pc[e] \notin {"isolate", "start", "bind"}
                              \/ target[e] \in 1..Len(runs')
      BY <1>1, <1>2, <1>4, EffectsStand
    <2>6. Calls'
      BY <1>1, <1>4, <2>1, <2>5 DEF LInv, Calls, RunsGo
    <2>7. Polling'
      <3>1. Len(runs) <= Len(runs') /\ Len(runs') \in Nat /\ isolated \subseteq isolated'
        BY <1>0, <1>4, LenProperties DEF RunsGo
      <3> QED
        BY <1>0, <1>1, <1>4, <3>1 DEF LInv, Polling
    <2> QED
      BY <2>2, <2>4, <2>5, <2>6, <2>7 DEF LInv
  <1>5. CASE Register(c)
    BY <1>0, <1>3, <1>4, <1>5 DEF Register, Run, CallStep
  <1>6. ASSUME NEW ok \in BOOLEAN, Publish(c, ok) PROVE LInv'
    <2>1. project /\ pc[c] = "publish"
      BY <1>6 DEF Publish, Run, LInv, Calls
    <2>2. /\ pc' = [pc EXCEPT ![c] = IF ok THEN "create" ELSE "uncertain"] /\ seed' = (seed \/ ok)
          /\ opened' = (opened /\ ~ok) /\ UNCHANGED <<project, runs, isolated, target>>
      BY <1>6 DEF Publish, Run
    <2>3. CASE ok
      BY <1>0, <1>3, <1>4, <2>1, <2>2, <2>3 DEF CallStep
    <2>4. CASE ~ok
      BY <1>0, <1>3, <1>4, <2>1, <2>2, <2>4 DEF CallStep
    <2> QED
      BY <2>3, <2>4
  <1>7. CASE Create(c)
    <2>1. project /\ seed /\ pc[c] = "create"
      BY <1>7 DEF Create, Run, LInv, Calls
    <2>2. PICK r \in RunId : GetOrCreate(r) /\ target' = [target EXCEPT ![c] = r]
      BY <1>7 DEF Create
    <2>3. /\ pc' = [pc EXCEPT ![c] = "isolate"] /\ UNCHANGED <<project, seed, isolated, opened>>
      BY <1>7 DEF Create, Run
    <2>4. RunsGo /\ r \in 1..Len(runs')
      BY <2>2, <2>3, RunCreated
    <2>5. /\ target' \in [Caller -> Nat] /\ target'[c] = r
          /\ \A e \in Caller \ {c} : target'[e] = target[e]
      BY <1>0, <2>2 DEF RunId
    <2>6. "isolate" \in CallStep
      BY DEF CallStep
    <2> QED
      BY <1>0, <1>4, <2>1, <2>3, <2>4, <2>5, <2>6
  <1>8. ASSUME NEW ok \in BOOLEAN, Isolate(c, ok) PROVE LInv'
    <2>1. project /\ seed /\ target[c] \in 1..Len(runs)
      BY <1>8 DEF Isolate, Run, LInv, Calls
    <2>2. /\ pc' = [pc EXCEPT ![c] = IF ok THEN "start" ELSE "uncertain"]
          /\ isolated' = IF ok THEN isolated \cup {target[c]} ELSE isolated
          /\ UNCHANGED <<project, seed, runs, target, opened>>
      BY <1>8 DEF Isolate, Run
    <2>3. RunsGo
      BY <1>3, <2>2
    <2>4. CASE ok
      BY <1>0, <1>4, <2>1, <2>2, <2>3, <2>4 DEF CallStep
    <2>5. CASE ~ok
      BY <1>0, <1>4, <2>1, <2>2, <2>3, <2>5 DEF CallStep
    <2> QED
      BY <2>4, <2>5
  <1>9. ASSUME NEW to \in {"bind", "uncertain"}, Start(c, to) PROVE LInv'
    <2>1. project /\ seed /\ target[c] \in 1..Len(runs) /\ target[c] \in isolated
      BY <1>9 DEF Start, Run, LInv, Calls
    <2>2. /\ pc' = [pc EXCEPT ![c] = to] /\ UNCHANGED <<project, seed, isolated, target, opened>>
          /\ runs' = IF runs[target[c]] = "pending" THEN [runs EXCEPT ![target[c]] = "running"]
                     ELSE runs
      BY <1>9 DEF Start, Run
    <2>3. RunsGo /\ Len(runs') = Len(runs)
      <3>1. CASE runs' = runs
        BY <1>3, <2>2, <3>1
      <3>2. CASE runs' = [runs EXCEPT ![target[c]] = "running"]
        BY <1>0, <2>1, <2>2, <3>2, RunChanges DEF RunStatus
      <3> QED
        BY <2>2, <3>1, <3>2
    <2>4. to \in CallStep /\ to \notin {"publish", "create", "isolate", "start", "observe"}
      BY DEF CallStep
    <2> QED
      BY <1>0, <1>4, <2>1, <2>2, <2>3, <2>4
  <1> QED
    BY <1>5, <1>6, <1>7, <1>8, <1>9

\* The steps of the poller, and a run that ends by itself.
LEMMA PollerStepsStand ==
    ASSUME LInv, PollNext \/ \E r \in 1..Len(runs), outcome \in ENDED : RunEnds(r, outcome)
    PROVE  LInv'
  <1>0. /\ runs \in Seq(RunStatus) /\ Len(runs) \in Nat /\ project \in BOOLEAN /\ seed \in BOOLEAN
        /\ (seed => project) /\ (runs # <<>> => project /\ (seed \/ opened))
        /\ poll \in PollStep /\ adopted \in Nat /\ opened \in BOOLEAN
    BY LenProperties DEF LInv, LTypes, Phases
  <1>1. UNCHANGED <<attempt, project, seed, pc, target>>
    BY DEF PollNext, PollRead, PollGate, PollRefused, PollCreate, PollIsolate, PollStart,
           RunEnds, host
  <1>2. runs' = runs /\ isolated \subseteq isolated' => RunsGo
    BY <1>0 DEF RunsGo
  <1>3. ASSUME ~Untouched, RunsGo, runs' # <<>> => project /\ (seed \/ opened'),
               poll' \in PollStep, adopted' \in Nat, opened' \in BOOLEAN,
               poll' # "idle" => project,
               poll' \in {"create", "isolate", "start"} => seed \/ opened',
               poll' \in {"isolate", "start"} => adopted' \in 1..Len(runs'),
               poll' = "start" => adopted' \in isolated'
        PROVE  LInv'
    <2>1. LTypes'
      BY <1>1, <1>3 DEF LInv, LTypes, RunsGo
    <2>2. /\ Phases' /\ Prepared'
          /\ \A e \in Caller : \/ pc[e] \notin {"isolate", "start", "bind"}
                              \/ target[e] \in 1..Len(runs')
      BY <1>0, <1>1, <1>3, EffectsStand
    <2>3. Calls'
      BY <1>1, <1>3, <2>2 DEF LInv, Calls, RunsGo
    <2>4. Unique'
      BY <1>1 DEF LInv, Unique, Dispatching
    <2>5. Polling'
      BY <1>1, <1>3 DEF Polling
    <2> QED
      BY <2>1, <2>2, <2>3, <2>4, <2>5 DEF LInv
  <1>4. CASE PollRead \/ PollRefused
    <2>1. UNCHANGED <<runs, isolated, adopted, opened>> /\ poll' \in {"idle", "gate"}
      BY <1>4 DEF PollRead, PollRefused
    <2>2. project
      BY <1>4 DEF PollRead, PollRefused, LInv, Polling
    <2> QED
      BY <1>0, <1>2, <1>3, <2>1, <2>2 DEF Untouched, PollStep
  <1>5. ASSUME NEW raised \in BOOLEAN, PollGate(raised) PROVE LInv'
    <2>1. project
      BY <1>5 DEF PollGate, LInv, Polling
    <2>2. /\ poll' \in {"idle", "create"} /\ UNCHANGED <<runs, isolated, adopted>>
          /\ poll' = "create" => seed \/ opened'
          /\ opened' \in BOOLEAN
          /\ opened => opened'
      BY <1>5 DEF PollGate
    <2> QED
      BY <1>0, <1>2, <1>3, <2>1, <2>2 DEF Untouched, PollStep
  <1>6. CASE PollCreate
    <2>1. project /\ (seed \/ opened)
      BY <1>6 DEF PollCreate, LInv, Polling
    <2>2. PICK r \in RunId : GetOrCreate(r) /\ adopted' = r
      BY <1>6 DEF PollCreate
    <2>3. poll' = "isolate" /\ isolated' = isolated /\ opened' = opened
      BY <1>6 DEF PollCreate
    <2>4. RunsGo /\ r \in 1..Len(runs')
      BY <2>2, <2>3, RunCreated
    <2>5. r \in Nat /\ "isolate" \in PollStep /\ ~Untouched
      BY <2>1 DEF RunId, PollStep, Untouched
    <2> QED
      BY <1>0, <1>3, <2>1, <2>2, <2>3, <2>4, <2>5
  <1>7. ASSUME NEW ok \in BOOLEAN, NEW settles \in BOOLEAN, PollIsolate(ok, settles) PROVE LInv'
    <2>1. project /\ (seed \/ opened) /\ adopted \in 1..Len(runs)
      BY <1>7 DEF PollIsolate, LInv, Polling
    <2>2. /\ poll' = IF ok THEN "start" ELSE "idle"
          /\ isolated' = IF ok THEN isolated \cup {adopted} ELSE isolated
          /\ runs' \in {runs, [runs EXCEPT ![adopted] = "failed"]}
          /\ UNCHANGED <<adopted, opened>>
      BY <1>7 DEF PollIsolate
    <2>3. RunsGo /\ Len(runs') = Len(runs)
      <3>1. CASE runs' = runs
        BY <1>2, <2>2, <3>1
      <3>2. CASE runs' = [runs EXCEPT ![adopted] = "failed"]
        <4>1. "failed" \in RunStatus /\ isolated \subseteq isolated'
          BY <2>2 DEF RunStatus, ENDED
        <4> QED
          BY <1>0, <2>1, <3>2, <4>1, RunChanges
      <3> QED
        BY <2>2, <3>1, <3>2
    <2>4. poll' \in PollStep /\ poll' \notin {"create", "isolate"} /\ ~Untouched
          /\ (poll' = "start" => adopted \in isolated')
      BY <2>1, <2>2 DEF PollStep, Untouched
    <2> QED
      BY <1>0, <1>3, <2>1, <2>2, <2>3, <2>4
  <1>8. CASE PollStart
    <2>1. project /\ (seed \/ opened) /\ adopted \in 1..Len(runs) /\ adopted \in isolated
      BY <1>8 DEF PollStart, LInv, Polling
    <2>2. /\ poll' = "idle" /\ UNCHANGED <<isolated, adopted, opened>>
          /\ runs' = IF runs[adopted] = "pending" THEN [runs EXCEPT ![adopted] = "running"] ELSE runs
      BY <1>8 DEF PollStart
    <2>3. RunsGo
      <3>1. CASE runs' = runs
        BY <1>2, <2>2, <3>1
      <3>2. CASE runs' = [runs EXCEPT ![adopted] = "running"]
        BY <1>0, <2>1, <2>2, <3>2, RunChanges DEF RunStatus
      <3> QED
        BY <2>2, <3>1, <3>2
    <2>4. poll' \in PollStep /\ ~Untouched
      BY <2>1, <2>2 DEF PollStep, Untouched
    <2> QED
      BY <1>0, <1>3, <2>1, <2>2, <2>3, <2>4
  <1>9. ASSUME NEW r \in 1..Len(runs), NEW outcome \in ENDED, RunEnds(r, outcome) PROVE LInv'
    <2>1. /\ runs[r] = "running" /\ runs' = [runs EXCEPT ![r] = outcome]
          /\ UNCHANGED <<isolated, poll, adopted, opened>>
      BY <1>9 DEF RunEnds, host
    <2>2. RunsGo /\ Len(runs') = Len(runs)
      <3>1. outcome \in RunStatus /\ isolated \subseteq isolated'
        BY <2>1 DEF RunStatus
      <3> QED
        BY <1>0, <2>1, <3>1, RunChanges
    <2>3. runs # <<>> /\ project /\ (seed \/ opened) /\ ~Untouched
      <3>1. runs # <<>>
        BY <1>0
      <3> QED
        BY <1>0, <3>1 DEF Untouched
    <2> QED
      BY <1>0, <1>3, <2>1, <2>2, <2>3 DEF LInv, Polling
  <1> QED
    BY <1>4, <1>5, <1>6, <1>7, <1>8, <1>9 DEF PollNext

\* A crash ends the calls and the poller's tick.
LEMMA CrashStands == ASSUME LInv, Crash PROVE LInv'
  <1>1. /\ \A c \in Caller : pc'[c] = "idle"
        /\ UNCHANGED <<attempt, project, seed, runs, isolated>>
        /\ pc' = [c \in Caller |-> "idle"] /\ target' = [c \in Caller |-> 0]
    BY DEF Crash, Idle
  <1>2. poll' = "idle" /\ adopted' = 0 /\ opened' = opened
    BY DEF Crash
  <1>3. LTypes'
    BY <1>1, <1>2 DEF LInv, LTypes, CallStep, PollStep
  <1>4. Dispatching' = {}
    BY <1>1 DEF Dispatching
  <1> QED
    BY <1>1, <1>2, <1>3, <1>4
       DEF LInv, Phases, Untouched, Calls, Polling, Unique, Prepared

\* The invariant is inductive.
LEMMA LInvNext == LInv /\ [Next]_vars => LInv'
  <1> SUFFICES ASSUME LInv, [Next]_vars PROVE LInv'
    OBVIOUS
  <1>1. ASSUME NEW c \in Caller, CallNext(c) PROVE LInv'
    BY <1>1, CallStepsStand, LaunchStepsStand DEF CallNext
  <1>2. CASE MoveInputs \/ OtherProjects \/ UNCHANGED vars
    <2>1. UNCHANGED <<attempt, project, seed, runs, isolated, pc, target, poll, adopted, opened>>
      BY <1>2 DEF MoveInputs, OtherProjects, vars, host
    <2> QED
      BY <2>1 DEF LInv, LTypes, Phases, Untouched, Dispatching, Calls, Polling, Unique, Prepared
  <1> QED
    BY <1>1, <1>2, PollerStepsStand, CrashStands DEF Next

\* The invariant holds of every reachable state.
LEMMA Invariance == Spec => []LInv
  <1> QED
    BY LInvInit, LInvNext, PTL DEF Spec

-----------------------------------------------------------------------------
(* Theorems *)

\* An intent refused or retired before claim_launch never gets a run, a seed or
\* a project row, whatever replays and recoveries hold an older view of it.
THEOREM RefusedIntentStaysWithoutEffects == Spec => []RefusedIntentHasNoEffects
  <1>1. LInv => RefusedIntentHasNoEffects
    BY DEF LInv, Phases, Untouched, RefusedIntentHasNoEffects
  <1> QED
    BY <1>1, Invariance, PTL

\* claim_launch lets one call dispatch, over any number of calls and crashes.
THEOREM DispatcherIsUnique == Spec => []OneDispatcher
  <1>1. LInv => OneDispatcher
    <2> SUFFICES ASSUME LInv PROVE OneDispatcher
      OBVIOUS
    <2>1. Cardinality(Dispatching) <= 1
      <3>1. CASE Dispatching = {}
        BY <3>1, FS_EmptySet
      <3>2. CASE Dispatching # {}
        <4>1. PICK c \in Dispatching : TRUE
          BY <3>2
        <4>2. Dispatching = {c}
          BY <4>1 DEF LInv, Unique
        <4>3. Cardinality({c}) = 1
          BY FS_Singleton
        <4> QED
          BY <4>2, <4>3
      <3> QED
        BY <3>1, <3>2
    <2> QED
      BY <2>1 DEF LInv, Phases, Untouched, OneDispatcher
  <1> QED
    BY <1>1, Invariance, PTL

\* No run is driven before it owns an isolated tree, whichever of the launcher
\* and the poller gets there first; and a run over a project whose seed is not
\* published exists only if the poller's gate was open: a workflow that does not
\* read its own seed, or a guard that raised (_get_or_create_skillflow_run).
THEOREM RunsAreAlwaysPrepared == Spec => []RunsArePrepared
  <1>1. LInv => RunsArePrepared
    BY DEF LInv, Phases, Prepared, RunsArePrepared
  <1> QED
    BY <1>1, Invariance, PTL

=============================================================================
