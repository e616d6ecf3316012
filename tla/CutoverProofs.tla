--------------------------- MODULE CutoverProofs ---------------------------
(***************************************************************************)
(* Theorems about Cutover, for any sets of runs, writers, callers and      *)
(* deployers and any number of crashes and journal events.                 *)
(***************************************************************************)
EXTENDS Cutover, TLAPS

-----------------------------------------------------------------------------
(* Exclusion in the checkout *)

BackendType ==
    /\ status \in [Run -> {"pending", "running", "ended"}]
    /\ reactivated \in SUBSET Run
    /\ lease \in Run \cup {None}
    /\ row \in [Actor -> {"none", "alive", "dead"}]
    /\ landing \in SUBSET Actor
    /\ call \in [Caller -> [pc : {"idle", "called", "returned"}, run : Run \cup {None}]]
    /\ \A k \in Caller : call[k].pc # "idle" => call[k].run \in Run
    /\ sweep \in [pc : {"idle", "held", "over", "release"}, run : Run \cup {None}]
    /\ sweep.pc # "idle" => sweep.run \in Run

\* Whoever writes has a row, and a lease excludes every row of a writer.
RowsCover ==
    /\ \A x \in landing : row[x] # "none"
    /\ lease # None => \A w \in Writer : row[w] = "none"
    /\ \A w \in Coding : row[w] # "none" => \A v \in Writer \ {w} : row[v] = "none"

\* A run nobody reactivated works under its lease: from before it is started
\* until after its last operation.
RunsLeased ==
    /\ \A r \in Run : status[r] = "pending" => r \notin reactivated /\ row[r] = "none"
    /\ \A k \in Caller : call[k].pc = "returned" /\ status[call[k].run] = "pending"
                         => lease = call[k].run
    /\ \A r \in Run \ reactivated : status[r] = "running" \/ row[r] # "none" => lease = r

\* What the sweep read stays true of a run nobody reactivates.
SweepIsCurrent == sweep.pc # "idle" /\ sweep.run \notin reactivated =>
    /\ sweep.pc \in {"over", "release"} => status[sweep.run] = "ended"
    /\ sweep.pc = "release" => row[sweep.run] = "none"

Exclusion == BackendType /\ RowsCover /\ RunsLeased /\ SweepIsCurrent

\* At the start no run has a lease or a row of the checkout.
LEMMA ExclusionInit == Init => Exclusion
  BY DEF Init, Exclusion, BackendType, RowsCover, RunsLeased, SweepIsCurrent, Idle, Actor

\* The invariant is what the property asks for.
LEMMA ExclusionImplies == Exclusion => OneWriter
  <1> SUFFICES ASSUME Exclusion, NEW x \in landing \cap (Run \cup Coding), NEW y \in landing \ {x},
                      x \notin reactivated, y \notin reactivated
               PROVE  FALSE
    BY DEF OneWriter
  <1>1. x \in Actor /\ y \in Actor /\ row[x] # "none" /\ row[y] # "none"
    BY DEF Exclusion, BackendType, RowsCover
  <1>2. CASE x \in Run
    <2>1. lease = x /\ lease # None
      BY <1>1, <1>2, CutoverAssumption DEF Exclusion, RunsLeased
    <2>2. y \in Run
      BY <1>1, <2>1 DEF Exclusion, RowsCover, Actor
    <2> QED
      BY <1>1, <2>1, <2>2 DEF Exclusion, RunsLeased
  <1>3. CASE x \in Coding
    <2>1. y \in Run
      BY <1>1, <1>3 DEF Exclusion, RowsCover, Actor, Writer
    <2>2. lease = y /\ lease # None
      BY <1>1, <2>1, CutoverAssumption DEF Exclusion, RunsLeased
    <2> QED
      BY <1>1, <1>3, <2>2 DEF Exclusion, RowsCover, Writer
  <1> QED
    BY <1>2, <1>3

\* The end of the backend forgets calls and sweeps and keeps every row.
LEMMA DeathKeepsExclusion == ASSUME Exclusion, BackendDies PROVE Exclusion'
  <1>1. BackendType'
    BY DEF Exclusion, BackendType, BackendDies, Idle
  <1>2. \A x \in Actor : row'[x] = "none" <=> row[x] = "none"
    BY DEF Exclusion, BackendType, BackendDies
  <1>3. RowsCover'
    BY <1>2 DEF Exclusion, BackendType, RowsCover, BackendDies, Actor, Writer
  <1>4. RunsLeased' /\ SweepIsCurrent'
    BY <1>2 DEF Exclusion, RunsLeased, SweepIsCurrent, BackendDies, Idle, Actor
  <1> QED
    BY <1>1, <1>3, <1>4 DEF Exclusion

\* Rows are admitted, marked pending, retired and settled.
LEMMA RowsKeepExclusion ==
    ASSUME Exclusion,
           \/ \E w \in Writer : AdmitWrite(w) \/ MarkPending(w)
           \/ \E r \in Run : AdmitOp(r)
           \/ \E x \in Actor : Retire(x) \/ EffectsEnd(x) \/ Settle(x)
    PROVE  Exclusion'
  <1> USE CutoverAssumption DEF Exclusion, BackendType, RowsCover, RunsLeased, SweepIsCurrent,
          Actor, Writer, SetRow
  <1>1. ASSUME NEW w \in Writer, AdmitWrite(w) PROVE Exclusion'
    BY <1>1 DEF AdmitWrite, Conflicts
  <1>2. ASSUME NEW w \in Writer, MarkPending(w) PROVE Exclusion'
    BY <1>2 DEF MarkPending
  <1>3. ASSUME NEW r \in Run, AdmitOp(r) PROVE Exclusion'
    BY <1>3 DEF AdmitOp
  <1>4. ASSUME NEW x \in Actor, Retire(x) PROVE Exclusion'
    BY <1>4 DEF Retire
  <1>5. ASSUME NEW x \in Actor, EffectsEnd(x) PROVE Exclusion'
    BY <1>5 DEF EffectsEnd
  <1>6. ASSUME NEW x \in Actor, Settle(x) PROVE Exclusion'
    BY <1>6 DEF Settle
  <1> QED
    BY <1>1, <1>2, <1>3, <1>4, <1>5, <1>6

\* Runs end and come back, and leases are granted, refused and swept.
LEMMA LeasesKeepExclusion ==
    ASSUME Exclusion,
           \/ \E r \in Run : RunEnds(r) \/ Reactivate(r)
           \/ \E k \in Caller : \/ AcquireLease(k) \/ LeaseRefused(k) \/ Start(k)
                                \/ \E r \in Run : CallEnsure(k, r)
           \/ SweepStep
    PROVE  Exclusion'
  <1> USE CutoverAssumption DEF Exclusion, BackendType, RowsCover, RunsLeased, SweepIsCurrent,
          Actor, Writer, Idle, SweepTo
  <1>1. ASSUME NEW r \in Run, RunEnds(r) PROVE Exclusion'
    BY <1>1 DEF RunEnds
  <1>2. ASSUME NEW r \in Run, Reactivate(r) PROVE Exclusion'
    BY <1>2 DEF Reactivate
  <1>3. ASSUME NEW k \in Caller, AcquireLease(k) PROVE Exclusion'
    BY <1>3 DEF AcquireLease, MayLease
  <1>4. ASSUME NEW k \in Caller, LeaseRefused(k) PROVE Exclusion'
    BY <1>4 DEF LeaseRefused
  <1>5. ASSUME NEW k \in Caller, Start(k) PROVE Exclusion'
    BY <1>5 DEF Start
  <1>6. ASSUME NEW k \in Caller, NEW r \in Run, CallEnsure(k, r) PROVE Exclusion'
    BY <1>6 DEF CallEnsure
  <1>7. ASSUME SweepHeld PROVE Exclusion'
    BY <1>7 DEF SweepHeld
  <1>8. ASSUME SweepStatus PROVE Exclusion'
    BY <1>8 DEF SweepStatus
  <1>9. ASSUME SweepAudit PROVE Exclusion'
    BY <1>9 DEF SweepAudit
  <1>10. ASSUME SweepRelease PROVE Exclusion'
    BY <1>10 DEF SweepRelease
  <1> QED
    BY <1>1, <1>2, <1>3, <1>4, <1>5, <1>6, <1>7, <1>8, <1>9, <1>10 DEF SweepStep

\* A deployment touches the checkout only by ending the backend.
LEMMA DeploymentTouches == DeploymentStep => BackendDies \/ UNCHANGED backend
  BY DEF DeploymentStep, AcquireFence, MeasureRuns, MeasureRows, Authorize, Persist, Act,
         Finalize, Refused, Close, ClerkCrash, Reconcile

\* Exclusion is inductive.
LEMMA ExclusionStep == Exclusion /\ [Next]_vars => Exclusion'
  <1> SUFFICES ASSUME Exclusion, [Next]_vars PROVE Exclusion'
    OBVIOUS
  <1>1. ASSUME UNCHANGED backend PROVE Exclusion'
    BY <1>1 DEF backend, Exclusion, BackendType, RowsCover, RunsLeased, SweepIsCurrent
  <1>2. CASE SweepStep
    BY <1>2, LeasesKeepExclusion
  <1>3. CASE CheckoutStep
    BY <1>3, RowsKeepExclusion, LeasesKeepExclusion, DeathKeepsExclusion DEF CheckoutStep, BackendCrash
  <1>4. CASE DeploymentStep
    BY <1>1, <1>4, DeploymentTouches, DeathKeepsExclusion
  <1>5. CASE UNCHANGED vars
    BY <1>1, <1>5 DEF vars
  <1> QED
    BY <1>2, <1>3, <1>4, <1>5 DEF Next

\* admit_write, _acquire_lease and _admit_op arbitrate for any number of runs
\* and writers: one of them writes in the checkout, whoever dies and however
\* late a call of ensure_for_run or a release of a lease takes effect.
THEOREM CheckoutIsExclusive == Spec => []OneWriter
  <1>1. Init => Exclusion
    BY ExclusionInit
  <1>2. Exclusion /\ [Next]_vars => Exclusion'
    BY ExclusionStep
  <1> QED
    BY <1>1, <1>2, ExclusionImplies, PTL DEF Spec

-----------------------------------------------------------------------------
(* The fence *)

Place == {"idle", "runs", "rows", "decide", "persist", "act", "acted", "failed", "close"}

\* Every deployer that is under way holds the fence, and so is alone.
FenceHeld ==
    /\ fence \in Deployer \cup {None}
    /\ clerk \in [Clerk -> Place]
    /\ clerk[Operator] \in {"idle", "close"}
    /\ quiet \in [Deployer -> BOOLEAN]
    /\ \A d \in Deployer : clerk[d] # "idle" => fence = d

\* What a deployer measured stays true while it holds the fence.
Measured == \A d \in Deployer : quiet[d] =>
    /\ clerk[d] = "rows" => \A r \in Run : row[r] = "none"
    /\ clerk[d] \in Place \ {"idle", "runs", "rows"} => \A x \in Actor : row[x] = "none"

Fenced == BackendType /\ FenceHeld /\ Measured

\* No deployment holds the fence at the start.
LEMMA FencedInit == Init => FenceHeld /\ Measured
  BY DEF Init, FenceHeld, Measured, Clerk, Place

\* While a deployer holds the fence rows can only be retired.
LEMMA CheckoutKeepsFenced ==
    ASSUME Fenced, SweepStep \/ CheckoutStep
    PROVE  FenceHeld' /\ Measured'
  <1>1. UNCHANGED <<fence, clerk, quiet>>
    BY DEF SweepStep, SweepHeld, SweepStatus, SweepAudit, SweepRelease, CheckoutStep, AdmitWrite,
           MarkPending, AdmitOp, RunEnds, Reactivate, Retire, EffectsEnd, Settle, AcquireLease,
           LeaseRefused, Start, CallEnsure, BackendCrash, office
  <1>2. fence = None \/ \A x \in Actor : row[x] = "none" => row'[x] = "none"
    <2> USE DEF Fenced, BackendType, SetRow
    <2>1. ASSUME NEW w \in Writer, AdmitWrite(w) \/ MarkPending(w) PROVE <1>2!1 \/ <1>2!2
      BY <2>1 DEF AdmitWrite, MarkPending, Unfenced, Actor
    <2>2. ASSUME NEW r \in Run, AdmitOp(r) PROVE <1>2!1 \/ <1>2!2
      BY <2>2 DEF AdmitOp, Unfenced, Actor
    <2>3. ASSUME NEW x \in Actor, Retire(x) \/ EffectsEnd(x) \/ Settle(x) PROVE <1>2!1 \/ <1>2!2
      BY <2>3 DEF Retire, EffectsEnd, Settle
    <2>4. ASSUME BackendCrash PROVE <1>2!1 \/ <1>2!2
      BY <2>4 DEF BackendCrash, BackendDies
    <2>5. ASSUME UNCHANGED row PROVE <1>2!1 \/ <1>2!2
      BY <2>5
    <2> QED
      BY <2>1, <2>2, <2>3, <2>4, <2>5
         DEF SweepStep, SweepHeld, SweepStatus, SweepAudit, SweepRelease, CheckoutStep, RunEnds,
             Reactivate, AcquireLease, LeaseRefused, Start, CallEnsure
  <1>3. FenceHeld'
    BY <1>1 DEF Fenced, FenceHeld
  <1>4. Measured'
    <2> SUFFICES ASSUME NEW d \in Deployer, quiet[d], clerk[d] # "idle" PROVE
            /\ clerk[d] = "rows" => \A r \in Run : row'[r] = "none"
            /\ clerk[d] \in Place \ {"idle", "runs", "rows"} => \A x \in Actor : row'[x] = "none"
      BY <1>1 DEF Measured
    <2>1. fence # None
      BY CutoverAssumption DEF Fenced, FenceHeld
    <2> QED
      BY <1>2, <2>1 DEF Fenced, Measured, Actor
  <1> QED
    BY <1>3, <1>4

\* The deployer's own steps, from the fence to the cutover and back.
LEMMA DeploymentKeepsFenced ==
    ASSUME Fenced, DeploymentStep
    PROVE  FenceHeld' /\ Measured'
  <1> USE CutoverAssumption DEF Fenced, BackendType, FenceHeld, Measured, Place, Clerk, Actor, Goto, backend, Forget
  <1>1. ASSUME NEW d \in Deployer, AcquireFence(d) PROVE FenceHeld' /\ Measured'
    BY <1>1 DEF AcquireFence
  <1>2. ASSUME NEW d \in Deployer, MeasureRuns(d) PROVE FenceHeld' /\ Measured'
    <2>1. PICK read \in BOOLEAN :
             quiet' = [quiet EXCEPT ![d] = read /\ \A r \in Run : row[r] = "none"]
      BY <1>2 DEF MeasureRuns
    <2>2. quiet' \in [Deployer -> BOOLEAN]
      BY <2>1, Zenon
    <2>3. clerk' = [clerk EXCEPT ![d] = "rows"] /\ fence' = fence /\ row' = row /\ fence = d
      BY <1>2 DEF MeasureRuns
    <2>4. FenceHeld'
      BY <2>2, <2>3
    <2>5. quiet'[d] => \A r \in Run : row[r] = "none"
      BY <2>1
    <2>6. \A e \in Deployer \ {d} : clerk'[e] = "idle"
      BY <2>3
    <2> QED
      BY <2>3, <2>4, <2>5, <2>6
  <1>3. ASSUME NEW d \in Deployer, MeasureRows(d) PROVE FenceHeld' /\ Measured'
    <2>1. quiet' = [quiet EXCEPT ![d] = @ /\ lease = None /\ \A w \in Writer : row[w] = "none"]
      BY <1>3 DEF MeasureRows
    <2>2. quiet' \in [Deployer -> BOOLEAN]
      BY <2>1, Zenon
    <2>3. clerk' = [clerk EXCEPT ![d] = "decide"] /\ fence' = fence /\ row' = row /\ fence = d
          /\ clerk[d] = "rows"
      BY <1>3 DEF MeasureRows
    <2>4. FenceHeld'
      BY <2>2, <2>3
    <2>5. quiet'[d] => quiet[d] /\ \A w \in Writer : row[w] = "none"
      BY <2>1
    <2>6. quiet'[d] => \A x \in Actor : row[x] = "none"
      BY <2>3, <2>5
    <2>7. \A e \in Deployer \ {d} : clerk'[e] = "idle"
      BY <2>3
    <2> QED
      BY <2>3, <2>4, <2>6, <2>7
  <1>4. ASSUME NEW d \in Deployer, Authorize(d) PROVE FenceHeld' /\ Measured'
    BY <1>4 DEF Authorize
  <1>5. ASSUME NEW d \in Deployer, Persist(d) PROVE FenceHeld' /\ Measured'
    <2>1. fence = d /\ row' = row /\ clerk[d] = "persist"
      BY <1>5 DEF Persist
    <2>2. CASE latest'.status \in Pending
      BY <1>5, <2>1, <2>2 DEF Persist
    <2>3. CASE latest'.status \notin Pending
      <3>1. clerk' = [clerk EXCEPT ![d] = "idle"] /\ fence' = None
            /\ quiet' = [e \in Deployer |-> e # d /\ quiet[e]]
        BY <1>5, <2>3 DEF Persist
      <3>2. \A c \in Deployer : clerk'[c] = "idle"
        BY <2>1, <3>1
      <3>3. quiet' \in [Deployer -> BOOLEAN]
        BY <3>1, Zenon
      <3> QED
        BY <3>1, <3>2, <3>3
    <2> QED
      BY <2>2, <2>3
  <1>6. ASSUME NEW d \in Deployer, Act(d) PROVE FenceHeld' /\ Measured'
    BY <1>6 DEF Act, BackendDies
  <1>7. ASSUME NEW d \in Deployer, Finalize(d) PROVE FenceHeld' /\ Measured'
    BY <1>7 DEF Finalize
  <1>8. ASSUME NEW d \in Deployer, Refused(d) PROVE FenceHeld' /\ Measured'
    BY <1>8 DEF Refused
  <1>9. ASSUME NEW c \in Clerk, Close(c) PROVE FenceHeld' /\ Measured'
    BY <1>9 DEF Close
  <1>10. ASSUME NEW c \in Clerk, ClerkCrash(c) PROVE FenceHeld' /\ Measured'
    BY <1>10 DEF ClerkCrash
  <1>11. ASSUME Reconcile PROVE FenceHeld' /\ Measured'
    BY <1>11 DEF Reconcile
  <1> QED
    BY <1>1, <1>2, <1>3, <1>4, <1>5, <1>6, <1>7, <1>8, <1>9, <1>10, <1>11 DEF DeploymentStep

\* FenceHeld and Measured are inductive relative to Exclusion.
LEMMA FencedStep == Exclusion /\ FenceHeld /\ Measured /\ [Next]_vars => FenceHeld' /\ Measured'
  <1> SUFFICES ASSUME Exclusion, FenceHeld, Measured, [Next]_vars PROVE FenceHeld' /\ Measured'
    OBVIOUS
  <1>1. Fenced
    BY DEF Fenced, Exclusion
  <1>2. CASE UNCHANGED vars
    BY <1>2 DEF vars, backend, office, FenceHeld, Measured
  <1> QED
    BY <1>1, <1>2, CheckoutKeepsFenced, DeploymentKeepsFenced DEF Next

\* However many deployments contend and whatever dies, one that measured no
\* owner finds none until it has recorded its outcome.
THEOREM CutoverIsQuiet == Spec => []QuietCutover
  <1>1. Init => Exclusion /\ FenceHeld /\ Measured
    BY ExclusionInit, FencedInit
  <1>2. Exclusion /\ FenceHeld /\ Measured /\ [Next]_vars => Exclusion' /\ FenceHeld' /\ Measured'
    BY ExclusionStep, FencedStep
  <1>3. Measured => QuietCutover
    BY DEF Measured, QuietCutover, Place
  <1> QED
    BY <1>1, <1>2, <1>3, PTL DEF Spec

-----------------------------------------------------------------------------
(* The journal *)

Stage == {"none", "authorized", "overridden", "aborted", "completed", "reconciled_quiescent"}
Entry == [status : Stage, by : Deployer \cup {None}]

JournalType ==
    /\ latest \in [n : Nat, status : Stage, by : Deployer \cup {None}]
    /\ draft \in Seq(Entry)
    /\ clearance \in [Deployer -> Nat]

Holds(c) == clerk[c] \in {"persist", "close"}

\* One clerk has the journal open at a time, and it is writing something.
OneScribe == \A c \in Clerk : Holds(c) =>
    /\ draft # <<>>
    /\ \A e \in Clerk : Holds(e) => e = c

\* The last thing an authorization writes is its own event.
OwnEvent == \A d \in Deployer : clerk[d] = "persist" =>
    draft[Len(draft)].by = d /\ draft[Len(draft)].status \in {"authorized", "overridden", "aborted"}

\* A clearance is the number of an event of the past, and as long as it is the
\* number of the latest one that event is the deployer's own, still pending.
ClearanceIsOwn == \A d \in Deployer : clerk[d] \in {"act", "acted", "failed"} =>
    /\ clearance[d] <= latest.n
    /\ clearance[d] = latest.n => latest.by = d /\ latest.status \in Pending

Journal == JournalType /\ OneScribe /\ OwnEvent /\ ClearanceIsOwn /\ JournalValidates

\* The journal starts empty.
LEMMA JournalInit == Init => Journal
  <1> SUFFICES ASSUME Init PROVE Journal
    OBVIOUS
  <1>1. draft = <<>> /\ Len(draft) = 0
    BY DEF Init
  <1> QED
    BY <1>1 DEF Init, Journal, JournalType, OneScribe, OwnEvent, ClearanceIsOwn, JournalValidates,
              Holds, Stage, Clerk

\* What appending to the file and letting go of it leaves behind.
LEMMA WrittenJournal ==
    ASSUME FenceHeld, Journal, WriteJournal, NEW c \in Clerk, Holds(c)
    PROVE  /\ latest' \in [n : Nat, status : Stage, by : Deployer \cup {None}]
           /\ draft' = <<>> /\ Len(draft') = 0 /\ draft' \in Seq(Entry)
           /\ latest'.n > latest.n
           /\ latest'.by = draft[Len(draft)].by /\ latest'.status = draft[Len(draft)].status
  <1>1. draft # <<>> /\ draft \in Seq(Entry)
    BY DEF Journal, JournalType, OneScribe
  <1>2. Len(draft) \in Nat /\ Len(draft) > 0 /\ draft[Len(draft)] \in Entry
    BY <1>1
  <1> QED
    BY <1>2 DEF WriteJournal, Journal, JournalType, Entry

\* Journal is inductive relative to FenceHeld.
LEMMA JournalStep == FenceHeld /\ Journal /\ [Next]_vars => Journal'
  <1> SUFFICES ASSUME FenceHeld, Journal, [Next]_vars PROVE Journal'
    OBVIOUS
  <1> USE DEF FenceHeld, Place, Clerk, Goto
  \* Steps that leave the journal and its clearances alone.
  <1>1. ASSUME UNCHANGED <<latest, draft, clearance>>,
               \A c \in Clerk : Holds(c)' => Holds(c) /\ clerk'[c] = clerk[c],
               \A d \in Deployer : clerk'[d] \in {"act", "acted", "failed"}
                                   => clerk[d] \in {"act", "acted", "failed"}
        PROVE  Journal'
    BY <1>1 DEF Journal, JournalType, OneScribe, OwnEvent, ClearanceIsOwn, JournalValidates, Holds, Legal, Successors
  \* A clerk opens the journal with a legal draft.
  <1>2. ASSUME NEW c \in Clerk, NEW pc \in {"persist", "close"}, Usable, UNCHANGED <<latest, clearance>>,
               Goto(c, pc), draft' \in Seq(Entry), draft' # <<>>, JournalValidates',
               c \in Deployer /\ pc = "persist" => OwnEvent'
        PROVE  Journal'
    <2>1. \A e \in Clerk : ~Holds(e)
      BY <1>2 DEF Usable, JournalFree, Holds
    <2>2. \A e \in Clerk : Holds(e)' => e = c
      BY <1>2, <2>1 DEF Holds
    <2>3. OwnEvent'
      BY <1>2, <2>1 DEF OwnEvent, Holds
    <2> QED
      BY <1>2, <2>2, <2>3 DEF Journal, JournalType, OneScribe, ClearanceIsOwn
  \* A clerk closes the journal and goes.
  <1>3. ASSUME NEW c \in Clerk, Holds(c), WriteJournal, Goto(c, "idle"), Forget(c)
        PROVE  Journal'
    <2>1. /\ latest' \in [n : Nat, status : Stage, by : Deployer \cup {None}]
          /\ draft' = <<>> /\ Len(draft') = 0 /\ draft' \in Seq(Entry) /\ latest'.n > latest.n
      BY <1>3, WrittenJournal
    <2>2. \A e \in Clerk : ~Holds(e)'
      BY <1>3 DEF Journal, OneScribe, Holds
    <2>3. clearance' \in [Deployer -> Nat]
      BY <1>3 DEF Forget, Journal, JournalType
    <2>4. ClearanceIsOwn'
      <3> SUFFICES ASSUME NEW d \in Deployer, clerk'[d] \in {"act", "acted", "failed"}
                   PROVE  clearance'[d] < latest'.n
        BY <2>1, <2>3 DEF ClearanceIsOwn
      <3>1. d # c /\ clerk[d] = clerk'[d] /\ clearance'[d] = clearance[d]
        BY <1>3 DEF Forget
      <3> QED
        BY <2>1, <3>1 DEF Journal, JournalType, ClearanceIsOwn
    <2>5. OwnEvent' /\ OneScribe' /\ JournalValidates'
      BY <2>1, <2>2 DEF OwnEvent, OneScribe, JournalValidates, Holds
    <2> QED
      BY <2>1, <2>3, <2>4, <2>5 DEF Journal, JournalType
  <1>4. CASE UNCHANGED vars
    BY <1>1, <1>4 DEF vars, office, Holds
  <1>5. CASE SweepStep \/ CheckoutStep
    <2>1. UNCHANGED office
      BY <1>5 DEF SweepStep, SweepHeld, SweepStatus, SweepAudit, SweepRelease, CheckoutStep, AdmitWrite,
             MarkPending, AdmitOp, RunEnds, Reactivate, Retire, EffectsEnd, Settle, AcquireLease,
             LeaseRefused, Start, CallEnsure, BackendCrash
    <2> QED
      BY <1>1, <2>1 DEF office, Holds
  <1>6. ASSUME NEW d \in Deployer, AcquireFence(d) \/ MeasureRuns(d) \/ MeasureRows(d) \/ Act(d)
        PROVE  Journal'
    <2>1. UNCHANGED <<latest, draft, clearance>>
      BY <1>6 DEF AcquireFence, MeasureRuns, MeasureRows, Act
    <2>2. \/ \E pc \in {"runs", "rows", "decide"} : clerk' = [clerk EXCEPT ![d] = pc]
          \/ clerk[d] = "act" /\ \E pc \in {"acted", "failed"} : clerk' = [clerk EXCEPT ![d] = pc]
      BY <1>6 DEF AcquireFence, MeasureRuns, MeasureRows, Act
    <2> QED
      BY <1>1, <2>1, <2>2 DEF Holds
  <1>7. ASSUME NEW d \in Deployer, Authorize(d) PROVE Journal'
    <2> USE DEF Event, Entry, Stage, Pending
    <2>1. PICK s \in {"authorized", "overridden", "aborted"} : draft' = Append(Interrupted, Event(s, d))
      BY <1>7 DEF Authorize
    <2>2. Usable /\ UNCHANGED <<latest, clearance>> /\ Goto(d, "persist")
      BY <1>7 DEF Authorize
    <2>3. CASE latest.status \in Pending
      <3>1. Interrupted = <<Event("aborted", latest.by)>> /\ Interrupted \in Seq(Entry)
        BY <2>3 DEF Interrupted, Journal, JournalType
      <3>2. /\ draft' \in Seq(Entry) /\ draft' # <<>> /\ Len(draft') = 2
            /\ draft'[1] = Event("aborted", latest.by) /\ draft'[2] = Event(s, d)
        BY <2>1, <3>1
      <3>3. JournalValidates'
        BY <2>2, <2>3, <3>2 DEF JournalValidates, Legal, Successors
      <3>4. OwnEvent'
        BY <2>2, <3>2 DEF OwnEvent, Usable, JournalFree
      <3> QED
        BY <1>2, <2>2, <3>2, <3>3, <3>4
    <2>4. CASE latest.status \notin Pending
      <3>1. draft' = <<Event(s, d)>>
        BY <2>1, <2>4 DEF Interrupted
      <3>2. draft' \in Seq(Entry) /\ draft' # <<>> /\ Len(draft') = 1 /\ draft'[1] = Event(s, d)
        BY <3>1
      <3>3. JournalValidates'
        BY <2>2, <2>4, <3>2 DEF JournalValidates, Legal, Successors
      <3>4. OwnEvent'
        BY <2>2, <3>2 DEF OwnEvent, Usable, JournalFree
      <3> QED
        BY <1>2, <2>2, <3>2, <3>3, <3>4
    <2> QED
      BY <2>3, <2>4
  <1>8. ASSUME NEW d \in Deployer, Persist(d) PROVE Journal'
    <2>1. clerk[d] = "persist" /\ Holds(d) /\ WriteJournal
      BY <1>8 DEF Persist, Holds
    <2>2. CASE latest'.status \notin Pending
      BY <1>3, <1>8, <2>1, <2>2 DEF Persist
    <2>3. CASE latest'.status \in Pending
      <3>1. /\ latest' \in [n : Nat, status : Stage, by : Deployer \cup {None}]
            /\ draft' = <<>> /\ Len(draft') = 0 /\ draft' \in Seq(Entry) /\ latest'.n > latest.n
            /\ latest'.by = d
        BY <2>1, WrittenJournal DEF Journal, OwnEvent
      <3>2. clerk' = [clerk EXCEPT ![d] = "act"] /\ clearance' = [clearance EXCEPT ![d] = latest'.n]
        BY <1>8, <2>3 DEF Persist
      <3>3. \A e \in Clerk : ~Holds(e)'
        BY <2>1, <3>2 DEF Journal, OneScribe, Holds
      <3>4. clearance' \in [Deployer -> Nat]
        BY <3>1, <3>2 DEF Journal, JournalType
      <3>5. ClearanceIsOwn'
        <4> SUFFICES ASSUME NEW e \in Deployer, clerk'[e] \in {"act", "acted", "failed"}, e # d
                     PROVE  clearance'[e] < latest'.n
          BY <2>3, <3>1, <3>2, <3>4 DEF ClearanceIsOwn, Journal, JournalType
        <4>1. clerk[e] = clerk'[e] /\ clearance'[e] = clearance[e]
          BY <3>2 DEF Journal, JournalType
        <4> QED
          BY <3>1, <4>1 DEF Journal, JournalType, ClearanceIsOwn
      <3>6. OwnEvent' /\ OneScribe' /\ JournalValidates'
        BY <3>1, <3>3 DEF OwnEvent, OneScribe, JournalValidates, Holds
      <3> QED
        BY <3>1, <3>4, <3>5, <3>6 DEF Journal, JournalType
    <2> QED
      BY <2>2, <2>3
  <1>9. ASSUME NEW d \in Deployer, Finalize(d) PROVE Journal'
    <2> USE DEF Event, Entry, Stage, Pending
    <2>1. PICK s \in {"completed", "aborted"} : draft' = <<Event(s, d)>>
      BY <1>9 DEF Finalize
    <2>2. Usable /\ UNCHANGED <<latest, clearance>> /\ Goto(d, "close")
          /\ latest.by = d /\ latest.status \in Pending
      BY <1>9 DEF Finalize, Superseded, Journal, ClearanceIsOwn
    <2>3. draft' \in Seq(Entry) /\ draft' # <<>> /\ Len(draft') = 1 /\ draft'[1] = Event(s, d)
      BY <2>1
    <2>4. JournalValidates'
      BY <2>2, <2>3 DEF JournalValidates, Legal, Successors
    <2> QED
      BY <1>2, <2>2, <2>3, <2>4
  <1>10. ASSUME Reconcile PROVE Journal'
    <2> USE DEF Event, Entry, Stage, Pending
    <2>1. Usable /\ UNCHANGED <<latest, clearance>> /\ Goto(Operator, "close")
      BY <1>10 DEF Reconcile
    <2>2. PICK s \in {"aborted", "reconciled_quiescent"} :
             /\ draft' = <<Event(s, latest.by)>>
             /\ IF latest.status \in Pending THEN s = "aborted" ELSE latest.status = "aborted"
      BY <1>10 DEF Reconcile, Interrupted
    <2>3. draft' \in Seq(Entry) /\ draft' # <<>> /\ Len(draft') = 1 /\ draft'[1] = Event(s, latest.by)
      BY <2>2 DEF Journal, JournalType
    <2>4. JournalValidates'
      BY <2>1, <2>2, <2>3 DEF JournalValidates, Legal, Successors
    <2> QED
      BY <1>2, <2>1, <2>3, <2>4, CutoverAssumption
  <1>11. ASSUME NEW c \in Clerk, Close(c) PROVE Journal'
    BY <1>3, <1>11 DEF Close, Holds
  \* A clerk that is refused, or dies, leaves the file as it is.
  <1>12. ASSUME NEW c \in Clerk, Refused(c) \/ ClerkCrash(c) PROVE Journal'
    <2>1. UNCHANGED <<latest, draft>> /\ Goto(c, "idle") /\ Forget(c)
      BY <1>12 DEF Refused, ClerkCrash
    <2>2. clearance' \in [Deployer -> Nat]
      BY <2>1 DEF Forget, Journal, JournalType
    <2>3. ClearanceIsOwn'
      BY <2>1 DEF Forget, Journal, JournalType, ClearanceIsOwn
    <2>4. OneScribe' /\ OwnEvent'
      BY <2>1 DEF Journal, OneScribe, OwnEvent, Holds
    <2>5. JournalValidates'
      BY <2>1 DEF Journal, JournalValidates, Legal, Successors
    <2> QED
      BY <2>1, <2>2, <2>3, <2>4, <2>5 DEF Journal, JournalType
  <1> QED
    BY <1>4, <1>5, <1>6, <1>7, <1>8, <1>9, <1>10, <1>11, <1>12 DEF Next, DeploymentStep

\* However deployments, crashes and reconciliations by hand interleave, every
\* journal that authorize, finalize and reconcile write passes _validate_journal.
THEOREM JournalIsValid == Spec => []JournalValidates
  <1>1. Init => Exclusion /\ FenceHeld /\ Measured /\ Journal
    BY ExclusionInit, FencedInit, JournalInit
  <1>2. Exclusion /\ FenceHeld /\ Measured /\ Journal /\ [Next]_vars
        => Exclusion' /\ FenceHeld' /\ Measured' /\ Journal'
    BY ExclusionStep, FencedStep, JournalStep
  <1>3. Journal => JournalValidates
    BY DEF Journal
  <1> QED
    BY <1>1, <1>2, <1>3, PTL DEF Spec

=============================================================================
