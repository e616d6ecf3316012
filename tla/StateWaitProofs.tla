-------------------------- MODULE StateWaitProofs --------------------------
(***************************************************************************)
(* The safety theorems of StateWait, for any page size, any number of      *)
(* events, writers and lost responses, with and without recovery and idle  *)
(* verdicts.                                                               *)
(*                                                                         *)
(* What the driver is owed is stated about the cursor it holds; what keeps *)
(* the promise is the cursor of the call, which runs ahead of it.  The     *)
(* invariant makes the same promise of both, and says of a waiter that has *)
(* scanned since it last cleared its event that the event is set, or about *)
(* to be, for every commit of its own process the scan did not see.        *)
(***************************************************************************)
EXTENDS StateWait, FiniteSetTheorems, WellFoundedInduction, TLAPS

Event == [from : {"here", "elsewhere"}, kind : {"hit", "quiet"}]
Counter == {"client", "clear", "scan", "recover", "decide", "dispose", "sleep"}

\* Every variable holds a value of its kind, and no cursor is past the log.
Types ==
    /\ log \in Seq(Event)
    /\ unnotified \in Nat /\ aimed \in BOOLEAN /\ signal \in BOOLEAN
    /\ pc \in Counter
    /\ cursor \in 0..High /\ after \in 0..High
    /\ lost \in Nat

\* What lies up to the cursor of the call has reached the driver.
CallCovers == Hits(0, cursor) \subseteq delivered

\* A commit of this process that the last scan did not see wakes the waiter.
Roused ==
    (pc \in {"recover", "decide", "dispose", "sleep"}
        /\ \E s \in cursor + 1 .. High : log[s].from = "here")
    => signal \/ aimed \/ unnotified > 0

WInv == Types /\ CursorCoversDelivered /\ CallCovers /\ Roused

-----------------------------------------------------------------------------
(* What a scan returns *)

\* Sets of event numbers have a smallest and a largest member.
LEMMA Smallest ==
    ASSUME NEW S \in SUBSET Nat, S # {}
    PROVE  \E s \in S : \A t \in S : s <= t
  <1>1. PICK s \in S : \A t \in S : ~ (<<t, s>> \in OpToRel(<, Nat))
    BY NatLessThanWellFounded, WFMin
  <1>2. \A t \in S : ~ (t < s)
    BY <1>1 DEF OpToRel
  <1> QED
    BY <1>2

LEMMA Largest ==
    ASSUME NEW b \in Nat, NEW S \in SUBSET 0..b, S # {}
    PROVE  \E s \in S : \A t \in S : t <= s
  <1> DEFINE U == {u \in Nat : \A t \in S : t <= u}
  <1>1. b \in U
    OBVIOUS
  <1>2. PICK u \in U : \A v \in U : u <= v
    BY <1>1, Smallest
  <1>3. u \in S
    <2>1. SUFFICES ASSUME u \notin S PROVE FALSE
      OBVIOUS
    <2>2. \A t \in S : t <= u /\ t # u /\ t \in Nat
      BY <2>1
    <2>3. u \in Nat /\ u # 0
      <3>1. PICK t \in S : TRUE
        OBVIOUS
      <3>2. t <= u /\ t # u /\ t \in Nat /\ u \in Nat
        BY <2>2
      <3> QED
        BY <3>2
    <2>4. u - 1 \in Nat /\ \A t \in S : t <= u - 1
      BY <2>2, <2>3
    <2>5. u - 1 \in U
      BY <2>4
    <2> QED
      BY <1>2, <2>3, <2>5
  <1> QED
    BY <1>3

\* The hits of a stretch of the log are finitely many, and fewer in a shorter
\* stretch.
LEMMA HitsShrink ==
    ASSUME NEW lo \in Nat, NEW s \in Nat, NEW t \in Nat, s <= t
    PROVE  /\ IsFiniteSet(Hits(lo, t)) /\ Cardinality(Hits(lo, t)) \in Nat
           /\ Cardinality(Hits(lo, s)) \in Nat
           /\ Cardinality(Hits(lo, s)) <= Cardinality(Hits(lo, t))
  <1>1. IsFiniteSet(lo + 1 .. t)
    BY FS_Interval
  <1>2. IsFiniteSet(Hits(lo, t))
    BY <1>1, FS_Subset DEF Hits
  <1>3. Hits(lo, s) \in SUBSET Hits(lo, t)
    BY DEF Hits
  <1> QED
    BY <1>2, <1>3, FS_Subset, FS_CardinalityType

\* A scan that returns nothing has seen no hit up to the end of the log: the
\* first hit after the cursor always fits the page.
LEMMA NothingFound ==
    ASSUME Types, Found = {}
    PROVE  Hits(cursor, High) = {} /\ NextCursor = High
  <1>0. cursor \in Nat /\ High \in Nat
    BY DEF Types, High
  <1>1. Hits(cursor, High) = {}
    <2> SUFFICES ASSUME Hits(cursor, High) # {} PROVE FALSE
      OBVIOUS
    <2>1. Hits(cursor, High) \in SUBSET Nat
      BY <1>0 DEF Hits
    <2>2. PICK s \in Hits(cursor, High) : \A t \in Hits(cursor, High) : s <= t
      BY <2>1, Smallest
    <2>3. Hits(cursor, s) = {s}
      BY <1>0, <2>2 DEF Hits
    <2>4. Cardinality(Hits(cursor, s)) = 1
      BY <2>3, FS_Singleton
    <2>5. s \in Found
      BY <2>2, <2>4, WaitAssumption DEF Found
    <2> QED
      BY <2>5
  <1>2. Cardinality(Hits(cursor, High)) = 0
    BY <1>1, FS_EmptySet
  <1> QED
    BY <1>1, <1>2, WaitAssumption DEF NextCursor

\* A scan's cursor stays within the log and passes nothing but what the scan
\* returns, on a full page as well.
LEMMA PageIsWhole ==
    ASSUME Types
    PROVE  /\ NextCursor \in 0..High
           /\ Hits(cursor, NextCursor) \subseteq Found
  <1>0. cursor \in Nat /\ High \in Nat /\ cursor <= High /\ Limit \in Nat
    BY WaitAssumption DEF Types, High
  <1>1. CASE Found = {}
    BY <1>0, <1>1, NothingFound
  <1>2. CASE Found # {} /\ Cardinality(Hits(cursor, High)) > Limit
    <2>1. Found \in SUBSET 0..High
      BY <1>0 DEF Found, Hits
    <2>2. \E s \in Found : \A t \in Found : t <= s
      BY <1>0, <1>2, <2>1, Largest
    <2>3. NextCursor \in Found
      BY <1>2, <2>2 DEF NextCursor
    <2> DEFINE m == NextCursor
    <2>4. /\ m \in 0..High /\ m \in Nat /\ m <= High
          /\ Cardinality(Hits(cursor, m)) <= Limit
      BY <1>0, <2>1, <2>3 DEF Found
    <2> HIDE DEF m
    <2>5. ASSUME NEW t \in Hits(cursor, m) PROVE t \in Found
      <3>1. t \in Nat /\ t <= m /\ t \in Hits(cursor, High)
        BY <1>0, <2>4 DEF Hits
      <3>2. /\ Cardinality(Hits(cursor, t)) \in Nat /\ Cardinality(Hits(cursor, m)) \in Nat
            /\ Cardinality(Hits(cursor, t)) <= Cardinality(Hits(cursor, m))
        BY <1>0, <2>4, <3>1, HitsShrink
      <3>3. Cardinality(Hits(cursor, t)) <= Limit
        BY <1>0, <2>4, <3>2
      <3> QED
        BY <3>1, <3>3 DEF Found
    <2> QED
      BY <2>4, <2>5 DEF m
  <1>3. CASE ~(Cardinality(Hits(cursor, High)) > Limit)
    <2>1. NextCursor = High
      BY <1>3 DEF NextCursor
    <2>2. ASSUME NEW t \in Hits(cursor, High) PROVE t \in Found
      <3>1. t \in Nat /\ t <= High
        BY <1>0 DEF Hits
      <3>2. /\ Cardinality(Hits(cursor, t)) \in Nat /\ Cardinality(Hits(cursor, High)) \in Nat
            /\ Cardinality(Hits(cursor, t)) <= Cardinality(Hits(cursor, High))
        BY <1>0, <3>1, HitsShrink
      <3>3. Cardinality(Hits(cursor, t)) <= Limit
        BY <1>0, <1>3, <3>2
      <3> QED
        BY <3>3 DEF Found
    <2> QED
      BY <1>0, <2>1, <2>2
  <1> QED
    BY <1>1, <1>2, <1>3

-----------------------------------------------------------------------------
(* The invariant *)

\* A call that ends with what was found up to its new cursor leaves nothing
\* behind, whether or not the driver gets the answer.
LEMMA ReturnKeeps ==
    ASSUME WInv, NEW events, NEW next \in 0..High, Return(events, next),
           Hits(cursor, next) \subseteq events
    PROVE  WInv'
  <1>1. /\ pc' = "client" /\ cursor' = 0 /\ aimed' = FALSE /\ signal' = FALSE
        /\ log' = log /\ unnotified' = unnotified
    BY DEF Return, logVars
  <1>2. \A lo, hi : Hits(lo, hi)' = Hits(lo, hi)
    BY <1>1 DEF Hits
  <1>3. High' = High /\ High \in Nat
    BY <1>1 DEF High, WInv, Types
  <1>4. Hits(0, next) \subseteq Hits(0, cursor) \cup Hits(cursor, next)
    BY <1>3 DEF Hits, WInv, Types
  <1>5. after' \in 0..High' /\ lost' \in Nat
    BY <1>3 DEF Return, WInv, Types
  <1>6. Types'
    <2>1. aimed' \in BOOLEAN /\ signal' \in BOOLEAN /\ pc' \in Counter
      BY <1>1 DEF Counter
    <2>2. log' \in Seq(Event) /\ unnotified' \in Nat
      BY <1>1 DEF WInv, Types
    <2>3. cursor' \in 0..High'
      BY <1>1, <1>3
    <2> QED
      BY <1>5, <2>1, <2>2, <2>3 DEF Types
  <1>7. CursorCoversDelivered'
    BY <1>1, <1>4 DEF Return, WInv, CursorCoversDelivered, CallCovers, Hits
  <1>8. CallCovers'
    BY <1>1 DEF CallCovers, Hits
  <1>9. Roused'
    BY <1>1 DEF Roused
  <1> QED
    BY <1>6, <1>7, <1>8, <1>9 DEF WInv

\* Nothing is committed, delivered or awaited at the start.
LEMMA WInit == Init => WInv
  <1> SUFFICES ASSUME Init PROVE WInv
    OBVIOUS
  <1>1. log \in Seq(Event) /\ High = 0
    BY DEF Init, High
  <1>2. aimed \in BOOLEAN /\ signal \in BOOLEAN /\ pc \in Counter
    BY DEF Init, Counter
  <1>3. unnotified \in Nat /\ lost \in Nat /\ cursor \in 0..High /\ after \in 0..High
    BY <1>1 DEF Init
  <1>4. CursorCoversDelivered /\ CallCovers /\ Roused
    BY DEF Init, CursorCoversDelivered, CallCovers, Roused, Hits
  <1> QED
    BY <1>1, <1>2, <1>3, <1>4 DEF WInv, Types

\* A commit adds one event past every cursor.
LEMMA CommitKeeps ==
    ASSUME WInv, NEW w \in Writers, NEW kind \in {"hit", "quiet"},
           NEW then, NEW revision, Commit(w, kind, then, revision)
    PROVE  WInv'
  <1>0. Types
    BY DEF WInv
  <1> DEFINE e == [from |-> w, kind |-> kind]
  <1>1. /\ log' = Append(log, e) /\ e \in Event /\ e.from = w
        /\ unnotified' = IF w = "here" THEN unnotified + 1 ELSE unnotified
        /\ UNCHANGED <<aimed, signal, pc, cursor, after, delivered, lost>>
    BY WaitAssumption DEF Commit, callVars, clientVars, Event
  <1> HIDE DEF e
  <1>2. /\ log' \in Seq(Event) /\ Len(log') = Len(log) + 1 /\ Len(log) \in Nat
        /\ \A s \in 1..Len(log) : log'[s] = log[s]
        /\ log'[Len(log) + 1] = e
    BY <1>0, <1>1 DEF Types
  <1>3. Types'
    BY <1>0, <1>1, <1>2 DEF Types, High
  <1>4. \A hi \in 0..Len(log) : Hits(0, hi)' = Hits(0, hi)
    BY <1>2 DEF Hits
  <1>5. CursorCoversDelivered' /\ CallCovers'
    BY <1>0, <1>1, <1>4 DEF WInv, CursorCoversDelivered, CallCovers, Types, High, Hits
  <1>6. Roused'
    <2>1. CASE w = "here"
      BY <1>0, <1>1, <2>1 DEF Roused, Types
    <2>2. CASE w # "here"
      <3>1. \A s \in cursor' + 1 .. High' :
                log'[s].from = "here" => s \in cursor + 1 .. High /\ log[s].from = "here"
        BY <1>0, <1>1, <1>2, <2>2 DEF Types, High
      <3> QED
        BY <1>1, <2>2, <3>1 DEF Roused, WInv
    <2> QED
      BY <2>1, <2>2
  <1> QED
    BY <1>3, <1>5, <1>6 DEF WInv

\* The two halves of a notification pass the wakeup on.
LEMMA NotifyKeeps ==
    ASSUME WInv, Notify \/ SetSignal
    PROVE  WInv'
  <1>1. UNCHANGED <<log, pc, cursor, after, delivered, lost>>
    BY DEF Notify, SetSignal, logVars, callVars, clientVars
  <1>a. aimed' \in BOOLEAN
    BY DEF Notify, SetSignal
  <1>b. signal' \in BOOLEAN
    BY DEF Notify, SetSignal, WInv, Types
  <1>c. unnotified' \in Nat
    BY DEF Notify, SetSignal, logVars, WInv, Types
  <1>2. Types' /\ CursorCoversDelivered' /\ CallCovers'
    BY <1>1, <1>a, <1>b, <1>c DEF WInv, Types, CursorCoversDelivered, CallCovers, Hits, High
  <1>3. pc # "client" /\ (signal \/ aimed \/ unnotified > 0)
        => signal' \/ aimed' \/ unnotified' > 0
    BY DEF Notify, SetSignal
  <1>4. Roused'
    BY <1>1, <1>3 DEF WInv, Roused, High
  <1> QED
    BY <1>2, <1>4 DEF WInv

\* A step inside the call that ends in front of the next scan.
LEMMA RestartKeeps ==
    ASSUME WInv, UNCHANGED <<log, unnotified, aimed, after, delivered, lost>>,
           pc' \in {"clear", "scan"}, signal' \in BOOLEAN,
           cursor' = cursor \/ cursor' = after
    PROVE  WInv'
  <1>1. Types'
    BY DEF WInv, Types, High, Counter
  <1>2. CursorCoversDelivered' /\ CallCovers'
    BY DEF WInv, CursorCoversDelivered, CallCovers, Hits
  <1>3. Roused'
    BY DEF Roused
  <1> QED
    BY <1>1, <1>2, <1>3 DEF WInv

\* A step of the call after its scan that neither reads the log nor sleeps on
\* anything the scan has not covered.
LEMMA WaitingKeeps ==
    ASSUME WInv, UNCHANGED <<log, unnotified, aimed, signal, cursor, after, delivered, lost>>,
           pc \in {"recover", "decide", "dispose", "sleep"},
           pc' \in {"recover", "decide", "dispose", "sleep"}
    PROVE  WInv'
  <1>1. Types'
    BY DEF WInv, Types, High, Counter
  <1>2. CursorCoversDelivered' /\ CallCovers'
    BY DEF WInv, CursorCoversDelivered, CallCovers, Hits
  <1>3. Roused'
    BY DEF WInv, Roused, High
  <1> QED
    BY <1>1, <1>2, <1>3 DEF WInv

\* A scan returns everything up to its cursor, or has seen all there is.
LEMMA ScanKeeps ==
    ASSUME WInv, Scan
    PROVE  WInv'
  <1>0. Types
    BY DEF WInv
  <1>1. CASE Found # {}
    BY <1>0, <1>1, PageIsWhole, ReturnKeeps DEF Scan
  <1>2. CASE Found = {}
    <2>1. /\ UNCHANGED <<log, unnotified, aimed, signal, after, delivered, lost>>
          /\ cursor' = High /\ pc' \in {"recover", "decide"}
      BY <1>0, <1>2, NothingFound DEF Scan, logVars, clientVars
    <2>2. High' = High /\ High \in Nat
      BY <1>0, <2>1 DEF High, Types
    <2>3. Types'
      BY <1>0, <2>1, <2>2 DEF Types, Counter
    <2>4. CursorCoversDelivered'
      BY <2>1 DEF WInv, CursorCoversDelivered, Hits
    <2>5. Hits(0, High) \subseteq Hits(0, cursor) \cup Hits(cursor, High)
      BY <1>0, <2>2 DEF Hits, Types
    <2>6. CallCovers'
      BY <1>0, <1>2, <2>1, <2>5, NothingFound DEF WInv, CallCovers, Hits
    <2>7. Roused'
      BY <2>1, <2>2 DEF Roused
    <2> QED
      BY <2>3, <2>4, <2>6, <2>7 DEF WInv
  <1> QED
    BY <1>1, <1>2

\* An answer without events keeps the cursor of the call.
LEMMA EmptyAnswerKeeps ==
    ASSUME WInv, Return({}, cursor)
    PROVE  WInv'
  <1>1. cursor \in 0..High /\ Hits(cursor, cursor) = {}
    BY DEF WInv, Types, Hits, High
  <1> QED
    BY <1>1, ReturnKeeps

\* Every step keeps the invariant.
LEMMA WStep == WInv /\ [Next]_vars => WInv'
  <1> SUFFICES ASSUME WInv, [Next]_vars PROVE WInv'
    OBVIOUS
  <1>0. Types
    BY DEF WInv
  <1>1. CASE UNCHANGED vars
    BY <1>1 DEF vars, logVars, callVars, clientVars, WInv, Types, CursorCoversDelivered,
                CallCovers, Roused, Hits, High
  <1>2. CASE CommitNext
    BY <1>2, CommitKeeps DEF CommitNext
  <1>3. CASE Notify \/ SetSignal
    BY <1>3, NotifyKeeps
  <1>a. ASSUME NEW then \in Scopes, Lease(then)
        PROVE  WInv'
    BY <1>a DEF Lease, callVars, clientVars, WInv, Types, CursorCoversDelivered,
                CallCovers, Roused, Hits, High
  <1>b. ASSUME NEW revision, Call(revision)
        PROVE  WInv'
    BY <1>0, <1>b, RestartKeeps DEF Call, logVars, clientVars, Types
  <1>4. CASE Clear \/ Wake \/ Poll
    BY <1>0, <1>4, RestartKeeps
       DEF Clear, Wake, Poll, logVars, callVars, clientVars, Types
  <1>5. CASE Scan
    BY <1>5, ScanKeeps
  <1>6. ASSUME NEW result \in {"ok", "failed", "pending"}, NEW more \in BOOLEAN,
               Recover(result, more)
        PROVE  WInv'
    BY <1>6, WaitingKeeps DEF Recover, logVars, clientVars
  <1>7. CASE DecideFailed
    BY <1>0, <1>7, PageIsWhole, ReturnKeeps DEF DecideFailed
  <1>8. CASE Decide
    <2>1. /\ UNCHANGED <<log, unnotified, aimed, signal, cursor, after, delivered, lost>>
          /\ pc = "decide" /\ pc' \in {"clear", "dispose", "sleep"}
      BY <1>8 DEF Decide, logVars, callVars, clientVars
    <2> QED
      BY <1>0, <2>1, RestartKeeps, WaitingKeeps DEF Types
  <1>9. CASE Dispose
    <2>1. CASE High > cursor \/ Outcome = "wait"
      <3>1. /\ UNCHANGED <<log, unnotified, aimed, signal, cursor, after, delivered, lost>>
            /\ pc = "dispose" /\ pc' \in {"clear", "sleep"}
        BY <1>9, <2>1 DEF Dispose, logVars, callVars, clientVars
      <3> QED
        BY <1>0, <3>1, RestartKeeps, WaitingKeeps DEF Types
    <2>2. CASE ~(High > cursor \/ Outcome = "wait")
      BY <1>9, <2>2, EmptyAnswerKeeps DEF Dispose
    <2> QED
      BY <2>1, <2>2
  <1>10. CASE RecoverTimeout \/ Deadline
    BY <1>10, EmptyAnswerKeeps DEF RecoverTimeout, Deadline
  <1> QED
    BY <1>1, <1>2, <1>3, <1>a, <1>b, <1>4, <1>5, <1>6, <1>7, <1>8, <1>9, <1>10
       DEF Next, Running

\* The invariant holds at all times.
LEMMA WInvariance == Spec => []WInv
  BY WInit, WStep, PTL DEF Spec

-----------------------------------------------------------------------------
(* The theorems *)

\* Every selected event up to the cursor the driver holds was delivered to it:
\* wait_for_state_change never moves a cursor over an event it did not return,
\* on full pages, after timeouts and when responses are lost.
THEOREM CursorsCover == Spec => []CursorCoversDelivered
  <1>1. WInv => CursorCoversDelivered
    BY DEF WInv
  <1> QED
    BY <1>1, WInvariance, PTL

\* A waiter that sleeps behind a commit of its own process has its event set or
\* a notify on its way: clearing before the scan and looking at the event again
\* before sleeping loses no wakeup.
THEOREM WakeupsAreNotLost == Spec => []NoLostWakeup
  <1>1. WInv => NoLostWakeup
    BY DEF WInv, Roused, NoLostWakeup
  <1> QED
    BY <1>1, WInvariance, PTL

\* wait_disposition's verdict (a newer note, something to decide, nothing to
\* wait for) is given with every selected event delivered, and leaves running
\* work only for a newer note or another attempt to decide about.
THEOREM VerdictsAreCurrent == Spec => IdleVerdictIsCurrent
  <1>1. ASSUME WInv, [Next]_vars, pc = "dispose", pc' = "client", lost' = lost
        PROVE  /\ Hits(0, High) \subseteq delivered'
               /\ "running" \in work =>
                     note = "newer" \/ work \cap {"paused", "unpinned"} # {}
    <2>1. Dispose
      BY <1>1 DEF vars, Next, CommitNext, Commit, Lease, Notify, SetSignal, Running, Call, Clear,
                  Scan, Recover, DecideFailed, Decide, Wake, RecoverTimeout, Poll, Deadline
    <2>2. ~(High > cursor) /\ Outcome # "wait" /\ Return({}, cursor)
      BY <1>1, <2>1 DEF Dispose
    <2>3. cursor = High
      BY <1>1, <2>2 DEF WInv, Types, High
    <2>4. delivered' = delivered
      BY <1>1, <2>2 DEF Return, WInv, Types
    <2>5. "running" \in work => note = "newer" \/ work \cap {"paused", "unpinned"} # {}
      <3> SUFFICES ASSUME "running" \in work, note # "newer", work \cap {"paused", "unpinned"} = {}
                   PROVE  FALSE
        OBVIOUS
      <3>1. work # {} /\ work # {"lapsed"}
        OBVIOUS
      <3>2. Outcome = "wait"
        BY <3>1 DEF Outcome
      <3> QED
        BY <2>2, <3>2
    <2> QED
      BY <1>1, <2>3, <2>4, <2>5 DEF WInv, CallCovers
  <1>2. WInv /\ [Next]_vars =>
          [ (pc = "dispose" /\ pc' = "client" /\ lost' = lost) =>
                /\ Hits(0, High) \subseteq delivered'
                /\ "running" \in work =>
                      note = "newer" \/ work \cap {"paused", "unpinned"} # {} ]_vars
    BY <1>1
  <1> QED
    BY <1>2, WInvariance, PTL DEF Spec, IdleVerdictIsCurrent

=============================================================================
