----------------------------- MODULE StateWait -----------------------------
(***************************************************************************)
(* wait_for_state_change (core/state_changes.py): one driver waiting on the*)
(* event log of one project, with a durable cursor it passes from call to  *)
(* call.                                                                   *)
(*                                                                         *)
(* The log grows by committed transactions (StateGraphStore.transaction),  *)
(* which then notify the waiters of their own process: a hint only, and    *)
(* the commits of other processes give none.  The waiter is a coroutine:   *)
(* everything between two awaits is one action, and commits and            *)
(* notifications interleave with it everywhere else.  Lease sweeps,        *)
(* recovery passes and every other writer are the same kind of commit.     *)
(* A response may be lost on its way; the driver then repeats the call     *)
(* with the cursor it has.                                                 *)
(***************************************************************************)
EXTENDS Naturals, FiniteSets, Sequences

CONSTANTS
    Writers,        \* where commits come from: "here", "elsewhere"
    Limit,          \* events per page
    Recovery,       \* a workflow runtime is composed: recovery pages run
    WhenIdle,       \* return_when_idle
    LeaseEvents,    \* include_lease_events
    Scopes,         \* what may be in the wait's scope: sets of kinds of attempt
    MaxEvents,      \* bound on the log
    MaxLost         \* bound on lost responses

ASSUME WaitAssumption ==
    /\ Writers \subseteq {"here", "elsewhere"}
    /\ Limit \in Nat \ {0}
    /\ Recovery \in BOOLEAN /\ WhenIdle \in BOOLEAN /\ LeaseEvents \in BOOLEAN
    /\ Scopes \subseteq SUBSET {"running", "lapsed", "paused", "unpinned"}
    /\ MaxEvents \in Nat /\ MaxLost \in Nat

VARIABLES
    log,        \* state_events: who committed; "hit" if the wait's filter selects it
    work,       \* kinds of attempt in the wait's scope: active ones are "running", or
                \* "lapsed" when their lease is reclaimable, or "paused"; "unpinned"
                \* is a candidate without an artifact; settled ones are left out
    unnotified, \* commits of this process that have not reached notify yet
    aimed,      \* a notify has read the waiter's token and not set it yet
    signal,     \* the waiter's asyncio.Event
    pc,         \* the waiter's next step; "client" between calls
    cursor,     \* the call's cursor
    page,       \* recovery_after # 0: more recovery pages to go
    observed,   \* recovery_ok: "ok", "failed" or "pending"
    note,       \* note_after_revision: "none" given, the "current" one, or the
                \* note is "newer"
    after,      \* the cursor the driver holds
    delivered,  \* sequence numbers of the events the driver received
    lost        \* responses lost so far

logVars == <<log, work, unnotified>>
callVars == <<cursor, page, observed, note>>
clientVars == <<after, delivered, lost>>
vars == <<logVars, aimed, signal, pc, callVars, clientVars>>

High == Len(log)
Hits(lo, hi) == {s \in lo + 1 .. hi : log[s].kind = "hit"}

-----------------------------------------------------------------------------
(* Commits and notifications *)

\* A committed transaction.  It may change the work in scope and revise the
\* driver note; whether its event is selected is up to the filter.
Commit(w, kind, then, revision) ==
    /\ High < MaxEvents
    /\ revision = note \/ (note = "current" /\ revision = "newer")
    /\ log' = Append(log, [from |-> w, kind |-> kind])
    /\ work' = then
    /\ note' = revision
    /\ unnotified' = IF w = "here" THEN unnotified + 1 ELSE unnotified
    /\ UNCHANGED <<aimed, signal, pc, cursor, page, observed, clientVars>>

\* A lease runs out or a heartbeat renews it: neither writes an event.
Lease(then) ==
    /\ then # work
    /\ then \ {"running", "lapsed"} = work \ {"running", "lapsed"}
    /\ work \cap {"running", "lapsed"} # {} /\ then \cap {"running", "lapsed"} # {}
    /\ work' = then
    /\ UNCHANGED <<log, unnotified, aimed, signal, pc, callVars, clientVars>>

\* notify, after the commit: reads the subscribers ...
Notify ==
    /\ unnotified > 0
    /\ unnotified' = unnotified - 1
    /\ aimed' = (aimed \/ pc # "client")
    /\ UNCHANGED <<log, work, signal, pc, callVars, clientVars>>

\* ... and has their loop set the event.
SetSignal ==
    /\ aimed
    /\ aimed' = FALSE
    /\ signal' = TRUE
    /\ UNCHANGED <<logVars, pc, callVars, clientVars>>

-----------------------------------------------------------------------------
(* One call *)

\* The call subscribes before it reads anything.  The driver passes no note
\* revision, the current one, or one that was revised since.
Call(revision) ==
    /\ pc = "client"
    /\ revision = "newer" => High > 0
    /\ pc' = "clear"
    /\ cursor' = after /\ page' = FALSE /\ observed' = "ok" /\ note' = revision
    /\ signal' = FALSE
    /\ UNCHANGED <<logVars, aimed, clientVars>>

Clear ==
    /\ pc = "clear"
    /\ pc' = "scan"
    /\ signal' = FALSE
    /\ UNCHANGED <<logVars, aimed, callVars, clientVars>>

\* The call ends and unsubscribes; the driver gets the events and the new
\* cursor, or nothing when the response is lost.
Return(events, next) ==
    /\ pc' = "client"
    /\ cursor' = 0 /\ page' = FALSE /\ observed' = "ok" /\ note' = "none"
    /\ aimed' = FALSE /\ signal' = FALSE
    /\ \/ /\ after' = next
          /\ delivered' = delivered \cup events
          /\ UNCHANGED lost
       \/ /\ lost < MaxLost
          /\ lost' = lost + 1
          /\ UNCHANGED <<after, delivered>>
    /\ UNCHANGED logVars

\* The events a scan returns: the first Limit hits after the cursor.
Found == {s \in Hits(cursor, High) : Cardinality(Hits(cursor, s)) <= Limit}

\* Mutant of NextCursor: the high-water mark, whatever was returned.
NextCursorHigh == High

\* The cursor a scan leaves.
NextCursor ==
    IF Cardinality(Hits(cursor, High)) > Limit
    THEN CHOOSE s \in Found : \A t \in Found : t <= s
    ELSE High

\* scan, in one read transaction; without a runtime there is nothing to recover.
Scan ==
    /\ pc = "scan"
    /\ IF Found # {}
       THEN Return(Found, NextCursor)
       ELSE /\ cursor' = NextCursor
            /\ pc' = IF Recovery THEN "recover" ELSE "decide"
            /\ observed' = IF Recovery THEN observed ELSE "ok"
            /\ UNCHANGED <<logVars, aimed, signal, page, note, clientVars>>

\* recover_page: one bounded page of attempts is reconciled (what it commits is
\* a Commit); a page some other waiter is reading leaves the observation pending.
Recover(result, more) ==
    /\ pc = "recover"
    /\ pc' = "decide"
    /\ observed' = result
    /\ page' = IF result = "pending" THEN page ELSE more
    /\ UNCHANGED <<logVars, aimed, signal, cursor, note, clientVars>>

\* The deadline passes while the page is read.
RecoverTimeout ==
    /\ pc = "recover"
    /\ Return({}, cursor)

\* A failed recovery authorizes no verdict: read once more and say so.
DecideFailed ==
    /\ pc = "decide" /\ WhenIdle /\ observed = "failed"
    /\ Return(Found, NextCursor)

\* Mutant of Decide: clears the event right before it sleeps.
DecideClearing ==
    /\ pc = "decide" /\ ~(WhenIdle /\ observed = "failed")
    /\ pc' = CASE page /\ observed # "pending" -> "clear"
               [] ~(page /\ observed # "pending") /\ WhenIdle /\ observed # "pending" -> "dispose"
               [] OTHER -> "sleep"
    /\ signal' = FALSE
    /\ UNCHANGED <<logVars, aimed, callVars, clientVars>>

\* Between recovery and sleep, without an await.
Decide ==
    /\ pc = "decide" /\ ~(WhenIdle /\ observed = "failed")
    /\ pc' = CASE signal -> "clear"
               [] ~signal /\ page /\ observed # "pending" -> "clear"
               [] ~signal /\ ~(page /\ observed # "pending") /\ WhenIdle /\ observed # "pending"
                    -> "dispose"
               [] OTHER -> "sleep"
    /\ UNCHANGED <<logVars, aimed, signal, callVars, clientVars>>

\* What wait_disposition finds once no event is left to replay: a newer note; a
\* paused attempt or an unpinned candidate, beside running work too; only
\* attempts nobody renewed; something to sleep on; or nothing.
Outcome ==
    CASE note = "newer" -> "driver_note_changed"
      [] note # "newer" /\ work \cap {"paused", "unpinned"} # {} -> "action_required"
      [] note # "newer" /\ LeaseEvents /\ work = {"lapsed"} -> "action_required"
      [] note # "newer" /\ work = {} /\ note = "none" -> "nothing_to_wait"
      [] OTHER -> "wait"

\* Mutant of Dispose: does not look for events committed since the scan.
DisposeBlindly ==
    /\ pc = "dispose"
    /\ IF Outcome = "wait"
       THEN /\ pc' = "sleep"
            /\ UNCHANGED <<logVars, aimed, signal, callVars, clientVars>>
       ELSE Return({}, cursor)

\* wait_disposition, in one read transaction: rescan, keep waiting, or give the
\* driver a verdict to act on.
Dispose ==
    /\ pc = "dispose"
    /\ IF High > cursor \/ Outcome = "wait"
       THEN /\ pc' = IF High > cursor THEN "clear" ELSE "sleep"
            /\ UNCHANGED <<logVars, aimed, signal, callVars, clientVars>>
       ELSE Return({}, cursor)

Wake ==
    /\ pc = "sleep" /\ signal
    /\ pc' = "clear"
    /\ UNCHANGED <<logVars, aimed, signal, callVars, clientVars>>

\* Mutant of Poll: the wait sleeps until it is notified.
PollNever == FALSE /\ UNCHANGED vars

\* The bounded fallback: at most a second of sleep.
Poll ==
    /\ pc = "sleep"
    /\ pc' = "clear"
    /\ UNCHANGED <<logVars, aimed, signal, callVars, clientVars>>

\* The deadline passes before a sleep or before the next recovery page.
Deadline ==
    /\ \/ pc = "sleep"
       \/ pc = "decide" /\ ~signal /\ page /\ observed # "pending"
                        /\ ~(WhenIdle /\ observed = "failed")
    /\ Return({}, cursor)

-----------------------------------------------------------------------------
CommitNext ==
    \E w \in Writers, kind \in {"hit", "quiet"}, then \in Scopes,
       revision \in {"none", "current", "newer"} : Commit(w, kind, then, revision)

\* The steps the waiter takes without waiting for anything.
Running ==
    \/ \E revision \in {"none", "current", "newer"} : Call(revision)
    \/ Clear \/ Scan
    \/ \E result \in {"ok", "failed", "pending"}, more \in BOOLEAN : Recover(result, more)
    \/ DecideFailed \/ Decide \/ Dispose
    \/ Wake

Next ==
    \/ CommitNext
    \/ \E then \in Scopes : Lease(then)
    \/ Notify \/ SetSignal
    \/ Running
    \/ RecoverTimeout \/ Poll \/ Deadline

Init ==
    /\ log = <<>> /\ work \in Scopes /\ unnotified = 0
    /\ aimed = FALSE /\ signal = FALSE /\ pc = "client"
    /\ cursor = 0 /\ page = FALSE /\ observed = "ok" /\ note = "none"
    /\ after = 0 /\ delivered = {} /\ lost = 0

Spec == Init /\ [][Next]_vars

\* The process runs, the driver keeps calling, and the poll's timer fires.
PolledSpec == Spec /\ WF_vars(Running \/ Poll)

-----------------------------------------------------------------------------
\* The driver's cursor never passes an event it was to see: whatever pages,
\* rescans, timeouts and lost responses lie between, every selected event up to
\* the cursor it holds was delivered to it.
CursorCoversDelivered == Hits(0, after) \subseteq delivered

\* No wakeup is lost: a waiter that sleeps although a transaction of its own
\* process has committed behind its cursor has its event set, or a notify is on
\* its way to it, so the one-second poll is needed for other processes only.
NoLostWakeup ==
    (pc = "sleep" /\ \E s \in cursor + 1 .. High : log[s].from = "here")
    => signal \/ aimed \/ unnotified > 0

\* A verdict (the note changed, act, or nothing to wait for) is never given
\* over the driver's head: at that moment every selected event committed so far
\* has been delivered to it, and running work is left for a newer note or for
\* another attempt to decide about, never as if it were over.
IdleVerdictIsCurrent ==
    [][(pc = "dispose" /\ pc' = "client" /\ lost' = lost) =>
          /\ Hits(0, High) \subseteq delivered'
          /\ "running" \in work =>
                note = "newer" \/ work \cap {"paused", "unpinned"} # {}]_vars

\* Every selected event reaches the driver.
EveryHitIsDelivered ==
    \A s \in 1..MaxEvents : (s <= High /\ log[s].kind = "hit") ~> (s \in delivered)

=============================================================================
