--------------------------- MODULE StateOwnership ---------------------------
(***************************************************************************)
(* Who owns the work on one State node: claims, leases and fences          *)
(* (core/state_claims.py), claim enforcement (core/state_enforcement.py),  *)
(* reclaim (core/state_recovery.py), presence takeover                     *)
(* (core/state_takeover.py) and handoffs (core/state_handoffs.py), with the*)
(* part of attempts that ownership reads (core/state_attempts.py).         *)
(*                                                                         *)
(* Every action is one write transaction of one driver; a refused request  *)
(* rolls back, so it is a stuttering step.  A caller presents the fence it *)
(* last read; a stale one is refused, so a caller with a stale view also   *)
(* only stutters.  Time is the flag `lapsed` of a lease: past expiry plus  *)
(* the grace.  Leases have lengths of their own, so they lapse in any      *)
(* order.  The node stays open at one revision.                            *)
(***************************************************************************)
EXTENDS Naturals, FiniteSets

CONSTANTS
    Driver,         \* registered drivers, all members of the project
    Admin,          \* the drivers with admin rights
    Mortal,         \* the drivers that may vanish for good
    Purpose,        \* claim purposes in play
    Kinds,          \* execution kinds in play
    Checkout,       \* declared workspaces, up to their branch
    NoCheckout,     \* workspace = ''
    Modes,          \* settings of claim_enforcement the owner uses
    MaxClaims, MaxFence, MaxAttempts, MaxHandoffs   \* bounds

ASSUME OwnershipAssumption ==
    /\ Admin \subseteq Driver /\ Mortal \subseteq Driver
    /\ Purpose \subseteq {"implement", "plan", "review", "investigate"}
    /\ Kinds \subseteq {"skillflow", "external"}
    /\ NoCheckout \notin Checkout
    /\ Modes \subseteq BOOLEAN /\ Modes # {}
    /\ {MaxClaims, MaxFence, MaxAttempts, MaxHandoffs} \subseteq Nat

VARIABLES
    claims, claimSeq,      \* state_node_claims; rows 1..claimSeq in creation order
    attempts, attemptSeq,  \* state_attempts; active statuses past the launch are "live"
    handoffs, handoffSeq,  \* state_handoffs
    offline,               \* drivers whose effective presence is offline
    gone,                  \* drivers that will never call again
    candidate,             \* the node's status is CANDIDATE
    enforced               \* claim_enforcement = on

vars == <<claims, claimSeq, attempts, attemptSeq, handoffs, handoffSeq,
          offline, gone, candidate, enforced>>

NoRow == [status |-> "none"]

ClaimId == 1..MaxClaims
Claims == 1..claimSeq
Made == 1..attemptSeq
Offers == 1..handoffSeq

EXCLUSIVE_PURPOSES == {"implement", "plan"}
ACTIVE == {"reserved", "live"}

LiveClaims(C) == {c \in Claims : C[c].status = "live"}
Exclusive(C) == {c \in LiveClaims(C) : C[c].purpose \in EXCLUSIVE_PURPOSES}

\* Mutant of MaxUsedFence: the newest fence among live claims only.
MaxLiveFence == IF LiveClaims(claims) = {} THEN 0
                ELSE CHOOSE f \in {claims[c].fence : c \in LiveClaims(claims)} :
                        \A c \in LiveClaims(claims) : claims[c].fence <= f

\* MAX(fence) over the node's claims; the next fence is one more.
MaxUsedFence == IF claimSeq = 0 THEN 0
                ELSE CHOOSE f \in {claims[c].fence : c \in Claims} :
                        \A c \in Claims : claims[c].fence <= f

HasActive == \E a \in Made : attempts[a].status \in ACTIVE

\* Mutant of Swept: writes a status the table does not have.
SweptAsLapsed == [c \in ClaimId |-> IF c \in LiveClaims(claims) /\ claims[c].lapsed
                                    THEN [claims[c] EXCEPT !.status = "lapsed"]
                                    ELSE claims[c]]

\* _sweep_conn: claims past their grace stop; attempts are never touched.
Swept == [c \in ClaimId |-> IF c \in LiveClaims(claims) /\ claims[c].lapsed
                            THEN [claims[c] EXCEPT !.status = "expired"]
                            ELSE claims[c]]

NewClaim(d, p, w, a, fence) ==
    [driver |-> d, purpose |-> p, status |-> "live", fence |-> fence,
     lapsed |-> FALSE, attempt |-> a, workspace |-> w]

\* mark_back: the driver acted, so it is not offline.
MarkBack(d) == offline' = offline \ {d}

-----------------------------------------------------------------------------
(* Claims and leases *)

Sweep ==
    /\ claims' = Swept
    /\ claims' # claims
    /\ UNCHANGED <<claimSeq, attempts, attemptSeq, handoffs, handoffSeq,
                   offline, gone, candidate, enforced>>

\* Mutant of ClaimNode: only the caller's own claims are in its way.
ClaimNodeOverOthers(d, p, w) ==
    /\ claimSeq < MaxClaims /\ MaxUsedFence < MaxFence
    /\ p \in EXCLUSIVE_PURPOSES => \A c \in Exclusive(Swept) : claims[c].driver # d
    /\ claims' = [Swept EXCEPT ![claimSeq + 1] = NewClaim(d, p, w, 0, MaxUsedFence + 1)]
    /\ claimSeq' = claimSeq + 1
    /\ MarkBack(d)
    /\ UNCHANGED <<attempts, attemptSeq, handoffs, handoffSeq, gone, candidate, enforced>>

\* claim_node: sweeps, refuses a second exclusive holder, issues a new fence.
ClaimNode(d, p, w) ==
    /\ claimSeq < MaxClaims /\ MaxUsedFence < MaxFence
    /\ p \in EXCLUSIVE_PURPOSES => Exclusive(Swept) = {}
    /\ claims' = [Swept EXCEPT ![claimSeq + 1] = NewClaim(d, p, w, 0, MaxUsedFence + 1)]
    /\ claimSeq' = claimSeq + 1
    /\ MarkBack(d)
    /\ UNCHANGED <<attempts, attemptSeq, handoffs, handoffSeq, gone, candidate, enforced>>

ReleaseClaim(d, c) ==
    /\ claims[c].status = "live"
    /\ claims[c].driver = d \/ d \in Admin
    /\ claims' = [claims EXCEPT ![c].status = "released"]
    /\ UNCHANGED <<claimSeq, attempts, attemptSeq, handoffs, handoffSeq,
                   offline, gone, candidate, enforced>>

\* Mutant of Heartbeat: a claim of any status is renewed.
HeartbeatAnyClaim(d, cs, as) ==
    /\ cs \cup as # {}
    /\ \A c \in cs : claims[c].driver = d
    /\ \A a \in as : attempts[a].status \in ACTIVE /\ attempts[a].owner = d
    /\ claims' = [c \in ClaimId |-> IF c \in cs
                       THEN [claims[c] EXCEPT !.lapsed = FALSE, !.status = "live"]
                       ELSE claims[c]]
    /\ attempts' = [a \in 1..MaxAttempts |->
                       IF a \in as THEN [attempts[a] EXCEPT !.lapsed = FALSE]
                       ELSE attempts[a]]
    /\ MarkBack(d)
    /\ UNCHANGED <<claimSeq, attemptSeq, handoffs, handoffSeq, gone, candidate, enforced>>

\* heartbeat: the items that pass their checks are renewed, whatever their age.
Heartbeat(d, cs, as) ==
    /\ cs \cup as # {}
    /\ \A c \in cs : claims[c].status = "live" /\ claims[c].driver = d
    /\ \A a \in as : attempts[a].status \in ACTIVE /\ attempts[a].owner = d
    /\ claims' = [c \in ClaimId |-> IF c \in cs THEN [claims[c] EXCEPT !.lapsed = FALSE]
                                    ELSE claims[c]]
    /\ attempts' = [a \in 1..MaxAttempts |->
                       IF a \in as THEN [attempts[a] EXCEPT !.lapsed = FALSE]
                       ELSE attempts[a]]
    /\ MarkBack(d)
    /\ UNCHANGED <<claimSeq, attemptSeq, handoffs, handoffSeq, gone, candidate, enforced>>

-----------------------------------------------------------------------------
(* Dispatch *)

\* live_implement_claim, when it belongs to d: a lapsed one authorizes nothing.
OwnImplement(d) ==
    {c \in LiveClaims(claims) : /\ claims[c].purpose = "implement"
                                /\ claims[c].driver = d /\ ~claims[c].lapsed}

\* dispatch_claim: the claims d's dispatch may ride on; 0 stands for none.
DispatchClaim(d, kind) ==
    {c \in LiveClaims(claims) : /\ kind = "external" /\ candidate
                                /\ claims[c].purpose = "review"
                                /\ claims[c].driver = d /\ ~claims[c].lapsed}
    \cup OwnImplement(d)
    \cup (IF ~enforced \/ (d \in Admin /\ OwnImplement(d) = {}) THEN {0} ELSE {})

\* The checkout of an attempt as _after_unknown_abandon reads it: that of the
\* newest claim bound to it which declares one.
DeclaredCheckout(a) ==
    LET bound == {c \in Claims : claims[c].attempt = a /\ claims[c].workspace # NoCheckout}
    IN  {claims[c].workspace : c \in {x \in bound : \A y \in bound : y <= x}}

\* _after_unknown_abandon.  base_sha is the caller's to declare.
AfterUnknownAbandon(d, c) ==
    (/\ attemptSeq > 0
     /\ attempts[attemptSeq].abandon = "unknown"
     /\ d \notin Admin)
    => /\ c # 0
       /\ claims[c].workspace # NoCheckout
       /\ claims[c].workspace \notin DeclaredCheckout(attemptSeq)

\* _reserve_once
Reserve(d, kind, c) ==
    /\ attemptSeq < MaxAttempts
    /\ ~HasActive
    /\ c \in DispatchClaim(d, kind)
    /\ enforced => AfterUnknownAbandon(d, c)
    /\ attempts' = [attempts EXCEPT ![attemptSeq + 1] =
           [owner |-> d, reporter |-> d, fence |-> 1, lapsed |-> FALSE, kind |-> kind,
            status |-> IF kind = "external" THEN "live" ELSE "reserved",
            review |-> c # 0 /\ claims[c].purpose = "review",
            abandon |-> "none", quiet |-> FALSE]]
    /\ attemptSeq' = attemptSeq + 1
    /\ claims' = IF c = 0 THEN claims ELSE [claims EXCEPT ![c].attempt = attemptSeq + 1]
    /\ candidate' = FALSE
    /\ IF kind = "external" THEN MarkBack(d) ELSE UNCHANGED offline
    /\ UNCHANGED <<claimSeq, handoffs, handoffSeq, gone, enforced>>

\* _reserve_once replayed under its request key with a named implement claim:
\* the claim is bound to the attempt it replays.  A review attempt's replay must
\* name the review claim it already rides, and changes nothing.
ReplayReserve(d, a, c) ==
    /\ attempts[a].status \in ACTIVE /\ ~attempts[a].review
    /\ enforced => attempts[a].owner = d \/ d \in Admin
    /\ c \in OwnImplement(d)
    /\ claims[c].attempt = 0
    /\ claims' = [claims EXCEPT ![c].attempt = a]
    /\ IF attempts[a].kind = "external" THEN MarkBack(d) ELSE UNCHANGED offline
    /\ UNCHANGED <<claimSeq, attempts, attemptSeq, handoffs, handoffSeq, gone,
                   candidate, enforced>>

\* launch_authorization: may d launch attempt a, binding claim c (0 for none)?
LaunchAuthorized(d, a, c) ==
    \/ ~enforced /\ c = 0
    \/ /\ enforced
       /\ attempts[a].owner = d /\ OwnImplement(d) # {}
       /\ c \in {0} \cup OwnImplement(d)
       /\ c = 0 => \E x \in OwnImplement(d) : claims[x].attempt = a
    \/ /\ enforced /\ d \in Admin /\ c = 0
       /\ attempts[a].owner = d => OwnImplement(d) = {}

\* claim_launch with current pins.
ClaimLaunch(d, a, c) ==
    /\ attempts[a].status = "reserved"
    /\ LaunchAuthorized(d, a, c)
    /\ attempts' = [attempts EXCEPT ![a].status = "live"]
    /\ claims' = IF c = 0 THEN claims ELSE [claims EXCEPT ![c].attempt = a]
    /\ UNCHANGED <<claimSeq, attemptSeq, handoffs, handoffSeq, offline, gone,
                   candidate, enforced>>

\* record_preflight with an error, retire_reservation, or claim_launch with
\* moved pins: no worker ever ran; the bound claim stays with its holder.
RetireIntent(a) ==
    /\ attempts[a].status = "reserved"
    /\ attempts' = [attempts EXCEPT ![a].status = "retired"]
    /\ UNCHANGED <<claims, claimSeq, attemptSeq, handoffs, handoffSeq, offline, gone,
                   candidate, enforced>>

-----------------------------------------------------------------------------
(* Settlement *)

\* Mutant of ReleaseBound: releases what the attempt's owner holds.
ReleaseOwned(a) ==
    [c \in ClaimId |-> IF /\ c \in LiveClaims(claims) /\ claims[c].attempt = a
                          /\ claims[c].driver = attempts[a].owner
                       THEN [claims[c] EXCEPT !.status = "released"] ELSE claims[c]]

\* release_bound_claims
ReleaseBound(a) ==
    [c \in ClaimId |-> IF c \in LiveClaims(claims) /\ claims[c].attempt = a
                       THEN [claims[c] EXCEPT !.status = "released"] ELSE claims[c]]

\* A terminal report: observe by the owner (_authorize_report), or reconcile
\* of a SkillFlow run, which any caller may trigger.
Settle(d, a, good) ==
    /\ attempts[a].status = "live"
    /\ attempts[a].kind = "external" => attempts[a].owner = d
    /\ attempts' = [attempts EXCEPT ![a].status = "settled"]
    /\ claims' = ReleaseBound(a)
    /\ candidate' = good
    /\ IF attempts[a].kind = "external" THEN MarkBack(d) ELSE UNCHANGED offline
    /\ UNCHANGED <<claimSeq, attemptSeq, handoffs, handoffSeq, gone, enforced>>

\* observe on an abandoned attempt with a quiescence report: the worker is
\* attested to have stopped; the attempt stays abandoned.
LateReport(d, a) ==
    /\ attempts[a].status = "abandoned" /\ ~attempts[a].quiet
    /\ d \in {attempts[a].owner, attempts[a].reporter}
    /\ attempts' = [attempts EXCEPT ![a].quiet = TRUE]
    /\ MarkBack(d)
    /\ UNCHANGED <<claims, claimSeq, attemptSeq, handoffs, handoffSeq, gone,
                   candidate, enforced>>

-----------------------------------------------------------------------------
(* Reclaim *)

\* Mutant of Reclaimable: nobody but an admin may reclaim.
ReclaimableByAdmin(d, a) == attempts[a].status \in ACTIVE /\ d \in Admin

\* _reclaimable: lapsed, or an admin breaks the glass.
Reclaimable(d, a) ==
    /\ attempts[a].status \in ACTIVE
    /\ attempts[a].lapsed \/ d \in Admin

\* The live claims that stop or move with the attempt: those bound to it and
\* its owner's exclusive claim, bound or not.
MovingClaims(a) ==
    {c \in LiveClaims(claims) :
        \/ claims[c].attempt = a
        \/ claims[c].driver = attempts[a].owner /\ claims[c].purpose \in EXCLUSIVE_PURPOSES}

VoidOpenHandoffs(a) ==
    [h \in 1..MaxHandoffs |->
        IF h \in Offers /\ handoffs[h].subject = "attempt" /\ handoffs[h].id = a
                        /\ handoffs[h].status = "offered"
        THEN [handoffs[h] EXCEPT !.status = "withdrawn"] ELSE handoffs[h]]

AbandonExternalAttempt(d, a, kind) ==
    /\ attempts[a].kind = "external"
    /\ Reclaimable(d, a)
    /\ attempts' = [attempts EXCEPT ![a].status = "abandoned", ![a].abandon = kind,
                                    ![a].quiet = (kind = "confirmed_stopped"),
                                    ![a].fence = @ + 1]
    /\ claims' = [c \in ClaimId |-> IF c \in MovingClaims(a)
                                    THEN [claims[c] EXCEPT !.status = "released"]
                                    ELSE claims[c]]
    /\ handoffs' = VoidOpenHandoffs(a)
    /\ UNCHANGED <<claimSeq, attemptSeq, handoffSeq, offline, gone, candidate, enforced>>

\* _release_bound_claims with a new holder.  Each source claim is re-issued to
\* d, except that an exclusive one gives way to the exclusive claim d already
\* holds, which is bound to the attempt under a fresh fence.
MoveClaims(a, d) ==
    LET rows == MovingClaims(a)
        bound == {c \in Claims : claims[c].attempt = a}
        sources == IF rows # {} THEN rows ELSE {c \in bound : \A x \in bound : x <= c}
        held == {c \in Exclusive(claims) \ rows : claims[c].driver = d}
        taken == {c \in sources : claims[c].purpose \in EXCLUSIVE_PURPOSES}
        reissued == IF held = {} THEN sources ELSE sources \ taken
        rank(S, c) == Cardinality({x \in S : x <= c})
        steps == IF sources = {} THEN 1 ELSE Cardinality(sources)
        fresh == IF sources = {} /\ held = {} THEN 1 ELSE Cardinality(reissued)
        needs == IF sources = {} THEN held = {} ELSE taken # {} /\ held = {}
        binds == held # {} /\ (sources = {} \/ taken # {})
        new(k) == IF sources = {} THEN NewClaim(d, "implement", NoCheckout, a, MaxUsedFence + 1)
                  ELSE LET s == CHOOSE c \in reissued : rank(reissued, c) = k
                       IN  NewClaim(d, claims[s].purpose, claims[s].workspace, a,
                                    MaxUsedFence + rank(sources, s))
    IN  /\ claimSeq + fresh <= MaxClaims /\ MaxUsedFence + steps <= MaxFence
        /\ Cardinality(taken) <= 1
        /\ needs => Exclusive(claims) \subseteq rows
        /\ claimSeq' = claimSeq + fresh
        /\ claims' = [c \in ClaimId |->
              CASE c \in rows -> [claims[c] EXCEPT !.status = "transferred"]
                [] c \in held /\ binds ->
                     [claims[c] EXCEPT !.attempt = a,
                          !.fence = MaxUsedFence + (IF sources = {} THEN 1
                              ELSE rank(sources, CHOOSE s \in taken : TRUE))]
                [] c > claimSeq /\ c <= claimSeq + fresh -> new(c - claimSeq)
                [] OTHER -> claims[c]]

\* Mutant of SetOwner: ownership moves under the old fence.
SetOwnerKeepingFence(a, d) ==
    attempts' = [attempts EXCEPT ![a].owner = d, ![a].lapsed = FALSE]

\* The attempt's new owner, under a new fence and a new lease.
SetOwner(a, d) ==
    attempts' = [attempts EXCEPT ![a].owner = d, ![a].fence = @ + 1, ![a].lapsed = FALSE]

\* take_over_attempt: also before the grace while the owner is offline.
TakeOverAttempt(d, a) ==
    /\ attempts[a].status \in ACTIVE
    /\ attempts[a].owner # d
    /\ Reclaimable(d, a) \/ attempts[a].owner \in offline
    /\ SetOwner(a, d)
    /\ MoveClaims(a, d)
    /\ handoffs' = VoidOpenHandoffs(a)
    /\ UNCHANGED <<attemptSeq, handoffSeq, offline, gone, candidate, enforced>>

\* take_over_claim from an offline holder; the attempt does not move.
TakeOverClaim(d, c) ==
    /\ claimSeq < MaxClaims /\ MaxUsedFence < MaxFence
    /\ claims[c].driver # d
    /\ Swept[c].status = "live"
    /\ claims[c].driver \in offline
    /\ claims' = [Swept EXCEPT ![c].status = "taken_over",
                     ![claimSeq + 1] = NewClaim(d, claims[c].purpose, claims[c].workspace, 0,
                                                MaxUsedFence + 1)]
    /\ claimSeq' = claimSeq + 1
    /\ UNCHANGED <<attempts, attemptSeq, handoffs, handoffSeq, offline, gone,
                   candidate, enforced>>

-----------------------------------------------------------------------------
(* Handoffs *)

OfferHandoff(d, to, subject, i, fence) ==
    /\ handoffSeq < MaxHandoffs
    /\ ~\E h \in Offers : /\ handoffs[h].subject = subject /\ handoffs[h].id = i
                          /\ handoffs[h].status = "offered" /\ ~handoffs[h].lapsed
    /\ handoffs' = [handoffs EXCEPT ![handoffSeq + 1] =
           [subject |-> subject, id |-> i, from |-> d, to |-> to, fence |-> fence,
            status |-> "offered", lapsed |-> FALSE]]
    /\ handoffSeq' = handoffSeq + 1
    /\ UNCHANGED <<claims, claimSeq, attempts, attemptSeq, offline, gone, candidate, enforced>>

OfferAttempt(d, to, a) ==
    /\ attempts[a].status \in ACTIVE /\ attempts[a].owner = d
    /\ OfferHandoff(d, to, "attempt", a, attempts[a].fence)

OfferClaim(d, to, c) ==
    /\ claims[c].status = "live" /\ claims[c].driver = d
    /\ OfferHandoff(d, to, "claim", c, claims[c].fence)

\* _eligible and _open
Open(h) == handoffs[h].status = "offered" /\ ~handoffs[h].lapsed

Decide(h, st) == handoffs' = [handoffs EXCEPT ![h].status = st]

AcceptAttempt(d, h) ==
    LET a == handoffs[h].id
    IN  /\ handoffs[h].subject = "attempt" /\ handoffs[h].to = d /\ Open(h)
        /\ attempts[a].status \in ACTIVE
        /\ attempts[a].owner = handoffs[h].from /\ attempts[a].fence = handoffs[h].fence
        /\ SetOwner(a, d)
        /\ MoveClaims(a, d)
        /\ Decide(h, "accepted")
        /\ UNCHANGED <<attemptSeq, handoffSeq, offline, gone, candidate, enforced>>

AcceptClaim(d, h) ==
    LET c == handoffs[h].id
        old == [claims EXCEPT ![c].status = "transferred"]
    IN  /\ handoffs[h].subject = "claim" /\ handoffs[h].to = d /\ Open(h)
        /\ claims[c].status = "live" /\ claims[c].driver = handoffs[h].from
        /\ claims[c].fence = handoffs[h].fence
        /\ claimSeq < MaxClaims /\ MaxUsedFence < MaxFence
        /\ claims[c].purpose \in EXCLUSIVE_PURPOSES => Exclusive(old) = {}
        /\ claims' = [old EXCEPT ![claimSeq + 1] =
               NewClaim(d, claims[c].purpose, claims[c].workspace, claims[c].attempt,
                        MaxUsedFence + 1)]
        /\ claimSeq' = claimSeq + 1
        /\ Decide(h, "accepted")
        /\ UNCHANGED <<attempts, attemptSeq, handoffSeq, offline, gone, candidate, enforced>>

CloseOffer(d, h) ==
    /\ Open(h)
    /\ \/ handoffs[h].to = d /\ Decide(h, "declined")
       \/ (handoffs[h].from = d \/ d \in Admin) /\ Decide(h, "withdrawn")
    /\ UNCHANGED <<claims, claimSeq, attempts, attemptSeq, handoffSeq,
                   offline, gone, candidate, enforced>>

-----------------------------------------------------------------------------
(* Time, presence, policy *)

LapseClaim(c) ==
    /\ claims[c].status = "live" /\ ~claims[c].lapsed
    /\ claims' = [claims EXCEPT ![c].lapsed = TRUE]
    /\ UNCHANGED <<claimSeq, attempts, attemptSeq, handoffs, handoffSeq,
                   offline, gone, candidate, enforced>>

LapseAttempt(a) ==
    /\ attempts[a].status \in ACTIVE /\ ~attempts[a].lapsed
    /\ attempts' = [attempts EXCEPT ![a].lapsed = TRUE]
    /\ UNCHANGED <<claims, claimSeq, attemptSeq, handoffs, handoffSeq,
                   offline, gone, candidate, enforced>>

LapseOffer(h) ==
    /\ Open(h)
    /\ handoffs' = [handoffs EXCEPT ![h].lapsed = TRUE]
    /\ UNCHANGED <<claims, claimSeq, attempts, attemptSeq, handoffSeq,
                   offline, gone, candidate, enforced>>

\* effective_presence turns offline (declared, or silent for long) and back.
ChangePresence(d) ==
    /\ offline' = IF d \in offline THEN offline \ {d} ELSE offline \cup {d}
    /\ UNCHANGED <<claims, claimSeq, attempts, attemptSeq, handoffs, handoffSeq, gone,
                   candidate, enforced>>

\* A driver process dies for good.
Vanish(d) ==
    /\ gone' = gone \cup {d}
    /\ offline' = offline \cup {d}
    /\ UNCHANGED <<claims, claimSeq, attempts, attemptSeq, handoffs, handoffSeq,
                   candidate, enforced>>

SetClaimEnforcement(m) ==
    /\ enforced' = m
    /\ m # enforced
    /\ UNCHANGED <<claims, claimSeq, attempts, attemptSeq, handoffs, handoffSeq,
                   offline, gone, candidate>>

-----------------------------------------------------------------------------
DriverNext(d) ==
    \/ Sweep
    \/ \E p \in Purpose, w \in Checkout \cup {NoCheckout} : ClaimNode(d, p, w)
    \/ \E c \in Claims : ReleaseClaim(d, c)
    \/ \E cs \in SUBSET Claims, as \in SUBSET Made : Heartbeat(d, cs, as)
    \/ \E kind \in Kinds, c \in Claims \cup {0} : Reserve(d, kind, c)
    \/ \E a \in Made, c \in Claims : ReplayReserve(d, a, c)
    \/ \E a \in Made, c \in Claims \cup {0} : ClaimLaunch(d, a, c)
    \/ \E a \in Made : RetireIntent(a)
    \/ \E a \in Made, good \in BOOLEAN : Settle(d, a, good)
    \/ \E a \in Made : LateReport(d, a)
    \/ \E a \in Made, kind \in {"confirmed_stopped", "unknown"} :
          AbandonExternalAttempt(d, a, kind)
    \/ \E a \in Made : TakeOverAttempt(d, a)
    \/ \E c \in Claims : TakeOverClaim(d, c)
    \/ \E to \in Driver \ {d}, a \in Made : OfferAttempt(d, to, a)
    \/ \E to \in Driver \ {d}, c \in Claims : OfferClaim(d, to, c)
    \/ \E h \in Offers : AcceptAttempt(d, h) \/ AcceptClaim(d, h) \/ CloseOffer(d, h)
    \/ ChangePresence(d)

TimeNext ==
    \/ \E c \in Claims : LapseClaim(c)
    \/ \E a \in Made : LapseAttempt(a)
    \/ \E h \in Offers : LapseOffer(h)

Next ==
    \/ \E d \in Driver \ gone : DriverNext(d)
    \/ \E d \in Mortal \ gone : Vanish(d)
    \/ \E m \in Modes : SetClaimEnforcement(m)
    \/ TimeNext

\* The node may come with a candidate: import_tasks brings such nodes.
Init ==
    /\ claims = [c \in ClaimId |-> NoRow] /\ claimSeq = 0
    /\ attempts = [a \in 1..MaxAttempts |-> NoRow] /\ attemptSeq = 0
    /\ handoffs = [h \in 1..MaxHandoffs |-> NoRow] /\ handoffSeq = 0
    /\ offline = {} /\ gone = {}
    /\ candidate \in BOOLEAN
    /\ enforced \in Modes

Spec == Init /\ [][Next]_vars

\* Clocks run; some driver still at work reads the claims (which sweeps) and,
\* wanting the node, abandons a lapsed attempt.
Fairness ==
    /\ \A c \in ClaimId : WF_vars(c \in Claims /\ LapseClaim(c))
    /\ \A a \in 1..MaxAttempts : WF_vars(a \in Made /\ LapseAttempt(a))
    /\ WF_vars(gone # Driver /\ Sweep)
    /\ WF_vars(\E d \in Driver \ gone, a \in Made : AbandonExternalAttempt(d, a, "unknown"))

FairSpec == Spec /\ Fairness

-----------------------------------------------------------------------------
(* Types *)

ClaimRow ==
    [driver : Driver, purpose : Purpose \cup {"implement"}, fence : 1..MaxFence,
     status : {"live", "released", "expired", "transferred", "taken_over"},
     lapsed : BOOLEAN, attempt : 0..MaxAttempts, workspace : Checkout \cup {NoCheckout}]

AttemptRow ==
    [owner : Driver, reporter : Driver, fence : Nat \ {0}, lapsed : BOOLEAN, kind : Kinds,
     status : ACTIVE \cup {"retired", "settled", "abandoned"}, quiet : BOOLEAN,
     review : BOOLEAN,
     abandon : {"none", "confirmed_stopped", "unknown"}]

HandoffRow ==
    [subject : {"attempt", "claim"}, id : Nat \ {0}, from : Driver, to : Driver, fence : Nat \ {0},
     status : {"offered", "accepted", "declined", "withdrawn"}, lapsed : BOOLEAN]

\* Every row has its columns' types, and rows exist exactly up to each table's
\* last id.
TypeOK ==
    /\ claimSeq \in 0..MaxClaims /\ attemptSeq \in 0..MaxAttempts
    /\ handoffSeq \in 0..MaxHandoffs
    /\ DOMAIN claims = ClaimId /\ DOMAIN attempts = 1..MaxAttempts
    /\ DOMAIN handoffs = 1..MaxHandoffs
    /\ \A c \in Claims : claims[c] \in ClaimRow /\ claims[c].attempt \in {0} \cup Made
    /\ \A a \in Made : attempts[a] \in AttemptRow
    /\ \A h \in Offers : handoffs[h] \in HandoffRow
    /\ offline \subseteq Driver /\ gone \subseteq Driver
    /\ candidate \in BOOLEAN /\ enforced \in BOOLEAN

-----------------------------------------------------------------------------
(* Safety *)

\* At most one live implement or plan claim on the node, by the operations' own
\* checks: the partial unique index state_node_claims_one_exclusive never has
\* to refuse an insert, whatever sweeps, takeovers, handoffs and heartbeats of
\* lapsed claims interleave.
OneExclusiveHolder == Cardinality(Exclusive(claims)) <= 1

\* Fences are per node and monotonic (docs/driver-claims.md): no two claims
\* share one, and the live exclusive holder has the newest of all exclusive
\* claims ever issued, so whoever lost the node holds an older fence.
HolderHasNewestFence ==
    /\ \A c, e \in Claims : c # e => claims[c].fence # claims[e].fence
    /\ \A c \in Exclusive(claims), e \in Claims :
          claims[e].purpose \in EXCLUSIVE_PURPOSES => claims[e].fence <= claims[c].fence

\* Ownership moves at most once per fence: an accepted offer's fence is spent,
\* and an offer whose fence is still the attempt's was made by its present
\* owner, so a late accept can never take the attempt from somebody else.
OffersAreFenced ==
    \A h \in Offers : handoffs[h].subject = "attempt" =>
        LET at == attempts[handoffs[h].id]
        IN  /\ handoffs[h].status = "accepted" => handoffs[h].fence < at.fence
            /\ handoffs[h].fence <= at.fence
            /\ handoffs[h].fence = at.fence => handoffs[h].from = at.owner

\* A live claim is never left bound to finished work: when the attempt settles
\* or is abandoned its claims end with it, also after they were handed to
\* another driver or re-issued by a takeover.  (An intent retired before any
\* launch leaves its claim with the holder.)
BoundClaimsEndWithAttempt ==
    \A c \in LiveClaims(claims) : claims[c].attempt # 0 =>
        attempts[claims[c].attempt].status \in ACTIVE \cup {"retired"}

\* A claim that is no longer live never changes again: a late heartbeat,
\* release, handoff or takeover cannot bring back a lapsed holder.
EndedClaimsStayEnded ==
    [][\A c \in Claims : claims[c].status # "live" => claims'[c] = claims[c]]_vars

\* docs/driver-claims.md on abandon_kind = unknown: "two possibly live workers
\* never share a checkout".
NoSharedCheckout ==
    \A a, b \in Made :
        (/\ attempts[a].abandon = "unknown" /\ ~attempts[a].quiet
         /\ attempts[b].status \in ACTIVE)
        => DeclaredCheckout(a) \cap DeclaredCheckout(b) = {}

-----------------------------------------------------------------------------
(* Liveness *)

\* A node is never lost with its driver: once a driver is gone for good, and
\* while another driver is at work, its exclusive claim and its external
\* attempt stop occupying the node.
GoneDriverFreesNode ==
    \A d \in Driver :
        (d \in gone) ~>
            \/ gone = Driver
            \/ /\ \A c \in Exclusive(claims) : claims[c].driver # d
               /\ \A a \in Made : attempts[a].kind = "external" /\ attempts[a].status \in ACTIVE
                                   => attempts[a].owner # d

=============================================================================
