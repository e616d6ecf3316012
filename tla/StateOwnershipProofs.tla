------------------------ MODULE StateOwnershipProofs ------------------------
(***************************************************************************)
(* Theorems about StateOwnership, for any drivers, purposes and checkouts  *)
(* and any number of claims, attempts, handoffs and fences.                *)
(***************************************************************************)
EXTENDS StateOwnership, FiniteSetTheorems, WellFoundedInduction, TLAPS

-----------------------------------------------------------------------------
(* Sets of numbers *)

\* A bounded set of numbers has a greatest element.
LEMMA Greatest ==
    ASSUME NEW S \in SUBSET Nat, NEW n \in Nat, \A s \in S : s <= n, S # {}
    PROVE  \E m \in S : \A s \in S : s <= m
  <1> DEFINE T == {n - s : s \in S}
  <1>1. T \subseteq Nat /\ T # {}
    <2>1. \A s \in S : n - s \in Nat
      OBVIOUS
    <2> QED
      BY <2>1
  <1>2. PICK x \in T : \A y \in T : ~ (<<y, x>> \in OpToRel(<, Nat))
    BY <1>1, NatLessThanWellFounded, WFMin
  <1>3. \A y \in T : x <= y
    <2> SUFFICES ASSUME NEW y \in T PROVE x <= y
      OBVIOUS
    <2>1. x \in Nat /\ y \in Nat
      BY <1>1
    <2>2. ~(y < x)
      BY <1>2, <2>1 DEF OpToRel
    <2> QED
      BY <2>1, <2>2
  <1>4. PICK m \in S : x = n - m
    OBVIOUS
  <1>5. \A s \in S : n - m <= n - s
    BY <1>3, <1>4
  <1> QED
    BY <1>5

\* A finite set of at most one member.
LEMMA AtMostOne ==
    ASSUME NEW S, IsFiniteSet(S)
    PROVE  Cardinality(S) <= 1 <=> \A c, e \in S : c = e
  <1>1. ASSUME Cardinality(S) <= 1, NEW c \in S, NEW e \in S PROVE c = e
    <2>1. Cardinality(S \ {c}) = Cardinality(S) - 1 /\ IsFiniteSet(S \ {c})
      BY FS_RemoveElement
    <2>2. Cardinality(S) \in Nat /\ Cardinality(S \ {c}) \in Nat
      BY <2>1, FS_CardinalityType
    <2>3. Cardinality(S \ {c}) = 0
      BY <1>1, <2>1, <2>2
    <2>4. S \ {c} = {}
      BY <2>1, <2>3, FS_EmptySet
    <2> QED
      BY <2>4
  <1>2. ASSUME \A c, e \in S : c = e PROVE Cardinality(S) <= 1
    <2>1. CASE S = {}
      BY <2>1, FS_EmptySet
    <2>2. CASE S # {}
      <3>1. \E x : S = {x}
        BY <1>2, <2>2
      <3> QED
        BY <3>1, FS_Singleton
    <2> QED
      BY <2>1, <2>2
  <1> QED
    BY <1>1, <1>2

\* The position of c among the members of S, as MoveClaims counts it.
Rank(S, c) == Cardinality({x \in S : x <= c})

\* Positions of members are between 1 and the number of members.
LEMMA RankType ==
    ASSUME NEW S \in SUBSET Nat, IsFiniteSet(S), NEW c \in S
    PROVE  Rank(S, c) \in 1..Cardinality(S)
  <1> DEFINE T == {x \in S : x <= c}
  <1>1. T \in SUBSET S /\ c \in T
    OBVIOUS
  <1>2. IsFiniteSet(T) /\ Cardinality(T) <= Cardinality(S)
    BY <1>1, FS_Subset
  <1>3. Cardinality(T) \in Nat /\ Cardinality(S) \in Nat /\ Cardinality(T) # 0
    BY <1>1, <1>2, FS_CardinalityType, FS_EmptySet
  <1> QED
    BY <1>2, <1>3 DEF Rank

\* Different members have different positions.
LEMMA RankInjective ==
    ASSUME NEW S \in SUBSET Nat, IsFiniteSet(S), NEW c \in S, NEW e \in S, Rank(S, c) = Rank(S, e)
    PROVE  c = e
  <1>1. ASSUME NEW a \in S, NEW b \in S, a < b PROVE Rank(S, a) # Rank(S, b)
    <2> DEFINE A == {x \in S : x <= a}
               B == {x \in S : x <= b}
    <2>1. A \in SUBSET B /\ B \in SUBSET S /\ b \in B /\ b \notin A
      <3>1. \A x \in S : x <= a => x <= b
        BY <1>1
      <3>2. ~(b <= a) /\ b <= b
        BY <1>1
      <3> QED
        BY <1>1, <3>1, <3>2
    <2>2. IsFiniteSet(B)
      BY <2>1, FS_Subset
    <2>3. Cardinality(B) # Cardinality(A)
      BY <2>1, <2>2, FS_Subset
    <2> QED
      BY <2>3 DEF Rank
  <1> QED
    BY <1>1

\* Every position is taken.
LEMMA RankSurjective ==
    ASSUME NEW S \in SUBSET Nat, IsFiniteSet(S), NEW k \in 1..Cardinality(S)
    PROVE  \E c \in S : Rank(S, c) = k
  <1> DEFINE n == Cardinality(S)
             f == [c \in S |-> Rank(S, c)]
  <1>1. n \in Nat
    BY FS_CardinalityType
  <1>2. f \in Injection(S, 1..n)
    BY RankType, RankInjective DEF Injection, IsInjective
  <1>3. IsFiniteSet(1..n) /\ Cardinality(1..n) = n
    BY <1>1, FS_Interval
  <1>4. f \in Surjection(S, 1..n)
    BY <1>2, <1>3, FS_Injection
  <1> QED
    BY <1>4 DEF Surjection

-----------------------------------------------------------------------------
(* The invariant *)

\* At most one claim holds the node.
OneHolder == \A c, e \in Exclusive(claims) : c = e

\* An offer names a row that exists.
OffersRefer ==
    \A h \in Offers : handoffs[h].id \in (IF handoffs[h].subject = "attempt" THEN Made ELSE Claims)

IInv ==
    /\ TypeOK /\ OneHolder /\ HolderHasNewestFence
    /\ OffersRefer /\ OffersAreFenced /\ BoundClaimsEndWithAttempt

\* The invariant holds of a node without rows.
LEMMA IInvInit == Init => IInv
  BY OwnershipAssumption
     DEF Init, IInv, TypeOK, OneHolder, HolderHasNewestFence, OffersRefer, OffersAreFenced,
         BoundClaimsEndWithAttempt, Exclusive, LiveClaims, Claims, Made, Offers, ClaimId

ClaimsType ==
    /\ claimSeq \in 0..MaxClaims /\ DOMAIN claims = ClaimId
    /\ \A c \in Claims : claims[c] \in ClaimRow

\* What every step does to the claims.
Lawful ==
    /\ ClaimsType' /\ claimSeq <= claimSeq'
    /\ OneHolder' /\ HolderHasNewestFence'
    /\ \A c \in Claims : claims[c].status # "live" => claims'[c] = claims[c]

\* Rows exist within their tables.
LEMMA KnownClaims ==
    ASSUME IInv
    PROVE  /\ \A c \in Claims : claims[c] \in ClaimRow /\ c \in ClaimId /\ c <= claimSeq
           /\ claimSeq \in Nat /\ claimSeq + 1 \notin Claims
           /\ claimSeq < MaxClaims => claimSeq + 1 \in ClaimId
           /\ ClaimsType
  BY OwnershipAssumption DEF IInv, TypeOK, ClaimsType, Claims, ClaimId

\* MaxUsedFence is what its query returns.
LEMMA NewestFence ==
    ASSUME ClaimsType
    PROVE  MaxUsedFence \in 0..MaxFence /\ \A c \in Claims : claims[c].fence <= MaxUsedFence
  <1> DEFINE F == {claims[c].fence : c \in Claims}
  <1>1. F \subseteq 1..MaxFence /\ MaxFence \in Nat /\ claimSeq \in Nat
    BY OwnershipAssumption DEF ClaimsType, ClaimRow
  <1>2. CASE claimSeq = 0
    BY <1>1, <1>2 DEF MaxUsedFence, Claims
  <1>3. CASE claimSeq # 0
    <2>1. 1 \in Claims /\ F # {}
      BY <1>1, <1>3 DEF Claims
    <2>2. \E m \in F : \A s \in F : s <= m
      <3>1. F \in SUBSET Nat /\ \A s \in F : s <= MaxFence
        BY <1>1
      <3> HIDE DEF F
      <3> QED
        BY <1>1, <2>1, <3>1, Greatest
    <2>3. \E m \in F : \A c \in Claims : claims[c].fence <= m
      BY <2>2
    <2>4. MaxUsedFence = CHOOSE m \in F : \A c \in Claims : claims[c].fence <= m
      BY <1>3 DEF MaxUsedFence
    <2> QED
      BY <1>1, <2>3, <2>4
  <1> QED
    BY <1>2, <1>3

\* Nothing is issued, and only live claims change: their fence and purpose stay
\* and no claim comes to life.
Winding ==
    /\ claimSeq' = claimSeq /\ DOMAIN claims' = ClaimId
    /\ \A c \in Claims :
          \/ claims'[c] = claims[c]
          \/ /\ claims[c].status = "live" /\ claims'[c] \in ClaimRow
             /\ claims'[c].fence = claims[c].fence /\ claims'[c].purpose = claims[c].purpose

\* Such a step leaves the holder, if any, the newest.
LEMMA WindingIsLawful == ASSUME IInv, Winding PROVE Lawful
  <1> USE DEF Winding, Claims
  <1>1. ClaimsType'
    BY DEF IInv, TypeOK, ClaimsType
  <1>2. \A c \in Exclusive(claims)' : c \in Exclusive(claims)
    BY DEF Exclusive, LiveClaims
  <1>3. OneHolder'
    BY <1>2 DEF IInv, OneHolder
  <1>4. HolderHasNewestFence'
    <2>1. \A c \in Claims : /\ claims'[c].fence = claims[c].fence
                            /\ claims'[c].purpose = claims[c].purpose
      OBVIOUS
    <2>2. Claims' = Claims /\ Exclusive(claims) \subseteq Claims
      BY DEF Exclusive, LiveClaims
    <2> QED
      BY <1>2, <2>1, <2>2 DEF IInv, HolderHasNewestFence
  <1> QED
    BY <1>1, <1>3, <1>4 DEF Lawful, IInv, TypeOK

\* One claim is issued under a fence above all others, and if it is exclusive no
\* other exclusive one stays live.
Issuing(r) ==
    /\ claimSeq' = claimSeq + 1 /\ claimSeq < MaxClaims /\ DOMAIN claims' = ClaimId
    /\ claims'[claimSeq + 1] = r /\ r \in ClaimRow
    /\ \A c \in Claims : claims[c].fence < r.fence
    /\ \A c \in Claims :
          \/ claims'[c] = claims[c]
          \/ /\ claims[c].status = "live" /\ claims'[c] \in ClaimRow
             /\ claims'[c].fence = claims[c].fence /\ claims'[c].purpose = claims[c].purpose
    /\ r.purpose \in EXCLUSIVE_PURPOSES =>
          \A c \in Claims : claims[c].purpose \in EXCLUSIVE_PURPOSES => claims'[c].status # "live"

\* Such a step leaves one holder with the newest fence.
LEMMA IssuingIsLawful == ASSUME IInv, NEW r, Issuing(r) PROVE Lawful
  <1> USE DEF Issuing
  <1>1. /\ claimSeq \in Nat /\ Claims' = Claims \cup {claimSeq + 1} /\ claimSeq + 1 \notin Claims
        /\ MaxClaims \in Nat
    BY OwnershipAssumption DEF IInv, TypeOK, Claims
  <1>2. ClaimsType'
    BY <1>1 DEF IInv, TypeOK, ClaimsType
  <1>3. \A c \in Claims : /\ claims'[c].fence = claims[c].fence
                          /\ claims'[c].purpose = claims[c].purpose
                          /\ claims'[c].status = "live" => claims[c].status = "live"
    OBVIOUS
  <1>4. \A c \in Claims : claims[c].fence \in Nat
    BY DEF IInv, TypeOK, ClaimRow
  <1>5. r.fence \in Nat
    BY DEF ClaimRow
  <1>6. OneHolder'
    BY <1>1, <1>3 DEF IInv, OneHolder, Exclusive, LiveClaims
  <1>7. HolderHasNewestFence'
    BY <1>1, <1>3, <1>4, <1>5 DEF IInv, HolderHasNewestFence, Exclusive, LiveClaims
  <1> QED
    BY <1>1, <1>2, <1>6, <1>7 DEF Lawful

ClaimStatus == {"live", "released", "expired", "transferred", "taken_over"}

\* Updates of single columns keep a claim's type and its other columns.
LEMMA RowUpdates ==
    ASSUME NEW r \in ClaimRow, NEW s \in ClaimStatus, NEW b \in BOOLEAN, NEW a \in 0..MaxAttempts
    PROVE  /\ [r EXCEPT !.status = s] \in ClaimRow
           /\ [r EXCEPT !.status = s].fence = r.fence
           /\ [r EXCEPT !.status = s].purpose = r.purpose
           /\ [r EXCEPT !.status = s].attempt = r.attempt
           /\ [r EXCEPT !.status = s].status = s
           /\ [r EXCEPT !.lapsed = b] \in ClaimRow
           /\ [r EXCEPT !.lapsed = b].fence = r.fence
           /\ [r EXCEPT !.lapsed = b].purpose = r.purpose
           /\ [r EXCEPT !.lapsed = b].attempt = r.attempt
           /\ [r EXCEPT !.lapsed = b].status = r.status
           /\ [r EXCEPT !.attempt = a] \in ClaimRow
           /\ [r EXCEPT !.attempt = a].fence = r.fence
           /\ [r EXCEPT !.attempt = a].purpose = r.purpose
           /\ [r EXCEPT !.attempt = a].attempt = a
           /\ [r EXCEPT !.attempt = a].status = r.status
  BY DEF ClaimRow, ClaimStatus

\* The row of a new claim.
LEMMA NewClaimType ==
    ASSUME NEW d \in Driver, NEW p \in Purpose \cup {"implement"},
           NEW w \in Checkout \cup {NoCheckout}, NEW a \in 0..MaxAttempts, NEW f \in 1..MaxFence
    PROVE  /\ NewClaim(d, p, w, a, f) \in ClaimRow
           /\ NewClaim(d, p, w, a, f).fence = f
           /\ NewClaim(d, p, w, a, f).purpose = p
           /\ NewClaim(d, p, w, a, f).attempt = a
           /\ NewClaim(d, p, w, a, f).status = "live"
  BY DEF NewClaim, ClaimRow

\* What the sweep leaves of each claim.
LEMMA SweptRows ==
    ASSUME IInv
    PROVE  /\ DOMAIN Swept = ClaimId
           /\ \A c \in Claims : \/ Swept[c] = claims[c]
                               \/ /\ claims[c].status = "live" /\ Swept[c] \in ClaimRow
                                  /\ Swept[c].status = "expired"
                                  /\ Swept[c].fence = claims[c].fence
                                  /\ Swept[c].purpose = claims[c].purpose
                                  /\ Swept[c].attempt = claims[c].attempt
  <1>1. \A c \in Claims : claims[c] \in ClaimRow /\ c \in ClaimId
    BY KnownClaims
  <1>2. \A c \in Claims : Swept[c] = IF claims[c].status = "live" /\ claims[c].lapsed
                                     THEN [claims[c] EXCEPT !.status = "expired"]
                                     ELSE claims[c]
    BY <1>1 DEF Swept, LiveClaims
  <1>3. \A r \in ClaimRow : LET q == [r EXCEPT !.status = "expired"] IN
            /\ q \in ClaimRow /\ q.status = "expired" /\ q.fence = r.fence
            /\ q.purpose = r.purpose /\ q.attempt = r.attempt
    BY DEF ClaimRow
  <1> QED
    BY <1>1, <1>2, <1>3 DEF Swept

-----------------------------------------------------------------------------
(* Each action does to the claims what is lawful *)

\* Claims are made, released, renewed, swept and lapse.
LEMMA LeasesAreLawful ==
    ASSUME IInv, NEW d \in Driver,
           \/ Sweep
           \/ \E p \in Purpose, w \in Checkout \cup {NoCheckout} : ClaimNode(d, p, w)
           \/ \E c \in Claims : ReleaseClaim(d, c) \/ LapseClaim(c)
           \/ \E cs \in SUBSET Claims, as \in SUBSET Made : Heartbeat(d, cs, as)
    PROVE  Lawful
  <1> USE KnownClaims
  <1>1. ASSUME Sweep PROVE Lawful
    <2>1. Winding
      BY <1>1, SweptRows DEF Sweep, Winding
    <2> QED
      BY <2>1, WindingIsLawful
  <1>2. ASSUME NEW p \in Purpose, NEW w \in Checkout \cup {NoCheckout}, ClaimNode(d, p, w)
        PROVE Lawful
    <2> DEFINE r == NewClaim(d, p, w, 0, MaxUsedFence + 1)
    <2>1. /\ MaxUsedFence + 1 \in 1..MaxFence /\ 0 \in 0..MaxAttempts
          /\ \A c \in Claims : claims[c].fence < MaxUsedFence + 1
      <3>1. \A c \in Claims : claims[c].fence \in Nat
        BY DEF ClaimRow
      <3> QED
        BY <1>2, <3>1, NewestFence, OwnershipAssumption DEF ClaimNode
    <2>2. r \in ClaimRow /\ r.fence = MaxUsedFence + 1 /\ r.purpose = p
      BY <2>1, NewClaimType
    <2>3. /\ claimSeq' = claimSeq + 1 /\ claimSeq < MaxClaims
          /\ claims' = [Swept EXCEPT ![claimSeq + 1] = r]
          /\ p \in EXCLUSIVE_PURPOSES => Exclusive(Swept) = {}
      BY <1>2 DEF ClaimNode
    <2>4. /\ DOMAIN claims' = ClaimId /\ claims'[claimSeq + 1] = r
          /\ \A c \in Claims : claims'[c] = Swept[c]
      BY <2>3, SweptRows
    <2> HIDE DEF r
    <2>5. p \in EXCLUSIVE_PURPOSES =>
             \A c \in Claims : claims[c].purpose \in EXCLUSIVE_PURPOSES => Swept[c].status # "live"
      BY <2>3, SweptRows DEF Exclusive, LiveClaims
    <2>6. Issuing(r)
      BY <2>1, <2>2, <2>3, <2>4, <2>5, SweptRows DEF Issuing
    <2> QED
      BY <2>6, IssuingIsLawful
  <1>3. ASSUME NEW c \in Claims, ReleaseClaim(d, c) PROVE Lawful
    <2>1. [claims[c] EXCEPT !.status = "released"] \in ClaimRow
      BY DEF ClaimRow
    <2>2. Winding
      BY <1>3, <2>1 DEF ReleaseClaim, Winding, ClaimsType, ClaimRow
    <2> QED
      BY <2>2, WindingIsLawful
  <1>4. ASSUME NEW c \in Claims, LapseClaim(c) PROVE Lawful
    <2>1. [claims[c] EXCEPT !.lapsed = TRUE] \in ClaimRow
      BY DEF ClaimRow
    <2>2. Winding
      BY <1>4, <2>1 DEF LapseClaim, Winding, ClaimsType, ClaimRow
    <2> QED
      BY <2>2, WindingIsLawful
  <1>5. ASSUME NEW cs \in SUBSET Claims, NEW as \in SUBSET Made, Heartbeat(d, cs, as) PROVE Lawful
    <2>1. \A r \in ClaimRow : LET q == [r EXCEPT !.lapsed = FALSE] IN
             q \in ClaimRow /\ q.fence = r.fence /\ q.purpose = r.purpose
      BY DEF ClaimRow
    <2>2. /\ \A c \in Claims : claims'[c] = IF c \in cs THEN [claims[c] EXCEPT !.lapsed = FALSE]
                                             ELSE claims[c]
          /\ \A c \in cs : claims[c].status = "live"
          /\ DOMAIN claims' = ClaimId /\ claimSeq' = claimSeq
      BY <1>5 DEF Heartbeat
    <2>3. Winding
      BY <2>1, <2>2 DEF Winding
    <2> QED
      BY <2>3, WindingIsLawful
  <1> QED
    BY <1>1, <1>2, <1>3, <1>4, <1>5

\* A live claim is bound to an attempt.
LEMMA BindingIsLawful ==
    ASSUME IInv, NEW c \in LiveClaims(claims), NEW a \in 0..MaxAttempts, claimSeq' = claimSeq,
           claims' = [claims EXCEPT ![c].attempt = a]
    PROVE  Lawful
  <1>1. c \in Claims /\ claims[c].status = "live" /\ claims[c] \in ClaimRow /\ c \in ClaimId
    BY KnownClaims DEF LiveClaims
  <1>2. [claims[c] EXCEPT !.attempt = a] \in ClaimRow
    BY <1>1 DEF ClaimRow
  <1>3. Winding
    BY <1>1, <1>2, KnownClaims DEF Winding, ClaimsType, ClaimRow
  <1> QED
    BY <1>3, WindingIsLawful

\* Some live claims end.
LEMMA EndingIsLawful ==
    ASSUME IInv, NEW S, S \subseteq LiveClaims(claims), claimSeq' = claimSeq,
           claims' = [c \in ClaimId |-> IF c \in S THEN [claims[c] EXCEPT !.status = "released"]
                                        ELSE claims[c]]
    PROVE  Lawful
  <1>1. \A r \in ClaimRow : LET q == [r EXCEPT !.status = "released"] IN
           q \in ClaimRow /\ q.fence = r.fence /\ q.purpose = r.purpose
    BY DEF ClaimRow
  <1>2. \A c \in S : c \in Claims /\ claims[c].status = "live"
    BY DEF LiveClaims
  <1>3. Winding
    BY <1>1, <1>2, KnownClaims DEF Winding
  <1> QED
    BY <1>3, WindingIsLawful

\* Attempts are reserved, launched, settled and abandoned.
LEMMA DispatchIsLawful ==
    ASSUME IInv, NEW d \in Driver,
           \/ \E kind \in Kinds, c \in Claims \cup {0} : Reserve(d, kind, c)
           \/ \E a \in Made, c \in Claims : ReplayReserve(d, a, c)
           \/ \E a \in Made, c \in Claims \cup {0} : ClaimLaunch(d, a, c)
           \/ \E a \in Made, good \in BOOLEAN : Settle(d, a, good)
           \/ \E a \in Made, kind \in {"confirmed_stopped", "unknown"} :
                 AbandonExternalAttempt(d, a, kind)
    PROVE  Lawful
  <1>0. /\ attemptSeq \in 0..MaxAttempts /\ MaxAttempts \in Nat /\ Made \subseteq 0..MaxAttempts
        /\ attemptSeq < MaxAttempts => attemptSeq + 1 \in 0..MaxAttempts
        /\ \A c \in LiveClaims(claims) : c # 0
    BY OwnershipAssumption DEF IInv, TypeOK, Made, LiveClaims, Claims
  <1>1. ASSUME claims' = claims, claimSeq' = claimSeq PROVE Lawful
    <2>1. Winding
      BY <1>1, KnownClaims DEF Winding, ClaimsType
    <2> QED
      BY <2>1, WindingIsLawful
  <1>2. ASSUME NEW kind \in Kinds, NEW c \in Claims \cup {0}, Reserve(d, kind, c) PROVE Lawful
    <2>1. /\ claimSeq' = claimSeq /\ attemptSeq < MaxAttempts
          /\ claims' = IF c = 0 THEN claims ELSE [claims EXCEPT ![c].attempt = attemptSeq + 1]
      BY <1>2 DEF Reserve
    <2>2. c \in LiveClaims(claims) \cup {0}
      BY <1>2 DEF Reserve, DispatchClaim, OwnImplement
    <2> QED
      BY <1>0, <1>1, <2>1, <2>2, BindingIsLawful
  <1>3. ASSUME NEW a \in Made, NEW c \in Claims, ReplayReserve(d, a, c) PROVE Lawful
    <2>1. /\ claimSeq' = claimSeq /\ claims' = [claims EXCEPT ![c].attempt = a]
          /\ c \in LiveClaims(claims)
      BY <1>3 DEF ReplayReserve, OwnImplement
    <2> QED
      BY <1>0, <2>1, BindingIsLawful
  <1>4. ASSUME NEW a \in Made, NEW c \in Claims \cup {0}, ClaimLaunch(d, a, c) PROVE Lawful
    <2>1. /\ claimSeq' = claimSeq
          /\ claims' = IF c = 0 THEN claims ELSE [claims EXCEPT ![c].attempt = a]
          /\ c \in LiveClaims(claims) \cup {0}
      BY <1>4 DEF ClaimLaunch, LaunchAuthorized, OwnImplement
    <2> QED
      BY <1>0, <1>1, <2>1, BindingIsLawful
  <1>5. ASSUME NEW a \in Made, NEW good \in BOOLEAN, Settle(d, a, good) PROVE Lawful
    <2> DEFINE S == {c \in LiveClaims(claims) : claims[c].attempt = a}
    <2>1. /\ claimSeq' = claimSeq
          /\ claims' = [c \in ClaimId |-> IF c \in S THEN [claims[c] EXCEPT !.status = "released"]
                                          ELSE claims[c]]
      BY <1>5 DEF Settle, ReleaseBound
    <2>2. S \subseteq LiveClaims(claims)
      OBVIOUS
    <2> HIDE DEF S
    <2> QED
      BY <2>1, <2>2, EndingIsLawful
  <1>6. ASSUME NEW a \in Made, NEW kind \in {"confirmed_stopped", "unknown"},
               AbandonExternalAttempt(d, a, kind)
        PROVE Lawful
    <2>1. /\ claimSeq' = claimSeq /\ MovingClaims(a) \subseteq LiveClaims(claims)
          /\ claims' = [c \in ClaimId |-> IF c \in MovingClaims(a)
                                          THEN [claims[c] EXCEPT !.status = "released"]
                                          ELSE claims[c]]
      BY <1>6 DEF AbandonExternalAttempt, MovingClaims
    <2> QED
      BY <2>1, EndingIsLawful
  <1> QED
    BY <1>2, <1>3, <1>4, <1>5, <1>6

\* One claim passes to another driver.
LEMMA TransferIsLawful ==
    ASSUME IInv, NEW d \in Driver,
           \/ \E c \in Claims : TakeOverClaim(d, c)
           \/ \E h \in Offers : AcceptClaim(d, h)
    PROVE  Lawful
  <1> USE KnownClaims
  <1>1. \A c \in Claims : claims[c].fence \in Nat /\ claims[c].purpose \in Purpose \cup {"implement"}
          /\ claims[c].workspace \in Checkout \cup {NoCheckout} /\ claims[c].attempt \in 0..MaxAttempts
    BY DEF ClaimRow
  <1>2. ASSUME MaxUsedFence < MaxFence
        PROVE  /\ MaxUsedFence + 1 \in 1..MaxFence /\ 0 \in 0..MaxAttempts
               /\ \A c \in Claims : claims[c].fence < MaxUsedFence + 1
    BY <1>1, <1>2, NewestFence, OwnershipAssumption
  <1>3. ASSUME NEW c \in Claims, TakeOverClaim(d, c) PROVE Lawful
    <2> DEFINE r == NewClaim(d, claims[c].purpose, claims[c].workspace, 0, MaxUsedFence + 1)
    <2>1. /\ claimSeq' = claimSeq + 1 /\ claimSeq < MaxClaims /\ MaxUsedFence < MaxFence
          /\ claims' = [Swept EXCEPT ![c].status = "taken_over", ![claimSeq + 1] = r]
          /\ Swept[c].status = "live"
      BY <1>3 DEF TakeOverClaim
    <2>2. r \in ClaimRow /\ r.fence = MaxUsedFence + 1 /\ r.purpose = claims[c].purpose
      <3>1. claims[c].purpose \in Purpose \cup {"implement"}
            /\ claims[c].workspace \in Checkout \cup {NoCheckout}
        BY <1>1
      <3>2. MaxUsedFence + 1 \in 1..MaxFence /\ 0 \in 0..MaxAttempts
        BY <1>2, <2>1
      <3> QED
        BY <3>1, <3>2 DEF NewClaim, ClaimRow
    <2> HIDE DEF r
    <2>3. Swept[c] = claims[c] /\ claims[c].status = "live"
      BY <2>1, SweptRows
    <2>4. /\ DOMAIN claims' = ClaimId /\ claims'[claimSeq + 1] = r
          /\ claims'[c] = [claims[c] EXCEPT !.status = "taken_over"]
          /\ \A e \in Claims \ {c} : claims'[e] = Swept[e]
      BY <2>1, <2>3, SweptRows
    <2>5. claims[c].purpose \in EXCLUSIVE_PURPOSES =>
             \A e \in Claims \ {c} : claims[e].purpose \in EXCLUSIVE_PURPOSES => claims[e].status # "live"
      BY <2>3 DEF IInv, OneHolder, Exclusive, LiveClaims
    <2>6. claims'[c].status = "taken_over" /\ claims'[c] \in ClaimRow
            /\ claims'[c].fence = claims[c].fence /\ claims'[c].purpose = claims[c].purpose
      BY <2>4 DEF ClaimRow
    <2>7. \A e \in Claims \ {c} : \/ claims'[e] = claims[e]
                                 \/ /\ claims[e].status = "live" /\ claims'[e] \in ClaimRow
                                    /\ claims'[e].status = "expired"
                                    /\ claims'[e].fence = claims[e].fence
                                    /\ claims'[e].purpose = claims[e].purpose
      BY <2>4, SweptRows
    <2>8. Issuing(r)
      BY <1>2, <2>1, <2>2, <2>3, <2>4, <2>5, <2>6, <2>7 DEF Issuing
    <2> QED
      BY <2>8, IssuingIsLawful
  <1>4. ASSUME NEW h \in Offers, AcceptClaim(d, h) PROVE Lawful
    <2> DEFINE c == handoffs[h].id
               old == [claims EXCEPT ![c].status = "transferred"]
               r == NewClaim(d, claims[c].purpose, claims[c].workspace, claims[c].attempt,
                             MaxUsedFence + 1)
    <2>1. /\ claimSeq' = claimSeq + 1 /\ claimSeq < MaxClaims /\ MaxUsedFence < MaxFence
          /\ claims' = [old EXCEPT ![claimSeq + 1] = r]
          /\ claims[c].status = "live" /\ handoffs[h].subject = "claim"
          /\ claims[c].purpose \in EXCLUSIVE_PURPOSES => Exclusive(old) = {}
      BY <1>4 DEF AcceptClaim
    <2>2. c \in Claims
      BY <2>1 DEF IInv, OffersRefer
    <2>3. r \in ClaimRow /\ r.fence = MaxUsedFence + 1 /\ r.purpose = claims[c].purpose
      BY <1>1, <1>2, <2>1, <2>2, NewClaimType
    <2> HIDE DEF r, c
    <2>4. /\ DOMAIN claims' = ClaimId /\ claims'[claimSeq + 1] = r
          /\ claims'[c] = [claims[c] EXCEPT !.status = "transferred"]
          /\ \A e \in Claims \ {c} : claims'[e] = claims[e]
      BY <2>1, <2>2 DEF ClaimsType
    <2>5. claims'[c].status = "transferred" /\ claims'[c] \in ClaimRow
            /\ claims'[c].fence = claims[c].fence /\ claims'[c].purpose = claims[c].purpose
      BY <2>2, <2>4 DEF ClaimRow
    <2>6. claims[c].purpose \in EXCLUSIVE_PURPOSES =>
             \A e \in Claims \ {c} : claims[e].purpose \in EXCLUSIVE_PURPOSES => claims[e].status # "live"
      BY <2>1, <2>2 DEF IInv, OneHolder, Exclusive, LiveClaims
    <2>7. Issuing(r)
      BY <1>2, <2>1, <2>2, <2>3, <2>4, <2>5, <2>6 DEF Issuing
    <2> QED
      BY <2>7, IssuingIsLawful
  <1> QED
    BY <1>3, <1>4

\* Claims are issued, and the holders H get a new fence: all above the fences of
\* the other claims, at most one of them exclusive, and if that one is issued no
\* exclusive claim of before stays live.
Fresh == Claims' \ Claims

Reissuing(H) ==
    /\ claimSeq' \in claimSeq..MaxClaims /\ DOMAIN claims' = ClaimId
    /\ H \subseteq Exclusive(claims)
    /\ \A c \in H \cup Fresh : claims'[c] \in ClaimRow
    /\ \A c \in H : claims'[c].purpose = claims[c].purpose
    /\ \A c \in Claims \ H :
          \/ claims'[c] = claims[c]
          \/ /\ claims[c].status = "live" /\ claims'[c] \in ClaimRow
             /\ claims'[c].fence = claims[c].fence /\ claims'[c].purpose = claims[c].purpose
    /\ \A c \in H \cup Fresh, e \in Claims : claims[e].fence < claims'[c].fence
    /\ \A c, e \in H \cup Fresh :
          /\ claims'[c].fence = claims'[e].fence => c = e
          /\ claims'[c].purpose \in EXCLUSIVE_PURPOSES /\ claims'[e].purpose \in EXCLUSIVE_PURPOSES
             => c = e
    /\ \A c \in Fresh : claims'[c].purpose \in EXCLUSIVE_PURPOSES =>
          \A e \in Claims : claims[e].purpose \in EXCLUSIVE_PURPOSES => claims'[e].status # "live"

\* Such a step leaves one holder with the newest fence.
LEMMA ReissuingIsLawful == ASSUME IInv, NEW H, Reissuing(H) PROVE Lawful
  <1> DEFINE N == H \cup Fresh
  <1> USE DEF Reissuing
  <1>1. /\ claimSeq \in Nat /\ claimSeq' \in 0..MaxClaims /\ claimSeq <= claimSeq'
        /\ Claims \subseteq Claims' /\ MaxClaims \in Nat
    BY OwnershipAssumption DEF IInv, TypeOK, Claims
  <1>2. /\ Claims' = (Claims \ H) \cup N /\ H \subseteq Claims
        /\ \A c \in H : claims[c].status = "live" /\ claims[c].purpose \in EXCLUSIVE_PURPOSES
    BY <1>1 DEF Fresh, Exclusive, LiveClaims
  <1>3. \A c \in Claims : claims[c] \in ClaimRow
    BY DEF IInv, TypeOK
  <1>4. ClaimsType'
    BY <1>1, <1>2, <1>3 DEF ClaimsType
  <1>5. \A c \in Claims : claims'[c].purpose = claims[c].purpose
    OBVIOUS
  <1>6. \A c \in Claims \ H : /\ claims'[c].fence = claims[c].fence
                              /\ claims'[c].status = "live" => claims[c].status = "live"
    OBVIOUS
  <1>7. \A c \in Claims : claims[c].fence \in Nat
    BY <1>3 DEF ClaimRow
  <1>8. \A c \in N : claims'[c].fence \in Nat
    BY DEF ClaimRow
  <1>9. \A c \in N, e \in Claims \ H : claims'[e].fence < claims'[c].fence
    BY <1>6
  <1>10. ASSUME NEW c \in Claims \ H, claims'[c].status = "live",
                claims'[c].purpose \in EXCLUSIVE_PURPOSES
         PROVE  /\ c \in Exclusive(claims) /\ H = {}
                /\ \A e \in N : claims'[e].purpose \notin EXCLUSIVE_PURPOSES
    <2>1. c \in Exclusive(claims)
      BY <1>5, <1>6, <1>10 DEF Exclusive, LiveClaims
    <2>2. H = {}
      BY <2>1 DEF IInv, OneHolder
    <2> QED
      BY <1>5, <1>10, <2>1, <2>2
  <1>11. OneHolder'
    <2> SUFFICES ASSUME NEW c \in Claims', NEW e \in Claims',
                        claims'[c].status = "live", claims'[c].purpose \in EXCLUSIVE_PURPOSES,
                        claims'[e].status = "live", claims'[e].purpose \in EXCLUSIVE_PURPOSES
                 PROVE  c = e
      BY DEF OneHolder, Exclusive, LiveClaims
    <2>1. CASE c \in N /\ e \in N
      BY <2>1
    <2>2. CASE c \in Claims \ H \/ e \in Claims \ H
      BY <1>2, <1>10, <2>2 DEF IInv, OneHolder
    <2> QED
      BY <1>2, <2>1, <2>2
  <1>12. HolderHasNewestFence'
    <2>1. ASSUME NEW c \in Claims', NEW e \in Claims', claims'[c].fence = claims'[e].fence
          PROVE  c = e
      <3>1. CASE c \in N /\ e \in N
        BY <2>1, <3>1
      <3>2. CASE c \in Claims \ H /\ e \in Claims \ H
        BY <1>6, <2>1, <3>2 DEF IInv, HolderHasNewestFence
      <3>3. ASSUME NEW x \in N, NEW y \in Claims \ H PROVE claims'[x].fence # claims'[y].fence
        <4>1. claims'[y].fence < claims'[x].fence /\ claims'[x].fence \in Nat
          BY <1>8, <1>9
        <4> QED
          BY <1>6, <1>7, <4>1
      <3> QED
        BY <1>2, <2>1, <3>1, <3>2, <3>3
    <2>2. ASSUME NEW c \in Claims', NEW e \in Claims', claims'[c].status = "live",
                 claims'[c].purpose \in EXCLUSIVE_PURPOSES, claims'[e].purpose \in EXCLUSIVE_PURPOSES
          PROVE  claims'[e].fence <= claims'[c].fence
      <3>1. CASE c \in N
        BY <1>2, <1>6, <1>7, <1>8, <1>9, <2>2, <3>1
      <3>2. CASE c \in Claims \ H
        <4>1. c \in Exclusive(claims) /\ e \in Claims \ H
          BY <1>2, <1>10, <2>2, <3>2
        <4>2. claims[e].purpose \in EXCLUSIVE_PURPOSES
          BY <1>5, <2>2, <4>1
        <4>3. claims[e].fence <= claims[c].fence
          BY <4>1, <4>2 DEF IInv, HolderHasNewestFence
        <4> QED
          BY <1>6, <3>2, <4>1, <4>3
      <3> QED
        BY <1>2, <3>1, <3>2
    <2> QED
      BY <2>1, <2>2 DEF HolderHasNewestFence, Exclusive, LiveClaims
  <1> QED
    BY <1>1, <1>2, <1>4, <1>11, <1>12 DEF Lawful

\* The claims of an attempt pass to its new owner.  Old: what happens to the
\* claims there are; New: the claims that are issued.
LEMMA MoveIsLawful ==
    ASSUME IInv, NEW d \in Driver, NEW a \in Made, MoveClaims(a, d)
    PROVE  /\ Lawful
           /\ \A c \in Claims' : \/ claims'[c].attempt = a
                                 \/ c \in Claims /\ claims'[c].attempt = claims[c].attempt
  <1> DEFINE rows == MovingClaims(a)
             bound == {c \in Claims : claims[c].attempt = a}
             sources == IF rows # {} THEN rows ELSE {c \in bound : \A x \in bound : x <= c}
             held == {c \in Exclusive(claims) \ rows : claims[c].driver = d}
             taken == {c \in sources : claims[c].purpose \in EXCLUSIVE_PURPOSES}
             reissued == IF held = {} THEN sources ELSE sources \ taken
             steps == IF sources = {} THEN 1 ELSE Cardinality(sources)
             fresh == IF sources = {} /\ held = {} THEN 1 ELSE Cardinality(reissued)
             needs == IF sources = {} THEN held = {} ELSE taken # {} /\ held = {}
             binds == held # {} /\ (sources = {} \/ taken # {})
             src(k) == CHOOSE c \in reissued : Rank(reissued, c) = k
             top == MaxUsedFence + (IF sources = {} THEN 1
                                    ELSE Rank(sources, CHOOSE s \in taken : TRUE))
             new(k) == IF sources = {}
                       THEN NewClaim(d, "implement", NoCheckout, a, MaxUsedFence + 1)
                       ELSE NewClaim(d, claims[src(k)].purpose, claims[src(k)].workspace, a,
                                     MaxUsedFence + Rank(sources, src(k)))
  <1>1. /\ claimSeq + fresh <= MaxClaims /\ MaxUsedFence + steps <= MaxFence
        /\ Cardinality(taken) <= 1
        /\ needs => Exclusive(claims) \subseteq rows
        /\ claimSeq' = claimSeq + fresh
        /\ claims' = [c \in ClaimId |->
              CASE c \in rows -> [claims[c] EXCEPT !.status = "transferred"]
                [] c \in held /\ binds -> [claims[c] EXCEPT !.attempt = a, !.fence = top]
                [] c > claimSeq /\ c <= claimSeq + fresh -> new(c - claimSeq)
                [] OTHER -> claims[c]]
    BY DEF MoveClaims, Rank
  <1>2. /\ rows \subseteq Claims /\ sources \subseteq Claims /\ held \subseteq Exclusive(claims)
        /\ rows \subseteq LiveClaims(claims)
        /\ Exclusive(claims) \subseteq Claims /\ held \cap rows = {}
        /\ taken \subseteq sources /\ reissued \subseteq sources
    BY DEF MovingClaims, LiveClaims, Exclusive
  <1>3. /\ \A c \in Claims : claims[c] \in ClaimRow /\ c \in ClaimId /\ c <= claimSeq
        /\ claimSeq \in Nat /\ MaxClaims \in Nat /\ MaxFence \in Nat
        /\ Claims \subseteq Nat /\ IsFiniteSet(Claims) /\ a \in 0..MaxAttempts
        /\ MaxUsedFence \in Nat /\ \A c \in Claims : claims[c].fence <= MaxUsedFence
    <2>1. claimSeq \in Nat /\ a \in 0..MaxAttempts
      BY OwnershipAssumption DEF IInv, TypeOK, Made
    <2>2. IsFiniteSet(Claims)
      BY <2>1, FS_Interval DEF Claims
    <2> QED
      BY <2>1, <2>2, KnownClaims, NewestFence, OwnershipAssumption DEF Claims
  <1>4. /\ sources \in SUBSET Nat /\ IsFiniteSet(sources) /\ Cardinality(sources) \in Nat
        /\ reissued \in SUBSET Nat /\ IsFiniteSet(reissued) /\ Cardinality(reissued) \in Nat
        /\ IsFiniteSet(taken)
    <2>1. IsFiniteSet(sources)
      BY <1>2, <1>3, FS_Subset
    <2>2. IsFiniteSet(reissued) /\ IsFiniteSet(taken)
      BY <1>2, <2>1, FS_Subset
    <2> QED
      BY <1>2, <1>3, <2>1, <2>2, FS_CardinalityType
  <1>6. \A c \in taken : claims[c].purpose \in EXCLUSIVE_PURPOSES
    OBVIOUS
  <1>7. \A c \in held : c \in Claims /\ claims[c].status = "live" /\ c \notin rows
    BY <1>2 DEF Exclusive, LiveClaims
  <1>9. \A c \in sources \ taken : claims[c].purpose \notin EXCLUSIVE_PURPOSES
    OBVIOUS
  <1>10. held = {} => reissued = sources
    OBVIOUS
  <1>11. held # {} => reissued = sources \ taken
    OBVIOUS
  <1>12. sources = {} => fresh = (IF held = {} THEN 1 ELSE 0) /\ steps = 1 /\ rows = {}
    BY FS_EmptySet
  <1>13. sources # {} => fresh = Cardinality(reissued) /\ steps = Cardinality(sources)
    OBVIOUS
  <1>14. needs = IF sources = {} THEN held = {} ELSE taken # {} /\ held = {}
    OBVIOUS
  <1>15. binds = (held # {} /\ (sources = {} \/ taken # {}))
    OBVIOUS
  <1>16. \A k : src(k) = CHOOSE c \in reissued : Rank(reissued, c) = k
    OBVIOUS
  <1>17. top = MaxUsedFence + (IF sources = {} THEN 1
                                    ELSE Rank(sources, CHOOSE s \in taken : TRUE))
    OBVIOUS
  <1>18. \A k : new(k) = IF sources = {}
                       THEN NewClaim(d, "implement", NoCheckout, a, MaxUsedFence + 1)
                       ELSE NewClaim(d, claims[src(k)].purpose, claims[src(k)].workspace, a,
                                     MaxUsedFence + Rank(sources, src(k)))
    OBVIOUS
  <1>19. \A c, e \in Exclusive(claims) : c = e
    BY DEF IInv, OneHolder
  <1> HIDE DEF rows, bound, sources, held, taken, reissued, steps, fresh, needs, binds, src, top, new
  <1>5. \A c, e \in taken : c = e
    BY <1>1, <1>4, AtMostOne
  <1>8. \A c \in rows : claims[c].status = "live"
    BY <1>2 DEF LiveClaims
  <1>26. MaxUsedFence + steps <= MaxFence
    BY <1>1
  <1>27. \A c, e \in sources : Rank(sources, c) = Rank(sources, e) => c = e
    BY <1>4, RankInjective
  \* Where the new claims come from.
  <1>20. ASSUME sources # {}, NEW k \in 1..fresh
         PROVE  /\ src(k) \in reissued /\ Rank(reissued, src(k)) = k
                /\ Rank(sources, src(k)) \in 1..steps
    <2>1. k \in 1..Cardinality(reissued)
      BY <1>13, <1>20
    <2>2. src(k) \in reissued /\ Rank(reissued, src(k)) = k
      BY <1>4, <1>16, <2>1, RankSurjective
    <2>3. src(k) \in sources
      BY <1>2, <2>2
    <2> QED
      BY <1>4, <1>13, <1>20, <2>2, <2>3, RankType
  <1>21. fresh \in Nat /\ steps \in Nat \ {0}
    <2>1. CASE sources = {}
      BY <1>12, <2>1
    <2>2. CASE sources # {}
      <3>1. Cardinality(sources) # 0
        BY <1>4, <2>2, FS_EmptySet
      <3> QED
        BY <1>4, <1>13, <2>2, <3>1
    <2> QED
      BY <2>1, <2>2
  \* The fence a claim is issued under.
  <1> DEFINE off(k) == IF sources = {} THEN 1 ELSE Rank(sources, src(k))
             purp(k) == IF sources = {} THEN "implement" ELSE claims[src(k)].purpose
  <1>22. ASSUME NEW k \in 1..fresh
         PROVE  /\ off(k) \in 1..steps /\ new(k) \in ClaimRow
                /\ new(k).fence = MaxUsedFence + off(k) /\ new(k).purpose = purp(k)
                /\ new(k).attempt = a
    <2>1. off(k) \in 1..steps
      BY <1>12, <1>20, <1>21
    <2>2. MaxUsedFence + off(k) \in 1..MaxFence
      BY <1>3, <1>21, <1>26, <2>1
    <2>3. CASE sources = {}
      BY <1>3, <1>18, <2>1, <2>2, <2>3, NewClaimType
    <2>4. CASE sources # {}
      <3>1. src(k) \in Claims
        BY <1>2, <1>20, <2>4
      <3>2. /\ claims[src(k)].purpose \in Purpose \cup {"implement"}
            /\ claims[src(k)].workspace \in Checkout \cup {NoCheckout}
        BY <1>3, <3>1 DEF ClaimRow
      <3> QED
        BY <1>3, <1>18, <2>1, <2>2, <2>4, <3>2, NewClaimType
    <2> QED
      BY <2>3, <2>4
  <1>23. ASSUME NEW k \in 1..fresh, NEW j \in 1..fresh, off(k) = off(j) PROVE k = j
    <2>1. CASE sources = {}
      BY <1>12, <2>1
    <2>2. CASE sources # {}
      <3>1. /\ src(k) \in reissued /\ Rank(reissued, src(k)) = k
            /\ src(j) \in reissued /\ Rank(reissued, src(j)) = j
        BY <1>20, <2>2
      <3>2. src(k) \in sources /\ src(j) \in sources
        BY <1>2, <3>1
      <3>3. Rank(sources, src(k)) = Rank(sources, src(j))
        BY <1>23, <2>2
      <3>4. src(k) = src(j)
        BY <1>27, <3>2, <3>3
      <3> QED
        BY <3>1, <3>4
    <2> QED
      BY <2>1, <2>2
  \* A holder that is bound anew: the claim it takes is not issued again.
  <1>24. ASSUME binds
         PROVE  /\ top \in MaxUsedFence + 1 .. MaxFence
                /\ \A k \in 1..fresh : top # MaxUsedFence + off(k)
                /\ \A k \in 1..fresh : purp(k) \notin EXCLUSIVE_PURPOSES
    <2>1. CASE sources = {}
      <3>1. fresh = 0 /\ top = MaxUsedFence + 1 /\ steps = 1
        BY <1>12, <1>15, <1>17, <1>24, <2>1
      <3> QED
        BY <1>3, <1>26, <3>1
    <2>2. CASE sources # {}
      <3> DEFINE t == CHOOSE s \in taken : TRUE
      <3>1. t \in taken /\ top = MaxUsedFence + Rank(sources, t)
        BY <1>15, <1>17, <1>24, <2>2
      <3> HIDE DEF t
      <3>2. Rank(sources, t) \in 1..steps /\ t \in sources
        BY <1>2, <1>4, <1>13, <2>2, <3>1, RankType
      <3>3. \A k \in 1..fresh : src(k) \in sources \ taken
        BY <1>11, <1>15, <1>20, <1>24, <2>2
      <3>4. \A k \in 1..fresh : Rank(sources, src(k)) # Rank(sources, t)
        <4> SUFFICES ASSUME NEW k \in 1..fresh PROVE Rank(sources, src(k)) # Rank(sources, t)
          OBVIOUS
        <4>1. src(k) \in sources /\ src(k) # t
          BY <3>1, <3>3
        <4> QED
          BY <1>27, <3>2, <4>1
      <3>5. \A k \in 1..fresh : off(k) = Rank(sources, src(k)) /\ off(k) \in Nat
        BY <1>20, <1>21, <2>2
      <3>6. top \in MaxUsedFence + 1 .. MaxFence
        BY <1>3, <1>21, <1>26, <3>1, <3>2
      <3>7. \A k \in 1..fresh : top # MaxUsedFence + off(k)
        BY <1>3, <1>21, <3>1, <3>2, <3>4, <3>5
      <3>8. \A k \in 1..fresh : purp(k) \notin EXCLUSIVE_PURPOSES
        BY <1>9, <2>2, <3>3
      <3> QED
        BY <3>6, <3>7, <3>8
    <2> QED
      BY <2>1, <2>2
  \* An exclusive claim that is issued: no other is, and all that were live move.
  <1>25. ASSUME NEW k \in 1..fresh, purp(k) \in EXCLUSIVE_PURPOSES
         PROVE  /\ held = {} /\ Exclusive(claims) \subseteq rows
                /\ \A j \in 1..fresh : purp(j) \in EXCLUSIVE_PURPOSES => j = k
    <2>1. CASE sources = {}
      <3>1. held = {} /\ fresh = 1
        BY <1>12, <2>1, <1>25
      <3>2. Exclusive(claims) \subseteq rows
        BY <1>1, <1>14, <2>1, <3>1
      <3>3. \A j \in 1..fresh : j = 1
        BY <3>1
      <3> QED
        BY <3>1, <3>2, <3>3
    <2>2. CASE sources # {}
      <3>1. src(k) \in taken
        BY <1>2, <1>9, <1>20, <1>25, <2>2
      <3>2. held = {}
        BY <1>11, <1>20, <2>2, <3>1
      <3>3. \A j \in 1..fresh : purp(j) \in EXCLUSIVE_PURPOSES => src(j) \in taken
        BY <1>2, <1>9, <1>20, <2>2
      <3>4. \A j \in 1..fresh : purp(j) \in EXCLUSIVE_PURPOSES => src(j) = src(k)
        BY <1>5, <3>1, <3>3
      <3>5. \A j \in 1..fresh : Rank(reissued, src(j)) = j
        BY <1>20, <2>2
      <3> QED
        BY <1>1, <1>14, <2>2, <3>1, <3>2, <3>4, <3>5
    <2> QED
      BY <2>1, <2>2
  <1> HIDE DEF off, purp
  \* The table after the move.
  <1> DEFINE H == IF binds THEN held ELSE {}
  <1>30. /\ Claims' = 1..(claimSeq + fresh) /\ claimSeq + fresh \in Nat
         /\ \A c \in Claims' : c \in ClaimId /\ (c \notin Claims <=> c > claimSeq)
         /\ claimSeq + fresh <= MaxClaims /\ Claims \subseteq Claims'
    <2>1. claimSeq' = claimSeq + fresh /\ claimSeq + fresh <= MaxClaims
      BY <1>1
    <2> QED
      BY <1>3, <1>21, <2>1 DEF Claims, ClaimId
  <1>31. \A c \in Claims' : claims'[c] =
              CASE c \in rows -> [claims[c] EXCEPT !.status = "transferred"]
                [] c \in held /\ binds -> [claims[c] EXCEPT !.attempt = a, !.fence = top]
                [] c > claimSeq /\ c <= claimSeq + fresh -> new(c - claimSeq)
                [] OTHER -> claims[c]
    BY <1>1, <1>30
  <1>32. ASSUME NEW c \in Fresh
         PROVE  c - claimSeq \in 1..fresh /\ claims'[c] = new(c - claimSeq)
    <2>1. c \in Claims' /\ c \notin Claims /\ c > claimSeq /\ c <= claimSeq + fresh /\ c \in Nat
      BY <1>30 DEF Fresh
    <2>2. c \notin rows /\ c \notin held
      BY <1>2, <1>7, <2>1
    <2>3. claims'[c] = new(c - claimSeq)
      BY <1>31, <2>1, <2>2
    <2> QED
      BY <1>3, <1>21, <2>1, <2>3
  <1>33. ASSUME NEW c \in rows
         PROVE  claims'[c] = [claims[c] EXCEPT !.status = "transferred"]
    BY <1>2, <1>30, <1>31
  <1>34. ASSUME NEW c \in H
         PROVE  claims'[c] = [claims[c] EXCEPT !.attempt = a, !.fence = top]
    <2>1. c \in held /\ binds /\ c \notin rows /\ c \in Claims' /\ ~(c > claimSeq)
      BY <1>7, <1>30
    <2> QED
      BY <1>31, <2>1
  <1>35. ASSUME NEW c \in Claims \ H, c \notin rows PROVE claims'[c] = claims[c]
    <2>1. c \in Claims' /\ ~(c > claimSeq) /\ ~(c \in held /\ binds)
      BY <1>30
    <2> QED
      BY <1>31, <1>35, <2>1
  <1> HIDE DEF H
  \* It is a lawful re-issue.
  <1>36. /\ H \subseteq Exclusive(claims) /\ H \subseteq held /\ H \subseteq Claims
         /\ H # {} => binds
    BY <1>2 DEF H
  <1>37. ASSUME NEW c \in H
         PROVE  /\ claims'[c] \in ClaimRow /\ claims'[c].purpose = claims[c].purpose
                /\ claims'[c].attempt = a /\ claims'[c].fence = top
                /\ top \in MaxUsedFence + 1 .. MaxFence
    <2>1. claims[c] \in ClaimRow /\ top \in MaxUsedFence + 1 .. MaxFence
      BY <1>3, <1>24, <1>36
    <2>2. top \in 1..MaxFence
      BY <1>3, <2>1
    <2>3. /\ a \in 0..MaxAttempts
          /\ claims'[c] = [claims[c] EXCEPT !.attempt = a, !.fence = top]
      BY <1>3, <1>34
    <2>4. claims'[c] \in ClaimRow
      BY <2>1, <2>2, <2>3 DEF ClaimRow
    <2>5. /\ claims'[c].purpose = claims[c].purpose
          /\ claims'[c].attempt = a /\ claims'[c].fence = top
      BY <2>1, <2>3 DEF ClaimRow
    <2> QED
      BY <2>1, <2>4, <2>5
  <1>38. ASSUME NEW c \in Fresh
         PROVE  /\ claims'[c] \in ClaimRow /\ claims'[c].attempt = a
                /\ claims'[c].purpose = purp(c - claimSeq)
                /\ claims'[c].fence = MaxUsedFence + off(c - claimSeq)
                /\ claims'[c].fence \in MaxUsedFence + 1 .. MaxFence
    <2>1. c - claimSeq \in 1..fresh /\ claims'[c] = new(c - claimSeq)
      BY <1>32
    <2>2. /\ off(c - claimSeq) \in 1..steps /\ new(c - claimSeq) \in ClaimRow
          /\ new(c - claimSeq).fence = MaxUsedFence + off(c - claimSeq)
          /\ new(c - claimSeq).purpose = purp(c - claimSeq)
          /\ new(c - claimSeq).attempt = a
      BY <1>22, <2>1
    <2>3. MaxUsedFence + off(c - claimSeq) \in MaxUsedFence + 1 .. MaxFence
      BY <1>3, <1>21, <1>26, <2>2
    <2> QED
      BY <2>1, <2>2, <2>3
  <1>39. ASSUME NEW c \in rows
         PROVE  /\ claims[c].status = "live" /\ claims'[c] \in ClaimRow
                /\ claims'[c].fence = claims[c].fence /\ claims'[c].purpose = claims[c].purpose
                /\ claims'[c].attempt = claims[c].attempt /\ claims'[c].status = "transferred"
    <2>1. /\ claims[c] \in ClaimRow /\ claims[c].status = "live"
          /\ claims'[c] = [claims[c] EXCEPT !.status = "transferred"]
      BY <1>2, <1>3, <1>8, <1>33
    <2> QED
      BY <2>1 DEF ClaimRow
  <1>40. ASSUME NEW c \in H \cup Fresh, NEW e \in Claims PROVE claims[e].fence < claims'[c].fence
    <2>1. claims'[c].fence \in MaxUsedFence + 1 .. MaxFence
      BY <1>37, <1>38
    <2>2. claims[e].fence <= MaxUsedFence /\ claims[e].fence \in Nat
      BY <1>3 DEF ClaimRow
    <2> QED
      BY <1>3, <2>1, <2>2
  <1>41. ASSUME NEW c \in Fresh, NEW e \in Fresh,
                \/ claims'[c].fence = claims'[e].fence
                \/ /\ claims'[c].purpose \in EXCLUSIVE_PURPOSES
                   /\ claims'[e].purpose \in EXCLUSIVE_PURPOSES
         PROVE  c = e
    <2>1. c - claimSeq \in 1..fresh /\ e - claimSeq \in 1..fresh /\ c \in Nat /\ e \in Nat
      BY <1>30, <1>32 DEF Fresh
    <2>2. off(c - claimSeq) \in Nat /\ off(e - claimSeq) \in Nat
      BY <1>21, <1>22, <2>1
    <2>3. c - claimSeq = e - claimSeq
      <3>1. CASE claims'[c].fence = claims'[e].fence
        <4>1. off(c - claimSeq) = off(e - claimSeq)
          BY <1>3, <1>38, <2>2, <3>1
        <4> QED
          BY <1>23, <2>1, <4>1
      <3>2. CASE /\ claims'[c].purpose \in EXCLUSIVE_PURPOSES
                 /\ claims'[e].purpose \in EXCLUSIVE_PURPOSES
        <4>1. purp(c - claimSeq) \in EXCLUSIVE_PURPOSES /\ purp(e - claimSeq) \in EXCLUSIVE_PURPOSES
          BY <1>38, <3>2
        <4> QED
          BY <1>25, <2>1, <4>1
      <3> QED
        BY <1>41, <3>1, <3>2
    <2> QED
      BY <1>3, <2>1, <2>3
  <1>42. ASSUME NEW c \in H, NEW e \in Fresh
         PROVE  /\ claims'[c].fence # claims'[e].fence
                /\ claims'[e].purpose \notin EXCLUSIVE_PURPOSES
    <2>1. e - claimSeq \in 1..fresh /\ binds
      BY <1>32, <1>36
    <2> QED
      BY <1>24, <1>37, <1>38, <2>1
  <1>43. ASSUME NEW c \in Fresh, claims'[c].purpose \in EXCLUSIVE_PURPOSES,
                NEW e \in Claims, claims[e].purpose \in EXCLUSIVE_PURPOSES
         PROVE  claims'[e].status # "live"
    <2>1. c - claimSeq \in 1..fresh /\ purp(c - claimSeq) \in EXCLUSIVE_PURPOSES
      BY <1>32, <1>38, <1>43
    <2>2. held = {} /\ Exclusive(claims) \subseteq rows
      BY <1>25, <2>1
    <2>3. CASE e \in rows
      BY <1>39, <2>3
    <2>4. CASE e \notin rows
      <3>1. claims[e].status # "live"
        BY <1>43, <2>2, <2>4 DEF Exclusive, LiveClaims
      <3> QED
        BY <1>35, <1>36, <2>2, <2>4, <3>1
    <2> QED
      BY <2>3, <2>4
  <1>44. Reissuing(H)
    <2>1. claimSeq' \in claimSeq..MaxClaims /\ DOMAIN claims' = ClaimId
      <3>1. DOMAIN claims' = ClaimId /\ claimSeq' = claimSeq + fresh
        BY <1>1
      <3> QED
        BY <1>3, <1>21, <1>30, <3>1
    <2>2. \A c \in Claims \ H :
             \/ claims'[c] = claims[c]
             \/ /\ claims[c].status = "live" /\ claims'[c] \in ClaimRow
                /\ claims'[c].fence = claims[c].fence /\ claims'[c].purpose = claims[c].purpose
      BY <1>35, <1>39
    <2>3. \A c, e \in H : c = e
      BY <1>19, <1>36
    <2>4. \A c, e \in H \cup Fresh :
             /\ claims'[c].fence = claims'[e].fence => c = e
             /\ claims'[c].purpose \in EXCLUSIVE_PURPOSES /\ claims'[e].purpose \in EXCLUSIVE_PURPOSES
                => c = e
      BY <1>41, <1>42, <2>3
    <2> QED
      BY <1>36, <1>37, <1>38, <1>40, <1>43, <2>1, <2>2, <2>4 DEF Reissuing
  <1>45. ASSUME NEW c \in Claims'
         PROVE  \/ claims'[c].attempt = a
                \/ c \in Claims /\ claims'[c].attempt = claims[c].attempt
    BY <1>35, <1>37, <1>38, <1>39 DEF Fresh
  <1>46. Lawful
    BY <1>44, ReissuingIsLawful
  <1> QED
    BY <1>45, <1>46

\* Every step does to the claims what is lawful.
LEMMA NextIsLawful == ASSUME IInv, [Next]_vars PROVE Lawful
  <1>1. ASSUME UNCHANGED <<claims, claimSeq>> PROVE Lawful
    <2>1. Winding
      BY <1>1, KnownClaims DEF Winding, ClaimsType
    <2> QED
      BY <2>1, WindingIsLawful
  <1>2. ASSUME NEW d \in Driver, NEW a \in Made, TakeOverAttempt(d, a) PROVE Lawful
    BY <1>2, MoveIsLawful DEF TakeOverAttempt
  <1>3. ASSUME NEW d \in Driver, NEW h \in Offers, AcceptAttempt(d, h) PROVE Lawful
    <2>1. handoffs[h].id \in Made
      BY <1>3 DEF AcceptAttempt, IInv, OffersRefer
    <2> QED
      BY <1>3, <2>1, MoveIsLawful DEF AcceptAttempt
  <1>4. ASSUME NEW d \in Driver, DriverNext(d) PROVE Lawful
    <2>1. CASE \/ Sweep
               \/ \E p \in Purpose, w \in Checkout \cup {NoCheckout} : ClaimNode(d, p, w)
               \/ \E c \in Claims : ReleaseClaim(d, c) \/ LapseClaim(c)
               \/ \E cs \in SUBSET Claims, as \in SUBSET Made : Heartbeat(d, cs, as)
      BY <2>1, LeasesAreLawful
    <2>2. CASE \/ \E kind \in Kinds, c \in Claims \cup {0} : Reserve(d, kind, c)
               \/ \E a \in Made, c \in Claims : ReplayReserve(d, a, c)
               \/ \E a \in Made, c \in Claims \cup {0} : ClaimLaunch(d, a, c)
               \/ \E a \in Made, good \in BOOLEAN : Settle(d, a, good)
               \/ \E a \in Made, kind \in {"confirmed_stopped", "unknown"} :
                     AbandonExternalAttempt(d, a, kind)
      BY <2>2, DispatchIsLawful
    <2>3. CASE \/ \E c \in Claims : TakeOverClaim(d, c)
               \/ \E h \in Offers : AcceptClaim(d, h)
      BY <2>3, TransferIsLawful
    <2>4. CASE \E a \in Made : RetireIntent(a) \/ LateReport(d, a)
      BY <1>1, <2>4 DEF RetireIntent, LateReport
    <2>5. CASE \/ \E to \in Driver \ {d}, a \in Made : OfferAttempt(d, to, a)
               \/ \E to \in Driver \ {d}, c \in Claims : OfferClaim(d, to, c)
               \/ \E h \in Offers : CloseOffer(d, h)
               \/ ChangePresence(d)
      BY <1>1, <2>5 DEF OfferAttempt, OfferClaim, OfferHandoff, CloseOffer, ChangePresence
    <2> QED
      BY <1>2, <1>3, <1>4, <2>1, <2>2, <2>3, <2>4, <2>5 DEF DriverNext
  <1>5. CASE \E d \in Driver \ gone : DriverNext(d)
    BY <1>4, <1>5
  <1>6. CASE \/ \E d \in Mortal \ gone : Vanish(d)
             \/ \E m \in Modes : SetClaimEnforcement(m)
    BY <1>1, <1>6 DEF Vanish, SetClaimEnforcement
  <1>7. CASE \E c \in Claims : LapseClaim(c)
    <2>1. PICK c \in Claims : LapseClaim(c)
      BY <1>7
    <2>2. claims[c].driver \in Driver
      BY KnownClaims DEF ClaimRow
    <2> QED
      BY <2>1, <2>2, LeasesAreLawful
  <1>8. CASE (\E a \in Made : LapseAttempt(a)) \/ (\E h \in Offers : LapseOffer(h))
    BY <1>1, <1>8 DEF LapseAttempt, LapseOffer
  <1>9. CASE UNCHANGED vars
    BY <1>1, <1>9 DEF vars
  <1> QED
    BY <1>5, <1>6, <1>7, <1>8, <1>9 DEF Next, TimeNext

-----------------------------------------------------------------------------
(* Attempts *)

\* What every step does to the attempts: ownership moves only with the fence.
AttemptsAdvance ==
    /\ attemptSeq' \in attemptSeq..MaxAttempts /\ DOMAIN attempts' = 1..MaxAttempts
    /\ \A a \in Made' : attempts'[a] \in AttemptRow
    /\ \A a \in Made : /\ attempts[a].fence <= attempts'[a].fence
                       /\ attempts[a].fence = attempts'[a].fence
                          => attempts'[a].owner = attempts[a].owner

\* One attempt is rewritten.
LEMMA AttemptUpdate ==
    ASSUME IInv, NEW a \in Made, NEW r \in AttemptRow, attemptSeq' = attemptSeq,
           attempts' = [attempts EXCEPT ![a] = r], attempts[a].fence <= r.fence,
           attempts[a].fence = r.fence => attempts[a].owner = r.owner
    PROVE  AttemptsAdvance
  <1>1. /\ attemptSeq \in attemptSeq..MaxAttempts /\ DOMAIN attempts' = 1..MaxAttempts
        /\ a \in 1..MaxAttempts /\ Made' = Made /\ Made \subseteq 1..MaxAttempts
    BY OwnershipAssumption DEF IInv, TypeOK, Made
  <1>2. \A x \in Made : attempts[x] \in AttemptRow /\ attempts[x].fence \in Nat
    BY DEF IInv, TypeOK, AttemptRow
  <1>3. \A x \in Made : attempts'[x] = IF x = a THEN r ELSE attempts[x]
    BY <1>1 DEF IInv, TypeOK
  <1> QED
    BY <1>1, <1>2, <1>3 DEF AttemptsAdvance

\* Every step does so.
LEMMA NextAttempts == ASSUME IInv, [Next]_vars PROVE AttemptsAdvance
  <1>0. /\ attemptSeq \in Nat /\ MaxAttempts \in Nat /\ attemptSeq <= MaxAttempts
        /\ \A a \in Made : attempts[a] \in AttemptRow /\ a \in 1..MaxAttempts
        /\ DOMAIN attempts = 1..MaxAttempts
    BY OwnershipAssumption DEF IInv, TypeOK, Made
  <1>1. ASSUME UNCHANGED <<attempts, attemptSeq>> PROVE AttemptsAdvance
    BY <1>0, <1>1 DEF AttemptsAdvance, Made, AttemptRow
  <1>2. ASSUME NEW d \in Driver, NEW cs \in SUBSET Claims, NEW as \in SUBSET Made,
               Heartbeat(d, cs, as)
        PROVE  AttemptsAdvance
    <2>1. /\ attemptSeq' = attemptSeq /\ DOMAIN attempts' = 1..MaxAttempts
          /\ \A a \in Made : attempts'[a] = IF a \in as THEN [attempts[a] EXCEPT !.lapsed = FALSE]
                                            ELSE attempts[a]
      BY <1>0, <1>2 DEF Heartbeat
    <2>2. \A r \in AttemptRow : /\ [r EXCEPT !.lapsed = FALSE] \in AttemptRow
                                /\ [r EXCEPT !.lapsed = FALSE].fence = r.fence
                                /\ [r EXCEPT !.lapsed = FALSE].owner = r.owner
                                /\ r.fence \in Nat
      BY DEF AttemptRow
    <2>3. \A a \in Made : /\ attempts'[a] \in AttemptRow /\ attempts[a].fence \in Nat
                         /\ attempts'[a].fence = attempts[a].fence
                         /\ attempts'[a].owner = attempts[a].owner
      BY <1>0, <2>1, <2>2
    <2> QED
      BY <1>0, <2>1, <2>3 DEF AttemptsAdvance, Made
  <1>3. ASSUME NEW d \in Driver, NEW kind \in Kinds, NEW c \in Claims \cup {0}, Reserve(d, kind, c)
        PROVE  AttemptsAdvance
    <2> DEFINE r == [owner |-> d, reporter |-> d, fence |-> 1, lapsed |-> FALSE, kind |-> kind,
                     status |-> IF kind = "external" THEN "live" ELSE "reserved",
                     review |-> c # 0 /\ claims[c].purpose = "review",
                     abandon |-> "none", quiet |-> FALSE]
    <2>1. /\ attemptSeq' = attemptSeq + 1 /\ attemptSeq < MaxAttempts
          /\ attempts' = [attempts EXCEPT ![attemptSeq + 1] = r]
      BY <1>3 DEF Reserve
    <2>2. r \in AttemptRow
      BY <1>3 DEF AttemptRow, ACTIVE
    <2> HIDE DEF r
    <2>3. Made' = Made \cup {attemptSeq + 1} /\ attemptSeq + 1 \notin Made
      BY <1>0, <2>1 DEF Made
    <2>4. attemptSeq + 1 \in 1..MaxAttempts /\ attemptSeq' \in attemptSeq..MaxAttempts
      BY <1>0, <2>1
    <2>5. \A a \in Made : attempts'[a] = attempts[a] /\ attempts[a].fence \in Nat
      BY <1>0, <2>1, <2>3, <2>4 DEF AttemptRow
    <2> QED
      BY <1>0, <2>1, <2>2, <2>3, <2>4, <2>5 DEF AttemptsAdvance
  <1>4. ASSUME NEW a \in Made, NEW st \in {"live", "retired", "settled"}, attemptSeq' = attemptSeq,
               attempts' = [attempts EXCEPT ![a].status = st]
        PROVE  AttemptsAdvance
    <2> DEFINE r == [attempts[a] EXCEPT !.status = st]
    <2>1. /\ r \in AttemptRow /\ attempts[a].fence <= r.fence /\ attempts[a].owner = r.owner
          /\ attempts' = [attempts EXCEPT ![a] = r]
      BY <1>0, <1>4 DEF AttemptRow, ACTIVE
    <2> HIDE DEF r
    <2> QED
      BY <1>4, <2>1, AttemptUpdate
  <1>5. ASSUME NEW d \in Driver, NEW a \in Made, LateReport(d, a) PROVE AttemptsAdvance
    <2> DEFINE r == [attempts[a] EXCEPT !.quiet = TRUE]
    <2>1. r \in AttemptRow /\ attempts[a].fence <= r.fence /\ attempts[a].owner = r.owner
      <3>1. attempts[a] \in AttemptRow /\ attempts[a].fence \in Nat
        BY <1>0 DEF AttemptRow
      <3>2. r \in AttemptRow
        BY <3>1 DEF AttemptRow
      <3>3. r.fence = attempts[a].fence /\ r.owner = attempts[a].owner
        BY <3>1 DEF AttemptRow
      <3> QED
        BY <3>1, <3>2, <3>3
    <2>2. attempts' = [attempts EXCEPT ![a] = r] /\ attemptSeq' = attemptSeq
      BY <1>0, <1>5 DEF LateReport
    <2> HIDE DEF r
    <2> QED
      BY <2>1, <2>2, AttemptUpdate
  <1>6. ASSUME NEW a \in Made, LapseAttempt(a) PROVE AttemptsAdvance
    <2> DEFINE r == [attempts[a] EXCEPT !.lapsed = TRUE]
    <2>1. r \in AttemptRow /\ attempts[a].fence <= r.fence /\ attempts[a].owner = r.owner
      <3>1. attempts[a] \in AttemptRow /\ attempts[a].fence \in Nat
        BY <1>0 DEF AttemptRow
      <3>2. r \in AttemptRow
        BY <3>1 DEF AttemptRow
      <3>3. r.fence = attempts[a].fence /\ r.owner = attempts[a].owner
        BY <3>1 DEF AttemptRow
      <3> QED
        BY <3>1, <3>2, <3>3
    <2>2. attempts' = [attempts EXCEPT ![a] = r] /\ attemptSeq' = attemptSeq
      BY <1>0, <1>6 DEF LapseAttempt
    <2> HIDE DEF r
    <2> QED
      BY <2>1, <2>2, AttemptUpdate
  <1>7. ASSUME NEW d \in Driver, NEW a \in Made, NEW kind \in {"confirmed_stopped", "unknown"},
               AbandonExternalAttempt(d, a, kind)
        PROVE  AttemptsAdvance
    <2> DEFINE r == [attempts[a] EXCEPT !.status = "abandoned", !.abandon = kind,
                                        !.quiet = (kind = "confirmed_stopped"), !.fence = @ + 1]
    <2>0. attempts[a].fence \in Nat /\ attempts[a].fence + 1 \in Nat \ {0} /\ a \in 1..MaxAttempts
      BY <1>0 DEF AttemptRow
    <2>1. /\ r \in AttemptRow /\ attempts[a].fence <= r.fence /\ attempts[a].fence # r.fence
      <3>1. r \in AttemptRow /\ r.fence = attempts[a].fence + 1
        BY <1>0, <2>0 DEF AttemptRow
      <3> QED
        BY <2>0, <3>1
    <2>2. attempts' = [attempts EXCEPT ![a] = r] /\ attemptSeq' = attemptSeq
      BY <1>0, <1>7 DEF AbandonExternalAttempt
    <2> HIDE DEF r
    <2> QED
      BY <2>1, <2>2, AttemptUpdate
  <1>8. ASSUME NEW d \in Driver, NEW a \in Made, SetOwner(a, d), attemptSeq' = attemptSeq
        PROVE  AttemptsAdvance
    <2> DEFINE r == [attempts[a] EXCEPT !.owner = d, !.fence = @ + 1, !.lapsed = FALSE]
    <2>0. attempts[a].fence \in Nat /\ attempts[a].fence + 1 \in Nat \ {0} /\ a \in 1..MaxAttempts
      BY <1>0 DEF AttemptRow
    <2>1. /\ r \in AttemptRow /\ attempts[a].fence <= r.fence /\ attempts[a].fence # r.fence
      <3>1. r \in AttemptRow /\ r.fence = attempts[a].fence + 1
        BY <1>0, <2>0 DEF AttemptRow
      <3> QED
        BY <2>0, <3>1
    <2>2. attempts' = [attempts EXCEPT ![a] = r]
      BY <1>0, <1>8 DEF SetOwner
    <2> HIDE DEF r
    <2> QED
      BY <1>8, <2>1, <2>2, AttemptUpdate
  <1>9. ASSUME NEW d \in Driver, DriverNext(d) PROVE AttemptsAdvance
    <2>1. CASE \/ Sweep
               \/ \E p \in Purpose, w \in Checkout \cup {NoCheckout} : ClaimNode(d, p, w)
               \/ \E c \in Claims : ReleaseClaim(d, c)
               \/ \E a \in Made, c \in Claims : ReplayReserve(d, a, c)
               \/ \E c \in Claims : TakeOverClaim(d, c)
               \/ \E h \in Offers : AcceptClaim(d, h)
      BY <1>1, <2>1 DEF Sweep, ClaimNode, ReleaseClaim, ReplayReserve, TakeOverClaim, AcceptClaim
    <2>2. CASE \/ \E to \in Driver \ {d}, a \in Made : OfferAttempt(d, to, a)
               \/ \E to \in Driver \ {d}, c \in Claims : OfferClaim(d, to, c)
               \/ \E h \in Offers : CloseOffer(d, h)
               \/ ChangePresence(d)
      BY <1>1, <2>2 DEF OfferAttempt, OfferClaim, OfferHandoff, CloseOffer, ChangePresence
    <2>3. CASE \/ \E a \in Made, c \in Claims \cup {0} : ClaimLaunch(d, a, c)
               \/ \E a \in Made : RetireIntent(a)
               \/ \E a \in Made, good \in BOOLEAN : Settle(d, a, good)
      BY <1>4, <2>3 DEF ClaimLaunch, RetireIntent, Settle
    <2>4. CASE \E a \in Made : TakeOverAttempt(d, a)
      BY <1>8, <2>4 DEF TakeOverAttempt
    <2>5. CASE \E h \in Offers : AcceptAttempt(d, h)
      BY <1>8, <2>5 DEF AcceptAttempt, IInv, OffersRefer
    <2> QED
      BY <1>2, <1>3, <1>5, <1>7, <1>9, <2>1, <2>2, <2>3, <2>4, <2>5 DEF DriverNext
  <1>10. CASE \/ \E d \in Mortal \ gone : Vanish(d)
              \/ \E m \in Modes : SetClaimEnforcement(m)
              \/ \E c \in Claims : LapseClaim(c)
              \/ \E h \in Offers : LapseOffer(h)
              \/ UNCHANGED vars
    BY <1>1, <1>10 DEF Vanish, SetClaimEnforcement, LapseClaim, LapseOffer, vars
  <1> QED
    BY <1>6, <1>9, <1>10 DEF Next, TimeNext

-----------------------------------------------------------------------------
(* Offers *)

\* What every step does to the offers: an offer's terms never change, it is
\* accepted only by moving what it offers, and a new one carries the terms of now.
OffersAdvance ==
    /\ handoffSeq' \in handoffSeq..MaxHandoffs /\ DOMAIN handoffs' = 1..MaxHandoffs
    /\ \A h \in Offers' : handoffs'[h] \in HandoffRow
    /\ \A h \in Offers :
          /\ handoffs'[h].subject = handoffs[h].subject /\ handoffs'[h].id = handoffs[h].id
          /\ handoffs'[h].from = handoffs[h].from /\ handoffs'[h].fence = handoffs[h].fence
          /\ \/ handoffs'[h].status # "accepted" \/ handoffs[h].status = "accepted"
             \/ handoffs[h].subject = "attempt"
                => handoffs[h].fence < attempts'[handoffs[h].id].fence
    /\ \A h \in Offers' \ Offers :
          /\ handoffs'[h].status = "offered" /\ UNCHANGED <<attempts, attemptSeq>>
          /\ \/ /\ handoffs'[h].subject = "claim" /\ handoffs'[h].id \in Claims
             \/ /\ handoffs'[h].subject = "attempt" /\ handoffs'[h].id \in Made
                /\ handoffs'[h].fence = attempts[handoffs'[h].id].fence
                /\ handoffs'[h].from = attempts[handoffs'[h].id].owner

\* Offers are decided, voided or lapse.
LEMMA OfferUpdates ==
    ASSUME IInv, handoffSeq' = handoffSeq, DOMAIN handoffs' = 1..MaxHandoffs,
           \A h \in Offers :
              \/ handoffs'[h] = handoffs[h]
              \/ \E s \in {"declined", "withdrawn"} : handoffs'[h] = [handoffs[h] EXCEPT !.status = s]
              \/ handoffs'[h] = [handoffs[h] EXCEPT !.lapsed = TRUE]
              \/ /\ handoffs'[h] = [handoffs[h] EXCEPT !.status = "accepted"]
                 /\ handoffs[h].subject = "attempt"
                    => handoffs[h].fence < attempts'[handoffs[h].id].fence
    PROVE  OffersAdvance
  <1>1. /\ handoffSeq' \in handoffSeq..MaxHandoffs /\ Offers' = Offers
        /\ \A h \in Offers : handoffs[h] \in HandoffRow
    BY OwnershipAssumption DEF IInv, TypeOK, Offers
  <1>2. ASSUME NEW r \in HandoffRow, NEW s \in {"declined", "withdrawn", "accepted"}
        PROVE  LET q == [r EXCEPT !.status = s] IN
                 /\ q \in HandoffRow /\ q.subject = r.subject /\ q.id = r.id /\ q.from = r.from
                 /\ q.fence = r.fence /\ q.status = s
    BY DEF HandoffRow
  <1>3. ASSUME NEW r \in HandoffRow
        PROVE  LET q == [r EXCEPT !.lapsed = TRUE] IN
                 /\ q \in HandoffRow /\ q.subject = r.subject /\ q.id = r.id /\ q.from = r.from
                 /\ q.fence = r.fence /\ q.status = r.status
    BY DEF HandoffRow
  <1>4. ASSUME NEW h \in Offers
        PROVE  /\ handoffs'[h] \in HandoffRow
               /\ handoffs'[h].subject = handoffs[h].subject /\ handoffs'[h].id = handoffs[h].id
               /\ handoffs'[h].from = handoffs[h].from /\ handoffs'[h].fence = handoffs[h].fence
               /\ \/ handoffs'[h].status # "accepted" \/ handoffs[h].status = "accepted"
                  \/ handoffs[h].subject = "attempt"
                     => handoffs[h].fence < attempts'[handoffs[h].id].fence
    <2>1. handoffs[h] \in HandoffRow
      BY <1>1
    <2>2. CASE handoffs'[h] = handoffs[h]
      BY <2>1, <2>2
    <2>3. CASE \E s \in {"declined", "withdrawn"} : handoffs'[h] = [handoffs[h] EXCEPT !.status = s]
      <3>1. PICK s \in {"declined", "withdrawn"} : handoffs'[h] = [handoffs[h] EXCEPT !.status = s]
        BY <2>3
      <3>2. LET q == [handoffs[h] EXCEPT !.status = s] IN
              /\ q \in HandoffRow /\ q.subject = handoffs[h].subject /\ q.id = handoffs[h].id
              /\ q.from = handoffs[h].from /\ q.fence = handoffs[h].fence /\ q.status = s
        BY <2>1 DEF HandoffRow
      <3> QED
        BY <3>1, <3>2
    <2>4. CASE handoffs'[h] = [handoffs[h] EXCEPT !.lapsed = TRUE]
      BY <1>3, <2>1, <2>4
    <2>5. CASE /\ handoffs'[h] = [handoffs[h] EXCEPT !.status = "accepted"]
               /\ handoffs[h].subject = "attempt"
                  => handoffs[h].fence < attempts'[handoffs[h].id].fence
      <3>1. LET q == [handoffs[h] EXCEPT !.status = "accepted"] IN
              /\ q \in HandoffRow /\ q.subject = handoffs[h].subject /\ q.id = handoffs[h].id
              /\ q.from = handoffs[h].from /\ q.fence = handoffs[h].fence
        BY <1>2, <2>1
      <3> QED
        BY <2>5, <3>1
    <2> QED
      BY <2>2, <2>3, <2>4, <2>5
  <1> QED
    BY <1>1, <1>4 DEF OffersAdvance

\* A new offer is made.
LEMMA OfferMade ==
    ASSUME IInv, NEW d \in Driver, NEW to \in Driver, NEW subject, NEW i, NEW fence,
           OfferHandoff(d, to, subject, i, fence),
           \/ subject = "claim" /\ i \in Claims /\ fence \in Nat \ {0}
           \/ /\ subject = "attempt" /\ i \in Made
              /\ fence = attempts[i].fence /\ attempts[i].owner = d
    PROVE  OffersAdvance
  <1> DEFINE r == [subject |-> subject, id |-> i, from |-> d, to |-> to, fence |-> fence,
                   status |-> "offered", lapsed |-> FALSE]
  <1>1. /\ handoffSeq < MaxHandoffs /\ handoffSeq' = handoffSeq + 1
        /\ handoffs' = [handoffs EXCEPT ![handoffSeq + 1] = r] /\ UNCHANGED <<attempts, attemptSeq>>
    BY DEF OfferHandoff
  <1>2. /\ handoffSeq \in Nat /\ MaxHandoffs \in Nat /\ DOMAIN handoffs = 1..MaxHandoffs
        /\ \A h \in Offers : handoffs[h] \in HandoffRow
    BY OwnershipAssumption DEF IInv, TypeOK
  <1>3. Offers' = Offers \cup {handoffSeq + 1} /\ handoffSeq + 1 \notin Offers
    BY <1>1, <1>2 DEF Offers
  <1>4. handoffSeq' \in handoffSeq..MaxHandoffs /\ handoffSeq + 1 \in 1..MaxHandoffs
    BY <1>1, <1>2
  <1>5. i \in Nat \ {0} /\ fence \in Nat \ {0}
    BY DEF IInv, TypeOK, AttemptRow, Made, Claims
  <1>6. r \in HandoffRow
    BY <1>5 DEF HandoffRow
  <1>7. \A h \in Offers : handoffs'[h] = handoffs[h]
    BY <1>1, <1>3
  <1>8. handoffs'[handoffSeq + 1] = r /\ DOMAIN handoffs' = 1..MaxHandoffs
    BY <1>1, <1>2, <1>4
  <1>9. /\ r.subject = subject /\ r.id = i /\ r.from = d /\ r.fence = fence
        /\ r.status = "offered"
    OBVIOUS
  <1> HIDE DEF r
  <1> QED
    BY <1>1, <1>2, <1>3, <1>4, <1>6, <1>7, <1>8, <1>9 DEF OffersAdvance

\* Every step does so.
LEMMA NextOffers == ASSUME IInv, [Next]_vars PROVE OffersAdvance
  <1>0. /\ DOMAIN handoffs = 1..MaxHandoffs
        /\ \A h \in Offers : handoffs[h] \in HandoffRow /\ h \in 1..MaxHandoffs
        /\ \A a \in Made : attempts[a] \in AttemptRow /\ a \in 1..MaxAttempts
        /\ DOMAIN attempts = 1..MaxAttempts
    BY OwnershipAssumption DEF IInv, TypeOK, Offers, Made
  <1>1. ASSUME UNCHANGED <<handoffs, handoffSeq>> PROVE OffersAdvance
    BY <1>0, <1>1, OfferUpdates
  <1>2. ASSUME NEW a, handoffs' = VoidOpenHandoffs(a), handoffSeq' = handoffSeq PROVE OffersAdvance
    <2>1. \A h \in Offers : \/ handoffs'[h] = handoffs[h]
                            \/ handoffs'[h] = [handoffs[h] EXCEPT !.status = "withdrawn"]
      BY <1>0, <1>2 DEF VoidOpenHandoffs
    <2>2. DOMAIN handoffs' = 1..MaxHandoffs
      BY <1>2 DEF VoidOpenHandoffs
    <2> QED
      BY <1>2, <2>1, <2>2, OfferUpdates
  <1>3. ASSUME NEW d \in Driver, NEW h \in Offers, AcceptAttempt(d, h) PROVE OffersAdvance
    <2> DEFINE a == handoffs[h].id
    <2>1. /\ a \in Made /\ handoffSeq' = handoffSeq
          /\ handoffs' = [handoffs EXCEPT ![h].status = "accepted"]
          /\ attempts' = [attempts EXCEPT ![a].owner = d, ![a].fence = @ + 1, ![a].lapsed = FALSE]
          /\ attempts[a].fence = handoffs[h].fence
      BY <1>3 DEF AcceptAttempt, Decide, SetOwner, IInv, OffersRefer
    <2> HIDE DEF a
    <2>2. attempts'[a].fence = attempts[a].fence + 1 /\ attempts[a].fence \in Nat
      BY <1>0, <2>1 DEF AttemptRow
    <2>3. handoffs[h].fence < attempts'[a].fence
      BY <2>1, <2>2
    <2>4. /\ DOMAIN handoffs' = 1..MaxHandoffs
          /\ handoffs'[h] = [handoffs[h] EXCEPT !.status = "accepted"]
          /\ \A x \in Offers \ {h} : handoffs'[x] = handoffs[x]
      BY <1>0, <2>1
    <2> QED
      BY <2>1, <2>3, <2>4, OfferUpdates DEF a
  <1>4. ASSUME NEW d \in Driver, NEW h \in Offers, AcceptClaim(d, h) PROVE OffersAdvance
    <2>1. /\ handoffs[h].subject = "claim" /\ handoffSeq' = handoffSeq
          /\ handoffs' = [handoffs EXCEPT ![h].status = "accepted"]
      BY <1>4 DEF AcceptClaim, Decide
    <2>2. /\ DOMAIN handoffs' = 1..MaxHandoffs
          /\ handoffs'[h] = [handoffs[h] EXCEPT !.status = "accepted"]
          /\ \A x \in Offers \ {h} : handoffs'[x] = handoffs[x]
      BY <1>0, <2>1
    <2> QED
      BY <2>1, <2>2, OfferUpdates
  <1>5. ASSUME NEW d \in Driver, NEW h \in Offers, CloseOffer(d, h) PROVE OffersAdvance
    <2>1. /\ handoffSeq' = handoffSeq /\ DOMAIN handoffs' = 1..MaxHandoffs
          /\ \E s \in {"declined", "withdrawn"} : handoffs'[h] = [handoffs[h] EXCEPT !.status = s]
          /\ \A x \in Offers \ {h} : handoffs'[x] = handoffs[x]
      BY <1>0, <1>5 DEF CloseOffer, Decide
    <2> QED
      BY <2>1, OfferUpdates
  <1>6. ASSUME NEW h \in Offers, LapseOffer(h) PROVE OffersAdvance
    <2>1. /\ handoffSeq' = handoffSeq /\ DOMAIN handoffs' = 1..MaxHandoffs
          /\ handoffs'[h] = [handoffs[h] EXCEPT !.lapsed = TRUE]
          /\ \A x \in Offers \ {h} : handoffs'[x] = handoffs[x]
      BY <1>0, <1>6 DEF LapseOffer
    <2> QED
      BY <2>1, OfferUpdates
  <1>7. ASSUME NEW d \in Driver, NEW to \in Driver, NEW a \in Made, OfferAttempt(d, to, a)
        PROVE  OffersAdvance
    BY <1>7, OfferMade DEF OfferAttempt
  <1>8. ASSUME NEW d \in Driver, NEW to \in Driver, NEW c \in Claims, OfferClaim(d, to, c)
        PROVE  OffersAdvance
    <2>1. claims[c].fence \in Nat \ {0}
      BY KnownClaims DEF ClaimRow
    <2> QED
      BY <1>8, <2>1, OfferMade DEF OfferClaim
  <1>9. ASSUME NEW d \in Driver, DriverNext(d) PROVE OffersAdvance
    <2>1. CASE \/ Sweep
               \/ \E p \in Purpose, w \in Checkout \cup {NoCheckout} : ClaimNode(d, p, w)
               \/ \E c \in Claims : ReleaseClaim(d, c)
               \/ \E cs \in SUBSET Claims, as \in SUBSET Made : Heartbeat(d, cs, as)
               \/ \E a \in Made, c \in Claims : ReplayReserve(d, a, c)
               \/ \E c \in Claims : TakeOverClaim(d, c)
      BY <1>1, <2>1 DEF Sweep, ClaimNode, ReleaseClaim, Heartbeat, ReplayReserve, TakeOverClaim
    <2>2. CASE \/ \E kind \in Kinds, c \in Claims \cup {0} : Reserve(d, kind, c)
               \/ \E a \in Made, c \in Claims \cup {0} : ClaimLaunch(d, a, c)
               \/ \E a \in Made : RetireIntent(a)
               \/ \E a \in Made, good \in BOOLEAN : Settle(d, a, good)
               \/ \E a \in Made : LateReport(d, a)
               \/ ChangePresence(d)
      BY <1>1, <2>2 DEF Reserve, ClaimLaunch, RetireIntent, Settle, LateReport, ChangePresence
    <2>3. CASE \/ \E a \in Made, kind \in {"confirmed_stopped", "unknown"} :
                     AbandonExternalAttempt(d, a, kind)
               \/ \E a \in Made : TakeOverAttempt(d, a)
      BY <1>2, <2>3 DEF AbandonExternalAttempt, TakeOverAttempt
    <2> QED
      BY <1>3, <1>4, <1>5, <1>7, <1>8, <1>9, <2>1, <2>2, <2>3 DEF DriverNext
  <1>10. CASE \/ \E d \in Mortal \ gone : Vanish(d)
              \/ \E m \in Modes : SetClaimEnforcement(m)
              \/ \E c \in Claims : LapseClaim(c)
              \/ \E a \in Made : LapseAttempt(a)
              \/ UNCHANGED vars
    BY <1>1, <1>10 DEF Vanish, SetClaimEnforcement, LapseClaim, LapseAttempt, vars
  <1> QED
    BY <1>6, <1>9, <1>10 DEF Next, TimeNext

\* So an open offer's fence stays the proof of who made it.
LEMMA OffersStand ==
    ASSUME IInv, claimSeq <= claimSeq', claimSeq' \in Nat, AttemptsAdvance, OffersAdvance
    PROVE  OffersRefer' /\ OffersAreFenced'
  <1>1. /\ Made \subseteq Made' /\ Claims \subseteq Claims'
        /\ \A a \in Made : attempts[a].fence \in Nat /\ attempts'[a].fence \in Nat
    BY OwnershipAssumption DEF AttemptsAdvance, IInv, TypeOK, Made, Claims, AttemptRow
  <1>2. ASSUME NEW h \in Offers
        PROVE  /\ handoffs'[h].id \in (IF handoffs'[h].subject = "attempt" THEN Made' ELSE Claims')
               /\ handoffs'[h].subject = "attempt" =>
                     /\ handoffs'[h].status = "accepted"
                        => handoffs'[h].fence < attempts'[handoffs'[h].id].fence
                     /\ handoffs'[h].fence <= attempts'[handoffs'[h].id].fence
                     /\ handoffs'[h].fence = attempts'[handoffs'[h].id].fence
                        => handoffs'[h].from = attempts'[handoffs'[h].id].owner
    <2>1. /\ handoffs'[h].subject = handoffs[h].subject /\ handoffs'[h].id = handoffs[h].id
          /\ handoffs'[h].from = handoffs[h].from /\ handoffs'[h].fence = handoffs[h].fence
          /\ handoffs[h].fence \in Nat
          /\ \/ handoffs'[h].status # "accepted" \/ handoffs[h].status = "accepted"
             \/ handoffs[h].subject = "attempt"
                => handoffs[h].fence < attempts'[handoffs[h].id].fence
      BY DEF OffersAdvance, IInv, TypeOK, HandoffRow
    <2>2. handoffs[h].id \in (IF handoffs[h].subject = "attempt" THEN Made ELSE Claims)
      BY DEF IInv, OffersRefer
    <2>3. CASE handoffs[h].subject # "attempt"
      BY <1>1, <2>1, <2>2, <2>3
    <2>4. CASE handoffs[h].subject = "attempt"
      <3> DEFINE a == handoffs[h].id
      <3>1. /\ a \in Made /\ handoffs[h].fence <= attempts[a].fence
            /\ handoffs[h].status = "accepted" => handoffs[h].fence < attempts[a].fence
            /\ handoffs[h].fence = attempts[a].fence => handoffs[h].from = attempts[a].owner
        BY <2>2, <2>4 DEF IInv, OffersAreFenced
      <3>2. /\ attempts[a].fence <= attempts'[a].fence
            /\ attempts[a].fence = attempts'[a].fence => attempts'[a].owner = attempts[a].owner
            /\ attempts[a].fence \in Nat /\ attempts'[a].fence \in Nat
        BY <1>1, <3>1 DEF AttemptsAdvance
      <3> HIDE DEF a
      <3>3. /\ handoffs[h].fence <= attempts'[a].fence
            /\ handoffs[h].fence = attempts'[a].fence => handoffs[h].fence = attempts[a].fence
                                                         /\ attempts[a].fence = attempts'[a].fence
            /\ handoffs'[h].status = "accepted" => handoffs[h].fence < attempts'[a].fence
        BY <2>1, <2>4, <3>1, <3>2 DEF a
      <3> QED
        BY <1>1, <2>1, <2>4, <3>1, <3>2, <3>3 DEF a
    <2> QED
      BY <2>3, <2>4
  <1>3. ASSUME NEW h \in Offers' \ Offers
        PROVE  /\ handoffs'[h].id \in (IF handoffs'[h].subject = "attempt" THEN Made' ELSE Claims')
               /\ handoffs'[h].subject = "attempt" =>
                     /\ handoffs'[h].status = "accepted"
                        => handoffs'[h].fence < attempts'[handoffs'[h].id].fence
                     /\ handoffs'[h].fence <= attempts'[handoffs'[h].id].fence
                     /\ handoffs'[h].fence = attempts'[handoffs'[h].id].fence
                        => handoffs'[h].from = attempts'[handoffs'[h].id].owner
    BY <1>1 DEF OffersAdvance
  <1> QED
    BY <1>2, <1>3 DEF OffersRefer, OffersAreFenced

-----------------------------------------------------------------------------
(* Claims bound to attempts *)

UNENDED == ACTIVE \cup {"retired"}

\* Every binding is to an attempt there is, and a live claim's to one that did
\* not end.
BindingsStand ==
    \A c \in Claims : /\ claims[c].attempt \in {0} \cup Made
                      /\ claims[c].status = "live" /\ claims[c].attempt # 0
                         => attempts[claims[c].attempt].status \in UNENDED

\* While no attempt ends, bindings may be kept, inherited from another live
\* claim, dropped, or made to an active attempt.
LEMMA BindingsFollow ==
    ASSUME IInv, attemptSeq' \in Nat, attemptSeq <= attemptSeq',
           \A a \in Made : attempts[a].status \in UNENDED => attempts'[a].status \in UNENDED,
           \A c \in Claims' :
              \/ \E e \in Claims : /\ claims'[c].attempt = claims[e].attempt
                                   /\ claims'[c].status = "live" => claims[e].status = "live"
              \/ claims'[c].attempt = 0
              \/ claims'[c].attempt \in Made' /\ attempts'[claims'[c].attempt].status \in ACTIVE
    PROVE  BindingsStand'
  <1>1. Made \subseteq Made'
    BY DEF Made, IInv, TypeOK
  <1>2. \A c \in Claims : /\ claims[c].attempt \in {0} \cup Made
                          /\ claims[c].status = "live" /\ claims[c].attempt # 0
                             => attempts[claims[c].attempt].status \in UNENDED
    BY DEF IInv, TypeOK, BoundClaimsEndWithAttempt, LiveClaims, UNENDED
  <1> QED
    BY <1>1, <1>2 DEF BindingsStand, UNENDED

\* An attempt ends with the claims bound to it.
LEMMA BindingsEnd ==
    ASSUME IInv, UNCHANGED <<claimSeq, attemptSeq>>, NEW a \in Made,
           \A x \in Made \ {a} : attempts'[x] = attempts[x],
           \A c \in Claims : /\ claims'[c].attempt = claims[c].attempt
                             /\ claims'[c].status = "live" => /\ claims[c].status = "live"
                                                             /\ claims[c].attempt # a
    PROVE  BindingsStand'
  <1>1. Claims' = Claims /\ Made' = Made
    BY DEF Claims, Made
  <1>2. \A c \in Claims : /\ claims[c].attempt \in {0} \cup Made
                          /\ claims[c].status = "live" /\ claims[c].attempt # 0
                             => attempts[claims[c].attempt].status \in UNENDED
    BY DEF IInv, TypeOK, BoundClaimsEndWithAttempt, LiveClaims, UNENDED
  <1> QED
    BY <1>1, <1>2 DEF BindingsStand

\* The sweep keeps bindings, and steps that only touch leases do.
LEMMA LeasesKeepBindings ==
    ASSUME IInv, NEW d \in Driver, ClaimsType',
           \/ Sweep
           \/ \E p \in Purpose, w \in Checkout \cup {NoCheckout} : ClaimNode(d, p, w)
           \/ \E c \in Claims : ReleaseClaim(d, c) \/ LapseClaim(c) \/ TakeOverClaim(d, c)
           \/ \E h \in Offers : AcceptClaim(d, h)
    PROVE  BindingsStand'
  <1> USE KnownClaims
  <1>0. /\ \A c \in Claims : /\ Swept[c].attempt = claims[c].attempt
                             /\ Swept[c].status = "live" => claims[c].status = "live"
        /\ DOMAIN Swept = ClaimId /\ DOMAIN claims = ClaimId
        /\ \A c \in Claims : c \in DOMAIN claims
    BY SweptRows DEF ClaimsType
  <1>1. attemptSeq' = attemptSeq /\ attempts' = attempts /\ attemptSeq \in Nat
    <2>1. attemptSeq \in Nat
      BY OwnershipAssumption DEF IInv, TypeOK
    <2> QED
      BY <2>1 DEF Sweep, ClaimNode, ReleaseClaim, LapseClaim, TakeOverClaim, AcceptClaim
  <1>2. ASSUME \A c \in Claims' :
                  \/ \E e \in Claims : /\ claims'[c].attempt = claims[e].attempt
                                       /\ claims'[c].status = "live" => claims[e].status = "live"
                  \/ claims'[c].attempt = 0
        PROVE  BindingsStand'
    BY <1>1, <1>2, BindingsFollow
  <1>3. ASSUME claimSeq' = claimSeq + 1 PROVE Claims' = Claims \cup {claimSeq + 1}
    BY <1>3 DEF Claims
  <1>4. CASE Sweep
    <2>1. Claims' = Claims /\ claims' = Swept
      BY <1>4 DEF Sweep, Claims
    <2> QED
      BY <1>0, <1>2, <2>1
  <1>5. ASSUME NEW p \in Purpose, NEW w \in Checkout \cup {NoCheckout}, ClaimNode(d, p, w)
        PROVE  BindingsStand'
    <2>1. /\ claimSeq' = claimSeq + 1 /\ claimSeq < MaxClaims
          /\ claims' = [Swept EXCEPT ![claimSeq + 1] = NewClaim(d, p, w, 0, MaxUsedFence + 1)]
      BY <1>5 DEF ClaimNode
    <2>2. /\ claims'[claimSeq + 1].attempt = 0 /\ \A c \in Claims : claims'[c] = Swept[c]
      BY <1>0, <2>1 DEF NewClaim
    <2> QED
      BY <1>0, <1>2, <1>3, <2>1, <2>2
  <1>6. ASSUME NEW c \in Claims, ReleaseClaim(d, c) \/ LapseClaim(c) PROVE BindingsStand'
    <2>1. /\ Claims' = Claims
          /\ \/ claims' = [claims EXCEPT ![c].status = "released"]
             \/ claims' = [claims EXCEPT ![c].lapsed = TRUE]
      BY <1>6 DEF ReleaseClaim, LapseClaim, Claims
    <2>2. /\ claims'[c].attempt = claims[c].attempt
          /\ claims'[c].status = "live" => claims[c].status = "live"
          /\ \A e \in Claims \ {c} : claims'[e] = claims[e]
      BY <1>0, <2>1 DEF ClaimRow
    <2> QED
      BY <1>2, <2>1, <2>2
  <1>7. ASSUME NEW c \in Claims, TakeOverClaim(d, c) PROVE BindingsStand'
    <2> DEFINE r == NewClaim(d, claims[c].purpose, claims[c].workspace, 0, MaxUsedFence + 1)
    <2>1. /\ claimSeq' = claimSeq + 1 /\ claimSeq < MaxClaims /\ Swept[c].status = "live"
          /\ claims' = [Swept EXCEPT ![c].status = "taken_over", ![claimSeq + 1] = r]
      BY <1>7 DEF TakeOverClaim
    <2>2. r.attempt = 0
      BY DEF NewClaim
    <2> HIDE DEF r
    <2>3. /\ claims'[claimSeq + 1] = r /\ \A e \in Claims \ {c} : claims'[e] = Swept[e]
          /\ claims'[c] = [Swept[c] EXCEPT !.status = "taken_over"]
      BY <1>0, <2>1
    <2>4. claims'[c].attempt = claims[c].attempt /\ claims[c].status = "live"
      <3>1. Swept[c] = claims[c]
        BY <2>1, SweptRows
      <3> QED
        BY <2>1, <2>3, <3>1 DEF ClaimRow
    <2> QED
      BY <1>0, <1>2, <1>3, <2>1, <2>2, <2>3, <2>4
  <1>8. ASSUME NEW h \in Offers, AcceptClaim(d, h) PROVE BindingsStand'
    <2> DEFINE c == handoffs[h].id
               old == [claims EXCEPT ![c].status = "transferred"]
               r == NewClaim(d, claims[c].purpose, claims[c].workspace, claims[c].attempt,
                             MaxUsedFence + 1)
    <2>1. /\ claimSeq' = claimSeq + 1 /\ claimSeq < MaxClaims /\ claims[c].status = "live"
          /\ claims' = [old EXCEPT ![claimSeq + 1] = r] /\ handoffs[h].subject = "claim"
      BY <1>8 DEF AcceptClaim
    <2>2. c \in Claims
      BY <2>1 DEF IInv, OffersRefer
    <2>3. r.attempt = claims[c].attempt
      BY DEF NewClaim
    <2> HIDE DEF r, c
    <2>4. /\ claims'[claimSeq + 1] = r /\ \A e \in Claims \ {c} : claims'[e] = claims[e]
          /\ claims'[c] = [claims[c] EXCEPT !.status = "transferred"]
      BY <1>0, <2>1, <2>2
    <2>5. claims'[c].attempt = claims[c].attempt
      BY <2>2, <2>4 DEF ClaimRow
    <2>6. \A e \in Claims' : \E x \in Claims :
             /\ claims'[e].attempt = claims[x].attempt
             /\ claims'[e].status = "live" => claims[x].status = "live"
      <3>1. \A e \in Claims' : e \in Claims \/ e = claimSeq + 1
        BY <1>3, <2>1
      <3> QED
        BY <2>1, <2>2, <2>3, <2>4, <2>5, <3>1
    <2> QED
      BY <1>2, <2>6
  <1> QED
    BY <1>4, <1>5, <1>6, <1>7, <1>8

\* Dispatch binds a live claim to the attempt it starts or joins, and an attempt
\* that moves takes its claims along.
LEMMA DispatchKeepsBindings ==
    ASSUME IInv, NEW d \in Driver,
           \/ \E cs \in SUBSET Claims, as \in SUBSET Made : Heartbeat(d, cs, as)
           \/ \E kind \in Kinds, c \in Claims \cup {0} : Reserve(d, kind, c)
           \/ \E a \in Made, c \in Claims : ReplayReserve(d, a, c)
           \/ \E a \in Made, c \in Claims \cup {0} : ClaimLaunch(d, a, c)
           \/ \E a \in Made : RetireIntent(a) \/ LateReport(d, a) \/ LapseAttempt(a)
           \/ \E a \in Made : SetOwner(a, d) /\ attempts[a].status \in ACTIVE
                              /\ MoveClaims(a, d) /\ attemptSeq' = attemptSeq
    PROVE  BindingsStand'
  <1> USE KnownClaims
  <1>0. /\ attemptSeq \in Nat /\ MaxAttempts \in Nat /\ DOMAIN attempts = 1..MaxAttempts
        /\ \A a \in Made : attempts[a] \in AttemptRow /\ a \in 1..MaxAttempts
        /\ DOMAIN claims = ClaimId /\ 0 \notin Claims
    BY OwnershipAssumption DEF IInv, TypeOK, Made, Claims
  <1>1. ASSUME UNCHANGED <<claims, claimSeq, attemptSeq>>,
               \A x \in Made : attempts[x].status \in UNENDED => attempts'[x].status \in UNENDED
        PROVE  BindingsStand'
    <2>1. Claims' = Claims
      BY <1>1 DEF Claims
    <2> QED
      BY <1>0, <1>1, <2>1, BindingsFollow
  <1>2. ASSUME NEW cs \in SUBSET Claims, NEW as \in SUBSET Made, Heartbeat(d, cs, as)
        PROVE  BindingsStand'
    <2>1. /\ attemptSeq' = attemptSeq /\ Claims' = Claims
          /\ \A c \in Claims : claims'[c] = IF c \in cs THEN [claims[c] EXCEPT !.lapsed = FALSE]
                                            ELSE claims[c]
          /\ \A a \in Made : attempts'[a] = IF a \in as THEN [attempts[a] EXCEPT !.lapsed = FALSE]
                                            ELSE attempts[a]
      BY <1>0, <1>2 DEF Heartbeat, Claims, ClaimId
    <2>2. \A c \in Claims : /\ claims'[c].attempt = claims[c].attempt
                            /\ claims'[c].status = claims[c].status
      BY <2>1 DEF ClaimRow
    <2>3. \A a \in Made : attempts'[a].status = attempts[a].status
      BY <1>0, <2>1 DEF AttemptRow
    <2> QED
      BY <1>0, <2>1, <2>2, <2>3, BindingsFollow
  <1>3. ASSUME NEW a \in Made', attempts'[a].status \in ACTIVE, NEW c \in LiveClaims(claims) \cup {0},
               claims' = IF c = 0 THEN claims ELSE [claims EXCEPT ![c].attempt = a],
               claimSeq' = claimSeq, attemptSeq' \in Nat, attemptSeq <= attemptSeq',
               \A x \in Made : attempts[x].status \in UNENDED => attempts'[x].status \in UNENDED
        PROVE  BindingsStand'
    <2>1. Claims' = Claims /\ LiveClaims(claims) \subseteq Claims
      BY <1>3 DEF Claims, LiveClaims
    <2>2. \A e \in Claims : claims'[e] = claims[e] \/ claims'[e].attempt = a
      BY <1>0, <1>3, <2>1 DEF ClaimRow
    <2> QED
      BY <1>3, <2>1, <2>2, BindingsFollow
  <1>4. ASSUME NEW kind \in Kinds, NEW c \in Claims \cup {0}, Reserve(d, kind, c)
        PROVE  BindingsStand'
    <2> DEFINE r == [owner |-> d, reporter |-> d, fence |-> 1, lapsed |-> FALSE, kind |-> kind,
                     status |-> IF kind = "external" THEN "live" ELSE "reserved",
                     review |-> c # 0 /\ claims[c].purpose = "review",
                     abandon |-> "none", quiet |-> FALSE]
    <2>1. /\ attemptSeq' = attemptSeq + 1 /\ attemptSeq < MaxAttempts /\ claimSeq' = claimSeq
          /\ attempts' = [attempts EXCEPT ![attemptSeq + 1] = r]
          /\ claims' = IF c = 0 THEN claims ELSE [claims EXCEPT ![c].attempt = attemptSeq + 1]
          /\ c \in LiveClaims(claims) \cup {0}
      BY <1>4 DEF Reserve, DispatchClaim, OwnImplement
    <2>2. r.status \in ACTIVE
      BY DEF ACTIVE
    <2> HIDE DEF r
    <2>3. /\ attemptSeq + 1 \in Made' /\ attemptSeq + 1 \notin Made /\ attemptSeq' \in Nat
          /\ attemptSeq <= attemptSeq' /\ attemptSeq + 1 \in 1..MaxAttempts
      BY <1>0, <2>1 DEF Made
    <2>4. attempts'[attemptSeq + 1] = r /\ \A x \in Made : attempts'[x] = attempts[x]
      BY <1>0, <2>1, <2>3
    <2> QED
      BY <1>3, <2>1, <2>2, <2>3, <2>4
  <1>5. ASSUME NEW a \in Made, NEW c \in Claims, ReplayReserve(d, a, c) PROVE BindingsStand'
    <2>1. /\ attemptSeq' = attemptSeq /\ claimSeq' = claimSeq /\ attempts' = attempts
          /\ claims' = [claims EXCEPT ![c].attempt = a] /\ c \in LiveClaims(claims)
          /\ attempts[a].status \in ACTIVE /\ c # 0 /\ a \in Made'
      BY <1>0, <1>5 DEF ReplayReserve, OwnImplement, Made
    <2>2. claims' = IF c = 0 THEN claims ELSE [claims EXCEPT ![c].attempt = a]
      BY <2>1
    <2>3. attemptSeq' \in Nat /\ attemptSeq <= attemptSeq' /\ attempts'[a].status \in ACTIVE
      BY <1>0, <2>1
    <2>4. \A x \in Made : attempts[x].status \in UNENDED => attempts'[x].status \in UNENDED
      BY <2>1
    <2>5. c \in LiveClaims(claims) \cup {0}
      BY <2>1
    <2> QED
      BY <1>3, <2>1, <2>2, <2>3, <2>4, <2>5
  <1>6. ASSUME NEW a \in Made, NEW c \in Claims \cup {0}, ClaimLaunch(d, a, c) PROVE BindingsStand'
    <2>1. /\ attemptSeq' = attemptSeq /\ claimSeq' = claimSeq
          /\ attempts' = [attempts EXCEPT ![a].status = "live"]
          /\ claims' = IF c = 0 THEN claims ELSE [claims EXCEPT ![c].attempt = a]
          /\ c \in LiveClaims(claims) \cup {0} /\ a \in Made'
      BY <1>6 DEF ClaimLaunch, LaunchAuthorized, OwnImplement, Made
    <2>2. attempts'[a].status = "live" /\ \A x \in Made \ {a} : attempts'[x] = attempts[x]
      BY <1>0, <2>1 DEF AttemptRow
    <2>3. \A x \in Made : attempts[x].status \in UNENDED => attempts'[x].status \in UNENDED
      BY <2>2 DEF UNENDED, ACTIVE
    <2>4. attempts'[a].status \in ACTIVE /\ attemptSeq' \in Nat /\ attemptSeq <= attemptSeq'
      BY <1>0, <2>1, <2>2 DEF ACTIVE
    <2> QED
      BY <1>3, <2>1, <2>3, <2>4
  <1>7. ASSUME NEW a \in Made, RetireIntent(a) PROVE BindingsStand'
    <2>1. /\ UNCHANGED <<claims, claimSeq, attemptSeq>>
          /\ attempts' = [attempts EXCEPT ![a].status = "retired"]
      BY <1>7 DEF RetireIntent
    <2>2. \A x \in Made : attempts[x].status \in UNENDED => attempts'[x].status \in UNENDED
      BY <1>0, <2>1 DEF UNENDED, AttemptRow
    <2> QED
      BY <1>1, <2>1, <2>2
  <1>8. ASSUME NEW a \in Made, LateReport(d, a) \/ LapseAttempt(a) PROVE BindingsStand'
    <2>1. /\ UNCHANGED <<claims, claimSeq, attemptSeq>>
          /\ \/ attempts' = [attempts EXCEPT ![a].quiet = TRUE]
             \/ attempts' = [attempts EXCEPT ![a].lapsed = TRUE]
      BY <1>8 DEF LateReport, LapseAttempt
    <2>2. \A x \in Made : attempts'[x].status = attempts[x].status
      BY <1>0, <2>1 DEF AttemptRow
    <2> QED
      BY <1>1, <2>1, <2>2
  <1>9. ASSUME NEW a \in Made, SetOwner(a, d), attempts[a].status \in ACTIVE, MoveClaims(a, d),
               attemptSeq' = attemptSeq
        PROVE  BindingsStand'
    <2>1. attempts' = [attempts EXCEPT ![a].owner = d, ![a].fence = @ + 1, ![a].lapsed = FALSE]
      BY <1>9 DEF SetOwner
    <2>2. \A x \in Made : attempts'[x].status = attempts[x].status
      BY <1>0, <2>1 DEF AttemptRow
    <2>3. /\ Lawful
          /\ \A c \in Claims' : \/ claims'[c].attempt = a
                                \/ c \in Claims /\ claims'[c].attempt = claims[c].attempt
      BY <1>9, MoveIsLawful
    <2>4. \A c \in Claims : claims'[c].status = "live" => claims[c].status = "live"
      BY <2>3 DEF Lawful
    <2>5. a \in Made'
      BY <1>9 DEF Made
    <2> QED
      BY <1>0, <1>9, <2>2, <2>3, <2>4, <2>5, BindingsFollow
  <1> QED
    BY <1>2, <1>4, <1>5, <1>6, <1>7, <1>8, <1>9

\* Work that settles or is abandoned ends its claims.
LEMMA EndingEndsBindings ==
    ASSUME IInv, NEW d \in Driver, NEW a \in Made,
           \/ \E good \in BOOLEAN : Settle(d, a, good)
           \/ \E kind \in {"confirmed_stopped", "unknown"} : AbandonExternalAttempt(d, a, kind)
    PROVE  BindingsStand'
  <1> DEFINE S == {c \in LiveClaims(claims) : claims[c].attempt = a}
  <1>1. /\ UNCHANGED <<claimSeq, attemptSeq>> /\ \A x \in Made \ {a} : attempts'[x] = attempts[x]
    <2>1. \A x \in Made : x \in DOMAIN attempts
      BY OwnershipAssumption DEF IInv, TypeOK, Made
    <2> QED
      BY <2>1 DEF Settle, AbandonExternalAttempt
  <1>2. \E T : /\ S \subseteq T /\ T \subseteq LiveClaims(claims)
               /\ claims' = [c \in ClaimId |-> IF c \in T THEN [claims[c] EXCEPT !.status = "released"]
                                               ELSE claims[c]]
    <2>1. CASE \E good \in BOOLEAN : Settle(d, a, good)
      <3>1. claims' = [c \in ClaimId |-> IF c \in S THEN [claims[c] EXCEPT !.status = "released"]
                                        ELSE claims[c]]
        BY <2>1 DEF Settle, ReleaseBound
      <3> QED
        BY <3>1
    <2>2. CASE \E kind \in {"confirmed_stopped", "unknown"} : AbandonExternalAttempt(d, a, kind)
      <3>1. claims' = [c \in ClaimId |-> IF c \in MovingClaims(a)
                                        THEN [claims[c] EXCEPT !.status = "released"]
                                        ELSE claims[c]]
        BY <2>2 DEF AbandonExternalAttempt
      <3>2. S \subseteq MovingClaims(a) /\ MovingClaims(a) \subseteq LiveClaims(claims)
        BY DEF MovingClaims
      <3> QED
        BY <3>1, <3>2
    <2> QED
      BY <2>1, <2>2
  <1>3. PICK T : /\ S \subseteq T /\ T \subseteq LiveClaims(claims)
                 /\ claims' = [c \in ClaimId |-> IF c \in T
                                                 THEN [claims[c] EXCEPT !.status = "released"]
                                                 ELSE claims[c]]
    BY <1>2
  <1>4. ASSUME NEW c \in Claims
        PROVE  /\ claims'[c].attempt = claims[c].attempt
               /\ claims'[c].status = "live" => /\ claims[c].status = "live"
                                               /\ claims[c].attempt # a
    <2>1. claims[c] \in ClaimRow /\ c \in ClaimId
      BY KnownClaims
    <2>2. CASE c \in T
      <3>1. claims'[c] = [claims[c] EXCEPT !.status = "released"]
        BY <1>3, <2>1, <2>2
      <3> QED
        BY <2>1, <3>1 DEF ClaimRow
    <2>3. CASE c \notin T
      <3>1. claims'[c] = claims[c]
        BY <1>3, <2>1, <2>3
      <3> QED
        BY <1>3, <2>3, <3>1 DEF LiveClaims
    <2> QED
      BY <2>2, <2>3
  <1> QED
    BY <1>1, <1>4, BindingsEnd

\* Every step leaves live claims bound to work that did not end.
LEMMA NextBindings == ASSUME IInv, [Next]_vars PROVE BindingsStand'
  <1>0. ClaimsType'
    BY NextIsLawful DEF Lawful
  <1>1. ASSUME UNCHANGED <<claims, claimSeq, attempts, attemptSeq>> PROVE BindingsStand'
    <2>1. attemptSeq \in Nat /\ Claims' = Claims
      BY <1>1, OwnershipAssumption DEF IInv, TypeOK, Claims
    <2> QED
      BY <1>1, <2>1, BindingsFollow
  <1>2. ASSUME NEW d \in Driver, DriverNext(d) PROVE BindingsStand'
    <2>1. CASE \/ Sweep
               \/ \E p \in Purpose, w \in Checkout \cup {NoCheckout} : ClaimNode(d, p, w)
               \/ \E c \in Claims : ReleaseClaim(d, c) \/ LapseClaim(c) \/ TakeOverClaim(d, c)
               \/ \E h \in Offers : AcceptClaim(d, h)
      BY <1>0, <2>1, LeasesKeepBindings
    <2>2. CASE \/ \E cs \in SUBSET Claims, as \in SUBSET Made : Heartbeat(d, cs, as)
               \/ \E kind \in Kinds, c \in Claims \cup {0} : Reserve(d, kind, c)
               \/ \E a \in Made, c \in Claims : ReplayReserve(d, a, c)
               \/ \E a \in Made, c \in Claims \cup {0} : ClaimLaunch(d, a, c)
               \/ \E a \in Made : RetireIntent(a) \/ LateReport(d, a) \/ LapseAttempt(a)
               \/ \E a \in Made : SetOwner(a, d) /\ attempts[a].status \in ACTIVE
                                  /\ MoveClaims(a, d) /\ attemptSeq' = attemptSeq
      BY <2>2, DispatchKeepsBindings
    <2>3. ASSUME NEW a \in Made, TakeOverAttempt(d, a) PROVE BindingsStand'
      BY <2>2, <2>3 DEF TakeOverAttempt
    <2>4. ASSUME NEW h \in Offers, AcceptAttempt(d, h) PROVE BindingsStand'
      <3>1. handoffs[h].id \in Made
        BY <2>4 DEF AcceptAttempt, IInv, OffersRefer
      <3> QED
        BY <2>2, <2>4, <3>1 DEF AcceptAttempt
    <2>5. ASSUME NEW a \in Made,
                 \/ \E good \in BOOLEAN : Settle(d, a, good)
                 \/ \E kind \in {"confirmed_stopped", "unknown"} : AbandonExternalAttempt(d, a, kind)
          PROVE  BindingsStand'
      BY <2>5, EndingEndsBindings
    <2>6. CASE \/ \E to \in Driver \ {d}, a \in Made : OfferAttempt(d, to, a)
               \/ \E to \in Driver \ {d}, c \in Claims : OfferClaim(d, to, c)
               \/ \E h \in Offers : CloseOffer(d, h)
               \/ ChangePresence(d)
      BY <1>1, <2>6 DEF OfferAttempt, OfferClaim, OfferHandoff, CloseOffer, ChangePresence
    <2> QED
      BY <1>2, <2>1, <2>2, <2>3, <2>4, <2>5, <2>6 DEF DriverNext
  <1>3. CASE \/ \E d \in Mortal \ gone : Vanish(d)
             \/ \E m \in Modes : SetClaimEnforcement(m)
             \/ \E h \in Offers : LapseOffer(h)
             \/ UNCHANGED vars
    BY <1>1, <1>3 DEF Vanish, SetClaimEnforcement, LapseOffer, vars
  <1>4. ASSUME NEW c \in Claims, LapseClaim(c) PROVE BindingsStand'
    <2>1. claims[c].driver \in Driver
      BY KnownClaims DEF ClaimRow
    <2> QED
      BY <1>0, <1>4, <2>1, LeasesKeepBindings
  <1>5. ASSUME NEW a \in Made, LapseAttempt(a) PROVE BindingsStand'
    <2>1. attempts[a].owner \in Driver
      BY DEF IInv, TypeOK, AttemptRow
    <2> QED
      BY <1>5, <2>1, DispatchKeepsBindings
  <1> QED
    BY <1>2, <1>3, <1>4, <1>5 DEF Next, TimeNext

-----------------------------------------------------------------------------
(* Theorems *)

\* Presence and policy keep their types.
LEMMA PolicyTypes ==
    ASSUME IInv, [Next]_vars
    PROVE  /\ offline' \subseteq Driver /\ gone' \subseteq Driver
           /\ candidate' \in BOOLEAN /\ enforced' \in BOOLEAN
  <1> DEFINE Goal == /\ offline' \subseteq Driver /\ gone' \subseteq Driver
                     /\ candidate' \in BOOLEAN /\ enforced' \in BOOLEAN
  <1>0. /\ offline \subseteq Driver /\ gone \subseteq Driver
        /\ candidate \in BOOLEAN /\ enforced \in BOOLEAN
    BY DEF IInv, TypeOK
  <1>1. ASSUME offline' \subseteq offline, candidate' \in {candidate, TRUE, FALSE},
               UNCHANGED <<gone, enforced>>
        PROVE  Goal
    BY <1>0, <1>1
  <1>2. ASSUME NEW d \in Driver, DriverNext(d) PROVE Goal
    <2>1. CASE ChangePresence(d)
      BY <1>0, <2>1 DEF ChangePresence
    <2>2. CASE \/ Sweep
               \/ \E p \in Purpose, w \in Checkout \cup {NoCheckout} : ClaimNode(d, p, w)
               \/ \E c \in Claims : ReleaseClaim(d, c)
               \/ \E cs \in SUBSET Claims, as \in SUBSET Made : Heartbeat(d, cs, as)
               \/ \E a \in Made, c \in Claims : ReplayReserve(d, a, c)
               \/ \E c \in Claims : TakeOverClaim(d, c)
      BY <1>1, <2>2 DEF Sweep, ClaimNode, ReleaseClaim, Heartbeat, ReplayReserve, TakeOverClaim,
                        MarkBack
    <2>3. CASE \/ \E kind \in Kinds, c \in Claims \cup {0} : Reserve(d, kind, c)
               \/ \E a \in Made, c \in Claims \cup {0} : ClaimLaunch(d, a, c)
               \/ \E a \in Made : RetireIntent(a)
               \/ \E a \in Made, good \in BOOLEAN : Settle(d, a, good)
               \/ \E a \in Made : LateReport(d, a)
      BY <1>1, <2>3 DEF Reserve, ClaimLaunch, RetireIntent, Settle, LateReport, MarkBack
    <2>4. CASE \/ \E a \in Made, kind \in {"confirmed_stopped", "unknown"} :
                     AbandonExternalAttempt(d, a, kind)
               \/ \E a \in Made : TakeOverAttempt(d, a)
               \/ \E to \in Driver \ {d}, a \in Made : OfferAttempt(d, to, a)
               \/ \E to \in Driver \ {d}, c \in Claims : OfferClaim(d, to, c)
               \/ \E h \in Offers : AcceptAttempt(d, h) \/ AcceptClaim(d, h) \/ CloseOffer(d, h)
      BY <1>1, <2>4 DEF AbandonExternalAttempt, TakeOverAttempt, OfferAttempt, OfferClaim,
                        OfferHandoff, AcceptAttempt, AcceptClaim, CloseOffer
    <2> QED
      BY <1>2, <2>1, <2>2, <2>3, <2>4 DEF DriverNext
  <1>3. CASE \/ TimeNext \/ UNCHANGED vars
    BY <1>1, <1>3 DEF TimeNext, LapseClaim, LapseAttempt, LapseOffer, vars
  <1>4. CASE \/ \E d \in Mortal \ gone : Vanish(d)
             \/ \E m \in Modes : SetClaimEnforcement(m)
    BY <1>0, <1>4, OwnershipAssumption DEF Vanish, SetClaimEnforcement
  <1> QED
    BY <1>2, <1>3, <1>4 DEF Next

\* The invariant is inductive.
LEMMA IInvNext == IInv /\ [Next]_vars => IInv'
  <1> SUFFICES ASSUME IInv, [Next]_vars PROVE IInv'
    OBVIOUS
  <1>1. Lawful /\ AttemptsAdvance /\ OffersAdvance /\ BindingsStand'
    BY NextIsLawful, NextAttempts, NextOffers, NextBindings
  <1>2. claimSeq' \in Nat /\ claimSeq <= claimSeq' /\ OneHolder' /\ HolderHasNewestFence'
    BY <1>1, OwnershipAssumption DEF Lawful, ClaimsType
  <1>3. OffersRefer' /\ OffersAreFenced'
    BY <1>1, <1>2, OffersStand
  <1>4. BoundClaimsEndWithAttempt'
    BY <1>1 DEF BindingsStand, UNENDED, BoundClaimsEndWithAttempt, LiveClaims
  <1>5. attemptSeq' \in 0..MaxAttempts /\ handoffSeq' \in 0..MaxHandoffs
    BY <1>1, OwnershipAssumption DEF AttemptsAdvance, OffersAdvance, IInv, TypeOK
  <1>6. TypeOK'
    BY <1>1, <1>5, PolicyTypes
       DEF TypeOK, Lawful, ClaimsType, BindingsStand, AttemptsAdvance, OffersAdvance, ClaimId
  <1> QED
    BY <1>2, <1>3, <1>4, <1>6 DEF IInv

\* The invariant holds of every reachable state.
LEMMA Invariance == Spec => []IInv
  <1> QED
    BY IInvInit, IInvNext, PTL DEF Spec

\* Every row of the three tables always has its columns' types, a claim's
\* attempt_id names an attempt there is, and rows exist up to each last id.
THEOREM OwnershipTypes == Spec => []TypeOK
  <1>1. IInv => TypeOK
    BY DEF IInv
  <1> QED
    BY <1>1, Invariance, PTL

\* The operations' own checks keep the node to one live implement or plan claim,
\* over any number of drivers, claims and lapses, so the partial unique index
\* state_node_claims_one_exclusive never has to refuse an insert.
THEOREM ExclusiveHolderIsUnique == Spec => []OneExclusiveHolder
  <1>1. IInv => OneExclusiveHolder
    <2> SUFFICES ASSUME IInv PROVE OneExclusiveHolder
      OBVIOUS
    <2>1. IsFiniteSet(Claims)
      <3>1. claimSeq \in Int
        BY DEF IInv, TypeOK
      <3> QED
        BY <3>1, FS_Interval DEF Claims
    <2>2. IsFiniteSet(Exclusive(claims))
      <3>1. Exclusive(claims) \subseteq Claims
        BY DEF Exclusive, LiveClaims
      <3> QED
        BY <2>1, <3>1, FS_Subset
    <2> QED
      BY <2>2, AtMostOne DEF IInv, OneHolder, OneExclusiveHolder
  <1> QED
    BY <1>1, Invariance, PTL

\* No two claims of the node ever share a fence, and its live exclusive holder
\* has the newest fence of all its exclusive claims: whoever lost the node holds
\* an older one.
THEOREM FencesOrderHolders == Spec => []HolderHasNewestFence
  <1>1. IInv => HolderHasNewestFence
    BY DEF IInv
  <1> QED
    BY <1>1, Invariance, PTL

\* An accepted offer's fence is spent, and one whose fence is still the attempt's
\* was made by its present owner: a late accept takes it from nobody else.
THEOREM OffersMoveOwnershipOnce == Spec => []OffersAreFenced
  <1>1. IInv => OffersAreFenced
    BY DEF IInv
  <1> QED
    BY <1>1, Invariance, PTL

\* No live claim is left bound to an attempt that settled or was abandoned,
\* through whichever takeovers and handoffs it came.
THEOREM ClaimsEndWithTheirAttempt == Spec => []BoundClaimsEndWithAttempt
  <1>1. IInv => BoundClaimsEndWithAttempt
    BY DEF IInv
  <1> QED
    BY <1>1, Invariance, PTL

\* A claim that is no longer live never changes again.
THEOREM EndedClaimsNeverReturn == Spec => EndedClaimsStayEnded
  <1>1. IInv /\ [Next]_vars
        => [\A c \in Claims : claims[c].status # "live" => claims'[c] = claims[c]]_vars
    BY NextIsLawful DEF Lawful
  <1> QED
    BY <1>1, Invariance, PTL DEF Spec, EndedClaimsStayEnded

=============================================================================
