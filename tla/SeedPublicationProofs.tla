----------------------- MODULE SeedPublicationProofs -----------------------
(***************************************************************************)
(* Theorems about SeedPublication, for any file names, contents, publishers*)
(* and readers.                                                            *)
(***************************************************************************)
EXTENDS SeedPublication, TLAPS

-----------------------------------------------------------------------------
(* The invariant *)

\* Directories of seed files.
Files == UNION {[N -> Content \cup {Empty}] : N \in SUBSET Name}

Steps == {"start", "probe", "stage", "clear", "rename", "lost", "ok", "refused", "crashed"}

Types ==
    /\ seed \in [exists : BOOLEAN, files : Files, marked : BOOLEAN, listing : SUBSET Name]
    /\ want \in [Publisher -> Generation] /\ pub \in [Publisher -> Steps]
    /\ staged \in [Publisher -> Files]
    /\ reader \in [Reader -> {"gate", "check", "read"}]
    /\ names \in [Reader -> SUBSET Name] /\ checked \in [Reader -> SUBSET Name]
    /\ DOMAIN got = Reader

\* Files are in a directory, and the marker lists them all.
Whole ==
    /\ seed.files # NoFiles => seed.exists
    /\ seed.marked => seed.exists /\ seed.listing = DOMAIN seed.files

\* A staging directory holds part of its generation, and all of it before the
\* rename; a publisher that succeeded sees its own generation.
Staging ==
    \A p \in Publisher :
        /\ DOMAIN staged[p] \subseteq DOMAIN want[p]
        /\ \A n \in DOMAIN staged[p] : staged[p][n] = want[p][n]
        /\ pub[p] \in {"clear", "rename"} => staged[p] = want[p]
        /\ pub[p] = "ok" => seed = Published(want[p])

\* Between its two steps the migration's directory is not empty, so no publisher
\* takes its place, and its list stays true.
Adopting ==
    adopter = "write" => ~seed.marked /\ listed = DOMAIN seed.files /\ SeedFile \in listed

\* Past the marker a reader looks at a published directory, and what it checked
\* and resolved is in it.
Reading ==
    \A r \in Reader :
        /\ reader[r] # "gate" => seed.marked /\ names[r] = DOMAIN seed.files
        /\ \A n \in checked[r] : reader[r] # "gate" /\ n \in names[r] /\ seed.files[n] # Empty
        /\ reader[r] = "read" => checked[r] = names[r]
        /\ \A n \in DOMAIN got[r] :
              reader[r] = "read" /\ n \in names[r] /\ got[r][n] = seed.files[n]

SInv == Types /\ Whole /\ Staging /\ Adopting /\ Reading

\* A directory and the functions on it.
LEMMA FilesAre ==
    ASSUME NEW f \in Files
    PROVE  /\ DOMAIN f \subseteq Name /\ f = [n \in DOMAIN f |-> f[n]]
           /\ \A n \in DOMAIN f : f[n] \in Content \cup {Empty}
  BY DEF Files

\* The empty directory.
LEMMA NoFilesAre == NoFiles \in Files /\ DOMAIN NoFiles = {}
  <1>1. DOMAIN NoFiles = {}
    BY DEF NoFiles
  <1>2. NoFiles \in [{} -> Content \cup {Empty}]
    BY DEF NoFiles
  <1> QED
    BY <1>1, <1>2 DEF Files

\* One more file.
LEMMA SetIs ==
    ASSUME NEW f \in Files, NEW n \in Name, NEW v \in Content \cup {Empty}
    PROVE  /\ Set(f, n, v) \in Files /\ DOMAIN Set(f, n, v) = DOMAIN f \cup {n}
           /\ \A x \in DOMAIN f \cup {n} : Set(f, n, v)[x] = IF x = n THEN v ELSE f[x]
  <1>1. DOMAIN f \cup {n} \in SUBSET Name
    BY FilesAre
  <1>2. Set(f, n, v) \in [DOMAIN f \cup {n} -> Content \cup {Empty}]
    BY FilesAre DEF Set
  <1> QED
    BY <1>1, <1>2 DEF Files, Set

\* What launches publish are directories.
LEMMA GenerationsAre == \A g \in Generation \cup Legacy : g \in Files
  BY SeedAssumption DEF Files

\* The invariant holds before anything is published.
LEMMA SInvInit == Init => SInv
  <1> SUFFICES ASSUME Init PROVE SInv
    OBVIOUS
  <1>1. PICK f \in Files : seed = Absent \/ seed = Unpublished(f)
    BY NoFilesAre, GenerationsAre DEF Init
  <1>2. seed \in [exists : BOOLEAN, files : Files, marked : BOOLEAN, listing : SUBSET Name]
    <2>1. /\ Absent \in [exists : BOOLEAN, files : Files, marked : BOOLEAN, listing : SUBSET Name]
          /\ Unpublished(f) \in [exists : BOOLEAN, files : Files, marked : BOOLEAN, listing : SUBSET Name]
      BY NoFilesAre DEF Absent, Unpublished
    <2> QED
      BY <1>1, <2>1
  <1>3. ~seed.marked /\ (seed.files # NoFiles => seed.exists)
    BY <1>1 DEF Absent, Unpublished
  <1>4. Types
    BY <1>2, NoFilesAre DEF Init, Types, Steps
  <1> QED
    BY <1>3, <1>4, NoFilesAre DEF Init, SInv, Whole, Staging, Adopting, Reading

-----------------------------------------------------------------------------
(* Steps *)

\* What is published by a publisher.
LEMMA PublishedIs ==
    ASSUME NEW f \in Files
    PROVE  /\ Published(f) \in [exists : BOOLEAN, files : Files, marked : BOOLEAN, listing : SUBSET Name]
           /\ Published(f).exists /\ Published(f).marked /\ Published(f).files = f
           /\ Published(f).listing = DOMAIN f
  BY FilesAre DEF Published

\* A marked directory is the publication of its files.
LEMMA MarkedIs == ASSUME SInv, seed.marked PROVE seed = Published(seed.files)
  <1>1. seed = [exists |-> seed.exists, files |-> seed.files, marked |-> seed.marked,
                listing |-> seed.listing]
    BY DEF SInv, Types
  <1>2. seed.exists = TRUE /\ seed.marked = TRUE /\ seed.listing = DOMAIN seed.files
    BY DEF SInv, Types, Whole
  <1> QED
    BY <1>1, <1>2 DEF Published

\* A step that leaves a filled or marked directory alone does not disturb the
\* migration or the readers.
LEMMA OthersStand ==
    ASSUME SInv, UNCHANGED <<adopter, listed, reader, names, checked, got>>,
           seed' = seed \/ (~seed.marked /\ seed.files = NoFiles)
    PROVE  Adopting' /\ Reading'
  <1>1. CASE seed' = seed
    BY <1>1 DEF SInv, Adopting, Reading
  <1>2. CASE ~seed.marked /\ seed.files = NoFiles
    <2>1. adopter # "write"
      BY <1>2, NoFilesAre DEF SInv, Adopting
    <2>2. \A r \in Reader : reader[r] = "gate" /\ checked[r] = {} /\ DOMAIN got[r] = {}
      BY <1>2 DEF SInv, Reading, Types
    <2> QED
      BY <2>1, <2>2 DEF Adopting, Reading
  <1> QED
    BY <1>1, <1>2

\* A publisher's step.
LEMMA PublishStep ==
    ASSUME SInv, NEW p \in Publisher, PublishNext(p)
    PROVE  SInv' /\ (seed.marked => seed' = seed)
  <1> DEFINE R == [exists : BOOLEAN, files : Files, marked : BOOLEAN, listing : SUBSET Name]
  <1>0. /\ seed \in R /\ want \in [Publisher -> Generation] /\ pub \in [Publisher -> Steps]
        /\ staged \in [Publisher -> Files] /\ Generation \subseteq Files
    BY GenerationsAre DEF SInv, Types
  <1>1. ASSUME seed' = seed, UNCHANGED <<want, staged, adopter, listed, reader, names, checked, got>>,
               NEW st \in Steps, pub' = [pub EXCEPT ![p] = st],
               st \in {"clear", "rename"} => staged[p] = want[p],
               st = "ok" => seed = Published(want[p])
        PROVE  SInv' /\ (seed.marked => seed' = seed)
    <2>1. Types' /\ Whole'
      BY <1>0, <1>1 DEF SInv, Types, Whole
    <2>2. Staging'
      BY <1>0, <1>1 DEF SInv, Staging
    <2>3. Adopting' /\ Reading'
      BY <1>1, OthersStand
    <2> QED
      BY <1>1, <2>1, <2>2, <2>3 DEF SInv
  <1>2. Verdict(want[p]) \in Steps /\ (seed.marked /\ Verdict(want[p]) = "ok" => seed = Published(want[p]))
    BY MarkedIs DEF Verdict, Steps
  <1>3. CASE FindExisting(p)
    <2> DEFINE st == IF seed.marked THEN Verdict(want[p]) ELSE "probe"
    <2>1. /\ st \in Steps /\ st \notin {"clear", "rename"}
          /\ st = "ok" => seed = Published(want[p])
      BY <1>2 DEF Steps, Verdict
    <2>2. /\ pub' = [pub EXCEPT ![p] = st]
          /\ UNCHANGED <<seed, want, staged, adopter, listed, reader, names, checked, got>>
      BY <1>3 DEF FindExisting, Step
    <2> HIDE DEF st
    <2> QED
      BY <1>1, <2>1, <2>2
  <1>4. CASE Probe(p)
    <2> DEFINE st == IF seed.files # NoFiles THEN "refused" ELSE "stage"
    <2>1. st \in Steps /\ st \notin {"clear", "rename", "ok"}
      BY DEF Steps
    <2>2. /\ pub' = [pub EXCEPT ![p] = st]
          /\ UNCHANGED <<seed, want, staged, adopter, listed, reader, names, checked, got>>
      BY <1>4 DEF Probe, Step
    <2> HIDE DEF st
    <2> QED
      BY <1>1, <2>1, <2>2
  <1>5. ASSUME NEW n \in Name, StageFile(p, n) PROVE SInv' /\ (seed.marked => seed' = seed)
    <2>1. /\ UNCHANGED <<seed, want, pub, adopter, listed, reader, names, checked, got>>
          /\ staged' = [staged EXCEPT ![p] = Set(staged[p], n, want[p][n])]
          /\ n \in DOMAIN want[p] /\ pub[p] = "stage"
      BY <1>5 DEF StageFile
    <2>2. want[p][n] \in Content \cup {Empty} /\ staged[p] \in Files
      BY <1>0, <2>1, FilesAre
    <2>3. /\ Set(staged[p], n, want[p][n]) \in Files
          /\ DOMAIN Set(staged[p], n, want[p][n]) = DOMAIN staged[p] \cup {n}
          /\ \A x \in DOMAIN staged[p] \cup {n} :
                Set(staged[p], n, want[p][n])[x] = IF x = n THEN want[p][n] ELSE staged[p][x]
      <3> DEFINE f == staged[p]
                 v == want[p][n]
      <3> HIDE DEF f, v
      <3>1. f \in Files /\ v \in Content \cup {Empty}
        BY <2>2 DEF f, v
      <3>2. /\ Set(f, n, v) \in Files /\ DOMAIN Set(f, n, v) = DOMAIN f \cup {n}
            /\ \A x \in DOMAIN f \cup {n} : Set(f, n, v)[x] = IF x = n THEN v ELSE f[x]
        BY <3>1, SetIs
      <3> QED
        BY <3>2 DEF f, v
    <2>4. Types' /\ Whole'
      BY <1>0, <2>1, <2>3 DEF SInv, Types, Whole
    <2>5. Staging'
      BY <1>0, <2>1, <2>3 DEF SInv, Staging
    <2>6. Adopting' /\ Reading'
      BY <2>1, OthersStand
    <2> QED
      BY <2>1, <2>4, <2>5, <2>6 DEF SInv
  <1>6. CASE StageMarker(p)
    <2>1. /\ UNCHANGED <<seed, want, staged, adopter, listed, reader, names, checked, got>>
          /\ pub' = [pub EXCEPT ![p] = "clear"] /\ DOMAIN staged[p] = DOMAIN want[p]
      BY <1>6 DEF StageMarker, Step
    <2>2. staged[p] = want[p]
      <3>1. staged[p] \in Files /\ want[p] \in Files
        BY <1>0
      <3>2. \A n \in DOMAIN want[p] : staged[p][n] = want[p][n]
        BY <2>1 DEF SInv, Staging
      <3>3. /\ staged[p] = [n \in DOMAIN staged[p] |-> staged[p][n]]
            /\ want[p] = [n \in DOMAIN want[p] |-> want[p][n]]
        BY <3>1, FilesAre
      <3> QED
        BY <2>1, <3>2, <3>3
    <2>3. "clear" \in Steps
      BY DEF Steps
    <2> QED
      BY <1>1, <2>1, <2>2, <2>3
  <1>7. CASE Clear(p)
    <2>1. /\ UNCHANGED <<want, staged, adopter, listed, reader, names, checked, got>>
          /\ pub[p] = "clear" /\ pub' = [pub EXCEPT ![p] = "rename"]
          /\ seed' = IF seed.files = NoFiles /\ ~seed.marked THEN Absent ELSE seed
      BY <1>7 DEF Clear, Step
    <2>2. Absent \in R /\ Absent.files = NoFiles /\ ~Absent.marked
      BY NoFilesAre DEF Absent
    <2>3. Types' /\ Whole'
      BY <1>0, <2>1, <2>2 DEF SInv, Types, Whole, Steps
    <2>4. \A q \in Publisher : pub[q] = "ok" => seed.marked
      <3>1. \A q \in Publisher : want[q] \in Files
        BY <1>0
      <3> QED
        BY <3>1, PublishedIs DEF SInv, Staging
    <2>5. Staging'
      BY <1>0, <2>1, <2>4 DEF SInv, Staging
    <2>6. Adopting' /\ Reading'
      BY <2>1, OthersStand
    <2> QED
      BY <2>1, <2>3, <2>5, <2>6 DEF SInv
  <1>8. CASE Rename(p)
    <2>1. /\ UNCHANGED <<want, staged, adopter, listed, reader, names, checked, got>>
          /\ pub[p] = "rename" /\ pub' = [pub EXCEPT ![p] = "ok"]
          /\ seed.files = NoFiles /\ ~seed.marked /\ seed' = Published(staged[p])
      BY <1>8 DEF Rename, Step
    <2>2. staged[p] = want[p] /\ staged[p] \in Files
      BY <1>0, <2>1 DEF SInv, Staging
    <2>3. seed' \in R /\ seed'.exists /\ seed'.marked /\ seed'.listing = DOMAIN seed'.files
      BY <2>1, <2>2, PublishedIs
    <2>4. Types' /\ Whole'
      BY <1>0, <2>1, <2>3 DEF SInv, Types, Whole, Steps
    <2>5. \A q \in Publisher : pub[q] # "ok"
      <3>1. \A q \in Publisher : want[q] \in Files
        BY <1>0
      <3> QED
        BY <2>1, <3>1, PublishedIs DEF SInv, Staging
    <2>6. Staging'
      BY <1>0, <2>1, <2>2, <2>5 DEF SInv, Staging
    <2>7. Adopting' /\ Reading'
      BY <2>1, OthersStand
    <2> QED
      BY <2>1, <2>4, <2>6, <2>7 DEF SInv
  <1>9. CASE RenameFails(p)
    <2>1. /\ UNCHANGED <<seed, want, adopter, listed, reader, names, checked, got>>
          /\ pub' = [pub EXCEPT ![p] = "lost"] /\ staged' = [staged EXCEPT ![p] = NoFiles]
      BY <1>9 DEF RenameFails, Step
    <2>2. Types' /\ Whole'
      BY <1>0, <2>1, NoFilesAre DEF SInv, Types, Whole, Steps
    <2>3. Staging'
      BY <1>0, <2>1, NoFilesAre DEF SInv, Staging
    <2>4. Adopting' /\ Reading'
      BY <2>1, OthersStand
    <2> QED
      BY <2>1, <2>2, <2>3, <2>4 DEF SInv
  <1>10. CASE Lost(p)
    <2> DEFINE st == IF seed.marked THEN Verdict(want[p]) ELSE "refused"
    <2>1. /\ st \in Steps /\ st \notin {"clear", "rename"}
          /\ st = "ok" => seed = Published(want[p])
      BY <1>2 DEF Steps, Verdict
    <2>2. /\ pub' = [pub EXCEPT ![p] = st]
          /\ UNCHANGED <<seed, want, staged, adopter, listed, reader, names, checked, got>>
      BY <1>10 DEF Lost, Step
    <2> HIDE DEF st
    <2> QED
      BY <1>1, <2>1, <2>2
  <1>11. CASE Crash(p)
    <2>1. "crashed" \in Steps
      BY DEF Steps
    <2> QED
      BY <1>1, <1>11, <2>1 DEF Crash
  <1> QED
    BY <1>3, <1>4, <1>5, <1>6, <1>7, <1>8, <1>9, <1>10, <1>11 DEF PublishNext

\* The migration's steps.
LEMMA AdoptStep ==
    ASSUME SInv, AdoptList \/ AdoptWrite
    PROVE  SInv' /\ (seed.marked => seed' = seed)
  <1>1. CASE AdoptList
    <2>1. /\ UNCHANGED <<seed, want, pub, staged, reader, names, checked, got>>
          /\ ~seed.marked /\ SeedFile \in DOMAIN seed.files /\ listed' = DOMAIN seed.files
      BY <1>1 DEF AdoptList
    <2>2. Types' /\ Whole' /\ Staging' /\ Reading'
      BY <2>1 DEF SInv, Types, Whole, Staging, Reading
    <2>3. Adopting'
      BY <2>1 DEF Adopting
    <2> QED
      BY <2>1, <2>2, <2>3 DEF SInv
  <1>2. CASE AdoptWrite
    <2>1. /\ UNCHANGED <<want, pub, staged, reader, names, checked, got>>
          /\ adopter = "write" /\ adopter' = "done"
          /\ seed' = [seed EXCEPT !.marked = TRUE, !.listing = listed]
      BY <1>2 DEF AdoptWrite
    <2>2. ~seed.marked /\ listed = DOMAIN seed.files /\ seed.files # NoFiles
      BY <2>1, NoFilesAre DEF SInv, Adopting
    <2>3. seed.files \in Files /\ listed \subseteq Name
      BY <2>2, FilesAre DEF SInv, Types
    <2>4. /\ seed' \in [exists : BOOLEAN, files : Files, marked : BOOLEAN, listing : SUBSET Name]
          /\ seed'.files = seed.files /\ seed'.listing = listed /\ seed'.exists = seed.exists
      BY <2>1, <2>3 DEF SInv, Types
    <2>5. Types'
      BY <2>1, <2>4 DEF SInv, Types
    <2>6. Whole'
      BY <2>2, <2>4 DEF SInv, Whole
    <2>7. \A p \in Publisher : pub[p] # "ok"
      <3>1. \A p \in Publisher : want[p] \in Files
        BY GenerationsAre DEF SInv, Types
      <3> QED
        BY <2>2, <3>1, PublishedIs DEF SInv, Staging
    <2>8. Staging'
      BY <2>1, <2>7 DEF SInv, Staging
    <2>9. \A r \in Reader : reader[r] = "gate" /\ checked[r] = {} /\ DOMAIN got[r] = {}
      BY <2>2 DEF SInv, Reading, Types
    <2>10. Reading' /\ Adopting'
      BY <2>1, <2>9 DEF Reading, Adopting
    <2> QED
      BY <2>2, <2>5, <2>6, <2>8, <2>10 DEF SInv
  <1> QED
    BY <1>1, <1>2

\* A reader's step.
LEMMA ReadStep ==
    ASSUME SInv, NEW r \in Reader, ReadNext(r)
    PROVE  SInv' /\ seed' = seed
  <1>0. /\ reader \in [Reader -> {"gate", "check", "read"}] /\ names \in [Reader -> SUBSET Name]
        /\ checked \in [Reader -> SUBSET Name] /\ DOMAIN got = Reader
    BY DEF SInv, Types
  <1>1. UNCHANGED <<seed, want, pub, staged, adopter, listed>>
    BY DEF ReadNext, GateMarker, GateFile, GateOpens, Resolve
  <1>2. Whole' /\ Staging' /\ Adopting'
    BY <1>1 DEF SInv, Whole, Staging, Adopting
  <1>3. Types' /\ Reading'
    <2>1. CASE GateMarker(r)
      <3>1. /\ reader[r] = "gate" /\ seed.marked /\ names' = [names EXCEPT ![r] = seed.listing]
            /\ reader' = [reader EXCEPT ![r] = "check"] /\ UNCHANGED <<checked, got>>
        BY <2>1 DEF GateMarker
      <3>2. seed.listing = DOMAIN seed.files /\ seed.listing \subseteq Name
        BY <3>1 DEF SInv, Whole, Types
      <3>3. Types'
        BY <1>0, <1>1, <3>1, <3>2 DEF SInv, Types
      <3>4. checked[r] = {} /\ DOMAIN got[r] = {}
        BY <3>1 DEF SInv, Reading
      <3>5. Reading'
        BY <1>0, <1>1, <3>1, <3>2, <3>4 DEF SInv, Reading
      <3> QED
        BY <3>3, <3>5
    <2>2. ASSUME NEW n \in Name, GateFile(r, n) PROVE Types' /\ Reading'
      <3>1. /\ reader[r] = "check" /\ n \in names[r] /\ UNCHANGED <<names, got>>
            /\ DOMAIN got[r] = {}
        BY <2>2 DEF GateFile, SInv, Reading
      <3>2. CASE n \in DOMAIN seed.files /\ seed.files[n] # Empty
        <4>1. checked' = [checked EXCEPT ![r] = @ \cup {n}] /\ UNCHANGED reader
          BY <2>2, <3>2 DEF GateFile
        <4>2. Types'
          BY <1>0, <1>1, <3>1, <4>1 DEF SInv, Types
        <4>3. Reading'
          BY <1>0, <1>1, <3>1, <3>2, <4>1 DEF SInv, Reading
        <4> QED
          BY <4>2, <4>3
      <3>3. CASE ~(n \in DOMAIN seed.files /\ seed.files[n] # Empty)
        <4>1. checked' = [checked EXCEPT ![r] = {}] /\ reader' = [reader EXCEPT ![r] = "gate"]
          BY <2>2, <3>3 DEF GateFile
        <4>2. Types'
          BY <1>0, <1>1, <3>1, <4>1 DEF SInv, Types
        <4>3. Reading'
          BY <1>0, <1>1, <3>1, <4>1 DEF SInv, Reading
        <4> QED
          BY <4>2, <4>3
      <3> QED
        BY <3>2, <3>3
    <2>3. CASE GateOpens(r)
      <3>1. /\ reader[r] = "check" /\ checked[r] = names[r] /\ UNCHANGED <<names, checked, got>>
            /\ reader' = [reader EXCEPT ![r] = "read"]
        BY <2>3 DEF GateOpens
      <3>2. Types'
        BY <1>0, <1>1, <3>1 DEF SInv, Types
      <3>3. Reading'
        BY <1>0, <1>1, <3>1 DEF SInv, Reading
      <3> QED
        BY <3>2, <3>3
    <2>4. ASSUME NEW n \in Name, Resolve(r, n) PROVE Types' /\ Reading'
      <3> DEFINE v == IF n \in DOMAIN seed.files THEN seed.files[n] ELSE Empty
      <3>1. /\ reader[r] = "read" /\ n \in names[r] /\ UNCHANGED <<reader, names, checked>>
            /\ got' = [got EXCEPT ![r] = Set(got[r], n, v)]
        BY <2>4 DEF Resolve
      <3>2. v = seed.files[n]
        BY <3>1 DEF SInv, Reading
      <3> HIDE DEF v
      <3>3. Types'
        BY <1>0, <1>1, <3>1 DEF SInv, Types
      <3>4. /\ DOMAIN Set(got[r], n, v) = DOMAIN got[r] \cup {n}
            /\ \A x \in DOMAIN got[r] \cup {n} :
                  Set(got[r], n, v)[x] = IF x = n THEN v ELSE got[r][x]
        BY DEF Set
      <3>5. got'[r] = Set(got[r], n, v) /\ \A x \in Reader \ {r} : got'[x] = got[x]
        BY <1>0, <3>1
      <3>6. \A x \in DOMAIN got'[r] : n \in names[r] /\ x \in names[r] /\ got'[r][x] = seed.files[x]
        BY <3>1, <3>2, <3>4, <3>5 DEF SInv, Reading
      <3>7. Reading'
        BY <1>0, <1>1, <3>1, <3>5, <3>6 DEF SInv, Reading
      <3> QED
        BY <3>3, <3>7
    <2> QED
      BY <2>1, <2>2, <2>3, <2>4 DEF ReadNext
  <1> QED
    BY <1>1, <1>2, <1>3 DEF SInv

\* The invariant is inductive, and no step changes a published directory.
LEMMA SInvNext == SInv /\ [Next]_vars => SInv' /\ (seed.marked => seed' = seed)
  <1>1. ASSUME SInv, UNCHANGED vars PROVE SInv'
    BY <1>1 DEF vars, SInv, Types, Whole, Staging, Adopting, Reading
  <1> QED
    BY <1>1, PublishStep, AdoptStep, ReadStep DEF Next, vars

\* The invariant holds of every reachable state.
LEMMA Invariance == Spec => []SInv
  <1>1. SInv /\ [Next]_vars => SInv'
    BY SInvNext
  <1> QED
    BY SInvInit, <1>1, PTL DEF Spec

-----------------------------------------------------------------------------
(* Theorems *)

\* A run that passed seed_is_published resolves one whole generation, path by
\* path, whatever publishers, crashes and the migration do meanwhile.
THEOREM ReadersSeeOneGeneration == Spec => []ReaderSeesOneGeneration
  <1>1. SInv => ReaderSeesOneGeneration
    BY DEF SInv, Reading, ReaderSeesOneGeneration
  <1> QED
    BY <1>1, Invariance, PTL

\* publish_seeds reports success only to the publisher of what is there, also
\* when it lost the rename.
THEOREM SuccessIsHonest == Spec => []SuccessMeansPublished
  <1>1. SInv => SuccessMeansPublished
    BY DEF SInv, Staging, SuccessMeansPublished
  <1> QED
    BY <1>1, Invariance, PTL

\* Once the marker is there nothing changes the directory: the rename and the
\* rmdir spare it, and the migration's write finds the directory it listed.
THEOREM PublicationIsFinal == Spec => PublishedIsImmutable
  <1>1. SInv /\ [Next]_vars => [seed.marked => seed' = seed]_vars
    BY SInvNext
  <1> QED
    BY <1>1, Invariance, PTL DEF Spec, PublishedIsImmutable

=============================================================================
