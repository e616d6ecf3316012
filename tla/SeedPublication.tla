-------------------------- MODULE SeedPublication --------------------------
(***************************************************************************)
(* Publishing a run's seed files as one generation                         *)
(* (core/seed_publication.py): the directory <config>/_seed of one project *)
(* and config, the launchers that publish into it, the operator's          *)
(* adopt_legacy_seed, and the runs that pass the readiness gate and then    *)
(* resolve their inputs one path at a time.                                *)
(*                                                                         *)
(* An action is one filesystem step.  A generation is the function from    *)
(* file names to contents (the review input bundle recorded in the marker  *)
(* is one more entry of it), and the marker lists its names.  A publisher  *)
(* may crash at any step; its staging directory is then left behind, where *)
(* no reader looks.                                                        *)
(***************************************************************************)
EXTENDS Naturals

CONSTANTS
    Name,           \* seed file names
    SeedFile,       \* the file the config's graph reads
    Content,        \* nonempty file contents
    Empty,          \* a blank file
    Publisher,      \* launches of this project and config
    Reader,         \* runs resolving their context from the seed
    Generation,     \* what launches publish
    Legacy          \* unpublished directories left by earlier versions

ASSUME SeedAssumption ==
    /\ SeedFile \in Name
    /\ Empty \notin Content
    /\ \A g \in Generation \cup Legacy :
          \E names \in SUBSET Name : g \in [names -> Content \cup {Empty}]
    /\ \A g \in Generation : DOMAIN g # {}

VARIABLES
    seed,       \* _seed: does it exist, its files, and the marker
    want,       \* per publisher: the generation it publishes
    pub,        \* per publisher: its next step
    staged,     \* per publisher: the files of its staging directory
    adopter,    \* the operator's migration: its next step
    listed,     \* the names the migration found
    reader,     \* per reader: its next step
    names,      \* per reader: the names the gate read from the marker
    checked,    \* per reader: the names the gate found present and not blank
    got         \* per reader: what it resolved so far

vars == <<seed, want, pub, staged, adopter, listed, reader, names, checked, got>>

NoFiles == <<>>

Absent == [exists |-> FALSE, files |-> NoFiles, marked |-> FALSE, listing |-> {}]
Unpublished(g) == [exists |-> TRUE, files |-> g, marked |-> FALSE, listing |-> {}]
Published(g) == [exists |-> TRUE, files |-> g, marked |-> TRUE, listing |-> DOMAIN g]

Set(f, x, v) == [y \in DOMAIN f \cup {x} |-> IF y = x THEN v ELSE f[y]]

-----------------------------------------------------------------------------
(* publish_seeds *)

Step(p, from, to) == pub[p] = from /\ pub' = [pub EXCEPT ![p] = to]

\* What a generation already published means for the publisher of g.
Verdict(g) == IF seed.files = g THEN "ok" ELSE "refused"

\* _published_files, at the start.
FindExisting(p) ==
    /\ Step(p, "start", IF seed.marked THEN Verdict(want[p]) ELSE "probe")
    /\ UNCHANGED <<seed, want, staged, adopter, listed, reader, names, checked, got>>

\* directory.exists() and any(iterdir()): refuse unpublished content.
Probe(p) ==
    /\ Step(p, "probe", IF seed.files # NoFiles THEN "refused" ELSE "stage")
    /\ UNCHANGED <<seed, want, staged, adopter, listed, reader, names, checked, got>>

\* One _atomic_write into the staging directory; the marker comes last.
StageFile(p, n) ==
    /\ pub[p] = "stage"
    /\ n \in DOMAIN want[p] \ DOMAIN staged[p]
    /\ staged' = [staged EXCEPT ![p] = Set(@, n, want[p][n])]
    /\ UNCHANGED <<seed, want, pub, adopter, listed, reader, names, checked, got>>

StageMarker(p) ==
    /\ DOMAIN staged[p] = DOMAIN want[p]
    /\ Step(p, "stage", "clear")
    /\ UNCHANGED <<seed, want, staged, adopter, listed, reader, names, checked, got>>

\* Mutant of Clear: removes the directory with its content.
ClearTree(p) ==
    /\ Step(p, "clear", "rename")
    /\ seed' = Absent
    /\ UNCHANGED <<want, staged, adopter, listed, reader, names, checked, got>>

\* rmdir: an empty directory goes, any other stays.
Clear(p) ==
    /\ Step(p, "clear", "rename")
    /\ seed' = IF seed.files = NoFiles /\ ~seed.marked THEN Absent ELSE seed
    /\ UNCHANGED <<want, staged, adopter, listed, reader, names, checked, got>>

\* Mutant of Rename: replaces whatever is there.
RenameOver(p) ==
    /\ Step(p, "rename", "ok")
    /\ seed' = Published(staged[p])
    /\ UNCHANGED <<want, staged, adopter, listed, reader, names, checked, got>>

\* os.rename onto an absent or empty directory.
Rename(p) ==
    /\ Step(p, "rename", "ok")
    /\ seed.files = NoFiles /\ ~seed.marked
    /\ seed' = Published(staged[p])
    /\ UNCHANGED <<want, staged, adopter, listed, reader, names, checked, got>>

\* os.rename raises: somebody won the race, or the filesystem failed.
RenameFails(p) ==
    /\ Step(p, "rename", "lost")
    /\ staged' = [staged EXCEPT ![p] = NoFiles]
    /\ UNCHANGED <<seed, want, adopter, listed, reader, names, checked, got>>

\* Mutant of Lost: the loser reports success whatever was published.
LostQuietly(p) ==
    /\ Step(p, "lost", IF seed.marked THEN "ok" ELSE "refused")
    /\ UNCHANGED <<seed, want, staged, adopter, listed, reader, names, checked, got>>

\* The loser decides as a sequential caller would.
Lost(p) ==
    /\ Step(p, "lost", IF seed.marked THEN Verdict(want[p]) ELSE "refused")
    /\ UNCHANGED <<seed, want, staged, adopter, listed, reader, names, checked, got>>

Crash(p) ==
    /\ pub[p] \notin {"ok", "refused", "crashed"}
    /\ pub' = [pub EXCEPT ![p] = "crashed"]
    /\ UNCHANGED <<seed, want, staged, adopter, listed, reader, names, checked, got>>

-----------------------------------------------------------------------------
(* adopt_legacy_seed, run once against a workspace seeded by an earlier    *)
(* version                                                                 *)

\* No marker, a seed file that is not blank, and the names found.  The checks are
\* one step: the migration is run by hand while nothing launches here.
AdoptList ==
    /\ adopter = "start"
    /\ ~seed.marked
    /\ SeedFile \in DOMAIN seed.files /\ seed.files[SeedFile] # Empty
    /\ adopter' = "write"
    /\ listed' = DOMAIN seed.files
    /\ UNCHANGED <<seed, want, pub, staged, reader, names, checked, got>>

\* Writes the marker and nothing else.
AdoptWrite ==
    /\ adopter = "write"
    /\ adopter' = "done"
    /\ seed' = [seed EXCEPT !.marked = TRUE, !.listing = listed]
    /\ UNCHANGED <<want, pub, staged, listed, reader, names, checked, got>>

-----------------------------------------------------------------------------
(* seed_is_published, then the context resolver (external), path by path *)

\* The marker lists the file the graph reads.
GateMarker(r) ==
    /\ reader[r] = "gate"
    /\ seed.marked /\ SeedFile \in seed.listing
    /\ names' = [names EXCEPT ![r] = seed.listing]
    /\ reader' = [reader EXCEPT ![r] = "check"]
    /\ UNCHANGED <<seed, want, pub, staged, adopter, listed, checked, got>>

\* Every listed file is there and not blank, or the gate refuses for now.
GateFile(r, n) ==
    /\ reader[r] = "check"
    /\ n \in names[r] \ checked[r]
    /\ IF n \in DOMAIN seed.files /\ seed.files[n] # Empty
       THEN /\ checked' = [checked EXCEPT ![r] = @ \cup {n}]
            /\ UNCHANGED reader
       ELSE /\ checked' = [checked EXCEPT ![r] = {}]
            /\ reader' = [reader EXCEPT ![r] = "gate"]
    /\ UNCHANGED <<seed, want, pub, staged, adopter, listed, names, got>>

GateOpens(r) ==
    /\ reader[r] = "check" /\ checked[r] = names[r]
    /\ reader' = [reader EXCEPT ![r] = "read"]
    /\ UNCHANGED <<seed, want, pub, staged, adopter, listed, names, checked, got>>

\* The resolver reads one path; a missing one resolves to nothing.
Resolve(r, n) ==
    /\ reader[r] = "read"
    /\ n \in names[r] \ DOMAIN got[r]
    /\ got' = [got EXCEPT ![r] =
                  Set(@, n, IF n \in DOMAIN seed.files THEN seed.files[n] ELSE Empty)]
    /\ UNCHANGED <<seed, want, pub, staged, adopter, listed, reader, names, checked>>

-----------------------------------------------------------------------------
PublishNext(p) ==
    \/ FindExisting(p) \/ Probe(p)
    \/ \E n \in Name : StageFile(p, n)
    \/ StageMarker(p) \/ Clear(p) \/ Rename(p) \/ RenameFails(p) \/ Lost(p)
    \/ Crash(p)

ReadNext(r) ==
    \/ GateMarker(r)
    \/ \E n \in Name : GateFile(r, n)
    \/ GateOpens(r)
    \/ \E n \in Name : Resolve(r, n)

Next ==
    \/ \E p \in Publisher : PublishNext(p)
    \/ AdoptList \/ AdoptWrite
    \/ \E r \in Reader : ReadNext(r)

Init ==
    /\ seed \in {Absent, Unpublished(NoFiles)} \cup {Unpublished(g) : g \in Legacy}
    /\ want \in [Publisher -> Generation]
    /\ pub = [p \in Publisher |-> "start"]
    /\ staged = [p \in Publisher |-> NoFiles]
    /\ adopter = "start" /\ listed = {}
    /\ reader = [r \in Reader |-> "gate"]
    /\ names = [r \in Reader |-> {}]
    /\ checked = [r \in Reader |-> {}]
    /\ got = [r \in Reader |-> NoFiles]

Spec == Init /\ [][Next]_vars

-----------------------------------------------------------------------------
\* A run that passed the gate resolves one whole generation: every input it has
\* read belongs to the content published now, no input is blank or missing, and
\* the gate asked for all of it.  This is what "immutable" buys a reader that
\* opens one path at a time.
ReaderSeesOneGeneration ==
    \A r \in Reader : reader[r] = "read" =>
        /\ seed.marked /\ names[r] = DOMAIN seed.files
        /\ \A n \in DOMAIN got[r] : got[r][n] = seed.files[n] /\ got[r][n] # Empty

\* What is published is complete and never changes: not its files, not the list
\* of them, whoever publishes, crashes or migrates afterwards.
PublishedIsImmutable ==
    [][seed.marked => seed' = seed]_vars

\* A publication that reports success is the one readers get; a publisher of
\* anything else is told so.
SuccessMeansPublished ==
    \A p \in Publisher : pub[p] = "ok" => seed = Published(want[p])

=============================================================================
