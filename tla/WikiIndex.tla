------------------------------ MODULE WikiIndex ------------------------------
(***************************************************************************)
(* The wiki's indexer: one process that keeps the chunks of the workspace's *)
(* markdown files in Meilisearch, and remembers in a manifest which chunks  *)
(* it put there for which state of a file.                                  *)
(*                                                                         *)
(* A pass works on a manifest in hand, which reaches the disk only at its   *)
(* end; any error ends the pass, and the manifest in hand is dropped.  The  *)
(* first pass covers every file; later ones the files that the watcher,     *)
(* created after the first pass, has reported since.                        *)
(*                                                                         *)
(* A state of a file is named by the change that made it, which is its      *)
(* mtime too; 0 is a file that is not there.  The chunks of a file depend   *)
(* on its headings: two states share either all their chunk ids or none.    *)
(* Chunks of different files have different ids.                            *)
(***************************************************************************)
EXTENDS Naturals, FiniteSets

CONSTANTS
    Path,           \* markdown files under the document roots
    MaxChanges,     \* bound: changes of files
    MaxDirs,        \* bound: directories the watcher reports
    MaxFaults       \* bound: failing requests, and restarts

VARIABLES
    file,       \* per path, the state of the file
    index,      \* per chunk id, the state its chunk in Meilisearch was cut from
    disk,       \* wiki_manifest.json
    hand,       \* the manifest of the pass
    pass,       \* where the pass is: see Step
    events,     \* what the watcher has reported and nobody has taken
    changes, dirs, faults,
    lost,       \* history: paths whose change the indexer cannot know of
    dropped     \* history: paths whose entry a dropped manifest had changed

vars == <<file, index, disk, hand, pass, events, changes, dirs, faults, lost, dropped>>

State == 0 .. MaxChanges
ChunkId == Path \X {0, 1}

\* The chunk ids of a state of a file.
Chunks(p, v) == IF v = 0 THEN {} ELSE {<<p, v % 2>>}

Unlisted == [mtime |-> 0, ids |-> {}]

\* at        the next step
\* first     the initial index: the watcher is not there yet
\* full      index_workspace, not sync_changed_paths
\* todo      paths still to be visited
\* orphans   paths that collect_docs did not find, for after todo
\* rescan    a directory was among the events
\* path, mtime, read     the file being synchronised
Start == [at |-> "collect", first |-> TRUE, full |-> TRUE, todo |-> {}, orphans |-> {},
          rescan |-> FALSE, path |-> {}, mtime |-> 0, read |-> 0]

Idle == [Start EXCEPT !.at = "idle", !.first = FALSE, !.full = FALSE]

Goto(step) == pass' = [pass EXCEPT !.at = step]

Watching == pass.at \notin {"collect", "down"} /\ ~pass.first

\* The entries that go with the manifest in hand; an upsert that was not
\* answered may have put chunks there too.
Forgotten == {p \in Path : hand[p] # disk[p]}
             \cup (IF pass.at = "upsert" THEN pass.path ELSE {})

-----------------------------------------------------------------------------
(* index_workspace *)

\* ensure_index changes nothing that matters.  The manifest of a pass that
\* ends in a rescan was never saved and is dropped here.
Collect ==
    LET docs == {p \in Path : file[p] # 0}
    IN  /\ pass.at = "collect"
        /\ pass' = [pass EXCEPT !.at = "visit", !.full = TRUE,
                                !.todo = docs, !.orphans = Path \ docs]
        /\ hand' = disk
        /\ dropped' = dropped \cup Forgotten
        /\ lost' = IF pass.first THEN {} ELSE lost
        /\ UNCHANGED <<file, index, disk, events, changes, dirs, faults>>

\* What is there no more is looked for in the manifest after the files.
Orphans ==
    /\ pass.at = "visit" /\ pass.todo = {} /\ pass.orphans # {}
    /\ \E p \in pass.orphans :
          /\ pass' = [pass EXCEPT !.orphans = @ \ {p}, !.path = {p},
                                  !.at = IF hand[p].ids = {} THEN "visit" ELSE "drop",
                                  !.read = 0]
          /\ UNCHANGED <<file, index, disk, hand, events, changes, dirs, faults, lost, dropped>>

\* save_manifest, and after the first pass the watcher.
Save ==
    /\ pass.at = "visit" /\ pass.todo = {} /\ pass.orphans = {} /\ ~pass.rescan
    /\ disk' = hand
    /\ pass' = Idle
    /\ UNCHANGED <<file, index, hand, events, changes, dirs, faults, lost, dropped>>

-----------------------------------------------------------------------------
(* sync_file *)

\* The pass ends with an error: the manifest in hand goes, and what had not
\* been visited stays as it is.  The initial index fails with its server's
\* indexing; the loop goes on with the next event.
Fail ==
    /\ pass' = IF pass.first THEN [Start EXCEPT !.at = "down"] ELSE Idle
    /\ hand' = disk
    /\ dropped' = dropped \cup Forgotten
    /\ lost' = IF pass.first THEN Path
               ELSE lost \cup pass.todo \cup pass.orphans \cup pass.path

\* A file whose mtime is in the manifest is skipped; one that has gone fails a
\* full pass, and in a batch is dropped from the manifest and from the index.
Visit ==
    /\ pass.at = "visit"
    /\ \E p \in pass.todo :
          IF file[p] = 0 /\ pass.full
          THEN Fail
          ELSE /\ pass' = [pass EXCEPT
                             !.todo = @ \ {p}, !.path = {p}, !.mtime = file[p], !.read = 0,
                             !.at = IF file[p] # 0
                                    THEN IF hand[p].mtime = file[p] THEN "visit" ELSE "read"
                                    ELSE IF hand[p].ids = {} THEN "visit" ELSE "drop"]
               /\ UNCHANGED <<hand, lost, dropped>>
    /\ UNCHANGED <<file, index, disk, events, changes, dirs, faults>>

\* Mutant: the chunks stay where they are.
Deleted_none(p) == index

Deleted(p) == [c \in ChunkId |-> IF c \in hand[p].ids THEN 0 ELSE index[c]]

\* delete_manifest_path, and the orphans of a full pass: the entry, then the chunks.
Drop(p) ==
    /\ pass.at = "drop" /\ pass.path = {p}
    /\ hand' = [hand EXCEPT ![p] = Unlisted]
    /\ index' = Deleted(p)
    /\ Goto("visit")
    /\ UNCHANGED <<file, disk, events, changes, dirs, faults, lost, dropped>>

\* The file may have gone since: the whole pass fails.
Read(p) ==
    /\ pass.at = "read" /\ pass.path = {p}
    /\ IF file[p] = 0
       THEN Fail
       ELSE /\ pass' = [pass EXCEPT !.at = "delete", !.read = file[p]]
            /\ UNCHANGED <<hand, lost, dropped>>
    /\ UNCHANGED <<file, index, disk, events, changes, dirs, faults>>

DeleteOld(p) ==
    /\ pass.at = "delete" /\ pass.path = {p}
    /\ index' = Deleted(p)
    /\ Goto("upsert")
    /\ UNCHANGED <<file, disk, hand, events, changes, dirs, faults, lost, dropped>>

\* Mutant: the mtime is taken when the entry is made.
EntryOf_late(p) == [mtime |-> file[p], ids |-> Chunks(p, pass.read)]

\* The entry has the mtime from before the read.
EntryOf(p) == [mtime |-> pass.mtime, ids |-> Chunks(p, pass.read)]

Upserted(p) == [c \in ChunkId |-> IF c \in Chunks(p, pass.read) THEN pass.read ELSE index[c]]

Upsert(p) ==
    /\ pass.at = "upsert" /\ pass.path = {p}
    /\ index' = Upserted(p)
    /\ hand' = [hand EXCEPT ![p] = EntryOf(p)]
    /\ Goto("visit")
    /\ UNCHANGED <<file, disk, events, changes, dirs, faults, lost, dropped>>

-----------------------------------------------------------------------------
(* Failures *)

\* A request that was not answered may have been carried out.  Meilisearch takes
\* its tasks in order, so one that is late is carried out before anything else.
Unanswered ==
    {index}
    \cup {Deleted(p) : p \in IF pass.at \in {"drop", "delete"} THEN pass.path ELSE {}}
    \cup {Upserted(p) : p \in IF pass.at = "upsert" THEN pass.path ELSE {}}

\* A request to Meilisearch fails, or the wait for its task does.
Refused ==
    /\ pass.at \in {"drop", "delete", "upsert"}
    /\ faults < MaxFaults
    /\ faults' = faults + 1
    /\ index' \in Unanswered
    /\ Fail
    /\ UNCHANGED <<file, disk, events, changes, dirs>>

\* The server is stopped, and started again.
Restart ==
    /\ faults < MaxFaults
    /\ faults' = faults + 1
    /\ index' \in Unanswered
    /\ pass' = Start
    /\ hand' = disk
    /\ dropped' = dropped \cup Forgotten
    /\ events' = {}
    /\ lost' = Path
    /\ UNCHANGED <<file, disk, changes, dirs>>

-----------------------------------------------------------------------------
(* watch_workspace *)

Directory == "directory"

\* Mutant: what is reported while a pass runs is thrown away with its events.
Reported_idle(e) == IF pass.at = "idle" THEN events \cup {e} ELSE events

Reported(e) == IF Watching THEN events \cup {e} ELSE events

\* A file is written, made or removed, and the watcher, if there is one,
\* reports it.
Change(p, v) ==
    /\ changes < MaxChanges
    /\ v \in {0, changes + 1} /\ v # file[p]
    /\ changes' = changes + 1
    /\ file' = [file EXCEPT ![p] = v]
    /\ events' = Reported(p)
    /\ lost' = IF Watching THEN lost \ {p} ELSE lost \cup {p}
    /\ UNCHANGED <<index, disk, hand, pass, dirs, faults, dropped>>

MakeDirectory ==
    /\ Watching /\ dirs < MaxDirs
    /\ dirs' = dirs + 1
    /\ events' = Reported(Directory)
    /\ UNCHANGED <<file, index, disk, hand, pass, changes, faults, lost, dropped>>

\* Events of 300 ms make one batch; sync_changed_paths takes the files first.
Take ==
    /\ pass.at = "idle" /\ events # {}
    /\ pass' = [Idle EXCEPT !.at = "visit", !.todo = events \cap Path,
                            !.rescan = Directory \in events]
    /\ hand' = disk
    /\ events' = {}
    /\ UNCHANGED <<file, index, disk, changes, dirs, faults, lost, dropped>>

\* After the files of the batch everything is indexed once more, from the
\* manifest on the disk.
Rescan ==
    /\ pass.at = "visit" /\ pass.todo = {} /\ pass.orphans = {} /\ pass.rescan
    /\ pass' = [pass EXCEPT !.at = "collect", !.rescan = FALSE]
    /\ UNCHANGED <<file, index, disk, hand, events, changes, dirs, faults, lost, dropped>>

-----------------------------------------------------------------------------
Init ==
    /\ file \in [Path -> {0}]
    /\ index = [c \in ChunkId |-> 0]
    /\ disk = [p \in Path |-> Unlisted]
    /\ hand = disk
    /\ pass = Start
    /\ events = {}
    /\ changes = 0 /\ dirs = 0 /\ faults = 0
    /\ lost = {} /\ dropped = {}

Indexer ==
    \/ Collect \/ Orphans \/ Save \/ Visit \/ Take \/ Rescan
    \/ \E p \in Path : Drop(p) \/ Read(p) \/ DeleteOld(p) \/ Upsert(p)

Next ==
    \/ Indexer
    \/ Refused \/ Restart \/ MakeDirectory
    \/ \E p \in Path, v \in State : Change(p, v)

Spec == Init /\ [][Next]_vars

\* The indexer goes on; nothing else has to happen.
FairSpec == Spec /\ WF_vars(Indexer)

-----------------------------------------------------------------------------
(* Properties *)

Step == {"collect", "visit", "drop", "read", "delete", "upsert", "idle", "down"}
Manifest == [Path -> [mtime: State, ids: SUBSET ChunkId]]

\* Type invariant of the indexer.
TypeOK ==
    /\ file \in [Path -> State] /\ index \in [ChunkId -> State]
    /\ disk \in Manifest /\ hand \in Manifest
    /\ pass.at \in Step /\ pass.todo \subseteq Path /\ pass.orphans \subseteq Path
    /\ pass.path \subseteq Path /\ pass.mtime \in State /\ pass.read \in State
    /\ events \subseteq Path \cup {Directory}
    /\ lost \subseteq Path /\ dropped \subseteq Path

Indexed(p) == \A c \in Chunks(p, file[p]) : index[c] = file[p]

\* A file that the next pass would skip is in the index as it is: the entry
\* that says so survives neither a write during the pass nor a failed request.
SkippedIsIndexed ==
    \A p \in Path : file[p] # 0 /\ disk[p].mtime = file[p] => Indexed(p)

\* A chunk that no manifest lists, which nothing will ever delete, was left by a
\* pass whose manifest was dropped.
OnlyDroppedPassesLeak ==
    \A p \in Path, c \in ChunkId :
        c[1] = p /\ index[c] # 0 => p \in dropped \/ c \in disk[p].ids \cup hand[p].ids

\* When files are left alone, each one comes to be in the index as it is, with
\* nothing else of it there, unless its change fell before the watcher, its
\* event was in a pass that failed, or a dropped manifest knew of its chunks.
IndexSettles ==
    <>[](\A p \in Path : p \notin lost =>
            /\ Indexed(p)
            /\ p \notin dropped => \A c \in ChunkId : c[1] = p /\ index[c] # 0
                                        => c \in Chunks(p, file[p]))
=============================================================================
