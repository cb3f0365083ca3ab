------------------------------ MODULE MtimeCache ------------------------------
(***************************************************************************)
(* The caches of parsed files: DiskMap under the knowledge store, the call  *)
(* graph and the symbol tools.  Each process loads one file of entries once *)
(* and works on its copy; saving writes the whole copy, whatever another    *)
(* process has saved since.                                                 *)
(*                                                                         *)
(* An entry is what was read of a file, under the mtime from before.  The   *)
(* contents of a file are named by the time they were written, which is     *)
(* their mtime too; 0 is a file that is not there, and the mtime that a     *)
(* failed stat stands for.                                                  *)
(***************************************************************************)
EXTENDS Naturals, FiniteSets

CONSTANTS
    Reader,         \* processes
    File,           \* files they read
    NoEntry,
    MaxWrites       \* bound: changes of files

ASSUME CacheAssumption == MaxWrites \in Nat /\ NoEntry \notin [mtime: Nat, content: Nat]

VARIABLES
    file,       \* per file, its content
    clock,      \* the time of the last write
    saved,      \* the cache file
    memory,     \* per process, its copy
    loaded,     \* processes that have one
    look,       \* per process, what its lookup knows
    answer      \* per process, the content its last lookup returned

vars == <<file, clock, saved, memory, loaded, look, answer>>

Nobody == [f \in File |-> NoEntry]

Idle == [step |-> "idle", of |-> {}, mtime |-> 0, content |-> 0]

-----------------------------------------------------------------------------
\* Somebody writes or removes a file; contents are never written a second time
\* under the same mtime.
Touch(f) ==
    /\ clock < MaxWrites
    /\ clock' = clock + 1
    /\ file' \in {[file EXCEPT ![f] = clock + 1], [file EXCEPT ![f] = 0]}
    /\ UNCHANGED <<saved, memory, loaded, look, answer>>

\* load_path: a cache file that is not whole is an empty cache.
load_path(p) ==
    /\ p \notin loaded
    /\ loaded' = loaded \cup {p}
    /\ memory' \in {[memory EXCEPT ![p] = saved], [memory EXCEPT ![p] = Nobody]}
    /\ UNCHANGED <<file, clock, saved, look, answer>>

\* The stat comes first.
Stat(p, f) ==
    /\ p \in loaded /\ look[p].step = "idle"
    /\ look' = [look EXCEPT ![p] = [step |-> "get", of |-> {f}, mtime |-> file[f], content |-> 0]]
    /\ UNCHANGED <<file, clock, saved, memory, loaded, answer>>

Hits(p, f) == memory[p][f] # NoEntry /\ memory[p][f].mtime = look[p].mtime

\* An entry under the same mtime is the answer.
Get(p, f) ==
    /\ look[p].step = "get" /\ look[p].of = {f}
    /\ IF Hits(p, f)
       THEN /\ answer' = [answer EXCEPT ![p] = memory[p][f].content]
            /\ look' = [look EXCEPT ![p].step = "idle"]
       ELSE /\ look' = [look EXCEPT ![p].step = "read"]
            /\ UNCHANGED answer
    /\ UNCHANGED <<file, clock, saved, memory, loaded>>

\* A file that cannot be read has no chunks, and leaves no entry.
Read(p, f) ==
    /\ look[p].step = "read" /\ look[p].of = {f}
    /\ answer' = [answer EXCEPT ![p] = file[f]]
    /\ look' = [look EXCEPT ![p].step = IF file[f] = 0 THEN "idle" ELSE "put",
                            ![p].content = file[f]]
    /\ UNCHANGED <<file, clock, saved, memory, loaded>>

\* Mutant: the file is asked for its mtime when the entry is made.
Entry_late(p, f) == [mtime |-> file[f], content |-> look[p].content]

Entry(p, f) == [mtime |-> look[p].mtime, content |-> look[p].content]

Put(p, f) ==
    /\ look[p].step = "put" /\ look[p].of = {f}
    /\ memory' = [memory EXCEPT ![p][f] = Entry(p, f)]
    /\ look' = [look EXCEPT ![p].step = "idle"]
    /\ UNCHANGED <<file, clock, saved, loaded, answer>>

\* A rename brings the whole copy, or the temporary file was somebody else's.
Save(p) ==
    /\ p \in loaded /\ look[p].step = "idle"
    /\ saved' \in {memory[p]} \cup {memory[q] : q \in loaded}
    /\ UNCHANGED <<file, clock, memory, loaded, look, answer>>

\* invalidate_markdown_chunks, after this process has written the file.
Invalidate(p, f) ==
    /\ p \in loaded /\ look[p].step = "idle" /\ memory[p][f] # NoEntry
    /\ memory' = [memory EXCEPT ![p][f] = NoEntry]
    /\ saved' = memory'[p]
    /\ UNCHANGED <<file, clock, loaded, look, answer>>

\* The process ends; the next one loads the cache anew.
End(p) ==
    /\ p \in loaded
    /\ loaded' = loaded \ {p}
    /\ memory' = [memory EXCEPT ![p] = Nobody]
    /\ look' = [look EXCEPT ![p] = Idle]
    /\ answer' = [answer EXCEPT ![p] = 0]
    /\ UNCHANGED <<file, clock, saved>>

-----------------------------------------------------------------------------
Init ==
    /\ file = [f \in File |-> 0]
    /\ clock = 0
    /\ saved = Nobody
    /\ memory = [p \in Reader |-> Nobody]
    /\ loaded = {}
    /\ look = [p \in Reader |-> Idle]
    /\ answer = [p \in Reader |-> 0]

Next ==
    \/ \E f \in File : Touch(f)
    \/ \E p \in Reader :
          \/ load_path(p) \/ Save(p) \/ End(p)
          \/ \E f \in File : Stat(p, f) \/ Get(p, f) \/ Read(p, f) \/ Put(p, f) \/ Invalidate(p, f)

Spec == Init /\ [][Next]_vars

-----------------------------------------------------------------------------
(* Properties *)

Times == 0 .. MaxWrites
CacheEntry == [mtime: Times, content: Times]

\* Type invariant of the caches.
TypeOK ==
    /\ file \in [File -> Times] /\ clock \in Times
    /\ saved \in [File -> CacheEntry \cup {NoEntry}]
    /\ memory \in [Reader -> [File -> CacheEntry \cup {NoEntry}]]
    /\ loaded \subseteq Reader
    /\ look \in [Reader -> [step: {"idle", "get", "read", "put"}, of: SUBSET File,
                            mtime: Times, content: Times]]
    /\ answer \in [Reader -> Times]

\* A hit on a file that was there gives the content the file had when the lookup
\* looked at it, or a later one: never an older one, whichever processes have
\* written the file and the cache meanwhile.
HitIsFresh ==
    [][\A p \in Reader, f \in File :
          /\ look[p].step = "get" /\ look[p].of = {f} /\ look[p].mtime # 0
          /\ look'[p].step = "idle" /\ p \in loaded'
          => answer'[p] >= look[p].mtime /\ answer'[p] # 0]_vars
=============================================================================
