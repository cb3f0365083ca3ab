------------------------------ MODULE MasEffects ------------------------------
(***************************************************************************)
(* Revertible writes: knowledge_upsert with an effect_session, the journal *)
(* of what those writes replaced, and the mas_finalize that keeps or       *)
(* reverts them and closes the session.                                    *)
(*                                                                         *)
(* The journal has a lock, which record_write, commit and recover hold.    *)
(* What is between them has none: the file is read before the record is    *)
(* made and written after it, and finalize looks at the journal, settles   *)
(* it and saves the session as three separate things.  A process may die   *)
(* between any two.                                                        *)
(***************************************************************************)
EXTENDS MasSession

CONSTANTS
    Path,       \* files an upsert may write
    Content,    \* what a file may hold; never empty, a section has a heading
    Nobody,     \* holds the journal's lock when no process does
    MaxEntries, \* bound: journal entries
    MaxEdits    \* bound: changes made to the files by anybody else

Stored == Content \cup {Absent}
JournalEntry == [path: Path, before: Stored, after: Content]
Journal == [status: {"open", "recovered"}, entries: Seq(JournalEntry)]

ASSUME EffectsAssumption ==
    /\ Nobody \notin Proc
    /\ Absent \notin Content \cup Journal
    /\ MaxEntries \in Nat
    /\ MaxEdits \in Nat

VARIABLES
    file,       \* per path its content, or Absent
    journal,    \* effects/<session>.json
    lock,       \* holder of effects/<session>.lock
    work,       \* per process, the step of its upsert or finalize
    edits,      \* edits made by others so far
    origin,     \* history: per path in the journal, what its first write replaced
    wrote       \* history: the session's writes that are not settled

effectVars == <<file, journal, lock, work, edits, origin, wrote>>
vars == <<sessionVars, effectVars>>
history == <<origin, wrote>>

Rest == [at |-> "rest", path |-> Absent, before |-> Absent, after |-> Absent,
         decision |-> "none", pending |-> FALSE, left |-> 0]

Closing == [Rest EXCEPT !.at = "close"]

AtRest(p) == work[p] = Rest /\ call[p] = Idle

Stop(p) == work' = [work EXCEPT ![p] = Rest]

NoOrigin == [path \in Path |-> Absent]

EmptyJournal == [status |-> "open", entries |-> <<>>]

has_pending ==
    journal # Absent /\ journal.status = "open" /\ journal.entries # <<>>

-----------------------------------------------------------------------------
(* knowledge_upsert with an effect_session *)

\* The new content is anything: it depends on the mode, the heading and the
\* body, and in most modes on what was read.
UpsertRead(p, path, after) ==
    /\ AtRest(p)
    /\ require_open_session(p)
    /\ work' = [work EXCEPT ![p] = [Rest EXCEPT !.at = "check", !.path = path,
                                     !.before = file[path], !.after = after]]
    /\ UNCHANGED <<sessionVars, file, journal, lock, edits, history>>

\* record_write asks again, before it takes the lock.
UpsertCheck(p) ==
    /\ work[p].at = "check"
    /\ IF require_open_session(p)
       THEN work' = [work EXCEPT ![p].at = "record"]
       ELSE Stop(p)
    /\ UNCHANGED <<sessionVars, file, journal, lock, edits, history>>

\* Mutant: a path already in the journal is not recorded again.
Recorded_once(j, w) ==
    IF \E i \in DOMAIN j.entries : j.entries[i].path = w.path THEN j
    ELSE [j EXCEPT !.entries = Append(@, [path |-> w.path, before |-> w.before,
                                          after |-> w.after])]

\* Mutant: what is kept is the content before the last write.
Recorded_last(j, w) ==
    LET others == SelectSeq(j.entries, LAMBDA e : e.path # w.path)
    IN  [j EXCEPT !.entries = Append(others, [path |-> w.path, before |-> w.before,
                                              after |-> w.after])]

Recorded(j, w) ==
    [j EXCEPT !.entries = Append(@, [path |-> w.path, before |-> w.before,
                                     after |-> w.after])]

UpsertRecord(p) ==
    LET j == IF journal = Absent THEN EmptyJournal ELSE journal
        new == \A i \in DOMAIN j.entries : j.entries[i].path # work[p].path
    IN  /\ work[p].at = "record"
        /\ lock = Nobody
        /\ IF j.status # "open"
           THEN Stop(p) /\ UNCHANGED <<journal, origin>>
           ELSE /\ Len(j.entries) < MaxEntries
                /\ journal' = Recorded(j, work[p])
                /\ origin' = IF new THEN [origin EXCEPT ![work[p].path] = file[work[p].path]]
                             ELSE origin
                /\ work' = [work EXCEPT ![p].at = "write"]
        /\ UNCHANGED <<sessionVars, file, lock, edits, wrote>>

\* write_atomic, and the notify that drops the session from the cache.
UpsertWrite(p) ==
    /\ work[p].at = "write"
    /\ file' = [file EXCEPT ![work[p].path] = work[p].after]
    /\ wrote' = wrote \cup {[path |-> work[p].path, after |-> work[p].after]}
    /\ cache' = [cache EXCEPT ![p] = Absent]
    /\ Stop(p)
    /\ UNCHANGED <<doc, call, notes, posts, posted, journal, lock, edits, origin>>

-----------------------------------------------------------------------------
(* mas_finalize *)

\* The decision is required when writes are pending; that they were decides
\* later whether a recovery ends the call.
FinalizeBegin(p, decision) ==
    /\ AtRest(p)
    /\ has_pending => decision # "none"
    /\ work' = [work EXCEPT ![p] =
                  IF decision = "none" THEN Closing
                  ELSE [Rest EXCEPT !.at = "settle", !.decision = decision,
                                    !.pending = has_pending]]
    /\ UNCHANGED <<sessionVars, file, journal, lock, edits, history>>

\* commit: the journal is deleted; one that was recovered is an error.
Commit(p) ==
    /\ work[p].at = "settle" /\ work[p].decision = "commit"
    /\ lock = Nobody
    /\ IF journal # Absent /\ journal.status = "recovered"
       THEN Stop(p) /\ UNCHANGED <<journal, history>>
       ELSE /\ journal' = Absent
            /\ wrote' = {}
            /\ origin' = NoOrigin
            /\ work' = [work EXCEPT ![p] = Closing]
    /\ UNCHANGED <<sessionVars, file, lock, edits>>

\* After a recovery: the session stays open if there was something pending.
AfterRecover(p) ==
    IF work[p].pending THEN Rest ELSE Closing

\* recover, when there is nothing to revert.
RecoverNothing(p) ==
    /\ work[p].at = "settle" /\ work[p].decision = "recover"
    /\ lock = Nobody
    /\ journal # Absent => journal.status = "recovered"
    /\ work' = [work EXCEPT ![p] = AfterRecover(p)]
    /\ UNCHANGED <<sessionVars, file, journal, lock, edits, history>>

RecoverBegin(p) ==
    /\ work[p].at = "settle" /\ work[p].decision = "recover"
    /\ lock = Nobody
    /\ journal # Absent /\ journal.status = "open"
    /\ lock' = p
    /\ work' = [work EXCEPT ![p].at = "compare", ![p].left = Len(journal.entries)]
    /\ UNCHANGED <<sessionVars, file, journal, edits, history>>

\* Entries still to revert; the last of them is next.
Left(p) == work[p].left

\* Mutant: content that changed since is reverted all the same.
Conflicting_never(e) == file[e.path] = Absent

\* Content is compared with what the write left there.
Conflicting(e) == file[e.path] # e.after

RecoverCompare(p) ==
    /\ work[p].at = "compare" /\ Left(p) > 0
    /\ IF Conflicting(journal.entries[Left(p)])
       THEN lock' = Nobody /\ Stop(p)
       ELSE work' = [work EXCEPT ![p].at = "revert"] /\ UNCHANGED lock
    /\ UNCHANGED <<sessionVars, file, journal, edits, history>>

RecoverRevert(p) ==
    LET e == journal.entries[Left(p)]
    IN  /\ work[p].at = "revert"
        /\ file' = [file EXCEPT ![e.path] = e.before]
        /\ work' = [work EXCEPT ![p].at = "compare", ![p].left = @ - 1]
        /\ UNCHANGED <<sessionVars, journal, lock, edits, history>>

\* The journal is marked, its lock released, and the cache notified.
RecoverDone(p) ==
    /\ work[p].at = "compare" /\ Left(p) = 0
    /\ journal' = [journal EXCEPT !.status = "recovered"]
    /\ lock' = Nobody
    /\ cache' = [cache EXCEPT ![p] = Absent]
    /\ wrote' = {}
    /\ origin' = NoOrigin
    /\ work' = [work EXCEPT ![p] = AfterRecover(p)]
    /\ UNCHANGED <<doc, call, notes, posts, posted, file, edits>>

\* The session is closed; then the result may be promoted to a note, which is
\* an upsert without a journal and whose failure is only reported.
Close(p, r) ==
    /\ work[p].at = "close"
    /\ Finalize(p, r)
    /\ work' = [work EXCEPT ![p].at = "promote"]
    /\ UNCHANGED <<file, journal, lock, edits, history>>

CloseUnknown(p) ==
    /\ work[p].at = "close" /\ call[p] = Idle
    /\ load_session(p) = Absent
    /\ Stop(p)
    /\ UNCHANGED <<sessionVars, file, journal, lock, edits, history>>

Promote(p) ==
    /\ work[p].at = "promote" /\ call[p] = Idle
    /\ \/ \E path \in Path, c \in Content : file' = [file EXCEPT ![path] = c]
       \/ UNCHANGED file
    /\ Stop(p)
    /\ UNCHANGED <<sessionVars, journal, lock, edits, history>>

-----------------------------------------------------------------------------
(* Everything else *)

\* A person, or a tool that does not journal, changes a file between calls.
Edit(path, c) ==
    /\ edits < MaxEdits
    /\ \A p \in Proc : AtRest(p)
    /\ file[path] # c
    /\ file' = [file EXCEPT ![path] = c]
    /\ edits' = edits + 1
    /\ UNCHANGED <<sessionVars, journal, lock, work, history>>

\* The other session tools, as they are in MasSession.
OtherTool(p) ==
    /\ work[p] = Rest \/ work[p].at = "promote"
    /\ \/ work[p] = Rest /\ Begin(p)
       \/ Proceed(p)
    /\ UNCHANGED effectVars

Die(p) ==
    /\ Restart(p)
    /\ Stop(p)
    /\ lock' = IF lock = p THEN Nobody ELSE lock
    /\ UNCHANGED <<file, journal, edits, history>>

Init ==
    /\ SessionInit
    /\ file \in [Path -> Content \cup {Absent}]
    /\ journal = Absent
    /\ lock = Nobody
    /\ work = [p \in Proc |-> Rest]
    /\ edits = 0
    /\ origin = NoOrigin
    /\ wrote = {}

Upsert(p) ==
    \/ \E path \in Path, c \in Content : UpsertRead(p, path, c)
    \/ UpsertCheck(p) \/ UpsertRecord(p) \/ UpsertWrite(p)

Finalizing(p) ==
    \/ \E d \in {"none", "commit", "recover"} : FinalizeBegin(p, d)
    \/ Commit(p) \/ RecoverNothing(p)
    \/ RecoverBegin(p) \/ RecoverCompare(p) \/ RecoverRevert(p) \/ RecoverDone(p)
    \/ \E r \in Result : Close(p, r)
    \/ CloseUnknown(p) \/ Promote(p)

Next ==
    \/ \E p \in Proc : Upsert(p) \/ Finalizing(p) \/ OtherTool(p) \/ Die(p)
    \/ \E path \in Path, c \in Content \cup {Absent} : Edit(path, c)

Spec == Init /\ [][Next]_vars

-----------------------------------------------------------------------------
(* Properties *)

Work == [at: {"rest", "check", "record", "write", "settle", "compare", "revert", "close",
              "promote"},
         path: Path \cup {Absent}, before: Stored, after: Stored,
         decision: {"none", "commit", "recover"}, pending: BOOLEAN, left: 0 .. MaxEntries]

\* Type invariant of the journal and the calls that use it.
TypeOK ==
    /\ SessionTypeOK
    /\ file \in [Path -> Stored]
    /\ journal \in Journal \cup {Absent}
    /\ lock \in Proc \cup {Nobody}
    /\ work \in [Proc -> Work]
    /\ edits \in 0 .. MaxEdits
    /\ origin \in [Path -> Stored]
    /\ wrote \subseteq [path: Path, after: Content]

\* A recovery that reports success has put every file the session wrote back
\* to what it was before the session's first write, whatever was written in
\* between, by however many calls, and whatever crashed.
RecoveredIsRestored ==
    [][\A p \in Proc : RecoverDone(p) =>
          \A i \in DOMAIN journal.entries :
              file[journal.entries[i].path] = origin[journal.entries[i].path]]_vars

\* A recovery takes away nothing but what the session wrote: text that somebody
\* put there since is never overwritten.
OnlyOwnTextIsReverted ==
    [][\A p \in Proc : RecoverRevert(p) =>
          \A path \in Path : file'[path] # file[path] =>
              \E i \in DOMAIN journal.entries :
                  journal.entries[i].path = path /\ journal.entries[i].after = file[path]]_vars

\* A write that is not settled can be found in the journal: no crash leaves a
\* file changed with nothing to revert it by.
WritesAreJournaled ==
    \A w \in wrote :
        /\ journal # Absent
        /\ \E i \in DOMAIN journal.entries :
               journal.entries[i].path = w.path /\ journal.entries[i].after = w.after

\* A closed session has no write left to decide about.
FinalIsSettled == doc # Absent /\ doc.status = "final" => ~has_pending

\* The files are as a refused recovery found them: a call that reports a
\* conflict has changed nothing.
RefusalChangesNothing ==
    [][\A p \in Proc :
          RecoverCompare(p) /\ work'[p] = Rest =>
              \A i \in Left(p) + 1 .. Len(journal.entries) :
                  journal.entries[i].before = journal.entries[i].after]_vars
=============================================================================
