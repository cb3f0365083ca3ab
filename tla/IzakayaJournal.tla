--------------------------- MODULE IzakayaJournal ---------------------------
(***************************************************************************)
(* The two files behind a coordination group, events.ndjson and            *)
(* projection.json, and the process that holds the group's lock.           *)
(*                                                                         *)
(* The lock admits one process at a time, and the system releases it when  *)
(* that process dies, so one program counter is enough.  What matters is   *)
(* where the holder can stop: between two writes, or (the kinds in faults) *)
(* in the middle of one.  A write that fails, on a full disk say, leaves   *)
(* the files the way a crash in it does.                                   *)
(*                                                                         *)
(* A board is abstracted to its sequence number and the commits folded     *)
(* into it; IzakayaBoard says what a commit does.                          *)
(***************************************************************************)
EXTENDS Naturals, Sequences, FiniteSets, Functions

CONSTANTS
    Missing,        \* no projection.json
    Garbled,        \* a projection.json that does not parse
    Kinds,          \* event kinds committed: "presence", "lab"
    FaultSets,      \* what may go wrong with writes, of one disk or another
    BloatLines,     \* JOURNAL_COMPACT_BYTES, in lines
    CompactCount,   \* JOURNAL_COMPACT_COUNT
    KeepTail,       \* JOURNAL_KEEP_TAIL
    MaxOps          \* bound: commits attempted

ASSUME KindAssumption == Kinds \subseteq {"presence", "lab"}
ASSUME FaultAssumption ==
    \A f \in FaultSets :
        f \subseteq {"line", "newline", "repair", "projection", "rebuilt"}
ASSUME BoundAssumption ==
    /\ BloatLines \in Nat \ {0}
    /\ CompactCount \in Nat
    /\ KeepTail \in Nat
    /\ MaxOps \in Nat

VARIABLES
    lines,          \* events.ndjson, line by line
    open,           \* its last line has no newline yet
    projection,     \* projection.json
    pc,             \* where the lock holder is; "idle" when the lock is free
    goal,           \* what it took the lock for
    mem,            \* the board it loaded
    hint,           \* how many events it has at hand
    tried,          \* commits attempted so far; the commit under way
    acked,          \* replies given: the commit and its sequence number
    faults          \* writes that may stop half way, or fail unnoticed

vars == <<lines, open, projection, pc, goal, mem, hint, tried, acked, faults>>
files == <<lines, open, projection>>

Op == 1 .. MaxOps
Empty == [seq |-> 0, ops |-> <<>>]
BadLine == [kind |-> "bad", seq |-> 0, ops |-> <<>>]

-----------------------------------------------------------------------------
(* Reading the journal *)

\* apply, on boards abstracted to the commits they contain.
Applied(b, l) ==
    CASE l.kind = "bad"      -> b
      [] l.kind = "snapshot" -> [seq |-> l.seq, ops |-> l.ops]
      [] l.kind = "presence" -> [seq |-> l.seq, ops |-> b.ops \o l.ops]
      [] l.kind = "lab"      -> [b EXCEPT !.seq = l.seq]

Replay(ls) ==
    LET after[i \in 0 .. Len(ls)] ==
          IF i = 0 THEN Empty ELSE Applied(after[i - 1], ls[i])
    IN  after[Len(ls)]

Parsable(ls) == {i \in DOMAIN ls : ls[i].kind # "bad"}

\* Mutant: the tip is read from the first line that parses.
Tip_head(ls) ==
    IF Parsable(ls) = {} THEN 0
    ELSE ls[CHOOSE i \in Parsable(ls) : \A j \in Parsable(ls) : i <= j].seq

\* peek_last_event_seq: the last line that parses; 0 stands for None.
Tip(ls) ==
    LET good == Parsable(ls)
        last == CHOOSE i \in good : \A j \in good : j <= i
    IN  IF good = {} THEN 0 ELSE ls[last].seq

Trusted ==
    /\ projection \notin {Missing, Garbled}
    /\ Tip(lines) # 0
    /\ Tip(lines) = projection.seq

BadTail == lines # <<>> /\ lines[Len(lines)].kind = "bad"

\* load_events: an unparsable last line is dropped and the file rewritten.
Repaired == IF BadTail THEN SubSeq(lines, 1, Len(lines) - 1) ELSE lines

Repair ==
    /\ lines' = Repaired
    /\ open' = (open /\ ~BadTail)

-----------------------------------------------------------------------------
Init ==
    /\ lines = <<>>
    /\ open = FALSE
    /\ projection = Missing
    /\ pc = "idle"
    /\ goal = "read"
    /\ mem = Empty
    /\ hint = 0
    /\ tried = 0
    /\ acked = {}
    /\ faults \in FaultSets

\* GroupLock::acquire, in read, read_events, commit and compact_now.
Acquire(g) ==
    /\ pc = "idle"
    /\ g \in Kinds => tried < MaxOps
    /\ tried' = IF g \in Kinds THEN tried + 1 ELSE tried
    /\ goal' = g
    /\ pc' = "load"
    /\ UNCHANGED <<files, mem, hint, acked, faults>>

\* load_recent_events: how many events a trusting load has at hand.
Recent(ls) ==
    LET n == Cardinality(Parsable(ls)) IN IF n <= KeepTail THEN n ELSE KeepTail

\* read_events: the whole journal, and nothing else; malformed lines inside it
\* are reported, a torn last line is repaired.
ReadEvents ==
    /\ pc = "load"
    /\ goal = "events"
    /\ Repair
    /\ pc' = "idle"
    /\ UNCHANGED <<projection, goal, mem, hint, tried, acked, faults>>

Loading == pc = "load" /\ goal # "events"

LoadHot ==
    /\ Loading
    /\ Trusted
    /\ mem' = projection
    /\ hint' = Recent(lines)
    /\ pc' = "tidy"
    /\ UNCHANGED <<files, goal, tried, acked, faults>>

\* The rebuilt projection is written back; a failure to do so is ignored.
LoadCold ==
    /\ Loading
    /\ ~Trusted
    /\ projection # Garbled
    /\ Repair
    /\ mem' = Replay(Repaired)
    /\ projection' = mem' \/ ("rebuilt" \in faults /\ projection' = projection)
    /\ hint' = Len(Repaired)
    /\ pc' = "tidy"
    /\ UNCHANGED <<goal, tried, acked, faults>>

\* read_json fails, and with it the whole call.
LoadFails ==
    /\ Loading
    /\ projection = Garbled
    /\ pc' = "idle"
    /\ UNCHANGED <<files, goal, mem, hint, tried, acked, faults>>

\* Mutant: size is compared only once the file is well past the limit.
Bloated_late(ls) == Len(ls) > 2 * BloatLines

Bloated(ls) == Len(ls) > BloatLines

\* The lab events, in their order.
LabEvents(ls) ==
    LET kept[i \in 0 .. Len(ls)] ==
          IF i = 0 THEN <<>>
          ELSE kept[i - 1] \o IF ls[i].kind = "lab" THEN <<ls[i]>> ELSE <<>>
    IN  kept[Len(ls)]

\* compact_journal: a snapshot of the board, then the lab events.
Compacted(ls, b) ==
    <<[kind |-> "snapshot", seq |-> b.seq, ops |-> b.ops]>> \o LabEvents(ls)

\* maybe_compact.  It looks at the file only when it is bloated or the caller
\* holds many events, and then reads, and repairs, all of it.
LooksAtJournal == Bloated(lines) \/ hint > CompactCount

MaybeCompact(b) ==
    IF ~LooksAtJournal THEN UNCHANGED <<lines, open>>
    ELSE LET all == Repaired
             some == \E i \in DOMAIN all : all[i].kind = "presence"
         IN  IF some /\ (Bloated(all) \/ Len(all) > CompactCount)
             THEN lines' = Compacted(all, b) /\ open' = FALSE
             ELSE Repair

AfterLoad ==
    CASE goal = "read" -> "idle"
      [] goal = "compact" -> "squeeze"
      [] OTHER -> "append"

Tidy ==
    /\ pc = "tidy"
    /\ MaybeCompact(mem)
    /\ hint' = Recent(lines')
    /\ pc' = AfterLoad
    /\ UNCHANGED <<projection, goal, mem, tried, acked, faults>>

\* compact_now, after the load.
Squeeze ==
    /\ pc = "squeeze"
    /\ projection' = mem
    /\ lines' = Compacted(Repaired, mem)
    /\ open' = FALSE
    /\ pc' = "idle"
    /\ UNCHANGED <<goal, mem, hint, tried, acked, faults>>

-----------------------------------------------------------------------------
(* commit *)

NewLine == [kind |-> goal, seq |-> mem.seq + 1, ops |-> <<tried>>]

\* Text appended while the last line is open becomes part of that line, and
\* two events on one line do not parse.
Written(l) ==
    IF open THEN [lines EXCEPT ![Len(lines)] = BadLine] ELSE Append(lines, l)

\* append_event, complete.
AppendEvent ==
    /\ pc = "append"
    /\ lines' = Written(NewLine)
    /\ open' = FALSE
    /\ mem' = Applied(mem, NewLine)
    /\ pc' = "project"
    /\ UNCHANGED <<projection, goal, hint, tried, acked, faults>>

WriteProjection ==
    /\ pc = "project"
    /\ projection' = mem
    /\ hint' = hint + 1
    /\ pc' = "settle"
    /\ UNCHANGED <<lines, open, goal, mem, tried, acked, faults>>

\* Mutant: the board that was loaded is compacted, not the committed one.
Settle_early ==
    /\ pc = "settle"
    /\ MaybeCompact(Replay(SubSeq(lines, 1, Len(lines) - 1)))
    /\ pc' = "reply"
    /\ UNCHANGED <<projection, goal, mem, hint, tried, acked, faults>>

Settle ==
    /\ pc = "settle"
    /\ MaybeCompact(mem)
    /\ pc' = "reply"
    /\ UNCHANGED <<projection, goal, mem, hint, tried, acked, faults>>

Reply ==
    /\ pc = "reply"
    /\ acked' = acked \cup {[op |-> tried, seq |-> mem.seq]}
    /\ pc' = "idle"
    /\ UNCHANGED <<files, goal, mem, hint, tried, faults>>

-----------------------------------------------------------------------------
(* Crashes *)

Dies == pc' = "idle" /\ UNCHANGED <<goal, mem, hint, tried, acked, faults>>

CrashBetween ==
    /\ pc # "idle"
    /\ Dies
    /\ UNCHANGED files

\* Part of the line reached the file.
CrashInLine ==
    /\ pc = "append" /\ "line" \in faults
    /\ Dies
    /\ lines' = Written(BadLine)
    /\ open' = TRUE
    /\ UNCHANGED projection

\* All of the line did, but not its newline.
CrashBeforeNewline ==
    /\ pc = "append" /\ "newline" \in faults
    /\ Dies
    /\ lines' = Written(NewLine)
    /\ open' = TRUE
    /\ UNCHANGED projection

\* The repair truncates the journal before it writes what it keeps.
CrashInRepair ==
    /\ \/ pc = "load" /\ goal = "events"
       \/ Loading /\ ~Trusted /\ projection # Garbled
       \/ pc \in {"tidy", "settle"} /\ LooksAtJournal
       \/ pc = "squeeze"
    /\ BadTail /\ "repair" \in faults
    /\ Dies
    /\ \E n \in 0 .. Len(Repaired) : lines' = SubSeq(lines, 1, n)
    /\ open' = FALSE
    /\ UNCHANGED projection

\* The projection is renamed into place without being synced first.
CrashInProjection ==
    /\ Loading \/ pc \in {"project", "squeeze"}
    /\ "projection" \in faults
    /\ Dies
    /\ projection' = Garbled
    /\ IF pc = "load" /\ ~Trusted THEN Repair ELSE UNCHANGED <<lines, open>>

Next ==
    \/ \E g \in Kinds \cup {"read", "events", "compact"} : Acquire(g)
    \/ ReadEvents \/ LoadHot \/ LoadCold \/ LoadFails
    \/ Tidy \/ Squeeze
    \/ AppendEvent \/ WriteProjection \/ Settle \/ Reply
    \/ CrashBetween
    \/ CrashInLine \/ CrashBeforeNewline \/ CrashInRepair \/ CrashInProjection

Spec == Init /\ [][Next]_vars

-----------------------------------------------------------------------------
(* Properties *)

Line == [kind: Kinds \cup {"snapshot", "bad"}, seq: 0 .. MaxOps, ops: Seq(Op)]
State == [seq: 0 .. MaxOps, ops: Seq(Op)]
Phase == {"idle", "load", "tidy", "squeeze", "append", "project", "settle", "reply"}

\* Type invariant of the files and the lock holder.
TypeOK ==
    /\ lines \in Seq(Line)
    /\ open \in BOOLEAN
    /\ projection \in State \cup {Missing, Garbled}
    /\ pc \in Phase
    /\ goal \in Kinds \cup {"read", "events", "compact"}
    /\ mem \in State
    /\ hint \in Nat
    /\ tried \in 0 .. MaxOps
    /\ acked \subseteq [op: Op, seq: 1 .. MaxOps]
    /\ faults \in FaultSets

\* The board the next load would return.
Recovered == IF Trusted THEN projection ELSE Replay(Repaired)

\* Comparing two numbers is enough: when the projection's seq is the journal's
\* last one, the projection is what a replay of the whole journal would give,
\* after any crash and any compaction.
TrustIsSound == Trusted => projection = Replay(lines)

\* No write is torn, though the one of a rebuilt projection may fail unnoticed.
WritesAreWhole == faults \subseteq {"rebuilt"}

\* The commits in force and the answers given, as long as no write is torn.
\* (What a torn one does to them, AckedSurvive shows.)
InForce == IF WritesAreWhole THEN Recovered.ops ELSE <<>>
Answered == IF WritesAreWhole THEN acked ELSE {}

\* The files implement the store: as long as a crash falls between writes,
\* what a load returns only ever grows, by one commit at its end, and every
\* answered commit keeps the place its answer named.
Store == INSTANCE IzakayaStore WITH effect <- InForce, answers <- Answered
ImplementsStore == Store!Spec

\* The journal cannot outgrow the size at which it is compacted by more than
\* the line being added, however processes crash between writes.
JournalStaysBounded == Len(lines) <= BloatLines + 1

\* Nobody who was told a commit succeeded finds it gone.
AckedSurvive ==
    pc = "idle" => {x.op : x \in acked} \subseteq Range(Recovered.ops)

\* A call that finds the journal over the event limit leaves it compacted.
LongJournalsAreCompacted ==
    [][(Tidy \/ Settle) => Len(lines') <= CompactCount]_vars
=============================================================================
