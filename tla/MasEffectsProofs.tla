--------------------------- MODULE MasEffectsProofs ---------------------------
(***************************************************************************)
(* Theorems about MasEffects.  For any number of processes: the steps of  *)
(* upserts and recoveries are steps of the session's specification or     *)
(* leave it alone, so that what is proved of sessions carries over.        *)
(*                                                                         *)
(* For one process: no write is without its journal entry, a finalized     *)
(* session has nothing pending, and a recovery undoes exactly what the     *)
(* session did, although it may have been cut off before.                  *)
(***************************************************************************)
EXTENDS MasEffects, MasSessionProofs

EffectTypes ==
    /\ file \in [Path -> Stored]
    /\ journal \in Journal \cup {Absent}
    /\ lock \in Proc \cup {Nobody}
    /\ work \in [Proc -> Work]
    /\ edits \in 0 .. MaxEdits
    /\ origin \in [Path -> Stored]
    /\ wrote \subseteq [path: Path, after: Content]

JournalIsShort == journal # Absent => Len(journal.entries) <= MaxEntries

\* Where a process is in its upsert or its finalize, and what it has by then.
Placed(p) ==
    /\ work[p].at \notin {"rest", "promote"} => call[p] = Idle
    /\ work[p].at \in {"check", "record", "write"} =>
         work[p].path \in Path /\ work[p].after \in Content
    /\ work[p].at \in {"compare", "revert"} =>
         /\ lock = p /\ journal # Absent /\ journal.status = "open"
         /\ work[p].left <= Len(journal.entries)
    /\ work[p].at = "revert" => work[p].left > 0

\* The invariant for any number of processes.
EveryStepIsPlaced == EffectTypes /\ JournalIsShort /\ \A p \in Proc : Placed(p)

-----------------------------------------------------------------------------
(* The journal as a value *)

\* Its entries, one by one.
LEMMA JournalEntries ==
  ASSUME NEW j \in Journal
  PROVE  /\ Len(j.entries) \in Nat /\ DOMAIN j.entries = 1 .. Len(j.entries)
         /\ \A i \in DOMAIN j.entries : j.entries[i] \in JournalEntry
<1>1. j.entries \in Seq(JournalEntry)
  BY DEF Journal
<1> QED
  BY <1>1, LenProperties, ElementOfSeq

LEMMA JournalIsThere == Absent \notin Journal /\ Absent \notin Content
BY EffectsAssumption

LEMMA RecordedIsAppended ==
  ASSUME NEW j \in Journal, NEW w \in Work, w.path \in Path, w.after \in Content
  PROVE  LET k == Recorded(j, w)
             n == Len(j.entries)
         IN  /\ k \in Journal /\ k.status = j.status
             /\ n \in Nat /\ Len(k.entries) = n + 1
             /\ DOMAIN j.entries = 1 .. n /\ DOMAIN k.entries = 1 .. n + 1
             /\ \A i \in 1 .. n : k.entries[i] = j.entries[i]
             /\ k.entries[n + 1] = [path |-> w.path, before |-> w.before, after |-> w.after]
<1> DEFINE e == [path |-> w.path, before |-> w.before, after |-> w.after]
           q == Append(j.entries, e)
<1>1. j.entries \in Seq(JournalEntry) /\ e \in JournalEntry
  BY DEF Journal, JournalEntry, Work
<1>2. /\ q \in Seq(JournalEntry) /\ Len(q) = Len(j.entries) + 1 /\ Len(j.entries) \in Nat
      /\ DOMAIN j.entries = 1 .. Len(j.entries) /\ DOMAIN q = 1 .. Len(j.entries) + 1
      /\ \A i \in 1 .. Len(j.entries) : q[i] = j.entries[i]
      /\ q[Len(j.entries) + 1] = e
  BY <1>1, AppendProperties, LenProperties
<1>3. Recorded(j, w) = [j EXCEPT !.entries = q]
  BY DEF Recorded
<1> HIDE DEF q, e
<1>4. [j EXCEPT !.entries = q] \in Journal /\ [j EXCEPT !.entries = q].entries = q
      /\ [j EXCEPT !.entries = q].status = j.status
  BY <1>2 DEF Journal
<1> QED
  BY <1>2, <1>3, <1>4 DEF e

LEMMA RestIsWork ==
  /\ Rest \in Work /\ Rest.at = "rest" /\ Closing \in Work /\ Closing.at = "close"
  /\ [path \in Path |-> Absent] \in [Path -> Stored]
<1>1. Absent \in Stored /\ 0 \in 0 .. MaxEntries /\ FALSE \in BOOLEAN
  BY EffectsAssumption DEF Stored
<1>2. Rest \in Work /\ Rest.at = "rest"
  BY <1>1 DEF Rest, Work
<1>3. Closing \in Work /\ Closing.at = "close"
  BY <1>2 DEF Closing, Work
<1> QED
  BY <1>1, <1>2, <1>3

-----------------------------------------------------------------------------
(* Any number of processes *)

WorkBy(p, w) ==
    /\ work' \in [Proc -> Work]
    /\ work'[p] = w
    /\ \A q \in Proc \ {p} : work'[q] = work[q]

LEMMA WorkChanges ==
  ASSUME EveryStepIsPlaced, NEW p \in Proc, NEW w \in Work, work' = [work EXCEPT ![p] = w]
  PROVE  WorkBy(p, w)
BY DEF EveryStepIsPlaced, EffectTypes, WorkBy

\* A process steps, and nobody else is reverting when it touches journal or lock.
LEMMA OneSteps ==
  ASSUME EveryStepIsPlaced, NEW p \in Proc, NEW w \in Work, WorkBy(p, w),
         EffectTypes', JournalIsShort', Placed(p)',
         \A q \in Proc \ {p} : call'[q] = call[q],
         UNCHANGED <<lock, journal>> \/ lock = Nobody \/ lock = p
  PROVE  EveryStepIsPlaced'
<1>1. ASSUME NEW q \in Proc \ {p} PROVE Placed(q)'
  <2>1. Placed(q) /\ work'[q] = work[q] /\ call'[q] = call[q] /\ q # Nobody
    BY EffectsAssumption DEF EveryStepIsPlaced, WorkBy
  <2>2. CASE UNCHANGED <<lock, journal>>
    BY <2>1, <2>2 DEF Placed
  <2>3. CASE lock = Nobody \/ lock = p
    BY <2>1, <2>3 DEF Placed
  <2> QED
    BY <2>2, <2>3
<1> QED
  BY <1>1 DEF EveryStepIsPlaced

LEMMA UpsertIsPlaced ==
  ASSUME EveryStepIsPlaced, NEW p \in Proc, Upsert(p)
  PROVE  EveryStepIsPlaced'
<1>1. work[p] \in Work /\ Placed(p)
  BY DEF EveryStepIsPlaced, EffectTypes
<1>2. ASSUME NEW path \in Path, NEW c \in Content, UpsertRead(p, path, c)
      PROVE  EveryStepIsPlaced'
  <2> DEFINE w == [Rest EXCEPT !.at = "check", !.path = path, !.before = file[path], !.after = c]
  <2>1. /\ w \in Work /\ w.at = "check" /\ w.path = path /\ w.after = c
    <3>1. Rest \in Work /\ file[path] \in Stored /\ c \in Stored
      BY RestIsWork DEF EveryStepIsPlaced, EffectTypes, Stored
    <3> QED
      BY <3>1 DEF Work
  <2>2. /\ work' = [work EXCEPT ![p] = w] /\ call[p] = Idle
        /\ UNCHANGED <<sessionVars, file, journal, lock, edits, history>>
    BY <1>2 DEF UpsertRead, AtRest
  <2> HIDE DEF w
  <2>3. WorkBy(p, w)
    BY <2>1, <2>2, WorkChanges
  <2> QED
    BY <2>1, <2>2, <2>3, OneSteps
    DEF EveryStepIsPlaced, EffectTypes, JournalIsShort, Placed, WorkBy, sessionVars, history
<1>3. CASE UpsertCheck(p)
  <2>1. PICK s \in {"record", "rest"} :
          work' = [work EXCEPT ![p] = IF s = "record" THEN [work[p] EXCEPT !.at = "record"] ELSE Rest]
    BY <1>3 DEF UpsertCheck, Stop
  <2> DEFINE w == IF s = "record" THEN [work[p] EXCEPT !.at = "record"] ELSE Rest
  <2>2. /\ w \in Work /\ w.at = s /\ (s = "record" => w.path = work[p].path /\ w.after = work[p].after)
    BY <1>1, RestIsWork DEF Work
  <2>3. work[p].at = "check" /\ UNCHANGED <<sessionVars, file, journal, lock, edits, history>>
    BY <1>3 DEF UpsertCheck
  <2> HIDE DEF w
  <2>4. WorkBy(p, w)
    BY <2>1, <2>2, WorkChanges DEF w
  <2> QED
    BY <1>1, <2>2, <2>3, <2>4, OneSteps
    DEF EveryStepIsPlaced, EffectTypes, JournalIsShort, Placed, WorkBy, sessionVars, history
<1>4. CASE UpsertRecord(p)
  <2> DEFINE j == IF journal = Absent THEN EmptyJournal ELSE journal
  <2>1. /\ work[p].at = "record" /\ lock = Nobody
        /\ UNCHANGED <<sessionVars, file, lock, edits, wrote>>
    BY <1>4 DEF UpsertRecord
  <2>2. j \in Journal
    BY DEF EveryStepIsPlaced, EffectTypes, EmptyJournal, Journal
  <2>3. CASE j.status # "open"
    <3>1. work' = [work EXCEPT ![p] = Rest] /\ UNCHANGED <<journal, origin>>
      BY <1>4, <2>3 DEF UpsertRecord, Stop
    <3>2. WorkBy(p, Rest)
      BY <3>1, RestIsWork, WorkChanges
    <3>3. EffectTypes' /\ JournalIsShort'
      BY <2>1, <3>1, <3>2 DEF EveryStepIsPlaced, EffectTypes, JournalIsShort, WorkBy
    <3>4. Placed(p)'
      BY <3>2, RestIsWork DEF Placed, WorkBy
    <3>5. UNCHANGED <<call, lock, journal>>
      BY <2>1, <3>1 DEF sessionVars
    <3> QED
      BY <3>2, <3>3, <3>4, <3>5, RestIsWork, OneSteps
  <2>4. CASE j.status = "open"
    <3> DEFINE w == [work[p] EXCEPT !.at = "write"]
    <3>1. /\ Len(j.entries) < MaxEntries /\ journal' = Recorded(j, work[p])
          /\ origin' = origin \/ origin' = [origin EXCEPT ![work[p].path] = file[work[p].path]]
          /\ work' = [work EXCEPT ![p] = w]
      BY <1>4, <2>4 DEF UpsertRecord
    <3>2. w \in Work /\ w.at = "write" /\ w.path = work[p].path /\ w.after = work[p].after
      BY <1>1 DEF Work
    <3> HIDE DEF w, j
    <3>3. work[p].path \in Path /\ work[p].after \in Content /\ call[p] = Idle
      BY <1>1, <2>1 DEF Placed
    <3>4. journal' \in Journal /\ Len(journal'.entries) <= MaxEntries
      <4>1. PICK k \in Journal : k = j
        BY <2>2
      <4>2. /\ Recorded(k, work[p]) \in Journal /\ Len(k.entries) \in Nat
            /\ Len(Recorded(k, work[p]).entries) = Len(k.entries) + 1
        BY <1>1, <3>3, RecordedIsAppended
      <4> QED
        BY <3>1, <4>1, <4>2, EffectsAssumption
    <3>5. WorkBy(p, w)
      BY <3>1, <3>2, WorkChanges
    <3>6. origin' \in [Path -> Stored]
      BY <3>1, <3>3 DEF EveryStepIsPlaced, EffectTypes
    <3>7. EffectTypes'
      BY <2>1, <3>4, <3>5, <3>6 DEF EveryStepIsPlaced, EffectTypes, WorkBy
    <3> QED
      BY <2>1, <3>2, <3>3, <3>4, <3>5, <3>7, OneSteps
      DEF JournalIsShort, Placed, WorkBy, sessionVars
  <2> QED
    BY <2>3, <2>4
<1>5. CASE UpsertWrite(p)
  <2>1. /\ work[p].at = "write" /\ work[p].path \in Path /\ work[p].after \in Content
        /\ work' = [work EXCEPT ![p] = Rest] /\ file' = [file EXCEPT ![work[p].path] = work[p].after]
        /\ wrote' = wrote \cup {[path |-> work[p].path, after |-> work[p].after]}
        /\ UNCHANGED <<call, journal, lock, edits, origin>>
    BY <1>1, <1>5 DEF UpsertWrite, Stop, Placed
  <2>2. WorkBy(p, Rest)
    BY <2>1, RestIsWork, WorkChanges
  <2>3. EffectTypes'
    BY <2>1, <2>2 DEF EveryStepIsPlaced, EffectTypes, WorkBy, Stored
  <2> QED
    BY <2>1, <2>2, <2>3, RestIsWork, OneSteps DEF EveryStepIsPlaced, JournalIsShort, Placed, WorkBy
<1> QED
  BY <1>2, <1>3, <1>4, <1>5 DEF Upsert

\* Steps of a finalize that leave the files alone.
LEMMA SettleStep ==
  ASSUME EveryStepIsPlaced, NEW p \in Proc, NEW w \in Work, work' = [work EXCEPT ![p] = w],
         w.at \in {"rest", "settle", "close", "promote"},
         w.at \notin {"rest", "promote"} => call'[p] = Idle,
         \A q \in Proc \ {p} : call'[q] = call[q],
         journal' \in {journal, Absent, [journal EXCEPT !.status = "recovered"]},
         journal = Absent => journal' = Absent,
         lock' \in {lock, Nobody},
         UNCHANGED <<lock, journal>> \/ lock = Nobody \/ lock = p,
         origin' \in {origin, NoOrigin}, wrote' \in {wrote, {}},
         UNCHANGED <<file, edits>>
  PROVE  EveryStepIsPlaced'
<1>1. WorkBy(p, w)
  BY WorkChanges
<1>2. journal' \in Journal \cup {Absent} /\ (journal' # Absent => journal'.entries = journal.entries)
  BY JournalIsThere DEF EveryStepIsPlaced, EffectTypes, Journal
<1>3. EffectTypes'
  BY <1>1, <1>2, RestIsWork DEF EveryStepIsPlaced, EffectTypes, WorkBy, NoOrigin
<1>4. JournalIsShort'
  BY <1>2 DEF EveryStepIsPlaced, JournalIsShort
<1>5. Placed(p)'
  BY <1>1 DEF Placed, WorkBy
<1> QED
  BY <1>1, <1>3, <1>4, <1>5, OneSteps

LEMMA AfterRecoverIsWork ==
  ASSUME NEW p \in Proc
  PROVE  AfterRecover(p) \in Work /\ AfterRecover(p).at \in {"rest", "close"}
BY RestIsWork DEF AfterRecover

LEMMA FinalizingIsPlaced ==
  ASSUME EveryStepIsPlaced, NEW p \in Proc, Finalizing(p)
  PROVE  EveryStepIsPlaced'
<1>1. work[p] \in Work /\ Placed(p)
  BY DEF EveryStepIsPlaced, EffectTypes
<1>2. ASSUME NEW d \in {"none", "commit", "recover"}, FinalizeBegin(p, d)
      PROVE  EveryStepIsPlaced'
  <2> DEFINE w == IF d = "none" THEN Closing
                  ELSE [Rest EXCEPT !.at = "settle", !.decision = d, !.pending = has_pending]
  <2>1. w \in Work /\ w.at \in {"close", "settle"}
    <3>1. has_pending \in BOOLEAN
      BY DEF has_pending
    <3>2. \A b \in BOOLEAN :
            /\ [Rest EXCEPT !.at = "settle", !.decision = d, !.pending = b] \in Work
            /\ [Rest EXCEPT !.at = "settle", !.decision = d, !.pending = b].at = "settle"
      BY RestIsWork DEF Work
    <3> QED
      BY <3>1, <3>2, RestIsWork
  <2>2. work' = [work EXCEPT ![p] = w] /\ call[p] = Idle /\ UNCHANGED call
        /\ UNCHANGED <<file, journal, lock, edits, origin, wrote>>
    BY <1>2 DEF FinalizeBegin, AtRest, sessionVars, history
  <2> HIDE DEF w
  <2> QED
    BY <2>1, <2>2, SettleStep
<1>3. CASE Commit(p)
  <2>1. /\ lock = Nobody /\ call[p] = Idle /\ UNCHANGED <<call, file, lock, edits>>
        /\ \/ work' = [work EXCEPT ![p] = Rest] /\ UNCHANGED <<journal, origin, wrote>>
           \/ /\ work' = [work EXCEPT ![p] = Closing] /\ journal' = Absent
              /\ origin' = NoOrigin /\ wrote' = {}
    BY <1>1, <1>3 DEF Commit, Stop, Placed, sessionVars, history
  <2> QED
    BY <2>1, RestIsWork, SettleStep
<1>4. CASE RecoverNothing(p)
  <2>1. /\ call[p] = Idle /\ UNCHANGED <<call, file, journal, lock, edits, origin, wrote>>
        /\ work' = [work EXCEPT ![p] = AfterRecover(p)]
    BY <1>1, <1>4 DEF RecoverNothing, Placed, sessionVars, history
  <2> QED
    BY <2>1, AfterRecoverIsWork, SettleStep
<1>5. CASE RecoverBegin(p)
  <2> DEFINE w == [work[p] EXCEPT !.at = "compare", !.left = Len(journal.entries)]
  <2>1. /\ lock = Nobody /\ lock' = p /\ journal # Absent /\ journal.status = "open"
        /\ call[p] = Idle /\ work' = [work EXCEPT ![p] = w]
        /\ UNCHANGED <<call, file, journal, edits, origin, wrote>>
    BY <1>1, <1>5 DEF RecoverBegin, Placed, sessionVars, history
  <2>2. Len(journal.entries) \in 0 .. MaxEntries
    BY <2>1, JournalEntries, EffectsAssumption DEF EveryStepIsPlaced, EffectTypes, JournalIsShort
  <2>3. w \in Work /\ w.at = "compare" /\ w.left = Len(journal.entries)
    BY <1>1, <2>2 DEF Work
  <2> HIDE DEF w
  <2>4. WorkBy(p, w)
    BY <2>1, <2>3, WorkChanges
  <2>5. EffectTypes'
    BY <2>1, <2>4 DEF EveryStepIsPlaced, EffectTypes, WorkBy
  <2>6. Placed(p)'
    BY <2>1, <2>2, <2>3, <2>4 DEF Placed, WorkBy
  <2> QED
    BY <2>1, <2>3, <2>4, <2>5, <2>6, OneSteps DEF EveryStepIsPlaced, JournalIsShort
<1>6. CASE RecoverCompare(p)
  <2>1. /\ work[p].at = "compare" /\ work[p].left > 0 /\ lock = p /\ call[p] = Idle
        /\ journal # Absent /\ journal.status = "open" /\ work[p].left <= Len(journal.entries)
        /\ UNCHANGED <<call, file, journal, edits, origin, wrote>>
    BY <1>1, <1>6 DEF RecoverCompare, Left, Placed, sessionVars, history
  <2>2. CASE lock' = Nobody /\ work' = [work EXCEPT ![p] = Rest]
    BY <2>1, <2>2, RestIsWork, SettleStep
  <2>3. CASE UNCHANGED lock /\ work' = [work EXCEPT ![p].at = "revert"]
    <3> DEFINE w == [work[p] EXCEPT !.at = "revert"]
    <3>1. w \in Work /\ w.at = "revert" /\ w.left = work[p].left
      BY <1>1 DEF Work
    <3>2. work' = [work EXCEPT ![p] = w]
      BY <2>3
    <3> HIDE DEF w
    <3>3. WorkBy(p, w)
      BY <3>1, <3>2, WorkChanges
    <3>4. EffectTypes' /\ Placed(p)'
      BY <2>1, <2>3, <3>1, <3>3 DEF EveryStepIsPlaced, EffectTypes, Placed, WorkBy
    <3> QED
      BY <2>1, <2>3, <3>1, <3>3, <3>4, OneSteps DEF EveryStepIsPlaced, JournalIsShort
  <2> QED
    BY <1>6, <2>2, <2>3 DEF RecoverCompare, Stop
<1>7. CASE RecoverRevert(p)
  <2> DEFINE w == [work[p] EXCEPT !.at = "compare", !.left = work[p].left - 1]
             e == journal.entries[work[p].left]
  <2>1. /\ work[p].at = "revert" /\ work[p].left > 0 /\ lock = p /\ call[p] = Idle
        /\ journal # Absent /\ journal.status = "open" /\ work[p].left <= Len(journal.entries)
        /\ file' = [file EXCEPT ![e.path] = e.before] /\ work' = [work EXCEPT ![p] = w]
        /\ UNCHANGED <<call, journal, lock, edits, origin, wrote>>
    BY <1>1, <1>7 DEF RecoverRevert, Left, Placed, sessionVars, history
  <2>2. work[p].left \in 1 .. MaxEntries /\ work[p].left - 1 \in 0 .. MaxEntries
    BY <1>1, <2>1, EffectsAssumption DEF Work
  <2>3. e \in JournalEntry
    BY <2>1, <2>2, JournalEntries, EffectsAssumption DEF EveryStepIsPlaced, EffectTypes
  <2>4. w \in Work /\ w.at = "compare" /\ w.left = work[p].left - 1
    BY <1>1, <2>2 DEF Work
  <2>5. file' \in [Path -> Stored]
    BY <2>1, <2>3 DEF EveryStepIsPlaced, EffectTypes, JournalEntry
  <2> HIDE DEF w, e
  <2>6. WorkBy(p, w)
    BY <2>1, <2>4, WorkChanges
  <2>7. Len(journal.entries) \in Nat
    BY <2>1, JournalEntries DEF EveryStepIsPlaced, EffectTypes
  <2>8. EffectTypes' /\ Placed(p)'
    BY <2>1, <2>2, <2>4, <2>5, <2>6, <2>7, EffectsAssumption
    DEF EveryStepIsPlaced, EffectTypes, Placed, WorkBy
  <2> QED
    BY <2>1, <2>4, <2>6, <2>8, OneSteps DEF EveryStepIsPlaced, JournalIsShort
<1>8. CASE RecoverDone(p)
  <2>1. /\ lock = p /\ lock' = Nobody /\ call[p] = Idle /\ UNCHANGED <<call, file, edits>>
        /\ journal # Absent
        /\ journal' = [journal EXCEPT !.status = "recovered"] /\ origin' = NoOrigin /\ wrote' = {}
        /\ work' = [work EXCEPT ![p] = AfterRecover(p)]
    BY <1>1, <1>8 DEF RecoverDone, Placed
  <2> QED
    BY <2>1, AfterRecoverIsWork, SettleStep
<1>9. ASSUME NEW r \in Result, Close(p, r) PROVE EveryStepIsPlaced'
  <2> DEFINE w == [work[p] EXCEPT !.at = "promote"]
  <2>1. w \in Work /\ w.at = "promote" /\ work' = [work EXCEPT ![p] = w]
    BY <1>1, <1>9 DEF Work, Close
  <2>2. /\ UNCHANGED <<file, journal, lock, edits, origin, wrote>>
        /\ \A q \in Proc \ {p} : call'[q] = call[q]
    BY <1>9 DEF Close, Finalize, history
  <2> HIDE DEF w
  <2> QED
    BY <2>1, <2>2, SettleStep
<1>10. CASE CloseUnknown(p)
  BY <1>10, RestIsWork, SettleStep DEF CloseUnknown, Stop, sessionVars, history
<1>11. CASE Promote(p)
  <2>1. /\ work' = [work EXCEPT ![p] = Rest] /\ UNCHANGED <<call, journal, lock, edits, origin, wrote>>
        /\ file' \in [Path -> Stored]
    BY <1>11 DEF Promote, Stop, sessionVars, history, EveryStepIsPlaced, EffectTypes, Stored
  <2>2. WorkBy(p, Rest)
    BY <2>1, RestIsWork, WorkChanges
  <2> QED
    BY <2>1, <2>2, RestIsWork, OneSteps
    DEF EveryStepIsPlaced, EffectTypes, JournalIsShort, Placed, WorkBy
<1> QED
  BY <1>2, <1>3, <1>4, <1>5, <1>6, <1>7, <1>8, <1>9, <1>10, <1>11 DEF Finalizing

\* The other tools do not move a process that is in an upsert or a finalize.
LEMMA OtherToolIsPlaced ==
  ASSUME EveryStepIsPlaced, NEW p \in Proc, OtherTool(p)
  PROVE  EveryStepIsPlaced'
<1>1. /\ work[p].at \in {"rest", "promote"}
      /\ UNCHANGED <<file, journal, lock, work, edits, origin, wrote>>
  BY RestIsWork DEF OtherTool, effectVars
<1>2. \A q \in Proc \ {p} : call'[q] = call[q]
  <2> SUFFICES ASSUME NEW q \in Proc \ {p} PROVE call'[q] = call[q]
    OBVIOUS
  <2>1. ASSUME NEW mr \in RoundArg, NEW s \in BOOLEAN, Post(p, mr, s) PROVE call'[q] = call[q]
    BY <2>1 DEF Post
  <2>2. ASSUME NEW mr \in RoundArg, Advance(p, mr) PROVE call'[q] = call[q]
    BY <2>2 DEF Advance
  <2>3. ASSUME NEW mr \in RoundArg, Open(p, mr) PROVE call'[q] = call[q]
    BY <2>3 DEF Open
  <2>4. Spill(p) => call'[q] = call[q]
    <3> DEFINE c == [call[p] EXCEPT !.at = "save"]
    <3>1. Spill(p) => call' = [call EXCEPT ![p] = c]
      BY DEF Spill
    <3> HIDE DEF c
    <3>2. call' = [call EXCEPT ![p] = c] => call'[q] = call[q]
      OBVIOUS
    <3> QED
      BY <3>1, <3>2
  <2>5. Save(p) => call'[q] = call[q]
    BY DEF Save
  <2>6. Read(p) => call'[q] = call[q]
    BY DEF Read
  <2> QED
    BY <2>1, <2>2, <2>3, <2>4, <2>5, <2>6 DEF OtherTool, Begin, Proceed
<1>3. ASSUME NEW q \in Proc PROVE Placed(q)'
  BY <1>1, <1>2 DEF EveryStepIsPlaced, Placed
<1> QED
  BY <1>1, <1>3 DEF EveryStepIsPlaced, EffectTypes, JournalIsShort

LEMMA DieIsPlaced ==
  ASSUME EveryStepIsPlaced, NEW p \in Proc, Die(p)
  PROVE  EveryStepIsPlaced'
<1>1. /\ work' = [work EXCEPT ![p] = Rest] /\ UNCHANGED <<file, journal, edits, origin, wrote>>
      /\ lock' = (IF lock = p THEN Nobody ELSE lock)
      /\ \A q \in Proc \ {p} : call'[q] = call[q]
  BY DEF Die, Restart, Stop, history
<1>2. WorkBy(p, Rest)
  BY <1>1, RestIsWork, WorkChanges
<1> QED
  BY <1>1, <1>2, RestIsWork, OneSteps
  DEF EveryStepIsPlaced, EffectTypes, JournalIsShort, Placed, WorkBy

LEMMA EditIsPlaced ==
  ASSUME EveryStepIsPlaced, NEW path \in Path, NEW c \in Content \cup {Absent}, Edit(path, c)
  PROVE  EveryStepIsPlaced'
<1>1. /\ file' = [file EXCEPT ![path] = c] /\ edits' = edits + 1 /\ edits < MaxEdits
      /\ UNCHANGED <<call, journal, lock, work, origin, wrote>>
  BY DEF Edit, sessionVars, history
<1>2. edits' \in 0 .. MaxEdits
  BY <1>1, EffectsAssumption DEF EveryStepIsPlaced, EffectTypes
<1> QED
  BY <1>1, <1>2 DEF EveryStepIsPlaced, EffectTypes, JournalIsShort, Placed, Stored

LEMMA PlacedInit == Init => EveryStepIsPlaced
<1> SUFFICES ASSUME Init PROVE EveryStepIsPlaced
  OBVIOUS
<1>1. edits \in 0 .. MaxEdits
  BY EffectsAssumption DEF Init
<1>2. EffectTypes
  BY <1>1, RestIsWork DEF Init, EffectTypes, Stored, NoOrigin
<1> QED
  BY <1>2, RestIsWork DEF Init, EveryStepIsPlaced, JournalIsShort, Placed

LEMMA PlacedStep == EveryStepIsPlaced /\ [Next]_vars => EveryStepIsPlaced'
<1> SUFFICES ASSUME EveryStepIsPlaced, [Next]_vars PROVE EveryStepIsPlaced'
  OBVIOUS
<1>1. ASSUME UNCHANGED vars PROVE EveryStepIsPlaced'
  BY <1>1 DEF vars, sessionVars, effectVars, EveryStepIsPlaced, EffectTypes, JournalIsShort, Placed
<1> QED
  BY <1>1, UpsertIsPlaced, FinalizingIsPlaced, OtherToolIsPlaced, DieIsPlaced, EditIsPlaced DEF Next

LEMMA AlwaysPlaced == Spec => []EveryStepIsPlaced
BY PlacedInit, PlacedStep, PTL DEF Spec

\* Upserts, recoveries and finalizes do to a session what MasSession says can be done
\* to it: theirs are steps of that specification, for any number of processes.
THEOREM SessionIsRefined == Spec => SessionSpec
<1>1. Init => SessionInit
  BY DEF Init
<1>2. EveryStepIsPlaced /\ [Next]_vars => [SessionNext]_sessionVars
  <2> SUFFICES ASSUME EveryStepIsPlaced, Next PROVE [SessionNext]_sessionVars
    BY DEF vars
  <2>1. ASSUME NEW p \in Proc, Upsert(p) PROVE [SessionNext]_sessionVars
    <3>1. UpsertWrite(p) => Read(p)
      BY DEF EveryStepIsPlaced, Placed, UpsertWrite, Read
    <3> QED
      BY <2>1, <3>1 DEF Upsert, UpsertRead, UpsertCheck, UpsertRecord, SessionNext, Begin
  <2>2. ASSUME NEW p \in Proc, Finalizing(p) PROVE [SessionNext]_sessionVars
    <3>1. RecoverDone(p) => Read(p)
      BY DEF EveryStepIsPlaced, Placed, RecoverDone, Read
    <3>2. ASSUME NEW r \in Result, Close(p, r) PROVE Finalize(p, r)
      BY <3>2 DEF Close
    <3> QED
      BY <2>2, <3>1, <3>2 DEF Finalizing, FinalizeBegin, Commit, RecoverNothing, RecoverBegin,
         RecoverCompare, RecoverRevert, CloseUnknown, Promote, SessionNext, Begin
  <2>3. ASSUME NEW p \in Proc, OtherTool(p) PROVE SessionNext
    BY <2>3 DEF OtherTool, SessionNext
  <2>4. ASSUME NEW p \in Proc, Die(p) PROVE SessionNext
    BY <2>4 DEF Die, SessionNext
  <2>5. ASSUME NEW path \in Path, NEW c \in Content \cup {Absent}, Edit(path, c)
        PROVE  UNCHANGED sessionVars
    BY <2>5 DEF Edit
  <2> QED
    BY <2>1, <2>2, <2>3, <2>4, <2>5 DEF Next
<1> QED
  BY <1>1, <1>2, AlwaysPlaced, PTL DEF Spec, SessionSpec

\* The types of the journal and of the calls that use it.
THEOREM EffectsAreTyped == Spec => []TypeOK
<1>1. EveryStepIsPlaced /\ SessionTypeOK => TypeOK
  BY DEF EveryStepIsPlaced, EffectTypes, TypeOK
<1> QED
  BY <1>1, AlwaysPlaced, SessionIsRefined, SessionIsTyped, PTL

-----------------------------------------------------------------------------
(* One process: what an upsert or a finalize does to the journal *)

\* Nothing: a call is refused or done, or it has not come to the files yet.
Waits ==
    /\ UNCHANGED <<journal, origin, wrote>>
    /\ \A p \in Proc : work'[p].at \in {"rest", "settle", "close", "promote"}

\* The writes are kept or undone.
Settles ==
    /\ journal' = Absent \/ (journal # Absent /\ journal' = [journal EXCEPT !.status = "recovered"])
    /\ wrote' = {}
    /\ \A p \in Proc : work'[p].at \in {"rest", "close"}

Reads(p) ==
    /\ UNCHANGED <<file, journal, origin, wrote>>
    /\ work'[p].at = "check" /\ work'[p].before = file[work'[p].path]

Passes(p) ==
    /\ work[p].at = "check" /\ work'[p] = [work[p] EXCEPT !.at = "record"]
    /\ UNCHANGED <<file, journal, origin, wrote>>

Opened == IF journal = Absent THEN EmptyJournal ELSE journal

Records(p) ==
    /\ work[p].at = "record" /\ work'[p] = [work[p] EXCEPT !.at = "write"]
    /\ Opened.status = "open" /\ journal' = Recorded(Opened, work[p])
    /\ origin' = IF \A i \in DOMAIN Opened.entries : Opened.entries[i].path # work[p].path
                 THEN [origin EXCEPT ![work[p].path] = file[work[p].path]] ELSE origin
    /\ UNCHANGED <<file, wrote>>

Writes(p) ==
    /\ work[p].at = "write" /\ work'[p].at = "rest"
    /\ wrote' = wrote \cup {[path |-> work[p].path, after |-> work[p].after]}
    /\ UNCHANGED <<journal, origin>>

Reverting(p) ==
    /\ journal # Absent /\ journal.status = "open" /\ work[p].left \in 0 .. Len(journal.entries)
    /\ UNCHANGED <<journal, origin, wrote>>

StartsReverting(p) ==
    /\ journal # Absent /\ journal.status = "open"
    /\ work'[p].at = "compare" /\ work'[p].left = Len(journal.entries)
    /\ UNCHANGED <<file, journal, origin, wrote>>

FindsItsOwn(p) ==
    /\ Reverting(p) /\ UNCHANGED file
    /\ work[p].at = "compare" /\ work'[p].at = "revert" /\ work'[p].left = work[p].left
    /\ file[journal.entries[work[p].left].path] = journal.entries[work[p].left].after

Reverts(p) ==
    /\ Reverting(p) /\ work[p].left > 0
    /\ work[p].at = "revert" /\ work'[p].at = "compare" /\ work'[p].left = work[p].left - 1
    /\ file' = [file EXCEPT ![journal.entries[work[p].left].path] =
                  journal.entries[work[p].left].before]

OneMoves ==
    \/ Waits \/ Settles
    \/ \E p \in Proc :
           Reads(p) \/ Passes(p) \/ Records(p) \/ Writes(p) \/ StartsReverting(p)
           \/ FindsItsOwn(p) \/ Reverts(p)

LEMMA WorkIsOnes ==
  ASSUME OneProcess, EveryStepIsPlaced, NEW p \in Proc, NEW w \in Work,
         work' = [work EXCEPT ![p] = w]
  PROVE  work'[p] = w /\ \A q \in Proc : work'[q] = w
<1>1. WorkBy(p, w)
  BY WorkChanges
<1> QED
  BY <1>1 DEF WorkBy, OneProcess

LEMMA OneStops ==
  ASSUME OneProcess, EveryStepIsPlaced, NEW p \in Proc, NEW w \in Work,
         work' = [work EXCEPT ![p] = w], w.at \in {"rest", "settle", "close", "promote"},
         UNCHANGED <<journal, origin, wrote>>
  PROVE  Waits
BY WorkIsOnes DEF Waits

LEMMA UpsertMoves ==
  ASSUME OneProcess, EveryStepIsPlaced, NEW p \in Proc, Upsert(p)
  PROVE  OneMoves
<1>1. work[p] \in Work /\ Placed(p)
  BY DEF EveryStepIsPlaced, EffectTypes
<1>2. ASSUME NEW path \in Path, NEW c \in Content, UpsertRead(p, path, c)
      PROVE  Reads(p)
  <2> DEFINE w == [Rest EXCEPT !.at = "check", !.path = path, !.before = file[path], !.after = c]
  <2>1. w \in Work /\ w.at = "check" /\ w.path = path /\ w.before = file[path]
    <3>1. Rest \in Work /\ file[path] \in Stored /\ c \in Stored
      BY RestIsWork DEF EveryStepIsPlaced, EffectTypes, Stored
    <3> QED
      BY <3>1 DEF Work
  <2>2. work' = [work EXCEPT ![p] = w] /\ UNCHANGED <<file, journal, origin, wrote>>
    BY <1>2 DEF UpsertRead, history
  <2> HIDE DEF w
  <2> QED
    BY <2>1, <2>2, WorkIsOnes DEF Reads
<1>3. CASE UpsertCheck(p)
  <2> DEFINE w == [work[p] EXCEPT !.at = "record"]
  <2>1. w \in Work
    BY <1>1 DEF Work
  <2>2. /\ work[p].at = "check" /\ UNCHANGED <<file, journal, origin, wrote>>
        /\ work' = [work EXCEPT ![p] = w] \/ work' = [work EXCEPT ![p] = Rest]
    BY <1>3 DEF UpsertCheck, Stop, history
  <2>3. CASE work' = [work EXCEPT ![p] = w]
    <3>1. work'[p] = w
      BY <2>1, <2>3, WorkIsOnes
    <3> QED
      BY <2>2, <3>1 DEF Passes, OneMoves
  <2>4. CASE work' = [work EXCEPT ![p] = Rest]
    BY <2>2, <2>4, RestIsWork, OneStops DEF OneMoves
  <2> QED
    BY <2>2, <2>3, <2>4
<1>4. CASE UpsertRecord(p)
  <2> DEFINE w == [work[p] EXCEPT !.at = "write"]
  <2>1. w \in Work
    BY <1>1 DEF Work
  <2>2. /\ work[p].at = "record" /\ UNCHANGED <<file, wrote>>
        /\ \/ work' = [work EXCEPT ![p] = Rest] /\ UNCHANGED <<journal, origin>>
           \/ /\ Opened.status = "open" /\ journal' = Recorded(Opened, work[p])
              /\ origin' = IF \A i \in DOMAIN Opened.entries :
                                  Opened.entries[i].path # work[p].path
                           THEN [origin EXCEPT ![work[p].path] = file[work[p].path]] ELSE origin
              /\ work' = [work EXCEPT ![p] = w]
    BY <1>4 DEF UpsertRecord, Opened, Stop
  <2>3. CASE work' = [work EXCEPT ![p] = Rest] /\ UNCHANGED <<journal, origin>>
    BY <2>2, <2>3, RestIsWork, OneStops DEF OneMoves
  <2>4. CASE work' = [work EXCEPT ![p] = w]
    <3>1. work'[p] = w /\ work'[p].at = "write"
      BY <1>1, <2>1, <2>4, WorkIsOnes DEF Work
    <3>2. work' # [work EXCEPT ![p] = Rest]
      BY <3>1, RestIsWork, WorkIsOnes
    <3> QED
      BY <2>2, <3>1, <3>2 DEF Records, OneMoves
  <2> QED
    BY <2>2, <2>3, <2>4
<1>5. CASE UpsertWrite(p)
  <2>1. /\ work[p].at = "write" /\ work' = [work EXCEPT ![p] = Rest]
        /\ wrote' = wrote \cup {[path |-> work[p].path, after |-> work[p].after]}
        /\ UNCHANGED <<journal, origin>>
    BY <1>5 DEF UpsertWrite, Stop
  <2> QED
    BY <2>1, RestIsWork, WorkIsOnes DEF Writes, OneMoves
<1> QED
  BY <1>2, <1>3, <1>4, <1>5 DEF Upsert, OneMoves

LEMMA FinalizingMoves ==
  ASSUME OneProcess, EveryStepIsPlaced, NEW p \in Proc, Finalizing(p)
  PROVE  OneMoves
<1>1. work[p] \in Work /\ Placed(p)
  BY DEF EveryStepIsPlaced, EffectTypes
<1>2. ASSUME NEW d \in {"none", "commit", "recover"}, FinalizeBegin(p, d)
      PROVE  Waits
  <2> DEFINE w == IF d = "none" THEN Closing
                  ELSE [Rest EXCEPT !.at = "settle", !.decision = d, !.pending = has_pending]
  <2>1. w \in Work /\ w.at \in {"close", "settle"}
    <3>1. has_pending \in BOOLEAN
      BY DEF has_pending
    <3>2. \A b \in BOOLEAN :
            /\ [Rest EXCEPT !.at = "settle", !.decision = d, !.pending = b] \in Work
            /\ [Rest EXCEPT !.at = "settle", !.decision = d, !.pending = b].at = "settle"
      BY RestIsWork DEF Work
    <3> QED
      BY <3>1, <3>2, RestIsWork
  <2>2. work' = [work EXCEPT ![p] = w] /\ UNCHANGED <<journal, origin, wrote>>
    BY <1>2 DEF FinalizeBegin, history
  <2> HIDE DEF w
  <2> QED
    BY <2>1, <2>2, OneStops
<1>3. CASE Commit(p)
  <2>1. \/ work' = [work EXCEPT ![p] = Rest] /\ UNCHANGED <<journal, origin, wrote>>
        \/ work' = [work EXCEPT ![p] = Closing] /\ journal' = Absent /\ wrote' = {}
    BY <1>3 DEF Commit, Stop, history
  <2>2. CASE work' = [work EXCEPT ![p] = Rest] /\ UNCHANGED <<journal, origin, wrote>>
    BY <2>2, RestIsWork, OneStops DEF OneMoves
  <2>3. CASE work' = [work EXCEPT ![p] = Closing] /\ journal' = Absent /\ wrote' = {}
    BY <2>3, RestIsWork, WorkIsOnes DEF Settles, OneMoves
  <2> QED
    BY <2>1, <2>2, <2>3
<1>4. CASE RecoverNothing(p)
  <2>1. work' = [work EXCEPT ![p] = AfterRecover(p)] /\ UNCHANGED <<journal, origin, wrote>>
    BY <1>4 DEF RecoverNothing, history
  <2> QED
    BY <2>1, AfterRecoverIsWork, OneStops DEF OneMoves
<1>5. CASE RecoverBegin(p)
  <2> DEFINE w == [work[p] EXCEPT !.at = "compare", !.left = Len(journal.entries)]
  <2>1. /\ journal # Absent /\ journal.status = "open" /\ work' = [work EXCEPT ![p] = w]
        /\ UNCHANGED <<file, journal, origin, wrote>>
    BY <1>5 DEF RecoverBegin, history
  <2>2. Len(journal.entries) \in 0 .. MaxEntries
    BY <2>1, JournalEntries, EffectsAssumption DEF EveryStepIsPlaced, EffectTypes, JournalIsShort
  <2>3. w \in Work /\ w.at = "compare" /\ w.left = Len(journal.entries)
    BY <1>1, <2>2 DEF Work
  <2> HIDE DEF w
  <2> QED
    BY <2>1, <2>3, WorkIsOnes DEF StartsReverting, OneMoves
<1>6. CASE RecoverCompare(p)
  <2> DEFINE w == [work[p] EXCEPT !.at = "revert"]
  <2>1. /\ work[p].at = "compare" /\ UNCHANGED <<file, journal, origin, wrote>>
        /\ \/ work' = [work EXCEPT ![p] = Rest]
           \/ /\ work' = [work EXCEPT ![p] = w]
              /\ file[journal.entries[work[p].left].path] = journal.entries[work[p].left].after
    BY <1>6 DEF RecoverCompare, Conflicting, Left, Stop, history
  <2>2. w \in Work /\ w.at = "revert" /\ w.left = work[p].left
    BY <1>1 DEF Work
  <2>3. Reverting(p)
    <3>1. journal # Absent /\ journal.status = "open" /\ work[p].left <= Len(journal.entries)
      BY <1>1, <2>1 DEF Placed
    <3>2. Len(journal.entries) \in Nat /\ work[p].left \in Nat
      BY <1>1, <3>1, JournalEntries, EffectsAssumption DEF EveryStepIsPlaced, EffectTypes, Work
    <3> QED
      BY <2>1, <3>1, <3>2 DEF Reverting
  <2> HIDE DEF w
  <2>4. CASE work' = [work EXCEPT ![p] = Rest]
    BY <2>1, <2>4, RestIsWork, OneStops DEF OneMoves
  <2>5. CASE /\ work' = [work EXCEPT ![p] = w]
             /\ file[journal.entries[work[p].left].path] = journal.entries[work[p].left].after
    BY <2>1, <2>2, <2>3, <2>5, WorkIsOnes DEF FindsItsOwn, OneMoves
  <2> QED
    BY <2>1, <2>4, <2>5
<1>7. CASE RecoverRevert(p)
  <2> DEFINE w == [work[p] EXCEPT !.at = "compare", !.left = work[p].left - 1]
  <2>1. /\ work[p].at = "revert" /\ work' = [work EXCEPT ![p] = w]
        /\ file' = [file EXCEPT ![journal.entries[work[p].left].path] =
                      journal.entries[work[p].left].before]
        /\ UNCHANGED <<journal, origin, wrote>>
    BY <1>7 DEF RecoverRevert, Left, history
  <2>2. /\ journal # Absent /\ journal.status = "open" /\ work[p].left <= Len(journal.entries)
        /\ work[p].left > 0 /\ work[p].left \in 0 .. MaxEntries
    BY <1>1, <2>1 DEF Placed, Work
  <2>3. Len(journal.entries) \in Nat
    BY <2>2, JournalEntries DEF EveryStepIsPlaced, EffectTypes
  <2>4. Reverting(p) /\ work[p].left - 1 \in 0 .. MaxEntries
    BY <2>1, <2>2, <2>3, EffectsAssumption DEF Reverting
  <2>5. w \in Work /\ w.at = "compare" /\ w.left = work[p].left - 1
    BY <1>1, <2>4 DEF Work
  <2> HIDE DEF w
  <2> QED
    BY <2>1, <2>2, <2>4, <2>5, WorkIsOnes DEF Reverts, OneMoves
<1>8. CASE RecoverDone(p)
  <2>1. /\ journal # Absent /\ journal' = [journal EXCEPT !.status = "recovered"] /\ wrote' = {}
        /\ work' = [work EXCEPT ![p] = AfterRecover(p)]
    BY <1>1, <1>8 DEF RecoverDone, Placed
  <2> QED
    BY <2>1, AfterRecoverIsWork, WorkIsOnes DEF Settles, OneMoves
<1>9. ASSUME NEW r \in Result, Close(p, r) PROVE Waits
  <2> DEFINE w == [work[p] EXCEPT !.at = "promote"]
  <2>1. /\ w \in Work /\ w.at = "promote" /\ work' = [work EXCEPT ![p] = w]
        /\ UNCHANGED <<journal, origin, wrote>>
    BY <1>1, <1>9 DEF Work, Close, history
  <2> HIDE DEF w
  <2> QED
    BY <2>1, OneStops
<1>10. CASE CloseUnknown(p) \/ Promote(p)
  BY <1>10, RestIsWork, OneStops DEF CloseUnknown, Promote, Stop, history, OneMoves
<1> QED
  BY <1>2, <1>3, <1>4, <1>5, <1>6, <1>7, <1>8, <1>9, <1>10 DEF Finalizing, OneMoves

LEMMA AnyStepMoves ==
  ASSUME OneProcess, EveryStepIsPlaced, Next
  PROVE  OneMoves
<1>1. ASSUME NEW p \in Proc, OtherTool(p) PROVE Waits
  <2>1. work[p].at \in {"rest", "promote"} /\ UNCHANGED <<journal, work, origin, wrote>>
    BY <1>1, RestIsWork DEF OtherTool, effectVars
  <2> QED
    BY <2>1 DEF Waits, OneProcess
<1>2. ASSUME NEW p \in Proc, Die(p) PROVE Waits
  BY <1>2, RestIsWork, OneStops DEF Die, Stop, history
<1>3. ASSUME NEW path \in Path, NEW c \in Content \cup {Absent}, Edit(path, c) PROVE Waits
  BY <1>3, RestIsWork DEF Edit, AtRest, history, Waits
<1> QED
  BY <1>1, <1>2, <1>3, UpsertMoves, FinalizingMoves DEF Next, OneMoves

-----------------------------------------------------------------------------
(* One process: the invariants *)

InJournal(path, after) ==
    /\ journal # Absent
    /\ \E i \in DOMAIN journal.entries :
           journal.entries[i].path = path /\ journal.entries[i].after = after

\* A write is in the journal before it is made.
WritesCanBeUndone ==
    /\ \A w \in wrote : InJournal(w.path, w.after)
    /\ \A p \in Proc : work[p].at = "write" => InJournal(work[p].path, work[p].after)

\* The first entry after k that has the path of entry j.
First(s, j, k, i) ==
    /\ i \in DOMAIN s /\ i > k /\ s[i].path = s[j].path
    /\ \A h \in DOMAIN s : h > k /\ h < i => s[h].path # s[j].path

\* The first entry of a path says what was there before the session.
OriginsAreKept ==
    /\ journal # Absent /\ journal.status = "open" =>
         \A j \in DOMAIN journal.entries : \E i :
             /\ First(journal.entries, j, 0, i)
             /\ journal.entries[i].before = origin[journal.entries[i].path]
    /\ \A p \in Proc : work[p].at \in {"check", "record"} =>
           work[p].before = file[work[p].path]

\* A recovery has undone what comes after the entries it has left.
UndoneSoFar ==
    \A p \in Proc :
        /\ work[p].at \in {"compare", "revert"} =>
             \A j \in DOMAIN journal.entries : j > work[p].left => \E i :
                 /\ First(journal.entries, j, work[p].left, i)
                 /\ file[journal.entries[i].path] = journal.entries[i].before
        /\ work[p].at = "revert" =>
             file[journal.entries[work[p].left].path] = journal.entries[work[p].left].after

\* A session that is closing, or closed, has nothing pending.
NothingIsLate ==
    /\ FinalIsSettled
    /\ \A p \in Proc :
           call[p].at # "idle" /\ call[p].s.status = "final" => ~has_pending
    /\ \A p \in Proc : work[p].at = "close" => ~has_pending
    /\ \A p \in Proc : work[p].at \in {"record", "write"} => doc # Absent /\ doc.status # "final"

\* What a record does to the entries.
LEMMA RecordsEntries ==
  ASSUME EveryStepIsPlaced, NEW p \in Proc, Records(p)
  PROVE  /\ work[p].path \in Path /\ work[p].after \in Content
         /\ journal' \in Journal /\ journal'.status = "open" /\ Opened \in Journal
         /\ \E n \in Nat :
              /\ DOMAIN Opened.entries = 1 .. n /\ DOMAIN journal'.entries = 1 .. n + 1
              /\ \A i \in 1 .. n : journal'.entries[i] = Opened.entries[i]
              /\ journal'.entries[n + 1] =
                   [path |-> work[p].path, before |-> work[p].before, after |-> work[p].after]
<1>1. work[p].path \in Path /\ work[p].after \in Content /\ work[p] \in Work
  BY DEF Records, EveryStepIsPlaced, EffectTypes, Placed
<1>2. Opened \in Journal
  BY DEF Opened, EveryStepIsPlaced, EffectTypes, EmptyJournal, Journal
<1>3. PICK j \in Journal, w \in Work : j = Opened /\ w = work[p]
  BY <1>1, <1>2
<1>4. journal' = Recorded(j, w) /\ j.status = "open"
  BY <1>3 DEF Records
<1>5. /\ Recorded(j, w) \in Journal /\ Recorded(j, w).status = j.status
      /\ Len(j.entries) \in Nat
      /\ DOMAIN j.entries = 1 .. Len(j.entries)
      /\ DOMAIN Recorded(j, w).entries = 1 .. Len(j.entries) + 1
      /\ \A i \in 1 .. Len(j.entries) : Recorded(j, w).entries[i] = j.entries[i]
      /\ Recorded(j, w).entries[Len(j.entries) + 1] =
           [path |-> w.path, before |-> w.before, after |-> w.after]
  BY <1>1, <1>3, RecordedIsAppended
<1>6. PICK k, n : k = Recorded(j, w) /\ n = Len(j.entries)
  BY <1>5
<1> QED
  BY <1>1, <1>2, <1>3, <1>4, <1>5, <1>6

LEMMA WritesStep ==
  ASSUME OneProcess, EveryStepIsPlaced, WritesCanBeUndone, OneMoves
  PROVE  WritesCanBeUndone'
<1>1. CASE Waits
  BY <1>1 DEF Waits, WritesCanBeUndone, InJournal
<1>2. CASE Settles
  BY <1>2 DEF Settles, WritesCanBeUndone
<1>3. ASSUME NEW p \in Proc, Records(p) PROVE WritesCanBeUndone'
  <2>1. journal' # Absent /\ wrote' = wrote /\ work'[p] = [work[p] EXCEPT !.at = "write"]
    BY <1>3, RecordsEntries, JournalIsThere DEF Records
  <2>2. work[p] \in Work
    BY DEF EveryStepIsPlaced, EffectTypes
  <2>3. PICK n \in Nat :
          /\ DOMAIN Opened.entries = 1 .. n /\ DOMAIN journal'.entries = 1 .. n + 1
          /\ \A i \in 1 .. n : journal'.entries[i] = Opened.entries[i]
          /\ journal'.entries[n + 1] =
               [path |-> work[p].path, before |-> work[p].before, after |-> work[p].after]
    BY <1>3, RecordsEntries
  <2>4. ASSUME NEW path, NEW after, InJournal(path, after) PROVE InJournal(path, after)'
    <3>1. PICK i \in DOMAIN journal.entries :
            journal.entries[i].path = path /\ journal.entries[i].after = after
      BY <2>4 DEF InJournal
    <3>2. Opened = journal
      BY <2>4 DEF InJournal, Opened
    <3>3. i \in 1 .. n /\ i \in 1 .. n + 1
      BY <2>3, <3>1, <3>2
    <3>4. journal'.entries[i] = journal.entries[i] /\ i \in DOMAIN journal'.entries
      BY <2>3, <3>2, <3>3
    <3> QED
      BY <2>1, <3>1, <3>4 DEF InJournal
  <2>5. InJournal(work[p].path, work[p].after)'
    BY <2>1, <2>2, <2>3 DEF InJournal, Work
  <2> QED
    BY <2>1, <2>4, <2>5 DEF WritesCanBeUndone, OneProcess
<1>4. ASSUME NEW p \in Proc, Writes(p) PROVE WritesCanBeUndone'
  BY <1>4 DEF Writes, WritesCanBeUndone, InJournal, OneProcess
<1>5. ASSUME NEW p \in Proc, Reads(p) \/ StartsReverting(p) \/ FindsItsOwn(p) \/ Reverts(p)
      PROVE  WritesCanBeUndone'
  BY <1>5 DEF Reads, StartsReverting, FindsItsOwn, Reverts, Reverting, WritesCanBeUndone,
     InJournal, OneProcess
<1>6. ASSUME NEW p \in Proc, Passes(p) PROVE WritesCanBeUndone'
  <2>1. work'[p].at = "record"
    BY <1>6 DEF Passes, EveryStepIsPlaced, EffectTypes, Work
  <2> QED
    BY <1>6, <2>1 DEF Passes, WritesCanBeUndone, InJournal, OneProcess
<1> QED
  BY <1>1, <1>2, <1>3, <1>4, <1>5, <1>6 DEF OneMoves

LEMMA FirstsOfAppended ==
  ASSUME NEW s, NEW t, NEW n \in Nat, DOMAIN s = 1 .. n, DOMAIN t = 1 .. n + 1,
         \A i \in 1 .. n : t[i] = s[i]
  PROVE  /\ \A j \in 1 .. n : \A i : First(s, j, 0, i) => First(t, j, 0, i)
         /\ \A j \in 1 .. n : \A i :
              First(s, j, 0, i) /\ s[j].path = t[n + 1].path => First(t, n + 1, 0, i)
         /\ (\A j \in 1 .. n : s[j].path # t[n + 1].path) => First(t, n + 1, 0, n + 1)
BY DEF First

LEMMA FirstsOfReverted ==
  ASSUME NEW s, NEW n \in Nat, DOMAIN s = 1 .. n, NEW l \in 1 .. n
  PROVE  /\ \A j \in 1 .. n : \A i :
              First(s, j, l, i) /\ s[j].path # s[l].path => First(s, j, l - 1, i)
         /\ \A j \in 1 .. n : s[j].path = s[l].path => First(s, j, l - 1, l)
BY DEF First

LEMMA OriginsStep ==
  ASSUME OneProcess, EveryStepIsPlaced, OriginsAreKept, OneMoves
  PROVE  OriginsAreKept'
<1>1. CASE Waits
  BY <1>1 DEF Waits, OriginsAreKept
<1>2. CASE Settles
  <2>1. journal' = Absent \/ journal'.status # "open"
    BY <1>2 DEF Settles, EveryStepIsPlaced, EffectTypes, Journal
  <2> QED
    BY <1>2, <2>1 DEF Settles, OriginsAreKept
<1>3. ASSUME NEW p \in Proc, Records(p) PROVE OriginsAreKept'
  <2>1. PICK n \in Nat :
          /\ DOMAIN Opened.entries = 1 .. n /\ DOMAIN journal'.entries = 1 .. n + 1
          /\ \A i \in 1 .. n : journal'.entries[i] = Opened.entries[i]
          /\ journal'.entries[n + 1] =
               [path |-> work[p].path, before |-> work[p].before, after |-> work[p].after]
    BY <1>3, RecordsEntries
  <2>2. /\ work[p].at = "record" /\ work[p].path \in Path /\ work'[p].at = "write"
        /\ work[p].before = file[work[p].path]
    BY <1>3, RecordsEntries DEF Records, OriginsAreKept, EveryStepIsPlaced, EffectTypes, Work
  <2>3. \A j \in 1 .. n : \E i :
          /\ First(Opened.entries, j, 0, i)
          /\ Opened.entries[i].before = origin[Opened.entries[i].path]
    BY <1>3, <2>1 DEF Records, OriginsAreKept, Opened, EmptyJournal
  <2>4. PICK s, t : s = Opened.entries /\ t = journal'.entries
    OBVIOUS
  <2>5. /\ \A j \in 1 .. n : \A i : First(s, j, 0, i) => First(t, j, 0, i)
        /\ \A j \in 1 .. n : \A i :
             First(s, j, 0, i) /\ s[j].path = t[n + 1].path => First(t, n + 1, 0, i)
        /\ (\A j \in 1 .. n : s[j].path # t[n + 1].path) => First(t, n + 1, 0, n + 1)
    BY <2>1, <2>4, FirstsOfAppended
  <2>6. \A j \in 1 .. n + 1 : \E i : First(t, j, 0, i) /\ t[i].before = origin'[t[i].path]
    <3> DEFINE new == \A i \in 1 .. n : s[i].path # work[p].path
    <3>1. /\ origin \in [Path -> Stored]
          /\ origin' = IF new THEN [origin EXCEPT ![work[p].path] = file[work[p].path]] ELSE origin
      BY <1>3, <2>1, <2>4 DEF Records, EveryStepIsPlaced, EffectTypes
    <3>2. ASSUME NEW j \in 1 .. n
          PROVE  \E i \in 1 .. n :
                   /\ First(s, j, 0, i) /\ First(t, j, 0, i)
                   /\ t[i].before = origin[t[i].path] /\ t[i].path = s[i].path
      <4>1. PICK i : First(s, j, 0, i) /\ s[i].before = origin[s[i].path]
        BY <2>3, <2>4
      <4>2. i \in 1 .. n
        BY <2>1, <2>4, <4>1 DEF First
      <4>3. t[i] = s[i] /\ First(t, j, 0, i)
        BY <2>1, <2>4, <2>5, <4>1, <4>2
      <4> QED
        BY <4>1, <4>2, <4>3
    <3>3. /\ t[n + 1].path = work[p].path
          /\ new => t[n + 1].before = origin'[t[n + 1].path]
      BY <2>1, <2>2, <2>4, <3>1
    <3>4. ASSUME NEW j \in 1 .. n
          PROVE  \E i : First(t, j, 0, i) /\ t[i].before = origin'[t[i].path]
      <4>1. PICK i \in 1 .. n :
              /\ First(t, j, 0, i) /\ t[i].before = origin[t[i].path] /\ t[i].path = s[i].path
        BY <3>2
      <4>2. origin'[t[i].path] = origin[t[i].path]
        BY <2>2, <3>1, <4>1
      <4> QED
        BY <4>1, <4>2
    <3>5. \E i : First(t, n + 1, 0, i) /\ t[i].before = origin'[t[i].path]
      <4>1. CASE new
        BY <2>5, <3>3, <4>1
      <4>2. CASE ~new
        <5>1. PICK j \in 1 .. n : s[j].path = work[p].path
          BY <4>2
        <5>2. PICK i \in 1 .. n :
                First(s, j, 0, i) /\ t[i].before = origin[t[i].path]
          BY <3>2
        <5> QED
          BY <2>5, <3>1, <3>3, <4>2, <5>1, <5>2
      <4> QED
        BY <4>1, <4>2
    <3> QED
      BY <3>4, <3>5
  <2> QED
    BY <2>1, <2>2, <2>4, <2>6 DEF OriginsAreKept, OneProcess
<1>4. ASSUME NEW p \in Proc, Writes(p) \/ StartsReverting(p) \/ FindsItsOwn(p) \/ Reverts(p)
      PROVE  OriginsAreKept'
  BY <1>4 DEF Writes, StartsReverting, FindsItsOwn, Reverts, Reverting, OriginsAreKept, OneProcess
<1>5. ASSUME NEW p \in Proc, Reads(p) PROVE OriginsAreKept'
  BY <1>5 DEF Reads, OriginsAreKept, OneProcess
<1>6. ASSUME NEW p \in Proc, Passes(p) PROVE OriginsAreKept'
  <2>1. work'[p].before = work[p].before /\ work'[p].path = work[p].path
    BY <1>6 DEF Passes, EveryStepIsPlaced, EffectTypes, Work
  <2> QED
    BY <1>6, <2>1 DEF Passes, OriginsAreKept, OneProcess
<1> QED
  BY <1>1, <1>2, <1>3, <1>4, <1>5, <1>6 DEF OneMoves

LEMMA UndoneStep ==
  ASSUME OneProcess, EveryStepIsPlaced, UndoneSoFar, OneMoves
  PROVE  UndoneSoFar'
<1>1. CASE Waits \/ Settles
  BY <1>1 DEF Waits, Settles, UndoneSoFar
<1>2. ASSUME NEW p \in Proc, Reads(p) \/ Passes(p) \/ Records(p) \/ Writes(p) PROVE UndoneSoFar'
  <2>1. work'[p].at \in {"check", "record", "write", "rest"}
    BY <1>2 DEF Reads, Passes, Records, Writes, EveryStepIsPlaced, EffectTypes, Work
  <2> QED
    BY <2>1 DEF UndoneSoFar, OneProcess
<1>3. ASSUME NEW p \in Proc, StartsReverting(p) PROVE UndoneSoFar'
  <2>1. /\ Len(journal.entries) \in Nat /\ DOMAIN journal.entries = 1 .. Len(journal.entries)
    BY <1>3, JournalEntries DEF StartsReverting, EveryStepIsPlaced, EffectTypes
  <2>2. /\ work'[p].at = "compare" /\ UNCHANGED <<file, journal>>
        /\ \A j \in DOMAIN journal.entries : ~(j > work'[p].left)
    BY <1>3, <2>1 DEF StartsReverting
  <2> QED
    BY <2>2 DEF UndoneSoFar, OneProcess
<1>4. ASSUME NEW p \in Proc, FindsItsOwn(p) PROVE UndoneSoFar'
  BY <1>4 DEF FindsItsOwn, Reverting, UndoneSoFar, OneProcess
<1>5. ASSUME NEW p \in Proc, Reverts(p) PROVE UndoneSoFar'
  <2>1. PICK s, n, l : s = journal.entries /\ n = Len(s) /\ l = work[p].left
    OBVIOUS
  <2>2. /\ n \in Nat /\ DOMAIN s = 1 .. n /\ l \in 1 .. n
        /\ \A i \in 1 .. n : s[i] \in JournalEntry
    BY <1>5, <2>1, JournalEntries DEF Reverts, Reverting, EveryStepIsPlaced, EffectTypes
  <2>3. /\ work'[p].at = "compare" /\ work'[p].left = l - 1 /\ journal' = journal
        /\ file' = [file EXCEPT ![s[l].path] = s[l].before] /\ file \in [Path -> Stored]
    BY <1>5, <2>1 DEF Reverts, Reverting, EveryStepIsPlaced, EffectTypes
  <2>4. \A j \in 1 .. n : j > l => \E i : First(s, j, l, i) /\ file[s[i].path] = s[i].before
    BY <1>5, <2>1, <2>2 DEF Reverts, UndoneSoFar
  <2>5. ASSUME NEW j \in 1 .. n, j > l - 1
        PROVE  \E i : First(s, j, l - 1, i) /\ file'[s[i].path] = s[i].before
    <3>1. CASE s[j].path = s[l].path
      <4>1. First(s, j, l - 1, l)
        BY <2>2, <3>1, FirstsOfReverted
      <4>2. file'[s[l].path] = s[l].before
        BY <2>2, <2>3 DEF JournalEntry
      <4> QED
        BY <4>1, <4>2
    <3>2. CASE s[j].path # s[l].path
      <4>1. PICK i : First(s, j, l, i) /\ file[s[i].path] = s[i].before
        BY <2>2, <2>4, <2>5, <3>2
      <4>2. First(s, j, l - 1, i)
        BY <2>2, <3>2, <4>1, FirstsOfReverted
      <4>3. s[i].path # s[l].path /\ s[i].path \in Path
        BY <2>2, <3>2, <4>1 DEF First, JournalEntry
      <4> QED
        BY <2>3, <4>1, <4>2, <4>3
    <3> QED
      BY <3>1, <3>2
  <2> QED
    BY <2>1, <2>2, <2>3, <2>5 DEF UndoneSoFar, OneProcess
<1> QED
  BY <1>1, <1>2, <1>3, <1>4, <1>5 DEF OneMoves

-----------------------------------------------------------------------------
(* One process: the session that is closed *)

\* What the session's tools do to the document, and to a call that will close it.
ClosesNothing(p) ==
    /\ doc' = doc \/ (call[p].at # "idle" /\ doc' = call[p].s)
    /\ call'[p].at # "idle" /\ call'[p].s.status = "final" =>
         call[p].at # "idle" /\ call[p].s.status = "final"

LEMMA ToolsCloseNothing ==
  ASSUME OneCopy, NEW p \in Proc, Begin(p) \/ Proceed(p)
  PROVE  ClosesNothing(p)
<1> USE DEF ClosesNothing
<1>0. SessionTypeOK /\ call \in [Proc -> Call]
  BY DEF OneCopy, EveryCopyIsSound, SessionTypeOK
<1>1. ASSUME NEW mr \in RoundArg, NEW b \in BOOLEAN, Post(p, mr, b) PROVE ClosesNothing(p)
  <2>1. PICK s : s = get_or_create_session(p, mr)
    OBVIOUS
  <2>2. /\ Loaded(s) /\ posts < MaxPosts /\ s.status # "final" /\ doc' = doc
        /\ call' = [call EXCEPT ![p] = [at |-> IF b THEN "spill" ELSE "save", tool |-> "post",
                       s |-> WithEntry(s, posts + 1, b), op |-> posts + 1]]
    BY <1>1, <2>1, LoadedIsLoaded DEF Post, OneCopy
  <2>3. WithEntry(s, posts + 1, b).status # "final"
    BY <1>0, <2>2, EntryIsAppended
  <2>4. call'[p].s = WithEntry(s, posts + 1, b)
    BY <1>0, <2>2
  <2> QED
    BY <2>2, <2>3, <2>4
<1>2. ASSUME NEW mr \in RoundArg, Advance(p, mr) PROVE ClosesNothing(p)
  <2>1. PICK s : s = get_or_create_session(p, mr)
    OBVIOUS
  <2>2. /\ s \in Document /\ s.status # "final" /\ doc' = doc
        /\ call' = [call EXCEPT ![p] = [at |-> "save", tool |-> "status", op |-> 0,
                                        s |-> [s EXCEPT !.round = @ + 1]]]
    BY <1>2, <2>1, LoadedIsLoaded DEF Advance, MayAdvance, OneCopy, Loaded
  <2>3. call'[p].s = [s EXCEPT !.round = @ + 1]
    BY <1>0, <2>2
  <2> QED
    BY <2>2, <2>3 DEF Document
<1>3. ASSUME NEW mr \in RoundArg, Open(p, mr) PROVE ClosesNothing(p)
  <2>1. cache[p] = Absent /\ doc = Absent
    BY <1>3 DEF Open, load_session
  <2>2. get_or_create_session(p, mr).status = "active"
    BY <2>1 DEF get_or_create_session, Fresh
  <2>3. call'[p].s = get_or_create_session(p, mr) /\ doc' = doc
    BY <1>0, <1>3 DEF Open
  <2> QED
    BY <2>2, <2>3
<1>4. CASE Read(p)
  BY <1>4 DEF Read
<1>5. CASE Save(p)
  BY <1>0, <1>5 DEF Save, Idle
<1>6. CASE Spill(p)
  <2>1. call'[p] = [call[p] EXCEPT !.at = "save"] /\ call[p] \in Call /\ call[p].at = "spill"
        /\ doc' = doc
    BY <1>0, <1>6 DEF Spill
  <2> QED
    BY <2>1 DEF Call
<1> QED
  BY <1>1, <1>2, <1>3, <1>4, <1>5, <1>6 DEF Begin, Proceed

LEMMA NoneIsLate ==
  ASSUME EveryStepIsPlaced, NothingIsLate, UNCHANGED <<doc, call>>, has_pending' => has_pending,
         \A q \in Proc : work'[q].at = "close" => ~has_pending',
         \A q \in Proc : work'[q].at \in {"record", "write"} =>
             doc # Absent /\ doc.status # "final"
  PROVE  NothingIsLate'
BY DEF NothingIsLate, FinalIsSettled

LEMMA UpsertIsNotLate ==
  ASSUME OneProcess, OneCopy, EveryStepIsPlaced, NothingIsLate, NEW p \in Proc, Upsert(p)
  PROVE  NothingIsLate'
<1>1. work[p] \in Work /\ Placed(p)
  BY DEF EveryStepIsPlaced, EffectTypes
<1>2. ASSUME NEW path \in Path, NEW c \in Content, UpsertRead(p, path, c)
      PROVE  NothingIsLate'
  <2>1. PICK w : w = [Rest EXCEPT !.at = "check", !.path = path, !.before = file[path], !.after = c]
    OBVIOUS
  <2>2. w \in Work /\ w.at = "check"
    <3>1. Rest \in Work /\ file[path] \in Stored /\ c \in Stored
      BY RestIsWork DEF EveryStepIsPlaced, EffectTypes, Stored
    <3> QED
      BY <2>1, <3>1 DEF Work
  <2>3. work' = [work EXCEPT ![p] = w] /\ UNCHANGED <<doc, call, journal>>
    BY <1>2, <2>1 DEF UpsertRead, sessionVars
  <2>4. \A q \in Proc : work'[q] = w
    BY <2>2, <2>3, WorkIsOnes
  <2> QED
    BY <2>2, <2>3, <2>4, NoneIsLate DEF has_pending
<1>3. CASE UpsertCheck(p)
  <2>1. PICK w : w = IF require_open_session(p) THEN [work[p] EXCEPT !.at = "record"] ELSE Rest
    OBVIOUS
  <2>2. w \in Work /\ w.at \in {"record", "rest"} /\ (w.at = "record" => require_open_session(p))
    BY <1>1, <2>1, RestIsWork DEF Work
  <2>3. work' = [work EXCEPT ![p] = w] /\ UNCHANGED <<doc, call, journal>>
    BY <1>3, <2>1 DEF UpsertCheck, Stop, sessionVars
  <2>4. require_open_session(p) => doc # Absent /\ doc.status # "final"
    BY DEF require_open_session, load_session, OneCopy
  <2>5. \A q \in Proc : work'[q] = w
    BY <2>2, <2>3, WorkIsOnes
  <2> QED
    BY <2>2, <2>3, <2>4, <2>5, NoneIsLate DEF has_pending
<1>4. CASE UpsertRecord(p)
  <2>1. /\ doc # Absent /\ doc.status # "final" /\ call[p] = Idle /\ work[p].at = "record"
        /\ UNCHANGED <<doc, call>>
    BY <1>1, <1>4 DEF UpsertRecord, NothingIsLate, Placed, sessionVars
  <2>2. PICK v \in {Rest, [work[p] EXCEPT !.at = "write"]} : work' = [work EXCEPT ![p] = v]
    BY <1>4 DEF UpsertRecord, Stop
  <2>3. v \in Work /\ v.at # "close"
    BY <1>1, RestIsWork DEF Work
  <2>4. \A q \in Proc : work'[q] = v
    BY <2>2, <2>3, WorkIsOnes
  <2> QED
    BY <2>1, <2>3, <2>4 DEF NothingIsLate, FinalIsSettled, OneProcess, Idle
<1>5. CASE UpsertWrite(p)
  <2>1. work' = [work EXCEPT ![p] = Rest] /\ UNCHANGED <<doc, call, journal>>
    BY <1>5 DEF UpsertWrite, Stop
  <2>2. \A q \in Proc : work'[q].at = "rest"
    BY <2>1, RestIsWork, WorkIsOnes
  <2> QED
    BY <2>1, <2>2, NoneIsLate DEF has_pending
<1> QED
  BY <1>2, <1>3, <1>4, <1>5 DEF Upsert

LEMMA FinalizingIsNotLate ==
  ASSUME OneProcess, OneCopy, EveryStepIsPlaced, NothingIsLate, NEW p \in Proc, Finalizing(p)
  PROVE  NothingIsLate'
<1>1. work[p] \in Work /\ Placed(p)
  BY DEF EveryStepIsPlaced, EffectTypes
\* The document and the journal stay; the call may be told to close if nothing is pending.
<1>2. ASSUME NEW w \in Work, work' = [work EXCEPT ![p] = w], UNCHANGED <<doc, call>>,
             has_pending' => has_pending,
             w.at = "close" => ~has_pending', w.at \notin {"record", "write"}
      PROVE  NothingIsLate'
  <2>1. \A q \in Proc : work'[q] = w
    BY <1>2, WorkIsOnes
  <2> QED
    BY <1>2, <2>1, NoneIsLate
<1>3. ASSUME NEW d \in {"none", "commit", "recover"}, FinalizeBegin(p, d)
      PROVE  NothingIsLate'
  <2>1. PICK w : w = IF d = "none" THEN Closing
                     ELSE [Rest EXCEPT !.at = "settle", !.decision = d, !.pending = has_pending]
    OBVIOUS
  <2>2. w \in Work /\ w.at \in {"close", "settle"} /\ (w.at = "close" => d = "none")
    <3>1. has_pending \in BOOLEAN
      BY DEF has_pending
    <3>2. \A b \in BOOLEAN :
            /\ [Rest EXCEPT !.at = "settle", !.decision = d, !.pending = b] \in Work
            /\ [Rest EXCEPT !.at = "settle", !.decision = d, !.pending = b].at = "settle"
      BY RestIsWork DEF Work
    <3> QED
      BY <2>1, <3>1, <3>2, RestIsWork
  <2>3. /\ work' = [work EXCEPT ![p] = w] /\ UNCHANGED <<doc, call, journal>>
        /\ d = "none" => ~has_pending
    BY <1>3, <2>1 DEF FinalizeBegin, sessionVars
  <2> QED
    BY <1>2, <2>2, <2>3 DEF has_pending
<1>4. CASE Commit(p)
  <2>1. /\ UNCHANGED <<doc, call>>
        /\ \/ work' = [work EXCEPT ![p] = Rest] /\ journal' = journal
           \/ work' = [work EXCEPT ![p] = Closing] /\ journal' = Absent
    BY <1>4 DEF Commit, Stop, sessionVars
  <2> QED
    BY <1>2, <2>1, RestIsWork DEF has_pending
<1>5. CASE RecoverNothing(p)
  <2>1. /\ work' = [work EXCEPT ![p] = AfterRecover(p)] /\ UNCHANGED <<doc, call, journal>>
        /\ ~has_pending
    BY <1>5 DEF RecoverNothing, sessionVars, has_pending
  <2> QED
    BY <1>2, <2>1, AfterRecoverIsWork DEF has_pending
<1>6. CASE RecoverBegin(p) \/ RecoverCompare(p) \/ RecoverRevert(p)
  <2>1. /\ UNCHANGED <<doc, call, journal>> /\ work[p].at \in {"settle", "compare", "revert"}
        /\ EveryStepIsPlaced'
    BY <1>6, FinalizingIsPlaced
    DEF RecoverBegin, RecoverCompare, RecoverRevert, sessionVars, Finalizing
  <2>2. work'[p].at \in {"compare", "revert", "rest"}
    <3>1. CASE RecoverBegin(p)
      BY <1>1, <3>1 DEF RecoverBegin, EveryStepIsPlaced, EffectTypes, Work
    <3>2. CASE RecoverCompare(p)
      BY <1>1, <3>2, RestIsWork DEF RecoverCompare, Stop, EveryStepIsPlaced, EffectTypes, Work
    <3>3. CASE RecoverRevert(p)
      BY <1>1, <3>3 DEF RecoverRevert, EveryStepIsPlaced, EffectTypes, Work
    <3> QED
      BY <1>6, <3>1, <3>2, <3>3
  <2>3. \A q \in Proc : work'[q].at \in {"compare", "revert", "rest"}
    BY <2>2 DEF OneProcess
  <2> QED
    BY <2>1, <2>3, NoneIsLate DEF has_pending
<1>7. CASE RecoverDone(p)
  <2>1. /\ journal # Absent /\ journal \in Journal
        /\ journal' = [journal EXCEPT !.status = "recovered"] /\ UNCHANGED <<doc, call>>
        /\ work' = [work EXCEPT ![p] = AfterRecover(p)]
    BY <1>1, <1>7 DEF RecoverDone, Placed, EveryStepIsPlaced, EffectTypes
  <2>2. journal'.status = "recovered"
    BY <2>1 DEF Journal
  <2> QED
    BY <1>2, <2>1, <2>2, AfterRecoverIsWork DEF has_pending
<1>8. ASSUME NEW r \in Result, Close(p, r) PROVE NothingIsLate'
  <2>1. PICK w : w = [work[p] EXCEPT !.at = "promote"]
    OBVIOUS
  <2>2. /\ w \in Work /\ w.at = "promote" /\ work' = [work EXCEPT ![p] = w]
        /\ work[p].at = "close" /\ UNCHANGED <<doc, journal>>
    BY <1>1, <1>8, <2>1 DEF Work, Close, Finalize
  <2>3. ~has_pending /\ ~has_pending'
    BY <2>2 DEF NothingIsLate, has_pending
  <2>4. \A q \in Proc : work'[q] = w
    BY <2>2, WorkIsOnes
  <2> QED
    BY <2>2, <2>3, <2>4 DEF NothingIsLate, FinalIsSettled
<1>9. CASE CloseUnknown(p) \/ Promote(p)
  <2>1. work' = [work EXCEPT ![p] = Rest] /\ UNCHANGED <<doc, call, journal>>
    BY <1>9 DEF CloseUnknown, Promote, Stop, sessionVars
  <2> QED
    BY <1>2, <2>1, RestIsWork DEF has_pending
<1> QED
  BY <1>3, <1>4, <1>5, <1>6, <1>7, <1>8, <1>9 DEF Finalizing

LEMMA LateStep ==
  ASSUME OneProcess, OneCopy, EveryStepIsPlaced, NothingIsLate, Next
  PROVE  NothingIsLate'
<1>1. ASSUME NEW p \in Proc, OtherTool(p) PROVE NothingIsLate'
  <2>1. /\ ClosesNothing(p) /\ UNCHANGED <<journal, work>> /\ work[p].at \in {"rest", "promote"}
    BY <1>1, RestIsWork, ToolsCloseNothing DEF OtherTool, effectVars
  <2> QED
    BY <2>1 DEF ClosesNothing, NothingIsLate, FinalIsSettled, has_pending, OneProcess
<1>2. ASSUME NEW p \in Proc, Die(p) PROVE NothingIsLate'
  <2>1. /\ UNCHANGED <<doc, journal>> /\ call' = [call EXCEPT ![p] = Idle]
        /\ work' = [work EXCEPT ![p] = Rest] /\ call \in [Proc -> Call]
    BY <1>2 DEF Die, Restart, Stop, OneCopy, EveryCopyIsSound, SessionTypeOK
  <2>2. \A q \in Proc : call'[q].at = "idle" /\ work'[q].at = "rest"
    BY <2>1, RestIsWork, WorkIsOnes DEF OneProcess, Idle
  <2> QED
    BY <2>1, <2>2 DEF NothingIsLate, FinalIsSettled, has_pending
<1>3. ASSUME NEW path \in Path, NEW c \in Content \cup {Absent}, Edit(path, c)
      PROVE  NothingIsLate'
  BY <1>3 DEF Edit, sessionVars, NothingIsLate, FinalIsSettled, has_pending
<1> QED
  BY <1>1, <1>2, <1>3, UpsertIsNotLate, FinalizingIsNotLate DEF Next

-----------------------------------------------------------------------------
(* One process: the theorems *)

\* The invariant for one process.
OneEffect ==
    /\ OneCopy /\ EveryStepIsPlaced
    /\ WritesCanBeUndone /\ OriginsAreKept /\ UndoneSoFar /\ NothingIsLate

LEMMA EffectInit == Init => WritesCanBeUndone /\ OriginsAreKept /\ UndoneSoFar /\ NothingIsLate
BY RestIsWork DEF Init, SessionInit, Idle, WritesCanBeUndone, OriginsAreKept, UndoneSoFar,
   NothingIsLate, FinalIsSettled

LEMMA EffectStep ==
  ASSUME OneProcess, OneEffect, [Next]_vars
  PROVE  (WritesCanBeUndone /\ OriginsAreKept /\ UndoneSoFar /\ NothingIsLate)'
<1>1. CASE Next
  BY <1>1, AnyStepMoves, WritesStep, OriginsStep, UndoneStep, LateStep DEF OneEffect
<1>2. CASE UNCHANGED vars
  BY <1>2 DEF vars, sessionVars, effectVars, OneEffect, WritesCanBeUndone, InJournal,
     OriginsAreKept, UndoneSoFar, NothingIsLate, FinalIsSettled, has_pending
<1> QED
  BY <1>1, <1>2

LEMMA AlwaysOneEffect ==
  ASSUME OneProcess
  PROVE  Spec => []OneEffect
<1> DEFINE Undoable == WritesCanBeUndone /\ OriginsAreKept /\ UndoneSoFar /\ NothingIsLate
<1>1. Init => Undoable
  BY EffectInit
<1>2. OneCopy /\ EveryStepIsPlaced /\ Undoable /\ [Next]_vars => Undoable'
  BY EffectStep DEF OneEffect
<1>3. Spec => []OneCopy
  BY SessionIsRefined, AlwaysOneCopy, PTL
<1>4. OneCopy /\ EveryStepIsPlaced /\ Undoable => OneEffect
  BY DEF OneEffect
<1> HIDE DEF Undoable
<1> QED
  BY <1>1, <1>2, <1>3, <1>4, AlwaysPlaced, PTL DEF Spec

\* Every write of the session that is not settled has its entry in the journal,
\* wherever the process has died.
THEOREM WritesAreInTheJournal ==
  ASSUME OneProcess
  PROVE  Spec => []WritesAreJournaled
<1>1. OneEffect => WritesAreJournaled
  BY DEF OneEffect, WritesCanBeUndone, InJournal, WritesAreJournaled
<1> QED
  BY <1>1, AlwaysOneEffect, PTL

\* A finalized session has no write that is neither kept nor reverted, although
\* mas_finalize settles the journal and saves the session in separate steps.
THEOREM FinalHasNothingPending ==
  ASSUME OneProcess
  PROVE  Spec => []FinalIsSettled
<1>1. OneEffect => FinalIsSettled
  BY DEF OneEffect, NothingIsLate
<1> QED
  BY <1>1, AlwaysOneEffect, PTL

\* A recovery that ends has put every file of the journal back to what it was
\* before the session, through any number of writes to it and recoveries cut off.
THEOREM RecoveryRestores ==
  ASSUME OneProcess
  PROVE  Spec => RecoveredIsRestored
<1> DEFINE Restored ==
      \A p \in Proc : RecoverDone(p) =>
          \A i \in DOMAIN journal.entries :
              file[journal.entries[i].path] = origin[journal.entries[i].path]
<1>1. OneEffect /\ [Next]_vars => [Restored]_vars
  <2> SUFFICES ASSUME OneEffect, NEW p \in Proc, RecoverDone(p),
                      NEW j \in DOMAIN journal.entries
               PROVE  file[journal.entries[j].path] = origin[journal.entries[j].path]
    OBVIOUS
  <2>1. PICK s : s = journal.entries
    OBVIOUS
  <2>2. /\ work[p].at = "compare" /\ work[p].left = 0
        /\ journal # Absent /\ journal.status = "open" /\ journal \in Journal
    BY DEF RecoverDone, Left, OneEffect, EveryStepIsPlaced, EffectTypes, Placed
  <2>3. DOMAIN s = 1 .. Len(s) /\ Len(s) \in Nat
    BY <2>1, <2>2, JournalEntries
  <2>4. PICK i : First(s, j, 0, i) /\ s[i].before = origin[s[i].path]
    BY <2>1, <2>2 DEF OneEffect, OriginsAreKept
  <2>5. PICK k : First(s, j, 0, k) /\ file[s[k].path] = s[k].before
    BY <2>1, <2>2, <2>3 DEF OneEffect, UndoneSoFar
  <2>6. i = k
    BY <2>3, <2>4, <2>5 DEF First
  <2> QED
    BY <2>1, <2>4, <2>5, <2>6 DEF First
<1> QED
  BY <1>1, AlwaysOneEffect, PTL DEF Spec, RecoveredIsRestored

\* A recovery overwrites no text but the session's own, whoever has edited the
\* files since.
THEOREM OthersTextIsKept ==
  ASSUME OneProcess
  PROVE  Spec => OnlyOwnTextIsReverted
<1> DEFINE Own ==
      \A p \in Proc : RecoverRevert(p) =>
          \A path \in Path : file'[path] # file[path] =>
              \E i \in DOMAIN journal.entries :
                  journal.entries[i].path = path /\ journal.entries[i].after = file[path]
<1>1. OneEffect /\ [Next]_vars => [Own]_vars
  <2> SUFFICES ASSUME OneEffect, NEW p \in Proc, RecoverRevert(p), NEW path \in Path,
                      file'[path] # file[path]
               PROVE  \E i \in DOMAIN journal.entries :
                        journal.entries[i].path = path /\ journal.entries[i].after = file[path]
    OBVIOUS
  <2>1. /\ work[p].at = "revert" /\ work[p] \in Work
        /\ file' = [file EXCEPT ![journal.entries[work[p].left].path] =
                      journal.entries[work[p].left].before]
        /\ file \in [Path -> Stored]
    BY DEF RecoverRevert, Left, OneEffect, EveryStepIsPlaced, EffectTypes
  <2>2. /\ journal # Absent /\ work[p].left <= Len(journal.entries) /\ work[p].left > 0
        /\ journal \in Journal /\ work[p].left \in Nat
    BY <2>1, EffectsAssumption DEF OneEffect, EveryStepIsPlaced, EffectTypes, Placed, Work
  <2>3. work[p].left \in DOMAIN journal.entries
    BY <2>2, JournalEntries
  <2>4. journal.entries[work[p].left].path = path
    BY <2>1
  <2> QED
    BY <2>1, <2>3, <2>4 DEF OneEffect, UndoneSoFar
<1> QED
  BY <1>1, AlwaysOneEffect, PTL DEF Spec, OnlyOwnTextIsReverted

\* What is proved of sessions holds of sessions whose writes are journaled too.
THEOREM SessionIsKept ==
  ASSUME OneProcess
  PROVE  Spec => []PostsStay /\ []SpillsAreTheirs /\ []WithinRounds /\ FinalIsFinal
BY SessionIsRefined, PostsAreKept, NotesAreRight, RoundsAreWithinBudget, FinalStays, PTL
=============================================================================
