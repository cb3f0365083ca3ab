----------------------------- MODULE ToolsProofs -----------------------------
(***************************************************************************)
(* Theorems about the tools that MCTools puts side by side: the statistics, *)
(* semantic_decide, results in pages.  Each is about the part by itself,    *)
(* for every value of its constants; bounds on them that a theorem needs    *)
(* are its assumptions.                                                    *)
(***************************************************************************)
EXTENDS MCTools, TLAPS, FiniteSetTheorems, SequenceTheorems

-----------------------------------------------------------------------------
(* Statistics *)

CountsTypes ==
    /\ counted = [p \in Server |-> counted[p]] /\ unsaved = [p \in Server |-> unsaved[p]]
    /\ up \subseteq Server

\* Calls are numbered as they end, and end no later than now.
CallsHaveEnded ==
    /\ clock \in Nat /\ marker \in Nat /\ marker <= clock
    /\ \E n \in Nat : Counts!Calls = 1 .. n
    /\ \A c \in Counts!Calls : at[c] \in Nat /\ at[c] <= clock

\* What was before the last handoff ended by then.
HandedBefore == handed \subseteq Counts!Calls /\ \A c \in handed : at[c] <= marker

\* A process that was always alone counts what it has not saved, and that is less than
\* would be saved at once.
CountsUnsaved(mine, disk, waiting) ==
    /\ waiting \in Nat /\ waiting < FlushThreshold
    /\ IsFiniteSet(mine \ disk) /\ Cardinality(mine \ disk) <= waiting

AloneIsCounted ==
    ~ several => \A p \in up : up = {p} /\ CountsUnsaved(counted[p], savings, unsaved[p])

CountsIInv ==
    CountsTypes /\ CallsHaveEnded /\ HandedBefore /\ AloneIsCounted /\ HandoffRelieves

\* The statistics count as the theorems on finite sets do.
LEMMA SameCardinalityOfCalls ==
    ASSUME NEW S
    PROVE  Counts!Cardinality(S) = Cardinality(S)
BY DEF Counts!Cardinality, Cardinality

\* A call that is observed gets the number after the last one's, and the time.
LEMMA CallEnds ==
    ASSUME CallsHaveEnded, UNCHANGED <<clock>>,
           NEW p, NEW mine, NEW waiting, NEW d, Counts!Finish(p, mine, waiting, d)
    PROVE  /\ Counts!Calls \subseteq Counts!Calls'
           /\ \A c \in Counts!Calls : at'[c] = at[c]
           /\ marker' \in Nat /\ marker' <= clock => CallsHaveEnded'
<1>1. CASE tacet
  <2>1. at' = at
    BY <1>1 DEF Counts!Finish
  <2> QED
    BY <2>1 DEF CallsHaveEnded, Counts!Calls
<1>2. CASE ~ tacet
  <2> DEFINE number == Cardinality(Counts!Calls) + 1
  <2>1. PICK n \in Nat : Counts!Calls = 1 .. n
    BY DEF CallsHaveEnded
  <2>2. Cardinality(1 .. n) = n
    BY FS_Interval
  <2>3. number = n + 1
    BY <2>1, <2>2
  <2>4. at' = [c \in Counts!Calls \cup {number} |-> IF c = number THEN clock ELSE at[c]]
    BY <1>2, SameCardinalityOfCalls DEF Counts!Finish
  <2> HIDE DEF number
  <2>5. Counts!Calls' = 1 .. (n + 1)
    BY <2>1, <2>3, <2>4 DEF Counts!Calls
  <2>6. \A c \in Counts!Calls : c # number /\ at'[c] = at[c]
    BY <2>1, <2>3, <2>4
  <2>7. \A c \in Counts!Calls' : at'[c] \in Nat /\ at'[c] <= clock
    <3>1. at'[number] = clock
      BY <2>4
    <3>2. \A c \in Counts!Calls' : c \in Counts!Calls \/ c = number
      BY <2>1, <2>3, <2>5
    <3> QED
      BY <2>6, <3>1, <3>2 DEF CallsHaveEnded
  <2>8. n + 1 \in Nat
    OBVIOUS
  <2> QED
    BY <2>1, <2>5, <2>6, <2>7, <2>8 DEF CallsHaveEnded
<1> QED
  BY <1>1, <1>2

\* What is not saved stays less than would be saved at once.
LEMMA FinishCounts ==
    ASSUME FlushThreshold \in Nat \ {0}, CountsTypes, UNCHANGED up,
           NEW p \in Server, NEW mine, NEW waiting, NEW d, Counts!Finish(p, mine, waiting, d)
    PROVE  /\ CountsTypes'
           /\ CountsUnsaved(mine, d, waiting) => CountsUnsaved(counted'[p], savings', unsaved'[p])
<1>1. CASE tacet
  BY <1>1 DEF Counts!Finish, CountsTypes, CountsUnsaved
<1>2. CASE ~ tacet
  <2> DEFINE number == Cardinality(Counts!Calls) + 1
             more == mine \cup {number}
  <2>1. counted' = [counted EXCEPT ![p] = more]
    BY <1>2, SameCardinalityOfCalls DEF Counts!Finish
  <2>2. \/ unsaved' = [unsaved EXCEPT ![p] = 0] /\ savings' = more
        \/ /\ ~ Counts!Full(waiting)
           /\ unsaved' = [unsaved EXCEPT ![p] = waiting + 1] /\ savings' = d
    BY <1>2, SameCardinalityOfCalls DEF Counts!Finish
  <2> HIDE DEF number
  <2>3. CountsTypes' /\ counted'[p] = more
    BY <2>1, <2>2 DEF CountsTypes
  <2>4. CASE unsaved' = [unsaved EXCEPT ![p] = 0] /\ savings' = more
    <3>1. unsaved'[p] = 0 /\ counted'[p] \ savings' = {}
      BY <2>3, <2>4 DEF CountsTypes
    <3> QED
      BY <2>3, <3>1, FS_EmptySet DEF CountsUnsaved
  <2>5. CASE ~ Counts!Full(waiting) /\ unsaved' = [unsaved EXCEPT ![p] = waiting + 1] /\ savings' = d
    <3> SUFFICES ASSUME CountsUnsaved(mine, d, waiting)
                 PROVE  CountsUnsaved(counted'[p], savings', unsaved'[p])
      BY <2>3
    <3>1. unsaved'[p] = waiting + 1 /\ counted'[p] \ savings' \subseteq (mine \ d) \cup {number}
      BY <2>3, <2>5 DEF CountsTypes
    <3>2. waiting \in Nat /\ waiting + 1 < FlushThreshold
      BY <2>5 DEF CountsUnsaved, Counts!Full
    <3>3. IsFiniteSet(mine \ d) /\ Cardinality(mine \ d) <= waiting
      BY DEF CountsUnsaved
    <3>4. /\ IsFiniteSet((mine \ d) \cup {number})
          /\ Cardinality((mine \ d) \cup {number}) \in {Cardinality(mine \ d), Cardinality(mine \ d) + 1}
      BY <3>3, FS_AddElement
    <3>5. /\ IsFiniteSet(counted'[p] \ savings')
          /\ Cardinality(counted'[p] \ savings') <= Cardinality((mine \ d) \cup {number})
      BY <3>1, <3>4, FS_Subset
    <3>6. Cardinality(mine \ d) \in Nat /\ Cardinality(counted'[p] \ savings') \in Nat
      BY <3>3, <3>5, FS_CardinalityType
    <3>7. Cardinality(counted'[p] \ savings') <= waiting + 1
      BY <3>2, <3>3, <3>4, <3>5, <3>6
    <3> QED
      BY <3>1, <3>2, <3>5, <3>7 DEF CountsUnsaved
  <2> QED
    BY <2>2, <2>3, <2>4, <2>5
<1> QED
  BY <1>1, <1>2

\* A tool that is called: its handler leaves the count as it was, saved or emptied.
LEMMA ToolIsCalled ==
    ASSUME FlushThreshold \in Nat \ {0}, CountsIInv, NEW p \in up, UNCHANGED <<clock, up, several>>,
           NEW mine, NEW waiting, NEW d, Counts!Finish(p, mine, waiting, d),
           \/ mine = counted[p] /\ waiting = unsaved[p] /\ d = savings
           \/ waiting = 0 /\ mine = d,
           \/ UNCHANGED <<marker, handed>>
           \/ marker' = clock /\ handed' = Counts!Calls,
           HandoffRelieves'
    PROVE  CountsIInv'
<1>1. CountsTypes /\ CallsHaveEnded /\ HandedBefore /\ AloneIsCounted /\ p \in Server
  BY DEF CountsIInv, CountsTypes
<1>2. CountsTypes'
  BY <1>1, FinishCounts
<1>3. marker' \in Nat /\ marker' <= clock
  BY <1>1 DEF CallsHaveEnded
<1>4. /\ CallsHaveEnded' /\ Counts!Calls \subseteq Counts!Calls'
      /\ \A c \in Counts!Calls : at'[c] = at[c]
  BY <1>1, <1>3, CallEnds
<1>5. HandedBefore'
  BY <1>1, <1>4 DEF HandedBefore, CallsHaveEnded
<1>6. AloneIsCounted'
  <2> SUFFICES ASSUME ~ several'
               PROVE  up' = {p} /\ CountsUnsaved(counted'[p], savings', unsaved'[p])
    BY DEF AloneIsCounted
  <2>1. up = {p} /\ CountsUnsaved(counted[p], savings, unsaved[p])
    BY <1>1 DEF AloneIsCounted
  <2>2. CountsUnsaved({}, {}, 0)
    BY FS_EmptySet DEF CountsUnsaved
  <2>3. d \ d = {} \ {}
    OBVIOUS
  <2>4. CountsUnsaved(d, d, 0)
    BY <2>2, <2>3 DEF CountsUnsaved
  <2>5. CountsUnsaved(mine, d, waiting)
    BY <2>1, <2>4
  <2> QED
    BY <1>1, <2>1, <2>5, FinishCounts
<1> QED
  BY <1>2, <1>4, <1>5, <1>6 DEF CountsIInv

\* CountsIInv is an invariant of the statistics.
THEOREM CountsInv ==
    ASSUME FlushThreshold \in Nat \ {0}
    PROVE  Counts!Spec => []CountsIInv
<1>1. Counts!Init => CountsIInv
  <2> SUFFICES ASSUME Counts!Init PROVE CountsIInv
    OBVIOUS
  <2>1. Counts!Calls = {} /\ 1 .. 0 = {} /\ clock = 1 /\ marker = 0
    BY DEF Counts!Init, Counts!Calls
  <2>2. CallsHaveEnded
    BY <2>1 DEF CallsHaveEnded
  <2> QED
    BY <2>2 DEF Counts!Init, CountsIInv, CountsTypes, HandedBefore, AloneIsCounted, HandoffRelieves,
                Counts!HandoffRelieves, Counts!NoReport
<1>2. CountsIInv /\ [Counts!Next]_Counts!statsVars => CountsIInv'
  <2> SUFFICES ASSUME CountsIInv, [Counts!Next]_Counts!statsVars PROVE CountsIInv'
    OBVIOUS
  <2>0. CountsTypes /\ CallsHaveEnded /\ HandedBefore /\ AloneIsCounted
    BY DEF CountsIInv
  <2>1. reported' = Counts!NoReport => HandoffRelieves'
    BY DEF HandoffRelieves, Counts!HandoffRelieves, Counts!NoReport
  <2>2. CASE UNCHANGED Counts!statsVars
    BY <2>2 DEF Counts!statsVars, CountsIInv, CountsTypes, CallsHaveEnded, HandedBefore, AloneIsCounted,
                HandoffRelieves, Counts!HandoffRelieves, Counts!Calls, CountsUnsaved
  <2>3. ASSUME NEW p \in Server, Counts!Start(p)
        PROVE  CountsIInv'
    <3>1. /\ p \notin up /\ up' = up \cup {p} /\ counted' = [counted EXCEPT ![p] = savings]
          /\ unsaved' = [unsaved EXCEPT ![p] = 0] /\ several' = (several \/ up # {})
          /\ reported' = Counts!NoReport /\ UNCHANGED <<clock, at, savings, marker, handed>>
      BY <2>3 DEF Counts!Start
    <3>2. CountsTypes' /\ CallsHaveEnded' /\ HandedBefore'
      BY <2>0, <3>1 DEF CountsTypes, CallsHaveEnded, HandedBefore, Counts!Calls
    <3>3. counted'[p] \ savings' = {} /\ unsaved'[p] = 0
      BY <2>0, <3>1 DEF CountsTypes
    <3>4. CountsUnsaved(counted'[p], savings', unsaved'[p])
      BY <3>3, FS_EmptySet DEF CountsUnsaved
    <3>5. AloneIsCounted'
      BY <3>1, <3>4 DEF AloneIsCounted
    <3> QED
      BY <2>1, <3>1, <3>2, <3>5 DEF CountsIInv
  <2>4. ASSUME NEW p \in Server, Counts!Die(p)
        PROVE  CountsIInv'
    <3>1. /\ p \in up /\ up' = up \ {p} /\ counted' = [counted EXCEPT ![p] = {}]
          /\ unsaved' = [unsaved EXCEPT ![p] = 0]
          /\ reported' = Counts!NoReport /\ UNCHANGED <<clock, at, savings, marker, handed, several>>
      BY <2>4 DEF Counts!Die
    <3>2. CountsTypes' /\ CallsHaveEnded' /\ HandedBefore'
      BY <2>0, <3>1 DEF CountsTypes, CallsHaveEnded, HandedBefore, Counts!Calls
    <3>3. AloneIsCounted'
      BY <2>0, <3>1 DEF AloneIsCounted
    <3> QED
      BY <2>1, <3>1, <3>2, <3>3 DEF CountsIInv
  <2>5. ASSUME NEW p \in Server, Counts!Call(p)
        PROVE  CountsIInv'
    BY <2>1, <2>5, ToolIsCalled DEF Counts!Call
  <2>6. ASSUME NEW p \in Server, Counts!Reset(p)
        PROVE  CountsIInv'
    BY <2>1, <2>6, ToolIsCalled DEF Counts!Reset
  <2>7. ASSUME NEW p \in Server, Counts!Handoff(p)
        PROVE  CountsIInv'
    BY <2>1, <2>7, ToolIsCalled DEF Counts!Handoff
  <2>8. ASSUME NEW p \in Server, Counts!Pressure(p)
        PROVE  CountsIInv'
    <3>1. \A c \in Counts!SinceHandoff : at[c] > marker
      BY DEF Counts!SinceHandoff
    <3>2. \A c \in handed : at[c] \in Nat /\ at[c] <= marker /\ marker \in Nat
      BY <2>0 DEF HandedBefore, CallsHaveEnded
    <3>3. Counts!SinceHandoff \cap handed = {}
      BY <3>1, <3>2
    <3>4. HandoffRelieves'
      BY <2>8, <3>3 DEF Counts!Pressure, HandoffRelieves, Counts!HandoffRelieves
    <3> QED
      BY <2>8, <3>4, ToolIsCalled DEF Counts!Pressure
  <2>9. ASSUME NEW p \in Server, NEW lifetime \in BOOLEAN, Counts!Report(p, lifetime)
        PROVE  CountsIInv'
    <3>1. HandoffRelieves'
      BY <2>9 DEF Counts!Report, HandoffRelieves, Counts!HandoffRelieves
    <3>2. PICK late \in BOOLEAN :
             IF late /\ unsaved[p] > 0
             THEN Counts!Finish(p, counted[p], 0, counted[p])
             ELSE Counts!Finish(p, counted[p], unsaved[p], savings)
      BY <2>9 DEF Counts!Report
    <3>3. p \in up /\ UNCHANGED <<clock, up, several, marker, handed>>
      BY <2>9 DEF Counts!Report
    <3>4. CASE Counts!Finish(p, counted[p], 0, counted[p])
      BY <3>1, <3>3, <3>4, ToolIsCalled
    <3>5. CASE Counts!Finish(p, counted[p], unsaved[p], savings)
      BY <3>1, <3>3, <3>5, ToolIsCalled
    <3> QED
      BY <3>2, <3>4, <3>5
  <2>10. CASE Counts!Latch
    BY <2>0, <2>1, <2>10 DEF Counts!Latch, CountsIInv, CountsTypes, CallsHaveEnded, HandedBefore,
                            AloneIsCounted, Counts!Calls, CountsUnsaved
  <2>11. CASE Counts!Tick
    <3>1. CallsHaveEnded'
      BY <2>0, <2>11 DEF Counts!Tick, CallsHaveEnded, Counts!Calls
    <3>2. CountsTypes' /\ HandedBefore' /\ AloneIsCounted'
      BY <2>0, <2>11 DEF Counts!Tick, CountsTypes, HandedBefore, AloneIsCounted, Counts!Calls, CountsUnsaved
    <3> QED
      BY <2>1, <2>11, <3>1, <3>2 DEF Counts!Tick, CountsIInv
  <2> QED
    BY <2>2, <2>3, <2>4, <2>5, <2>6, <2>7, <2>8, <2>9, <2>10, <2>11 DEF Counts!Next
<1> QED
  BY <1>1, <1>2, PTL DEF Counts!Spec

\* A process that works alone loses fewer than FLUSH_EVENT_THRESHOLD calls of the count
\* when it ends.
THEOREM LossesAreBounded ==
    ASSUME FlushThreshold \in Nat \ {0}
    PROVE  Counts!Spec => []LossIsBounded
<1>1. CountsIInv => LossIsBounded
  <2> SUFFICES ASSUME CountsIInv, ~ several, NEW p \in up
               PROVE  Counts!Cardinality(counted[p] \ savings) < FlushThreshold
    BY DEF LossIsBounded, Counts!LossIsBounded
  <2>1. CountsUnsaved(counted[p], savings, unsaved[p])
    BY DEF CountsIInv, AloneIsCounted
  <2>2. Cardinality(counted[p] \ savings) \in Nat
    BY <2>1, FS_CardinalityType DEF CountsUnsaved
  <2> QED
    BY <2>1, <2>2, SameCardinalityOfCalls DEF CountsUnsaved
<1> QED
  BY <1>1, CountsInv, PTL

\* The pressure after a handoff does not count what was before it.
THEOREM HandoffsRelieve ==
    ASSUME FlushThreshold \in Nat \ {0}
    PROVE  Counts!Spec => []HandoffRelieves
<1>1. CountsIInv => HandoffRelieves
  BY DEF CountsIInv
<1> QED
  BY <1>1, CountsInv, PTL

-----------------------------------------------------------------------------
(* semantic_decide *)

IsBundle(b) == {"by", "says", "source", "seen", "averaged"} \subseteq DOMAIN b

DecisionsTypes ==
    /\ stage = [i \in Decisions!Item |-> stage[i]] /\ bundle = [i \in Decisions!Item |-> bundle[i]]
    /\ \A i \in Decisions!Item : IsBundle(bundle[i])
    /\ {"rows", "wave", "scorer", "unknown", "aborted"} \subseteq DOMAIN call

Loaded == {"draft", "cpu", "verify"}

\* An engine that was not looked for was not loaded, and the heavy ones wait for the draft.
LoadedOnce ==
    /\ loads = [e \in Loaded |-> loads[e]] /\ \A e \in Loaded : loads[e] \in {0, 1}
    /\ slot \in {"empty", "missing"} => loads["draft"] = 0
    /\ cpu = "empty" => loads["cpu"] = 0
    /\ verify = "empty" => loads["verify"] = 0
    /\ loads["cpu"] = 1 \/ loads["verify"] = 1 => slot = "ok" /\ config.conformal

\* A row goes on to the heavy engines when the scorer is the local one, which is loaded.
IsLocal == call.scorer = "ereshkigal"
HeavyAreLocal ==
    /\ IsLocal => slot = "ok"
    /\ \A i \in Decisions!Item : stage[i] \in {"cpu", "verify"} => IsLocal /\ config.conformal

\* What a row may say at a stage.
Early   == {"draft", "debias", "commit"}
Drafted == {"none", "draft", "visual-hybrid-draft", "visual-hybrid-exact", "cascade-adaptive"}

IsTrueRow(i, b, next) ==
    /\ next \in Early => b.source \in Drafted
    /\ IsLocal => b.by \subseteq {"ereshkigal", "visual", "cpu", "verify"}
    /\ IsLocal /\ next \in Early => b.by \subseteq {"ereshkigal", "visual"}
    /\ next = "done" /\ i <= call.rows =>
          /\ b.source = "cascade-draft"  => b.says = "sharp" /\ b.by \subseteq {"ereshkigal", "visual"}
          /\ b.source = "cascade-cpu"    => b.says = "sharp" /\ b.by = {"cpu"}
          /\ b.source = "cascade-verify" => b.by = {"verify"}
          /\ b.source = "cascade-adaptive" /\ IsLocal /\ config.conformal => b.says = "sharp"

RowsAreTrue ==
    ~ call.aborted => \A i \in Decisions!Item : IsTrueRow(i, bundle[i], stage[i])

DecisionsIInv == DecisionsTypes /\ LoadedOnce /\ HeavyAreLocal /\ RowsAreTrue

\* The draft is looked for: it is loaded if it was not, and what is loaded stays.
LEMMA DraftIsLoadedOnce ==
    ASSUME LoadedOnce, Decisions!EnsureArc \/ UNCHANGED Decisions!engines, UNCHANGED config
    PROVE  LoadedOnce' /\ (slot = "ok" => slot' = "ok")
<1>1. CASE UNCHANGED <<slot, cpu, verify, loads>>
  BY <1>1 DEF LoadedOnce
<1>2. CASE slot \in {"empty", "missing"} /\ gguf /\ Decisions!EnsureArc
  <2>1. /\ slot' \in {"ok", "broken"} /\ UNCHANGED <<cpu, verify>>
        /\ loads' = [loads EXCEPT !.draft = @ + 1]
    BY <1>2 DEF Decisions!EnsureArc
  <2>2. loads["draft"] = 0 /\ loads["cpu"] = 0 /\ loads["verify"] = 0
    BY <1>2 DEF LoadedOnce, Loaded
  <2>3. loads' = [e \in Loaded |-> IF e = "draft" THEN 1 ELSE loads[e]]
    BY <2>1, <2>2 DEF LoadedOnce, Loaded
  <2> QED
    BY <1>2, <2>1, <2>2, <2>3 DEF LoadedOnce, Loaded
<1>3. CASE slot \in {"empty", "missing"} /\ ~ gguf /\ Decisions!EnsureArc
  <2>1. slot' = "missing" /\ UNCHANGED <<cpu, verify, loads>>
    BY <1>3 DEF Decisions!EnsureArc
  <2> QED
    BY <1>3, <2>1 DEF LoadedOnce
<1> QED
  BY <1>1, <1>2, <1>3 DEF Decisions!EnsureArc, Decisions!engines

\* The local scorer answers itself, and no other scorer unloads it.
LEMMA ScoreIsOwn ==
    ASSUME NEW s, NEW by, NEW says, Decisions!Score(s, by, says)
    PROVE  /\ s = "ereshkigal" => by = "ereshkigal"
           /\ Decisions!EnsureArc \/ UNCHANGED Decisions!engines
BY DEF Decisions!Score

\* A row goes on, and the others stay.
LEMMA RowGoesOn ==
    ASSUME DecisionsIInv, UNCHANGED config, LoadedOnce', slot = "ok" => slot' = "ok",
           NEW i \in Decisions!Item, NEW b, NEW next, Decisions!Goes(i, b, next), IsBundle(b),
           next \in {"cpu", "verify"} => IsLocal /\ config.conformal,
           ~ call.aborted => IsTrueRow(i, b, next)
    PROVE  DecisionsIInv'
<1>1. /\ DecisionsTypes /\ call' = call
      /\ bundle' = [j \in Decisions!Item |-> IF j = i THEN b ELSE bundle[j]]
      /\ stage' = [j \in Decisions!Item |-> IF j = i THEN next ELSE stage[j]]
  BY DEF DecisionsIInv, DecisionsTypes, Decisions!Goes
<1>2. DecisionsTypes'
  BY <1>1 DEF DecisionsTypes, IsBundle
<1>3. HeavyAreLocal'
  BY <1>1 DEF DecisionsIInv, HeavyAreLocal, IsLocal
<1>4. ASSUME ~ call'.aborted, NEW j \in Decisions!Item
      PROVE  IsTrueRow(j, bundle[j], stage[j])'
  <2>1. IsTrueRow(j, bundle'[j], stage'[j])
    BY <1>1, <1>4 DEF DecisionsIInv, RowsAreTrue
  <2> QED
    BY <1>1, <2>1 DEF IsTrueRow, IsLocal
<1>5. RowsAreTrue'
  BY <1>4 DEF RowsAreTrue
<1> QED
  BY <1>2, <1>3, <1>5 DEF DecisionsIInv

\* A row that ends without a choice.
LEMMA RowEnds ==
    ASSUME DecisionsIInv, UNCHANGED config, LoadedOnce', slot = "ok" => slot' = "ok",
           NEW i \in Decisions!Item, NEW source \in {"visual-abstain", "error"}, Decisions!Ends(i, source)
    PROVE  DecisionsIInv'
<1> DEFINE b == [bundle[i] EXCEPT !.source = source, !.by = {}]
<1>1. IsBundle(bundle[i])
  BY DEF DecisionsIInv, DecisionsTypes
<1>2. IsBundle(b) /\ b.source = source /\ b.by = {}
  BY <1>1 DEF IsBundle
<1>3. Decisions!Goes(i, b, "done")
  BY DEF Decisions!Ends
<1> HIDE DEF b
<1>4. IsTrueRow(i, b, "done")
  BY <1>2 DEF IsTrueRow, Early
<1> QED
  BY <1>2, <1>3, <1>4, RowGoesOn

\* The rows of a batch that failed start anew, with nothing said.
LEMMA RowsStartAnew ==
    ASSUME DecisionsIInv, UNCHANGED config, LoadedOnce', slot = "ok" => slot' = "ok",
           NEW unknown, Decisions!OneByOne(unknown)
    PROVE  DecisionsIInv'
<1>1. /\ DecisionsTypes
      /\ call' = [call EXCEPT !.wave = FALSE, !.unknown = unknown]
      /\ stage' = [i \in Decisions!Item |-> IF i <= call.rows THEN "draft" ELSE "done"]
      /\ bundle' = [i \in Decisions!Item |-> Decisions!Blank(bundle[i].seen)]
  BY DEF DecisionsIInv, Decisions!OneByOne
<1>2. /\ call'.rows = call.rows /\ call'.scorer = call.scorer /\ call'.aborted = call.aborted
      /\ {"rows", "wave", "scorer", "unknown", "aborted"} \subseteq DOMAIN call'
  BY <1>1 DEF DecisionsTypes
<1>3. \A i \in Decisions!Item :
         bundle'[i].source = "none" /\ bundle'[i].by = {} /\ IsBundle(bundle'[i])
  BY <1>1 DEF Decisions!Blank, IsBundle
<1>4. DecisionsTypes'
  BY <1>1, <1>2, <1>3 DEF DecisionsTypes, IsBundle
<1>5. HeavyAreLocal'
  BY <1>1, <1>2 DEF DecisionsIInv, HeavyAreLocal, IsLocal
<1>6. RowsAreTrue'
  BY <1>3 DEF RowsAreTrue, IsTrueRow, Drafted
<1> QED
  BY <1>4, <1>5, <1>6 DEF DecisionsIInv

\* An engine fails: the row ends, or the batch as it is.
LEMMA EngineFails ==
    ASSUME DecisionsIInv, UNCHANGED config, LoadedOnce', slot = "ok" => slot' = "ok",
           NEW i \in Decisions!Item, Decisions!Fails(i)
    PROVE  DecisionsIInv'
<1>1. CASE ~ call.wave
  BY <1>1, RowEnds DEF Decisions!Fails
<1>2. CASE call.wave
  <2>1. /\ DecisionsTypes /\ call' = [call EXCEPT !.aborted = TRUE]
        /\ stage' = [j \in Decisions!Item |-> "done"] /\ bundle' = bundle
    BY <1>2 DEF Decisions!Fails, DecisionsIInv
  <2>2. /\ call'.scorer = call.scorer /\ call'.aborted
        /\ {"rows", "wave", "scorer", "unknown", "aborted"} \subseteq DOMAIN call'
    BY <2>1 DEF DecisionsTypes
  <2>3. DecisionsTypes'
    BY <2>1, <2>2 DEF DecisionsTypes, IsBundle
  <2>4. HeavyAreLocal'
    BY <2>1, <2>2 DEF DecisionsIInv, HeavyAreLocal, IsLocal
  <2>5. RowsAreTrue'
    BY <2>2 DEF RowsAreTrue
  <2> QED
    BY <2>3, <2>4, <2>5 DEF DecisionsIInv
<1> QED
  BY <1>1, <1>2
\* Evidence that is refused ends the row.
LEMMA GateKeeps ==
    ASSUME DecisionsIInv, NEW i \in Decisions!Item, Decisions!Gate(i)
    PROVE  DecisionsIInv'
<1>1. /\ Decisions!Ends(i, "visual-abstain") /\ UNCHANGED config
      /\ UNCHANGED Decisions!engines
  BY DEF Decisions!Gate
<1>2. LoadedOnce' /\ (slot = "ok" => slot' = "ok")
  BY <1>1, DraftIsLoadedOnce DEF DecisionsIInv
<1> QED
  BY <1>1, <1>2, RowEnds

\* What is drafted of the evidence is not of an engine.
LEMMA HybridKeeps ==
    ASSUME DecisionsIInv, NEW i \in Decisions!Item, Decisions!Hybrid(i)
    PROVE  DecisionsIInv'
<1>1. PICK says \in {"sharp", "flat"} :
         /\ UNCHANGED config /\ UNCHANGED Decisions!engines
         /\ Decisions!Goes(i, [bundle[i] EXCEPT !.by = {"visual"}, !.says = says,
                                                !.source = "visual-hybrid-draft"], "debias")
  BY DEF Decisions!Hybrid
<1> DEFINE b == [bundle[i] EXCEPT !.by = {"visual"}, !.says = says, !.source = "visual-hybrid-draft"]
<1>2. IsBundle(bundle[i])
  BY DEF DecisionsIInv, DecisionsTypes
<1>3. IsBundle(b) /\ b.source = "visual-hybrid-draft" /\ b.by = {"visual"}
  BY <1>2 DEF IsBundle
<1>4. Decisions!Goes(i, b, "debias")
  BY <1>1
<1> HIDE DEF b
<1>5. IsTrueRow(i, b, "debias")
  BY <1>3 DEF IsTrueRow, Early, Drafted
<1>6. LoadedOnce' /\ (slot = "ok" => slot' = "ok")
  BY <1>1, DraftIsLoadedOnce DEF DecisionsIInv
<1> QED
  BY <1>1, <1>3, <1>4, <1>5, <1>6, RowGoesOn

\* The scorer, when it is the local one, scores the row itself.
LEMMA DraftKeeps ==
    ASSUME DecisionsIInv, NEW i \in Decisions!Item, Decisions!Draft(i)
    PROVE  DecisionsIInv'
<1>1. PICK by \in Decisions!Engine, says \in Decisions!Says :
         /\ Decisions!Score(call.scorer, by, says)
         /\ IF says = "failed"
            THEN IF call.wave THEN Decisions!OneByOne(call.unknown) ELSE Decisions!Ends(i, "error")
            ELSE Decisions!Goes(i, [bundle[i] EXCEPT
                              !.by = {by}, !.says = says,
                              !.source = IF ~ call.wave /\ bundle[i].seen = "good"
                                         THEN "visual-hybrid-exact" ELSE "draft"], "debias")
         /\ UNCHANGED config
  BY DEF Decisions!Draft
<1>2. LoadedOnce' /\ (slot = "ok" => slot' = "ok")
  BY <1>1, DraftIsLoadedOnce, ScoreIsOwn DEF DecisionsIInv
<1>3. CASE says = "failed"
  BY <1>1, <1>2, <1>3, RowsStartAnew, RowEnds
<1>4. CASE says # "failed"
  <2> DEFINE source == IF ~ call.wave /\ bundle[i].seen = "good" THEN "visual-hybrid-exact" ELSE "draft"
             b == [bundle[i] EXCEPT !.by = {by}, !.says = says, !.source = source]
  <2>1. source \in Drafted /\ IsBundle(bundle[i])
    BY DEF Drafted, DecisionsIInv, DecisionsTypes
  <2>2. Decisions!Goes(i, b, "debias")
    BY <1>1, <1>4
  <2> HIDE DEF source
  <2>3. IsBundle(b) /\ b.source = source /\ b.by = {by}
    BY <2>1 DEF IsBundle
  <2> HIDE DEF b
  <2>4. IsLocal => by = "ereshkigal"
    BY <1>1, ScoreIsOwn DEF IsLocal
  <2>5. IsTrueRow(i, b, "debias")
    BY <2>1, <2>3, <2>4 DEF IsTrueRow, Early
  <2> QED
    BY <1>1, <1>2, <2>2, <2>3, <2>5, RowGoesOn
<1> QED
  BY <1>3, <1>4

\* Rotated options are scored by the same scorer.
LEMMA DebiasKeeps ==
    ASSUME DecisionsIInv, NEW i \in Decisions!Item, Decisions!DebiasRow(i)
    PROVE  DecisionsIInv'
<1>1. stage[i] = "debias" /\ UNCHANGED config /\ IsBundle(bundle[i])
  BY DEF Decisions!DebiasRow, Decisions!Turn, DecisionsIInv, DecisionsTypes
<1>2. ~ call.aborted => IsTrueRow(i, bundle[i], "debias")
  BY <1>1 DEF DecisionsIInv, RowsAreTrue
<1>3. CASE Decisions!Goes(i, bundle[i], "commit") /\ UNCHANGED <<Decisions!engines, cooling>>
  <2>1. LoadedOnce' /\ (slot = "ok" => slot' = "ok")
    BY <1>1, <1>3, DraftIsLoadedOnce DEF DecisionsIInv
  <2>2. ~ call.aborted => IsTrueRow(i, bundle[i], "commit")
    BY <1>2 DEF IsTrueRow, Early
  <2> QED
    BY <1>1, <1>3, <2>1, <2>2, RowGoesOn
<1>4. ASSUME NEW by \in Decisions!Engine, NEW says \in Decisions!Says,
             Decisions!Score(call.scorer, by, says),
             IF says = "failed"
             THEN IF call.wave THEN Decisions!OneByOne(TRUE) ELSE Decisions!Ends(i, "error")
             ELSE Decisions!Goes(i, [bundle[i] EXCEPT
                                  !.by = @ \cup {by}, !.says = says, !.averaged = TRUE,
                                  !.source = IF config.debias = "adaptive"
                                             THEN "cascade-adaptive" ELSE @], "commit")
      PROVE  DecisionsIInv'
  <2>1. LoadedOnce' /\ (slot = "ok" => slot' = "ok")
    BY <1>1, <1>4, DraftIsLoadedOnce, ScoreIsOwn DEF DecisionsIInv
  <2>2. CASE says = "failed"
    BY <1>1, <1>4, <2>1, <2>2, RowsStartAnew, RowEnds
  <2>3. CASE says # "failed"
    <3> DEFINE source == IF config.debias = "adaptive" THEN "cascade-adaptive" ELSE bundle[i].source
               b == [bundle[i] EXCEPT !.by = @ \cup {by}, !.says = says, !.averaged = TRUE,
                                      !.source = source]
    <3>1. Decisions!Goes(i, b, "commit")
      BY <1>4, <2>3
    <3>2. ~ call.aborted => source \in Drafted
      BY <1>2 DEF IsTrueRow, Early, Drafted
    <3> HIDE DEF source
    <3>3. IsBundle(b) /\ b.source = source /\ b.by = bundle[i].by \cup {by}
      BY <1>1 DEF IsBundle
    <3> HIDE DEF b
    <3>4. IsLocal => by = "ereshkigal"
      BY <1>4, ScoreIsOwn DEF IsLocal
    <3>5. ~ call.aborted /\ IsLocal => b.by \subseteq {"ereshkigal", "visual"}
      BY <1>2, <3>3, <3>4 DEF IsTrueRow, Early
    <3>6. ~ call.aborted => IsTrueRow(i, b, "commit")
      BY <3>2, <3>3, <3>5 DEF IsTrueRow, Early
    <3> QED
      BY <1>1, <2>1, <3>1, <3>3, <3>6, RowGoesOn
  <2> QED
    BY <2>2, <2>3
<1> QED
  BY <1>3, <1>4 DEF Decisions!DebiasRow

\* Sharp scores of the local scorer are committed, and flat ones go on.
LEMMA CommitKeeps ==
    ASSUME DecisionsIInv, NEW i \in Decisions!Item, Decisions!Commit(i)
    PROVE  DecisionsIInv'
<1>1. /\ stage[i] = "commit" /\ UNCHANGED config /\ UNCHANGED Decisions!engines
      /\ IsBundle(bundle[i])
  BY DEF Decisions!Commit, Decisions!Turn, DecisionsIInv, DecisionsTypes
<1>2. ~ call.aborted => IsTrueRow(i, bundle[i], "commit")
  BY <1>1 DEF DecisionsIInv, RowsAreTrue
<1>3. LoadedOnce' /\ (slot = "ok" => slot' = "ok")
  BY <1>1, DraftIsLoadedOnce DEF DecisionsIInv
<1>4. CASE (call.scorer # "ereshkigal" \/ ~ config.conformal) /\ Decisions!Goes(i, bundle[i], "done")
  <2>1. ~ call.aborted => IsTrueRow(i, bundle[i], "done")
    BY <1>2, <1>4 DEF IsTrueRow, Early, Drafted, IsLocal
  <2> QED
    BY <1>1, <1>3, <1>4, <2>1, RowGoesOn
<1>5. CASE /\ IsLocal /\ config.conformal /\ bundle[i].says # "sharp"
           /\ Decisions!Goes(i, bundle[i], "cpu")
  <2>1. ~ call.aborted => IsTrueRow(i, bundle[i], "cpu")
    BY <1>2, <1>5 DEF IsTrueRow, Early
  <2> QED
    BY <1>1, <1>3, <1>5, <2>1, RowGoesOn
<1>6. CASE /\ IsLocal /\ bundle[i].says = "sharp"
           /\ Decisions!Goes(i, [bundle[i] EXCEPT !.source =
                                    IF bundle[i].averaged THEN "cascade-adaptive"
                                    ELSE "cascade-draft"], "done")
  <2> DEFINE source == IF bundle[i].averaged THEN "cascade-adaptive" ELSE "cascade-draft"
             b == [bundle[i] EXCEPT !.source = source]
  <2>1. Decisions!Goes(i, b, "done") /\ source \in {"cascade-adaptive", "cascade-draft"}
    BY <1>6
  <2> HIDE DEF source
  <2>2. IsBundle(b) /\ b.source = source /\ b.by = bundle[i].by /\ b.says = "sharp"
    BY <1>1, <1>6 DEF IsBundle
  <2> HIDE DEF b
  <2>3. ~ call.aborted => IsTrueRow(i, b, "done")
    BY <1>2, <1>6, <2>1, <2>2 DEF IsTrueRow, Early
  <2> QED
    BY <1>1, <1>3, <2>1, <2>2, <2>3, RowGoesOn
<1> QED
  BY <1>4, <1>5, <1>6 DEF Decisions!Commit, IsLocal

\* One engine more is loaded.
LEMMA OneIsLoaded ==
    ASSUME NEW S, NEW f, f = [e \in S |-> f[e]], NEW x \in S
    PROVE  [f EXCEPT ![x] = @ + 1] = [e \in S |-> IF e = x THEN f[x] + 1 ELSE f[e]]
OBVIOUS

\* A heavy engine is loaded by the first row that comes to it.
LEMMA HeavyIsLoadedOnce ==
    ASSUME LoadedOnce, slot = "ok", config.conformal, UNCHANGED <<config, slot>>,
           \/ Decisions!Load(cpu, "cpu") /\ UNCHANGED verify
           \/ Decisions!Load(verify, "verify") /\ UNCHANGED cpu
    PROVE  LoadedOnce'
<1>1. \A e \in Loaded : loads[e] \in {0, 1}
  BY DEF LoadedOnce
<1>2. CASE Decisions!Load(cpu, "cpu") /\ UNCHANGED verify
  <2>1. CASE cpu = "empty"
    <3>1. cpu' \in {"ok", "broken"} /\ loads' = [loads EXCEPT !["cpu"] = @ + 1] /\ verify' = verify
      BY <1>2, <2>1 DEF Decisions!Load
    <3>2. loads = [e \in Loaded |-> loads[e]] /\ loads["cpu"] = 0
      BY <2>1 DEF LoadedOnce
    <3>3. loads["cpu"] + 1 = 1 /\ "cpu" \in Loaded
      BY <3>2 DEF Loaded
    <3>4. loads' = [e \in Loaded |-> IF e = "cpu" THEN loads["cpu"] + 1 ELSE loads[e]]
      BY <3>1, <3>2, <3>3, OneIsLoaded
    <3>5. loads' = [e \in Loaded |-> IF e = "cpu" THEN 1 ELSE loads[e]]
      BY <3>3, <3>4
    <3> QED
      BY <1>1, <3>1, <3>5 DEF LoadedOnce, Loaded
  <2>2. CASE cpu # "empty"
    BY <1>2, <2>2 DEF Decisions!Load, LoadedOnce
  <2> QED
    BY <2>1, <2>2
<1>3. CASE Decisions!Load(verify, "verify") /\ UNCHANGED cpu
  <2>1. CASE verify = "empty"
    <3>1. verify' \in {"ok", "broken"} /\ loads' = [loads EXCEPT !["verify"] = @ + 1] /\ cpu' = cpu
      BY <1>3, <2>1 DEF Decisions!Load
    <3>2. loads = [e \in Loaded |-> loads[e]] /\ loads["verify"] = 0
      BY <2>1 DEF LoadedOnce
    <3>3. loads["verify"] + 1 = 1 /\ "verify" \in Loaded
      BY <3>2 DEF Loaded
    <3>4. loads' = [e \in Loaded |-> IF e = "verify" THEN loads["verify"] + 1 ELSE loads[e]]
      BY <3>1, <3>2, <3>3, OneIsLoaded
    <3>5. loads' = [e \in Loaded |-> IF e = "verify" THEN 1 ELSE loads[e]]
      BY <3>3, <3>4
    <3> QED
      BY <1>1, <3>1, <3>5 DEF LoadedOnce, Loaded
  <2>2. CASE verify # "empty"
    BY <1>3, <2>2 DEF Decisions!Load, LoadedOnce
  <2> QED
    BY <2>1, <2>2
<1> QED
  BY <1>2, <1>3
\* What is known of a row that has come to a heavy engine.
LEMMA HeavyRow ==
    ASSUME DecisionsIInv, NEW i \in Decisions!Item, stage[i] \in {"cpu", "verify"}
    PROVE  /\ IsLocal /\ config.conformal /\ slot = "ok" /\ LoadedOnce
           /\ IsBundle(bundle[i])
           /\ ~ call.aborted => bundle[i].by \subseteq {"ereshkigal", "visual", "cpu", "verify"}
<1>1. IsLocal /\ config.conformal
  BY DEF DecisionsIInv, HeavyAreLocal
<1>2. slot = "ok" /\ LoadedOnce /\ IsBundle(bundle[i])
  BY <1>1 DEF DecisionsIInv, HeavyAreLocal, DecisionsTypes
<1>3. ~ call.aborted => IsTrueRow(i, bundle[i], stage[i])
  BY DEF DecisionsIInv, RowsAreTrue
<1> QED
  BY <1>1, <1>2, <1>3 DEF IsTrueRow

\* The second draft engine answers, or leaves the row to the next.
LEMMA CpuKeeps ==
    ASSUME DecisionsIInv, NEW i \in Decisions!Item, Decisions!Cpu(i)
    PROVE  DecisionsIInv'
<1>1. stage[i] = "cpu" /\ UNCHANGED config
  BY DEF Decisions!Cpu, Decisions!Turn
<1>2. /\ IsLocal /\ config.conformal /\ slot = "ok" /\ LoadedOnce
      /\ IsBundle(bundle[i])
      /\ ~ call.aborted => bundle[i].by \subseteq {"ereshkigal", "visual", "cpu", "verify"}
  BY <1>1, HeavyRow
<1>3. ~ call.aborted => IsTrueRow(i, bundle[i], "verify")
  BY <1>2 DEF IsTrueRow, Early
<1>4. LoadedOnce' /\ slot' = slot
  <2>1. CASE UNCHANGED Decisions!engines
    BY <1>1, <1>2, <2>1, DraftIsLoadedOnce DEF Decisions!engines
  <2>2. CASE Decisions!Load(cpu, "cpu") /\ UNCHANGED <<slot, verify>>
    BY <1>1, <1>2, <2>2, HeavyIsLoadedOnce
  <2> QED
    BY <2>1, <2>2 DEF Decisions!Cpu
<1>5. CASE Decisions!Goes(i, bundle[i], "verify")
  BY <1>1, <1>2, <1>3, <1>4, <1>5, RowGoesOn
<1>6. CASE Decisions!Fails(i)
  BY <1>1, <1>4, <1>6, EngineFails
<1>7. ASSUME NEW says, says # "failed",
             Decisions!Goes(i, [bundle[i] EXCEPT !.by = {"cpu"}, !.says = says,
                                                 !.averaged = FALSE, !.source = "cascade-cpu"],
                            IF says = "sharp" THEN "done" ELSE "verify")
      PROVE  DecisionsIInv'
  <2> DEFINE b == [bundle[i] EXCEPT !.by = {"cpu"}, !.says = says,
                                    !.averaged = FALSE, !.source = "cascade-cpu"]
             next == IF says = "sharp" THEN "done" ELSE "verify"
  <2>1. Decisions!Goes(i, b, next) /\ (next = "verify" \/ (next = "done" /\ says = "sharp"))
    BY <1>7
  <2>2. IsBundle(b) /\ b.source = "cascade-cpu" /\ b.by = {"cpu"} /\ b.says = says
    BY <1>2 DEF IsBundle
  <2> HIDE DEF b, next
  <2>3. IsTrueRow(i, b, next)
    BY <2>1, <2>2 DEF IsTrueRow, Early
  <2> QED
    BY <1>1, <1>2, <1>4, <2>1, <2>2, <2>3, RowGoesOn
<1> QED
  BY <1>5, <1>6, <1>7 DEF Decisions!Cpu

\* The verify engine answers, or the row is left as it was drafted, which is said.
LEMMA VerifyKeeps ==
    ASSUME DecisionsIInv, NEW i \in Decisions!Item, Decisions!Verify(i)
    PROVE  DecisionsIInv'
<1>1. stage[i] = "verify" /\ UNCHANGED config
  BY DEF Decisions!Verify, Decisions!Turn
<1>2. /\ IsLocal /\ config.conformal /\ slot = "ok" /\ LoadedOnce
      /\ IsBundle(bundle[i])
      /\ ~ call.aborted => bundle[i].by \subseteq {"ereshkigal", "visual", "cpu", "verify"}
  BY <1>1, HeavyRow
<1>3. LoadedOnce' /\ slot' = slot
  <2>1. CASE UNCHANGED Decisions!engines
    BY <1>1, <1>2, <2>1, DraftIsLoadedOnce DEF Decisions!engines
  <2>2. CASE Decisions!Load(verify, "verify") /\ UNCHANGED <<slot, cpu>>
    BY <1>1, <1>2, <2>2, HeavyIsLoadedOnce
  <2> QED
    BY <2>1, <2>2 DEF Decisions!Verify
<1>4. CASE Decisions!Goes(i, [bundle[i] EXCEPT !.source = "cascade-skipped"], "done")
  <2> DEFINE b == [bundle[i] EXCEPT !.source = "cascade-skipped"]
  <2>1. IsBundle(b) /\ b.source = "cascade-skipped" /\ b.by = bundle[i].by
    BY <1>2 DEF IsBundle
  <2>2. Decisions!Goes(i, b, "done")
    BY <1>4
  <2> HIDE DEF b
  <2>3. ~ call.aborted => IsTrueRow(i, b, "done")
    BY <1>2, <2>1 DEF IsTrueRow, Early
  <2> QED
    BY <1>1, <1>3, <2>1, <2>2, <2>3, RowGoesOn
<1>5. CASE Decisions!Fails(i)
  BY <1>1, <1>3, <1>5, EngineFails
<1>6. ASSUME NEW says,
             Decisions!Goes(i, [bundle[i] EXCEPT !.by = {"verify"}, !.says = says,
                                                 !.averaged = FALSE,
                                                 !.source = "cascade-verify"], "done")
      PROVE  DecisionsIInv'
  <2> DEFINE b == [bundle[i] EXCEPT !.by = {"verify"}, !.says = says,
                                    !.averaged = FALSE, !.source = "cascade-verify"]
  <2>1. IsBundle(b) /\ b.source = "cascade-verify" /\ b.by = {"verify"}
    BY <1>2 DEF IsBundle
  <2>2. Decisions!Goes(i, b, "done")
    BY <1>6
  <2> HIDE DEF b
  <2>3. IsTrueRow(i, b, "done")
    BY <2>1 DEF IsTrueRow, Early
  <2> QED
    BY <1>1, <1>3, <2>1, <2>2, <2>3, RowGoesOn
<1> QED
  BY <1>4, <1>5, <1>6 DEF Decisions!Verify

\* A call starts with nothing said of its rows, and the local scorer is loaded by then.
LEMMA DecideKeeps ==
    ASSUME DecisionsIInv, NEW n, NEW wave, NEW s, NEW unknown, NEW seen,
           Decisions!Decide(n, wave, s, unknown, seen)
    PROVE  DecisionsIInv'
<1>1. /\ Decisions!Resolve(s, unknown) /\ UNCHANGED config
      /\ call' = [rows |-> n, wave |-> wave, scorer |-> s, unknown |-> unknown, aborted |-> FALSE]
      /\ stage' = [i \in Decisions!Item |-> IF i <= n THEN "draft" ELSE "done"]
      /\ bundle' = [i \in Decisions!Item |-> Decisions!Blank(IF i <= n THEN seen[i] ELSE "none")]
  BY DEF Decisions!Decide
<1>2. Decisions!EnsureArc \/ UNCHANGED Decisions!engines
  BY <1>1 DEF Decisions!Resolve
<1>3. s = "ereshkigal" => slot' = "ok"
  BY <1>1 DEF Decisions!Resolve
<1>4. LoadedOnce'
  BY <1>1, <1>2, DraftIsLoadedOnce DEF DecisionsIInv
<1>5. \A i \in Decisions!Item :
         bundle'[i].source = "none" /\ bundle'[i].by = {} /\ IsBundle(bundle'[i])
  BY <1>1 DEF Decisions!Blank, IsBundle
<1>6. DecisionsTypes'
  BY <1>1, <1>5 DEF DecisionsTypes, IsBundle
<1>7. HeavyAreLocal'
  BY <1>1, <1>3 DEF HeavyAreLocal, IsLocal
<1>8. RowsAreTrue'
  BY <1>5 DEF RowsAreTrue, IsTrueRow, Drafted
<1> QED
  BY <1>4, <1>6, <1>7, <1>8 DEF DecisionsIInv

\* A call that has returned leaves nothing behind but the engines.
LEMMA ReturnKeeps ==
    ASSUME DecisionsIInv, Decisions!Return
    PROVE  DecisionsIInv'
<1>1. /\ UNCHANGED <<config, stage>> /\ UNCHANGED Decisions!engines
      /\ call' = Decisions!NoCallYet
      /\ bundle' = [i \in Decisions!Item |-> Decisions!Blank("none")]
      /\ \A i \in Decisions!Item : stage[i] = "done"
  BY DEF Decisions!Return
<1>2. LoadedOnce'
  BY <1>1, DraftIsLoadedOnce DEF DecisionsIInv
<1>3. \A i \in Decisions!Item :
         bundle'[i].source = "none" /\ bundle'[i].by = {} /\ IsBundle(bundle'[i])
  BY <1>1 DEF Decisions!Blank, IsBundle
<1>4. DecisionsTypes'
  BY <1>1, <1>3 DEF DecisionsIInv, DecisionsTypes, IsBundle, Decisions!NoCallYet
<1>5. HeavyAreLocal'
  BY <1>1 DEF HeavyAreLocal, IsLocal, Decisions!NoCallYet
<1>6. RowsAreTrue'
  BY <1>3 DEF RowsAreTrue, IsTrueRow, Drafted
<1> QED
  BY <1>2, <1>4, <1>5, <1>6 DEF DecisionsIInv

\* The engines alone change, or nothing that the invariant speaks of.
LEMMA RowsAreLeft ==
    ASSUME DecisionsIInv, UNCHANGED <<config, call, stage, bundle>>,
           Decisions!EnsureArc \/ UNCHANGED Decisions!engines
    PROVE  DecisionsIInv'
<1>1. LoadedOnce' /\ (slot = "ok" => slot' = "ok")
  BY DraftIsLoadedOnce DEF DecisionsIInv
<1>2. DecisionsTypes'
  BY DEF DecisionsIInv, DecisionsTypes, IsBundle
<1>3. HeavyAreLocal'
  BY <1>1 DEF DecisionsIInv, HeavyAreLocal, IsLocal
<1>4. RowsAreTrue'
  BY DEF DecisionsIInv, RowsAreTrue, IsTrueRow, IsLocal
<1> QED
  BY <1>1, <1>2, <1>3, <1>4 DEF DecisionsIInv

\* DecisionsIInv is an invariant of semantic_decide, for any settings and any number of
\* rows.
THEOREM DecisionsInv == Decisions!Spec => []DecisionsIInv
<1>1. Decisions!Init => DecisionsIInv
  <2> SUFFICES ASSUME Decisions!Init PROVE DecisionsIInv
    OBVIOUS
  <2>1. /\ slot = "empty" /\ cpu = "empty" /\ verify = "empty"
        /\ loads = [draft |-> 0, cpu |-> 0, verify |-> 0]
        /\ call = Decisions!NoCallYet
        /\ stage = [i \in Decisions!Item |-> "done"]
        /\ bundle = [i \in Decisions!Item |-> Decisions!Blank("none")]
    BY DEF Decisions!Init
  <2>2. LoadedOnce
    BY <2>1 DEF LoadedOnce, Loaded
  <2>3. \A i \in Decisions!Item :
           bundle[i].source = "none" /\ bundle[i].by = {} /\ IsBundle(bundle[i])
    BY <2>1 DEF Decisions!Blank, IsBundle
  <2>4. DecisionsTypes
    BY <2>1, <2>3 DEF DecisionsTypes, IsBundle, Decisions!NoCallYet
  <2>5. HeavyAreLocal
    BY <2>1 DEF HeavyAreLocal, IsLocal, Decisions!NoCallYet
  <2>6. RowsAreTrue
    BY <2>3 DEF RowsAreTrue, IsTrueRow, Drafted
  <2> QED
    BY <2>2, <2>4, <2>5, <2>6 DEF DecisionsIInv
<1>2. DecisionsIInv /\ [Decisions!Next]_Decisions!semifVars => DecisionsIInv'
  <2> SUFFICES ASSUME DecisionsIInv, [Decisions!Next]_Decisions!semifVars PROVE DecisionsIInv'
    OBVIOUS
  <2>1. CASE UNCHANGED Decisions!semifVars
    BY <2>1, RowsAreLeft DEF Decisions!semifVars, Decisions!engines
  <2>2. CASE Decisions!Prefetch
    BY <2>2, RowsAreLeft DEF Decisions!Prefetch
  <2>3. CASE Decisions!FileComes
    BY <2>3, RowsAreLeft DEF Decisions!FileComes
  <2>4. CASE Decisions!CoolDown
    BY <2>4, RowsAreLeft DEF Decisions!CoolDown
  <2>5. CASE Decisions!Return
    BY <2>5, ReturnKeeps
  <2>6. ASSUME NEW n \in {1, Rows}, NEW s \in Decisions!Engine, NEW wave \in BOOLEAN,
               NEW unknown \in BOOLEAN, NEW seen \in [1..n -> Decisions!Evidence],
               Decisions!Decide(n, wave, s, unknown, seen)
        PROVE  DecisionsIInv'
    BY <2>6, DecideKeeps
  <2>7. ASSUME NEW i \in Decisions!Item,
               \/ Decisions!Gate(i) \/ Decisions!Hybrid(i) \/ Decisions!Draft(i)
               \/ Decisions!DebiasRow(i) \/ Decisions!Commit(i) \/ Decisions!Cpu(i)
               \/ Decisions!Verify(i)
        PROVE  DecisionsIInv'
    BY <2>7, GateKeeps, HybridKeeps, DraftKeeps, DebiasKeeps, CommitKeeps, CpuKeeps, VerifyKeeps
  <2> QED
    BY <2>1, <2>2, <2>3, <2>4, <2>5, <2>6, <2>7 DEF Decisions!Next
<1> QED
  BY <1>1, <1>2, PTL DEF Decisions!Spec

\* Each engine is loaded once, and the heavy ones only after the draft was.
THEOREM EnginesAreLoadedOnce == Decisions!Spec => []EnginesLoadOnce
<1>1. DecisionsIInv => EnginesLoadOnce
  <2> SUFFICES ASSUME LoadedOnce PROVE Decisions!EnginesLoadOnce
    BY DEF DecisionsIInv, EnginesLoadOnce
  <2>1. DOMAIN loads = Loaded /\ \A e \in Loaded : loads[e] \in {0, 1}
    BY DEF LoadedOnce
  <2>2. /\ \A e \in DOMAIN loads : loads[e] <= 1
        /\ loads.cpu \in {0, 1} /\ loads.verify \in {0, 1}
    BY <2>1 DEF Loaded
  <2>3. loads.cpu + loads.verify > 0 => loads["cpu"] = 1 \/ loads["verify"] = 1
    BY <2>2
  <2> QED
    BY <2>2, <2>3 DEF LoadedOnce, Decisions!EnginesLoadOnce
<1> QED
  BY <1>1, DecisionsInv, PTL

\* cascade_source names the engine whose scores the reply has, and the local scorer
\* never replies with the scores of another.
THEOREM SourcesAreTrue == Decisions!Spec => []SourceIsTrue
<1>1. DecisionsIInv => SourceIsTrue
  <2> SUFFICES ASSUME DecisionsIInv PROVE Decisions!SourceIsTrue
    BY DEF SourceIsTrue
  <2>1. ASSUME NEW i \in Decisions!Item, Decisions!Replied(i), ~ call.aborted
        PROVE  IsTrueRow(i, bundle[i], "done") /\ i <= call.rows
    BY <2>1 DEF DecisionsIInv, RowsAreTrue, Decisions!Replied
  <2> QED
    BY <2>1 DEF IsTrueRow, IsLocal, Decisions!SourceIsTrue
<1> QED
  BY <1>1, DecisionsInv, PTL
-----------------------------------------------------------------------------
(* Results in pages *)

PagesTypes ==
    /\ list \in [Query -> Lists] /\ cap \in [Query -> Cap]
    /\ began \in Nat
    /\ token # None => token.offset \in Nat

\* A set of numbers that is not empty has a least one.
LEMMA LeastNumber ==
    ASSUME NEW S \in SUBSET Nat, S # {}
    PROVE  \E m \in S : \A k \in S : m <= k
<1> DEFINE R == {ss \in Nat \X Nat : ss[1] < ss[2]}
<1>1. R = OpToRel(<, Nat)
  BY DEF OpToRel
<1>2. IsWellFoundedOn(R, Nat)
  BY <1>1, NatLessThanWellFounded
<1>3. \E m \in S : \A k \in S : ~ (<<k, m>> \in R)
  BY <1>2, WFMin
<1>4. \A k, m \in Nat : <<k, m>> \in R <=> k < m
  OBVIOUS
<1> QED
  <2> HIDE DEF R
  <2>1. PICK m \in S : \A k \in S : ~ (<<k, m>> \in R)
    BY <1>3
  <2>2. \A k \in S : m <= k
    <3> TAKE k \in S
    <3>1. k \in Nat /\ m \in Nat /\ ~ (<<k, m>> \in R)
      BY <2>1
    <3>2. ~ (k < m)
      BY <1>4, <3>1
    <3> QED
      BY <3>1, <3>2
  <2> QED
  BY <2>2

\* A set of numbers that are at most n, which is not empty, has a greatest one.
LEMMA GreatestNumber ==
    ASSUME NEW n \in Nat, NEW S \in SUBSET (0 .. n), S # {}
    PROVE  \E m \in S : \A k \in S : k <= m
<1> DEFINE T == {n - k : k \in S}
<1>1. T \in SUBSET Nat /\ T # {}
  <2>1. \A k \in S : k \in Nat /\ k <= n /\ n - k \in Nat
    OBVIOUS
  <2>2. PICK k \in S : TRUE
    OBVIOUS
  <2>3. n - k \in T
    OBVIOUS
  <2> QED
    BY <2>1, <2>3
<1>2. PICK m \in T : \A k \in T : m <= k
  BY <1>1, LeastNumber
<1>3. PICK x \in S : m = n - x
  OBVIOUS
<1>4. \A k \in S : n - x <= n - k
  BY <1>2, <1>3
<1>5. \A k \in S : k <= x
  BY <1>4
<1> QED
  BY <1>5

\* What a call lists is a list, and has no row twice.
LEMMA RowsOfIsAList ==
    ASSUME PagesTypes, NEW t, NEW q \in Query, NEW semif
    PROVE  RowsOf(t, q, semif) \in Seq(Row) /\ IsInjective(RowsOf(t, q, semif))
<1>1. list[q] \in Seq(Row) /\ IsInjective(list[q]) /\ cap[q] \in Nat \ {0}
  BY PagingAssumption DEF PagesTypes
<1> DEFINE s == list[q]
           hits == IF semif THEN Reverse(s) ELSE s
           n == IF cap[q] < Len(hits) THEN cap[q] ELSE Len(hits)
<1>2. hits \in Seq(Row) /\ IsInjective(hits)
  <2> DEFINE r == Reverse(s)
  <2>0. s \in Seq(Row) /\ IsInjective(s) /\ Len(s) \in Nat /\ DOMAIN s = 1 .. Len(s)
    BY <1>1
  <2>1. r = [i \in 1 .. Len(s) |-> s[(Len(s) - i) + 1]]
    BY DEF Reverse
  <2> HIDE DEF s, r
  <2>2. \A i \in 1 .. Len(s) : (Len(s) - i) + 1 \in 1 .. Len(s)
    BY <2>0
  <2>3. r \in [1 .. Len(s) -> Row]
    BY <2>0, <2>1, <2>2
  <2>4. r \in Seq(Row)
    BY <2>0, <2>3, SeqDef
  <2>5. IsInjective(r)
    <3> SUFFICES ASSUME NEW a \in 1 .. Len(s), NEW b \in 1 .. Len(s), r[a] = r[b]
                 PROVE  a = b
      BY <2>1 DEF IsInjective
    <3>1. (Len(s) - a) + 1 = (Len(s) - b) + 1
      BY <2>0, <2>1, <2>2 DEF IsInjective
    <3> QED
      BY <2>0, <3>1
  <2> QED
    BY <2>0, <2>4, <2>5 DEF r
<1>3. SubSeq(hits, 1, n) \in Seq(Row) /\ IsInjective(SubSeq(hits, 1, n))
  <2> HIDE DEF hits
  <2>1. Len(hits) \in Nat /\ DOMAIN hits = 1 .. Len(hits) /\ \A i \in 1 .. Len(hits) : hits[i] \in Row
    BY <1>2
  <2>2. n \in Nat /\ n <= Len(hits)
    BY <1>1, <2>1
  <2> HIDE DEF n
  <2> DEFINE w == SubSeq(hits, 1, n)
  <2>3. w = [i \in 1 .. n |-> hits[i]]
    BY <1>2, <2>1, <2>2
  <2> HIDE DEF w
  <2>4. w \in [1 .. n -> Row]
    <3>1. \A i \in 1 .. n : hits[i] \in Row
      BY <2>1, <2>2
    <3> QED
      BY <2>3, <3>1
  <2>5. w \in Seq(Row)
    BY <2>2, <2>4, SeqDef
  <2>6. IsInjective(w)
    BY <1>2, <2>1, <2>2, <2>3 DEF IsInjective
  <2> QED
    BY <2>5, <2>6 DEF w
<1> QED
  BY <1>1, <1>3 DEF RowsOf

\* Where a page of rows ends, and the token it ends with.
LEMMA PageEnds ==
    ASSUME NEW t, NEW q, NEW semif, NEW from \in Nat, NEW b,
           RowsOf(t, q, semif) \in Seq(Row), Page(t, q, semif, from, b)
    PROVE  \E stop \in Nat :
              LET rows == RowsOf(t, q, semif)
                  page == {rows[i] : i \in from + 1 .. stop - 1}
              IN  /\ began' = from
                  /\ shown' = shown \cup page
                  /\ again' = again \cup (shown \cap page)
                  /\ \/ stop = Len(rows) + 1 /\ token' = None /\ ~ capped'
                     \/ /\ stop \in from + 2 .. Len(rows) + 1
                        /\ \/ token' = None /\ capped'
                           \/ \E o \in Nat :
                                 /\ token' = [tool |-> t, args |-> q, offset |-> o]
                                 /\ o >= stop - 1
                                 /\ t # "repo_map" => o = stop - 1
<1> DEFINE rows == RowsOf(t, q, semif)
           ends == Ends(t, q, rows, from, b)
           stop == IF ends = {} THEN Len(rows) + 1 ELSE Least(ends)
           page == {rows[i] : i \in from + 1 .. stop - 1}
<1>1. /\ began' = from
      /\ shown' = shown \cup page
      /\ again' = again \cup (shown \cap page)
      /\ capped' = (ends # {} /\ AsksForMore(t, q, rows, from, b, stop))
      /\ token' = IF ends = {} \/ capped' THEN None
                  ELSE [tool |-> t, args |-> q, offset |-> Offset(t, rows, from, b, stop)]
  BY DEF Page
<1>2. Len(rows) \in Nat /\ ends \subseteq from + 2 .. Len(rows) + 1
  BY DEF Ends
<1>3. CASE ends = {}
  <2>1. stop = Len(rows) + 1 /\ stop \in Nat
    BY <1>2, <1>3
  <2>2. ~ capped' /\ token' = None
    <3> HIDE DEF ends, stop
    <3> QED
      BY <1>1, <1>3
  <2> QED
    BY <1>1, <2>1, <2>2
<1>4. CASE ends # {}
  <2>1. stop \in ends
    <3>1. ends \in SUBSET Nat
      BY <1>2
    <3>2. \E i \in ends : \A j \in ends : i <= j
      BY <1>4, <3>1, LeastNumber
    <3> QED
      BY <1>4, <3>2 DEF Least
  <2>2. stop \in from + 2 .. Len(rows) + 1 /\ stop \in Nat
    BY <1>2, <2>1
  <2> DEFINE o == Offset(t, rows, from, b, stop)
  <2>3. CASE t # "repo_map"
    <3>1. o = stop - 1 /\ o \in Nat
      BY <2>2, <2>3 DEF Offset
    <3> QED
      BY <1>1, <1>4, <2>2, <3>1
  <2>4. CASE t = "repo_map"
    <3> DEFINE misfit == {i \in stop .. Len(rows) : b < Used(t, rows, from)[stop] + Whole(rows[i])}
    <3>1. stop \in misfit
      BY <1>2, <2>1, <2>2, <2>4 DEF Ends, CutAfter, CapReached, Overflows
    <3>2. misfit \in SUBSET (0 .. Len(rows)) /\ misfit # {}
      BY <1>2, <2>2, <3>1
    <3>3. o = (CHOOSE i \in misfit : \A j \in misfit : j <= i) - 1
      BY <2>4 DEF Offset
    <3> HIDE DEF misfit, o
    <3>4. \E i \in misfit : \A j \in misfit : j <= i
      BY <1>2, <3>2, GreatestNumber
    <3> DEFINE last == CHOOSE i \in misfit : \A j \in misfit : j <= i
    <3>5. last \in misfit /\ stop <= last
      BY <3>1, <3>4
    <3> HIDE DEF last
    <3>6. last \in Nat
      BY <3>2, <3>5
    <3>7. o = last - 1
      BY <3>3 DEF last
    <3>8. o \in Nat /\ o >= stop - 1
      BY <2>2, <3>5, <3>6, <3>7
    <3>9. (token' = None /\ capped') \/ token' = [tool |-> t, args |-> q, offset |-> o]
      BY <1>1, <1>4 DEF o
    <3> QED
      BY <1>1, <2>2, <2>4, <3>8, <3>9
  <2> QED
    BY <2>3, <2>4
<1> QED
  BY <1>3, <1>4

\* A page gets further, wherever it begins.
LEMMA PageMovesOn ==
    ASSUME PagesTypes, UNCHANGED <<list, cap>>, NEW t, NEW q \in Query, NEW semif,
           NEW from \in Nat, NEW b, Page(t, q, semif, from, b)
    PROVE  PagesTypes' /\ PagesMoveOn'
<1> DEFINE rows == RowsOf(t, q, semif)
<1>1. rows \in Seq(Row) /\ Len(rows) \in Nat
  BY RowsOfIsAList
<1>2. PICK stop \in Nat :
         /\ began' = from
         /\ \/ token' = None
            \/ /\ stop \in from + 2 .. Len(rows) + 1
               /\ \E o \in Nat : /\ token' = [tool |-> t, args |-> q, offset |-> o]
                                 /\ o >= stop - 1
  BY <1>1, PageEnds
<1>3. token' # None => token'.offset \in Nat /\ token'.offset > from
  BY <1>1, <1>2
<1> QED
  BY <1>2, <1>3 DEF PagesTypes, PagesMoveOn

\* Every page gets further, however small the budget and whatever has changed.
THEOREM PagesAlwaysMoveOn == PagingSpec => []PagesMoveOn
<1> DEFINE PagesIInv == PagesTypes /\ PagesMoveOn
<1>1. PagingInit => PagesIInv
  BY DEF PagingInit, PagesTypes, PagesMoveOn
<1>2. PagesIInv /\ [PagingNext]_pagingVars => PagesIInv'
  <2> SUFFICES ASSUME PagesTypes, PagesMoveOn, [PagingNext]_pagingVars
               PROVE  PagesTypes' /\ PagesMoveOn'
    OBVIOUS
  <2>1. CASE UNCHANGED pagingVars
    BY <2>1 DEF pagingVars, PagesTypes, PagesMoveOn
  <2>2. ASSUME NEW t \in Tool, NEW q \in Query, NEW semif \in BOOLEAN, NEW b \in Budget,
               Ask(t, q, semif, b)
        PROVE  PagesTypes' /\ PagesMoveOn'
    BY <2>2, PageMovesOn DEF Ask
  <2>3. ASSUME NEW t \in Tool, NEW q \in Query, NEW semif \in BOOLEAN, NEW b \in Budget,
               Resume(t, q, semif, b)
        PROVE  PagesTypes' /\ PagesMoveOn'
    <3>1. token.offset \in Nat
      BY <2>3 DEF Resume, Accepted, PagesTypes
    <3> QED
      BY <2>3, <3>1, PageMovesOn DEF Resume
  <2>4. ASSUME NEW q \in Query, Edit(q)
        PROVE  PagesTypes' /\ PagesMoveOn'
    BY <2>4 DEF Edit, PagesTypes, PagesMoveOn
  <2> QED
    BY <2>1, <2>2, <2>3, <2>4 DEF PagingNext
<1> QED
  BY <1>1, <1>2, PTL DEF PagingSpec
\* The first n rows of a list.
FirstRows(rows, n) == {rows[i] : i \in 1 .. n}

Walk == [tool : Tool, args : Query, semif : BOOLEAN]
WalkRows == RowsOf(walk.tool, walk.args, walk.semif)

\* What a walk has shown is what is before its token, or all there is.
WalkShows ==
    /\ again = {}
    /\ walk = None => shown = {} /\ token = None
    /\ walk # None => walk \in Walk
    /\ token # None =>
          /\ walk # None /\ token.tool = walk.tool /\ token.args = walk.args
          /\ token.offset \in 1 .. Len(WalkRows) /\ shown = FirstRows(WalkRows, token.offset)
    /\ walk # None /\ token = None /\ ~ capped => shown = FirstRows(WalkRows, Len(WalkRows))

ShownIsBefore == steady /\ ~ mixed => WalkShows

\* Rows up to one and the rows after it are the rows up to a later one, and different.
LEMMA RowsAreJoined ==
    ASSUME NEW S, NEW rows \in Seq(S), IsInjective(rows), NEW m \in Nat, NEW n \in Nat,
           m <= n, n <= Len(rows)
    PROVE  /\ FirstRows(rows, m) \cup {rows[i] : i \in m + 1 .. n} = FirstRows(rows, n)
           /\ FirstRows(rows, m) \cap {rows[i] : i \in m + 1 .. n} = {}
<1>1. 1 .. n = (1 .. m) \cup (m + 1 .. n)
  OBVIOUS
<1>2. FirstRows(rows, m) \cup {rows[i] : i \in m + 1 .. n} = FirstRows(rows, n)
  BY <1>1 DEF FirstRows
<1>3. ASSUME NEW i \in 1 .. m, NEW j \in m + 1 .. n
      PROVE  rows[i] # rows[j]
  <2>1. i \in DOMAIN rows /\ j \in DOMAIN rows /\ i # j
    BY <1>3
  <2> QED
    BY <2>1 DEF IsInjective
<1>4. FirstRows(rows, m) \cap {rows[i] : i \in m + 1 .. n} = {}
  BY <1>3 DEF FirstRows
<1> QED
  BY <1>2, <1>4

\* A page that begins where the walk is shows the rows from there, and none before.
LEMMA PageShows ==
    ASSUME None \notin [tool : Tool, args : Query, offset : Nat],
           PagesTypes, again = {}, UNCHANGED list, UNCHANGED cap,
           NEW t \in Tool \ {"repo_map"}, NEW q \in Query, NEW semif \in BOOLEAN,
           NEW from \in Nat, NEW b,
           from <= Len(RowsOf(t, q, semif)), shown = FirstRows(RowsOf(t, q, semif), from),
           Page(t, q, semif, from, b),
           walk' = [tool |-> t, args |-> q, semif |-> semif], walk' # None
    PROVE  WalkShows'
<1> DEFINE rows == RowsOf(t, q, semif)
<1>1. rows \in Seq(Row) /\ IsInjective(rows) /\ Len(rows) \in Nat
  BY RowsOfIsAList
<1>2. WalkRows' = rows
  BY DEF WalkRows, RowsOf
<1>3. PICK stop \in Nat :
         /\ shown' = shown \cup {rows[i] : i \in from + 1 .. stop - 1}
         /\ again' = again \cup (shown \cap {rows[i] : i \in from + 1 .. stop - 1})
         /\ \/ stop = Len(rows) + 1 /\ token' = None /\ ~ capped'
            \/ /\ stop \in from + 2 .. Len(rows) + 1
               /\ \/ token' = None /\ capped'
                  \/ token' = [tool |-> t, args |-> q, offset |-> stop - 1]
  <2>1. PICK stop \in Nat :
         /\ shown' = shown \cup {rows[i] : i \in from + 1 .. stop - 1}
         /\ again' = again \cup (shown \cap {rows[i] : i \in from + 1 .. stop - 1})
         /\ \/ stop = Len(rows) + 1 /\ token' = None /\ ~ capped'
            \/ /\ stop \in from + 2 .. Len(rows) + 1
               /\ \/ token' = None /\ capped'
                  \/ \E o \in Nat :
                        /\ token' = [tool |-> t, args |-> q, offset |-> o]
                        /\ t # "repo_map" => o = stop - 1
    BY <1>1, PageEnds
  <2> HIDE DEF rows
  <2> QED
    BY <2>1
<1> HIDE DEF rows
<1>4. stop - 1 \in Nat /\ from <= stop - 1 /\ stop - 1 <= Len(rows)
  BY <1>1, <1>3 DEF rows
<1>5. /\ FirstRows(rows, from) \cup {rows[i] : i \in from + 1 .. stop - 1} = FirstRows(rows, stop - 1)
      /\ FirstRows(rows, from) \cap {rows[i] : i \in from + 1 .. stop - 1} = {}
  BY <1>1, <1>4, RowsAreJoined
<1>6. shown' = FirstRows(rows, stop - 1) /\ again' = {}
  BY <1>3, <1>5 DEF rows
<1>7. walk' \in Walk /\ walk'.tool = t /\ walk'.args = q
  BY DEF Walk
<1>8. token' # None =>
         /\ token'.tool = t /\ token'.args = q
         /\ token'.offset \in 1 .. Len(rows) /\ shown' = FirstRows(rows, token'.offset)
  <2> SUFFICES ASSUME token' # None
               PROVE  /\ token'.tool = t /\ token'.args = q
                      /\ token'.offset \in 1 .. Len(rows) /\ shown' = FirstRows(rows, token'.offset)
    OBVIOUS
  <2>1. token' = [tool |-> t, args |-> q, offset |-> stop - 1] /\ stop \in from + 2 .. Len(rows) + 1
    BY <1>3
  <2>2. token'.offset = stop - 1 /\ stop - 1 \in 1 .. Len(rows)
    BY <1>1, <2>1
  <2> QED
    BY <1>6, <2>1, <2>2
<1>9. token' = None /\ ~ capped' => shown' = FirstRows(rows, Len(rows))
  <2> SUFFICES ASSUME token' = None, ~ capped' PROVE shown' = FirstRows(rows, Len(rows))
    OBVIOUS
  <2>1. stop # Len(rows) + 1 => token' = [tool |-> t, args |-> q, offset |-> stop - 1]
    BY <1>3
  <2>2. [tool |-> t, args |-> q, offset |-> stop - 1] # None
    BY <1>4
  <2>3. stop - 1 = Len(rows)
    BY <1>1, <2>1, <2>2
  <2> QED
    BY <1>6, <2>3
<1>10. /\ again' = {} /\ walk' \in Walk /\ walk' # None
       /\ token' # None =>
             /\ token'.tool = walk'.tool /\ token'.args = walk'.args
             /\ token'.offset \in 1 .. Len(WalkRows') /\ shown' = FirstRows(WalkRows', token'.offset)
       /\ token' = None /\ ~ capped' => shown' = FirstRows(WalkRows', Len(WalkRows'))
  BY <1>2, <1>6, <1>7, <1>8, <1>9
<1> QED
  BY <1>10 DEF WalkShows, FirstRows

\* The pages of a walk show every row once, as long as the files and the order stay as they
\* were.  This is of the tools but repo_map, whose token may pass rows over.
THEOREM WalksShowRowsOnce ==
    ASSUME "repo_map" \notin Tool,
           None \notin Walk, None \notin [tool : Tool, args : Query, offset : Nat]
    PROVE  PagingSpec => []RowsAreShownOnce
<1> DEFINE WalkIInv == PagesTypes /\ PagesMoveOn /\ ShownIsBefore
<1>1. PagingInit => WalkIInv
  BY DEF PagingInit, PagesTypes, PagesMoveOn, ShownIsBefore, WalkShows
<1>2. WalkIInv /\ [PagingNext]_pagingVars => WalkIInv'
  <2> SUFFICES ASSUME PagesTypes, PagesMoveOn, ShownIsBefore, [PagingNext]_pagingVars
               PROVE  PagesTypes' /\ PagesMoveOn' /\ ShownIsBefore'
    OBVIOUS
  <2>1. CASE UNCHANGED pagingVars
    <3>1. UNCHANGED <<list, cap, walk, began, token, shown, again, capped, steady, mixed>>
      BY <2>1 DEF pagingVars
    <3>2. PagesTypes' /\ PagesMoveOn'
      BY <3>1 DEF PagesTypes, PagesMoveOn
    <3>3. WalkRows' = WalkRows
      BY <3>1 DEF WalkRows, RowsOf
    <3>4. WalkShows => WalkShows'
      BY <3>1, <3>3 DEF WalkShows, FirstRows
    <3> QED
      BY <3>1, <3>2, <3>4 DEF ShownIsBefore
  <2>2. ASSUME NEW t \in Tool, NEW q \in Query, NEW semif \in BOOLEAN, NEW b \in Budget,
               Ask(t, q, semif, b)
        PROVE  PagesTypes' /\ PagesMoveOn' /\ ShownIsBefore'
    <3>1. /\ walk = None /\ walk' = [tool |-> t, args |-> q, semif |-> semif]
          /\ Page(t, q, semif, 0, b) /\ UNCHANGED <<list, cap, steady, mixed>>
      BY <2>2 DEF Ask
    <3>2. PagesTypes' /\ PagesMoveOn'
      BY <3>1, PageMovesOn
    <3>3. ASSUME steady', ~ mixed'
          PROVE  WalkShows'
      <4>1. again = {} /\ shown = {}
        BY <3>1, <3>3 DEF ShownIsBefore, WalkShows
      <4>2. 1 .. 0 = {}
        OBVIOUS
      <4>3. shown = FirstRows(RowsOf(t, q, semif), 0)
        BY <4>1, <4>2 DEF FirstRows
      <4>4. 0 <= Len(RowsOf(t, q, semif)) /\ t # "repo_map"
        BY RowsOfIsAList
      <4>5. walk' # None
        BY <3>1 DEF Walk
      <4> QED
        BY <3>1, <4>1, <4>3, <4>4, <4>5, PageShows
    <3> QED
      BY <3>2, <3>3 DEF ShownIsBefore
  <2>3. ASSUME NEW t \in Tool, NEW q \in Query, NEW semif \in BOOLEAN, NEW b \in Budget,
               Resume(t, q, semif, b)
        PROVE  PagesTypes' /\ PagesMoveOn' /\ ShownIsBefore'
    <3>1. /\ token # None /\ token.tool = t /\ token.args = q
          /\ Page(t, q, semif, token.offset, b)
          /\ mixed' = (mixed \/ semif # walk.semif) /\ UNCHANGED <<list, cap, walk, steady>>
      BY <2>3 DEF Resume, Accepted
    <3>2. token.offset \in Nat
      BY <3>1 DEF PagesTypes
    <3>3. PagesTypes' /\ PagesMoveOn'
      BY <3>1, <3>2, PageMovesOn
    <3>4. ASSUME steady', ~ mixed'
          PROVE  WalkShows'
      <4>1. WalkShows /\ semif = walk.semif
        BY <3>1, <3>4 DEF ShownIsBefore
      <4>2. /\ again = {} /\ walk # None /\ walk \in Walk
            /\ walk.tool = t /\ walk.args = q
            /\ token.offset \in 1 .. Len(WalkRows) /\ shown = FirstRows(WalkRows, token.offset)
        BY <3>1, <4>1 DEF WalkShows
      <4>3. walk = [tool |-> t, args |-> q, semif |-> semif]
        BY <4>1, <4>2 DEF Walk
      <4>4. WalkRows = RowsOf(t, q, semif)
        BY <4>1, <4>2 DEF WalkRows
      <4>5. token.offset <= Len(RowsOf(t, q, semif)) /\ t # "repo_map"
        BY <4>2, <4>4
      <4>6. /\ shown = FirstRows(RowsOf(t, q, semif), token.offset)
            /\ walk' = [tool |-> t, args |-> q, semif |-> semif] /\ walk' # None
        BY <3>1, <4>2, <4>3, <4>4
      <4> QED
        BY <3>1, <3>2, <4>2, <4>5, <4>6, PageShows
    <3> QED
      BY <3>3, <3>4 DEF ShownIsBefore
  <2>4. ASSUME NEW q \in Query, Edit(q)
        PROVE  PagesTypes' /\ PagesMoveOn' /\ ShownIsBefore'
    BY <2>4 DEF Edit, PagesTypes, PagesMoveOn, ShownIsBefore
  <2> QED
    BY <2>1, <2>2, <2>3, <2>4 DEF PagingNext
<1>3. WalkIInv => RowsAreShownOnce
  <2> SUFFICES ASSUME PagesTypes, WalkShows
               PROVE  /\ again = {}
                      /\ walk # None /\ token = None /\ ~ capped => shown = Range(WalkRows)
    BY DEF ShownIsBefore, WalkRows, RowsAreShownOnce
  <2>1. ASSUME walk # None, token = None, ~ capped
        PROVE  shown = Range(WalkRows)
    <3>1. walk \in Walk /\ shown = FirstRows(WalkRows, Len(WalkRows))
      BY <2>1 DEF WalkShows
    <3>2. WalkRows \in Seq(Row)
      BY <3>1, RowsOfIsAList DEF Walk, WalkRows
    <3>3. DOMAIN WalkRows = 1 .. Len(WalkRows)
      BY <3>2
    <3> QED
      BY <3>1, <3>3 DEF FirstRows, Range
  <2> QED
    BY <2>1 DEF WalkShows
<1> QED
  BY <1>1, <1>2, <1>3, PTL DEF PagingSpec
-----------------------------------------------------------------------------
(* The tools side by side *)

\* A step of the tools is a step of each or leaves it alone.
LEMMA StepIsOfATool ==
    [ToolsNext]_allVars => /\ [PagingNext]_pagingVars
                           /\ [Counts!Next]_Counts!statsVars
                           /\ [Decisions!Next]_Decisions!semifVars
<1>1. countVars = Counts!statsVars
  BY DEF countVars, Counts!statsVars
<1>2. decisionVars = Decisions!semifVars
  BY DEF decisionVars, Decisions!semifVars
<1>3. UNCHANGED allVars => UNCHANGED <<pagingVars, countVars, decisionVars>>
  BY DEF allVars
<1>4. UNCHANGED countVars => UNCHANGED Counts!statsVars
  BY <1>1 DEF countVars, Counts!statsVars
<1>5. UNCHANGED decisionVars => UNCHANGED Decisions!semifVars
  BY <1>2 DEF decisionVars, Decisions!semifVars
<1>6. ToolsNext => \/ PagingNext /\ UNCHANGED <<countVars, decisionVars>>
                   \/ Counts!Next /\ UNCHANGED <<pagingVars, decisionVars>>
                   \/ Decisions!Next /\ UNCHANGED <<pagingVars, countVars>>
  BY DEF ToolsNext, PageStep, CountStep, DecisionStep
<1> QED
  BY <1>3, <1>4, <1>5, <1>6

\* The run of the tools is a run of each: what is proved of one holds there.
THEOREM ToolsAreAsSpecified ==
    ToolsSpec => PagingSpec /\ Counts!Spec /\ Decisions!Spec
<1>1. ToolsInit => PagingInit /\ Counts!Init /\ Decisions!Init
  BY DEF ToolsInit
<1> QED
  BY <1>1, StepIsOfATool, PTL DEF ToolsSpec, PagingSpec, Counts!Spec, Decisions!Spec

\* All that the run of the tools checks of them holds of every behaviour it has.
THEOREM ToolsKeepTheirPromises ==
    ASSUME FlushThreshold \in Nat \ {0}, "repo_map" \notin Tool,
           None \notin Walk, None \notin [tool : Tool, args : Query, offset : Nat]
    PROVE  ToolsSpec => [](RowsAreShownOnce /\ PagesMoveOn /\ LossIsBounded /\ HandoffRelieves
                           /\ SourceIsTrue /\ EnginesLoadOnce)
<1>1. Counts!Spec => []LossIsBounded
  BY LossesAreBounded
<1>2. Counts!Spec => []HandoffRelieves
  BY HandoffsRelieve
<1>3. PagingSpec => []RowsAreShownOnce
  BY WalksShowRowsOnce
<1> QED
  BY <1>1, <1>2, <1>3, ToolsAreAsSpecified, PagesAlwaysMoveOn, SourcesAreTrue, EnginesAreLoadedOnce, PTL
=============================================================================
