---------------------------- MODULE ServicesProofs ----------------------------
(***************************************************************************)
(* Theorems about the parts of the program that MCServices puts side by     *)
(* side: the documents of a workspace, the idea board, the runtime hub and  *)
(* its captures, the wiki's indexer, the scans.  Each is about the part by  *)
(* itself, for every value of its constants; bounds on them that a theorem  *)
(* needs are its assumptions.                                              *)
(***************************************************************************)
EXTENDS MCServices, MtimeCacheProofs, FiniteSetTheorems

-----------------------------------------------------------------------------
(* Captures *)

CapturesTypes ==
    /\ capture \in [id : 0 .. MaxStarts, samples : Nat]
    /\ starts \in 0 .. MaxStarts
    /\ captured \subseteq 1 .. starts
    /\ failed \subseteq 1 .. starts
    /\ lines \in [Captures!CaptureId -> 0 .. MaxSamples]
    /\ meta \in [Captures!CaptureId -> Nat]

\* The number that goes with the capture that runs is that of the samples in its file,
\* where there is room for one more.
RunningCounts ==
    capture # Captures!NoCapture =>
        /\ capture.id \in captured
        /\ lines[capture.id] = capture.samples
        /\ capture.samples < MaxSamples

EndedCount ==
    \A c \in captured \ {capture.id} : c \notin failed => meta[c] = lines[c]

CapturesIInv ==
    /\ CapturesTypes /\ RunningCounts /\ EndedCount
    /\ Cardinality(captured) <= MaxCaptures

\* A set of numbers that is not empty has a least one.
LEMMA LeastNumber ==
    ASSUME NEW S \in SUBSET Nat, S # {}
    PROVE  \E m \in S : \A k \in S : m <= k
<1> DEFINE R == {ss \in Nat \X Nat : ss[1] < ss[2]}
<1>1. R = OpToRel(<, Nat)
  BY DEF OpToRel
<1>2. IsWellFoundedOn(R, Nat)
  BY <1>1, NatLessThanWellFounded
<1>3. \E m \in S : \A k \in S : ~ (<<k, m>> \in R)
  BY <1>2, WFMin
<1>4. \A k, m \in Nat : <<k, m>> \in R <=> k < m
  OBVIOUS
<1> QED
  <2> HIDE DEF R
  <2>1. PICK m \in S : \A k \in S : ~ (<<k, m>> \in R)
    BY <1>3
  <2>2. \A k \in S : m <= k
    <3> TAKE k \in S
    <3>1. k \in Nat /\ m \in Nat /\ ~ (<<k, m>> \in R)
      BY <2>1
    <3>2. ~ (k < m)
      BY <1>4, <3>1
    <3> QED
      BY <3>1, <3>2
  <2> QED
  BY <2>2

\* A set of numbers that each have fewer than n of a finite set above them has at
\* most n elements.
LEMMA NewestAreFew ==
    ASSUME NEW S \in SUBSET Nat, IsFiniteSet(S), NEW n \in Nat
    PROVE  Cardinality({c \in S : Cardinality({d \in S : d > c}) < n}) <= n
<1> DEFINE K == {c \in S : Cardinality({d \in S : d > c}) < n}
<1>1. IsFiniteSet(K) /\ Cardinality(K) \in Nat
  BY FS_Subset, FS_CardinalityType
<1>2. CASE K = {}
  <2>1. Cardinality(K) = 0
    BY <1>2, FS_EmptySet
  <2> QED
    BY <2>1
<1>3. CASE K # {}
  <2>1. PICK m \in K : \A k \in K : m <= k
    BY <1>3, LeastNumber
  <2> DEFINE Above == {d \in S : d > m}
  <2>2. K \ {m} \subseteq Above
    <3> SUFFICES ASSUME NEW k \in K, k # m PROVE k > m
      OBVIOUS
    <3> QED
      BY <2>1
  <2>3. IsFiniteSet(Above) /\ Cardinality(Above) < n /\ Cardinality(Above) \in Nat
    BY <2>1, FS_Subset, FS_CardinalityType
  <2>4. Cardinality(K \ {m}) <= Cardinality(Above)
    BY <2>2, <2>3, FS_Subset
  <2>5. Cardinality(K \ {m}) = Cardinality(K) - 1
    BY <1>1, <2>1, FS_RemoveElement
  <2>6. Cardinality(K) <= n
    <3> HIDE DEF K, Above
    <3> QED
      BY <1>1, <2>3, <2>4, <2>5
  <2> QED
    BY <2>6
<1> QED
  BY <1>2, <1>3

\* What a capture may start with, and what pruning leaves.
LEMMA SameCardinality == \A S : Captures!Cardinality(S) = Cardinality(S)
BY DEF Captures!Cardinality, Cardinality

\* After pruning there is room for one more capture.
LEMMA PruningMakesRoom ==
    ASSUME MaxCaptures \in Nat \ {0}, NEW ids, IsFiniteSet(ids), ids \subseteq Nat
    PROVE  /\ Captures!prune_captures(ids) \subseteq ids
           /\ IsFiniteSet(Captures!prune_captures(ids))
           /\ Cardinality(Captures!prune_captures(ids)) <= MaxCaptures - 1
           /\ Cardinality(Captures!prune_captures(ids)) \in Nat
<1>1. /\ Captures!prune_captures(ids) \subseteq ids
      /\ IsFiniteSet(Captures!prune_captures(ids))
      /\ Cardinality(Captures!prune_captures(ids)) \in Nat
  BY FS_Subset, FS_CardinalityType DEF Captures!prune_captures
<1>2. Cardinality(Captures!prune_captures(ids)) <= MaxCaptures - 1
  BY NewestAreFew, SameCardinality DEF Captures!prune_captures
<1> QED
  BY <1>1, <1>2

\* A description counts what it was told to, or its capture is known to have failed.
LEMMA MetaIsWritten ==
    ASSUME NEW k \in Captures!CaptureId, NEW n \in Nat,
           meta \in [Captures!CaptureId -> Nat], Captures!write_capture_meta(k, n)
    PROVE  /\ meta' \in [Captures!CaptureId -> Nat]
           /\ failed \subseteq failed' /\ failed' \subseteq failed \cup {k}
           /\ k \notin failed' => meta'[k] = n
           /\ \A d \in Captures!CaptureId \ {k} : meta'[d] = meta[d]
BY DEF Captures!write_capture_meta

\* What starting a capture does, if a file is made and if not.
LEMMA CaptureStarts ==
    ASSUME MaxCaptures \in Nat \ {0}, MaxSamples \in Nat, MaxSamples > 1, MaxStarts \in Nat,
           CapturesIInv, Captures!StartCapture
    PROVE  CapturesIInv'
<1> USE DEF Captures!NoCapture, Captures!CaptureId
<1> DEFINE c == starts + 1
           kept == Captures!prune_captures(captured)
<1>1. captured \in SUBSET (1 .. starts) /\ starts \in Nat /\ captured \subseteq Nat
  BY DEF CapturesIInv, CapturesTypes
<1>2. IsFiniteSet(captured)
  <2>1. IsFiniteSet(1 .. starts)
    BY <1>1, FS_Interval
  <2> QED
    BY <1>1, <2>1, FS_Subset
<1>3. /\ kept \subseteq captured /\ IsFiniteSet(kept)
      /\ Cardinality(kept) <= MaxCaptures - 1 /\ Cardinality(kept) \in Nat
  BY <1>1, <1>2, PruningMakesRoom
<1>4. Cardinality(kept \cup {c}) <= MaxCaptures
  <2> HIDE DEF kept, c
  <2>1. Cardinality(kept \cup {c}) \in {Cardinality(kept), Cardinality(kept) + 1}
    BY <1>3, FS_AddElement
  <2> QED
    BY <1>3, <2>1
<1>5. /\ capture = Captures!NoCapture /\ starts' = c /\ available' = available
      /\ c \in Captures!CaptureId /\ c \notin captured /\ c \notin failed
  BY <1>1 DEF Captures!StartCapture, CapturesIInv, CapturesTypes
<1>6. \/ captured' = kept /\ UNCHANGED <<lines, meta, capture, failed>>
      \/ /\ captured' = kept \cup {c} /\ failed' = failed \cup {c}
         /\ UNCHANGED <<lines, meta, capture>>
      \/ /\ captured' = kept \cup {c}
         /\ \E first \in {0, 1} :
               /\ lines' = [lines EXCEPT ![c] = first]
               /\ Captures!write_capture_meta(c, first)
               /\ capture' = IF c \in failed' THEN capture ELSE [id |-> c, samples |-> first]
  BY DEF Captures!StartCapture
<1> HIDE DEF kept
<1>7. /\ capture \in [id : 0 .. MaxStarts, samples : Nat]
      /\ failed \subseteq 1 .. starts
      /\ lines \in [Captures!CaptureId -> 0 .. MaxSamples]
      /\ meta \in [Captures!CaptureId -> Nat]
  BY DEF CapturesIInv, CapturesTypes
<1>8. /\ c \in Nat /\ c \in 0 .. MaxStarts /\ c \in 1 .. c
      /\ 1 .. starts \subseteq 1 .. c
      /\ \A d \in captured : d \in Captures!CaptureId /\ d # c /\ d # capture.id
      /\ \A d \in captured : d \notin failed => meta[d] = lines[d]
  BY <1>1, <1>5, <1>7 DEF CapturesIInv, EndedCount
<1> HIDE DEF c
<1>9. CASE captured' = kept /\ UNCHANGED <<lines, meta, capture, failed>>
  <2>1. CapturesTypes'
    BY <1>1, <1>3, <1>5, <1>7, <1>8, <1>9 DEF CapturesTypes
  <2>2. RunningCounts' /\ EndedCount'
    BY <1>3, <1>5, <1>8, <1>9 DEF RunningCounts, EndedCount
  <2> QED
    BY <1>3, <1>9, <2>1, <2>2 DEF CapturesIInv
<1>10. CASE /\ captured' = kept \cup {c} /\ failed' = failed \cup {c}
            /\ UNCHANGED <<lines, meta, capture>>
  <2>1. captured' \subseteq 1 .. c
    BY <1>1, <1>3, <1>8, <1>10
  <2>2. failed' \subseteq 1 .. c
    BY <1>7, <1>8, <1>10
  <2>3. CapturesTypes'
    BY <1>5, <1>7, <1>8, <1>10, <2>1, <2>2 DEF CapturesTypes
  <2>4. RunningCounts' /\ EndedCount'
    BY <1>3, <1>5, <1>8, <1>10 DEF RunningCounts, EndedCount
  <2> QED
    BY <1>4, <1>10, <2>3, <2>4 DEF CapturesIInv
<1>11. ASSUME captured' = kept \cup {c}, NEW first \in {0, 1},
              lines' = [lines EXCEPT ![c] = first], Captures!write_capture_meta(c, first),
              capture' = IF c \in failed' THEN capture ELSE [id |-> c, samples |-> first]
       PROVE  CapturesIInv'
  <2>1. /\ meta' \in [Captures!CaptureId -> Nat]
        /\ failed \subseteq failed' /\ failed' \subseteq failed \cup {c}
        /\ c \notin failed' => meta'[c] = first
        /\ \A d \in Captures!CaptureId \ {c} : meta'[d] = meta[d]
    BY <1>5, <1>7, <1>11, MetaIsWritten
  <2>2. /\ lines' \in [Captures!CaptureId -> 0 .. MaxSamples] /\ lines'[c] = first
        /\ \A d \in Captures!CaptureId \ {c} : lines'[d] = lines[d]
    BY <1>5, <1>7, <1>11
  <2>3. capture' \in [id : 0 .. MaxStarts, samples : Nat]
    BY <1>7, <1>8, <1>11
  <2>4. captured' \subseteq 1 .. c /\ failed' \subseteq 1 .. c
    <3>1. captured' \subseteq 1 .. c
      BY <1>1, <1>3, <1>8, <1>11
    <3>2. failed' \subseteq 1 .. c
      BY <1>7, <1>8, <2>1
    <3> QED
      BY <3>1, <3>2
  <2>5. CapturesTypes'
    BY <1>5, <1>8, <2>1, <2>2, <2>3, <2>4 DEF CapturesTypes
  <2>6. RunningCounts'
    BY <1>5, <1>11, <2>2 DEF RunningCounts
  <2>7. EndedCount'
    <3> SUFFICES ASSUME NEW d \in captured', d # capture'.id, d \notin failed'
                 PROVE  meta'[d] = lines'[d]
      BY DEF EndedCount
    <3>1. CASE d = c
      BY <2>1, <2>2, <3>1
    <3>2. CASE d # c
      BY <1>3, <1>8, <1>11, <2>1, <2>2, <3>2
    <3> QED
      BY <3>1, <3>2
  <2> QED
    BY <1>4, <1>11, <2>5, <2>6, <2>7 DEF CapturesIInv
<1> QED
  BY <1>6, <1>9, <1>10, <1>11

\* A sample is dropped or appended, and the last one ends the capture.
LEMMA CaptureGoesOn ==
    ASSUME MaxSamples \in Nat, MaxStarts \in Nat, CapturesIInv, Captures!Refresh
    PROVE  CapturesIInv'
<1> USE DEF CapturesIInv, Captures!NoCapture, Captures!CaptureId
<1>1. CASE capture = Captures!NoCapture
  BY <1>1 DEF Captures!Refresh, CapturesTypes, RunningCounts, EndedCount
<1>2. CASE capture # Captures!NoCapture
  <2>1. PICK more \in {0, 1} :
          /\ lines' = [lines EXCEPT ![capture.id] = @ + more]
          /\ IF Captures!Full(capture.samples + more)
             THEN /\ capture' = Captures!NoCapture
                  /\ Captures!write_capture_meta(capture.id, capture.samples + more)
             ELSE /\ capture' = [capture EXCEPT !.samples = @ + more]
                  /\ UNCHANGED <<meta, failed>>
    BY <1>2 DEF Captures!Refresh
  <2>2. captured' = captured /\ starts' = starts
    BY DEF Captures!Refresh
  <2>3. /\ capture \in [id : 0 .. MaxStarts, samples : Nat]
        /\ starts \in 0 .. MaxStarts /\ captured \subseteq 1 .. starts /\ failed \subseteq 1 .. starts
        /\ lines \in [Captures!CaptureId -> 0 .. MaxSamples]
        /\ meta \in [Captures!CaptureId -> Nat]
    BY DEF CapturesTypes
  <2> DEFINE c == capture.id
             n == capture.samples + more
  <2>4. /\ c \in captured /\ c \in Captures!CaptureId /\ c \in 0 .. MaxStarts /\ c \in 1 .. starts
        /\ lines[c] = capture.samples /\ capture.samples \in Nat
        /\ n \in Nat /\ n \in 0 .. MaxSamples
    BY <1>2, <2>3 DEF RunningCounts
  <2>5. /\ lines' \in [Captures!CaptureId -> 0 .. MaxSamples] /\ lines'[c] = n
        /\ \A d \in Captures!CaptureId \ {c} : lines'[d] = lines[d]
    BY <2>1, <2>3, <2>4
  <2>6. \A d \in captured : d # c => d \in Captures!CaptureId /\ (d \notin failed => meta[d] = lines[d])
    <3>1. \A d \in captured : d # c /\ d \notin failed => meta[d] = lines[d]
      BY DEF EndedCount
    <3>2. captured \subseteq Captures!CaptureId
      BY <2>3
    <3> QED
      BY <3>1, <3>2
  <2>7. CASE Captures!Full(n)
    <3> HIDE DEF n
    <3>1. capture' = Captures!NoCapture /\ Captures!write_capture_meta(c, n)
      BY <2>1, <2>7 DEF n
    <3>2. /\ meta' \in [Captures!CaptureId -> Nat]
          /\ failed \subseteq failed' /\ failed' \subseteq failed \cup {c}
          /\ c \notin failed' => meta'[c] = n
          /\ \A d \in Captures!CaptureId \ {c} : meta'[d] = meta[d]
      BY <2>3, <2>4, <3>1, MetaIsWritten
    <3> HIDE DEF c
    <3>3. CapturesTypes'
      <4>1. failed' \subseteq 1 .. starts
        BY <2>3, <2>4, <3>2
      <4>2. capture' \in [id : 0 .. MaxStarts, samples : Nat]
        BY <2>3, <3>1
      <4> QED
        BY <2>2, <2>3, <2>5, <3>2, <4>1, <4>2 DEF CapturesTypes
    <3>4. RunningCounts'
      BY <3>1 DEF RunningCounts
    <3>5. EndedCount'
      BY <2>2, <2>5, <2>6, <3>2 DEF EndedCount
    <3> QED
      BY <2>2, <3>3, <3>4, <3>5
  <2>8. CASE ~ Captures!Full(n)
    <3>1. /\ capture' = [capture EXCEPT !.samples = n] /\ meta' = meta /\ failed' = failed
      BY <2>1, <2>8
    <3>2. capture' \in [id : 0 .. MaxStarts, samples : Nat] /\ capture'.id = c /\ capture'.samples = n
      BY <2>3, <2>4, <3>1
    <3>3. n < MaxSamples
      BY <2>4, <2>8 DEF Captures!Full
    <3> HIDE DEF c, n
    <3>4. CapturesTypes'
      BY <2>2, <2>3, <2>5, <3>1, <3>2 DEF CapturesTypes
    <3>5. RunningCounts'
      BY <2>2, <2>4, <2>5, <3>2, <3>3 DEF RunningCounts
    <3>6. EndedCount'
      BY <2>2, <2>5, <2>6, <3>1, <3>2 DEF EndedCount
    <3> QED
      BY <2>2, <3>4, <3>5, <3>6
  <2> QED
    BY <2>7, <2>8
<1> QED
  BY <1>1, <1>2

\* CapturesIInv is an invariant of the captures.
THEOREM CapturesInv ==
    ASSUME MaxCaptures \in Nat \ {0}, MaxSamples \in Nat, MaxSamples > 1, MaxStarts \in Nat
    PROVE  Captures!Spec => []CapturesIInv
<1> USE DEF Captures!NoCapture, Captures!CaptureId
<1>1. Captures!Init => CapturesIInv
  <2> SUFFICES ASSUME Captures!Init PROVE CapturesIInv
    OBVIOUS
  <2>1. CapturesTypes
    BY DEF Captures!Init, CapturesTypes, Captures!NoMeta
  <2>2. RunningCounts /\ EndedCount
    BY DEF Captures!Init, RunningCounts, EndedCount
  <2>3. Cardinality(captured) <= MaxCaptures
    BY FS_EmptySet DEF Captures!Init
  <2> QED
    BY <2>1, <2>2, <2>3 DEF CapturesIInv
<1>2. CapturesIInv /\ [Captures!Next]_(Captures!vars) => CapturesIInv'
  <2> SUFFICES ASSUME CapturesIInv, [Captures!Next]_(Captures!vars)
               PROVE  CapturesIInv'
    OBVIOUS
  <2> USE DEF CapturesIInv
  <2>0. /\ capture # Captures!NoCapture => capture.id \in 1 .. starts /\ capture.samples \in Nat
        /\ Captures!NoCapture \in [id : 0 .. MaxStarts, samples : Nat]
    BY DEF CapturesTypes, RunningCounts
  <2>1. CASE Captures!StartCapture
    BY <2>1, CaptureStarts
  <2>2. CASE Captures!Refresh
    BY <2>2, CaptureGoesOn
  <2>3. CASE Captures!StopCapture
    <3>1. CapturesTypes'
      BY <2>0, <2>3 DEF CapturesTypes, Captures!StopCapture, Captures!write_capture_meta
    <3>2. RunningCounts' /\ EndedCount'
      BY <2>3 DEF CapturesTypes, RunningCounts, EndedCount, Captures!StopCapture,
                  Captures!write_capture_meta
    <3> QED
      BY <2>3, <3>1, <3>2 DEF Captures!StopCapture
  <2>4. CASE Captures!Restart
    <3>1. CapturesTypes'
      BY <2>0, <2>4 DEF CapturesTypes, Captures!Restart
    <3>2. RunningCounts' /\ EndedCount'
      BY <2>4 DEF CapturesTypes, RunningCounts, EndedCount, Captures!Restart
    <3> QED
      BY <2>4, <3>1, <3>2 DEF Captures!Restart
  <2>5. CASE UNCHANGED Captures!vars
    BY <2>5 DEF Captures!vars, CapturesTypes, RunningCounts, EndedCount
  <2> QED
    BY <2>1, <2>2, <2>3, <2>4, <2>5 DEF Captures!Next
<1> QED
  BY <1>1, <1>2, PTL DEF Captures!Spec

\* Captures are kept, for any number of them and of samples: pruning leaves room for
\* the new one and never takes the one that runs.
THEOREM CapturesStay ==
    ASSUME MaxCaptures \in Nat \ {0}, MaxSamples \in Nat, MaxSamples > 1, MaxStarts \in Nat
    PROVE  Captures!Spec => []CapturesAreKept
<1>1. CapturesIInv => CapturesAreKept
  BY SameCardinality DEF CapturesIInv, CapturesTypes, RunningCounts, EndedCount, CapturesAreKept,
                         Captures!CapturesAreKept, Captures!CaptureId
<1> QED
  BY <1>1, CapturesInv, PTL

-----------------------------------------------------------------------------
(* The idea board *)

\* What is looked at of a call in hand.
IsIdeaCall(r) == {"step", "seen"} \subseteq DOMAIN r

IdeasTypes ==
    /\ board = [p \in Writer |-> board[p]]
    /\ \A p \in Writer : IsIdeaCall(board[p])
    /\ alone \in [Writer -> BOOLEAN]

\* Whose call has been alone is the only one at work.
AloneIsAlone == \A p, q \in Writer : alone[p] /\ Ideas!Busy(q) => p = q

\* What a call that has been alone read, and what it wrote, is what is there.
AloneIsRight ==
    \A p \in Writer : alone[p] =>
        /\ board[p].step = "ledger" => board[p].seen = Ideas!Lines(idea)
        /\ board[p].step = "reply" => ledger = Ideas!Lines(idea)

\* The ledger is right while nobody edits.
Marking(p) == board[p].step \in {"idle", "mark"}

AgreedIsRight == agreed /\ (\A p \in Writer : Marking(p)) => ledger = Ideas!Lines(idea)

IdeasIInv == IdeasTypes /\ AloneIsAlone /\ AloneIsRight /\ AgreedIsRight

\* A call begins: nobody else's is alone any more.
LEMMA IdeaCallBegins ==
    ASSUME IdeasIInv, NEW p \in Writer, NEW r,
           ~ Ideas!Busy(p), Ideas!Began(p),
           board' = [board EXCEPT ![p] = r], IsIdeaCall(r),
           r.step \in {"write", "status", "mark"},
           UNCHANGED <<idea, ledger, agreed>>
    PROVE  IdeasIInv'
<1> USE DEF IdeasIInv, Ideas!Busy
<1>1. /\ board'[p] = r /\ \A q \in Writer \ {p} : board'[q] = board[q]
      /\ alone' = [q \in Writer |-> q = p /\ \A w \in Writer \ {p} : board[w].step = "idle"]
  BY DEF IdeasTypes, Ideas!Began
<1>2. IdeasTypes'
  BY <1>1 DEF IdeasTypes
<1>3. AloneIsAlone'
  <2>1. SUFFICES ASSUME NEW q \in Writer, NEW w \in Writer, alone'[q], board'[w].step # "idle"
                 PROVE  q = w
    BY DEF AloneIsAlone
  <2>2. q = p /\ \A v \in Writer \ {p} : board[v].step = "idle"
    BY <1>1, <2>1
  <2> QED
    BY <1>1, <2>1, <2>2
<1>4. AloneIsRight'
  BY <1>1 DEF AloneIsRight
<1>5. AgreedIsRight'
  <2>1. SUFFICES ASSUME agreed', \A q \in Writer : Marking(q)'
                 PROVE  ledger' = Ideas!Lines(idea)'
    BY DEF AgreedIsRight
  <2>2. \A q \in Writer : Marking(q)
    BY <1>1, <2>1 DEF Marking
  <2> QED
    BY <2>1, <2>2 DEF AgreedIsRight
<1> QED
  BY <1>2, <1>3, <1>4, <1>5

\* A call that is under way goes on.
LEMMA IdeaCallGoesOn ==
    ASSUME IdeasIInv, NEW p \in Writer, NEW r,
           ~ Marking(p), board' = [board EXCEPT ![p] = r], IsIdeaCall(r),
           r.step \notin {"idle", "mark"}, UNCHANGED <<alone, agreed>>,
           alone[p] => /\ r.step = "ledger" => r.seen = Ideas!Lines(idea')
                       /\ r.step = "reply" => ledger' = Ideas!Lines(idea')
    PROVE  IdeasIInv'
<1> USE DEF IdeasIInv, Ideas!Busy
<1>1. board'[p] = r /\ \A q \in Writer \ {p} : board'[q] = board[q]
  BY DEF IdeasTypes
<1>2. IdeasTypes'
  BY <1>1 DEF IdeasTypes
<1>3. AloneIsAlone'
  BY <1>1 DEF AloneIsAlone, Marking
<1>4. AloneIsRight'
  <2>1. \A q \in Writer : alone[q] => q = p
    BY DEF AloneIsAlone, Marking
  <2> QED
    BY <1>1, <2>1 DEF AloneIsRight
<1>5. ~ Marking(p)'
  BY <1>1 DEF Marking
<1> QED
  BY <1>2, <1>3, <1>4, <1>5 DEF AgreedIsRight

\* A call ends.
LEMMA IdeaCallEnds ==
    ASSUME IdeasIInv, NEW p \in Writer,
           board' = [board EXCEPT ![p] = Ideas!Waiting], Ideas!Busy(p),
           UNCHANGED <<idea, ledger, alone>>,
           \/ agreed' = FALSE
           \/ board[p].step = "mark" /\ agreed' = agreed
           \/ agreed' = alone[p] /\ board[p].step = "reply"
    PROVE  IdeasIInv'
<1> USE DEF IdeasIInv, Ideas!Busy
<1>1. /\ board'[p] = Ideas!Waiting /\ IsIdeaCall(Ideas!Waiting)
      /\ \A q \in Writer \ {p} : board'[q] = board[q]
  BY DEF IdeasTypes, Ideas!Waiting, IsIdeaCall
<1>2. IdeasTypes'
  BY <1>1 DEF IdeasTypes
<1>3. AloneIsAlone'
  BY <1>1 DEF AloneIsAlone, Ideas!Waiting
<1>4. AloneIsRight'
  BY <1>1 DEF AloneIsRight, Ideas!Waiting
<1>5. AgreedIsRight'
  <2>1. SUFFICES ASSUME agreed', \A q \in Writer : Marking(q)'
                 PROVE  ledger' = Ideas!Lines(idea)'
    BY DEF AgreedIsRight
  <2>2. \A q \in Writer \ {p} : Marking(q)
    BY <1>1, <2>1 DEF Marking
  <2>3. CASE board[p].step = "mark" /\ agreed' = agreed
    BY <2>1, <2>2, <2>3 DEF AgreedIsRight, Marking
  <2>4. CASE agreed' = alone[p] /\ board[p].step = "reply"
    BY <2>1, <2>4 DEF AloneIsRight
  <2> QED
    BY <2>1, <2>3, <2>4
<1> QED
  BY <1>2, <1>3, <1>4, <1>5

\* Every step of a call keeps the invariant of the board.
LEMMA IdeasStep ==
    ASSUME IdeasIInv, [Ideas!Next]_(Ideas!vars)
    PROVE  IdeasIInv'
<1>1. CASE UNCHANGED Ideas!vars
  BY <1>1 DEF Ideas!vars, IdeasIInv, IdeasTypes, AloneIsAlone, AloneIsRight, AgreedIsRight,
              Ideas!Busy, Marking
<1>2. ASSUME NEW p \in Writer, NEW t \in Title, Ideas!Capture(p, t)
      PROVE  IdeasIInv'
  <2>1. PICK s : board' = [board EXCEPT ![p] =
                    [Ideas!Waiting EXCEPT
                        !.step = "write", !.slug = s,
                        !.copy = [title |-> t, head |-> NoIdea, status |-> "seed", links |-> FALSE]]]
    BY <1>2 DEF Ideas!Capture
  <2> QED
    BY <1>2, <2>1, IdeaCallBegins DEF Ideas!Capture, Ideas!Waiting, IsIdeaCall
<1>3. ASSUME NEW p \in Writer, NEW s \in Ideas!Slug, Ideas!Change(p, s)
      PROVE  IdeasIInv'
  <2>1. PICK copy : board' = [board EXCEPT ![p] = [Ideas!Waiting EXCEPT
                                  !.step = "write", !.slug = s, !.copy = copy]]
    BY <1>3 DEF Ideas!Change
  <2> QED
    BY <1>3, <2>1, IdeaCallBegins DEF Ideas!Change, Ideas!Waiting, IsIdeaCall
<1>4. ASSUME NEW p \in Writer, NEW s \in Ideas!Slug, Ideas!SetStatusOf(p, s)
      PROVE  IdeasIInv'
  <2>1. PICK status : board' = [board EXCEPT ![p] = [Ideas!Waiting EXCEPT
                                    !.step = "status", !.slug = s, !.next = status]]
    BY <1>4 DEF Ideas!SetStatusOf
  <2> QED
    BY <1>4, <2>1, IdeaCallBegins DEF Ideas!SetStatusOf, Ideas!Waiting, IsIdeaCall
<1>5. ASSUME NEW p \in Writer, NEW s \in Ideas!Slug, Ideas!ReadMarks(p, s)
      PROVE  IdeasIInv'
  <2>1. PICK seen : board' = [board EXCEPT ![p] = [Ideas!Waiting EXCEPT
                                  !.step = "mark", !.slug = s, !.seen = seen]]
    BY <1>5 DEF Ideas!ReadMarks
  <2> QED
    BY <1>5, <2>1, IdeaCallBegins DEF Ideas!ReadMarks, Ideas!Waiting, IsIdeaCall
<1>6. ASSUME NEW p \in Writer, Ideas!SetStatus(p)
      PROVE  IdeasIInv'
  <2>1. PICK copy : board' = [board EXCEPT ![p] = [board[p] EXCEPT !.step = "write", !.copy = copy]]
    BY <1>6 DEF Ideas!SetStatus, IdeasIInv, IdeasTypes
  <2>2. IsIdeaCall(board[p])
    BY DEF IdeasIInv, IdeasTypes
  <2> DEFINE r == [board[p] EXCEPT !.step = "write", !.copy = copy]
  <2>3. IsIdeaCall(r) /\ r.step = "write"
    BY <2>2 DEF IsIdeaCall
  <2> HIDE DEF r
  <2> QED
    BY <1>6, <2>1, <2>3, IdeaCallGoesOn DEF Ideas!SetStatus, Marking, r
<1>7. ASSUME NEW p \in Writer, Ideas!WriteIdea(p)
      PROVE  IdeasIInv'
  <2> DEFINE r == [board[p] EXCEPT !.step = "load"]
  <2>1. board' = [board EXCEPT ![p] = r]
    BY <1>7 DEF Ideas!WriteIdea, Ideas!Goto, IdeasIInv, IdeasTypes
  <2>2. IsIdeaCall(r) /\ r.step = "load"
    BY DEF IsIdeaCall, IdeasIInv, IdeasTypes
  <2> HIDE DEF r
  <2> QED
    BY <1>7, <2>1, <2>2, IdeaCallGoesOn DEF Ideas!WriteIdea, Marking
<1>8. ASSUME NEW p \in Writer, Ideas!LoadAll(p)
      PROVE  IdeasIInv'
  <2> DEFINE r == [board[p] EXCEPT !.step = "ledger", !.seen = Ideas!Lines(idea)]
  <2>1. board' = [board EXCEPT ![p] = r]
    BY <1>8 DEF Ideas!LoadAll, IdeasIInv, IdeasTypes
  <2>2. IsIdeaCall(r) /\ r.step = "ledger" /\ r.seen = Ideas!Lines(idea)
    BY DEF IsIdeaCall, IdeasIInv, IdeasTypes
  <2> HIDE DEF r
  <2> QED
    BY <1>8, <2>1, <2>2, IdeaCallGoesOn DEF Ideas!LoadAll, Marking
<1>9. ASSUME NEW p \in Writer, Ideas!RewriteLedger(p)
      PROVE  IdeasIInv'
  <2> DEFINE r == [board[p] EXCEPT !.step = "reply"]
  <2>1. board' = [board EXCEPT ![p] = r]
    BY <1>9 DEF Ideas!RewriteLedger, Ideas!Goto, IdeasIInv, IdeasTypes
  <2>2. IsIdeaCall(r) /\ r.step = "reply"
    BY DEF IsIdeaCall, IdeasIInv, IdeasTypes
  <2>3. alone[p] => board[p].seen = Ideas!Lines(idea)
    BY <1>9 DEF Ideas!RewriteLedger, IdeasIInv, AloneIsRight
  <2> HIDE DEF r
  <2> QED
    BY <1>9, <2>1, <2>2, <2>3, IdeaCallGoesOn DEF Ideas!RewriteLedger, Marking
<1>10. ASSUME NEW p \in Writer, Ideas!Reply(p)
       PROVE  IdeasIInv'
  <2>1. CASE board' = [board EXCEPT ![p] = Ideas!Waiting] /\ agreed' = alone[p]
    BY <1>10, <2>1, IdeaCallEnds DEF Ideas!Reply, Ideas!Busy
  <2>2. CASE /\ \E copy : board' = [board EXCEPT ![p] = [board[p] EXCEPT
                                        !.step = "write", !.next = "none", !.copy = copy]]
             /\ agreed' = agreed
    <3>1. PICK copy : board' = [board EXCEPT ![p] = [board[p] EXCEPT
                                    !.step = "write", !.next = "none", !.copy = copy]]
      BY <2>2
    <3> DEFINE r == [board[p] EXCEPT !.step = "write", !.next = "none", !.copy = copy]
    <3>2. IsIdeaCall(r) /\ r.step = "write"
      BY DEF IsIdeaCall, IdeasIInv, IdeasTypes
    <3> HIDE DEF r
    <3> QED
      BY <1>10, <2>2, <3>1, <3>2, IdeaCallGoesOn DEF Ideas!Reply, Marking, r
  <2> QED
    BY <1>10, <2>1, <2>2 DEF Ideas!Reply, IdeasIInv, IdeasTypes
<1>11. ASSUME NEW p \in Writer, Ideas!WriteMarks(p) \/ Ideas!Die(p)
       PROVE  IdeasIInv'
  BY <1>11, IdeaCallEnds DEF Ideas!WriteMarks, Ideas!Die, Ideas!Busy
<1> QED
  BY <1>1, <1>2, <1>3, <1>4, <1>5, <1>6, <1>7, <1>8, <1>9, <1>10, <1>11 DEF Ideas!Next

\* The ledger is mended, for any number of processes, ideas and slugs, although calls
\* overlap, die in the middle and work without a lock.
THEOREM LedgerIsMended == Ideas!Spec => []LedgerMends
<1>1. Ideas!Init => IdeasIInv
  BY DEF Ideas!Init, IdeasIInv, IdeasTypes, AloneIsAlone, AloneIsRight, AgreedIsRight,
         Ideas!Waiting, Ideas!Busy, Ideas!Lines, IsIdeaCall
<1>2. IdeasIInv /\ [Ideas!Next]_(Ideas!vars) => IdeasIInv'
  BY IdeasStep
<1>3. IdeasIInv => LedgerMends
  BY DEF IdeasIInv, AgreedIsRight, Marking, LedgerMends, Ideas!LedgerMends, Ideas!Busy
<1> QED
  BY <1>1, <1>2, <1>3, PTL DEF Ideas!Spec

-----------------------------------------------------------------------------
(* The runtime hub *)

Field == {"seq", "census", "overlay"}

\* A snapshot, or a page's copy of one.
IsSnapshot(s) == s = [f \in Field |-> s[f]] /\ s.seq \in Nat

\* What a delta is by itself.
IsChange(d) ==
    /\ d.seq \in Nat \ {0} /\ d.changed \subseteq Field /\ "seq" \in d.changed
    /\ IsSnapshot(d.to) /\ d.to.seq = d.seq

\* A delta that was worked out: the newest one leads to the snapshot.
IsDelta(d) ==
    /\ IsChange(d)
    /\ d.seq <= snapshot.seq
    /\ d.seq = snapshot.seq => d.to = snapshot

Sending(t) == sending[t] # Hub!NoDelta
Behind(v) == viewer[v].step = "watching" /\ viewer[v].heard < channel.sent

\* A page.
IsPage(r) ==
    /\ {"step", "copy", "heard"} \subseteq DOMAIN r
    /\ r.step \in {"away", "looked", "watching"}
    /\ r.heard \in Nat
    /\ IsSnapshot(r.copy)

HubTypes ==
    /\ seq \in Nat /\ IsSnapshot(snapshot) /\ snapshot.seq <= seq
    /\ sending = [t \in Thread |-> sending[t]]
    /\ \A t \in Thread : Sending(t) => IsDelta(sending[t])
    /\ channel.sent \in Nat /\ (channel.sent > 0 => IsDelta(channel.last))
    /\ viewer = [v \in Viewer |-> viewer[v]]
    /\ \A v \in Viewer :
          IsPage(viewer[v]) /\ viewer[v].heard <= channel.sent /\ viewer[v].copy.seq <= snapshot.seq

\* No two deltas that are somewhere have the same number.
DeltasDiffer ==
    \A t \in Thread : Sending(t) =>
        /\ \A u \in Thread \ {t} : Sending(u) => sending[u].seq # sending[t].seq
        /\ channel.sent > 0 => channel.last.seq # sending[t].seq

\* What a page may still be given.
Coming(v) ==
    {sending[t] : t \in {u \in Thread : Sending(u)}}
    \cup (IF Behind(v) THEN {channel.last} ELSE {})

\* A page will be given a delta that is older than what it has, and then has missed it.
Late(C, copy) == \E d \in C : d.seq < copy.seq

\* Or else what comes makes its copy the snapshot: of every field, the last delta that
\* changes it has the value of the snapshot, and without one the copy has it.
Leads(C, copy, to) ==
    /\ \A f \in Field : (\A d \in C : f \notin d.changed) => copy[f] = to[f]
    /\ \A f \in Field, d \in C :
          f \in d.changed /\ (\A e \in C : f \in e.changed => e.seq <= d.seq) => d.to[f] = to[f]
    /\ \A d \in C : d.seq = copy.seq => d.to = copy

OnItsWay(v) == Late(Coming(v), viewer[v].copy) \/ Leads(Coming(v), viewer[v].copy, snapshot)

HubIInv ==
    /\ HubTypes /\ DeltasDiffer
    /\ \A v \in Viewer : viewer[v].step # "away" /\ v \notin missed => OnItsWay(v)

\* A page takes one of the deltas that come to it, and none that is too old.
LEMMA DeltaIsTaken ==
    ASSUME NEW C, NEW copy, NEW to, NEW d \in C,
           \A e \in C : IsChange(e) /\ (e # d => e.seq # d.seq),
           IsSnapshot(copy), copy.seq <= d.seq,
           Late(C, copy) \/ Leads(C, copy, to),
           NEW new, new = [f \in Field |-> IF f \in d.changed THEN d.to[f] ELSE copy[f]]
    PROVE  Late(C \ {d}, new) \/ Leads(C \ {d}, new, to)
<1>1. new.seq = d.seq /\ d.seq \in Nat /\ copy.seq \in Nat
  BY DEF IsChange, IsSnapshot, Field
<1>2. CASE \E e \in C \ {d} : e.seq < d.seq
  BY <1>1, <1>2 DEF Late
<1>3. CASE \A e \in C \ {d} : ~ (e.seq < d.seq)
  <2>1. \A e \in C \ {d} : e.seq > d.seq /\ e.seq \in Nat
    BY <1>1, <1>3 DEF IsChange
  <2>2. Leads(C, copy, to)
    BY <1>1, <2>1 DEF Late
  <2>3. ASSUME NEW f \in Field, \A e \in C \ {d} : f \notin e.changed
        PROVE  new[f] = to[f]
    <3>1. CASE f \in d.changed
      BY <1>1, <2>2, <2>3, <3>1 DEF Leads
    <3>2. CASE f \notin d.changed
      BY <2>2, <2>3, <3>2 DEF Leads
    <3> QED
      BY <3>1, <3>2
  <2>4. ASSUME NEW f \in Field, NEW e \in C \ {d}, f \in e.changed,
               \A g \in C \ {d} : f \in g.changed => g.seq <= e.seq
        PROVE  e.to[f] = to[f]
    <3>1. \A g \in C : f \in g.changed => g.seq <= e.seq
      BY <1>1, <2>1, <2>4
    <3> QED
      BY <2>2, <2>4, <3>1 DEF Leads
  <2>5. \A e \in C \ {d} : e.seq # new.seq
    BY <1>1, <2>1
  <2> QED
    BY <2>3, <2>4, <2>5 DEF Leads
<1> QED
  BY <1>2, <1>3

\* A delta that has the number of the copy is what the copy is: without it nothing is
\* missing.
LEMMA DeltaIsSkipped ==
    ASSUME NEW C, NEW copy, NEW to, NEW d \in C,
           \A e \in C : IsChange(e) /\ (e # d => e.seq # d.seq),
           IsSnapshot(copy), copy.seq = d.seq,
           Late(C, copy) \/ Leads(C, copy, to)
    PROVE  Late(C \ {d}, copy) \/ Leads(C \ {d}, copy, to)
<1>1. CASE Late(C, copy)
  BY <1>1 DEF Late, IsChange, IsSnapshot
<1>2. CASE Leads(C, copy, to)
  <2> DEFINE new == [f \in Field |-> IF f \in d.changed THEN d.to[f] ELSE copy[f]]
  <2>1. d.to = copy
    BY <1>2 DEF Leads
  <2>2. new = copy
    BY <2>1 DEF IsSnapshot
  <2>3. copy.seq <= d.seq
    BY DEF IsSnapshot
  <2> HIDE DEF new
  <2> QED
    BY <2>2, <2>3, DeltaIsTaken DEF new
<1> QED
  BY <1>1, <1>2

\* The snapshot changes, and the delta that says how is one of those that come.
LEMMA DeltaIsAdded ==
    ASSUME NEW C, NEW copy, NEW was, NEW is,
           \A e \in C : IsChange(e) /\ e.seq < is.seq,
           IsSnapshot(copy), copy.seq < is.seq, IsSnapshot(is),
           Late(C, copy) \/ Leads(C, copy, was),
           NEW d, d = Hub!stream_delta(was, is)
    PROVE  Late(C \cup {d}, copy) \/ Leads(C \cup {d}, copy, is)
<1>1. /\ d.seq = is.seq /\ d.to = is
      /\ \A f \in Field : f \in d.changed <=> was[f] # is[f]
  BY DEF Hub!stream_delta, IsSnapshot
<1>2. CASE Late(C, copy)
  BY <1>2 DEF Late
<1>3. CASE Leads(C, copy, was)
  <2>a. d.seq \in Nat /\ copy.seq \in Nat
    BY <1>1 DEF IsSnapshot
  <2>b. copy.seq # d.seq
    BY <1>1, <2>a
  <2>c. \A e \in C : e.seq \in Nat
    BY DEF IsChange
  <2>d. \A e \in C : e.seq < d.seq
    BY <1>1
  <2>0. /\ d.seq \in Nat /\ copy.seq \in Nat /\ copy.seq # d.seq
        /\ \A e \in C : e.seq \in Nat /\ e.seq < d.seq
    BY <2>a, <2>b, <2>c, <2>d
  <2>1. ASSUME NEW f \in Field, \A e \in C \cup {d} : f \notin e.changed
        PROVE  copy[f] = is[f]
    BY <1>1, <1>3, <2>1 DEF Leads
  <2>2. ASSUME NEW f \in Field, NEW e \in C \cup {d}, f \in e.changed,
               \A g \in C \cup {d} : f \in g.changed => g.seq <= e.seq
        PROVE  e.to[f] = is[f]
    <3>1. CASE e = d
      BY <1>1, <3>1
    <3>2. CASE e # d
      <4>1. e \in C /\ f \notin d.changed
        BY <2>0, <2>2, <3>2
      <4> QED
        BY <1>1, <1>3, <2>2, <4>1 DEF Leads
    <3> QED
      BY <3>1, <3>2
  <2>3. \A e \in C \cup {d} : e.seq = copy.seq => e.to = copy
    BY <1>3, <2>0 DEF Leads
  <2> QED
    BY <2>1, <2>2, <2>3 DEF Leads
<1> QED
  BY <1>2, <1>3

\* What comes to a page is a set of deltas that differ in their numbers.
LEMMA ComingDiffer ==
    ASSUME HubTypes, DeltasDiffer, NEW v \in Viewer
    PROVE  /\ \A e \in Coming(v) : IsDelta(e)
           /\ \A e, g \in Coming(v) : e # g => e.seq # g.seq
<1>1. Behind(v) => channel.sent > 0
  BY DEF HubTypes, Behind, IsPage
<1>2. \A e \in Coming(v) :
         \/ \E t \in Thread : Sending(t) /\ e = sending[t]
         \/ channel.sent > 0 /\ e = channel.last
  BY <1>1 DEF Coming
<1>3. \A e \in Coming(v) : IsDelta(e)
  BY <1>2 DEF HubTypes
<1>4. ASSUME NEW e \in Coming(v), NEW g \in Coming(v), e # g
      PROVE  e.seq # g.seq
  BY <1>2, <1>4 DEF DeltasDiffer
<1> QED
  BY <1>3, <1>4

\* A snapshot that takes the place of another, with the delta that its thread is to send.
LEMMA SnapshotIsPublished ==
    ASSUME HubIInv, NEW t \in Thread, sending[t] = Hub!NoDelta,
           NEW is, IsSnapshot(is), is.seq = seq + 1, seq' = seq + 1,
           Hub!Publish(t, is), UNCHANGED <<channel, viewer, missed>>
    PROVE  HubIInv'
<1> DEFINE d == Hub!stream_delta(snapshot, is)
<1>1. seq \in Nat /\ IsSnapshot(snapshot) /\ snapshot.seq \in Nat /\ snapshot.seq <= seq
  BY DEF HubIInv, HubTypes, IsSnapshot
<1>2. snapshot' = is /\ sending' = [sending EXCEPT ![t] = d]
  BY DEF Hub!Publish
<1>3. d.seq = is.seq /\ d.to = is /\ d.changed = {f \in Field : snapshot[f] # is[f]}
  BY DEF Hub!stream_delta, IsSnapshot
<1>4. IsChange(d)
  BY <1>1, <1>3 DEF IsChange, Field
<1>5. sending' = [u \in Thread |-> IF u = t THEN d ELSE sending[u]]
  BY <1>2 DEF HubIInv, HubTypes
<1>6. d # Hub!NoDelta
  BY <1>1, <1>3 DEF Hub!NoDelta
<1> HIDE DEF d
<1>7. \A e : IsDelta(e) => IsDelta(e)' /\ e.seq < is.seq /\ e.seq # d.seq
  BY <1>1, <1>2, <1>3 DEF IsDelta, IsChange
<1>8. \A e : e = d => IsDelta(e)'
  BY <1>1, <1>2, <1>3, <1>4 DEF IsDelta
<1>9. HubTypes'
  <2>1. ASSUME NEW u \in Thread, Sending(u)'
        PROVE  IsDelta(sending[u])'
    <3>1. CASE u = t
      BY <1>5, <1>8, <3>1
    <3>2. CASE u # t
      <4>1. sending'[u] = sending[u] /\ Sending(u)
        BY <1>5, <2>1, <3>2 DEF Sending
      <4>2. IsDelta(sending[u])
        BY <4>1 DEF HubIInv, HubTypes
      <4> QED
        BY <1>7, <4>1, <4>2
    <3> QED
      BY <3>1, <3>2
  <2>2. channel'.sent > 0 => IsDelta(channel.last)'
    BY <1>7 DEF HubIInv, HubTypes
  <2>3. snapshot'.seq <= seq' /\ snapshot.seq <= snapshot'.seq /\ snapshot'.seq \in Nat
    BY <1>1, <1>2
  <2>4. \A v \in Viewer : viewer[v].copy.seq \in Nat /\ viewer[v].copy.seq <= snapshot.seq
    BY DEF HubIInv, HubTypes, IsPage, IsSnapshot
  <2>5. \A v \in Viewer : viewer'[v].copy.seq <= snapshot'.seq
    BY <1>1, <2>3, <2>4
  <2>6. IsSnapshot(snapshot)'
    BY <1>2 DEF IsSnapshot
  <2>7. seq' \in Nat /\ sending' = [u \in Thread |-> sending'[u]]
    BY <1>1, <1>5
  <2> QED
    BY <2>1, <2>2, <2>3, <2>5, <2>6, <2>7 DEF HubIInv, HubTypes, IsPage, IsSnapshot
<1>10. DeltasDiffer'
  <2>1. \A u \in Thread : Sending(u) => sending[u].seq # d.seq
    BY <1>7 DEF HubIInv, HubTypes
  <2>2. channel.sent > 0 => channel.last.seq # d.seq
    BY <1>7 DEF HubIInv, HubTypes
  <2>3. \A u \in Thread : sending'[u] = IF u = t THEN d ELSE sending[u]
    BY <1>5
  <2> QED
    BY <2>1, <2>2, <2>3 DEF HubIInv, DeltasDiffer, Sending
<1>11. ASSUME NEW v \in Viewer, viewer'[v].step # "away", v \notin missed'
       PROVE  OnItsWay(v)'
  <2>1. Coming(v)' = Coming(v) \cup {d}
    <3>1. {sending'[u] : u \in {w \in Thread : Sending(w)'}}
            = {sending[u] : u \in {w \in Thread : Sending(w)}} \cup {d}
      BY <1>5, <1>6 DEF Sending
    <3> QED
      BY <3>1 DEF Coming, Behind
  <2>2. OnItsWay(v)
    BY <1>11 DEF HubIInv
  <2>3. \A e \in Coming(v) : IsChange(e) /\ e.seq < is.seq
    BY <1>7, ComingDiffer DEF HubIInv, IsDelta
  <2>4. IsSnapshot(viewer[v].copy) /\ viewer[v].copy.seq < is.seq
    BY <1>1 DEF HubIInv, HubTypes, IsPage, IsSnapshot
  <2>5. \/ Late(Coming(v) \cup {d}, viewer[v].copy)
        \/ Leads(Coming(v) \cup {d}, viewer[v].copy, is)
    BY <2>2, <2>3, <2>4, DeltaIsAdded DEF OnItsWay, d
  <2> QED
    BY <1>2, <2>1, <2>5 DEF OnItsWay
<1> QED
  BY <1>9, <1>10, <1>11 DEF HubIInv

\* A refresh and an ingest publish a snapshot with the next number.
LEMMA Published ==
    ASSUME HubIInv, NEW t \in Thread,
           \/ Hub!Refresh(t)
           \/ \E p \in Pid, what \in Reading : Hub!IngestOverlay(t, p, what) \/ Hub!IngestSnapshot(t, p, what)
    PROVE  HubIInv'
<1>1. IsSnapshot(snapshot) /\ seq \in Nat
  BY DEF HubIInv, HubTypes
<1>2. CASE Hub!Refresh(t)
  <2>1. PICK found \in Reading, merged \in {None} \cup (IF overlay # None /\ overlay.of = pid
                                  THEN {overlay} ELSE {}) :
           Hub!Publish(t, [seq |-> seq + 1, census |-> [of |-> pid, found |-> found],
                           overlay |-> merged])
    BY <1>2 DEF Hub!Refresh
  <2> DEFINE is == [seq |-> seq + 1, census |-> [of |-> pid, found |-> found], overlay |-> merged]
  <2>2. IsSnapshot(is) /\ is.seq = seq + 1
    BY <1>1 DEF IsSnapshot, Field
  <2> HIDE DEF is
  <2>3. Hub!Publish(t, is)
    BY <2>1 DEF is
  <2> QED
    BY <1>2, <2>2, <2>3, SnapshotIsPublished DEF Hub!Refresh
<1>3. ASSUME NEW p \in Pid, NEW what \in Reading, Hub!IngestOverlay(t, p, what)
      PROVE  HubIInv'
  <2> DEFINE is == [snapshot EXCEPT !.seq = seq + 1,
                                    !.overlay = IF p = pid THEN overlay' ELSE @]
  <2>1. Hub!Publish(t, is)
    BY <1>3 DEF Hub!IngestOverlay
  <2>2. DOMAIN snapshot = Field /\ {"seq", "overlay"} \subseteq Field
    BY <1>1 DEF IsSnapshot, Field
  <2>3. is.seq = seq + 1 /\ is = [f \in Field |-> is[f]]
    BY <2>2
  <2> HIDE DEF is
  <2>4. IsSnapshot(is)
    BY <1>1, <2>3 DEF IsSnapshot
  <2> QED
    BY <1>3, <2>1, <2>3, <2>4, SnapshotIsPublished DEF Hub!IngestOverlay, Hub!streamVars
<1>4. ASSUME NEW p \in Pid, NEW what \in Reading, Hub!IngestSnapshot(t, p, what)
      PROVE  HubIInv'
  <2> DEFINE is == [seq |-> seq + 1, census |-> [of |-> p, found |-> what], overlay |-> None]
  <2>1. Hub!Publish(t, is)
    BY <1>4 DEF Hub!IngestSnapshot
  <2>2. IsSnapshot(is) /\ is.seq = seq + 1
    BY <1>1 DEF IsSnapshot, Field
  <2> HIDE DEF is
  <2> QED
    BY <1>4, <2>1, <2>2, SnapshotIsPublished DEF Hub!IngestSnapshot, Hub!streamVars
<1> QED
  BY <1>2, <1>3, <1>4

\* A thread sends: a page that waited for nothing gets this delta, one that looked had
\* it in its copy, and the others have missed one.
LEMMA DeltaIsSent ==
    ASSUME HubIInv, NEW t \in Thread, Hub!Send(t)
    PROVE  HubIInv'
<1> DEFINE d == sending[t]
<1>1. /\ UNCHANGED <<seq, snapshot, viewer>>
      /\ channel' = [last |-> d, sent |-> channel.sent + 1]
      /\ sending' = [u \in Thread |-> IF u = t THEN Hub!NoDelta ELSE sending[u]]
  BY DEF Hub!Send, Hub!hubVars, HubIInv, HubTypes
<1>2. Sending(t) /\ channel.sent \in Nat
  BY DEF Hub!Send, Sending, HubIInv, HubTypes
<1>3. IsDelta(d)
  BY <1>2 DEF HubIInv, HubTypes
<1>4. \A u \in Thread \ {t} : Sending(u) => sending[u].seq # d.seq
  BY <1>2 DEF HubIInv, DeltasDiffer
<1>5. \A e : IsDelta(e) <=> IsDelta(e)'
  BY <1>1 DEF IsDelta
<1>6. \A u \in Thread : Sending(u)' <=> u # t /\ Sending(u)
  BY <1>1 DEF Sending
<1>7. HubTypes'
  <2>1. channel'.sent \in Nat /\ (channel'.sent > 0 => IsDelta(channel.last)')
    BY <1>1, <1>2, <1>3, <1>5
  <2>2. \A v \in Viewer : viewer[v].heard \in Nat /\ viewer[v].heard <= channel.sent
    BY DEF HubIInv, HubTypes, IsPage
  <2>3. \A v \in Viewer : viewer'[v].heard <= channel'.sent
    BY <1>1, <1>2, <2>2
  <2>4. \A u \in Thread : Sending(u)' => IsDelta(sending[u])'
    BY <1>1, <1>5, <1>6 DEF HubIInv, HubTypes
  <2>5. sending' = [u \in Thread |-> sending'[u]]
    BY <1>1
  <2> QED
    BY <1>1, <2>1, <2>3, <2>4, <2>5 DEF HubIInv, HubTypes, IsPage, IsSnapshot
<1>8. DeltasDiffer'
  BY <1>1, <1>4, <1>6 DEF HubIInv, DeltasDiffer
<1>9. ASSUME NEW v \in Viewer, viewer'[v].step # "away", v \notin missed'
      PROVE  OnItsWay(v)'
  <2>1. /\ v \notin missed
        /\ ~ (viewer[v].step = "looked" /\ d.seq # viewer[v].copy.seq)
        /\ ~ (viewer[v].step = "watching" /\ viewer[v].heard < channel.sent)
    BY <1>9 DEF Hub!Send
  <2>2. OnItsWay(v) /\ viewer[v].step \in {"looked", "watching"}
    BY <1>1, <1>9, <2>1 DEF HubIInv, HubTypes, IsPage
  <2>3. ~ Behind(v) /\ d \in Coming(v)
    BY <1>2, <2>1 DEF Behind, Coming
  <2>4. {sending'[u] : u \in {w \in Thread : Sending(w)'}} = Coming(v) \ {d}
    BY <1>1, <1>4, <1>6, <2>3 DEF Coming
  <2>5. CASE viewer[v].step = "looked"
    <3>1. Coming(v)' = Coming(v) \ {d}
      BY <1>1, <2>4, <2>5 DEF Coming, Behind
    <3>2. IsSnapshot(viewer[v].copy) /\ viewer[v].copy.seq = d.seq
      BY <2>1, <2>5 DEF HubIInv, HubTypes, IsPage
    <3>3. \A e \in Coming(v) : IsChange(e) /\ (e # d => e.seq # d.seq)
      BY <2>3, ComingDiffer DEF HubIInv, IsDelta
    <3> HIDE DEF d
    <3>4. \/ Late(Coming(v) \ {d}, viewer[v].copy)
          \/ Leads(Coming(v) \ {d}, viewer[v].copy, snapshot)
      BY <2>2, <2>3, <3>2, <3>3, DeltaIsSkipped DEF OnItsWay
    <3> QED
      BY <1>1, <3>1, <3>4 DEF OnItsWay
  <2>6. CASE viewer[v].step = "watching"
    <3>1. viewer[v].heard \in Nat /\ viewer[v].heard <= channel.sent
      BY DEF HubIInv, HubTypes, IsPage
    <3>2. Behind(v)'
      BY <1>1, <1>2, <2>6, <3>1 DEF Behind
    <3>3. Coming(v)' = (Coming(v) \ {d}) \cup {d}
      BY <1>1, <2>4, <3>2 DEF Coming
    <3>4. Coming(v)' = Coming(v)
      BY <2>3, <3>3
    <3> QED
      BY <1>1, <2>2, <3>4 DEF OnItsWay
  <2> QED
    BY <2>2, <2>5, <2>6
<1> QED
  BY <1>7, <1>8, <1>9 DEF HubIInv

\* The pages: each changes only itself.
LEMMA PageSteps ==
    ASSUME HubIInv, NEW v \in Viewer, Hub!Look(v) \/ Hub!Listen(v) \/ Hub!Receive(v) \/ Hub!Leave(v)
    PROVE  HubIInv'
<1>0. HubTypes /\ DeltasDiffer /\ viewer = [w \in Viewer |-> viewer[w]] /\ IsPage(viewer[v])
  BY DEF HubIInv, HubTypes
<1>1. UNCHANGED <<seq, snapshot, sending, channel>>
  BY DEF Hub!Look, Hub!Listen, Hub!Receive, Hub!Leave, Hub!hubVars
<1>2. \A w \in Viewer \ {v} :
         viewer'[w] = viewer[w] /\ (w \notin missed' => w \notin missed)
  BY <1>0 DEF Hub!Look, Hub!Listen, Hub!Receive, Hub!Leave
<1>3. viewer' = [w \in Viewer |-> viewer'[w]]
  BY <1>0 DEF Hub!Look, Hub!Listen, Hub!Receive, Hub!Leave
<1>4. \A e : IsDelta(e) <=> IsDelta(e)'
  BY <1>1 DEF IsDelta
<1>5. DeltasDiffer'
  BY <1>0, <1>1 DEF DeltasDiffer, Sending
<1>6. channel.sent \in Nat /\ IsSnapshot(snapshot) /\ snapshot.seq \in Nat
  BY DEF HubIInv, HubTypes, IsSnapshot
<1>7. ASSUME IsPage(viewer'[v]), viewer'[v].heard <= channel.sent, viewer'[v].copy.seq <= snapshot.seq,
             viewer'[v].step # "away" /\ v \notin missed' => OnItsWay(v)'
      PROVE  HubIInv'
  <2>1. HubTypes'
    <3>1. \A w \in Viewer :
             IsPage(viewer'[w]) /\ viewer'[w].heard <= channel.sent /\ viewer'[w].copy.seq <= snapshot.seq
      BY <1>0, <1>2, <1>7 DEF HubTypes
    <3> QED
      BY <1>0, <1>1, <1>3, <1>4, <3>1 DEF HubTypes, Sending, IsSnapshot, IsPage
  <2>2. ASSUME NEW w \in Viewer \ {v}, viewer'[w].step # "away", w \notin missed'
        PROVE  OnItsWay(w)'
    <3>1. OnItsWay(w)
      BY <1>2, <2>2 DEF HubIInv
    <3>2. Coming(w)' = Coming(w)
      BY <1>1, <1>2 DEF Coming, Sending, Behind
    <3> QED
      BY <1>1, <1>2, <3>1, <3>2 DEF OnItsWay
  <2> QED
    BY <1>5, <1>7, <2>1, <2>2 DEF HubIInv
<1>8. CASE Hub!Look(v)
  <2>1. viewer'[v] = [step |-> "looked", copy |-> snapshot, heard |-> 0]
    BY <1>0, <1>8 DEF Hub!Look
  <2>2. IsPage(viewer'[v]) /\ viewer'[v].heard <= channel.sent /\ viewer'[v].copy.seq <= snapshot.seq
    BY <1>6, <2>1 DEF IsPage
  <2>3. \A e \in Coming(v)' : \E t \in Thread : Sending(t) /\ e = sending[t]
    BY <1>1, <2>1 DEF Coming, Behind, Sending
  <2>4. \A e \in Coming(v)' : IsDelta(e)
    BY <1>0, <2>3 DEF HubTypes
  <2>5. ASSUME ~ Late(Coming(v)', snapshot)
        PROVE  \A e \in Coming(v)' : e.to = snapshot
    BY <1>6, <2>4, <2>5 DEF Late, IsDelta, IsChange
  <2>6. Late(Coming(v)', snapshot) \/ Leads(Coming(v)', snapshot, snapshot)
    BY <2>5 DEF Leads
  <2>7. OnItsWay(v)'
    BY <1>1, <2>1, <2>6 DEF OnItsWay
  <2> QED
    BY <1>7, <2>2, <2>7
<1>9. CASE Hub!Listen(v)
  <2>1. /\ viewer'[v].step = "watching" /\ viewer'[v].heard = channel.sent
        /\ viewer'[v].copy = viewer[v].copy
        /\ {"step", "copy", "heard"} \subseteq DOMAIN viewer'[v]
    BY <1>0, <1>9 DEF Hub!Listen, IsPage
  <2>2. viewer[v].step = "looked" /\ missed' = missed
    BY <1>9 DEF Hub!Listen
  <2>3. IsPage(viewer'[v]) /\ viewer'[v].heard <= channel.sent /\ viewer'[v].copy.seq <= snapshot.seq
    BY <1>0, <1>6, <2>1 DEF HubTypes, IsPage
  <2>4. ~ Behind(v) /\ ~ Behind(v)'
    BY <1>1, <1>6, <2>1, <2>2 DEF Behind
  <2>5. Coming(v)' = Coming(v)
    BY <1>1, <2>4 DEF Coming, Sending
  <2>6. v \notin missed' => OnItsWay(v)'
    BY <1>1, <2>1, <2>2, <2>5 DEF HubIInv, OnItsWay
  <2> QED
    BY <1>7, <2>3, <2>6
<1>10. CASE Hub!Receive(v)
  <2> DEFINE d == channel.last
             old == viewer[v].copy
             new == [f \in Field |-> IF f \in d.changed THEN d.to[f] ELSE old[f]]
  <2>1. viewer[v].step = "watching" /\ viewer[v].heard < channel.sent
    BY <1>10 DEF Hub!Receive
  <2>2. IsSnapshot(old) /\ DOMAIN old = Field
    BY <1>0 DEF IsPage, IsSnapshot
  <2>3. /\ viewer'[v].step = "watching" /\ viewer'[v].heard = channel.sent
        /\ viewer'[v].copy = new
        /\ {"step", "copy", "heard"} \subseteq DOMAIN viewer'[v]
    BY <1>0, <1>10, <2>1, <2>2 DEF Hub!Receive, IsPage
  <2>4. IsDelta(d) /\ channel.sent > 0
    BY <1>0, <1>6, <2>1 DEF HubTypes, IsPage
  <2>5. IsSnapshot(new) /\ new.seq = d.seq
    BY <2>4 DEF IsDelta, IsChange, IsSnapshot, Field
  <2>6. d.seq <= snapshot.seq
    BY <2>4 DEF IsDelta
  <2>7. IsPage(viewer'[v]) /\ viewer'[v].heard <= channel.sent /\ viewer'[v].copy.seq <= snapshot.seq
    BY <1>6, <2>3, <2>5, <2>6 DEF IsPage
  <2>8. ASSUME v \notin missed'
        PROVE  OnItsWay(v)'
    <3>1. v \notin missed /\ ~ (d.seq < old.seq)
      BY <1>10, <2>8 DEF Hub!Receive
    <3>2. old.seq <= d.seq
      BY <2>2, <2>4, <3>1 DEF IsSnapshot, IsDelta, IsChange
    <3>3. Behind(v) /\ d \in Coming(v)
      BY <2>1 DEF Behind, Coming
    <3>4. \A e \in Coming(v) : IsChange(e) /\ (e # d => e.seq # d.seq)
      BY <1>0, <3>3, ComingDiffer DEF IsDelta
    <3>5. Late(Coming(v), old) \/ Leads(Coming(v), old, snapshot)
      BY <2>1, <3>1 DEF HubIInv, OnItsWay
    <3>6. Coming(v)' = Coming(v) \ {d}
      <4>1. ~ Behind(v)'
        BY <1>1, <1>6, <2>3 DEF Behind
      <4>2. \A t \in Thread : Sending(t) => sending[t] # d
        BY <1>0, <2>4 DEF DeltasDiffer
      <4> QED
        BY <1>1, <3>3, <4>1, <4>2 DEF Coming, Sending
    <3> HIDE DEF d, old
    <3>7. Late(Coming(v) \ {d}, new) \/ Leads(Coming(v) \ {d}, new, snapshot)
      BY <2>2, <3>2, <3>3, <3>4, <3>5, DeltaIsTaken
    <3> QED
      BY <1>1, <2>3, <3>6, <3>7 DEF OnItsWay
  <2> QED
    BY <1>7, <2>7, <2>8
<1>11. CASE Hub!Leave(v)
  <2>1. /\ viewer'[v].step = "away" /\ viewer'[v].heard = viewer[v].heard
        /\ viewer'[v].copy = viewer[v].copy
        /\ {"step", "copy", "heard"} \subseteq DOMAIN viewer'[v]
    BY <1>0, <1>11 DEF Hub!Leave, IsPage
  <2>2. IsPage(viewer'[v]) /\ viewer'[v].heard <= channel.sent /\ viewer'[v].copy.seq <= snapshot.seq
    BY <1>0, <2>1 DEF HubTypes, IsPage
  <2> QED
    BY <1>7, <2>1, <2>2
<1> QED
  BY <1>8, <1>9, <1>10, <1>11

\* Steps that neither the stream nor a page sees.
LEMMA HubStays ==
    ASSUME HubIInv, seq' \in Nat, seq <= seq', UNCHANGED <<snapshot, sending, channel, viewer, missed>>
    PROVE  HubIInv'
<1>1. \A e : IsDelta(e) <=> IsDelta(e)'
  BY DEF IsDelta
<1>2. snapshot'.seq <= seq'
  BY DEF HubIInv, HubTypes, IsSnapshot
<1>3. HubTypes'
  BY <1>1, <1>2 DEF HubIInv, HubTypes, Sending, IsSnapshot, IsPage
<1>4. DeltasDiffer' /\ \A v \in Viewer : Coming(v)' = Coming(v)
  BY DEF HubIInv, DeltasDiffer, Sending, Coming, Behind
<1> QED
  BY <1>3, <1>4 DEF HubIInv, OnItsWay

\* A server that has just started has nothing to send and no page.
LEMMA HubStarts ==
    ASSUME seq' = 0, snapshot' = [seq |-> 0, census |-> None, overlay |-> None],
           sending' = [t \in Thread |-> Hub!NoDelta],
           channel' = [last |-> Hub!NoDelta, sent |-> 0],
           viewer' = [v \in Viewer |-> [step |-> "away", copy |-> snapshot', heard |-> 0]]
    PROVE  HubIInv'
<1>1. IsSnapshot(snapshot)' /\ snapshot'.seq = 0
  BY DEF IsSnapshot, Field
<1>2. \A t \in Thread : ~ Sending(t)'
  BY DEF Sending
<1>3. \A v \in Viewer : IsPage(viewer'[v]) /\ viewer'[v].heard = 0 /\ viewer'[v].copy = snapshot'
                          /\ viewer'[v].step = "away"
  BY <1>1 DEF IsPage, IsSnapshot
<1>4. channel'.sent = 0 /\ viewer' = [v \in Viewer |-> viewer'[v]]
      /\ sending' = [t \in Thread |-> sending'[t]]
  OBVIOUS
<1>5. HubTypes'
  BY <1>1, <1>2, <1>3, <1>4 DEF HubTypes, IsPage, IsSnapshot
<1> QED
  BY <1>2, <1>3, <1>5 DEF HubIInv, DeltasDiffer

\* HubIInv is an invariant of the hub.
THEOREM HubInv ==
    Hub!Spec => []HubIInv
<1>1. Hub!Init => HubIInv
  <2> SUFFICES ASSUME Hub!Init PROVE HubIInv
    OBVIOUS
  <2>1. IsSnapshot(snapshot) /\ snapshot.seq = 0 /\ seq = 0
    BY DEF Hub!Init, IsSnapshot, Field
  <2>2. \A t \in Thread : ~ Sending(t)
    BY DEF Hub!Init, Sending
  <2>3. \A v \in Viewer : IsPage(viewer[v]) /\ viewer[v].heard = 0 /\ viewer[v].copy = snapshot
                          /\ viewer[v].step = "away"
    BY <2>1 DEF Hub!Init, IsPage, IsSnapshot
  <2>4. channel.sent = 0 /\ viewer = [v \in Viewer |-> viewer[v]]
        /\ sending = [t \in Thread |-> sending[t]]
    BY DEF Hub!Init
  <2>5. HubTypes
    BY <2>1, <2>2, <2>3, <2>4 DEF HubTypes, IsPage, IsSnapshot
  <2> QED
    BY <2>2, <2>3, <2>5 DEF HubIInv, DeltasDiffer
<1>2. HubIInv /\ [Hub!Next]_Hub!vars => HubIInv'
  <2> SUFFICES ASSUME HubIInv, [Hub!Next]_Hub!vars PROVE HubIInv'
    OBVIOUS
  <2>0. seq \in Nat
    BY DEF HubIInv, HubTypes
  <2>1. CASE UNCHANGED Hub!vars
    BY <2>0, <2>1, HubStays DEF Hub!vars
  <2>2. ASSUME NEW t \in Thread, Hub!Refresh(t)
        PROVE  HubIInv'
    BY <2>2, Published
  <2>3. ASSUME NEW t \in Thread, Hub!IngestBad(t)
        PROVE  HubIInv'
    BY <2>0, <2>3, HubStays DEF Hub!IngestBad, Hub!streamVars
  <2>4. ASSUME NEW t \in Thread, Hub!Send(t)
        PROVE  HubIInv'
    BY <2>4, DeltaIsSent
  <2>5. ASSUME NEW t \in Thread, NEW p \in Pid, NEW what \in Reading,
               Hub!IngestOverlay(t, p, what) \/ Hub!IngestSnapshot(t, p, what)
        PROVE  HubIInv'
    BY <2>5, Published
  <2>6. ASSUME NEW p \in Pid, Hub!set_attach_pid(p)
        PROVE  HubIInv'
    BY <2>0, <2>6, HubStays DEF Hub!set_attach_pid, Hub!streamVars
  <2>7. ASSUME NEW v \in Viewer, Hub!Look(v) \/ Hub!Listen(v) \/ Hub!Receive(v) \/ Hub!Leave(v)
        PROVE  HubIInv'
    BY <2>7, PageSteps
  <2>8. CASE Hub!Restart
    BY <2>8, HubStarts DEF Hub!Restart
  <2> QED
    BY <2>1, <2>2, <2>3, <2>4, <2>5, <2>6, <2>7, <2>8 DEF Hub!Next
<1> QED
  BY <1>1, <1>2, PTL DEF Hub!Spec

\* A page that was given every delta, in order, has the snapshot.
THEOREM PagesAgree ==
    Hub!Spec => []ViewerAgrees
<1>1. HubIInv => ViewerAgrees
  <2> SUFFICES ASSUME HubIInv, NEW v \in Viewer, viewer[v].step = "watching", v \notin missed,
                      viewer[v].heard = channel.sent, \A t \in Thread : sending[t] = Hub!NoDelta
               PROVE  viewer[v].copy = snapshot
    BY DEF ViewerAgrees, Hub!ViewerAgrees
  <2>1. Coming(v) = {}
    BY DEF Coming, Sending, Behind, HubIInv, HubTypes
  <2>2. Leads({}, viewer[v].copy, snapshot)
    BY <2>1 DEF HubIInv, OnItsWay, Late
  <2>3. IsSnapshot(snapshot) /\ IsSnapshot(viewer[v].copy)
    BY DEF HubIInv, HubTypes, IsPage
  <2>4. \A f \in Field : viewer[v].copy[f] = snapshot[f]
    BY <2>2 DEF Leads
  <2> QED
    BY <2>3, <2>4 DEF IsSnapshot
<1> QED
  BY <1>1, HubInv, PTL

-----------------------------------------------------------------------------
(* The documents of a workspace *)

\* What a writer's call is by itself.
IsCall(r) ==
    /\ {"step", "doc", "id", "call", "copy", "open"} \subseteq DOMAIN r
    /\ r.step \in {"idle", "load", "open", "write", "rename", "reply"}
    /\ r.doc \in Docs!Doc
    /\ r.step = "load" => r.doc = "runs"

DocsTypes ==
    /\ updates \in Nat
    /\ desk = [w \in Writer |-> desk[w]] /\ \A w \in Writer : IsCall(desk[w])
    /\ docs = [d \in Docs!Doc |-> docs[d]] /\ temp = [d \in Docs!Doc |-> temp[d]]

\* Calls are numbered, and what was answered was begun.
CallsAreNumbered ==
    /\ acked = [i \in RunId |-> acked[i]] /\ begun = [i \in RunId |-> begun[i]]
    /\ \A i \in RunId : acked[i] \in 0 .. updates /\ begun[i] \in 0 .. updates
    /\ \A w \in Writer : desk[w].call \in 0 .. updates
    /\ IsFiniteSet({i \in RunId : begun[i] # 0})

\* As long as no two calls met at a document, the one that writes it has the temporary
\* file for itself, and the document after the rename.
FilesAreOwn(d) ==
    d \notin collided => \A w \in Writer : Docs!Writing(w, d) =>
        /\ \A v \in Writer : Docs!Writing(v, d) => v = w
        /\ desk[w].step = "write" => desk[w].open = "temporary" /\ temp[d] = Docs!Empty
        /\ desk[w].step = "rename" => temp[d] = desk[w].copy
        /\ desk[w].step = "reply" => docs[d] = desk[w].copy

\* These runs have every run that is told of, but for those that MaxRuns others were
\* begun after.
Keeps(runs, told) ==
    \A i \in RunId :
        /\ told[i] # 0 /\ told[i] = begun[i]
        /\ Docs!Cardinality({j \in RunId : begun[j] > told[i]}) < MaxRuns
        => runs[i] = told[i]

IsLedger(runs) ==
    runs = [i \in RunId |-> runs[i]] /\ \A i \in RunId : runs[i] \in Nat /\ runs[i] <= begun[i]

\* What will have been answered when this call has.
Told(w) == [i \in RunId |-> IF i \in desk[w].id THEN desk[w].call ELSE acked[i]]

CallIsKept(w) ==
    /\ \E i \in RunId : desk[w].id = {i} /\ desk[w].call = begun[i]
    /\ desk[w].step # "load" =>
          /\ desk[w].copy = Docs!Full(desk[w].copy.is)
          /\ IsLedger(desk[w].copy.is) /\ Keeps(desk[w].copy.is, Told(w))

LedgerIsKept ==
    "runs" \notin collided =>
        /\ docs["runs"] = Docs!Nothing \/ docs["runs"] = Docs!Full(Docs!Runs)
        /\ IsLedger(Docs!Runs) /\ Keeps(Docs!Runs, acked)
        /\ \A w \in Writer : Docs!Writing(w, "runs") => CallIsKept(w)

LatchIsWritten ==
    "tacet" \notin collided =>
        /\ latch => /\ docs["tacet"] = Docs!Full(TRUE)
                    /\ \A w \in Writer : ~ Docs!Writing(w, "tacet")
        /\ \A w \in Writer : Docs!Writing(w, "tacet") =>
              desk[w].copy.is \in BOOLEAN /\ desk[w].copy = Docs!Full(desk[w].copy.is)

DocsIInv ==
    /\ DocsTypes /\ CallsAreNumbered /\ LedgerIsKept /\ LatchIsWritten
    /\ \A d \in Docs!Doc : FilesAreOwn(d)

\* A step of a call.
CallStep(w) ==
    \/ \E i \in RunId : Docs!Record(w, i)
    \/ \E on \in BOOLEAN : Docs!Tacet(w, on)
    \/ Docs!Load(w) \/ Docs!Open(w) \/ Docs!Write(w) \/ Docs!Rename(w) \/ Docs!RenameFails(w)
    \/ Docs!Reply(w) \/ Docs!Die(w)

\* What a step does to the calls of the others: a rename moves what they have open.
LEMMA OthersGoOn ==
    ASSUME DocsTypes, NEW w \in Writer, CallStep(w), NEW v \in Writer \ {w}
    PROVE  /\ IsCall(desk'[v])
           /\ desk'[v].step = desk[v].step /\ desk'[v].doc = desk[v].doc
           /\ desk'[v].id = desk[v].id /\ desk'[v].call = desk[v].call
           /\ desk'[v].copy = desk[v].copy
           /\ \/ desk'[v].open = desk[v].open
              \/ desk[w].step = "rename" /\ desk[v].doc = desk[w].doc
<1>1. IsCall(desk[v]) /\ desk = [u \in Writer |-> desk[u]]
  BY DEF DocsTypes
<1>2. CASE desk'[v] = desk[v]
  BY <1>1, <1>2
<1>3. CASE desk'[v] = Docs!Moved(v, desk[w].doc) /\ desk[w].step = "rename"
  BY <1>1, <1>3 DEF Docs!Moved, IsCall
<1>4. desk'[v] = desk[v] \/ Docs!Rename(w)
  BY <1>1 DEF CallStep, Docs!Record, Docs!Tacet, Docs!Begin, Docs!Load, Docs!Open, Docs!Write, Docs!Goto,
              Docs!RenameFails, Docs!Reply, Docs!Die
<1>5. Docs!Rename(w) => desk'[v] = Docs!Moved(v, desk[w].doc) /\ desk[w].step = "rename"
  BY DEF Docs!Rename
<1> QED
  BY <1>2, <1>3, <1>4, <1>5

\* What a step does to its own call.
LEMMA CallGoesOn ==
    ASSUME DocsTypes, NEW w \in Writer, CallStep(w)
    PROVE  /\ DocsTypes'
           /\ desk'[w].step # "idle" /\ desk[w].step # "idle" =>
                /\ desk'[w].doc = desk[w].doc /\ desk'[w].id = desk[w].id
                /\ desk'[w].call = desk[w].call
                /\ desk[w].step = "load" \/ desk'[w].copy = desk[w].copy
<1>1. IsCall(desk[w]) /\ desk = [u \in Writer |-> desk[u]]
  BY DEF DocsTypes
<1>2. desk' = [u \in Writer |-> desk'[u]]
  BY <1>1 DEF CallStep, Docs!Record, Docs!Tacet, Docs!Begin, Docs!Load, Docs!Open, Docs!Write, Docs!Goto,
              Docs!Rename, Docs!RenameFails, Docs!Reply, Docs!Die
<1>3. /\ IsCall(desk'[w])
      /\ desk'[w].step # "idle" /\ desk[w].step # "idle" =>
                /\ desk'[w].doc = desk[w].doc /\ desk'[w].id = desk[w].id
                /\ desk'[w].call = desk[w].call
                /\ desk[w].step = "load" \/ desk'[w].copy = desk[w].copy
  <2>1. ASSUME NEW i \in RunId, Docs!Record(w, i)
        PROVE  desk[w].step = "idle" /\ IsCall(desk'[w])
    BY <1>1, <2>1 DEF Docs!Record, Docs!Begin, Docs!Idle, IsCall, Docs!Doc
  <2>2. ASSUME NEW on \in BOOLEAN, Docs!Tacet(w, on)
        PROVE  desk[w].step = "idle" /\ IsCall(desk'[w])
    BY <1>1, <2>2 DEF Docs!Tacet, Docs!Begin, Docs!Idle, IsCall, Docs!Doc
  <2>3. CASE Docs!Load(w)
    BY <1>1, <2>3 DEF Docs!Load, Docs!Idle, IsCall, Docs!Doc
  <2>4. CASE Docs!Open(w)
    BY <1>1, <2>4 DEF Docs!Open, IsCall, Docs!Doc
  <2>5. CASE Docs!Write(w)
    BY <1>1, <2>5 DEF Docs!Write, Docs!Goto, IsCall, Docs!Doc
  <2>6. CASE Docs!Rename(w)
    BY <1>1, <2>6 DEF Docs!Rename, IsCall, Docs!Doc
  <2>7. CASE Docs!RenameFails(w) \/ Docs!Reply(w) \/ Docs!Die(w)
    BY <1>1, <2>7 DEF Docs!RenameFails, Docs!Reply, Docs!Die, Docs!Idle, IsCall, Docs!Doc
  <2> QED
    BY <2>1, <2>2, <2>3, <2>4, <2>5, <2>6, <2>7 DEF CallStep
<1>4. docs' = [d \in Docs!Doc |-> docs'[d]]
  BY DEF DocsTypes, CallStep, Docs!Record, Docs!Tacet, Docs!Begin, Docs!Load, Docs!Open,
              Docs!Write, Docs!Goto, Docs!Rename, Docs!RenameFails, Docs!Reply, Docs!Die
<1>6. temp' = [d \in Docs!Doc |-> temp'[d]]
  <2>1. temp = [d \in Docs!Doc |-> temp[d]]
    BY DEF DocsTypes
  <2>2. CASE temp' = temp
    BY <2>1, <2>2
  <2>3. CASE Docs!Open(w)
    BY <2>1, <2>3 DEF Docs!Open
  <2>4. CASE Docs!Write(w)
    BY <2>1, <2>4 DEF Docs!Write
  <2>5. CASE Docs!Rename(w)
    BY <2>1, <2>5 DEF Docs!Rename
  <2> QED
    BY <2>2, <2>3, <2>4, <2>5 DEF CallStep, Docs!Record, Docs!Tacet, Docs!Load, Docs!RenameFails, Docs!Reply,
                                  Docs!Die
<1>5. updates' \in Nat
  <2>1. updates \in Nat
    BY DEF DocsTypes
  <2>2. CASE updates' = updates
    BY <2>1, <2>2
  <2>3. CASE updates' = updates + 1
    BY <2>1, <2>3
  <2> QED
    BY <2>2, <2>3 DEF CallStep, Docs!Record, Docs!Tacet, Docs!Begin, Docs!Load, Docs!Open, Docs!Write,
                      Docs!Rename, Docs!RenameFails, Docs!Reply, Docs!Die
<1> QED
  BY <1>2, <1>3, <1>4, <1>5, <1>6, OthersGoOn DEF DocsTypes

\* As long as no two calls meet at a document, nobody else writes it while a call does,
\* and what is no part of a call's document stays.
LEMMA CallIsAlone ==
    ASSUME DocsTypes, NEW d \in Docs!Doc, FilesAreOwn(d), NEW w \in Writer, CallStep(w), d \notin collided'
    PROVE  /\ d \notin collided
           /\ Docs!Writing(w, d) \/ Docs!Writing(w, d)' =>
                \A v \in Writer \ {w} : ~ Docs!Writing(v, d) /\ ~ Docs!Writing(v, d)'
           /\ ~ Docs!Writing(w, d) => docs'[d] = docs[d] /\ temp'[d] = temp[d]
<1>1. d \notin collided
  BY DEF CallStep, Docs!Record, Docs!Tacet, Docs!Begin, Docs!Load, Docs!Open, Docs!Write, Docs!Goto,
         Docs!Rename, Docs!RenameFails, Docs!Reply, Docs!Die
<1>2. \A v \in Writer \ {w} : Docs!Writing(v, d)' <=> Docs!Writing(v, d)
  BY OthersGoOn DEF Docs!Writing
<1>3. Docs!Writing(w, d) => \A v \in Writer \ {w} : ~ Docs!Writing(v, d)
  BY <1>1 DEF FilesAreOwn
<1>4. ASSUME ~ Docs!Writing(w, d), Docs!Writing(w, d)'
      PROVE  \A v \in Writer \ {w} : ~ Docs!Writing(v, d)
  <2>1. desk[w].step = "idle"
    BY <1>4, CallGoesOn DEF Docs!Writing
  <2>2. (\E i \in RunId : Docs!Record(w, i)) \/ (\E on \in BOOLEAN : Docs!Tacet(w, on))
    BY <2>1 DEF CallStep, Docs!Load, Docs!Open, Docs!Write, Docs!Rename, Docs!RenameFails, Docs!Reply,
                Docs!Die
  <2>3. IsCall(desk[w]) /\ desk = [u \in Writer |-> desk[u]]
    BY DEF DocsTypes
  <2>4. desk'[w].doc = d
    BY <1>4 DEF Docs!Writing
  <2>5. CASE \E i \in RunId : Docs!Record(w, i)
    BY <2>3, <2>4, <2>5 DEF Docs!Record, Docs!Begin, Docs!Idle
  <2>6. CASE \E on \in BOOLEAN : Docs!Tacet(w, on)
    BY <2>3, <2>4, <2>6 DEF Docs!Tacet, Docs!Begin, Docs!Idle
  <2> QED
    BY <2>2, <2>5, <2>6
<1>5. ASSUME ~ Docs!Writing(w, d)
      PROVE  docs'[d] = docs[d] /\ temp'[d] = temp[d]
  BY <1>5 DEF DocsTypes, Docs!Writing, CallStep, Docs!Record, Docs!Tacet, Docs!Begin, Docs!Load, Docs!Open,
              Docs!Write, Docs!Goto, Docs!Rename, Docs!RenameFails, Docs!Reply, Docs!Die
<1> QED
  BY <1>1, <1>2, <1>3, <1>4, <1>5

\* The one call at a document keeps its temporary file for itself.
LEMMA FilesStayOwn ==
    ASSUME DocsTypes, NEW d \in Docs!Doc, FilesAreOwn(d), NEW w \in Writer, CallStep(w)
    PROVE  FilesAreOwn(d)'
<1> SUFFICES ASSUME d \notin collided', NEW u \in Writer, Docs!Writing(u, d)'
             PROVE  /\ \A v \in Writer : Docs!Writing(v, d)' => v = u
                    /\ desk'[u].step = "write" => desk'[u].open = "temporary" /\ temp'[d] = Docs!Empty
                    /\ desk'[u].step = "rename" => temp'[d] = desk'[u].copy
                    /\ desk'[u].step = "reply" => docs'[d] = desk'[u].copy
  BY DEF FilesAreOwn
<1>1. d \notin collided
  BY CallIsAlone
<1>2. CASE ~ Docs!Writing(w, d) /\ ~ Docs!Writing(w, d)'
  <2>1. docs'[d] = docs[d] /\ temp'[d] = temp[d] /\ u # w
    BY <1>2, CallIsAlone
  <2>2. \A v \in Writer : Docs!Writing(v, d)' => Docs!Writing(v, d)
    BY <1>2, OthersGoOn DEF Docs!Writing
  <2>3. /\ desk'[u].step = desk[u].step /\ desk'[u].copy = desk[u].copy
        /\ desk'[u].open = desk[u].open \/ (desk[w].step = "rename" /\ desk[u].doc = desk[w].doc)
    <3>1. u \in Writer \ {w}
      BY <2>1
    <3> QED
      BY <3>1, OthersGoOn
  <2>4. ~ (desk[w].step = "rename" /\ desk[u].doc = desk[w].doc)
    BY <1>2, <2>2 DEF Docs!Writing
  <2> QED
    BY <1>1, <2>1, <2>2, <2>3, <2>4 DEF FilesAreOwn
<1>3. CASE Docs!Writing(w, d) \/ Docs!Writing(w, d)'
  <2>0. u = w /\ \A v \in Writer : Docs!Writing(v, d)' => v = w
    BY <1>3, CallIsAlone
  <2>1. desk = [v \in Writer |-> desk[v]] /\ IsCall(desk[w])
        /\ temp = [e \in Docs!Doc |-> temp[e]] /\ docs = [e \in Docs!Doc |-> docs[e]]
    BY DEF DocsTypes
  <2>2. CASE ~ Docs!Writing(w, d)
    <3>1. desk[w].step = "idle"
      BY <2>0, <2>2, CallGoesOn DEF Docs!Writing
    <3>2. (\E i \in RunId : Docs!Record(w, i)) \/ (\E on \in BOOLEAN : Docs!Tacet(w, on))
      BY <3>1 DEF CallStep, Docs!Load, Docs!Open, Docs!Write, Docs!Rename, Docs!RenameFails, Docs!Reply,
                  Docs!Die
    <3>3. desk'[w].step \in {"load", "open"}
      BY <2>1, <3>2 DEF Docs!Record, Docs!Tacet, Docs!Begin, Docs!Idle
    <3> QED
      BY <2>0, <3>3
  <2>3. CASE Docs!Writing(w, d)
    <3>1. /\ desk[w].doc = d /\ desk[w].step # "idle"
          /\ desk[w].step = "write" => desk[w].open = "temporary" /\ temp[d] = Docs!Empty
          /\ desk[w].step = "rename" => temp[d] = desk[w].copy
      BY <1>1, <2>3 DEF FilesAreOwn, Docs!Writing
    <3>2. desk'[w].step # "idle"
      BY <2>0 DEF Docs!Writing
    <3>3. CASE Docs!Load(w)
      BY <2>0, <2>1, <3>2, <3>3 DEF Docs!Load, IsCall, Docs!Idle
    <3>4. CASE Docs!Open(w)
      BY <2>0, <2>1, <3>1, <3>4 DEF Docs!Open, IsCall
    <3>5. CASE Docs!Write(w)
      <4>1. desk'[w].step = "rename" /\ desk'[w].copy = desk[w].copy
        BY <2>1, <3>5 DEF Docs!Write, Docs!Goto, IsCall
      <4>2. desk[w].open = "temporary" /\ temp[d] = Docs!Empty
        BY <3>1, <3>5 DEF Docs!Write
      <4>3. temp'[d] = desk[w].copy
        BY <2>1, <3>1, <3>5, <4>2 DEF Docs!Write, Docs!Over
      <4> QED
        BY <2>0, <4>1, <4>3
    <3>6. CASE Docs!Rename(w)
      <4>1. desk'[w].step = "reply" /\ desk'[w].copy = desk[w].copy
        BY <2>1, <3>6 DEF Docs!Rename, IsCall
      <4>2. docs'[d] = desk[w].copy
        BY <2>1, <3>1, <3>6 DEF Docs!Rename
      <4> QED
        BY <2>0, <4>1, <4>2
    <3>7. ~ (Docs!RenameFails(w) \/ Docs!Reply(w) \/ Docs!Die(w))
      BY <2>1, <3>2 DEF Docs!RenameFails, Docs!Reply, Docs!Die, Docs!Idle
    <3>8. ~ ((\E i \in RunId : Docs!Record(w, i)) \/ (\E on \in BOOLEAN : Docs!Tacet(w, on)))
      BY <3>1 DEF Docs!Record, Docs!Tacet, Docs!Begin
    <3> QED
      BY <3>3, <3>4, <3>5, <3>6, <3>7, <3>8 DEF CallStep
  <2> QED
    BY <2>2, <2>3
<1> QED
  BY <1>2, <1>3

\* The latch's document says what its last call answered.
LEMMA LatchStaysWritten ==
    ASSUME DocsTypes, FilesAreOwn("tacet"), LatchIsWritten, NEW w \in Writer, CallStep(w)
    PROVE  LatchIsWritten'
<1> SUFFICES ASSUME "tacet" \notin collided'
             PROVE  /\ latch' => /\ docs'["tacet"] = Docs!Full(TRUE)
                                 /\ \A v \in Writer : ~ Docs!Writing(v, "tacet")'
                    /\ \A v \in Writer : Docs!Writing(v, "tacet")' =>
                          desk'[v].copy.is \in BOOLEAN /\ desk'[v].copy = Docs!Full(desk'[v].copy.is)
  BY DEF LatchIsWritten
<1>0. "tacet" \in Docs!Doc
  BY DEF Docs!Doc
<1>1. "tacet" \notin collided
  BY <1>0, CallIsAlone
<1>2. desk = [v \in Writer |-> desk[v]] /\ IsCall(desk[w])
  BY DEF DocsTypes
<1>3. CASE ~ Docs!Writing(w, "tacet") /\ ~ Docs!Writing(w, "tacet")'
  <2>1. docs'["tacet"] = docs["tacet"]
    BY <1>0, <1>3, CallIsAlone
  <2>2. \A v \in Writer : Docs!Writing(v, "tacet")' =>
            Docs!Writing(v, "tacet") /\ desk'[v].copy = desk[v].copy
    BY <1>3, OthersGoOn DEF Docs!Writing
  <2>3. latch' = latch
    <3>1. \A on \in BOOLEAN : ~ Docs!Tacet(w, on)
      BY <1>2, <1>3 DEF Docs!Tacet, Docs!Begin, Docs!Idle, Docs!Writing
    <3>2. Docs!Reply(w) => desk[w].doc = "runs"
      BY <1>2, <1>3 DEF Docs!Reply, Docs!Writing, IsCall, Docs!Doc
    <3> QED
      BY <3>1, <3>2 DEF CallStep, Docs!Record, Docs!Load, Docs!Open, Docs!Write, Docs!Rename, Docs!RenameFails,
                        Docs!Reply, Docs!Die
  <2> QED
    BY <1>1, <2>1, <2>2, <2>3 DEF LatchIsWritten
<1>4. CASE Docs!Writing(w, "tacet") \/ Docs!Writing(w, "tacet")'
  <2>0. \A v \in Writer : Docs!Writing(v, "tacet")' => v = w
    BY <1>0, <1>4, CallIsAlone
  <2>1. CASE ~ Docs!Writing(w, "tacet")
    <3>1. desk[w].step = "idle"
      BY <1>4, <2>1, CallGoesOn DEF Docs!Writing
    <3>2. (\E i \in RunId : Docs!Record(w, i)) \/ (\E on \in BOOLEAN : Docs!Tacet(w, on))
      BY <3>1 DEF CallStep, Docs!Load, Docs!Open, Docs!Write, Docs!Rename, Docs!RenameFails, Docs!Reply,
                  Docs!Die
    <3>3. ~ (\E i \in RunId : Docs!Record(w, i))
      BY <1>2, <1>4, <2>1 DEF Docs!Record, Docs!Begin, Docs!Idle, Docs!Writing
    <3>4. PICK on \in BOOLEAN : Docs!Tacet(w, on)
      BY <3>2, <3>3
    <3>5. desk'[w].copy = Docs!Full(on) /\ latch' = FALSE
      BY <1>2, <3>4 DEF Docs!Tacet, Docs!Begin, Docs!Idle
    <3>6. desk'[w].copy.is = on
      BY <3>5 DEF Docs!Full
    <3> QED
      BY <2>0, <3>5, <3>6
  <2>2. CASE Docs!Writing(w, "tacet")
    <3>1. /\ ~ latch /\ desk[w].copy.is \in BOOLEAN /\ desk[w].copy = Docs!Full(desk[w].copy.is)
          /\ desk[w].doc = "tacet" /\ desk[w].step # "idle" /\ desk[w].step # "load"
      BY <1>1, <1>2, <2>2 DEF LatchIsWritten, Docs!Writing, IsCall
    <3>2. CASE Docs!Reply(w)
      <4>1. desk'[w].step = "idle" /\ latch' = desk[w].copy.is /\ docs' = docs
        BY <1>2, <3>1, <3>2 DEF Docs!Reply, Docs!Idle
      <4>2. docs["tacet"] = desk[w].copy
        BY <1>1, <2>2, <3>2 DEF FilesAreOwn, Docs!Reply
      <4>3. \A v \in Writer : ~ Docs!Writing(v, "tacet")'
        BY <2>0, <4>1 DEF Docs!Writing
      <4> QED
        BY <3>1, <4>1, <4>2, <4>3
    <3>3. CASE ~ Docs!Reply(w)
      <4>1. ~ latch'
        BY <3>1, <3>3 DEF CallStep, Docs!Record, Docs!Tacet, Docs!Begin, Docs!Load, Docs!Open, Docs!Write,
                          Docs!Rename, Docs!RenameFails, Docs!Die
      <4>2. Docs!Writing(w, "tacet")' => desk'[w].copy = desk[w].copy
        BY <3>1, CallGoesOn DEF Docs!Writing
      <4> QED
        BY <2>0, <3>1, <4>1, <4>2
    <3> QED
      BY <3>2, <3>3
  <2> QED
    BY <2>1, <2>2
<1> QED
  BY <1>3, <1>4

-----------------------------------------------------------------------------
\* The documents count as the theorems on finite sets do.
LEMMA SameCardinalityOfRuns ==
    ASSUME NEW S
    PROVE  Docs!Cardinality(S) = Cardinality(S)
BY DEF Docs!Cardinality, Cardinality

\* What save_all drops is old enough to be dropped.
LEMMA TrimmedIsKept ==
    ASSUME MaxRuns \in Nat, CallsAreNumbered,
           NEW runs, IsLedger(runs), NEW told, Keeps(runs, told), \A i \in RunId : told[i] \in Nat
    PROVE  IsLedger(Docs!Trimmed(runs)) /\ Keeps(Docs!Trimmed(runs), told)
<1> DEFINE kept == {i \in RunId : Docs!Cardinality({j \in RunId : runs[j] > runs[i]}) < MaxRuns}
<1>1. Docs!Trimmed(runs) = [i \in RunId |-> IF i \in kept THEN runs[i] ELSE 0]
  BY DEF Docs!Trimmed
<1>2. \A i \in RunId : begun[i] \in Nat
  BY DEF CallsAreNumbered
<1>3. ASSUME NEW i \in RunId, told[i] # 0 /\ told[i] = begun[i],
             Docs!Cardinality({j \in RunId : begun[j] > told[i]}) < MaxRuns
      PROVE  i \in kept /\ runs[i] = told[i]
  <2> DEFINE older == {j \in RunId : begun[j] > told[i]}
             newer == {j \in RunId : runs[j] > runs[i]}
  <2>1. runs[i] = told[i]
    BY <1>3 DEF Keeps
  <2>2. newer \subseteq older
    BY <1>2, <2>1 DEF IsLedger
  <2>3. older \subseteq {j \in RunId : begun[j] # 0}
    BY <1>2
  <2>4. IsFiniteSet({j \in RunId : begun[j] # 0})
    BY DEF CallsAreNumbered
  <2> HIDE DEF older, newer
  <2>5. IsFiniteSet(older)
    BY <2>3, <2>4, FS_Subset
  <2>6. IsFiniteSet(newer) /\ Cardinality(newer) <= Cardinality(older)
    BY <2>2, <2>5, FS_Subset
  <2>7. Cardinality(newer) \in Nat /\ Cardinality(older) \in Nat
    BY <2>5, <2>6, FS_CardinalityType
  <2>8. Cardinality(older) < MaxRuns
    BY <1>3, SameCardinalityOfRuns DEF older
  <2>9. Docs!Cardinality(newer) < MaxRuns
    BY <2>6, <2>7, <2>8, SameCardinalityOfRuns
  <2> QED
    BY <2>1, <2>9 DEF newer
<1> HIDE DEF kept
<1>4. IsLedger(Docs!Trimmed(runs))
  BY <1>1, <1>2 DEF IsLedger
<1>5. Keeps(Docs!Trimmed(runs), told)
  BY <1>1, <1>3 DEF Keeps
<1> QED
  BY <1>4, <1>5

\* A call takes the next number, and answers with its own.
LEMMA CallsStayNumbered ==
    ASSUME DocsTypes, CallsAreNumbered, NEW w \in Writer, CallStep(w)
    PROVE  CallsAreNumbered'
<1>1. desk = [v \in Writer |-> desk[v]] /\ IsCall(desk[w]) /\ updates \in Nat
  BY DEF DocsTypes
<1>2. \A v \in Writer \ {w} : desk'[v].call = desk[v].call
  BY OthersGoOn
<1>3. /\ \A v \in Writer : desk[v].call \in 0 .. updates
      /\ \A i \in RunId : acked[i] \in 0 .. updates /\ begun[i] \in 0 .. updates
      /\ acked = [i \in RunId |-> acked[i]] /\ begun = [i \in RunId |-> begun[i]]
      /\ IsFiniteSet({i \in RunId : begun[i] # 0})
  BY DEF CallsAreNumbered
<1>4. 0 .. updates \subseteq 0 .. updates + 1 /\ updates + 1 \in 0 .. updates + 1
  BY <1>1
<1>5. ASSUME NEW i \in RunId, Docs!Record(w, i)
      PROVE  CallsAreNumbered'
  <2>1. /\ updates' = updates + 1 /\ acked' = acked
        /\ begun' = [j \in RunId |-> IF j = i THEN updates + 1 ELSE begun[j]]
        /\ desk'[w].call = updates + 1
    BY <1>1, <1>3, <1>5 DEF Docs!Record, Docs!Begin, Docs!Idle
  <2>2. \A v \in Writer : desk'[v].call \in 0 .. updates + 1
    BY <1>2, <1>3, <1>4, <2>1
  <2>3. \A j \in RunId : acked'[j] \in 0 .. updates + 1 /\ begun'[j] \in 0 .. updates + 1
    BY <1>3, <1>4, <2>1
  <2>4. IsFiniteSet({j \in RunId : begun'[j] # 0})
    <3>1. {j \in RunId : begun'[j] # 0} \subseteq {j \in RunId : begun[j] # 0} \cup {i}
      BY <2>1
    <3>2. IsFiniteSet({j \in RunId : begun[j] # 0} \cup {i})
      BY <1>3, FS_AddElement
    <3> QED
      BY <3>1, <3>2, FS_Subset
  <2>5. acked' = [j \in RunId |-> acked'[j]] /\ begun' = [j \in RunId |-> begun'[j]]
    BY <1>3, <2>1
  <2> QED
    BY <2>1, <2>2, <2>3, <2>4, <2>5 DEF CallsAreNumbered
<1>6. ASSUME NEW on \in BOOLEAN, Docs!Tacet(w, on)
      PROVE  CallsAreNumbered'
  <2>1. updates' = updates + 1 /\ acked' = acked /\ begun' = begun /\ desk'[w].call = updates + 1
    BY <1>1, <1>6 DEF Docs!Tacet, Docs!Begin, Docs!Idle
  <2>2. \A v \in Writer : desk'[v].call \in 0 .. updates + 1
    BY <1>2, <1>3, <1>4, <2>1
  <2>3. \A j \in RunId : acked'[j] \in 0 .. updates + 1 /\ begun'[j] \in 0 .. updates + 1
    BY <1>3, <1>4, <2>1
  <2> QED
    BY <1>3, <2>1, <2>2, <2>3 DEF CallsAreNumbered
<1>7. CASE Docs!Load(w) \/ Docs!Open(w) \/ Docs!Write(w) \/ Docs!Rename(w) \/ Docs!RenameFails(w)
           \/ Docs!Reply(w) \/ Docs!Die(w)
  <2>1. updates' = updates /\ begun' = begun
    BY <1>7 DEF Docs!Load, Docs!Open, Docs!Write, Docs!Rename, Docs!RenameFails, Docs!Reply, Docs!Die
  <2>2. desk'[w].call \in {desk[w].call, 0}
    <3>1. CASE Docs!Load(w)
      BY <1>1, <3>1 DEF Docs!Load, Docs!Idle, IsCall
    <3>2. CASE Docs!Open(w)
      BY <1>1, <3>2 DEF Docs!Open, IsCall
    <3>3. CASE Docs!Write(w)
      BY <1>1, <3>3 DEF Docs!Write, Docs!Goto, IsCall
    <3>4. CASE Docs!Rename(w)
      BY <1>1, <3>4 DEF Docs!Rename, IsCall
    <3>5. CASE Docs!RenameFails(w) \/ Docs!Reply(w) \/ Docs!Die(w)
      BY <1>1, <3>5 DEF Docs!RenameFails, Docs!Reply, Docs!Die, Docs!Idle, IsCall
    <3> QED
      BY <1>7, <3>1, <3>2, <3>3, <3>4, <3>5
  <2>3. 0 \in 0 .. updates
    BY <1>1
  <2>4. \A v \in Writer : desk'[v].call \in 0 .. updates
    BY <1>2, <1>3, <2>2, <2>3
  <2>5. acked' = [i \in RunId |-> acked'[i]] /\ \A i \in RunId : acked'[i] \in 0 .. updates
    BY <1>3, <1>7 DEF Docs!Load, Docs!Open, Docs!Write, Docs!Rename, Docs!RenameFails, Docs!Reply, Docs!Die
  <2> QED
    BY <1>3, <2>1, <2>4, <2>5 DEF CallsAreNumbered
<1> QED
  BY <1>5, <1>6, <1>7 DEF CallStep

\* What was answered stays in a run ledger when another call begins.
LEMMA BegunIsKept ==
    ASSUME MaxRuns \in Nat, DocsTypes, CallsAreNumbered, CallsAreNumbered', NEW i \in RunId,
           acked' = acked, begun' = [j \in RunId |-> IF j = i THEN updates + 1 ELSE begun[j]],
           NEW runs, IsLedger(runs), Keeps(runs, acked)
    PROVE  IsLedger(runs)' /\ Keeps(runs, acked)'
<1>1. updates \in Nat /\ \A j \in RunId : begun[j] \in 0 .. updates /\ acked[j] \in 0 .. updates
  BY DEF DocsTypes, CallsAreNumbered
<1>2. \A j \in RunId : begun[j] \in Nat /\ begun'[j] \in Nat /\ begun[j] <= begun'[j]
  BY <1>1
<1>3. IsLedger(runs)'
  BY <1>2 DEF IsLedger
<1>4. ASSUME NEW j \in RunId, acked[j] # 0 /\ acked[j] = begun'[j],
             Docs!Cardinality({k \in RunId : begun'[k] > acked[j]}) < MaxRuns
      PROVE  runs[j] = acked[j]
  <2> DEFINE was == {k \in RunId : begun[k] > acked[j]}
             is == {k \in RunId : begun'[k] > acked[j]}
  <2>1. acked[j] \in Nat /\ acked[j] <= updates
    BY <1>1
  <2>2. j # i /\ acked[j] = begun[j]
    BY <1>1, <1>4, <2>1
  <2>3. was \subseteq is
    BY <1>2, <2>1
  <2>4. is \subseteq {k \in RunId : begun'[k] # 0}
    BY <1>2, <2>1
  <2>5. IsFiniteSet({k \in RunId : begun'[k] # 0})
    BY DEF CallsAreNumbered
  <2> HIDE DEF was, is
  <2>6. IsFiniteSet(is)
    BY <2>4, <2>5, FS_Subset
  <2>7. IsFiniteSet(was) /\ Cardinality(was) <= Cardinality(is)
    BY <2>3, <2>6, FS_Subset
  <2>8. Cardinality(was) \in Nat /\ Cardinality(is) \in Nat
    BY <2>6, <2>7, FS_CardinalityType
  <2>9. Cardinality(is) < MaxRuns
    BY <1>4, SameCardinalityOfRuns DEF is
  <2>10. Docs!Cardinality(was) < MaxRuns
    BY <2>7, <2>8, <2>9, SameCardinalityOfRuns
  <2> QED
    BY <1>4, <2>2, <2>10 DEF Keeps, was
<1>5. Keeps(runs, acked)'
  BY <1>4 DEF Keeps
<1> QED
  BY <1>3, <1>5

\* A step that neither writes the ledger, begins nor answers leaves it what it is.
LEMMA LedgerStays ==
    ASSUME IsLedger(Docs!Runs), Keeps(Docs!Runs, acked),
           docs["runs"] = Docs!Nothing \/ docs["runs"] = Docs!Full(Docs!Runs),
           UNCHANGED <<acked, begun>>, docs'["runs"] = docs["runs"]
    PROVE  /\ docs'["runs"] = Docs!Nothing \/ docs'["runs"] = Docs!Full(Docs!Runs')
           /\ IsLedger(Docs!Runs)' /\ Keeps(Docs!Runs, acked)'
<1>1. Docs!Runs' = Docs!Runs
  BY DEF Docs!Runs
<1> QED
  BY <1>1 DEF IsLedger, Keeps

\* A step that leaves a call its copy leaves the copy what it has to be.
LEMMA CallStaysKept ==
    ASSUME NEW v \in Writer, CallIsKept(v), UNCHANGED <<acked, begun>>,
           desk'[v].id = desk[v].id, desk'[v].call = desk[v].call, desk'[v].copy = desk[v].copy,
           desk[v].step # "load" \/ desk'[v].step = "load"
    PROVE  CallIsKept(v)'
<1>1. Told(v)' = Told(v)
  BY DEF Told
<1> QED
  BY <1>1 DEF CallIsKept, IsLedger, Keeps

\* The ledger has the runs that were answered, and so has the copy that is on its way.
LEMMA LedgerStaysKept ==
    ASSUME MaxRuns \in Nat, DocsTypes, CallsAreNumbered, CallsAreNumbered', FilesAreOwn("runs"), LedgerIsKept,
           NEW w \in Writer, CallStep(w)
    PROVE  LedgerIsKept'
<1> SUFFICES ASSUME "runs" \notin collided'
             PROVE  /\ docs'["runs"] = Docs!Nothing \/ docs'["runs"] = Docs!Full(Docs!Runs')
                    /\ IsLedger(Docs!Runs)' /\ Keeps(Docs!Runs, acked)'
                    /\ \A v \in Writer : Docs!Writing(v, "runs")' => CallIsKept(v)'
  BY DEF LedgerIsKept
<1>0. "runs" \in Docs!Doc
  BY DEF Docs!Doc
<1>1. "runs" \notin collided
  BY <1>0, CallIsAlone
<1>2. desk = [v \in Writer |-> desk[v]] /\ IsCall(desk[w])
      /\ temp = [e \in Docs!Doc |-> temp[e]] /\ docs = [e \in Docs!Doc |-> docs[e]]
  BY DEF DocsTypes
<1>3. /\ docs["runs"] = Docs!Nothing \/ docs["runs"] = Docs!Full(Docs!Runs)
      /\ IsLedger(Docs!Runs) /\ Keeps(Docs!Runs, acked)
      /\ \A v \in Writer : Docs!Writing(v, "runs") => CallIsKept(v)
  BY <1>1 DEF LedgerIsKept
<1>4. CASE ~ Docs!Writing(w, "runs") /\ ~ Docs!Writing(w, "runs")'
  <2>1. docs'["runs"] = docs["runs"]
    BY <1>0, <1>4, CallIsAlone
  <2>2. UNCHANGED <<acked, begun>>
    <3>1. \A i \in RunId : ~ Docs!Record(w, i)
      BY <1>2, <1>4 DEF Docs!Record, Docs!Begin, Docs!Idle, Docs!Writing
    <3>2. Docs!Reply(w) => desk[w].doc # "runs"
      BY <1>4 DEF Docs!Reply, Docs!Writing
    <3> QED
      BY <3>1, <3>2 DEF CallStep, Docs!Tacet, Docs!Load, Docs!Open, Docs!Write, Docs!Rename, Docs!RenameFails,
                        Docs!Reply, Docs!Die
  <2>3. ASSUME NEW v \in Writer, Docs!Writing(v, "runs")'
        PROVE  CallIsKept(v)'
    <3>1. v \in Writer \ {w}
      BY <1>4, <2>3
    <3>2. /\ desk'[v].step = desk[v].step /\ desk'[v].doc = desk[v].doc
          /\ desk'[v].id = desk[v].id /\ desk'[v].call = desk[v].call
          /\ desk'[v].copy = desk[v].copy
      BY <3>1, OthersGoOn
    <3>3. CallIsKept(v)
      BY <1>3, <2>3, <3>2 DEF Docs!Writing
    <3> QED
      BY <2>2, <3>2, <3>3, CallStaysKept
  <2> QED
    BY <1>3, <2>1, <2>2, <2>3, LedgerStays
<1>5. CASE Docs!Writing(w, "runs") \/ Docs!Writing(w, "runs")'
  <2>0. \A v \in Writer : Docs!Writing(v, "runs")' => v = w
    BY <1>0, <1>5, CallIsAlone
  <2>1. CASE ~ Docs!Writing(w, "runs")
    <3>1. desk[w].step = "idle"
      BY <1>5, <2>1, CallGoesOn DEF Docs!Writing
    <3>2. (\E i \in RunId : Docs!Record(w, i)) \/ (\E on \in BOOLEAN : Docs!Tacet(w, on))
      BY <3>1 DEF CallStep, Docs!Load, Docs!Open, Docs!Write, Docs!Rename, Docs!RenameFails, Docs!Reply,
                  Docs!Die
    <3>3. ~ (\E on \in BOOLEAN : Docs!Tacet(w, on))
      BY <1>2, <1>5, <2>1 DEF Docs!Tacet, Docs!Begin, Docs!Idle, Docs!Writing
    <3>4. PICK i \in RunId : Docs!Record(w, i)
      BY <3>2, <3>3
    <3>5. begun = [j \in RunId |-> begun[j]]
      BY DEF CallsAreNumbered
    <3>6. /\ acked' = acked /\ docs' = docs
          /\ begun' = [j \in RunId |-> IF j = i THEN updates + 1 ELSE begun[j]]
          /\ desk'[w].id = {i} /\ desk'[w].call = updates + 1 /\ desk'[w].step = "load"
      BY <1>2, <3>4, <3>5 DEF Docs!Record, Docs!Begin, Docs!Idle
    <3>7. CallIsKept(w)'
      BY <3>6 DEF CallIsKept
    <3>8. Docs!Runs' = Docs!Runs
      BY <3>6 DEF Docs!Runs
    <3>9. IsLedger(Docs!Runs)' /\ Keeps(Docs!Runs, acked)'
      <4>1. PICK runs : runs = Docs!Runs
        OBVIOUS
      <4>2. IsLedger(runs)' /\ Keeps(runs, acked)'
        BY <1>3, <3>6, <4>1, BegunIsKept
      <4> QED
        BY <3>8, <4>1, <4>2 DEF IsLedger, Keeps
    <3> QED
      BY <1>3, <2>0, <3>6, <3>7, <3>8, <3>9
  <2>2. CASE Docs!Writing(w, "runs")
    <3>1. CallIsKept(w) /\ desk[w].doc = "runs" /\ desk[w].step # "idle"
      BY <1>3, <2>2 DEF Docs!Writing
    <3>2. PICK i \in RunId : desk[w].id = {i} /\ desk[w].call = begun[i]
      BY <3>1 DEF CallIsKept
    <3>3. ~ ((\E j \in RunId : Docs!Record(w, j)) \/ (\E on \in BOOLEAN : Docs!Tacet(w, on)))
      BY <3>1 DEF Docs!Record, Docs!Tacet, Docs!Begin
    <3>4. begun' = begun
      BY <3>3 DEF CallStep, Docs!Load, Docs!Open, Docs!Write, Docs!Rename, Docs!RenameFails, Docs!Reply, Docs!Die
    <3>5. CASE Docs!Load(w)
      <4> DEFINE runs == [j \in RunId |-> IF j \in desk[w].id THEN desk[w].call ELSE Docs!Runs[j]]
      <4>1. acked' = acked /\ docs' = docs /\ desk[w].step = "load"
        BY <3>5 DEF Docs!Load
      <4>2. Docs!Parses("runs")
        BY <1>3 DEF Docs!Parses, Docs!Nothing, Docs!Full
      <4>3. /\ desk'[w].step = "open" /\ desk'[w].copy = Docs!Full(Docs!Trimmed(runs))
            /\ desk'[w].id = desk[w].id /\ desk'[w].call = desk[w].call
        BY <1>2, <3>5, <4>2 DEF Docs!Load, IsCall
      <4>4. \A j \in RunId : begun[j] \in Nat /\ acked[j] \in Nat
        BY DEF CallsAreNumbered
      <4>5. IsLedger(runs)
        BY <1>3, <3>2, <4>4 DEF IsLedger
      <4>6. Keeps(runs, Told(w))
        BY <1>3 DEF Keeps, Told
      <4>7. \A j \in RunId : Told(w)[j] \in Nat
        BY <3>2, <4>4 DEF Told
      <4> HIDE DEF runs
      <4>8. IsLedger(Docs!Trimmed(runs)) /\ Keeps(Docs!Trimmed(runs), Told(w))
        BY <4>5, <4>6, <4>7, TrimmedIsKept
      <4>9. desk'[w].copy.is = Docs!Trimmed(runs)
        BY <4>3 DEF Docs!Full
      <4>10. Told(w)' = Told(w)
        BY <4>1, <4>3 DEF Told
      <4>11. CallIsKept(w)'
        BY <3>2, <3>4, <4>3, <4>8, <4>9, <4>10 DEF CallIsKept, IsLedger, Keeps
      <4> QED
        BY <1>3, <2>0, <3>4, <4>1, <4>11, LedgerStays
    <3>6. CASE Docs!Open(w) \/ Docs!Write(w)
      <4>1. /\ acked' = acked
            /\ desk'[w].id = desk[w].id /\ desk'[w].call = desk[w].call
            /\ desk'[w].copy = desk[w].copy /\ desk[w].step # "load"
        BY <1>2, <3>6 DEF Docs!Open, Docs!Write, Docs!Goto, IsCall
      <4>2. docs' = docs
        BY <1>1, <2>2, <3>6 DEF Docs!Open, Docs!Write, FilesAreOwn
      <4> QED
        BY <1>3, <2>0, <3>1, <3>4, <4>1, <4>2, LedgerStays, CallStaysKept
    <3>7. CASE Docs!Rename(w)
      <4>1. /\ acked' = acked
            /\ desk'[w].id = desk[w].id /\ desk'[w].call = desk[w].call
            /\ desk'[w].copy = desk[w].copy /\ desk[w].step # "load"
        BY <1>2, <3>7 DEF Docs!Rename, IsCall
      <4>2. CallIsKept(w)'
        BY <3>1, <3>4, <4>1, CallStaysKept
      <4>3. docs'["runs"] = desk[w].copy
        BY <1>0, <1>1, <1>2, <2>2, <3>1, <3>7 DEF Docs!Rename, FilesAreOwn
      <4>4. /\ desk[w].copy = Docs!Full(desk[w].copy.is)
            /\ IsLedger(desk[w].copy.is) /\ Keeps(desk[w].copy.is, Told(w))
        BY <3>1, <4>1 DEF CallIsKept
      <4>5. Docs!Runs' = desk[w].copy.is
        BY <4>3, <4>4 DEF Docs!Runs, Docs!Full, Docs!Nothing
      <4>6. Keeps(desk[w].copy.is, acked)
        BY <3>2, <4>4 DEF Keeps, Told
      <4>7. IsLedger(Docs!Runs)' /\ Keeps(Docs!Runs, acked)'
        BY <3>4, <4>1, <4>4, <4>5, <4>6 DEF IsLedger, Keeps
      <4> QED
        BY <2>0, <4>2, <4>3, <4>4, <4>5, <4>7
    <3>8. CASE Docs!RenameFails(w) \/ Docs!Die(w)
      <4>1. acked' = acked /\ docs' = docs /\ desk'[w].step = "idle"
        BY <1>2, <3>8 DEF Docs!RenameFails, Docs!Die, Docs!Idle
      <4> QED
        BY <1>3, <2>0, <3>4, <4>1, LedgerStays DEF Docs!Writing
    <3>9. CASE Docs!Reply(w)
      <4>1. docs' = docs /\ desk'[w].step = "idle" /\ desk[w].step = "reply" /\ acked' = Told(w)
        BY <1>2, <3>1, <3>9 DEF Docs!Reply, Docs!Idle, Told
      <4>2. docs["runs"] = desk[w].copy
        BY <1>1, <2>2, <4>1 DEF FilesAreOwn
      <4>3. /\ desk[w].copy = Docs!Full(desk[w].copy.is)
            /\ IsLedger(desk[w].copy.is) /\ Keeps(desk[w].copy.is, Told(w))
        BY <3>1, <4>1 DEF CallIsKept
      <4>4. Docs!Runs' = desk[w].copy.is
        BY <4>1, <4>2, <4>3 DEF Docs!Runs, Docs!Full, Docs!Nothing
      <4>5. IsLedger(Docs!Runs)' /\ Keeps(Docs!Runs, acked)'
        BY <3>4, <4>1, <4>3, <4>4 DEF IsLedger, Keeps
      <4>6. docs'["runs"] = Docs!Full(Docs!Runs')
        BY <4>1, <4>2, <4>3, <4>4
      <4> QED
        BY <2>0, <4>1, <4>5, <4>6 DEF Docs!Writing
    <3> QED
      BY <3>3, <3>5, <3>6, <3>7, <3>8, <3>9 DEF CallStep
  <2> QED
    BY <2>1, <2>2
<1> QED
  BY <1>4, <1>5

\* DocsIInv is an invariant of the documents.
THEOREM DocsInv ==
    ASSUME MaxRuns \in Nat
    PROVE  Docs!Spec => []DocsIInv
<1>1. Docs!Init => DocsIInv
  <2> SUFFICES ASSUME Docs!Init PROVE DocsIInv
    OBVIOUS
  <2>1. \A w \in Writer : desk[w] = Docs!Idle /\ IsCall(desk[w]) /\ desk[w].step = "idle" /\ desk[w].call = 0
    BY DEF Docs!Init, Docs!Idle, IsCall, Docs!Doc
  <2>2. \A w \in Writer : \A d : ~ Docs!Writing(w, d)
    BY <2>1 DEF Docs!Writing
  <2>3. DocsTypes
    BY <2>1 DEF Docs!Init, DocsTypes
  <2>4. \A i \in RunId : acked[i] = 0 /\ begun[i] = 0
    BY DEF Docs!Init, Docs!NoRuns
  <2>5. CallsAreNumbered
    <3>1. updates = 0 /\ 0 \in 0 .. 0
      BY DEF Docs!Init
    <3>2. {i \in RunId : begun[i] # 0} = {}
      BY <2>4
    <3>3. acked = [i \in RunId |-> acked[i]] /\ begun = [i \in RunId |-> begun[i]]
      BY DEF Docs!Init, Docs!NoRuns
    <3> QED
      BY <2>1, <2>4, <3>1, <3>2, <3>3, FS_EmptySet DEF CallsAreNumbered
  <2>6. LedgerIsKept
    <3>1. docs["runs"] = Docs!Nothing
      BY DEF Docs!Init, Docs!Doc
    <3>2. Docs!Runs = Docs!NoRuns
      BY <3>1 DEF Docs!Runs
    <3> QED
      BY <2>2, <2>4, <3>1, <3>2 DEF LedgerIsKept, IsLedger, Keeps, Docs!NoRuns
  <2>7. LatchIsWritten
    BY <2>2 DEF Docs!Init, LatchIsWritten
  <2> QED
    BY <2>2, <2>3, <2>5, <2>6, <2>7 DEF DocsIInv, FilesAreOwn
<1>2. DocsIInv /\ [Docs!Next]_Docs!vars => DocsIInv'
  <2> SUFFICES ASSUME DocsIInv, [Docs!Next]_Docs!vars PROVE DocsIInv'
    OBVIOUS
  <2>0. "runs" \in Docs!Doc /\ "tacet" \in Docs!Doc
    BY DEF Docs!Doc
  <2>1. ASSUME NEW w \in Writer, CallStep(w)
        PROVE  DocsIInv'
    <3>1. DocsTypes' /\ CallsAreNumbered' /\ \A d \in Docs!Doc : FilesAreOwn(d)'
      BY <2>1, CallGoesOn, CallsStayNumbered, FilesStayOwn DEF DocsIInv
    <3>2. LatchIsWritten'
      BY <2>0, <2>1, LatchStaysWritten DEF DocsIInv
    <3>3. LedgerIsKept'
      BY <2>0, <2>1, <3>1, LedgerStaysKept DEF DocsIInv
    <3> QED
      BY <3>1, <3>2, <3>3 DEF DocsIInv
  <2>2. CASE UNCHANGED Docs!vars
    <3>1. UNCHANGED <<docs, temp, desk, updates, acked, begun, latch, collided>>
      BY <2>2 DEF Docs!vars
    <3>2. DocsTypes' /\ CallsAreNumbered'
      BY <3>1 DEF DocsIInv, DocsTypes, CallsAreNumbered, IsCall
    <3>3. \A d \in Docs!Doc : FilesAreOwn(d)'
      BY <3>1 DEF DocsIInv, FilesAreOwn, Docs!Writing
    <3>4. LedgerIsKept'
      <4>1. Docs!Runs' = Docs!Runs /\ \A w \in Writer : Told(w)' = Told(w)
        BY <3>1 DEF Docs!Runs, Told
      <4>2. LedgerIsKept
        BY DEF DocsIInv
      <4> QED
        BY <3>1, <4>1, <4>2 DEF LedgerIsKept, IsLedger, Keeps, CallIsKept, Docs!Writing
    <3>5. LatchIsWritten'
      BY <3>1 DEF DocsIInv, LatchIsWritten, Docs!Writing
    <3> QED
      BY <3>2, <3>3, <3>4, <3>5 DEF DocsIInv
  <2> QED
    BY <2>1, <2>2 DEF Docs!Next, CallStep
<1> QED
  BY <1>1, <1>2, PTL DEF Docs!Spec

\* What record_run has answered for is in the ledger, and the ledger parses, until MaxRuns
\* other runs have been begun, whoever dies while writing.
THEOREM RunsStay ==
    ASSUME MaxRuns \in Nat
    PROVE  Docs!Spec => []AckedRunsAreKept
<1>1. DocsIInv => AckedRunsAreKept
  <2> SUFFICES ASSUME DocsIInv, "runs" \notin collided
               PROVE  /\ Docs!Parses("runs")
                      /\ Keeps(Docs!Runs, acked)
    BY DEF AckedRunsAreKept, Docs!AckedRunsAreKept, Keeps
  <2> QED
    BY DEF DocsIInv, LedgerIsKept, Docs!Parses, Docs!Nothing, Docs!Full
<1> QED
  BY <1>1, DocsInv, PTL

\* Once tacet has answered that it is on, no call with effects passes the gate before
\* tacet is called again.
THEOREM LatchHolds ==
    ASSUME MaxRuns \in Nat
    PROVE  Docs!Spec => LatchedIsRefused
<1> DEFINE Refused == \A w \in Writer :
                        /\ latch /\ "tacet" \notin collided
                        => ~ (desk[w].step = "idle" /\ desk'[w].step = "load")
<1>1. DocsIInv /\ Docs!Next => Refused
  <2> SUFFICES ASSUME DocsIInv, Docs!Next, latch, "tacet" \notin collided,
                      NEW w \in Writer, desk[w].step = "idle", desk'[w].step = "load"
               PROVE  FALSE
    OBVIOUS
  <2>1. Docs!is_enabled
    BY DEF DocsIInv, LatchIsWritten, Docs!is_enabled, Docs!Full
  <2>2. PICK v \in Writer : CallStep(v)
    BY DEF Docs!Next, CallStep
  <2>3. v = w
    BY <2>2, OthersGoOn DEF DocsIInv
  <2>4. \E on \in BOOLEAN : Docs!Tacet(w, on)
    BY <2>1, <2>2, <2>3 DEF CallStep, Docs!Record, Docs!Load, Docs!Open, Docs!Write, Docs!Rename,
                            Docs!RenameFails, Docs!Reply, Docs!Die
  <2>5. desk = [u \in Writer |-> desk[u]]
    BY DEF DocsIInv, DocsTypes
  <2> QED
    BY <2>4, <2>5 DEF Docs!Tacet, Docs!Begin, Docs!Idle
<1>2. DocsIInv /\ [Docs!Next]_Docs!vars => [Refused]_Docs!vars
  BY <1>1
<1> QED
  BY <1>2, DocsInv, PTL DEF Docs!Spec, LatchedIsRefused, Docs!LatchedIsRefused

-----------------------------------------------------------------------------
(* The wiki's indexer *)

Known == {v \in Nat : v <= changes}
OfPath(p) == {c \in Index!ChunkId : c[1] = p}

IsManifest(m) ==
    /\ m = [p \in Path |-> m[p]]
    /\ \A p \in Path : m[p].mtime \in Known /\ m[p].ids \subseteq OfPath(p)

IsPass(r) ==
    /\ {"at", "first", "full", "todo", "orphans", "rescan", "path", "mtime", "read"} \subseteq DOMAIN r
    /\ r.at \in Index!Step /\ r.todo \subseteq Path /\ r.orphans \subseteq Path /\ r.path \subseteq Path
    /\ r.mtime \in Known /\ r.read \in Known

IndexTypes ==
    /\ changes \in Nat
    /\ page = [p \in Path |-> page[p]] /\ \A p \in Path : page[p] \in Known
    /\ IsManifest(disk) /\ IsManifest(hand) /\ IsPass(pass)

\* A file whose mtime is in the manifest is in the index as it is.
Skips(m) == \A p \in Path : page[p] # 0 /\ m[p].mtime = page[p] => Index!Indexed(p)

\* A file that no manifest has as it is.
Changed(p) == page[p] = 0 \/ (page[p] # disk[p].mtime /\ page[p] # hand[p].mtime)

Working == pass.at \in {"drop", "read", "delete", "upsert"}

\* What is still to be visited is in hand as on the disk, and what the pass works at has
\* changed since.
TodoIsAsOnDisk ==
    /\ pass.todo \cap pass.orphans = {}
    /\ \A p \in pass.todo : hand[p] = disk[p]
    /\ \A p \in pass.orphans : Changed(p)
    /\ pass.at = "idle" => hand = disk

WorkIsDue ==
    /\ Working => pass.path \cap (pass.todo \cup pass.orphans) = {} /\ \A p \in pass.path : Changed(p)
    /\ pass.at \in {"read", "delete", "upsert"} => pass.mtime # 0

\* When the mtime is still that of the file, what was read is the file.
ReadIsCurrent ==
    pass.at \in {"delete", "upsert"} => \A p \in pass.path : page[p] = pass.mtime => pass.read = page[p]

\* No chunk is without an entry, but for those of dropped passes; an upsert finds the old
\* ones deleted.
NothingLeaks ==
    /\ \A p \in Path : \A c \in OfPath(p) : index[c] # 0 => p \in dropped \/ c \in hand[p].ids
    /\ pass.at = "upsert" => \A p \in pass.path : \A c \in hand[p].ids : index[c] = 0

IndexIInv ==
    /\ IndexTypes /\ Skips(disk) /\ Skips(hand)
    /\ TodoIsAsOnDisk /\ WorkIsDue /\ ReadIsCurrent /\ NothingLeaks

\* The chunks of a state of a file are of its path.
LEMMA ChunksAreOfPath ==
    ASSUME NEW p \in Path, NEW v \in Nat
    PROVE  Index!Chunks(p, v) \subseteq OfPath(p)
<1>1. v % 2 \in {0, 1}
  OBVIOUS
<1> QED
  BY <1>1 DEF Index!Chunks, OfPath, Index!ChunkId

\* The chunks of a path are not those of another.
LEMMA OthersStayIndexed ==
    ASSUME IndexTypes, NEW p \in Path, page' = page,
           index' = Index!Deleted(p) \/ index' = Index!Upserted(p),
           NEW q \in Path \ {p}, Index!Indexed(q)
    PROVE  Index!Indexed(q)'
<1>1. hand[p].ids \subseteq OfPath(p) /\ page[q] \in Nat /\ pass.read \in Nat
  BY DEF IndexTypes, IsManifest, IsPass, Known
<1>2. Index!Chunks(q, page[q]) \subseteq OfPath(q) /\ Index!Chunks(p, pass.read) \subseteq OfPath(p)
  BY <1>1, ChunksAreOfPath
<1>3. OfPath(p) \cap OfPath(q) = {} /\ OfPath(q) \subseteq Index!ChunkId
  BY DEF OfPath
<1>4. \A c \in OfPath(q) : index'[c] = index[c] \/ c \in Index!Chunks(p, pass.read)
  BY <1>1, <1>3 DEF Index!Deleted, Index!Upserted
<1> QED
  BY <1>2, <1>3, <1>4 DEF Index!Indexed

\* While the pass works at a path, its manifest on the disk does not have the file as it
\* is, and whatever becomes of the request, the others stay.
LEMMA DiskStaysSound ==
    ASSUME IndexIInv, index' \in Index!Unanswered, UNCHANGED <<page, disk>>
    PROVE  Skips(disk)'
<1>1. CASE index' = index
  BY <1>1 DEF IndexIInv, Skips, Index!Indexed
<1>2. ASSUME NEW p \in pass.path, Working, index' = Index!Deleted(p) \/ index' = Index!Upserted(p)
      PROVE  Skips(disk)'
  <2>1. p \in Path /\ Changed(p) /\ IndexTypes
    BY <1>2 DEF IndexIInv, IndexTypes, IsPass, WorkIsDue
  <2> SUFFICES ASSUME NEW q \in Path, page[q] # 0, disk[q].mtime = page[q]
               PROVE  Index!Indexed(q)'
    BY DEF Skips
  <2>2. q # p /\ Index!Indexed(q)
    BY <2>1 DEF IndexIInv, Skips, Changed
  <2> QED
    BY <1>2, <2>1, <2>2, OthersStayIndexed
<1> QED
  BY <1>1, <1>2 DEF Index!Unanswered, Working

\* What a request leaves behind when the pass is dropped.
LEMMA LeftoversAreKnown ==
    ASSUME IndexIInv, index' \in Index!Unanswered, dropped' = dropped \cup Index!Forgotten,
           NEW p \in Path, NEW c \in OfPath(p), index'[c] # 0
    PROVE  p \in dropped' \/ c \in disk[p].ids
<1>1. pass.path \subseteq Path /\ pass.read \in Nat
  BY DEF IndexIInv, IndexTypes, IsPass, Known
<1>2. c \in Index!ChunkId /\ c[1] = p
  BY DEF OfPath
<1>3. index[c] # 0 \/ (pass.at = "upsert" /\ \E q \in pass.path : c \in Index!Chunks(q, pass.read))
  BY <1>2 DEF Index!Unanswered, Index!Deleted, Index!Upserted
<1>4. CASE index[c] # 0
  BY <1>4 DEF IndexIInv, NothingLeaks, Index!Forgotten
<1>5. ASSUME pass.at = "upsert", NEW q \in pass.path, c \in Index!Chunks(q, pass.read)
      PROVE  p \in dropped'
  <2>1. c \in OfPath(q)
    BY <1>1, <1>5, ChunksAreOfPath
  <2>2. p = q
    BY <1>2, <2>1 DEF OfPath
  <2> QED
    BY <1>5, <2>2 DEF Index!Forgotten
<1> QED
  BY <1>3, <1>4, <1>5

\* The pass ends, or starts anew, with the manifest of the disk.
LEMMA PassIsDropped ==
    ASSUME IndexIInv, index' \in Index!Unanswered, UNCHANGED <<page, disk, changes>>, hand' = disk,
           dropped' = dropped \cup Index!Forgotten,
           pass' \in {Index!Idle, Index!Start, [Index!Start EXCEPT !.at = "down"]}
    PROVE  IndexIInv'
<1>1. /\ IsPass(pass') /\ pass'.todo = {} /\ pass'.orphans = {}
      /\ pass'.at \in {"idle", "collect", "down"}
  <2>1. 0 \in Known
    BY DEF IndexIInv, IndexTypes, Known
  <2>2. CASE pass' = Index!Idle
    BY <2>1, <2>2 DEF IsPass, Index!Idle, Index!Start, Index!Step
  <2>3. CASE pass' = Index!Start
    BY <2>1, <2>3 DEF IsPass, Index!Start, Index!Step
  <2>4. CASE pass' = [Index!Start EXCEPT !.at = "down"]
    BY <2>1, <2>4 DEF IsPass, Index!Start, Index!Step
  <2> QED
    BY <2>2, <2>3, <2>4
<1>2. IndexTypes'
  BY <1>1 DEF IndexIInv, IndexTypes, IsManifest, IsPass, Known
<1>3. Skips(disk)' /\ Skips(hand)'
  BY DiskStaysSound DEF Skips
<1>4. TodoIsAsOnDisk' /\ WorkIsDue' /\ ReadIsCurrent'
  BY <1>1 DEF TodoIsAsOnDisk, WorkIsDue, ReadIsCurrent, Working
<1>5. NothingLeaks'
  BY <1>1, LeftoversAreKnown DEF NothingLeaks, OfPath
<1> QED
  BY <1>2, <1>3, <1>4, <1>5 DEF IndexIInv

\* A step that moves only the pass.
LEMMA OnlyPassMoves ==
    ASSUME IndexIInv, UNCHANGED <<page, index, disk, hand, changes, dropped>>,
           IsPass(pass'), TodoIsAsOnDisk', WorkIsDue', ReadIsCurrent', pass'.at # "upsert"
    PROVE  IndexIInv'
<1>1. IndexTypes'
  BY DEF IndexIInv, IndexTypes, IsManifest, IsPass, Known
<1>2. Skips(disk)' /\ Skips(hand)'
  BY DEF IndexIInv, Skips, Index!Indexed
<1>3. NothingLeaks'
  BY DEF IndexIInv, NothingLeaks, OfPath
<1> QED
  BY <1>1, <1>2, <1>3 DEF IndexIInv

\* A step that only the watcher sees.
LEMMA IndexStays ==
    ASSUME IndexIInv, UNCHANGED <<page, index, disk, hand, pass, changes, dropped>>
    PROVE  IndexIInv'
<1>1. IndexTypes'
  BY DEF IndexIInv, IndexTypes, IsManifest, IsPass, Known
<1>2. Skips(disk)' /\ Skips(hand)'
  BY DEF IndexIInv, Skips, Index!Indexed
<1>3. NothingLeaks'
  BY DEF IndexIInv, NothingLeaks, OfPath
<1>4. TodoIsAsOnDisk' /\ WorkIsDue' /\ ReadIsCurrent'
  BY DEF IndexIInv, TodoIsAsOnDisk, WorkIsDue, ReadIsCurrent, Working, Changed
<1> QED
  BY <1>1, <1>2, <1>3, <1>4 DEF IndexIInv

\* A pass over everything begins, goes on to what is gone, or is saved.
LEMMA FullPassGoesOn ==
    ASSUME IndexIInv, Index!Collect \/ Index!Orphans \/ Index!Save \/ Index!Rescan \/ Index!Take
    PROVE  IndexIInv'
<1>0. IsPass(pass) /\ IndexTypes /\ TodoIsAsOnDisk
  BY DEF IndexIInv, IndexTypes
<1>1. CASE Index!Collect
  <2> DEFINE found == {p \in Path : page[p] # 0}
  <2>1. /\ UNCHANGED <<page, disk, index, changes>> /\ hand' = disk
        /\ dropped' = dropped \cup Index!Forgotten
        /\ pass' = [pass EXCEPT !.at = "visit", !.full = TRUE,
                                !.todo = found, !.orphans = Path \ found]
    BY <1>1 DEF Index!Collect
  <2>2. index' \in Index!Unanswered
    BY <2>1 DEF Index!Unanswered
  <2>3. pass'.at = "visit" /\ pass'.todo = found /\ pass'.orphans = Path \ found
    BY <1>0, <2>1 DEF IsPass
  <2>4. IsPass(pass')
    BY <1>0, <2>1 DEF IsPass, Index!Step
  <2>5. IndexTypes'
    BY <1>0, <2>1, <2>4 DEF IndexTypes, IsManifest, IsPass, Known
  <2>6. Skips(disk)' /\ Skips(hand)'
    BY <2>1, <2>2, DiskStaysSound DEF Skips
  <2>7. TodoIsAsOnDisk'
    BY <2>1, <2>3 DEF TodoIsAsOnDisk, Changed
  <2>8. WorkIsDue' /\ ReadIsCurrent'
    BY <2>3 DEF WorkIsDue, ReadIsCurrent, Working
  <2>9. NothingLeaks'
    BY <2>1, <2>2, <2>3, LeftoversAreKnown DEF NothingLeaks, OfPath
  <2> QED
    BY <2>5, <2>6, <2>7, <2>8, <2>9 DEF IndexIInv
<1>2. CASE Index!Orphans
  <2>1. PICK p \in pass.orphans :
           /\ pass' = [pass EXCEPT !.orphans = @ \ {p}, !.path = {p},
                                   !.at = IF hand[p].ids = {} THEN "visit" ELSE "drop",
                                   !.read = 0]
           /\ UNCHANGED <<page, index, disk, hand, changes, dropped>>
           /\ pass.todo = {}
    BY <1>2 DEF Index!Orphans
  <2>2. /\ pass'.todo = {} /\ pass'.orphans = pass.orphans \ {p} /\ pass'.path = {p}
        /\ pass'.at \in {"visit", "drop"}
    BY <1>0, <2>1 DEF IsPass
  <2>3. IsPass(pass')
    <3>1. 0 \in Known
      BY <1>0 DEF IndexTypes, Known
    <3> QED
      BY <1>0, <2>1, <3>1 DEF IsPass, Index!Step
  <2>4. TodoIsAsOnDisk' /\ WorkIsDue' /\ ReadIsCurrent'
    BY <1>0, <2>1, <2>2 DEF TodoIsAsOnDisk, WorkIsDue, ReadIsCurrent, Working, Changed
  <2> QED
    BY <2>1, <2>2, <2>3, <2>4, OnlyPassMoves
<1>3. CASE Index!Save
  <2>1. UNCHANGED <<page, index, hand, changes, dropped>> /\ disk' = hand /\ pass' = Index!Idle
    BY <1>3 DEF Index!Save
  <2>2. IsPass(pass') /\ pass'.todo = {} /\ pass'.orphans = {} /\ pass'.at = "idle"
    <3>1. 0 \in Known
      BY <1>0 DEF IndexTypes, Known
    <3> QED
      BY <2>1, <3>1 DEF IsPass, Index!Idle, Index!Start, Index!Step
  <2>3. IndexTypes'
    BY <1>0, <2>1, <2>2 DEF IndexTypes, IsManifest, IsPass, Known
  <2>4. Skips(disk)' /\ Skips(hand)'
    BY <2>1 DEF IndexIInv, Skips, Index!Indexed
  <2>5. TodoIsAsOnDisk' /\ WorkIsDue' /\ ReadIsCurrent'
    BY <2>1, <2>2 DEF TodoIsAsOnDisk, WorkIsDue, ReadIsCurrent, Working
  <2>6. NothingLeaks'
    BY <2>1, <2>2 DEF IndexIInv, NothingLeaks, OfPath
  <2> QED
    BY <2>3, <2>4, <2>5, <2>6 DEF IndexIInv
<1>4. CASE Index!Rescan
  <2>1. /\ UNCHANGED <<page, index, disk, hand, changes, dropped>>
        /\ pass' = [pass EXCEPT !.at = "collect", !.rescan = FALSE]
    BY <1>4 DEF Index!Rescan
  <2>2. IsPass(pass') /\ pass'.todo = pass.todo /\ pass'.orphans = pass.orphans /\ pass'.at = "collect"
    BY <1>0, <2>1 DEF IsPass, Index!Step
  <2>3. TodoIsAsOnDisk' /\ WorkIsDue' /\ ReadIsCurrent'
    BY <1>0, <2>1, <2>2 DEF TodoIsAsOnDisk, WorkIsDue, ReadIsCurrent, Working, Changed
  <2> QED
    BY <2>1, <2>2, <2>3, OnlyPassMoves
<1>5. CASE Index!Take
  <2>1. /\ UNCHANGED <<page, index, disk, changes, dropped>> /\ hand' = disk /\ hand = disk
        /\ pass' = [Index!Idle EXCEPT !.at = "visit", !.todo = events \cap Path,
                                      !.rescan = Index!Directory \in events]
    BY <1>0, <1>5 DEF Index!Take, TodoIsAsOnDisk
  <2>2. IsPass(pass') /\ pass'.todo \subseteq Path /\ pass'.orphans = {} /\ pass'.at = "visit"
    <3>1. 0 \in Known
      BY <1>0 DEF IndexTypes, Known
    <3> QED
      BY <2>1, <3>1 DEF IsPass, Index!Idle, Index!Start, Index!Step
  <2>3. TodoIsAsOnDisk' /\ WorkIsDue' /\ ReadIsCurrent'
    BY <1>0, <2>1, <2>2 DEF TodoIsAsOnDisk, WorkIsDue, ReadIsCurrent, Working
  <2> QED
    BY <2>1, <2>2, <2>3, OnlyPassMoves
<1> QED
  BY <1>1, <1>2, <1>3, <1>4, <1>5

\* A pass ends that meets a file that has gone, or is refused, or stopped.
LEMMA PassFails ==
    ASSUME IndexIInv, Index!Fail, index' \in Index!Unanswered, UNCHANGED <<page, disk, changes>>
    PROVE  IndexIInv'
BY PassIsDropped DEF Index!Fail

\* A visit skips a file, or finds that it has changed, or fails.
LEMMA FileIsVisited ==
    ASSUME IndexIInv, Index!Visit
    PROVE  IndexIInv'
<1>0. IsPass(pass) /\ IndexTypes /\ TodoIsAsOnDisk
  BY DEF IndexIInv, IndexTypes
<1>1. UNCHANGED <<page, index, disk, changes>> /\ index' \in Index!Unanswered
  BY DEF Index!Visit, Index!Unanswered
<1>2. CASE Index!Fail
  BY <1>1, <1>2, PassFails
<1>3. CASE ~ Index!Fail
  <2>1. PICK p \in pass.todo :
           /\ pass' = [pass EXCEPT
                 !.todo = @ \ {p}, !.path = {p}, !.mtime = page[p], !.read = 0,
                 !.at = IF page[p] # 0
                        THEN IF hand[p].mtime = page[p] THEN "visit" ELSE "read"
                        ELSE IF hand[p].ids = {} THEN "visit" ELSE "drop"]
           /\ UNCHANGED <<hand, dropped>>
    BY <1>3 DEF Index!Visit
  <2>2. /\ pass'.todo = pass.todo \ {p} /\ pass'.path = {p} /\ pass'.mtime = page[p]
        /\ pass'.orphans = pass.orphans
        /\ pass'.at = IF page[p] # 0
                      THEN IF hand[p].mtime = page[p] THEN "visit" ELSE "read"
                      ELSE IF hand[p].ids = {} THEN "visit" ELSE "drop"
    BY <1>0, <2>1 DEF IsPass
  <2>3. IsPass(pass')
    <3>1. 0 \in Known /\ page[p] \in Known
      BY <1>0 DEF IndexTypes, Known, IsPass
    <3> QED
      BY <1>0, <2>1, <3>1 DEF IsPass, Index!Step
  <2>4. hand[p] = disk[p] /\ p \notin pass.orphans
    BY <1>0 DEF TodoIsAsOnDisk
  <2>5. TodoIsAsOnDisk'
    BY <1>0, <1>1, <2>1, <2>2 DEF TodoIsAsOnDisk, Changed
  <2>6. WorkIsDue' /\ ReadIsCurrent'
    BY <1>0, <1>1, <2>1, <2>2, <2>4 DEF WorkIsDue, ReadIsCurrent, Working, Changed
  <2>7. pass'.at # "upsert"
    BY <2>2
  <2> QED
    BY <1>1, <2>1, <2>3, <2>5, <2>6, <2>7, OnlyPassMoves
<1> QED
  BY <1>2, <1>3

\* A read is of the file as it is now, with the mtime from before.
LEMMA FileIsRead ==
    ASSUME IndexIInv, NEW p \in Path, Index!Read(p)
    PROVE  IndexIInv'
<1>0. IsPass(pass) /\ IndexTypes /\ TodoIsAsOnDisk /\ WorkIsDue
  BY DEF IndexIInv, IndexTypes
<1>1. UNCHANGED <<page, index, disk, changes>> /\ index' \in Index!Unanswered
  BY DEF Index!Read, Index!Unanswered
<1>2. CASE Index!Fail
  BY <1>1, <1>2, PassFails
<1>3. CASE ~ Index!Fail
  <2>1. /\ pass' = [pass EXCEPT !.at = "delete", !.read = page[p]]
        /\ UNCHANGED <<hand, dropped>> /\ pass.at = "read" /\ pass.path = {p}
    BY <1>3 DEF Index!Read
  <2>2. /\ pass'.todo = pass.todo /\ pass'.path = {p} /\ pass'.mtime = pass.mtime
        /\ pass'.orphans = pass.orphans /\ pass'.at = "delete" /\ pass'.read = page[p]
    BY <1>0, <2>1 DEF IsPass
  <2>3. IsPass(pass')
    <3>1. page[p] \in Known
      BY <1>0 DEF IndexTypes
    <3> QED
      BY <1>0, <2>1, <3>1 DEF IsPass, Index!Step
  <2>4. TodoIsAsOnDisk' /\ WorkIsDue' /\ ReadIsCurrent'
    BY <1>0, <1>1, <2>1, <2>2 DEF TodoIsAsOnDisk, WorkIsDue, ReadIsCurrent, Working, Changed
  <2> QED
    BY <1>1, <2>1, <2>2, <2>3, <2>4, OnlyPassMoves
<1> QED
  BY <1>2, <1>3

\* The chunks of an entry are deleted, or new ones are put in.
LEMMA ChunksAreChanged ==
    ASSUME IndexIInv, NEW p \in Path, Index!Drop(p) \/ Index!DeleteOld(p) \/ Index!Upsert(p)
    PROVE  IndexIInv'
<1>0. /\ IsPass(pass) /\ IndexTypes /\ TodoIsAsOnDisk /\ WorkIsDue /\ NothingLeaks /\ Skips(hand)
      /\ hand = [q \in Path |-> hand[q]]
  BY DEF IndexIInv, IndexTypes, IsManifest
<1>1. /\ UNCHANGED <<page, disk, changes, dropped>> /\ pass.path = {p} /\ Working
      /\ index' \in Index!Unanswered
      /\ index' = Index!Deleted(p) \/ index' = Index!Upserted(p)
  BY DEF Index!Drop, Index!DeleteOld, Index!Upsert, Index!Unanswered, Working
<1>2. Skips(disk)'
  BY <1>1, DiskStaysSound
<1>3. \A q \in Path \ {p} : Index!Indexed(q) => Index!Indexed(q)'
  BY <1>0, <1>1, OthersStayIndexed
<1>4. Changed(p) /\ p \notin pass.todo /\ p \notin pass.orphans
  BY <1>0, <1>1 DEF WorkIsDue
<1>5. hand[p].ids \subseteq OfPath(p) /\ Index!Chunks(p, pass.read) \subseteq OfPath(p)
  BY <1>0, ChunksAreOfPath DEF IndexTypes, IsManifest, IsPass, Known
<1>6. ASSUME NEW q \in Path \ {p}, NEW c \in OfPath(q)
      PROVE  index'[c] = index[c]
  <2>1. c \in Index!ChunkId /\ c \notin OfPath(p)
    BY DEF OfPath
  <2> QED
    BY <1>1, <1>5, <2>1 DEF Index!Deleted, Index!Upserted
<1>7. OfPath(p) \subseteq Index!ChunkId
  BY DEF OfPath
<1>8. \A step : pass' = [pass EXCEPT !.at = step] =>
         /\ pass'.at = step /\ pass'.path = {p}
         /\ pass'.todo = pass.todo /\ pass'.orphans = pass.orphans
         /\ pass'.mtime = pass.mtime /\ pass'.read = pass.read
         /\ step \in Index!Step => IsPass(pass')
  BY <1>0, <1>1 DEF IsPass
<1>9. CASE Index!Drop(p)
  <2>1. /\ pass'.at = "visit" /\ pass'.todo = pass.todo /\ pass'.orphans = pass.orphans
        /\ IsPass(pass')
    BY <1>8, <1>9 DEF Index!Drop, Index!Goto, Index!Step
  <2>2. index' = Index!Deleted(p) /\ hand' = [q \in Path |-> IF q = p THEN Index!Unlisted ELSE hand[q]]
    BY <1>0, <1>9 DEF Index!Drop
  <2>3. IndexTypes'
    BY <1>0, <1>1, <2>1, <2>2 DEF IndexTypes, IsManifest, IsPass, Known, Index!Unlisted
  <2>4. Skips(hand)'
    BY <1>0, <1>1, <1>3, <2>2 DEF Skips, Index!Unlisted
  <2>5. TodoIsAsOnDisk'
    <3>1. \A q \in pass.todo \cup pass.orphans : hand'[q] = hand[q]
      BY <1>0, <1>4, <2>2 DEF IsPass
    <3>2. \A q \in pass.orphans : Changed(q)'
      BY <1>0, <1>1, <3>1 DEF TodoIsAsOnDisk, Changed
    <3>3. \A q \in pass.todo : hand'[q] = disk'[q]
      BY <1>0, <1>1, <3>1 DEF TodoIsAsOnDisk
    <3> QED
      BY <1>0, <2>1, <3>2, <3>3 DEF TodoIsAsOnDisk
  <2>6. WorkIsDue' /\ ReadIsCurrent'
    BY <2>1 DEF WorkIsDue, ReadIsCurrent, Working
  <2>7. \A c \in OfPath(p) : index'[c] # 0 => p \in dropped
    BY <1>0, <1>7, <2>2 DEF NothingLeaks, Index!Deleted
  <2>8. NothingLeaks'
    BY <1>0, <1>1, <1>6, <2>1, <2>2, <2>7 DEF NothingLeaks, OfPath
  <2> QED
    BY <1>2, <2>3, <2>4, <2>5, <2>6, <2>8 DEF IndexIInv
<1>10. CASE Index!DeleteOld(p)
  <2>1. /\ pass'.at = "upsert" /\ pass'.todo = pass.todo /\ pass'.orphans = pass.orphans
        /\ pass'.path = {p} /\ pass'.mtime = pass.mtime /\ pass'.read = pass.read /\ IsPass(pass')
    BY <1>8, <1>10 DEF Index!DeleteOld, Index!Goto, Index!Step
  <2>2. index' = Index!Deleted(p) /\ hand' = hand /\ pass.at = "delete"
    BY <1>10 DEF Index!DeleteOld
  <2>3. IndexTypes'
    BY <1>0, <1>1, <2>1, <2>2 DEF IndexTypes, IsManifest, IsPass, Known
  <2>4. Skips(hand)'
    BY <1>0, <1>1, <1>3, <1>4, <2>2 DEF Skips, Changed
  <2>5. TodoIsAsOnDisk' /\ WorkIsDue'
    BY <1>0, <1>1, <2>1, <2>2 DEF TodoIsAsOnDisk, WorkIsDue, Changed, Working
  <2>6. ReadIsCurrent'
    BY <1>1, <2>1, <2>2 DEF IndexIInv, ReadIsCurrent
  <2>7. \A c \in hand[p].ids : index'[c] = 0
    BY <1>5, <1>7, <2>2 DEF Index!Deleted
  <2>8. \A c \in OfPath(p) : index'[c] # 0 => index[c] # 0
    BY <1>7, <2>2 DEF Index!Deleted
  <2>9. NothingLeaks'
    BY <1>0, <1>1, <1>6, <2>1, <2>2, <2>7, <2>8 DEF NothingLeaks, OfPath
  <2> QED
    BY <1>2, <2>3, <2>4, <2>5, <2>6, <2>9 DEF IndexIInv
<1>11. CASE Index!Upsert(p)
  <2>1. /\ pass'.at = "visit" /\ pass'.todo = pass.todo /\ pass'.orphans = pass.orphans
        /\ IsPass(pass')
    BY <1>8, <1>11 DEF Index!Upsert, Index!Goto, Index!Step
  <2>2. /\ index' = Index!Upserted(p)
        /\ hand' = [q \in Path |-> IF q = p THEN Index!EntryOf(p) ELSE hand[q]]
        /\ pass.at = "upsert"
    BY <1>0, <1>11 DEF Index!Upsert
  <2>3. hand'[p].mtime = pass.mtime /\ hand'[p].ids = Index!Chunks(p, pass.read)
    BY <2>2 DEF Index!EntryOf
  <2>4. IndexTypes'
    <3>1. IsManifest(hand')
      BY <1>0, <1>5, <2>2, <2>3 DEF IndexTypes, IsManifest, IsPass
    <3> QED
      BY <1>0, <1>1, <2>1, <3>1 DEF IndexTypes, IsManifest, IsPass, Known, OfPath
  <2>5. page[p] = pass.mtime => Index!Indexed(p)'
    <3>1. page[p] = pass.mtime => pass.read = page[p]
      BY <1>1, <2>2 DEF IndexIInv, ReadIsCurrent
    <3> QED
      BY <1>1, <1>5, <1>7, <2>2, <3>1 DEF Index!Indexed, Index!Upserted
  <2>6. Skips(hand)'
    BY <1>0, <1>1, <1>3, <2>2, <2>3, <2>5 DEF Skips
  <2>7. TodoIsAsOnDisk'
    <3>1. \A q \in pass.todo \cup pass.orphans : hand'[q] = hand[q]
      BY <1>0, <1>4, <2>2 DEF IsPass
    <3>2. \A q \in pass.orphans : Changed(q)'
      BY <1>0, <1>1, <3>1 DEF TodoIsAsOnDisk, Changed
    <3>3. \A q \in pass.todo : hand'[q] = disk'[q]
      BY <1>0, <1>1, <3>1 DEF TodoIsAsOnDisk
    <3> QED
      BY <1>0, <2>1, <3>2, <3>3 DEF TodoIsAsOnDisk
  <2>8. WorkIsDue' /\ ReadIsCurrent'
    BY <2>1 DEF WorkIsDue, ReadIsCurrent, Working
  <2>9. ASSUME NEW c \in OfPath(p), index'[c] # 0
        PROVE  p \in dropped \/ c \in hand'[p].ids
    <3>1. c \in Index!Chunks(p, pass.read) \/ index[c] # 0
      BY <1>7, <2>2, <2>9 DEF Index!Upserted
    <3>2. c \in hand[p].ids => index[c] = 0
      BY <1>0, <1>1, <2>2 DEF NothingLeaks
    <3> QED
      BY <1>0, <2>3, <3>1, <3>2 DEF NothingLeaks
  <2>10. NothingLeaks'
    BY <1>0, <1>1, <1>6, <2>1, <2>2, <2>9 DEF NothingLeaks, OfPath
  <2> QED
    BY <1>2, <2>4, <2>6, <2>7, <2>8, <2>10 DEF IndexIInv
<1> QED
  BY <1>9, <1>10, <1>11

\* A file changes: its new mtime is in no manifest.
LEMMA FileIsChanged ==
    ASSUME IndexIInv, NEW p \in Path, NEW v \in Index!State, Index!Change(p, v)
    PROVE  IndexIInv'
<1>0. IndexTypes /\ changes \in Nat
  BY DEF IndexIInv, IndexTypes
<1>1. /\ UNCHANGED <<index, disk, hand, pass, dropped>> /\ changes' = changes + 1
      /\ page' = [q \in Path |-> IF q = p THEN v ELSE page[q]] /\ v \in {0, changes + 1}
  BY <1>0 DEF Index!Change, IndexTypes
<1>2. v = 0 \/ v \notin Known
  BY <1>0, <1>1 DEF Known
<1>3. Known \subseteq Known' /\ v \in Known'
  BY <1>0, <1>1 DEF Known
<1>4. disk[p].mtime \in Known /\ hand[p].mtime \in Known /\ pass.mtime \in Known
  BY <1>0 DEF IndexTypes, IsManifest, IsPass
<1>5. IndexTypes'
  <2>1. changes' \in Nat
    BY <1>0, <1>1
  <2>2. page' = [q \in Path |-> page'[q]] /\ \A q \in Path : page'[q] \in Known'
    BY <1>0, <1>1, <1>3 DEF IndexTypes
  <2>3. IsManifest(disk)' /\ IsManifest(hand)'
    BY <1>0, <1>1, <1>3 DEF IndexTypes, IsManifest, OfPath
  <2>4. IsPass(pass)'
    BY <1>0, <1>1, <1>3 DEF IndexTypes, IsPass
  <2> QED
    BY <2>1, <2>2, <2>3, <2>4 DEF IndexTypes
<1>6. Skips(disk)' /\ Skips(hand)'
  <2>1. \A q \in Path \ {p} : page'[q] = page[q] /\ (Index!Indexed(q) => Index!Indexed(q)')
    BY <1>1 DEF Index!Indexed
  <2>2. page'[p] # 0 => disk[p].mtime # page'[p] /\ hand[p].mtime # page'[p]
    BY <1>1, <1>2, <1>4
  <2> QED
    BY <1>1, <2>1, <2>2 DEF IndexIInv, Skips
<1>7. \A q \in Path : Changed(q) => Changed(q)'
  BY <1>1, <1>2, <1>4 DEF Changed
<1>8. pass.orphans \subseteq Path /\ pass.path \subseteq Path
  BY <1>0 DEF IndexTypes, IsPass
<1>9. TodoIsAsOnDisk' /\ WorkIsDue'
  BY <1>1, <1>7, <1>8 DEF IndexIInv, TodoIsAsOnDisk, WorkIsDue, Working
<1>10. ReadIsCurrent'
  <2>1. pass.at \in {"delete", "upsert"} => page'[p] # pass.mtime
    BY <1>1, <1>2, <1>4 DEF IndexIInv, WorkIsDue
  <2> QED
    BY <1>1, <1>8, <2>1 DEF IndexIInv, ReadIsCurrent
<1>11. NothingLeaks'
  BY <1>1 DEF IndexIInv, NothingLeaks, OfPath
<1> QED
  BY <1>5, <1>6, <1>9, <1>10, <1>11 DEF IndexIInv

\* IndexIInv is an invariant of the indexer.
THEOREM IndexInv ==
    Index!Spec => []IndexIInv
<1>1. Index!Init => IndexIInv
  <2> SUFFICES ASSUME Index!Init PROVE IndexIInv
    OBVIOUS
  <2>0. changes = 0 /\ 0 \in Known
    BY DEF Index!Init, Known
  <2>1. \A p \in Path : disk[p] = Index!Unlisted /\ hand[p] = Index!Unlisted /\ page[p] = 0
    BY DEF Index!Init
  <2>2. disk = [p \in Path |-> disk[p]] /\ hand = [p \in Path |-> hand[p]] /\ page = [p \in Path |-> page[p]]
    BY DEF Index!Init
  <2>3. IsManifest(disk) /\ IsManifest(hand)
    BY <2>0, <2>1, <2>2 DEF IsManifest, Index!Unlisted
  <2>4. pass = Index!Start
    BY DEF Index!Init
  <2>5. pass.at = "collect" /\ pass.todo = {} /\ pass.orphans = {} /\ IsPass(pass)
    BY <2>0, <2>4 DEF Index!Start, IsPass, Index!Step
  <2>6. IndexTypes
    BY <2>0, <2>1, <2>2, <2>3, <2>5 DEF IndexTypes
  <2>7. Skips(disk) /\ Skips(hand)
    BY <2>1 DEF Skips
  <2>8. TodoIsAsOnDisk /\ WorkIsDue /\ ReadIsCurrent
    BY <2>5 DEF TodoIsAsOnDisk, WorkIsDue, ReadIsCurrent, Working
  <2>9. NothingLeaks
    BY <2>5 DEF NothingLeaks, OfPath, Index!Init
  <2> QED
    BY <2>6, <2>7, <2>8, <2>9 DEF IndexIInv
<1>2. IndexIInv /\ [Index!Next]_Index!vars => IndexIInv'
  <2> SUFFICES ASSUME IndexIInv, [Index!Next]_Index!vars PROVE IndexIInv'
    OBVIOUS
  <2>1. CASE UNCHANGED Index!vars
    BY <2>1, IndexStays DEF Index!vars
  <2>2. CASE Index!Collect \/ Index!Orphans \/ Index!Save \/ Index!Rescan \/ Index!Take
    BY <2>2, FullPassGoesOn
  <2>3. CASE Index!Visit
    BY <2>3, FileIsVisited
  <2>4. ASSUME NEW p \in Path, Index!Drop(p) \/ Index!DeleteOld(p) \/ Index!Upsert(p)
        PROVE  IndexIInv'
    BY <2>4, ChunksAreChanged
  <2>5. ASSUME NEW p \in Path, Index!Read(p)
        PROVE  IndexIInv'
    BY <2>5, FileIsRead
  <2>6. CASE Index!Refused
    BY <2>6, PassFails DEF Index!Refused
  <2>7. CASE Index!Restart
    BY <2>7, PassIsDropped DEF Index!Restart
  <2>8. CASE Index!MakeDirectory
    BY <2>8, IndexStays DEF Index!MakeDirectory
  <2>9. ASSUME NEW p \in Path, NEW v \in Index!State, Index!Change(p, v)
        PROVE  IndexIInv'
    BY <2>9, FileIsChanged
  <2> QED
    BY <2>1, <2>2, <2>3, <2>4, <2>5, <2>6, <2>7, <2>8, <2>9 DEF Index!Next, Index!Indexer
<1> QED
  BY <1>1, <1>2, PTL DEF Index!Spec

\* No pass skips a file that the index does not have as it is, whatever is written while
\* a pass runs and whichever request fails.
THEOREM SkippedFilesAreIndexed ==
    Index!Spec => []SkippedIsIndexed
<1>1. IndexIInv => SkippedIsIndexed
  BY DEF IndexIInv, Skips, SkippedIsIndexed, Index!SkippedIsIndexed
<1> QED
  BY <1>1, IndexInv, PTL

\* Chunks that no manifest lists come from passes whose manifest was dropped.
THEOREM LeaksAreOfDroppedPasses ==
    Index!Spec => []OnlyDroppedPassesLeak
<1>1. IndexIInv => OnlyDroppedPassesLeak
  BY DEF IndexIInv, NothingLeaks, OfPath, OnlyDroppedPassesLeak, Index!OnlyDroppedPassesLeak
<1> QED
  BY <1>1, IndexInv, PTL

-----------------------------------------------------------------------------
(* Scans.  busy has one holder, and a scan that is cancelled in time does not *)
(* complete.  The second rests on the first: the flag is cleared between     *)
(* taking busy and starting the thread, so that nobody else's scan can be    *)
(* under way, except the one that seeds the store, which takes no busy.      *)

Threads == [step: {"none", "begin", "check", "run", "done"}, begun: 0 .. Runners]

ScanTypes ==
    /\ busy \in BOOLEAN /\ cancel \in BOOLEAN /\ seeded \in BOOLEAN
    /\ request \in [Client -> {"idle", "clear", "spawn", "refresh"}]
    /\ job \in [Scan -> {"none", "running", "completed", "cancelled"}]
    /\ thread \in [Scan -> Threads]
    /\ scans \in Scan
    /\ asked \subseteq Scan

Asks(c) == request[c] # "idle"
Works(r) == thread[r].step # "none"

\* busy is held by a request or by a scan that was asked for, and by one of them.
HolderExists ==
    busy <=> (\E c \in Client : Asks(c)) \/ (\E r \in Scan \ {0} : Works(r))

HolderIsAlone ==
    /\ \A c, d \in Client : Asks(c) /\ Asks(d) => c = d
    /\ \A r, s \in Scan \ {0} : Works(r) /\ Works(s) => r = s
    /\ \A c \in Client, r \in Scan \ {0} : ~(Asks(c) /\ Works(r))

\* Runs that were not yet asked for, and the one that is about to start.
NewRuns ==
    /\ \A r \in Scan : r > scans => job[r] = "none" /\ ~Works(r)
    /\ \A c \in Client : request[c] \in {"clear", "spawn"} =>
          scans # 0 /\ job[scans] = "none" /\ ~Works(scans)

\* What the table of jobs says of a run is where its thread is.
JobOfThread(r) ==
    /\ job[r] = "running" => thread[r].step \in {"check", "run"}
    /\ job[r] \in {"completed", "cancelled"} => thread[r].step \in {"none", "done"}

\* A run that was cancelled in time will see the flag at its next runner.
Doomed(r) ==
    \/ job[r] = "running" /\ thread[r].begun < Runners /\ cancel
    \/ job[r] = "cancelled"

\* The inductive invariant.
ScansIInv ==
    /\ ScanTypes /\ HolderExists /\ HolderIsAlone /\ NewRuns
    /\ \A r \in Scan : JobOfThread(r)
    /\ \A r \in asked \ {0} : Doomed(r)

-----------------------------------------------------------------------------
(* The requests *)

RequestOf(c, s) ==
    /\ request' \in [Client -> {"idle", "clear", "spawn", "refresh"}]
    /\ request'[c] = s
    /\ \A d \in Client \ {c} : request'[d] = request[d]

ThreadOf(r, t) ==
    /\ thread' \in [Scan -> Threads]
    /\ thread'[r] = t
    /\ \A s \in Scan \ {r} : thread'[s] = thread[s]

LEMMA ScanIsNat == Scan \subseteq Nat /\ 0 \in Scan
BY BellatorAssumption DEF Scan

LEMMA RequestChanges ==
  ASSUME ScanTypes, NEW c \in Client, NEW s \in {"idle", "clear", "spawn", "refresh"}, Step(c, s)
  PROVE  RequestOf(c, s)
BY DEF ScanTypes, Step, RequestOf

LEMMA SwapStep ==
  ASSUME ScansIInv, NEW c \in Client, Swap(c)
  PROVE  ScansIInv'
<1>1. RequestOf(c, "clear")
  BY RequestChanges DEF ScansIInv, Swap
<1>2. /\ busy = FALSE /\ busy' = TRUE /\ scans' = scans + 1 /\ scans' \in Scan /\ scans \in Nat
      /\ UNCHANGED <<cancel, seeded, job, thread, asked>>
  BY BellatorAssumption DEF ScansIInv, ScanTypes, Swap, Scan
<1>3. /\ \A d \in Client : ~Asks(d)
      /\ \A r \in Scan \ {0} : ~Works(r)
  BY <1>2 DEF ScansIInv, HolderExists
<1>4. ScanTypes'
  BY <1>1, <1>2 DEF ScansIInv, ScanTypes, RequestOf
<1>5. HolderExists' /\ HolderIsAlone'
  BY <1>1, <1>2, <1>3 DEF HolderExists, HolderIsAlone, Asks, Works, RequestOf
<1>6. NewRuns'
  <2>1. job[scans'] = "none" /\ ~Works(scans') /\ scans' # 0
    BY <1>2 DEF ScansIInv, NewRuns
  <2>2. \A r \in Scan : r > scans' => job[r] = "none" /\ ~Works(r)
    BY <1>2, ScanIsNat DEF ScansIInv, NewRuns
  <2>3. job'[scans'] = "none" /\ thread'[scans'].step = "none"
    BY <1>2, <2>1 DEF Works
  <2> QED
    BY <1>2, <2>1, <2>2, <2>3 DEF NewRuns, Works
<1> QED
  BY <1>2, <1>4, <1>5, <1>6 DEF ScansIInv, JobOfThread, Doomed

\* The holder of busy clears the flag: nobody else's scan is there to lose it.
LEMMA ClearStep ==
  ASSUME ScansIInv, NEW c \in Client, Clear(c)
  PROVE  ScansIInv'
<1>1. RequestOf(c, "spawn")
  BY RequestChanges DEF ScansIInv, Clear
<1>2. cancel' = FALSE /\ request[c] = "clear" /\ UNCHANGED <<busy, seeded, job, thread, scans, asked>>
  BY DEF Clear
<1>3. Asks(c) /\ \A r \in Scan \ {0} : ~Works(r)
  BY <1>2 DEF ScansIInv, HolderIsAlone, Asks
<1>4. ScanTypes'
  BY <1>1, <1>2 DEF ScansIInv, ScanTypes, RequestOf
<1>5. HolderExists' /\ HolderIsAlone' /\ NewRuns'
  BY <1>1, <1>2, <1>3 DEF ScansIInv, HolderExists, HolderIsAlone, NewRuns, Asks, Works, RequestOf
<1>6. ASSUME NEW r \in asked \ {0} PROVE Doomed(r)'
  <2>1. r \in Scan \ {0} /\ Doomed(r) /\ JobOfThread(r)
    BY <1>6 DEF ScansIInv, ScanTypes
  <2>2. job[r] # "running"
    BY <1>3, <2>1 DEF JobOfThread, Works
  <2> QED
    BY <1>2, <2>1, <2>2 DEF Doomed
<1> QED
  BY <1>2, <1>4, <1>5, <1>6 DEF ScansIInv, JobOfThread

\* A request that holds busy gives it back.
LEMMA GiveUpStep ==
  ASSUME ScansIInv, NEW c \in Client, Asks(c), Step(c, "idle"), busy' = FALSE,
         UNCHANGED <<cancel, seeded, job, thread, scans, asked>>
  PROVE  ScansIInv'
<1>1. RequestOf(c, "idle")
  BY RequestChanges DEF ScansIInv
<1>2. /\ \A d \in Client : ~Asks(d)'
      /\ \A r \in Scan \ {0} : ~Works(r)'
  BY <1>1 DEF ScansIInv, HolderIsAlone, Asks, Works, RequestOf
<1>3. ScanTypes'
  BY <1>1 DEF ScansIInv, ScanTypes, RequestOf
<1>4. HolderExists' /\ HolderIsAlone'
  BY <1>2 DEF HolderExists, HolderIsAlone
<1>5. NewRuns'
  BY <1>2 DEF ScansIInv, NewRuns, Asks, Works
<1> QED
  BY <1>3, <1>4, <1>5 DEF ScansIInv, JobOfThread, Doomed

\* The thread takes busy over from the request.
LEMMA SpawnStep ==
  ASSUME ScansIInv, NEW c \in Client, Spawn(c)
  PROVE  ScansIInv'
<1> DEFINE t == [step |-> "begin", begun |-> 0]
<1>1. RequestOf(c, "idle")
  BY RequestChanges DEF ScansIInv, Spawn
<1>2. t \in Threads /\ t.step = "begin"
  BY BellatorAssumption DEF Threads
<1>3. /\ request[c] = "spawn" /\ scans \in Scan /\ scans # 0
      /\ job[scans] = "none" /\ ~Works(scans)
      /\ UNCHANGED <<busy, cancel, seeded, job, scans, asked>>
  BY DEF ScansIInv, ScanTypes, NewRuns, Spawn
<1>4. ThreadOf(scans, t)
  BY <1>2, <1>3 DEF ScansIInv, ScanTypes, Spawn, ThreadOf
<1> HIDE DEF t
<1>5. Asks(c) /\ busy = TRUE /\ \A r \in Scan \ {0} : ~Works(r)
  BY <1>3 DEF ScansIInv, ScanTypes, HolderExists, HolderIsAlone, Asks
<1>6. /\ \A d \in Client : ~Asks(d)'
      /\ \A r \in Scan \ {0} : Works(r)' <=> r = scans
  BY <1>1, <1>2, <1>3, <1>4, <1>5 DEF ScansIInv, HolderIsAlone, Asks, Works, RequestOf, ThreadOf
<1>7. ScanTypes'
  BY <1>1, <1>3, <1>4 DEF ScansIInv, ScanTypes, RequestOf, ThreadOf
<1>8. HolderExists' /\ HolderIsAlone'
  BY <1>3, <1>5, <1>6 DEF HolderExists, HolderIsAlone
<1>9. NewRuns'
  BY <1>3, <1>4, <1>6, ScanIsNat DEF ScansIInv, NewRuns, Asks, Works, ThreadOf
<1>10. \A r \in Scan : JobOfThread(r)'
  BY <1>3, <1>4 DEF ScansIInv, JobOfThread, ThreadOf
<1>11. \A r \in asked \ {0} : Doomed(r)'
  BY <1>3, <1>4 DEF ScansIInv, ScanTypes, Doomed, ThreadOf
<1> QED
  BY <1>3, <1>7, <1>8, <1>9, <1>10, <1>11 DEF ScansIInv

LEMMA RefreshStep ==
  ASSUME ScansIInv, NEW c \in Client, Refresh(c)
  PROVE  ScansIInv'
<1>1. RequestOf(c, "refresh")
  BY RequestChanges DEF ScansIInv, Refresh
<1>2. busy = FALSE /\ busy' = TRUE /\ UNCHANGED <<cancel, seeded, job, thread, scans, asked>>
  BY DEF ScansIInv, ScanTypes, Refresh
<1>3. /\ \A d \in Client : ~Asks(d)
      /\ \A r \in Scan \ {0} : ~Works(r)
  BY <1>2 DEF ScansIInv, HolderExists
<1>4. ScanTypes'
  BY <1>1, <1>2 DEF ScansIInv, ScanTypes, RequestOf
<1>5. HolderExists' /\ HolderIsAlone' /\ NewRuns'
  BY <1>1, <1>2, <1>3 DEF ScansIInv, HolderExists, HolderIsAlone, NewRuns, Asks, Works, RequestOf
<1> QED
  BY <1>2, <1>4, <1>5 DEF ScansIInv, JobOfThread, Doomed

-----------------------------------------------------------------------------
(* Cancel, and the threads *)

\* A run that is cancelled in time has a runner to begin.
LEMMA CancelStep ==
  ASSUME ScansIInv, Cancel
  PROVE  ScansIInv'
<1>1. /\ cancel' = TRUE /\ UNCHANGED <<busy, seeded, request, job, thread, scans>>
      /\ asked' = asked \cup {r \in Scan : job[r] = "running" /\ thread[r].begun < Runners}
  BY DEF Cancel
<1>2. ScanTypes'
  BY <1>1 DEF ScansIInv, ScanTypes
<1>3. HolderExists' /\ HolderIsAlone' /\ NewRuns' /\ \A r \in Scan : JobOfThread(r)'
  BY <1>1 DEF ScansIInv, HolderExists, HolderIsAlone, NewRuns, JobOfThread, Asks, Works
<1>4. ASSUME NEW r \in asked' \ {0} PROVE Doomed(r)'
  BY <1>1, <1>4 DEF ScansIInv, Doomed
<1> QED
  BY <1>1, <1>2, <1>3, <1>4 DEF ScansIInv

\* A thread that works goes on: busy stays where it is.
LEMMA ThreadStep ==
  ASSUME ScansIInv, NEW r \in Scan, NEW t \in Threads, thread' = [thread EXCEPT ![r] = t],
         NEW j \in {"none", "running", "completed", "cancelled"}, job' = [job EXCEPT ![r] = j],
         r # 0 => Works(r), t.step # "none", r <= scans,
         j = "running" => t.step \in {"check", "run"},
         j \in {"completed", "cancelled"} => t.step = "done",
         r \in asked \ {0} => j = "cancelled" \/ (j = "running" /\ t.begun < Runners /\ cancel),
         UNCHANGED <<busy, cancel, request, scans, asked>>, seeded' \in BOOLEAN
  PROVE  ScansIInv'
<1>1. ThreadOf(r, t)
  BY DEF ScansIInv, ScanTypes, ThreadOf
<1>2. /\ job' \in [Scan -> {"none", "running", "completed", "cancelled"}] /\ job'[r] = j
      /\ \A s \in Scan \ {r} : job'[s] = job[s]
  BY DEF ScansIInv, ScanTypes
<1>3. ScanTypes'
  BY <1>1, <1>2 DEF ScansIInv, ScanTypes, ThreadOf
<1>4. \A s \in Scan \ {0} : Works(s)' <=> Works(s)
  BY <1>1 DEF Works, ThreadOf
<1>5. HolderExists' /\ HolderIsAlone'
  BY <1>4 DEF ScansIInv, HolderExists, HolderIsAlone, Asks
<1>6. NewRuns'
  <2>1. \A s \in Scan : s > scans' => job'[s] = "none" /\ ~Works(s)'
    BY <1>1, <1>2, ScanIsNat DEF ScansIInv, ScanTypes, NewRuns, Works, ThreadOf
  <2>2. ASSUME NEW c \in Client, request[c] \in {"clear", "spawn"}
        PROVE  scans # 0 /\ job'[scans] = "none" /\ ~Works(scans)'
    <3>1. scans \in Scan \ {0} /\ job[scans] = "none" /\ ~Works(scans)
      BY <2>2 DEF ScansIInv, ScanTypes, NewRuns
    <3>2. scans # r
      BY <3>1
    <3> QED
      BY <1>1, <1>2, <3>1, <3>2 DEF Works, ThreadOf
  <2> QED
    BY <2>1, <2>2 DEF NewRuns, Works
<1>7. \A s \in Scan : JobOfThread(s)'
  BY <1>1, <1>2 DEF ScansIInv, JobOfThread, ThreadOf
<1>8. \A s \in asked \ {0} : Doomed(s)'
  BY <1>1, <1>2 DEF ScansIInv, ScanTypes, Doomed, ThreadOf
<1> QED
  BY <1>3, <1>5, <1>6, <1>7, <1>8 DEF ScansIInv

\* A thread whose step is not none has a number that was given out.
LEMMA WorksIsGiven ==
  ASSUME ScansIInv, NEW r \in Scan, Works(r)
  PROVE  r <= scans
BY ScanIsNat DEF ScansIInv, ScanTypes, NewRuns

LEMMA SeedStep ==
  ASSUME ScansIInv, Seed
  PROVE  ScansIInv'
<1>1. 0 \in Scan /\ 0 <= scans /\ UNCHANGED <<busy, cancel, request, job, scans, asked>>
      /\ seeded' \in BOOLEAN
  BY ScanIsNat DEF ScansIInv, ScanTypes, Seed
<1> DEFINE t == [step |-> "begin", begun |-> 0]
<1>2. t \in Threads /\ t.step = "begin"
  BY BellatorAssumption DEF Threads
<1>3. CASE thread' = thread
  BY <1>1, <1>3 DEF ScansIInv, ScanTypes, HolderExists, HolderIsAlone, NewRuns, JobOfThread, Doomed,
     Asks, Works
<1>4. CASE thread' = [thread EXCEPT ![0] = t] /\ job[0] = "none"
  <2>1. job' = [job EXCEPT ![0] = "none"]
    BY <1>1, <1>4 DEF ScansIInv, ScanTypes
  <2> HIDE DEF t
  <2> QED
    BY <1>1, <1>2, <1>4, <2>1, ThreadStep
<1> QED
  BY <1>1, <1>3, <1>4 DEF Seed

LEMMA BeginStep ==
  ASSUME ScansIInv, NEW r \in Scan, Begin(r)
  PROVE  ScansIInv'
<1>1. /\ thread[r].step = "begin" /\ thread[r] \in Threads /\ Works(r) /\ JobOfThread(r)
      /\ r \in asked \ {0} => Doomed(r)
      /\ UNCHANGED <<busy, cancel, seeded, request, scans, asked>>
  BY DEF ScansIInv, ScanTypes, Begin, Works
<1>2. job[r] = "none" /\ r \notin asked \ {0}
  BY <1>1 DEF ScansIInv, ScanTypes, JobOfThread, Doomed
<1>3. PICK s \in {"check", "done"}, j \in {"running", "none"} :
        /\ thread' = [thread EXCEPT ![r].step = s] /\ job' = [job EXCEPT ![r] = j]
        /\ j = "running" => s = "check"
  <2>1. job = [job EXCEPT ![r] = "none"]
    BY <1>2 DEF ScansIInv, ScanTypes
  <2> QED
    BY <2>1 DEF Begin
<1> DEFINE t == [thread[r] EXCEPT !.step = s]
<1>4. t \in Threads /\ t.step = s /\ thread' = [thread EXCEPT ![r] = t]
  BY <1>1, <1>3 DEF Threads
<1> HIDE DEF t
<1>5. r <= scans /\ seeded' \in BOOLEAN
  BY <1>1, WorksIsGiven DEF ScansIInv, ScanTypes
<1> QED
  BY <1>1, <1>2, <1>3, <1>4, <1>5, ThreadStep

LEMMA CheckStep ==
  ASSUME ScansIInv, NEW r \in Scan, Check(r)
  PROVE  ScansIInv'
<1>1. /\ thread[r].step = "check" /\ thread[r] \in Threads /\ Works(r) /\ JobOfThread(r)
      /\ r \in asked \ {0} => Doomed(r)
      /\ job[r] \in {"none", "running"} /\ r <= scans /\ seeded' \in BOOLEAN
      /\ UNCHANGED <<busy, cancel, seeded, request, scans, asked>>
  BY WorksIsGiven DEF ScansIInv, ScanTypes, JobOfThread, Check, Works
<1>2. r \in asked \ {0} => job[r] = "running" /\ thread[r].begun < Runners /\ cancel
  BY <1>1 DEF Doomed
<1>3. thread[r].begun \in 0 .. Runners /\ Runners \in Nat
  BY <1>1, BellatorAssumption DEF Threads
<1>4. CASE thread[r].begun = Runners \/ cancel
  <2> DEFINE t == [thread[r] EXCEPT !.step = "done"]
  <2>1. t \in Threads /\ t.step = "done" /\ thread' = [thread EXCEPT ![r] = t]
    BY <1>1, <1>4 DEF Check, Threads
  <2>2. PICK j \in {"completed", "cancelled"} :
          job' = [job EXCEPT ![r] = j] /\ (thread[r].begun # Runners => j = "cancelled")
    BY <1>4 DEF Check
  <2> HIDE DEF t
  <2>3. r \in asked \ {0} => j = "cancelled"
    BY <1>2, <1>3, <2>2
  <2> QED
    BY <1>1, <2>1, <2>2, <2>3, ThreadStep
<1>5. CASE ~(thread[r].begun = Runners \/ cancel)
  <2> DEFINE t == [step |-> "run", begun |-> thread[r].begun + 1]
  <2>1. t \in Threads /\ t.step = "run"
    BY <1>3, <1>5 DEF Threads
  <2>2. thread' = [thread EXCEPT ![r] = t] /\ job' = [job EXCEPT ![r] = job[r]]
    BY <1>5 DEF Check, ScansIInv, ScanTypes
  <2>3. r \notin asked \ {0}
    BY <1>2, <1>5
  <2> HIDE DEF t
  <2>4. PICK j \in {"none", "running"} : j = job[r]
    BY <1>1
  <2> QED
    BY <1>1, <2>1, <2>2, <2>3, <2>4, ThreadStep
<1> QED
  BY <1>4, <1>5

LEMMA RunnerEndsStep ==
  ASSUME ScansIInv, NEW r \in Scan, RunnerEnds(r)
  PROVE  ScansIInv'
<1>1. /\ thread[r].step = "run" /\ thread[r] \in Threads /\ Works(r) /\ JobOfThread(r)
      /\ r \in asked \ {0} => Doomed(r)
      /\ job[r] \in {"none", "running"} /\ r <= scans /\ seeded' \in BOOLEAN
      /\ UNCHANGED <<busy, cancel, seeded, request, job, scans, asked>>
  BY WorksIsGiven DEF ScansIInv, ScanTypes, JobOfThread, RunnerEnds, Works
<1> DEFINE t == [thread[r] EXCEPT !.step = "check"]
<1>2. t \in Threads /\ t.step = "check" /\ t.begun = thread[r].begun
      /\ thread' = [thread EXCEPT ![r] = t]
  BY <1>1 DEF RunnerEnds, Threads
<1>3. PICK j \in {"none", "running"} : j = job[r]
  BY <1>1
<1>4. job' = [job EXCEPT ![r] = j]
  BY <1>1, <1>3 DEF ScansIInv, ScanTypes
<1> HIDE DEF t
<1>5. r \in asked \ {0} => j = "running" /\ t.begun < Runners /\ cancel
  BY <1>1, <1>2, <1>3 DEF Doomed
<1> QED
  BY <1>1, <1>2, <1>3, <1>4, <1>5, ThreadStep

\* The thread of a scan that was asked for gives busy back, and nobody else has it.
LEMMA GiveBackStep ==
  ASSUME ScansIInv, NEW r \in Scan, GiveBack(r)
  PROVE  ScansIInv'
<1> DEFINE t == [thread[r] EXCEPT !.step = "none"]
<1>1. /\ thread[r].step = "done" /\ thread[r] \in Threads /\ Works(r) /\ JobOfThread(r)
      /\ busy' = (IF r = 0 THEN busy ELSE FALSE)
      /\ UNCHANGED <<cancel, seeded, request, job, scans, asked>>
  BY DEF ScansIInv, ScanTypes, GiveBack, Works
<1>2. t \in Threads /\ t.step = "none" /\ thread' = [thread EXCEPT ![r] = t]
  BY <1>1 DEF GiveBack, Threads
<1> HIDE DEF t
<1>3. ThreadOf(r, t)
  BY <1>2 DEF ScansIInv, ScanTypes, ThreadOf
<1>4. ScanTypes'
  BY <1>1, <1>3 DEF ScansIInv, ScanTypes, ThreadOf
<1>5. HolderExists' /\ HolderIsAlone'
  <2>1. CASE r = 0
    BY <1>1, <1>3, <2>1 DEF ScansIInv, HolderExists, HolderIsAlone, Asks, Works, ThreadOf
  <2>2. CASE r # 0
    <3>1. /\ \A c \in Client : ~Asks(c)
          /\ \A s \in Scan \ {0} : ~Works(s)'
      BY <1>1, <1>2, <1>3, <2>2 DEF ScansIInv, HolderIsAlone, Works, ThreadOf
    <3> QED
      BY <1>1, <2>2, <3>1 DEF HolderExists, HolderIsAlone, Asks
  <2> QED
    BY <2>1, <2>2
<1>6. NewRuns'
  BY <1>1, <1>2, <1>3 DEF ScansIInv, ScanTypes, NewRuns, Works, ThreadOf
<1>7. \A s \in Scan : JobOfThread(s)'
  BY <1>1, <1>2, <1>3 DEF ScansIInv, JobOfThread, ThreadOf
<1>8. \A s \in asked \ {0} : Doomed(s)'
  BY <1>1, <1>3 DEF ScansIInv, ScanTypes, JobOfThread, Doomed, ThreadOf
<1> QED
  BY <1>1, <1>4, <1>5, <1>6, <1>7, <1>8 DEF ScansIInv

-----------------------------------------------------------------------------

LEMMA ScansAtStart == ScanInit => ScansIInv
<1> SUFFICES ASSUME ScanInit PROVE ScansIInv
  OBVIOUS
<1>1. 0 \in Scan /\ [step |-> "none", begun |-> 0] \in Threads
  BY BellatorAssumption DEF Scan, Threads
<1>2. /\ job \in [Scan -> {"none", "running", "completed", "cancelled"}]
      /\ request \in [Client -> {"idle", "clear", "spawn", "refresh"}]
      /\ thread \in [Scan -> Threads] /\ scans \in Scan /\ asked \subseteq Scan
  BY <1>1 DEF ScanInit
<1>3. busy \in BOOLEAN /\ cancel \in BOOLEAN /\ seeded \in BOOLEAN
  BY DEF ScanInit
<1>4. ScanTypes
  BY <1>2, <1>3 DEF ScanTypes
<1>5. \A c \in Client : ~Asks(c)
  BY DEF ScanInit, Asks
<1>6. \A r \in Scan : ~Works(r) /\ job[r] = "none"
  BY DEF ScanInit, Works
<1>7. HolderExists /\ HolderIsAlone /\ NewRuns
  BY <1>5, <1>6 DEF ScanInit, HolderExists, HolderIsAlone, NewRuns, Asks
<1>8. \A r \in asked \ {0} : Doomed(r)
  BY DEF ScanInit
<1> QED
  BY <1>4, <1>6, <1>7, <1>8 DEF ScansIInv, JobOfThread

\* Every step keeps the inductive invariant.
LEMMA ScansStep == ScansIInv /\ [ScanNext]_scanVars => ScansIInv'
<1> SUFFICES ASSUME ScansIInv, [ScanNext]_scanVars PROVE ScansIInv'
  OBVIOUS
<1>1. ASSUME UNCHANGED scanVars PROVE ScansIInv'
  BY <1>1 DEF scanVars, ScansIInv, ScanTypes, HolderExists, HolderIsAlone, NewRuns, JobOfThread,
     Doomed, Asks, Works
<1>2. ASSUME NEW c \in Client, Refuse(c) \/ Refreshed(c) PROVE ScansIInv'
  BY <1>2, GiveUpStep DEF Refuse, Refreshed, Asks
<1> QED
  BY <1>1, <1>2, SwapStep, ClearStep, SpawnStep, RefreshStep, SeedStep, CancelStep, BeginStep,
     CheckStep, RunnerEndsStep, GiveBackStep DEF ScanNext

LEMMA ScansInv == ScanSpec => []ScansIInv
  BY ScansAtStart, ScansStep, PTL DEF ScanSpec

\* busy is held by one request or one scan, which gives it back, or by none, for
\* any number of requests that start_scan, refresh and cancel at the same time.
THEOREM BusyIsHeldByOne == ScanSpec => []BusyHasOneHolder
<1> DEFINE H == {c \in Client : request[c] # "idle"}
                \cup {r \in Scan \ {0} : thread[r].step # "none"}
<1>1. ASSUME ScansIInv PROVE BusyHasOneHolder
  <2>1. CASE ~busy
    <3>1. H = {}
      BY <1>1, <2>1 DEF ScansIInv, HolderExists, Asks, Works
    <3> QED
      BY <2>1, <3>1, FS_EmptySet DEF BusyHasOneHolder
  <2>2. CASE busy
    <3>1. \E x : H = {x}
      <4>1. CASE \E c \in Client : Asks(c)
        <5>1. PICK c \in Client : Asks(c)
          BY <4>1
        <5>2. H = {c}
          BY <1>1, <5>1 DEF ScansIInv, HolderIsAlone, Asks, Works
        <5> QED
          BY <5>2
      <4>2. CASE \E r \in Scan \ {0} : Works(r)
        <5>1. PICK r \in Scan \ {0} : Works(r)
          BY <4>2
        <5>2. H = {r}
          BY <1>1, <5>1 DEF ScansIInv, HolderIsAlone, Asks, Works
        <5> QED
          BY <5>2
      <4> QED
        BY <1>1, <2>2, <4>1, <4>2 DEF ScansIInv, HolderExists
    <3> QED
      BY <2>2, <3>1, FS_Singleton DEF BusyHasOneHolder
  <2> QED
    BY <2>1, <2>2
<1> QED
  BY <1>1, ScansInv, PTL

\* A scan that is cancelled while it has a runner to begin ends as cancelled: the
\* flag that start_scan clears is never one that was set for another scan.
THEOREM CancelReachesItsScan == ScanSpec => []CancelIsObeyed
<1>1. ScansIInv => CancelIsObeyed
  BY DEF ScansIInv, Doomed, CancelIsObeyed
<1> QED
  BY <1>1, ScansInv, PTL

-----------------------------------------------------------------------------
(* The parts side by side *)

\* A step is one of the part that is at work.
LEMMA StepIsOfAPart ==
    ASSUME [ServicesNext]_allVars
    PROVE  /\ [Next]_vars
           /\ [ScanNext]_scanVars
           /\ [Index!Next]_Index!vars
           /\ [Ideas!Next]_Ideas!vars
           /\ [Docs!Next]_Docs!vars
           /\ [Hub!Next]_Hub!vars
           /\ [Captures!Next]_Captures!vars
<1>1. /\ UNCHANGED indexVars => UNCHANGED Index!vars
      /\ UNCHANGED ideaVars => UNCHANGED Ideas!vars
      /\ UNCHANGED docVars => UNCHANGED Docs!vars
      /\ UNCHANGED hubVars => UNCHANGED Hub!vars /\ UNCHANGED Captures!vars
  BY DEF indexVars, ideaVars, docVars, hubVars, Index!vars, Ideas!vars, Docs!vars, Hub!vars,
         Captures!vars
<1>2. CASE UNCHANGED allVars
  <2>1. UNCHANGED <<vars, scanVars, indexVars, ideaVars, docVars, hubVars>>
    BY <1>2 DEF allVars
  <2> QED
    BY <1>1, <2>1
<1>3. CASE CacheStep
  <2>1. UNCHANGED <<scanVars, indexVars, ideaVars, docVars, hubVars>>
    BY <1>3 DEF CacheStep, InCache
  <2>2. Next
    BY <1>3 DEF CacheStep, InCache, Next
  <2> QED
    BY <1>1, <2>1, <2>2
<1>4. CASE ScanStep
  <2>1. UNCHANGED <<vars, indexVars, ideaVars, docVars, hubVars>>
    BY <1>4 DEF ScanStep, InScans
  <2>2. ScanNext
    BY <1>4 DEF ScanStep, InScans, ScanNext
  <2> QED
    BY <1>1, <2>1, <2>2
<1>5. CASE IndexStep
  <2>1. UNCHANGED <<vars, scanVars, ideaVars, docVars, hubVars>>
    BY <1>5 DEF IndexStep, InIndex
  <2>2. Index!Next
    BY <1>5 DEF IndexStep, InIndex, Index!Next, Index!Indexer
  <2> QED
    BY <1>1, <2>1, <2>2
<1>6. CASE IdeaStep
  <2>1. UNCHANGED <<vars, scanVars, indexVars, docVars, hubVars>>
    BY <1>6 DEF IdeaStep, InIdeas
  <2>2. Ideas!Next
    BY <1>6 DEF IdeaStep, InIdeas, Ideas!Next
  <2> QED
    BY <1>1, <2>1, <2>2
<1>7. CASE DocStep
  <2>1. UNCHANGED <<vars, scanVars, indexVars, ideaVars, hubVars>>
    BY <1>7 DEF DocStep, InDocs
  <2>2. Docs!Next
    BY <1>7 DEF DocStep, InDocs, Docs!Next
  <2> QED
    BY <1>1, <2>1, <2>2
<1>8. CASE HubStep
  <2>1. UNCHANGED <<vars, scanVars, indexVars, ideaVars, docVars>>
        /\ UNCHANGED <<capture, captured, lines, meta, starts, available, failed>>
    BY <1>8 DEF HubStep, InHub, OthersStay
  <2>2. Hub!Next
    BY <1>8 DEF HubStep, InHub, Hub!Next
  <2>3. UNCHANGED Captures!vars
    BY <2>1 DEF Captures!vars
  <2> QED
    BY <1>1, <2>1, <2>2, <2>3
<1>9. CASE CaptureStep
  <2>1. UNCHANGED <<vars, scanVars, indexVars, ideaVars, docVars>>
        /\ UNCHANGED <<seq, pid, snapshot, overlay, sending, channel, viewer, missed>>
    BY <1>9 DEF CaptureStep, InCaptures, OthersStay
  <2>2. Captures!Next
    BY <1>9 DEF CaptureStep, InCaptures, Captures!Next
  <2>3. UNCHANGED Hub!vars
    BY <2>1 DEF Hub!vars
  <2> QED
    BY <1>1, <2>1, <2>2, <2>3
<1> QED
  BY <1>2, <1>3, <1>4, <1>5, <1>6, <1>7, <1>8, <1>9 DEF ServicesNext

\* A behaviour of the parts side by side is one of each part.
THEOREM PartsAreAsSpecified ==
    ServicesSpec => /\ Spec /\ ScanSpec /\ Index!Spec /\ Ideas!Spec /\ Docs!Spec
                    /\ Hub!Spec /\ Captures!Spec
<1>1. ServicesInit => /\ Init /\ ScanInit /\ Index!Init /\ Ideas!Init /\ Docs!Init
                      /\ Hub!Init /\ Captures!Init
  BY DEF ServicesInit
<1>2. [ServicesNext]_allVars => /\ [Next]_vars
                               /\ [ScanNext]_scanVars
                               /\ [Index!Next]_Index!vars
                               /\ [Ideas!Next]_Ideas!vars
                               /\ [Docs!Next]_Docs!vars
                               /\ [Hub!Next]_Hub!vars
                               /\ [Captures!Next]_Captures!vars
  BY StepIsOfAPart
<1> QED
  BY <1>1, <1>2, PTL DEF ServicesSpec, Spec, ScanSpec, Index!Spec, Ideas!Spec, Docs!Spec, Hub!Spec,
                         Captures!Spec

\* All that the run of the parts checks of them, but that the index settles, holds
\* of every behaviour they have side by side.
THEOREM PartsKeepTheirPromises ==
    ASSUME MaxRuns \in Nat, MaxCaptures \in Nat \ {0}, MaxSamples \in Nat, MaxSamples > 1,
           MaxStarts \in Nat
    PROVE  ServicesSpec => /\ [](SkippedIsIndexed /\ OnlyDroppedPassesLeak /\ LedgerMends
                                 /\ AckedRunsAreKept /\ ViewerAgrees /\ CapturesAreKept
                                 /\ CancelIsObeyed)
                           /\ LatchedIsRefused /\ HitIsFresh
<1>1. Docs!Spec => []AckedRunsAreKept
  BY RunsStay
<1>2. Docs!Spec => LatchedIsRefused
  BY LatchHolds
<1>3. Captures!Spec => []CapturesAreKept
  BY CapturesStay
<1> QED
  BY <1>1, <1>2, <1>3, PartsAreAsSpecified, SkippedFilesAreIndexed, LeaksAreOfDroppedPasses, LedgerIsMended,
     PagesAgree, CancelReachesItsScan, HitsAreFresh, PTL
=============================================================================
