------------------------ MODULE IzakayaJournalProofs ------------------------
(***************************************************************************)
(* Theorems about IzakayaJournal, for any number of commits, any limits    *)
(* and any sets of faults.                                                 *)
(***************************************************************************)
EXTENDS IzakayaJournal, SequenceTheorems, FiniteSetTheorems, TLAPS

-----------------------------------------------------------------------------
(* Replaying a journal.  Replay is a recursive function of the lines; that   *)
(* it is one, and what a line more makes of it, is shown by looking for the  *)
(* least number at which it would fail.                                      *)

\* A set of numbers that is not empty has a least one.
LEMMA LeastNumber ==
    ASSUME NEW S \in SUBSET Nat, S # {}
    PROVE  \E m \in S : \A k \in S : m <= k
<1> DEFINE R == {ss \in Nat \X Nat : ss[1] < ss[2]}
<1>1. R = OpToRel(<, Nat)
  BY DEF OpToRel
<1>2. IsWellFoundedOn(R, Nat)
  BY <1>1, NatLessThanWellFounded
<1>3. \E m \in S : \A k \in S : ~ (<<k, m>> \in R)
  BY <1>2, WFMin
<1>4. \A k, m \in Nat : <<k, m>> \in R <=> k < m
  OBVIOUS
<1> QED
  <2> HIDE DEF R
  <2>1. PICK m \in S : \A k \in S : ~ (<<k, m>> \in R)
    BY <1>3
  <2>2. \A k \in S : m <= k
    <3> TAKE k \in S
    <3>1. k \in Nat /\ m \in Nat /\ ~ (<<k, m>> \in R)
      BY <2>1
    <3>2. ~ (k < m)
      BY <1>4, <3>1
    <3> QED
      BY <3>1, <3>2
  <2> QED
    BY <2>2

\* f is the replay of the first n lines of ls, line by line.
Replays(f, ls, n) ==
    f = [i \in 0 .. n |-> IF i = 0 THEN Empty ELSE Applied(f[i - 1], ls[i])]

\* Every number of lines can be replayed.
LEMMA ReplaysExist ==
  ASSUME NEW ls, NEW z \in Nat
  PROVE  \A n \in 0 .. z : \E f : Replays(f, ls, n)
<1> DEFINE bad == {n \in 0 .. z : ~ \E f : Replays(f, ls, n)}
<1> SUFFICES ASSUME bad # {} PROVE FALSE
  OBVIOUS
<1>1. bad \in SUBSET Nat
  OBVIOUS
<1>2. PICK m \in bad : \A k \in bad : m <= k
  <2> HIDE DEF bad
  <2> QED
    BY <1>1, LeastNumber
<1>3. m \in 0 .. z /\ ~ \E f : Replays(f, ls, m)
  OBVIOUS
<1>4. m # 0
  <2>1. Replays([i \in 0 .. 0 |-> Empty], ls, 0)
    BY DEF Replays
  <2> QED
    BY <1>3, <2>1
<1>5. m - 1 \in 0 .. z /\ m - 1 \notin bad
  <2> HIDE DEF bad
  <2> QED
    BY <1>2, <1>3, <1>4
<1>6. PICK f : Replays(f, ls, m - 1)
  BY <1>5
<1> DEFINE g == [i \in 0 .. m |-> IF i = m THEN Applied(f[m - 1], ls[m]) ELSE f[i]]
<1>7. \A i \in 0 .. m - 1 : f[i] = IF i = 0 THEN Empty ELSE Applied(f[i - 1], ls[i])
  BY <1>6 DEF Replays
<1>8. \A i \in 0 .. m : g[i] = IF i = 0 THEN Empty ELSE Applied(g[i - 1], ls[i])
  <2> TAKE i \in 0 .. m
  <2>1. CASE i = m
    BY <1>3, <1>4, <2>1
  <2>2. CASE i # m
    <3>1. i \in 0 .. m - 1 /\ g[i] = f[i] /\ (i # 0 => g[i - 1] = f[i - 1])
      BY <1>3, <1>4, <2>2
    <3> HIDE DEF g
    <3> QED
      BY <1>7, <3>1
  <2> QED
    BY <2>1, <2>2
<1>9. Replays(g, ls, m)
  <2>1. g = [i \in 0 .. m |-> g[i]]
    OBVIOUS
  <2> HIDE DEF g
  <2> QED
    BY <1>8, <2>1 DEF Replays
<1> QED
  BY <1>3, <1>9

\* The first n lines of the two are the same.
Begin(ls, ms, n) == \A i \in 1 .. n : ls[i] = ms[i]

\* Two replays of lines that begin in the same way agree that far.
LEMMA ReplaysAgree ==
  ASSUME NEW ls, NEW ms, NEW y \in Nat, NEW z \in Nat, NEW n \in Nat,
         n <= y, n <= z, Begin(ls, ms, n),
         NEW f, NEW g, Replays(f, ls, y), Replays(g, ms, z)
  PROVE  f[n] = g[n]
<1> DEFINE bad == {i \in 0 .. n : f[i] # g[i]}
<1> SUFFICES ASSUME bad # {} PROVE FALSE
  OBVIOUS
<1>1. bad \in SUBSET Nat
  OBVIOUS
<1>2. PICK m \in bad : \A i \in bad : m <= i
  <2> HIDE DEF bad
  <2> QED
    BY <1>1, LeastNumber
<1>3. m \in 0 .. n /\ f[m] # g[m]
  OBVIOUS
<1>4. /\ \A i \in 0 .. y : f[i] = IF i = 0 THEN Empty ELSE Applied(f[i - 1], ls[i])
      /\ \A i \in 0 .. z : g[i] = IF i = 0 THEN Empty ELSE Applied(g[i - 1], ms[i])
  BY DEF Replays
<1>5. m # 0
  BY <1>3, <1>4
<1>6. m - 1 \in 0 .. n /\ m - 1 \notin bad
  <2> HIDE DEF bad
  <2> QED
    BY <1>2, <1>3, <1>5
<1>7. f[m - 1] = g[m - 1]
  BY <1>6
<1> QED
  BY <1>3, <1>4, <1>5, <1>7 DEF Begin

\* The board after the first n lines.
Upto(ls, n) == Replay(SubSeq(ls, 1, n))

LEMMA UptoIsReplayed ==
  ASSUME NEW S, NEW ls \in Seq(S), NEW n \in 0 .. Len(ls),
         NEW z \in Nat, n <= z, NEW f, Replays(f, ls, z)
  PROVE  Upto(ls, n) = f[n]
<1> DEFINE ms == SubSeq(ls, 1, n)
<1>1. /\ ms \in Seq(S) /\ Len(ms) = n /\ n \in Nat
      /\ Begin(ls, ms, n)
  BY SubSeqProperties, LenProperties DEF Begin
<1>2. Upto(ls, n) = Replay(ms)
  BY DEF Upto
<1> HIDE DEF ms
<1> DEFINE g == CHOOSE h : Replays(h, ms, n)
<1>3. Replay(ms) = g[n]
  BY <1>1 DEF Replay, Replays
<1>4. Replays(g, ms, n)
  <2>1. \A k \in 0 .. n : \E h : Replays(h, ms, k)
    BY <1>1, ReplaysExist
  <2> QED
    BY <1>1, <2>1
<1> HIDE DEF g
<1>5. f[n] = g[n]
  <2>1. n <= n
    BY <1>1
  <2> QED
    BY <1>1, <1>4, <2>1, ReplaysAgree
<1> QED
  BY <1>2, <1>3, <1>5

\* One line more is one application more.
LEMMA UptoStep ==
  ASSUME NEW S, NEW ls \in Seq(S)
  PROVE  /\ Upto(ls, 0) = Empty
         /\ \A n \in 1 .. Len(ls) : Upto(ls, n) = Applied(Upto(ls, n - 1), ls[n])
         /\ Upto(ls, Len(ls)) = Replay(ls)
<1>1. Len(ls) \in Nat
  BY LenProperties
<1>2. PICK f : Replays(f, ls, Len(ls))
  <2>1. \A k \in 0 .. Len(ls) : \E h : Replays(h, ls, k)
    BY <1>1, ReplaysExist
  <2> QED
    BY <1>1, <2>1
<1>3. \A i \in 0 .. Len(ls) : f[i] = IF i = 0 THEN Empty ELSE Applied(f[i - 1], ls[i])
  BY <1>2 DEF Replays
<1>4. \A n \in 0 .. Len(ls) : Upto(ls, n) = f[n]
  BY <1>1, <1>2, UptoIsReplayed
<1>5. SubSeq(ls, 1, Len(ls)) = ls
  BY SubSeqFull
<1>6. Upto(ls, Len(ls)) = Replay(ls)
  BY <1>5 DEF Upto
<1>7. \A n \in 1 .. Len(ls) : n \in 0 .. Len(ls) /\ n - 1 \in 0 .. Len(ls) /\ n # 0
  BY <1>1
<1>8. Upto(ls, 0) = Empty
  BY <1>1, <1>3, <1>4
<1> QED
  BY <1>3, <1>4, <1>6, <1>7, <1>8

\* Lines that begin in the same way make the same board that far.
LEMMA UptoAgree ==
  ASSUME NEW S, NEW ls \in Seq(S), NEW T, NEW ms \in Seq(T), NEW n \in Nat,
         n <= Len(ls), n <= Len(ms), Begin(ls, ms, n)
  PROVE  Upto(ls, n) = Upto(ms, n)
<1>1. Len(ls) \in Nat /\ Len(ms) \in Nat
  BY LenProperties
<1>2. PICK f : Replays(f, ls, n)
  <2>1. \A k \in 0 .. n : \E h : Replays(h, ls, k)
    BY ReplaysExist
  <2> QED
    BY <2>1
<1>3. PICK g : Replays(g, ms, n)
  <2>1. \A k \in 0 .. n : \E h : Replays(h, ms, k)
    BY ReplaysExist
  <2> QED
    BY <2>1
<1>4. n \in 0 .. Len(ls) /\ n \in 0 .. Len(ms)
  BY <1>1
<1>5. Upto(ls, n) = f[n]
  BY <1>2, <1>4, UptoIsReplayed
<1>6. Upto(ms, n) = g[n]
  BY <1>3, <1>4, UptoIsReplayed
<1>7. f[n] = g[n]
  <2>1. n <= n
    OBVIOUS
  <2> QED
    BY <2>1, <1>2, <1>3, ReplaysAgree
<1> QED
  BY <1>5, <1>6, <1>7

-----------------------------------------------------------------------------
(* Lines and boards of the first n commits.  No lab event is among them:    *)
(* nothing but tests records those.                                         *)

LineTo(n) == [kind : {"presence", "snapshot", "bad"}, seq : 0 .. n, ops : Seq(1 .. n)]
BoardTo(n) == [seq : 0 .. n, ops : Seq(1 .. n)]

LEMMA EmptyOK ==
  ASSUME NEW n \in Nat
  PROVE  Empty \in BoardTo(n) /\ BadLine \in LineTo(n)
<1>1. <<>> \in Seq(1 .. n)
  BY EmptySeq
<1> QED
  BY <1>1 DEF Empty, BadLine, BoardTo, LineTo

LEMMA AppliedOK ==
  ASSUME NEW n \in Nat, NEW b \in BoardTo(n), NEW l \in LineTo(n)
  PROVE  Applied(b, l) \in BoardTo(n)
<1>1. l.kind \in {"presence", "snapshot", "bad"} /\ l.seq \in 0 .. n /\ l.ops \in Seq(1 .. n)
  BY DEF LineTo
<1>2. b.seq \in 0 .. n /\ b.ops \in Seq(1 .. n)
  BY DEF BoardTo
<1>3. b.ops \o l.ops \in Seq(1 .. n)
  BY <1>1, <1>2, ConcatProperties
<1>4. CASE l.kind = "bad"
  BY <1>4 DEF Applied
<1>5. CASE l.kind = "snapshot"
  BY <1>1, <1>5 DEF Applied, BoardTo
<1>6. CASE l.kind = "presence"
  BY <1>1, <1>3, <1>6 DEF Applied, BoardTo
<1> QED
  BY <1>1, <1>4, <1>5, <1>6

\* What the lines of a journal make are boards.
LEMMA UptoOK ==
  ASSUME NEW n \in Nat, NEW ls \in Seq(LineTo(n))
  PROVE  /\ \A i \in 0 .. Len(ls) : Upto(ls, i) \in BoardTo(n)
         /\ Replay(ls) \in BoardTo(n)
<1> DEFINE bad == {i \in 0 .. Len(ls) : Upto(ls, i) \notin BoardTo(n)}
<1>1. /\ Len(ls) \in Nat
      /\ Upto(ls, 0) = Empty
      /\ \A i \in 1 .. Len(ls) : Upto(ls, i) = Applied(Upto(ls, i - 1), ls[i])
      /\ Upto(ls, Len(ls)) = Replay(ls)
  BY UptoStep, LenProperties
<1>2. ASSUME bad # {} PROVE FALSE
  <2>1. bad \in SUBSET Nat
    OBVIOUS
  <2>2. PICK m \in bad : \A i \in bad : m <= i
    <3> HIDE DEF bad
    <3> QED
      BY <1>2, <2>1, LeastNumber
  <2>3. m \in 0 .. Len(ls) /\ Upto(ls, m) \notin BoardTo(n)
    OBVIOUS
  <2>4. m # 0
    BY <1>1, <2>3, EmptyOK
  <2>5. m - 1 \in 0 .. Len(ls) /\ m - 1 \notin bad /\ m \in 1 .. Len(ls)
    <3> HIDE DEF bad
    <3> QED
      BY <1>1, <2>2, <2>3, <2>4
  <2>6. Upto(ls, m - 1) \in BoardTo(n)
    BY <2>5
  <2>7. ls[m] \in LineTo(n)
    BY <2>5, ElementOfSeq
  <2> QED
    BY <1>1, <2>3, <2>5, <2>6, <2>7, AppliedOK
<1>3. \A i \in 0 .. Len(ls) : Upto(ls, i) \in BoardTo(n)
  BY <1>2
<1> HIDE DEF bad
<1> QED
  BY <1>1, <1>3

\* More commits make more of both.
LEMMA MoreOK ==
  ASSUME NEW n \in Nat, NEW m \in Nat, n <= m
  PROVE  /\ BoardTo(n) \subseteq BoardTo(m)
         /\ \A ls \in Seq(LineTo(n)) : ls \in Seq(LineTo(m))
<1>1. 0 .. n \subseteq 0 .. m /\ 1 .. n \subseteq 1 .. m
  OBVIOUS
<1>2. \A s \in Seq(1 .. n) : s \in Seq(1 .. m)
  BY <1>1, SeqMonotonic
<1>3. LineTo(n) \subseteq LineTo(m)
  BY <1>1, <1>2 DEF LineTo
<1>4. BoardTo(n) \subseteq BoardTo(m)
  BY <1>1, <1>2 DEF BoardTo
<1> QED
  BY <1>3, <1>4, SeqMonotonic

\* The number the last parsable line bears is that of the board.
LEMMA TipIsReplayed ==
  ASSUME NEW n \in Nat, NEW ls \in Seq(LineTo(n))
  PROVE  Tip(ls) = Replay(ls).seq
<1> DEFINE good == Parsable(ls)
           Shows(i) == \/ \E k \in good : k <= i /\ (\A j \in good : j <= i => j <= k)
                                          /\ Upto(ls, i).seq = ls[k].seq
                       \/ (\A j \in good : ~ (j <= i)) /\ Upto(ls, i).seq = 0
           wrong == {i \in 0 .. Len(ls) : ~ Shows(i)}
<1>1. /\ Len(ls) \in Nat
      /\ Upto(ls, 0) = Empty
      /\ \A i \in 1 .. Len(ls) : Upto(ls, i) = Applied(Upto(ls, i - 1), ls[i])
      /\ Upto(ls, Len(ls)) = Replay(ls)
  BY UptoStep, LenProperties
<1>2. good = {i \in 1 .. Len(ls) : ls[i].kind # "bad"}
  BY LenProperties DEF Parsable
<1> HIDE DEF good
<1>3. Shows(0)
  BY <1>1, <1>2 DEF Empty
<1>4. ASSUME NEW i \in 1 .. Len(ls), Shows(i - 1) PROVE Shows(i)
  <2>1. i \in Nat /\ i <= Len(ls) /\ i >= 1
    BY <1>1
  <2>2. good \subseteq Nat
    BY <1>1, <1>2
  <2>3. ls[i] \in LineTo(n)
    BY ElementOfSeq
  <2>4. Upto(ls, i) = Applied(Upto(ls, i - 1), ls[i])
    BY <1>1
  <2>5. CASE ls[i].kind = "bad"
    <3>1. i \notin good
      BY <1>2, <2>5
    <3>2. \A j \in good : j <= i <=> j <= i - 1
      BY <2>1, <2>2, <3>1
    <3>3. Upto(ls, i) = Upto(ls, i - 1)
      BY <2>4, <2>5 DEF Applied
    <3> QED
      BY <1>4, <3>2, <3>3
  <2>6. CASE ls[i].kind # "bad"
    <3>1. i \in good
      BY <1>2, <2>6
    <3>2. ls[i].kind = "presence" \/ ls[i].kind = "snapshot"
      BY <2>3, <2>6 DEF LineTo
    <3>3. Upto(ls, i).seq = ls[i].seq
      BY <2>4, <3>2 DEF Applied
    <3> QED
      BY <2>1, <2>2, <3>1, <3>3
  <2> QED
    BY <2>5, <2>6
<1>5. wrong = {}
  <2> SUFFICES ASSUME wrong # {} PROVE FALSE
    OBVIOUS
  <2>1. wrong \in SUBSET Nat
    OBVIOUS
  <2>2. PICK m \in wrong : \A i \in wrong : m <= i
    <3> HIDE DEF wrong
    <3> QED
      BY <2>1, LeastNumber
  <2>3. m \in 0 .. Len(ls) /\ ~ Shows(m)
    OBVIOUS
  <2> HIDE DEF Shows
  <2>4. m # 0
    BY <1>3, <2>3
  <2>5. m - 1 \in 0 .. Len(ls) /\ m - 1 \notin wrong /\ m \in 1 .. Len(ls)
    <3> HIDE DEF wrong
    <3> QED
      BY <1>1, <2>2, <2>3, <2>4
  <2> QED
    BY <1>4, <2>3, <2>5
<1>6. Shows(Len(ls))
  <2> HIDE DEF Shows
  <2>1. Len(ls) \in 0 .. Len(ls) /\ Len(ls) \notin wrong
    BY <1>1, <1>5
  <2> QED
    BY <2>1
<1>7. \A j \in good : j <= Len(ls) /\ j \in Nat
  BY <1>1, <1>2
<1>8. CASE good = {}
  <2>1. Tip(ls) = 0
    BY <1>8 DEF Tip, good
  <2> QED
    BY <1>1, <1>6, <1>8, <2>1
<1>9. CASE good # {}
  <2>1. PICK k \in good : (\A j \in good : j <= k) /\ Upto(ls, Len(ls)).seq = ls[k].seq
    BY <1>6, <1>7, <1>9
  <2> DEFINE last == CHOOSE i \in good : \A j \in good : j <= i
  <2>2. Tip(ls) = ls[last].seq
    BY <1>9 DEF Tip, good
  <2>3. last \in good /\ \A j \in good : j <= last
    BY <2>1
  <2> HIDE DEF last
  <2>4. last = k
    BY <1>7, <2>1, <2>3
  <2> QED
    BY <1>1, <2>1, <2>2, <2>4
<1> QED
  BY <1>8, <1>9

\* Without lab events a compacted journal is its snapshot.
Snapshot(b) == [kind |-> "snapshot", seq |-> b.seq, ops |-> b.ops]

LEMMA CompactedIsSnapshot ==
  ASSUME NEW n \in Nat, NEW ls \in Seq(LineTo(n)), NEW b
  PROVE  Compacted(ls, b) = <<Snapshot(b)>>
<1>0. \A i \in 1 .. Len(ls) : ls[i].kind # "lab"
  <2> TAKE i \in 1 .. Len(ls)
  <2>1. ls[i] \in LineTo(n)
    BY ElementOfSeq
  <2> QED
    BY <2>1 DEF LineTo
<1> DEFINE k == Len(ls)
           Keeps(f) == f = [i \in 0 .. k |->
                              IF i = 0 THEN <<>>
                              ELSE f[i - 1] \o IF ls[i].kind = "lab" THEN <<ls[i]>> ELSE <<>>]
           none == [i \in 0 .. k |-> <<>>]
           kept == CHOOSE f : Keeps(f)
           bad == {i \in 0 .. k : kept[i] # <<>>}
<1>1. k \in Nat
  BY LenProperties
<1>2. LabEvents(ls) = kept[k]
  BY DEF LabEvents
<1> HIDE DEF k
<1>3. \A i \in 1 .. k : ls[i].kind # "lab"
  BY <1>0 DEF k
<1>4. Keeps(none)
  <2>1. \A i \in 0 .. k : none[i] = IF i = 0 THEN <<>>
                              ELSE none[i - 1] \o IF ls[i].kind = "lab" THEN <<ls[i]>> ELSE <<>>
    <3> TAKE i \in 0 .. k
    <3>1. CASE i = 0
      BY <3>1
    <3>2. CASE i # 0
      <4>1. i \in 1 .. k /\ i - 1 \in 0 .. k
        BY <1>1, <3>2
      <4>2. none[i] = <<>> /\ none[i - 1] = <<>>
        BY <4>1
      <4>3. <<>> \o <<>> = <<>>
        OBVIOUS
      <4> HIDE DEF none
      <4> QED
        BY <1>3, <3>2, <4>1, <4>2, <4>3
    <3> QED
      BY <3>1, <3>2
  <2>2. none = [i \in 0 .. k |-> none[i]]
    OBVIOUS
  <2> HIDE DEF none
  <2> QED
    BY <2>1, <2>2
<1>5. Keeps(kept)
  <2> HIDE DEF none, Keeps
  <2> QED
    BY <1>4
<1>6. \A i \in 0 .. k : kept[i] = IF i = 0 THEN <<>>
                            ELSE kept[i - 1] \o IF ls[i].kind = "lab" THEN <<ls[i]>> ELSE <<>>
  <2> HIDE DEF kept
  <2> QED
    BY <1>5
<1> HIDE DEF kept, Keeps, none
<1>7. bad = {}
  <2> SUFFICES ASSUME bad # {} PROVE FALSE
    OBVIOUS
  <2>1. bad \in SUBSET Nat
    OBVIOUS
  <2>2. PICK m \in bad : \A i \in bad : m <= i
    <3> HIDE DEF bad
    <3> QED
      BY <2>1, LeastNumber
  <2>3. m \in 0 .. k /\ kept[m] # <<>>
    OBVIOUS
  <2>4. m # 0
    BY <1>6, <2>3
  <2>5. m - 1 \in 0 .. k /\ m - 1 \notin bad /\ m \in 1 .. k
    <3> HIDE DEF bad
    <3> QED
      BY <1>1, <2>2, <2>3, <2>4
  <2>6. kept[m - 1] = <<>>
    BY <2>5
  <2>7. kept[m] = <<>> \o <<>>
    BY <1>3, <1>6, <2>3, <2>4, <2>5, <2>6
  <2> QED
    BY <2>3, <2>7
<1>8. LabEvents(ls) = <<>>
  BY <1>1, <1>2, <1>7
<1>9. <<Snapshot(b)>> \o <<>> = <<Snapshot(b)>>
  OBVIOUS
<1> QED
  BY <1>8, <1>9 DEF Compacted, Snapshot

-----------------------------------------------------------------------------
(* How the boards of a journal's beginnings follow each other.  Not only    *)
(* the whole journal matters: a crash in a repair leaves any beginning of   *)
(* it, and text behind an open line takes that line away.                   *)

\* No later board has a smaller number, and with the same number it is the same.
Climbs(ls) ==
    \A n \in 0 .. Len(ls) : \A m \in 0 .. n :
        /\ Upto(ls, m).seq <= Upto(ls, n).seq
        /\ Upto(ls, m).seq = Upto(ls, n).seq => Upto(ls, m) = Upto(ls, n)

\* A board with p's number is p.
Agrees(ls, p) ==
    \A n \in 0 .. Len(ls) : Upto(ls, n).seq = p.seq => Upto(ls, n) = p

AtMost(ls, b) ==
    Agrees(ls, b) /\ \A n \in 0 .. Len(ls) : Upto(ls, n).seq <= b.seq

\* Only the first line is a snapshot.
SnapshotFirst(ls) == \A i \in 1 .. Len(ls) : ls[i].kind = "snapshot" => i = 1

LEMMA ReplayIsAtMost ==
  ASSUME NEW n \in Nat, NEW ls \in Seq(LineTo(n)), Climbs(ls)
  PROVE  AtMost(ls, Replay(ls))
<1>1. Len(ls) \in Nat /\ Upto(ls, Len(ls)) = Replay(ls)
  BY UptoStep, LenProperties
<1>2. \A m \in 0 .. Len(ls) : Len(ls) \in 0 .. Len(ls) /\ m \in 0 .. Len(ls)
  BY <1>1
<1> QED
  BY <1>1, <1>2 DEF Climbs, AtMost, Agrees

\* What begins a journal is as good as the journal.
LEMMA BeginningOK ==
  ASSUME NEW n \in Nat, NEW ls \in Seq(LineTo(n)), NEW k \in 0 .. Len(ls)
  PROVE  /\ SubSeq(ls, 1, k) \in Seq(LineTo(n))
         /\ Len(SubSeq(ls, 1, k)) = k
         /\ \A i \in 1 .. k : SubSeq(ls, 1, k)[i] = ls[i]
         /\ Replay(SubSeq(ls, 1, k)) = Upto(ls, k)
         /\ \A m \in 0 .. k : Upto(SubSeq(ls, 1, k), m) = Upto(ls, m)
         /\ Climbs(ls) => Climbs(SubSeq(ls, 1, k))
         /\ \A p : Agrees(ls, p) => Agrees(SubSeq(ls, 1, k), p)
         /\ SnapshotFirst(ls) => SnapshotFirst(SubSeq(ls, 1, k))
<1> DEFINE ms == SubSeq(ls, 1, k)
<1>1. /\ Len(ls) \in Nat /\ k \in Nat /\ k <= Len(ls)
      /\ \A i \in 1 .. Len(ls) : ls[i] \in LineTo(n)
  BY LenProperties, ElementOfSeq
<1>2. /\ ms \in Seq(LineTo(n)) /\ Len(ms) = k
      /\ \A i \in 1 .. k : ls[i] = ms[i]
  BY <1>1, SubSeqProperties
<1>3. Replay(ms) = Upto(ls, k)
  BY DEF Upto
<1> HIDE DEF ms
<1>4. ASSUME NEW m \in 0 .. k PROVE Upto(ms, m) = Upto(ls, m)
  <2>1. m \in Nat /\ m <= Len(ls) /\ m <= Len(ms)
    BY <1>1, <1>2
  <2>2. Begin(ls, ms, m)
    BY <1>1, <1>2 DEF Begin
  <2> QED
    BY <1>2, <2>1, <2>2, UptoAgree
<1>5. \A m \in 0 .. k : m \in 0 .. Len(ls) /\ 0 .. m \subseteq 0 .. k
  BY <1>1
<1>6. Climbs(ls) => Climbs(ms)
  BY <1>2, <1>4, <1>5 DEF Climbs
<1>7. \A p : Agrees(ls, p) => Agrees(ms, p)
  BY <1>2, <1>4, <1>5 DEF Agrees
<1>8. SnapshotFirst(ls) => SnapshotFirst(ms)
  BY <1>1, <1>2 DEF SnapshotFirst
<1> QED
  BY <1>2, <1>3, <1>4, <1>6, <1>7, <1>8 DEF ms

\* One line more.
LEMMA OneMore ==
  ASSUME NEW n \in Nat, NEW ls \in Seq(LineTo(n)), NEW l \in LineTo(n)
  PROVE  /\ Append(ls, l) \in Seq(LineTo(n))
         /\ Len(Append(ls, l)) = Len(ls) + 1
         /\ \A m \in 0 .. Len(ls) : Upto(Append(ls, l), m) = Upto(ls, m)
         /\ Upto(Append(ls, l), Len(ls) + 1) = Applied(Replay(ls), l)
         /\ Replay(Append(ls, l)) = Applied(Replay(ls), l)
<1> DEFINE ms == Append(ls, l)
<1>1. /\ Len(ls) \in Nat
      /\ ms \in Seq(LineTo(n)) /\ Len(ms) = Len(ls) + 1
      /\ \A i \in 1 .. Len(ls) : ls[i] = ms[i]
      /\ ms[Len(ls) + 1] = l
  BY LenProperties, AppendProperties
<1> HIDE DEF ms
<1>2. ASSUME NEW m \in 0 .. Len(ls) PROVE Upto(ms, m) = Upto(ls, m)
  <2>1. m \in Nat /\ m <= Len(ls) /\ m <= Len(ms)
    BY <1>1
  <2>2. Begin(ls, ms, m)
    BY <1>1 DEF Begin
  <2>3. Upto(ls, m) = Upto(ms, m)
    BY <1>1, <2>1, <2>2, UptoAgree
  <2> QED
    BY <2>3
<1>3. /\ \A i \in 1 .. Len(ms) : Upto(ms, i) = Applied(Upto(ms, i - 1), ms[i])
      /\ Upto(ms, Len(ms)) = Replay(ms)
  BY <1>1, UptoStep
<1>4. Upto(ls, Len(ls)) = Replay(ls)
  BY UptoStep
<1>5. Len(ms) \in 1 .. Len(ms) /\ Len(ms) - 1 = Len(ls) /\ Len(ls) \in 0 .. Len(ls)
  BY <1>1
<1>6. Upto(ms, Len(ms)) = Applied(Replay(ls), l)
  BY <1>1, <1>2, <1>3, <1>4, <1>5
<1> QED
  BY <1>1, <1>2, <1>3, <1>6 DEF ms

\* A line that does not parse changes no board.
LEMMA BadLineMore ==
  ASSUME NEW n \in Nat, NEW ls \in Seq(LineTo(n))
  PROVE  /\ Append(ls, BadLine) \in Seq(LineTo(n))
         /\ Replay(Append(ls, BadLine)) = Replay(ls)
         /\ Climbs(ls) => Climbs(Append(ls, BadLine))
         /\ \A p : Agrees(ls, p) => Agrees(Append(ls, BadLine), p)
         /\ \A p : AtMost(ls, p) => AtMost(Append(ls, BadLine), p)
         /\ SnapshotFirst(ls) => SnapshotFirst(Append(ls, BadLine))
<1> DEFINE ms == Append(ls, BadLine)
<1>1. BadLine \in LineTo(n) /\ BadLine.kind = "bad"
  BY EmptyOK DEF BadLine
<1>2. /\ Len(ls) \in Nat
      /\ ms \in Seq(LineTo(n)) /\ Len(ms) = Len(ls) + 1
      /\ \A i \in 1 .. Len(ls) : ls[i] = ms[i]
      /\ ms[Len(ls) + 1] = BadLine
  BY <1>1, LenProperties, AppendProperties
<1>3. Applied(Replay(ls), BadLine) = Replay(ls)
  BY <1>1 DEF Applied
<1>4. /\ \A m \in 0 .. Len(ls) : Upto(ms, m) = Upto(ls, m)
      /\ Upto(ms, Len(ls) + 1) = Replay(ls)
      /\ Replay(ms) = Replay(ls)
  BY <1>1, <1>3, OneMore
<1>5. Upto(ls, Len(ls)) = Replay(ls)
  BY UptoStep
<1> HIDE DEF ms
<1>6. \A m \in 0 .. Len(ms) : m \in 0 .. Len(ls) \/ m = Len(ls) + 1
  BY <1>2
<1>7. ASSUME NEW m \in 0 .. Len(ms)
      PROVE  \E k \in 0 .. Len(ls) : Upto(ms, m) = Upto(ls, k)
  BY <1>2, <1>4, <1>5, <1>6
<1>8. ASSUME Climbs(ls) PROVE Climbs(ms)
  <2>1. \A i \in 0 .. Len(ls) : \A j \in 0 .. i :
           /\ Upto(ls, j).seq <= Upto(ls, i).seq
           /\ Upto(ls, j).seq = Upto(ls, i).seq => Upto(ls, j) = Upto(ls, i)
    BY <1>8 DEF Climbs
  <2>2. ASSUME NEW i \in 0 .. Len(ms), NEW j \in 0 .. i
        PROVE  \E a \in 0 .. Len(ls) : \E c \in 0 .. a :
                   Upto(ms, i) = Upto(ls, a) /\ Upto(ms, j) = Upto(ls, c)
    <3>1. CASE i \in 0 .. Len(ls)
      <4>1. j \in 0 .. Len(ls)
        BY <1>2, <3>1
      <4> QED
        BY <1>4, <3>1, <4>1
    <3>2. CASE i = Len(ls) + 1
      <4>1. Len(ls) \in 0 .. Len(ls) /\ Upto(ms, i) = Upto(ls, Len(ls))
        BY <1>2, <1>4, <1>5, <3>2
      <4>2. CASE j \in 0 .. Len(ls)
        BY <1>4, <4>1, <4>2
      <4>3. CASE j = Len(ls) + 1
        BY <1>4, <1>5, <4>1, <4>3
      <4> QED
        BY <1>2, <3>2, <4>2, <4>3
    <3> QED
      BY <1>6, <3>1, <3>2
  <2> QED
    BY <2>1, <2>2 DEF Climbs
<1>9. \A p : Agrees(ls, p) => Agrees(ms, p)
  BY <1>7 DEF Agrees
<1>10. \A p : AtMost(ls, p) => AtMost(ms, p)
  BY <1>7, <1>9 DEF AtMost
<1>11. SnapshotFirst(ls) => SnapshotFirst(ms)
  BY <1>1, <1>2 DEF SnapshotFirst
<1> QED
  BY <1>2, <1>4, <1>8, <1>9, <1>10, <1>11 DEF ms

\* A commit with a number that no board had.
LEMMA CommitMore ==
  ASSUME NEW n \in Nat, NEW ls \in Seq(LineTo(n)), NEW l \in LineTo(n),
         l.kind = "presence", Replay(ls).seq < l.seq, Climbs(ls)
  PROVE  /\ Append(ls, l) \in Seq(LineTo(n))
         /\ Climbs(Append(ls, l))
         /\ \A p : Agrees(ls, p) /\ p.seq # l.seq => Agrees(Append(ls, l), p)
         /\ AtMost(Append(ls, l), Applied(Replay(ls), l))
         /\ SnapshotFirst(ls) => SnapshotFirst(Append(ls, l))
<1> DEFINE ms == Append(ls, l)
           b == Applied(Replay(ls), l)
<1>1. /\ Len(ls) \in Nat
      /\ ms \in Seq(LineTo(n)) /\ Len(ms) = Len(ls) + 1
      /\ \A i \in 1 .. Len(ls) : ls[i] = ms[i]
      /\ ms[Len(ls) + 1] = l
  BY LenProperties, AppendProperties
<1>2. b.seq = l.seq
  BY DEF Applied
<1>3. /\ \A m \in 0 .. Len(ls) : Upto(ms, m) = Upto(ls, m)
      /\ Upto(ms, Len(ls) + 1) = b
  BY OneMore
<1>4. /\ Replay(ls) \in BoardTo(n)
      /\ \A m \in 0 .. Len(ls) : Upto(ls, m) \in BoardTo(n)
  BY UptoOK
<1>5. \A m \in 0 .. Len(ls) : Upto(ls, m).seq <= Replay(ls).seq
  BY ReplayIsAtMost DEF AtMost
<1>6. \A m \in 0 .. Len(ls) : Upto(ms, m).seq < b.seq
  <2> TAKE m \in 0 .. Len(ls)
  <2>1. /\ Replay(ls).seq \in Nat /\ Upto(ls, m).seq \in Nat /\ l.seq \in Nat
        /\ Upto(ls, m).seq <= Replay(ls).seq
        /\ Upto(ms, m) = Upto(ls, m)
    BY <1>3, <1>4, <1>5 DEF BoardTo, LineTo
  <2> HIDE DEF b, ms
  <2> QED
    BY <1>2, <2>1
<1>7. b.seq \in Nat /\ \A m \in 0 .. Len(ls) : Upto(ms, m).seq \in Nat
  <2>1. l.seq \in Nat
    BY DEF LineTo
  <2>2. \A m \in 0 .. Len(ls) : Upto(ms, m).seq \in Nat
    BY <1>3, <1>4 DEF BoardTo
  <2> QED
    BY <1>2, <2>1, <2>2
<1> HIDE DEF ms, b
<1>8. \A m \in 0 .. Len(ms) : m \in 0 .. Len(ls) \/ m = Len(ls) + 1
  BY <1>1
<1>9. AtMost(ms, b)
  <2>1. Agrees(ms, b)
    <3> SUFFICES ASSUME NEW m \in 0 .. Len(ms), Upto(ms, m).seq = b.seq
                 PROVE  Upto(ms, m) = b
      BY DEF Agrees
    <3>1. m \notin 0 .. Len(ls)
      <4> SUFFICES ASSUME m \in 0 .. Len(ls) PROVE FALSE
        OBVIOUS
      <4>1. Upto(ms, m).seq < b.seq
        BY <1>6
      <4> QED
        BY <1>7, <4>1
    <3> QED
      BY <1>3, <1>8, <3>1
  <2>2. \A m \in 0 .. Len(ms) : Upto(ms, m).seq <= b.seq
    <3> TAKE m \in 0 .. Len(ms)
    <3>1. CASE m \in 0 .. Len(ls)
      BY <1>6, <1>7, <3>1
    <3>2. CASE m = Len(ls) + 1
      BY <1>3, <1>7, <3>2
    <3> QED
      BY <1>8, <3>1, <3>2
  <2> QED
    BY <2>1, <2>2 DEF AtMost
<1>10. Climbs(ms)
  <2> SUFFICES ASSUME NEW i \in 0 .. Len(ms), NEW j \in 0 .. i
               PROVE  /\ Upto(ms, j).seq <= Upto(ms, i).seq
                      /\ Upto(ms, j).seq = Upto(ms, i).seq => Upto(ms, j) = Upto(ms, i)
    BY DEF Climbs
  <2>1. CASE i \in 0 .. Len(ls)
    <3>1. j \in 0 .. Len(ls)
      BY <1>1, <2>1
    <3> QED
      BY <1>3, <2>1, <3>1 DEF Climbs
  <2>2. CASE i = Len(ls) + 1
    <3>1. j \in 0 .. Len(ms)
      BY <1>1, <2>2
    <3> QED
      BY <1>3, <1>9, <2>2, <3>1 DEF AtMost, Agrees
  <2> QED
    BY <1>8, <2>1, <2>2
<1>11. \A p : Agrees(ls, p) /\ p.seq # l.seq => Agrees(ms, p)
  <2> TAKE p
  <2> SUFFICES ASSUME Agrees(ls, p), p.seq # l.seq,
                      NEW m \in 0 .. Len(ms), Upto(ms, m).seq = p.seq
               PROVE  Upto(ms, m) = p
    BY DEF Agrees
  <2>1. m \in 0 .. Len(ls)
    BY <1>2, <1>3, <1>8
  <2> QED
    BY <1>3, <2>1 DEF Agrees
<1>12. SnapshotFirst(ls) => SnapshotFirst(ms)
  <2> SUFFICES ASSUME SnapshotFirst(ls), NEW i \in 1 .. Len(ms), ms[i].kind = "snapshot"
               PROVE  i = 1
    BY DEF SnapshotFirst
  <2>1. i \in 1 .. Len(ls)
    <3>1. i # Len(ls) + 1
      BY <1>1
    <3> QED
      BY <1>1, <3>1
  <2> QED
    BY <1>1, <2>1 DEF SnapshotFirst
<1> QED
  BY <1>1, <1>9, <1>10, <1>11, <1>12 DEF ms, b

\* A compacted journal.
LEMMA SnapshotOK ==
  ASSUME NEW n \in Nat, NEW b \in BoardTo(n)
  PROVE  /\ <<Snapshot(b)>> \in Seq(LineTo(n))
         /\ Replay(<<Snapshot(b)>>) = b
         /\ SnapshotFirst(<<Snapshot(b)>>)
         /\ (b.seq = 0 => b = Empty) => Climbs(<<Snapshot(b)>>)
         /\ \A p : /\ p.seq = 0 => p = Empty
                   /\ p.seq = b.seq => p = b
                   => Agrees(<<Snapshot(b)>>, p)
<1> DEFINE ms == <<Snapshot(b)>>
<1>1. b.seq \in Nat /\ b = [seq |-> b.seq, ops |-> b.ops]
  BY DEF BoardTo
<1>2. Snapshot(b) \in LineTo(n) /\ Snapshot(b).kind = "snapshot"
  BY DEF Snapshot, LineTo, BoardTo
<1>3. ms \in Seq(LineTo(n)) /\ Len(ms) = 1 /\ ms[1] = Snapshot(b)
  BY <1>2
<1>4. Applied(Empty, Snapshot(b)) = b
  BY <1>1 DEF Applied, Snapshot
<1> HIDE DEF ms
<1>5. /\ Upto(ms, 0) = Empty
      /\ \A i \in 1 .. Len(ms) : Upto(ms, i) = Applied(Upto(ms, i - 1), ms[i])
      /\ Upto(ms, Len(ms)) = Replay(ms)
  BY <1>3, UptoStep
<1>6. Upto(ms, 1) = b /\ Replay(ms) = b /\ \A m \in 0 .. Len(ms) : m = 0 \/ m = 1
  BY <1>3, <1>4, <1>5
<1>7. SnapshotFirst(ms)
  BY <1>3 DEF SnapshotFirst
<1>8. Empty.seq = 0
  BY DEF Empty
<1>9. (b.seq = 0 => b = Empty) => Climbs(ms)
  <2> SUFFICES ASSUME b.seq = 0 => b = Empty,
                      NEW i \in 0 .. Len(ms), NEW j \in 0 .. i
               PROVE  /\ Upto(ms, j).seq <= Upto(ms, i).seq
                      /\ Upto(ms, j).seq = Upto(ms, i).seq => Upto(ms, j) = Upto(ms, i)
    BY DEF Climbs
  <2>1. j \in 0 .. Len(ms) /\ (i = 0 => j = 0)
    BY <1>3
  <2> QED
    BY <1>1, <1>5, <1>6, <1>8, <2>1
<1>10. ASSUME NEW p, p.seq = 0 => p = Empty, p.seq = b.seq => p = b
       PROVE  Agrees(ms, p)
  BY <1>5, <1>6, <1>8, <1>10 DEF Agrees
<1> QED
  BY <1>3, <1>6, <1>7, <1>9, <1>10 DEF ms

-----------------------------------------------------------------------------
(* Where the lock holder is, and what the files are made of.                *)

\* The commits that may have got into the files.
Spent == IF goal \in Kinds /\ pc \in {"load", "tidy", "append"} THEN tried - 1 ELSE tried

Control ==
    /\ open \in BOOLEAN
    /\ pc \in Phase
    /\ goal \in Kinds \cup {"read", "events", "compact"}
    /\ hint \in Nat
    /\ tried \in 0 .. MaxOps
    /\ faults \in FaultSets
    /\ goal \in Kinds => tried >= 1
    /\ pc \in {"append", "project", "settle", "reply"} => goal \in Kinds
    /\ pc \in {"tidy", "squeeze"} => goal # "events"

Contents ==
    /\ lines \in Seq(LineTo(Spent))
    /\ projection \in BoardTo(Spent) \cup {Missing, Garbled}
    /\ mem \in BoardTo(Spent)
    /\ pc \in {"project", "settle", "reply"} => mem.seq >= 1
    /\ acked \subseteq [op : Op, seq : 1 .. MaxOps]

\* The journal is within its bound when a line is added to it.
Shape ==
    /\ open => lines # <<>>
    /\ SnapshotFirst(lines)
    /\ Len(lines) <= BloatLines + 1
    /\ pc = "append" => Len(lines) <= BloatLines

Base == Control /\ Contents /\ Shape

\* The commits that something outside tests makes.
OnlyPresence == Kinds = {"presence"}

LEMMA SpentOK ==
  ASSUME Control, OnlyPresence
  PROVE  /\ Spent \in Nat /\ tried \in Nat /\ Spent <= tried /\ tried <= MaxOps
         /\ Kinds \subseteq {"presence"}
  BY KindAssumption, BoundAssumption DEF Spent, Control, OnlyPresence

\* A repair takes at most the last line away, and no board changes.
LEMMA RepairedOK ==
  ASSUME NEW n \in Nat, lines \in Seq(LineTo(n))
  PROVE  /\ Repaired \in Seq(LineTo(n))
         /\ BadTail => Len(Repaired) = Len(lines) - 1
         /\ ~ BadTail => Repaired = lines
         /\ \E k \in 0 .. Len(lines) : Repaired = SubSeq(lines, 1, k)
         /\ Replay(Repaired) = Replay(lines)
<1>1. Len(lines) \in Nat /\ (lines # <<>> => Len(lines) # 0)
  BY LenProperties, EmptySeq
<1>2. SubSeq(lines, 1, Len(lines)) = lines /\ Len(lines) \in 0 .. Len(lines)
  BY <1>1, SubSeqFull
<1>3. CASE BadTail
  <2>1. Len(lines) - 1 \in 0 .. Len(lines) /\ Len(lines) \in 1 .. Len(lines)
        /\ lines[Len(lines)].kind = "bad"
    BY <1>1, <1>3 DEF BadTail
  <2>2. Repaired = SubSeq(lines, 1, Len(lines) - 1)
    BY <1>3 DEF Repaired
  <2>3. /\ SubSeq(lines, 1, Len(lines) - 1) \in Seq(LineTo(n))
        /\ Len(SubSeq(lines, 1, Len(lines) - 1)) = Len(lines) - 1
        /\ Replay(SubSeq(lines, 1, Len(lines) - 1)) = Upto(lines, Len(lines) - 1)
    BY <2>1, BeginningOK
  <2>4. /\ Upto(lines, Len(lines)) = Applied(Upto(lines, Len(lines) - 1), lines[Len(lines)])
        /\ Upto(lines, Len(lines)) = Replay(lines)
    BY <2>1, UptoStep
  <2>5. Replay(lines) = Upto(lines, Len(lines) - 1)
    BY <2>1, <2>4 DEF Applied
  <2> QED
    BY <1>3, <2>1, <2>2, <2>3, <2>5
<1>4. CASE ~ BadTail
  BY <1>2, <1>4 DEF Repaired
<1> QED
  BY <1>3, <1>4

\* What a look at the journal may do to it.
LEMMA CompactCases ==
  ASSUME NEW n \in Nat, lines \in Seq(LineTo(n)), open \in BOOLEAN, NEW b, MaybeCompact(b)
  PROVE  \/ lines' = lines /\ open' = open
         \/ Repair
         \/ lines' = <<Snapshot(b)>> /\ open' = FALSE
<1>1. Repaired \in Seq(LineTo(n))
  BY RepairedOK
<1>2. Compacted(Repaired, b) = <<Snapshot(b)>>
  BY <1>1, CompactedIsSnapshot
<1> QED
  BY <1>2 DEF MaybeCompact

\* After it the journal is within its bound.
LEMMA CompactBounds ==
  ASSUME NEW n \in Nat, lines \in Seq(LineTo(n)), Shape, NEW b, MaybeCompact(b)
  PROVE  Len(lines') <= BloatLines
<1>1. /\ Len(lines) \in Nat /\ BloatLines \in Nat /\ BloatLines >= 1
      /\ Len(lines) <= BloatLines + 1 /\ SnapshotFirst(lines)
  BY LenProperties, BoundAssumption DEF Shape
<1>2. CASE ~ LooksAtJournal
  <2>1. lines' = lines
    BY <1>2 DEF MaybeCompact
  <2> QED
    BY <1>1, <1>2, <2>1 DEF LooksAtJournal, Bloated
<1>3. CASE LooksAtJournal
  <2>1. /\ Repaired \in Seq(LineTo(n))
        /\ BadTail => Len(Repaired) = Len(lines) - 1
        /\ ~ BadTail => Repaired = lines
    BY RepairedOK
  <2>2. Compacted(Repaired, b) = <<Snapshot(b)>>
    BY <2>1, CompactedIsSnapshot
  <2>3. \/ lines' = <<Snapshot(b)>>
        \/ /\ lines' = Repaired
           /\ \/ \A i \in DOMAIN Repaired : Repaired[i].kind # "presence"
              \/ ~ Bloated(Repaired)
    BY <1>3, <2>2 DEF MaybeCompact, Repair
  <2>4. CASE lines' = <<Snapshot(b)>>
    <3>1. Len(<<Snapshot(b)>>) = 1
      OBVIOUS
    <3> QED
      BY <1>1, <2>4, <3>1
  <2>5. CASE lines' = Repaired /\ ~ Bloated(Repaired)
    <3>1. Len(Repaired) \in Nat
      BY <2>1, LenProperties
    <3> QED
      BY <1>1, <2>5, <3>1 DEF Bloated
  <2>6. CASE lines' = Repaired /\ (\A i \in DOMAIN Repaired : Repaired[i].kind # "presence")
    <3>1. CASE BadTail
      BY <1>1, <2>1, <2>6, <3>1
    <3>2. CASE ~ BadTail
      <4>1. Repaired = lines /\ DOMAIN lines = 1 .. Len(lines)
        BY <2>1, <3>2, LenProperties
      <4>2. CASE Len(lines) = 0
        BY <1>1, <2>6, <4>1, <4>2
      <4>3. CASE Len(lines) # 0
        <5>1. Len(lines) \in 1 .. Len(lines) /\ lines # <<>>
          BY <1>1, <4>3
        <5>2. lines[Len(lines)] \in LineTo(n)
          BY <5>1, ElementOfSeq
        <5>3. lines[Len(lines)].kind = "snapshot"
          BY <2>6, <3>2, <4>1, <5>1, <5>2 DEF BadTail, LineTo
        <5>4. Len(lines) = 1
          BY <1>1, <5>1, <5>3 DEF SnapshotFirst
        <5> QED
          BY <1>1, <2>6, <4>1, <5>4
      <4> QED
        BY <4>2, <4>3
    <3> QED
      BY <3>1, <3>2
  <2> QED
    BY <2>3, <2>4, <2>5, <2>6
<1> QED
  BY <1>2, <1>3

\* What is written behind an open line takes it away.
LEMMA WrittenOK ==
  ASSUME NEW n \in Nat, lines \in Seq(LineTo(n)), Shape, NEW l
  PROVE  /\ ~ open => Written(l) = Append(lines, l)
         /\ open => /\ Len(lines) \in Nat \ {0}
                    /\ Written(l) = Append(SubSeq(lines, 1, Len(lines) - 1), BadLine)
<1>1. CASE ~ open
  BY <1>1 DEF Written
<1>2. CASE open
  <2>1. Len(lines) \in Nat \ {0}
    BY <1>2, EmptySeq DEF Shape
  <2>2. BadLine \in LineTo(n) /\ Len(lines) \in 1 .. Len(lines)
    BY <2>1, EmptyOK
  <2> DEFINE w == [lines EXCEPT ![Len(lines)] = BadLine]
             p == SubSeq(lines, 1, Len(lines) - 1)
             a == Append(p, BadLine)
  <2>3. /\ w \in Seq(LineTo(n)) /\ Len(w) = Len(lines)
        /\ \A j \in 1 .. Len(lines) : w[j] = IF j = Len(lines) THEN BadLine ELSE lines[j]
    BY <2>2, ExceptSeq
  <2>4. Len(lines) - 1 \in 0 .. Len(lines)
    BY <2>1
  <2>5. /\ p \in Seq(LineTo(n)) /\ Len(p) = Len(lines) - 1
        /\ \A i \in 1 .. Len(lines) - 1 : p[i] = lines[i]
    BY <2>4, BeginningOK
  <2> HIDE DEF p
  <2>6. /\ a \in Seq(LineTo(n)) /\ Len(a) = Len(p) + 1
        /\ \A i \in 1 .. Len(p) : a[i] = p[i]
        /\ a[Len(p) + 1] = BadLine
    BY <2>2, <2>5, AppendProperties
  <2> HIDE DEF w, a
  <2>7. \A i \in 1 .. Len(w) : w[i] = a[i]
    BY <2>1, <2>3, <2>5, <2>6
  <2>8. w = a
    BY <2>1, <2>3, <2>5, <2>6, <2>7, SeqEqual
  <2> QED
    BY <1>2, <2>1, <2>8 DEF Written, w, a, p
<1> QED
  BY <1>1, <1>2 DEF Shape

\* The line a commit adds.
LEMMA NewLineOK ==
  ASSUME Base, OnlyPresence, pc = "append"
  PROVE  /\ NewLine \in LineTo(tried) /\ NewLine.kind = "presence"
         /\ NewLine.seq = mem.seq + 1 /\ NewLine.ops = <<tried>>
         /\ Spent = tried - 1 /\ tried \in Nat /\ tried >= 1
         /\ Applied(mem, NewLine) = [seq |-> mem.seq + 1, ops |-> mem.ops \o <<tried>>]
         /\ Applied(mem, NewLine) \in BoardTo(tried)
<1>1. goal = "presence" /\ Spent = tried - 1 /\ tried \in Nat /\ tried >= 1
  BY SpentOK DEF Base, Control, Spent
<1>2. mem \in BoardTo(tried - 1)
  BY <1>1 DEF Base, Contents
<1>3. mem.seq \in 0 .. tried - 1
  BY <1>2 DEF BoardTo
<1>4. <<tried>> \in Seq(1 .. tried)
  BY <1>1
<1>5. NewLine \in LineTo(tried) /\ NewLine.kind = "presence"
      /\ NewLine.seq = mem.seq + 1 /\ NewLine.ops = <<tried>>
  BY <1>1, <1>3, <1>4 DEF NewLine, LineTo
<1>6. mem \in BoardTo(tried)
  BY <1>1, <1>2, MoreOK
<1>7. Applied(mem, NewLine) = [seq |-> mem.seq + 1, ops |-> mem.ops \o <<tried>>]
  BY <1>5 DEF Applied
<1>8. Applied(mem, NewLine) \in BoardTo(tried)
  BY <1>1, <1>5, <1>6, AppliedOK
<1> QED
  BY <1>1, <1>5, <1>7, <1>8

-----------------------------------------------------------------------------
(* Every step keeps the lock holder in order.                               *)

LEMMA ControlInit ==
  ASSUME Init, OnlyPresence
  PROVE  Control
<1>1. MaxOps \in Nat /\ Kinds \subseteq {"presence"}
  BY KindAssumption, BoundAssumption DEF OnlyPresence
<1>2. open = FALSE /\ pc = "idle" /\ goal = "read" /\ hint = 0 /\ tried = 0
      /\ faults \in FaultSets
  BY DEF Init
<1>3. 0 \in 0 .. MaxOps /\ goal \notin Kinds
  BY <1>1, <1>2
<1>4. open \in BOOLEAN
  BY <1>2
<1> QED
  BY <1>2, <1>3, <1>4 DEF Control, Phase

LEMMA ControlStep ==
  ASSUME Base, OnlyPresence, [Next]_vars
  PROVE  Control'
<1> USE DEF Control, Phase
<1>1. /\ Control /\ MaxOps \in Nat /\ KeepTail \in Nat /\ Kinds \subseteq {"presence"}
      /\ mem.seq \in Nat
  BY SpentOK, BoundAssumption DEF Base, Contents, BoardTo
<1>2. \A n \in Nat : \A ls \in Seq(LineTo(n)) : Len(ls) \in Nat
  BY LenProperties
<1>3. ASSUME NEW g \in Kinds \cup {"read", "events", "compact"}, Acquire(g) PROVE Control'
  BY <1>1, <1>3 DEF Acquire, files
<1>4. CASE ReadEvents
  BY <1>1, <1>4 DEF ReadEvents, Repair
<1>5. CASE LoadHot
  <2>1. Recent(lines) \in Nat
    <3>1. IsFiniteSet(Parsable(lines))
      <4>1. Len(lines) \in Nat /\ DOMAIN lines = 1 .. Len(lines)
        BY LenProperties DEF Base, Contents
      <4>2. IsFiniteSet(1 .. Len(lines))
        BY <4>1, FS_Interval
      <4>3. Parsable(lines) \subseteq 1 .. Len(lines)
        BY <4>1 DEF Parsable
      <4> QED
        BY <4>2, <4>3, FS_Subset
    <3> QED
      BY <1>1, <3>1, FS_CardinalityType DEF Recent
  <2> QED
    BY <1>1, <1>5, <2>1 DEF LoadHot, Loading, files
<1>6. CASE LoadCold
  <2>1. Repaired \in Seq(LineTo(Spent))
    BY SpentOK, RepairedOK DEF Base, Contents
  <2>2. Len(Repaired) \in Nat
    BY <2>1, LenProperties
  <2> QED
    BY <1>1, <1>6, <2>2 DEF LoadCold, Loading, Repair
<1>7. CASE LoadFails
  BY <1>1, <1>7 DEF LoadFails, Loading, files
<1>8. CASE Tidy
  <2>1. open' \in BOOLEAN /\ Recent(lines') \in Nat
    <3>1. lines' \in Seq(LineTo(Spent))
      <4>1. MaybeCompact(mem) /\ lines \in Seq(LineTo(Spent)) /\ Spent \in Nat
            /\ mem \in BoardTo(Spent)
        BY <1>8, SpentOK DEF Tidy, Base, Contents
      <4>2. \/ lines' = lines
            \/ lines' = Repaired
            \/ lines' = <<Snapshot(mem)>>
        BY <1>1, <4>1, CompactCases DEF Repair
      <4> QED
        BY <4>1, <4>2, RepairedOK, SnapshotOK
    <3>2. Len(lines') \in Nat /\ DOMAIN lines' = 1 .. Len(lines')
      BY <3>1, LenProperties
    <3>3. IsFiniteSet(1 .. Len(lines'))
      BY <3>2, FS_Interval
    <3>4. Parsable(lines') \subseteq 1 .. Len(lines')
      BY <3>2 DEF Parsable
    <3>5. IsFiniteSet(Parsable(lines'))
      BY <3>3, <3>4, FS_Subset
    <3>6. Recent(lines') \in Nat
      BY <1>1, <3>5, FS_CardinalityType DEF Recent
    <3>7. open' \in BOOLEAN
      BY <1>1, <1>8 DEF Tidy, MaybeCompact, Repair
    <3> QED
      BY <3>6, <3>7
  <2>2. pc' \in {"idle", "squeeze", "append"}
        /\ (pc' = "append" => goal \notin {"read", "compact", "events"})
        /\ (pc' = "squeeze" => goal = "compact")
    BY <1>1, <1>8 DEF Tidy, AfterLoad
  <2>3. goal' = goal /\ tried' = tried /\ faults' = faults /\ hint' = Recent(lines')
    BY <1>8 DEF Tidy
  <2> QED
    BY <1>1, <2>1, <2>2, <2>3
<1>9. CASE Squeeze
  BY <1>1, <1>9 DEF Squeeze
<1>10. CASE AppendEvent
  BY <1>1, <1>10 DEF AppendEvent
<1>11. CASE WriteProjection
  BY <1>1, <1>11 DEF WriteProjection
<1>12. CASE Settle
  <2>1. open' \in BOOLEAN
    BY <1>1, <1>12 DEF Settle, MaybeCompact, Repair
  <2> QED
    BY <1>1, <1>12, <2>1 DEF Settle
<1>13. CASE Reply
  BY <1>1, <1>13 DEF Reply, files
<1>14. CASE CrashBetween
  BY <1>1, <1>14 DEF CrashBetween, Dies, files
<1>15. CASE CrashInLine
  BY <1>1, <1>15 DEF CrashInLine, Dies
<1>16. CASE CrashBeforeNewline
  BY <1>1, <1>16 DEF CrashBeforeNewline, Dies
<1>17. CASE CrashInRepair
  BY <1>1, <1>17 DEF CrashInRepair, Dies
<1>18. CASE CrashInProjection
  <2>1. open' \in BOOLEAN
    BY <1>1, <1>18 DEF CrashInProjection, Repair
  <2> QED
    BY <1>1, <1>18, <2>1 DEF CrashInProjection, Dies
<1>19. CASE UNCHANGED vars
  BY <1>1, <1>19 DEF vars
<1> QED
  BY <1>3, <1>4, <1>5, <1>6, <1>7, <1>8, <1>9, <1>10, <1>11, <1>12, <1>13, <1>14, <1>15,
     <1>16, <1>17, <1>18, <1>19 DEF Next

LEMMA SpentGrows ==
  ASSUME Base, OnlyPresence, [Next]_vars
  PROVE  /\ Spent \in Nat /\ Spent' \in Nat /\ Spent <= Spent'
         /\ AppendEvent \/ CrashBeforeNewline => Spent' = tried
<1>1. /\ Control /\ Control' /\ tried \in Nat /\ Spent \in Nat /\ Spent' \in Nat
      /\ Kinds \subseteq {"presence"}
  <2>1. Control /\ Control'
    BY ControlStep DEF Base
  <2>2. MaxOps \in Nat
    BY BoundAssumption
  <2>3. tried' \in Nat /\ (goal' \in Kinds => tried' >= 1)
    BY <2>1, <2>2 DEF Control
  <2>4. Spent' \in Nat
    <3>1. Spent' = tried' \/ (goal' \in Kinds /\ Spent' = tried' - 1)
      BY DEF Spent
    <3>2. \A n \in Nat : n >= 1 => n - 1 \in Nat
      OBVIOUS
    <3> QED
      BY <2>3, <3>1, <3>2
  <2> QED
    BY <2>1, <2>4, SpentOK
<1>2. ASSUME NEW g \in Kinds \cup {"read", "events", "compact"}, Acquire(g)
      PROVE  Spent <= Spent'
  BY <1>1, <1>2 DEF Acquire, Spent
<1>3. ASSUME goal' = goal, tried' = tried, pc \notin {"load", "tidy"} => pc' # "append",
             pc # "load" => pc' # "tidy", pc' # "load"
      PROVE  Spent <= Spent'
  BY <1>1, <1>3 DEF Spent, Control
<1>4. ASSUME UNCHANGED vars PROVE Spent <= Spent'
  BY <1>1, <1>4 DEF Spent, vars
<1>5. Next => \/ \E g \in Kinds \cup {"read", "events", "compact"} : Acquire(g)
              \/ goal' = goal /\ tried' = tried /\ (pc \notin {"load", "tidy"} => pc' # "append")
                 /\ (pc # "load" => pc' # "tidy") /\ pc' # "load"
  <2>1. ASSUME ReadEvents \/ LoadHot \/ LoadCold \/ LoadFails \/ Squeeze \/ AppendEvent
               \/ WriteProjection \/ Settle \/ Reply
        PROVE  goal' = goal /\ tried' = tried /\ pc' # "append"
               /\ (pc # "load" => pc' # "tidy") /\ pc' # "load"
    BY <2>1 DEF ReadEvents, LoadHot, LoadCold, LoadFails, Squeeze, AppendEvent,
                WriteProjection, Settle, Reply, Loading
  <2>2. ASSUME CrashBetween \/ CrashInLine \/ CrashBeforeNewline \/ CrashInRepair
               \/ CrashInProjection
        PROVE  goal' = goal /\ tried' = tried /\ pc' = "idle"
    BY <2>2 DEF CrashBetween, CrashInLine, CrashBeforeNewline, CrashInRepair,
                CrashInProjection, Dies
  <2>3. ASSUME Tidy
        PROVE  goal' = goal /\ tried' = tried /\ pc = "tidy"
               /\ pc' \in {"idle", "squeeze", "append"}
    BY <2>3 DEF Tidy, AfterLoad
  <2> QED
    BY <2>1, <2>2, <2>3 DEF Next
<1>6. ASSUME AppendEvent \/ CrashBeforeNewline PROVE Spent' = tried
  BY <1>6 DEF AppendEvent, CrashBeforeNewline, Dies, Spent
<1> QED
  BY <1>1, <1>2, <1>3, <1>4, <1>5, <1>6

-----------------------------------------------------------------------------
(* What one step does to the journal: it stays, loses lines at its end, is  *)
(* compacted, or gets one more line.                                        *)

Shortened ==
    \E k \in 0 .. Len(lines) : lines' = SubSeq(lines, 1, k) /\ (open' => open /\ lines' = lines)

Squeezed == lines' = <<Snapshot(mem)>> /\ ~ open'

LEMMA KeptIsShortened ==
  ASSUME NEW n \in Nat, lines \in Seq(LineTo(n)), lines' = lines, open' = open
  PROVE  Shortened
<1>1. SubSeq(lines, 1, Len(lines)) = lines /\ Len(lines) \in 0 .. Len(lines)
  BY SubSeqFull, LenProperties
<1> QED
  BY <1>1 DEF Shortened

LEMMA RepairIsShortened ==
  ASSUME NEW n \in Nat, lines \in Seq(LineTo(n)), Repair
  PROVE  Shortened
<1>1. PICK k \in 0 .. Len(lines) : Repaired = SubSeq(lines, 1, k)
  BY RepairedOK
<1>2. ~ BadTail => Repaired = lines
  BY RepairedOK
<1>3. open' => open /\ lines' = lines
  BY <1>2 DEF Repair
<1> QED
  BY <1>1, <1>3 DEF Shortened, Repair

LEMMA LinesStep ==
  ASSUME Base, OnlyPresence, [Next]_vars
  PROVE  \/ Shortened
         \/ pc \in {"tidy", "settle", "squeeze"} /\ Squeezed
         \/ pc = "append" /\ lines' = Written(BadLine)
         \/ (AppendEvent \/ CrashBeforeNewline) /\ lines' = Written(NewLine)
<1>1. lines \in Seq(LineTo(Spent)) /\ Spent \in Nat /\ open \in BOOLEAN
  BY SpentOK DEF Base, Control, Contents
<1>2. Repair => Shortened
  BY <1>1, RepairIsShortened
<1>3. UNCHANGED <<lines, open>> => Shortened
  BY <1>1, KeptIsShortened
<1>4. MaybeCompact(mem) => Shortened \/ Squeezed
  <2>1. ASSUME MaybeCompact(mem)
        PROVE  \/ lines' = lines /\ open' = open
               \/ Repair
               \/ lines' = <<Snapshot(mem)>> /\ open' = FALSE
    BY <1>1, <2>1, CompactCases
  <2> QED
    BY <1>2, <1>3, <2>1 DEF Squeezed
<1>5. CASE \E g \in Kinds \cup {"read", "events", "compact"} : Acquire(g)
  BY <1>3, <1>5 DEF Acquire, files
<1>6. CASE ReadEvents \/ LoadCold
  BY <1>2, <1>6 DEF ReadEvents, LoadCold
<1>7. CASE LoadHot \/ LoadFails \/ WriteProjection \/ Reply \/ CrashBetween
  BY <1>3, <1>7 DEF LoadHot, LoadFails, WriteProjection, Reply, CrashBetween, files
<1>8. CASE Tidy \/ Settle
  BY <1>4, <1>8 DEF Tidy, Settle
<1>9. CASE Squeeze
  <2>1. Repaired \in Seq(LineTo(Spent))
    BY <1>1, RepairedOK
  <2>2. Compacted(Repaired, mem) = <<Snapshot(mem)>>
    BY <1>1, <2>1, CompactedIsSnapshot
  <2> QED
    BY <1>9, <2>2 DEF Squeeze, Squeezed
<1>10. CASE AppendEvent \/ CrashInLine \/ CrashBeforeNewline
  BY <1>10 DEF AppendEvent, CrashInLine, CrashBeforeNewline
<1>11. CASE CrashInRepair
  <2>1. PICK n \in 0 .. Len(Repaired) : lines' = SubSeq(lines, 1, n)
    BY <1>11 DEF CrashInRepair
  <2>2. Len(Repaired) <= Len(lines) /\ Len(Repaired) \in Nat /\ Len(lines) \in Nat
    <3>1. /\ BadTail => Len(Repaired) = Len(lines) - 1
          /\ ~ BadTail => Repaired = lines
          /\ Repaired \in Seq(LineTo(Spent))
      BY <1>1, RepairedOK
    <3>2. Len(Repaired) \in Nat /\ Len(lines) \in Nat
      BY <1>1, <3>1, LenProperties
    <3> QED
      BY <3>1, <3>2
  <2>3. n \in 0 .. Len(lines)
    BY <2>2
  <2>4. open' = FALSE
    BY <1>11 DEF CrashInRepair
  <2> QED
    BY <2>1, <2>3, <2>4 DEF Shortened
<1>12. CASE CrashInProjection
  BY <1>2, <1>3, <1>12 DEF CrashInProjection
<1>13. CASE UNCHANGED vars
  BY <1>3, <1>13 DEF vars
<1> QED
  BY <1>5, <1>6, <1>7, <1>8, <1>9, <1>10, <1>11, <1>12, <1>13 DEF Next

LEMMA ShapeStep ==
  ASSUME Base, OnlyPresence, [Next]_vars
  PROVE  Shape' /\ lines' \in Seq(LineTo(Spent'))
<1>1. /\ lines \in Seq(LineTo(Spent)) /\ Spent \in Nat /\ Spent' \in Nat /\ Spent <= Spent'
      /\ mem \in BoardTo(Spent)
  BY SpentGrows DEF Base, Contents
<1>2. /\ Len(lines) \in Nat /\ BloatLines \in Nat \ {0} /\ SnapshotFirst(lines)
      /\ Len(lines) <= BloatLines + 1
      /\ open => lines # <<>>
      /\ pc = "append" => Len(lines) <= BloatLines
  BY <1>1, LenProperties, BoundAssumption DEF Base, Shape
<1>3. /\ \A ls \in Seq(LineTo(Spent)) : ls \in Seq(LineTo(Spent'))
      /\ BoardTo(Spent) \subseteq BoardTo(Spent')
  BY <1>1, MoreOK
<1>4. pc' = "append" => pc = "append" \/ (pc = "tidy" /\ MaybeCompact(mem))
  BY DEF Next, vars, Acquire, ReadEvents, LoadHot, LoadCold, LoadFails, Tidy, Squeeze, AppendEvent,
         WriteProjection, Settle, Reply, CrashBetween, CrashInLine, CrashBeforeNewline,
         CrashInRepair, CrashInProjection, Dies
<1>5. pc' = "append" => Len(lines') <= BloatLines
  <2>1. CASE pc = "append" /\ pc' = "append"
    <3>1. lines' = lines
      BY <2>1 DEF Next, vars, Acquire, ReadEvents, LoadHot, LoadCold, LoadFails, Tidy, Squeeze,
         AppendEvent, WriteProjection, Settle, Reply, CrashBetween, CrashInLine,
         CrashBeforeNewline, CrashInRepair, CrashInProjection, Dies, Loading
    <3> QED
      BY <1>2, <2>1, <3>1
  <2>2. CASE MaybeCompact(mem)
    BY <1>1, <2>2, CompactBounds DEF Base
  <2> QED
    BY <1>4, <2>1, <2>2
<1>6. CASE Shortened
  <2>1. PICK k \in 0 .. Len(lines) : lines' = SubSeq(lines, 1, k)
    BY <1>6 DEF Shortened
  <2>2. /\ SubSeq(lines, 1, k) \in Seq(LineTo(Spent)) /\ Len(SubSeq(lines, 1, k)) = k
        /\ SnapshotFirst(SubSeq(lines, 1, k))
    BY <1>1, <1>2, BeginningOK
  <2>3. Len(lines') <= BloatLines + 1
    BY <1>2, <2>1, <2>2
  <2>4. open' => lines' # <<>>
    BY <1>2, <1>6 DEF Shortened
  <2> QED
    BY <1>3, <1>5, <2>1, <2>2, <2>3, <2>4 DEF Shape, SnapshotFirst
<1>7. CASE Squeezed
  <2>1. /\ <<Snapshot(mem)>> \in Seq(LineTo(Spent)) /\ SnapshotFirst(<<Snapshot(mem)>>)
        /\ Len(<<Snapshot(mem)>>) = 1
    BY <1>1, SnapshotOK
  <2>2. lines' = <<Snapshot(mem)>> /\ ~ open'
    BY <1>7 DEF Squeezed
  <2>3. Len(lines') <= BloatLines + 1
    BY <1>2, <2>1, <2>2
  <2> QED
    BY <1>3, <1>5, <2>1, <2>2, <2>3 DEF Shape, SnapshotFirst
<1>8. ASSUME pc = "append", NEW l \in LineTo(Spent'), l.kind # "snapshot", lines' = Written(l)
      PROVE  Shape' /\ lines' \in Seq(LineTo(Spent'))
  <2>1. /\ ~ open => Written(l) = Append(lines, l)
        /\ open => /\ Len(lines) \in Nat \ {0}
                   /\ Written(l) = Append(SubSeq(lines, 1, Len(lines) - 1), BadLine)
    BY <1>1, WrittenOK DEF Base
  <2>2. PICK k \in 0 .. Len(lines), x \in LineTo(Spent') :
            x.kind # "snapshot" /\ lines' = Append(SubSeq(lines, 1, k), x)
    <3>1. CASE ~ open
      <4>1. Len(lines) \in 0 .. Len(lines) /\ SubSeq(lines, 1, Len(lines)) = lines
        BY <1>1, <1>2, SubSeqFull
      <4> QED
        BY <1>8, <2>1, <3>1, <4>1
    <3>2. CASE open
      <4>1. Len(lines) - 1 \in 0 .. Len(lines)
        BY <2>1, <3>2
      <4>2. BadLine \in LineTo(Spent') /\ BadLine.kind # "snapshot"
        BY <1>1, EmptyOK DEF BadLine
      <4> QED
        BY <1>8, <2>1, <3>2, <4>1, <4>2
    <3> QED
      BY <3>1, <3>2
  <2> DEFINE ms == SubSeq(lines, 1, k)
  <2>3. ms \in Seq(LineTo(Spent')) /\ Len(ms) = k /\ SnapshotFirst(ms)
    BY <1>1, <1>2, <1>3, BeginningOK
  <2>4. lines' = Append(ms, x)
    BY <2>2
  <2> HIDE DEF ms
  <2>5. /\ Append(ms, x) \in Seq(LineTo(Spent'))
        /\ Append(ms, x) # <<>>
        /\ Len(Append(ms, x)) = Len(ms) + 1
        /\ \A i \in 1 .. Len(ms) : Append(ms, x)[i] = ms[i]
        /\ Append(ms, x)[Len(ms) + 1] = x
    BY <2>3, AppendProperties
  <2>6. Len(lines') <= BloatLines + 1 /\ lines' # <<>>
    BY <1>2, <1>8, <2>3, <2>4, <2>5
  <2>7. SnapshotFirst(lines')
    <3> SUFFICES ASSUME NEW i \in 1 .. Len(lines'), lines'[i].kind = "snapshot"
                 PROVE  i = 1
      BY DEF SnapshotFirst
    <3>1. k \in Nat /\ Len(lines') = k + 1
      BY <1>2, <2>3, <2>4, <2>5
    <3>2. i # k + 1
      BY <2>2, <2>3, <2>4, <2>5
    <3>3. i \in 1 .. k
      BY <3>1, <3>2
    <3> QED
      BY <2>3, <2>4, <2>5, <3>3 DEF SnapshotFirst
  <2> QED
    BY <1>5, <2>4, <2>5, <2>6, <2>7 DEF Shape, SnapshotFirst
<1>9. CASE pc = "append" /\ lines' = Written(BadLine)
  <2>1. BadLine \in LineTo(Spent') /\ BadLine.kind # "snapshot"
    BY <1>1, EmptyOK DEF BadLine
  <2> QED
    BY <1>8, <1>9, <2>1
<1>10. CASE (AppendEvent \/ CrashBeforeNewline) /\ lines' = Written(NewLine)
  <2>1. pc = "append"
    BY <1>10 DEF AppendEvent, CrashBeforeNewline
  <2>2. NewLine \in LineTo(Spent') /\ NewLine.kind # "snapshot"
    BY <1>10, <2>1, NewLineOK, SpentGrows
  <2> QED
    BY <1>8, <1>10, <2>1, <2>2
<1> QED
  BY <1>6, <1>7, <1>9, <1>10, LinesStep

LEMMA ContentsStep ==
  ASSUME Base, OnlyPresence, [Next]_vars
  PROVE  Contents'
<1>1. /\ lines \in Seq(LineTo(Spent)) /\ Spent \in Nat /\ Spent' \in Nat /\ Spent <= Spent'
      /\ mem \in BoardTo(Spent) /\ projection \in BoardTo(Spent) \cup {Missing, Garbled}
      /\ pc \in {"project", "settle", "reply"} => mem.seq >= 1
      /\ acked \subseteq [op : Op, seq : 1 .. MaxOps]
      /\ tried \in Nat /\ Spent <= tried /\ tried <= MaxOps /\ MaxOps \in Nat
  BY SpentGrows, SpentOK, BoundAssumption DEF Base, Contents
<1>2. BoardTo(Spent) \subseteq BoardTo(Spent')
  BY <1>1, MoreOK
<1>3. lines' \in Seq(LineTo(Spent'))
  BY ShapeStep
<1>4. mem' \in BoardTo(Spent')
  <2>1. CASE LoadHot
    BY <1>1, <1>2, <2>1 DEF LoadHot, Trusted
  <2>2. CASE LoadCold
    <3>1. Repaired \in Seq(LineTo(Spent))
      BY <1>1, RepairedOK
    <3>2. Replay(Repaired) \in BoardTo(Spent)
      BY <1>1, <3>1, UptoOK
    <3> QED
      BY <1>2, <2>2, <3>2 DEF LoadCold
  <2>3. CASE AppendEvent
    <3>1. Applied(mem, NewLine) \in BoardTo(tried) /\ Spent' = tried
      BY <2>3, NewLineOK, SpentGrows DEF AppendEvent
    <3> QED
      BY <2>3, <3>1 DEF AppendEvent
  <2>4. CASE ~ (LoadHot \/ LoadCold \/ AppendEvent)
    <3>1. mem' = mem
      BY <2>4 DEF Next, vars, Acquire, ReadEvents, LoadFails, Tidy, Squeeze, WriteProjection, Settle,
                  Reply, CrashBetween, CrashInLine, CrashBeforeNewline, CrashInRepair,
                  CrashInProjection, Dies
    <3> QED
      BY <1>1, <1>2, <3>1
  <2> QED
    BY <2>1, <2>2, <2>3, <2>4
<1>5. projection' \in BoardTo(Spent') \cup {Missing, Garbled}
  <2>1. projection' = projection \/ projection' = mem \/ projection' = mem' \/ projection' = Garbled
    BY DEF Next, vars, files, Acquire, ReadEvents, LoadHot, LoadCold, LoadFails, Tidy, Squeeze,
           AppendEvent, WriteProjection, Settle, Reply, CrashBetween, CrashInLine,
           CrashBeforeNewline, CrashInRepair, CrashInProjection, Dies
  <2> QED
    BY <1>1, <1>2, <1>4, <2>1
<1>6. pc' \in {"project", "settle", "reply"} => mem'.seq >= 1
  <2>1. CASE AppendEvent
    <3>1. mem' = [seq |-> mem.seq + 1, ops |-> mem.ops \o <<tried>>]
      BY <2>1, NewLineOK DEF AppendEvent
    <3>2. mem.seq \in Nat
      BY <1>1 DEF BoardTo
    <3> QED
      BY <3>1, <3>2
  <2>2. CASE ~ AppendEvent
    <3>1. pc' \in {"project", "settle", "reply"} =>
              pc \in {"project", "settle", "reply"} /\ mem' = mem
      <4>1. Tidy => pc' \in {"idle", "squeeze", "append"}
        BY DEF Tidy, AfterLoad
      <4> QED
        BY <2>2, <4>1 DEF Next, vars, files, Acquire, ReadEvents, LoadHot, LoadCold, LoadFails, Squeeze,
           WriteProjection, Settle, Reply, CrashBetween, CrashInLine,
           CrashBeforeNewline, CrashInRepair, CrashInProjection, Dies
    <3> QED
      BY <1>1, <3>1
  <2> QED
    BY <2>1, <2>2
<1>7. acked' \subseteq [op : Op, seq : 1 .. MaxOps]
  <2>1. CASE Reply
    <3>1. tried \in 1 .. MaxOps /\ mem.seq \in 1 .. MaxOps
      <4>1. goal \in Kinds /\ tried >= 1 /\ pc = "reply"
        BY <2>1 DEF Base, Control, Reply
      <4>2. mem.seq \in 0 .. Spent /\ mem.seq >= 1
        BY <1>1, <4>1 DEF BoardTo
      <4> QED
        BY <1>1, <4>1, <4>2
    <3> QED
      BY <1>1, <2>1, <3>1 DEF Reply, Op
  <2>2. CASE ~ Reply
    <3>1. acked' = acked
      BY <2>2 DEF Next, vars, files, Acquire, ReadEvents, LoadHot, LoadCold, LoadFails, Tidy, Squeeze,
           AppendEvent, WriteProjection, Settle, CrashBetween, CrashInLine,
           CrashBeforeNewline, CrashInRepair, CrashInProjection, Dies
    <3> QED
      BY <1>1, <3>1
  <2> QED
    BY <2>1, <2>2
<1> QED
  BY <1>3, <1>4, <1>5, <1>6, <1>7 DEF Contents

LEMMA BaseInit ==
  ASSUME Init, OnlyPresence
  PROVE  Base
<1>1. Control
  BY ControlInit
<1>2. BloatLines \in Nat
  BY BoundAssumption
<1>3. Spent \in Nat
  BY <1>1, SpentOK
<1>4. /\ lines = <<>> /\ open = FALSE /\ pc = "idle" /\ mem = Empty /\ acked = {}
      /\ projection = Missing
  BY DEF Init
<1>5. <<>> \in Seq(LineTo(Spent)) /\ Len(<<>>) = 0
  BY EmptySeq
<1>6. Contents
  BY <1>3, <1>4, <1>5, EmptyOK DEF Contents
<1>7. Shape
  BY <1>2, <1>4, <1>5 DEF Shape, SnapshotFirst
<1> QED
  BY <1>1, <1>6, <1>7 DEF Base

LEMMA BaseStep ==
  ASSUME Base, OnlyPresence, [Next]_vars
  PROVE  Base'
  BY ControlStep, ContentsStep, ShapeStep DEF Base

\* However processes die, with whole writes or torn ones, the journal is never
\* longer than the size at which it is compacted and one line.
THEOREM JournalIsBounded ==
  ASSUME OnlyPresence
  PROVE  Spec => []JournalStaysBounded
<1>1. Init => Base
  BY BaseInit
<1>2. Base /\ [Next]_vars => Base'
  BY BaseStep
<1>3. Base => JournalStaysBounded
  BY DEF Base, Shape, JournalStaysBounded
<1> QED
  BY <1>1, <1>2, <1>3, PTL DEF Spec

\* Types of the files, the lock holder and the answers.
THEOREM JournalIsTyped ==
  ASSUME OnlyPresence
  PROVE  Spec => []TypeOK
<1>1. Init => Base
  BY BaseInit
<1>2. Base /\ [Next]_vars => Base'
  BY BaseStep
<1>3. Base => TypeOK
  <2> SUFFICES ASSUME Base PROVE TypeOK
    OBVIOUS
  <2>1. /\ Control /\ Contents /\ Spent \in Nat /\ Spent <= MaxOps /\ MaxOps \in Nat
        /\ tried \in 0 .. MaxOps
    BY SpentOK, BoundAssumption DEF Base, Control
  <2>2. LineTo(MaxOps) = Line /\ BoardTo(MaxOps) = State
    BY DEF LineTo, BoardTo, Line, State, Op, OnlyPresence
  <2>3. BoardTo(Spent) \subseteq State /\ \A ls \in Seq(LineTo(Spent)) : ls \in Seq(Line)
    BY <2>1, <2>2, MoreOK
  <2> QED
    BY <2>1, <2>3 DEF Control, Contents, TypeOK
<1> QED
  BY <1>1, <1>2, <1>3, PTL DEF Spec

-----------------------------------------------------------------------------
(* Why comparing two numbers is enough.                                     *)

NoProjection == {Missing, Garbled}

\* Every beginning of the journal with the projection's number makes the projection.
\* What is about to become the projection is the newest board there is.
Order ==
    /\ Climbs(lines)
    /\ projection \notin NoProjection => Agrees(lines, projection)
    /\ pc \in {"tidy", "squeeze", "append"} =>
         /\ mem = Replay(lines)
         /\ projection \notin NoProjection => projection.seq <= mem.seq
    /\ pc = "project" => AtMost(lines, mem)
    /\ pc = "settle" => projection = mem

\* Without torn writes the journal makes what is in memory, and every commit in
\* it has a number of its own.
Whole ==
    WritesAreWhole =>
      /\ ~ open
      /\ projection \notin NoProjection => projection.seq <= Replay(lines).seq
      /\ Len(Replay(lines).ops) = Replay(lines).seq
      /\ pc \in {"project", "settle", "reply"} =>
           mem = Replay(lines) /\ mem.ops[mem.seq] = tried

IInv == Base /\ Order /\ Whole

\* A disk that loses a rewritten projection unnoticed tears no writes.
FaultsApart == \A f \in FaultSets : "rebuilt" \in f => f \subseteq {"rebuilt"}

LEMMA TrustedIsReplayed ==
  ASSUME Base, OnlyPresence, Order, Trusted
  PROVE  projection = Replay(lines)
<1>1. lines \in Seq(LineTo(Spent)) /\ Spent \in Nat
  BY SpentOK DEF Base, Contents
<1>2. Tip(lines) = Replay(lines).seq
  BY <1>1, TipIsReplayed
<1>3. Upto(lines, Len(lines)) = Replay(lines) /\ Len(lines) \in 0 .. Len(lines)
  BY <1>1, UptoStep, LenProperties
<1>4. Agrees(lines, projection) /\ Tip(lines) = projection.seq
  BY DEF Order, Trusted, NoProjection
<1> QED
  BY <1>2, <1>3, <1>4 DEF Agrees

\* A board without a number is the empty one.
LEMMA NumberZero ==
  ASSUME Base, OnlyPresence, Order, pc \in {"tidy", "squeeze", "settle"}, mem.seq = 0
  PROVE  mem = Empty
<1>1. lines \in Seq(LineTo(Spent)) /\ Spent \in Nat
  BY SpentOK DEF Base, Contents
<1>2. pc \in {"tidy", "squeeze"} /\ mem = Replay(lines)
  BY DEF Base, Contents, Order
<1>3. /\ Upto(lines, Len(lines)) = Replay(lines) /\ Upto(lines, 0) = Empty
      /\ Len(lines) \in 0 .. Len(lines) /\ 0 \in 0 .. Len(lines)
  BY <1>1, UptoStep, LenProperties
<1>4. Empty.seq = 0
  BY DEF Empty
<1> QED
  BY <1>2, <1>3, <1>4 DEF Order, Climbs

\* What the line written behind an open one leaves: a beginning of the journal.
LEMMA WrittenBehind ==
  ASSUME Base, OnlyPresence, open, NEW l
  PROVE  \E k \in 0 .. Len(lines) : Written(l) = Append(SubSeq(lines, 1, k), BadLine)
<1>1. lines \in Seq(LineTo(Spent)) /\ Spent \in Nat
  BY SpentOK DEF Base, Contents
<1>2. /\ Len(lines) \in Nat \ {0}
      /\ Written(l) = Append(SubSeq(lines, 1, Len(lines) - 1), BadLine)
  BY <1>1, WrittenOK DEF Base
<1>3. Len(lines) - 1 \in 0 .. Len(lines)
  BY <1>2
<1> QED
  BY <1>2, <1>3

\* What was true of the journal's beginnings stays true of them.
LEMMA JournalStep ==
  ASSUME Base, OnlyPresence, Order, [Next]_vars
  PROVE  /\ Climbs(lines')
         /\ projection \notin NoProjection => Agrees(lines', projection)
<1>1. /\ lines \in Seq(LineTo(Spent)) /\ Spent \in Nat /\ Spent' \in Nat /\ Spent <= Spent'
      /\ mem \in BoardTo(Spent) /\ mem.seq \in Nat
      /\ Climbs(lines)
      /\ open \in BOOLEAN
  BY SpentGrows DEF Base, Control, Contents, Order, BoardTo
<1>2. lines \in Seq(LineTo(Spent'))
  BY <1>1, MoreOK
<1>3. CASE Shortened
  <2>1. PICK k \in 0 .. Len(lines) : lines' = SubSeq(lines, 1, k)
    BY <1>3 DEF Shortened
  <2> QED
    BY <1>1, <2>1, BeginningOK DEF Order
<1>4. CASE pc \in {"tidy", "settle", "squeeze"} /\ Squeezed
  <2>1. mem.seq = 0 => mem = Empty
    BY <1>4, NumberZero
  <2>2. lines' = <<Snapshot(mem)>>
    BY <1>4 DEF Squeezed
  <2>3. Climbs(lines')
    BY <1>1, <2>1, <2>2, SnapshotOK
  <2>4. ASSUME projection \notin NoProjection PROVE Agrees(lines', projection)
    <3>1. Agrees(lines, projection)
      BY <2>4 DEF Order
    <3>2. /\ Upto(lines, Len(lines)) = Replay(lines) /\ Upto(lines, 0) = Empty
          /\ Len(lines) \in 0 .. Len(lines) /\ 0 \in 0 .. Len(lines)
      BY <1>1, UptoStep, LenProperties
    <3>3. projection.seq = 0 => projection = Empty
      BY <3>1, <3>2 DEF Agrees, Empty
    <3>4. projection.seq = mem.seq => projection = mem
      BY <1>4, <3>1, <3>2 DEF Agrees, Order
    <3> QED
      BY <1>1, <2>2, <3>3, <3>4, SnapshotOK
  <2> QED
    BY <2>3, <2>4
<1>5. ASSUME NEW k \in 0 .. Len(lines), lines' = Append(SubSeq(lines, 1, k), BadLine)
      PROVE  /\ Climbs(lines')
             /\ projection \notin NoProjection => Agrees(lines', projection)
  <2> DEFINE ms == SubSeq(lines, 1, k)
  <2>1. /\ ms \in Seq(LineTo(Spent)) /\ Climbs(ms)
        /\ projection \notin NoProjection => Agrees(ms, projection)
    BY <1>1, BeginningOK DEF Order
  <2>2. lines' = Append(ms, BadLine)
    BY <1>5
  <2> HIDE DEF ms
  <2> QED
    BY <1>1, <2>1, <2>2, BadLineMore
<1>6. ASSUME NEW l, open, lines' = Written(l)
      PROVE  /\ Climbs(lines')
             /\ projection \notin NoProjection => Agrees(lines', projection)
  <2>1. PICK k \in 0 .. Len(lines) : Written(l) = Append(SubSeq(lines, 1, k), BadLine)
    BY <1>6, WrittenBehind
  <2> QED
    BY <1>5, <1>6, <2>1
<1>7. CASE pc = "append" /\ lines' = Written(BadLine)
  <2>1. CASE open
    BY <1>6, <1>7, <2>1
  <2>2. CASE ~ open
    <3>1. lines' = Append(lines, BadLine)
      BY <1>7, <2>2 DEF Written
    <3> QED
      BY <1>1, <3>1, BadLineMore DEF Order
  <2> QED
    BY <2>1, <2>2
<1>8. CASE (AppendEvent \/ CrashBeforeNewline) /\ lines' = Written(NewLine)
  <2>1. pc = "append"
    BY <1>8 DEF AppendEvent, CrashBeforeNewline
  <2>2. CASE open
    BY <1>6, <1>8, <2>2
  <2>3. CASE ~ open
    <3>1. lines' = Append(lines, NewLine)
      BY <1>8, <2>3 DEF Written
    <3>2. /\ NewLine \in LineTo(Spent') /\ NewLine.kind = "presence"
          /\ NewLine.seq = mem.seq + 1
      BY <1>8, <2>1, NewLineOK, SpentGrows
    <3>3. mem = Replay(lines) /\ (projection \notin NoProjection => projection.seq <= mem.seq)
      BY <2>1 DEF Order
    <3>4. Replay(lines).seq < NewLine.seq
      BY <1>1, <3>2, <3>3
    <3>5. projection \notin NoProjection => projection.seq # NewLine.seq
      <4> SUFFICES ASSUME projection \notin NoProjection PROVE projection.seq # NewLine.seq
        OBVIOUS
      <4>1. projection.seq \in Nat
        BY DEF Base, Contents, BoardTo, NoProjection
      <4> QED
        BY <1>1, <3>2, <3>3, <4>1
    <3> QED
      BY <1>1, <1>2, <3>1, <3>2, <3>4, <3>5, CommitMore DEF Order
  <2> QED
    BY <1>1, <2>2, <2>3
<1> QED
  BY <1>3, <1>4, <1>7, <1>8, LinesStep

\* What becomes the projection agrees with the journal it is written beside.
LEMMA ProjectionStep ==
  ASSUME Base, OnlyPresence, Order, [Next]_vars, projection' \notin NoProjection
  PROVE  Agrees(lines', projection')
<1>1. /\ lines \in Seq(LineTo(Spent)) /\ Spent \in Nat /\ mem \in BoardTo(Spent) /\ Climbs(lines)
  BY SpentOK DEF Base, Contents, Order
<1>2. CASE projection' = projection
  BY <1>2, JournalStep
<1>3. CASE LoadCold /\ projection' = mem'
  <2>1. lines' = Repaired /\ mem' = Replay(lines)
    BY <1>1, <1>3, RepairedOK DEF LoadCold, Repair
  <2>2. PICK k \in 0 .. Len(lines) : Repaired = SubSeq(lines, 1, k)
    BY <1>1, RepairedOK
  <2>3. Agrees(lines, mem')
    BY <1>1, <2>1, ReplayIsAtMost DEF AtMost
  <2> QED
    BY <1>1, <1>3, <2>1, <2>2, <2>3, BeginningOK
<1>4. CASE WriteProjection
  BY <1>4 DEF WriteProjection, Order, AtMost
<1>5. CASE Squeeze
  <2>1. projection' = mem /\ pc = "squeeze"
    BY <1>5 DEF Squeeze
  <2>2. lines' = <<Snapshot(mem)>>
    <3>1. Repaired \in Seq(LineTo(Spent))
      BY <1>1, RepairedOK
    <3> QED
      BY <1>1, <1>5, <3>1, CompactedIsSnapshot DEF Squeeze
  <2>3. mem.seq = 0 => mem = Empty
    BY <2>1, NumberZero
  <2> QED
    BY <1>1, <2>1, <2>2, <2>3, SnapshotOK
<1>6. projection' = projection \/ (LoadCold /\ projection' = mem') \/ WriteProjection \/ Squeeze
  BY DEF Next, vars, files, Acquire, ReadEvents, LoadHot, LoadCold, LoadFails, Tidy, NoProjection,
         AppendEvent, Settle, Reply, CrashBetween, CrashInLine,
         CrashBeforeNewline, CrashInRepair, CrashInProjection, Dies
<1> QED
  BY <1>2, <1>3, <1>4, <1>5, <1>6

\* What is about to be written to it is the newest board.
LEMMA CommittedIsNewest ==
  ASSUME Base, OnlyPresence, Order, AppendEvent
  PROVE  AtMost(lines', mem')
<1>1. /\ lines \in Seq(LineTo(tried)) /\ tried \in Nat /\ Climbs(lines)
      /\ pc = "append" /\ mem = Replay(lines) /\ mem.seq \in Nat /\ open \in BOOLEAN
      /\ mem' = Applied(mem, NewLine) /\ lines' = Written(NewLine)
  BY SpentOK, MoreOK DEF Base, Control, Contents, Order, BoardTo, AppendEvent
<1>2. /\ NewLine \in LineTo(tried) /\ NewLine.kind = "presence" /\ NewLine.seq = mem.seq + 1
      /\ mem'.seq = mem.seq + 1
  BY <1>1, NewLineOK
<1>3. CASE ~ open
  <2>1. lines' = Append(lines, NewLine)
    BY <1>1, <1>3 DEF Written
  <2>2. Replay(lines).seq < NewLine.seq
    BY <1>1, <1>2
  <2>3. AtMost(Append(lines, NewLine), Applied(Replay(lines), NewLine))
    BY <1>1, <1>2, <2>2, CommitMore
  <2> QED
    BY <1>1, <2>1, <2>3
<1>4. CASE open
  <2>1. PICK k \in 0 .. Len(lines) : Written(NewLine) = Append(SubSeq(lines, 1, k), BadLine)
    BY <1>4, WrittenBehind
  <2> DEFINE ms == SubSeq(lines, 1, k)
  <2>2. /\ ms \in Seq(LineTo(tried)) /\ Len(ms) = k
        /\ \A m \in 0 .. k : Upto(ms, m) = Upto(lines, m)
    BY <1>1, BeginningOK
  <2>3. \A m \in 0 .. Len(lines) : Upto(lines, m).seq <= mem.seq
    BY <1>1, ReplayIsAtMost DEF AtMost
  <2>4. Len(lines) \in Nat /\ \A m \in 0 .. Len(lines) : Upto(lines, m) \in BoardTo(tried)
    BY <1>1, LenProperties, UptoOK
  <2>5. \A m \in 0 .. Len(lines) : Upto(lines, m).seq \in Nat
    BY <1>1, <2>4 DEF BoardTo
  <2>6. \A m \in 0 .. k : Upto(lines, m).seq < mem'.seq
    <3> TAKE m \in 0 .. k
    <3>1. m \in 0 .. Len(lines)
      BY <2>4
    <3>2. Upto(lines, m).seq <= mem.seq /\ Upto(lines, m).seq \in Nat
      BY <2>3, <2>5, <3>1
    <3> QED
      BY <1>1, <1>2, <3>2
  <2>7. \A m \in 0 .. Len(ms) : Upto(ms, m).seq < mem'.seq /\ Upto(ms, m).seq \in Nat
    <3> TAKE m \in 0 .. Len(ms)
    <3>1. m \in 0 .. k /\ m \in 0 .. Len(lines)
      BY <2>2, <2>4
    <3>2. Upto(ms, m) = Upto(lines, m)
      BY <2>2, <3>1
    <3> HIDE DEF ms
    <3> QED
      BY <2>5, <2>6, <3>1, <3>2
  <2> HIDE DEF ms
  <2>8. mem'.seq \in Nat
    BY <1>1, <1>2
  <2>9. AtMost(ms, mem')
    <3>1. \A i, j \in Nat : i < j => i # j /\ i <= j
      OBVIOUS
    <3> QED
      BY <2>7, <2>8, <3>1 DEF AtMost, Agrees
  <2>10. lines' = Append(ms, BadLine)
    BY <1>1, <2>1 DEF ms
  <2> QED
    BY <1>1, <2>2, <2>9, <2>10, BadLineMore
<1> QED
  BY <1>1, <1>3, <1>4

\* A look at the journal keeps what it makes, when that is in memory.
LEMMA CompactKeepsReplay ==
  ASSUME Base, OnlyPresence, mem = Replay(lines), MaybeCompact(mem)
  PROVE  Replay(lines') = Replay(lines)
<1>1. /\ lines \in Seq(LineTo(Spent)) /\ Spent \in Nat /\ mem \in BoardTo(Spent)
      /\ open \in BOOLEAN
  BY SpentOK DEF Base, Control, Contents
<1>2. lines' = lines \/ lines' = Repaired \/ lines' = <<Snapshot(mem)>>
  BY <1>1, CompactCases DEF Repair
<1>3. Replay(Repaired) = Replay(lines) /\ Replay(<<Snapshot(mem)>>) = mem
  BY <1>1, RepairedOK, SnapshotOK
<1> QED
  BY <1>2, <1>3

\* Without torn writes only a commit changes what the journal makes.
LEMMA WholeReplay ==
  ASSUME Base, OnlyPresence, Order, Whole, [Next]_vars, WritesAreWhole
  PROVE  /\ ~ open'
         /\ AppendEvent => /\ pc = "append" /\ mem = Replay(lines)
                           /\ mem' = Applied(mem, NewLine)
                           /\ Replay(lines') = mem'
         /\ ~ AppendEvent => Replay(lines') = Replay(lines)
<1>1. /\ lines \in Seq(LineTo(Spent)) /\ Spent \in Nat /\ mem \in BoardTo(Spent)
      /\ ~ open
  BY SpentOK DEF Base, Contents, Whole
<1>2. Replay(Repaired) = Replay(lines) /\ Repaired \in Seq(LineTo(Spent))
  BY <1>1, RepairedOK
<1>3. CASE AppendEvent
  <2>1. /\ pc = "append" /\ mem = Replay(lines) /\ ~ open'
        /\ mem' = Applied(mem, NewLine) /\ lines' = Append(lines, NewLine)
    BY <1>1, <1>3 DEF AppendEvent, Order, Written
  <2>2. NewLine \in LineTo(tried) /\ lines \in Seq(LineTo(tried)) /\ tried \in Nat
    BY <1>1, <2>1, NewLineOK, SpentOK, MoreOK DEF Base
  <2>3. Replay(Append(lines, NewLine)) = Applied(Replay(lines), NewLine)
    BY <2>2, OneMore
  <2> QED
    BY <1>3, <2>1, <2>3
<1>4. CASE Tidy \/ Settle
  <2>1. mem = Replay(lines) /\ MaybeCompact(mem)
    BY <1>4 DEF Tidy, Settle, Order, Whole
  <2>2. Replay(lines') = Replay(lines)
    BY <2>1, CompactKeepsReplay
  <2>3. ~ open'
    BY <1>1, <2>1 DEF MaybeCompact, Repair
  <2>4. ~ AppendEvent
    BY <1>4 DEF Tidy, Settle, AppendEvent
  <2> QED
    BY <2>2, <2>3, <2>4
<1>5. CASE Squeeze
  <2>1. lines' = <<Snapshot(mem)>> /\ mem = Replay(lines) /\ ~ open'
    BY <1>2, <1>5, <1>1, CompactedIsSnapshot DEF Squeeze, Order
  <2>2. Replay(lines') = Replay(lines)
    BY <1>1, <2>1, SnapshotOK
  <2>3. ~ AppendEvent
    BY <1>5 DEF Squeeze, AppendEvent
  <2> QED
    BY <2>1, <2>2, <2>3
<1>6. CASE ~ (AppendEvent \/ Tidy \/ Settle \/ Squeeze)
  <2>1. ~ (CrashInLine \/ CrashBeforeNewline \/ CrashInRepair \/ CrashInProjection)
    BY DEF WritesAreWhole, CrashInLine, CrashBeforeNewline, CrashInRepair, CrashInProjection
  <2>2. (lines' = lines /\ open' = open) \/ Repair
    BY <1>6, <2>1 DEF Next, vars, files, Acquire, ReadEvents, LoadHot, LoadCold, LoadFails,
         WriteProjection, Reply, CrashBetween
  <2>3. ~ open'
    BY <1>1, <2>2 DEF Repair
  <2>4. Replay(lines') = Replay(lines)
    BY <1>2, <2>2 DEF Repair
  <2> QED
    BY <1>6, <2>3, <2>4
<1> QED
  BY <1>3, <1>4, <1>5, <1>6

LEMMA OrderStep ==
  ASSUME Base, OnlyPresence, FaultsApart, Order, Whole, [Next]_vars
  PROVE  Order'
<1>1. /\ lines \in Seq(LineTo(Spent)) /\ Spent \in Nat /\ mem \in BoardTo(Spent)
      /\ mem.seq \in Nat /\ projection \in BoardTo(Spent) \cup {Missing, Garbled}
  BY SpentOK DEF Base, Contents, BoardTo
<1>2. Climbs(lines')
  BY JournalStep
<1>3. projection' \notin NoProjection => Agrees(lines', projection')
  BY ProjectionStep
<1>4. ASSUME pc' \in {"tidy", "squeeze", "append"}
      PROVE  /\ mem' = Replay(lines')
             /\ projection' \notin NoProjection => projection'.seq <= mem'.seq
  <2>1. CASE LoadHot
    <3>1. lines' = lines /\ projection' = projection /\ mem' = projection /\ Trusted
      BY <2>1 DEF LoadHot, files
    <3>2. mem' = Replay(lines')
      BY <3>1, TrustedIsReplayed
    <3>3. projection \in BoardTo(Spent)
      BY <1>1, <3>1 DEF Trusted
    <3> QED
      BY <1>1, <3>1, <3>2, <3>3 DEF BoardTo
  <2>2. CASE LoadCold
    <3>1. /\ lines' = Repaired /\ mem' = Replay(Repaired)
          /\ projection' = mem' \/ ("rebuilt" \in faults /\ projection' = projection)
      BY <2>2 DEF LoadCold, Repair
    <3>2. mem' = Replay(lines') /\ mem' = Replay(lines)
      BY <1>1, <3>1, RepairedOK
    <3>3. mem' \in BoardTo(Spent)
      BY <1>1, <3>2, UptoOK
    <3>4. CASE projection' = mem'
      BY <1>1, <3>2, <3>3, <3>4 DEF BoardTo
    <3>5. CASE "rebuilt" \in faults /\ projection' = projection
      <4>1. WritesAreWhole
        BY <3>5 DEF FaultsApart, WritesAreWhole, Base, Control
      <4> QED
        BY <3>2, <3>5, <4>1 DEF Whole
    <3> QED
      BY <3>1, <3>4, <3>5
  <2>3. CASE Tidy
    <3>1. /\ mem = Replay(lines) /\ MaybeCompact(mem) /\ mem' = mem /\ projection' = projection
          /\ projection \notin NoProjection => projection.seq <= mem.seq
      BY <2>3 DEF Tidy, Order
    <3> QED
      BY <3>1, CompactKeepsReplay
  <2>4. CASE ~ (LoadHot \/ LoadCold \/ Tidy)
    <3>1. pc \in {"tidy", "squeeze", "append"} /\ mem' = mem /\ projection' = projection
          /\ lines' = lines
      BY <1>4, <2>4 DEF Next, vars, files, Acquire, ReadEvents, LoadFails, Squeeze, AppendEvent,
           WriteProjection, Settle, Reply, CrashBetween, CrashInLine, CrashBeforeNewline,
           CrashInRepair, CrashInProjection, Dies
    <3> QED
      BY <3>1 DEF Order
  <2> QED
    BY <2>1, <2>2, <2>3, <2>4
<1>5. ASSUME pc' = "project" PROVE AtMost(lines', mem')
  <2>1. CASE AppendEvent
    BY <2>1, CommittedIsNewest
  <2>2. CASE ~ AppendEvent
    <3>0. Tidy => pc' # "project"
      BY DEF Tidy, AfterLoad
    <3>1. pc = "project" /\ lines' = lines /\ mem' = mem
      BY <1>5, <2>2, <3>0 DEF Next, vars, files, Acquire, ReadEvents, LoadHot, LoadCold, LoadFails,
           Squeeze, WriteProjection, Settle, Reply, CrashBetween, CrashInLine,
           CrashBeforeNewline, CrashInRepair, CrashInProjection, Dies
    <3> QED
      BY <3>1 DEF Order
  <2> QED
    BY <2>1, <2>2
<1>6. ASSUME pc' = "settle" PROVE projection' = mem'
  <2>1. CASE WriteProjection
    BY <2>1 DEF WriteProjection
  <2>2. CASE ~ WriteProjection
    <3>0. Tidy => pc' # "settle"
      BY DEF Tidy, AfterLoad
    <3>1. pc = "settle" /\ projection' = projection /\ mem' = mem
      BY <1>6, <2>2, <3>0 DEF Next, vars, files, Acquire, ReadEvents, LoadHot, LoadCold, LoadFails,
           Squeeze, AppendEvent, Settle, Reply, CrashBetween, CrashInLine,
           CrashBeforeNewline, CrashInRepair, CrashInProjection, Dies
    <3> QED
      BY <3>1 DEF Order
  <2> QED
    BY <2>1, <2>2
<1> QED
  BY <1>2, <1>3, <1>4, <1>5, <1>6 DEF Order, NoProjection

LEMMA WholeStep ==
  ASSUME Base, OnlyPresence, Order, Whole, [Next]_vars
  PROVE  Whole'
<1>1. faults' = faults
  BY DEF Next, vars, Acquire, ReadEvents, LoadHot, LoadCold, LoadFails, Tidy, Squeeze, AppendEvent,
         WriteProjection, Settle, Reply, CrashBetween, CrashInLine, CrashBeforeNewline,
         CrashInRepair, CrashInProjection, Dies
<1>2. SUFFICES ASSUME WritesAreWhole
               PROVE  /\ ~ open'
                      /\ projection' \notin NoProjection => projection'.seq <= Replay(lines').seq
                      /\ Len(Replay(lines').ops) = Replay(lines').seq
                      /\ pc' \in {"project", "settle", "reply"} =>
                           mem' = Replay(lines') /\ mem'.ops[mem'.seq] = tried'
  BY <1>1 DEF Whole, WritesAreWhole, NoProjection
<1>3. /\ lines \in Seq(LineTo(Spent)) /\ Spent \in Nat /\ mem \in BoardTo(Spent)
      /\ mem.seq \in Nat /\ mem.ops \in Seq(1 .. Spent)
      /\ Replay(lines) \in BoardTo(Spent) /\ Replay(lines).seq \in Nat
      /\ projection \in BoardTo(Spent) \cup {Missing, Garbled}
      /\ projection \notin NoProjection => projection.seq <= Replay(lines).seq
      /\ Len(Replay(lines).ops) = Replay(lines).seq
  BY SpentOK, UptoOK, <1>2 DEF Base, Contents, BoardTo, Whole
<1>4. ~ open'
  BY <1>2, WholeReplay
<1>5. CASE AppendEvent
  <2>1. /\ pc = "append" /\ mem = Replay(lines) /\ Replay(lines') = mem'
        /\ mem' = Applied(mem, NewLine) /\ projection' = projection /\ tried' = tried
    BY <1>2, <1>5, WholeReplay DEF AppendEvent
  <2>2. mem' = [seq |-> mem.seq + 1, ops |-> mem.ops \o <<tried>>] /\ tried \in Nat
    BY <2>1, NewLineOK
  <2>3. mem.ops \in Seq(Nat) /\ <<tried>> \in Seq(Nat) /\ Len(<<tried>>) = 1 /\ <<tried>>[1] = tried
    <3>1. 1 .. Spent \subseteq Nat
      BY <1>3
    <3>2. mem.ops \in Seq(Nat)
      BY <1>3, <3>1, SeqMonotonic
    <3> QED
      BY <2>2, <3>2
  <2>4. Len(mem.ops \o <<tried>>) = Len(mem.ops) + 1
        /\ (mem.ops \o <<tried>>)[Len(mem.ops) + 1] = tried
    <3>1. Len(mem.ops) \in Nat
      BY <2>3, LenProperties
    <3>2. mem.ops \o <<tried>> = Append(mem.ops, tried)
      BY <2>2, <2>3, AppendIsConcat
    <3> QED
      BY <2>2, <2>3, <3>1, <3>2, AppendProperties
  <2>5. Len(mem'.ops) = mem'.seq /\ mem'.ops[mem'.seq] = tried
    <3>1. Len(mem.ops) = mem.seq
      BY <1>3, <2>1
    <3>2. mem'.ops = mem.ops \o <<tried>> /\ mem'.seq = mem.seq + 1
      BY <2>2
    <3> QED
      BY <2>4, <3>1, <3>2
  <2>6. projection' \notin NoProjection => projection'.seq <= mem'.seq
    <3> SUFFICES ASSUME projection \notin NoProjection PROVE projection.seq <= mem'.seq
      BY <2>1
    <3>1. projection.seq \in Nat
      BY <1>3 DEF BoardTo, NoProjection
    <3> QED
      BY <1>3, <2>1, <2>2, <3>1
  <2> QED
    BY <1>4, <2>1, <2>5, <2>6
<1>6. CASE ~ AppendEvent
  <2>1. Replay(lines') = Replay(lines)
    BY <1>2, <1>6, WholeReplay
  <2>2. pc' \in {"project", "settle", "reply"} =>
          /\ pc \in {"project", "settle", "reply"}
          /\ mem' = mem /\ tried' = tried
    <3>0. Tidy => pc' \in {"idle", "squeeze", "append"}
      BY DEF Tidy, AfterLoad
    <3> QED
      BY <1>6, <3>0 DEF Next, vars, files, Acquire, ReadEvents, LoadHot, LoadCold, LoadFails,
           Squeeze, WriteProjection, Settle, Reply, CrashBetween, CrashInLine,
           CrashBeforeNewline, CrashInRepair, CrashInProjection, Dies
  <2>3. pc' \in {"project", "settle", "reply"} =>
          mem' = Replay(lines') /\ mem'.ops[mem'.seq] = tried'
    BY <1>2, <2>1, <2>2 DEF Whole
  <2>4. projection' \in {projection, Garbled} \/ projection' = Replay(lines)
    <3>1. LoadCold => mem' = Replay(lines)
      BY <1>3, RepairedOK DEF LoadCold
    <3>2. Squeeze \/ WriteProjection => mem = Replay(lines)
      BY <1>2 DEF Squeeze, WriteProjection, Order, Whole
    <3> QED
      BY <1>6, <3>1, <3>2 DEF Next, vars, files, Acquire, ReadEvents, LoadHot, LoadCold, LoadFails,
           Tidy, Squeeze, WriteProjection, Settle, Reply, CrashBetween, CrashInLine,
           CrashBeforeNewline, CrashInRepair, CrashInProjection, Dies
  <2>5. projection' \notin NoProjection => projection'.seq <= Replay(lines').seq
    BY <1>3, <2>1, <2>4 DEF NoProjection
  <2> QED
    BY <1>3, <1>4, <2>1, <2>3, <2>5
<1> QED
  BY <1>5, <1>6

LEMMA IInvInit ==
  ASSUME Init, OnlyPresence
  PROVE  IInv
<1>1. /\ lines = <<>> /\ open = FALSE /\ pc = "idle" /\ projection = Missing
  BY DEF Init
<1>2. Base
  BY BaseInit
<1>3. lines \in Seq(LineTo(Spent)) /\ Len(lines) = 0
  BY <1>1, EmptySeq
<1>4. Upto(lines, 0) = Empty /\ Replay(lines) = Empty
  BY <1>3, UptoStep
<1>5. Empty.seq = 0 /\ Empty.ops = <<>> /\ Len(<<>>) = 0
  BY DEF Empty
<1>6. Climbs(lines)
  <2>1. \A n \in 0 .. 0 : \A m \in 0 .. n : n = 0 /\ m = 0
    OBVIOUS
  <2>2. 0 <= 0
    OBVIOUS
  <2> QED
    BY <1>3, <1>4, <1>5, <2>1, <2>2 DEF Climbs
<1>7. Order
  BY <1>1, <1>6 DEF Order, NoProjection
<1>8. Whole
  BY <1>1, <1>4, <1>5 DEF Whole, NoProjection
<1> QED
  BY <1>2, <1>7, <1>8 DEF IInv

LEMMA IInvStep ==
  ASSUME IInv, OnlyPresence, FaultsApart, [Next]_vars
  PROVE  IInv'
  BY BaseStep, OrderStep, WholeStep DEF IInv

\* After crashes in any write, repairs that were cut off and any compaction, a
\* projection whose number is the journal's last makes what the journal makes.
THEOREM ProjectionsAreSound ==
  ASSUME OnlyPresence, FaultsApart
  PROVE  Spec => []TrustIsSound
<1>1. Init => IInv
  BY IInvInit
<1>2. IInv /\ [Next]_vars => IInv'
  BY IInvStep
<1>3. IInv => TrustIsSound
  BY TrustedIsReplayed DEF IInv, TrustIsSound
<1> QED
  BY <1>1, <1>2, <1>3, PTL DEF Spec

-----------------------------------------------------------------------------
(* The files implement the store.                                           *)

LEMMA RecoveredIsReplayed ==
  ASSUME IInv, OnlyPresence
  PROVE  Recovered = Replay(lines)
<1>1. lines \in Seq(LineTo(Spent)) /\ Spent \in Nat /\ Base /\ Order
  BY SpentOK DEF IInv, Base, Contents
<1>2. Replay(Repaired) = Replay(lines)
  BY <1>1, RepairedOK
<1>3. Trusted => projection = Replay(lines)
  BY <1>1, TrustedIsReplayed
<1> QED
  BY <1>2, <1>3 DEF Recovered

LoadsReplay == Recovered = Replay(lines)

LEMMA StoreInit ==
  ASSUME Init, OnlyPresence
  PROVE  Store!Init
<1>1. IInv /\ acked = {} /\ lines = <<>>
  BY IInvInit DEF Init
<1>2. Recovered = Replay(lines)
  BY <1>1, RecoveredIsReplayed
<1>3. lines \in Seq({}) /\ Len(lines) = 0
  BY <1>1, EmptySeq
<1>4. Replay(lines) = Empty
  BY <1>3, UptoStep
<1>5. InForce = <<>>
  BY <1>2, <1>4 DEF InForce, Empty
<1>6. Answered = {}
  BY <1>1 DEF Answered
<1> QED
  BY <1>5, <1>6 DEF Store!Init

\* A commit takes effect when its line is whole, and is answered under the number
\* it has there.
LEMMA StoreStep ==
  ASSUME IInv, OnlyPresence, FaultsApart, [Next]_vars,
         LoadsReplay, LoadsReplay'
  PROVE  [Store!Next]_(Store!svars)
<1>0. Recovered = Replay(lines) /\ Recovered' = Replay(lines')
  BY DEF LoadsReplay
<1>1. /\ Base /\ Order /\ Whole
      /\ lines \in Seq(LineTo(Spent)) /\ Spent \in Nat /\ mem \in BoardTo(Spent)
  BY SpentOK DEF IInv, Base, Contents
<1>2. faults' = faults /\ (~ Reply => acked' = acked)
  BY DEF Next, vars, files, Acquire, ReadEvents, LoadHot, LoadCold, LoadFails, Tidy, Squeeze,
         AppendEvent, WriteProjection, Settle, Reply, CrashBetween, CrashInLine, CrashBeforeNewline,
         CrashInRepair, CrashInProjection, Dies
<1>3. CASE ~ WritesAreWhole
  <2>1. InForce = <<>> /\ InForce' = <<>> /\ Answered = {} /\ Answered' = {}
    BY <1>2, <1>3 DEF InForce, Answered, WritesAreWhole
  <2> QED
    BY <2>1 DEF Store!svars
<1>4. CASE WritesAreWhole
  <2>1. /\ InForce = Replay(lines).ops /\ InForce' = Replay(lines').ops
        /\ Answered = acked /\ Answered' = acked'
    BY <1>0, <1>2, <1>4 DEF InForce, Answered, WritesAreWhole
  <2>2. CASE AppendEvent
    <3>1. /\ pc = "append" /\ mem = Replay(lines) /\ mem' = Applied(mem, NewLine)
          /\ Replay(lines') = mem' /\ acked' = acked
      BY <1>1, <1>4, <2>2, WholeReplay DEF AppendEvent
    <3>2. /\ mem'.ops = mem.ops \o <<tried>> /\ Spent = tried - 1 /\ tried \in Nat /\ tried >= 1
      BY <1>1, <3>1, NewLineOK
    <3>3. mem.ops \in Seq(1 .. Spent)
      BY <1>1 DEF BoardTo
    <3>4. tried \notin Range(mem.ops)
      <4>1. Range(mem.ops) \subseteq 1 .. Spent
        BY <3>3, RangeOfSeq
      <4> QED
        BY <3>2, <4>1
    <3>5. mem.ops \o <<tried>> = Append(mem.ops, tried)
      <4>1. mem.ops \in Seq(Nat)
        <5>1. 1 .. Spent \subseteq Nat
          BY <1>1
        <5> QED
          BY <3>3, <5>1, SeqMonotonic
      <4> QED
        BY <3>2, <4>1, AppendIsConcat
    <3>6. tried \in Op
      BY <1>1, <3>2, BoundAssumption DEF Base, Control, Op
    <3>7. Store!TakeEffect(tried)
      <4>1. InForce = mem.ops /\ InForce' = Append(mem.ops, tried)
        BY <2>1, <3>1, <3>2, <3>5
      <4>2. Answered' = Answered
        BY <2>1, <3>1
      <4> QED
        BY <3>4, <4>1, <4>2 DEF Store!TakeEffect, Store!Range, Range
    <3> QED
      BY <3>6, <3>7 DEF Store!Next
  <2>3. CASE Reply
    <3>1. /\ Replay(lines') = Replay(lines) /\ mem = Replay(lines) /\ mem.ops[mem.seq] = tried
          /\ Len(mem.ops) = mem.seq /\ pc = "reply"
          /\ acked' = acked \cup {[op |-> tried, seq |-> mem.seq]}
      <4>1. ~ AppendEvent /\ pc = "reply"
        BY <2>3 DEF Reply, AppendEvent
      <4> QED
        BY <1>1, <1>4, <2>3, <4>1, WholeReplay DEF Whole, Reply
    <3>2. mem.seq \in DOMAIN mem.ops
      <4>1. DOMAIN mem.ops = 1 .. mem.seq
        BY <1>1, <3>1, LenProperties DEF BoardTo
      <4>2. mem.seq \in Nat /\ mem.seq >= 1
        BY <1>1, <3>1 DEF BoardTo, Base, Contents
      <4> QED
        BY <4>1, <4>2
    <3>3. tried \in Op
      <4>1. goal \in Kinds /\ tried >= 1 /\ tried \in 0 .. MaxOps
        BY <1>1, <3>1 DEF Base, Control
      <4> QED
        BY <4>1, BoundAssumption DEF Op
    <3>4. Store!Answer(tried, mem.seq)
      BY <2>1, <3>1, <3>2 DEF Store!Answer
    <3>5. mem.seq \in DOMAIN InForce
      BY <2>1, <3>1, <3>2
    <3> QED
      BY <3>3, <3>4, <3>5 DEF Store!Next
  <2>4. CASE ~ AppendEvent /\ ~ Reply
    <3>1. Replay(lines') = Replay(lines) /\ acked' = acked
      BY <1>1, <1>2, <1>4, <2>4, WholeReplay
    <3> QED
      BY <2>1, <3>1 DEF Store!svars
  <2> QED
    BY <2>2, <2>3, <2>4
<1> QED
  BY <1>3, <1>4

\* As long as a crash falls between writes, the two files implement the store,
\* although a rebuilt projection may be lost unnoticed and a commit is only in the
\* journal until the projection is written.
THEOREM FilesImplementStore ==
  ASSUME OnlyPresence, FaultsApart
  PROVE  Spec => ImplementsStore
<1>1. Init => IInv /\ Store!Init
  BY IInvInit, StoreInit
<1>2. IInv /\ [Next]_vars => IInv'
  BY IInvStep
<1>3. IInv => LoadsReplay
  BY RecoveredIsReplayed DEF LoadsReplay
<1>4. IInv /\ [Next]_vars /\ LoadsReplay /\ LoadsReplay' => [Store!Next]_(Store!svars)
  BY StoreStep
<1>5. Spec => []LoadsReplay /\ []IInv
  BY <1>1, <1>2, <1>3, PTL DEF Spec
<1> QED
  BY <1>1, <1>4, <1>5, PTL DEF Spec, ImplementsStore, Store!Spec

-----------------------------------------------------------------------------
(* What was answered stays: the fault that MCTornTail shows is the only kind *)
(* that takes it back.                                                       *)

NoTornWrites == \A f \in FaultSets : f \subseteq {"rebuilt"}

AnswersHold ==
    WritesAreWhole =>
      \A x \in acked : /\ x.seq \in DOMAIN Replay(lines).ops
                       /\ Replay(lines).ops[x.seq] = x.op

LEMMA AnswersStep ==
  ASSUME IInv, OnlyPresence, AnswersHold, [Next]_vars
  PROVE  AnswersHold'
<1>1. /\ Base /\ Order /\ Whole
      /\ lines \in Seq(LineTo(Spent)) /\ Spent \in Nat /\ mem \in BoardTo(Spent)
  BY SpentOK DEF IInv, Base, Contents
<1>2. faults' = faults /\ (~ Reply => acked' = acked)
  BY DEF Next, vars, files, Acquire, ReadEvents, LoadHot, LoadCold, LoadFails, Tidy, Squeeze,
         AppendEvent, WriteProjection, Settle, Reply, CrashBetween, CrashInLine, CrashBeforeNewline,
         CrashInRepair, CrashInProjection, Dies
<1>3. SUFFICES ASSUME WritesAreWhole, NEW x \in acked'
               PROVE  /\ x.seq \in DOMAIN Replay(lines').ops
                      /\ Replay(lines').ops[x.seq] = x.op
  BY <1>2 DEF AnswersHold, WritesAreWhole
<1>4. \A y \in acked : /\ y.seq \in DOMAIN Replay(lines).ops
                       /\ Replay(lines).ops[y.seq] = y.op
  BY <1>3 DEF AnswersHold
<1>5. CASE AppendEvent
  <2>1. /\ pc = "append" /\ mem = Replay(lines) /\ mem' = Applied(mem, NewLine)
        /\ Replay(lines') = mem' /\ acked' = acked
    BY <1>1, <1>3, <1>5, WholeReplay DEF AppendEvent
  <2>2. mem'.ops = mem.ops \o <<tried>> /\ tried \in Nat
    BY <1>1, <2>1, NewLineOK
  <2>3. mem.ops \in Seq(Nat)
    <3>1. 1 .. Spent \subseteq Nat /\ mem.ops \in Seq(1 .. Spent)
      BY <1>1 DEF BoardTo
    <3> QED
      BY <3>1, SeqMonotonic
  <2>4. x.seq \in DOMAIN mem.ops /\ mem.ops[x.seq] = x.op
    BY <1>4, <2>1
  <2>5. /\ Append(mem.ops, tried) \in Seq(Nat)
        /\ Len(Append(mem.ops, tried)) = Len(mem.ops) + 1
        /\ \A i \in 1 .. Len(mem.ops) : Append(mem.ops, tried)[i] = mem.ops[i]
        /\ mem.ops \o <<tried>> = Append(mem.ops, tried)
    BY <2>2, <2>3, AppendProperties, AppendIsConcat
  <2>6. DOMAIN mem.ops = 1 .. Len(mem.ops) /\ Len(mem.ops) \in Nat
        /\ DOMAIN Append(mem.ops, tried) = 1 .. Len(Append(mem.ops, tried))
    BY <2>3, <2>5, LenProperties
  <2> QED
    BY <2>1, <2>2, <2>4, <2>5, <2>6
<1>6. CASE ~ AppendEvent
  <2>1. Replay(lines') = Replay(lines)
    BY <1>1, <1>3, <1>6, WholeReplay
  <2>2. CASE x \in acked
    BY <1>4, <2>1, <2>2
  <2>3. CASE x \notin acked
    <3>1. Reply /\ x = [op |-> tried, seq |-> mem.seq] /\ pc = "reply"
      BY <1>2, <2>3 DEF Reply
    <3>2. mem = Replay(lines) /\ mem.ops[mem.seq] = tried /\ Len(mem.ops) = mem.seq
      BY <1>1, <1>3, <3>1 DEF Whole
    <3>3. mem.seq \in Nat /\ mem.seq >= 1 /\ DOMAIN mem.ops = 1 .. mem.seq
      BY <1>1, <3>1, <3>2, LenProperties DEF BoardTo, Base, Contents
    <3> QED
      BY <2>1, <3>1, <3>2, <3>3
  <2> QED
    BY <2>2, <2>3
<1> QED
  BY <1>5, <1>6

\* Nobody who was told a commit succeeded finds it gone, if no write is torn:
\* whatever dies between two writes, and whatever is compacted.
THEOREM AnsweredCommitsStay ==
  ASSUME OnlyPresence, NoTornWrites
  PROVE  Spec => []AckedSurvive
<1>1. FaultsApart
  BY DEF FaultsApart, NoTornWrites
<1>2. Init => IInv /\ AnswersHold
  BY IInvInit DEF Init, AnswersHold
<1>3. IInv /\ AnswersHold /\ [Next]_vars => IInv' /\ AnswersHold'
  BY <1>1, IInvStep, AnswersStep
<1>4. IInv /\ AnswersHold => AckedSurvive
  <2> SUFFICES ASSUME IInv, AnswersHold, NEW x \in acked
               PROVE  x.op \in Range(Recovered.ops)
    BY DEF AckedSurvive
  <2>1. WritesAreWhole
    BY DEF IInv, Base, Control, NoTornWrites, WritesAreWhole
  <2>2. Recovered = Replay(lines)
    BY RecoveredIsReplayed
  <2> QED
    BY <2>1, <2>2 DEF AnswersHold, Range
<1> QED
  BY <1>2, <1>3, <1>4, PTL DEF Spec
=============================================================================
