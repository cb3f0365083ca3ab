--------------------------- MODULE MtimeCacheProofs ---------------------------
(***************************************************************************)
(* Theorems about MtimeCache: for any number of processes and files, a hit *)
(* is never older than the file was when the lookup looked at it.  It rests *)
(* on the order of a lookup: the mtime is taken before the file is read, so *)
(* that an entry, wherever it is copied, holds a content at least as new as *)
(* the mtime it is kept under.                                             *)
(***************************************************************************)
EXTENDS MtimeCache, TLAPS

\* What was read is as new as the mtime that it is kept under.
Sound(e) == e # NoEntry => e.content # 0 /\ e.content >= e.mtime

EntriesAreSound ==
    /\ \A f \in File : Sound(saved[f])
    /\ \A p \in Reader, f \in File : Sound(memory[p][f])

\* Since the stat a file has only become newer, or gone.
LookIsSound(p) ==
    /\ look[p].step \in {"get", "read"} =>
         \A f \in look[p].of : file[f] = 0 \/ file[f] >= look[p].mtime
    /\ look[p].step = "put" => look[p].content # 0 /\ look[p].content >= look[p].mtime

\* The inductive invariant.
IInv ==
    /\ TypeOK /\ EntriesAreSound
    /\ \A f \in File : file[f] <= clock
    /\ \A p \in Reader : LookIsSound(p) /\ look[p].mtime <= clock

Cache == [File -> CacheEntry \cup {NoEntry}]
Look == [step: {"idle", "get", "read", "put"}, of: SUBSET File, mtime: Times, content: Times]

-----------------------------------------------------------------------------
(* The steps *)

LEMMA TouchStep ==
  ASSUME IInv, NEW f \in File, Touch(f)
  PROVE  IInv'
<1>1. clock \in Nat /\ clock' = clock + 1 /\ clock' \in Times
  BY CacheAssumption DEF IInv, TypeOK, Touch, Times
<1>2. PICK v \in {clock + 1, 0} : file' = [file EXCEPT ![f] = v]
  BY DEF Touch
<1>3. file' \in [File -> Times] /\ file'[f] = v /\ \A g \in File \ {f} : file'[g] = file[g]
  BY <1>1, <1>2, CacheAssumption DEF IInv, TypeOK, Times
<1>4. UNCHANGED <<saved, memory, loaded, look, answer>>
  BY DEF Touch
<1>5. TypeOK' /\ EntriesAreSound'
  BY <1>1, <1>3, <1>4 DEF IInv, TypeOK, EntriesAreSound, Sound
<1>6. \A g \in File : file[g] \in Nat /\ file[g] <= clock /\ file'[g] <= clock'
  BY <1>1, <1>3, CacheAssumption DEF IInv, TypeOK, Times
<1>7. ASSUME NEW p \in Reader PROVE LookIsSound(p)' /\ look'[p].mtime <= clock'
  <2>1. look[p] \in Look /\ LookIsSound(p) /\ look[p].mtime <= clock
    BY DEF IInv, TypeOK, Look
  <2>2. look[p].mtime \in Nat
    BY <2>1, CacheAssumption DEF Look, Times
  <2> QED
    BY <1>1, <1>3, <1>4, <1>6, <2>1, <2>2 DEF LookIsSound, Look
<1> QED
  BY <1>5, <1>6, <1>7 DEF IInv

LEMMA LoadStep ==
  ASSUME IInv, NEW p \in Reader, load_path(p)
  PROVE  IInv'
<1>1. PICK m \in {saved, Nobody} : memory' = [memory EXCEPT ![p] = m]
  BY DEF load_path
<1>2. m \in Cache /\ \A f \in File : Sound(m[f])
  BY <1>1 DEF IInv, TypeOK, EntriesAreSound, Cache, Nobody, Sound
<1>3. memory' \in [Reader -> Cache] /\ memory'[p] = m
      /\ \A q \in Reader \ {p} : memory'[q] = memory[q]
  BY <1>1, <1>2 DEF IInv, TypeOK, Cache
<1>4. UNCHANGED <<file, clock, saved, look, answer>> /\ loaded' \subseteq Reader
  BY DEF load_path, IInv, TypeOK
<1>5. TypeOK'
  BY <1>3, <1>4 DEF IInv, TypeOK, Cache
<1>6. EntriesAreSound'
  BY <1>2, <1>3, <1>4 DEF IInv, EntriesAreSound, Sound
<1> QED
  BY <1>4, <1>5, <1>6 DEF IInv, LookIsSound

\* Steps of a lookup that change no entry.
LEMMA LookupStep ==
  ASSUME IInv, NEW p \in Reader, NEW l \in Look, look' = [look EXCEPT ![p] = l],
         l.mtime <= clock,
         l.step \in {"get", "read"} => \A f \in l.of : file[f] = 0 \/ file[f] >= l.mtime,
         l.step = "put" => l.content # 0 /\ l.content >= l.mtime,
         answer' \in [Reader -> Times], loaded' \subseteq Reader,
         memory' = memory \/ memory' = [memory EXCEPT ![p] = Nobody],
         UNCHANGED <<file, clock, saved>>
  PROVE  IInv'
<1>1. look' \in [Reader -> Look] /\ look'[p] = l /\ \A q \in Reader \ {p} : look'[q] = look[q]
  BY DEF IInv, TypeOK, Look
<1>2. memory' \in [Reader -> Cache]
      /\ \A q \in Reader, f \in File : memory'[q][f] = memory[q][f] \/ memory'[q][f] = NoEntry
  <2>1. memory \in [Reader -> Cache]
    BY DEF IInv, TypeOK, Cache
  <2>2. Nobody \in Cache /\ \A f \in File : Nobody[f] = NoEntry
    BY DEF Cache, Nobody
  <2>3. CASE memory' = memory
    BY <2>1, <2>3
  <2>4. CASE memory' = [memory EXCEPT ![p] = Nobody]
    BY <2>1, <2>2, <2>4
  <2> QED
    BY <2>3, <2>4
<1>3. TypeOK'
  BY <1>1, <1>2 DEF IInv, TypeOK, Cache, Look
<1>4. EntriesAreSound'
  BY <1>2 DEF IInv, EntriesAreSound, Sound
<1>5. ASSUME NEW q \in Reader PROVE LookIsSound(q)' /\ look'[q].mtime <= clock'
  <2>1. CASE q = p
    BY <1>1, <2>1 DEF LookIsSound
  <2>2. CASE q # p
    BY <1>1, <2>2 DEF IInv, LookIsSound
  <2> QED
    BY <2>1, <2>2
<1> QED
  BY <1>3, <1>4, <1>5 DEF IInv

LEMMA StatStep ==
  ASSUME IInv, NEW p \in Reader, NEW f \in File, Stat(p, f)
  PROVE  IInv'
<1> DEFINE l == [step |-> "get", of |-> {f}, mtime |-> file[f], content |-> 0]
<1>1. l \in Look /\ file[f] \in Nat
  BY CacheAssumption DEF IInv, TypeOK, Look, Times
<1>2. l.mtime = file[f] /\ l.of = {f} /\ l.step = "get" /\ file[f] <= clock
  BY DEF IInv
<1>3. look' = [look EXCEPT ![p] = l] /\ UNCHANGED <<file, clock, saved, memory, loaded, answer>>
  BY DEF Stat
<1>4. \A g \in l.of : file[g] = 0 \/ file[g] >= l.mtime
  BY <1>1, <1>2
<1>5. answer' \in [Reader -> Times] /\ loaded' \subseteq Reader /\ l.mtime <= clock
  BY <1>2, <1>3 DEF IInv, TypeOK
<1> HIDE DEF l
<1> QED
  BY <1>1, <1>2, <1>3, <1>4, <1>5, LookupStep

LEMMA GetStep ==
  ASSUME IInv, NEW p \in Reader, NEW f \in File, Get(p, f)
  PROVE  IInv'
<1>1. look[p] \in Look /\ LookIsSound(p) /\ look[p].mtime <= clock
  BY DEF IInv, TypeOK, Look
<1>2. UNCHANGED <<file, clock, saved, memory, loaded>> /\ look[p].step = "get"
  BY DEF Get
<1>3. PICK s \in {"idle", "read"} : look' = [look EXCEPT ![p].step = s]
  BY DEF Get
<1> DEFINE l == [look[p] EXCEPT !.step = s]
<1>4. l \in Look /\ l.step = s /\ l.of = look[p].of /\ l.mtime = look[p].mtime
  BY <1>1, <1>3 DEF Look
<1>5. look' = [look EXCEPT ![p] = l]
  BY <1>3
<1>6. answer' \in [Reader -> Times]
  <2>1. Hits(p, f) => memory[p][f].content \in Times
    BY DEF IInv, TypeOK, Hits, CacheEntry
  <2> QED
    BY <2>1 DEF Get, IInv, TypeOK
<1> HIDE DEF l
<1> QED
  BY <1>1, <1>2, <1>4, <1>5, <1>6, LookupStep DEF IInv, TypeOK, LookIsSound

LEMMA ReadStep ==
  ASSUME IInv, NEW p \in Reader, NEW f \in File, Read(p, f)
  PROVE  IInv'
<1>1. look[p] \in Look /\ LookIsSound(p) /\ look[p].mtime <= clock /\ file[f] \in Times
  BY DEF IInv, TypeOK, Look
<1>2. UNCHANGED <<file, clock, saved, memory, loaded>> /\ answer' = [answer EXCEPT ![p] = file[f]]
  BY DEF Read
<1> DEFINE s == IF file[f] = 0 THEN "idle" ELSE "put"
           l == [look[p] EXCEPT !.step = s, !.content = file[f]]
<1>3. l \in Look /\ l.step = s /\ l.content = file[f] /\ l.mtime = look[p].mtime
  BY <1>1 DEF Look
<1>4. look' = [look EXCEPT ![p] = l]
  BY DEF Read
<1>5. file[f] = 0 \/ file[f] >= look[p].mtime
  BY <1>1 DEF Read, LookIsSound
<1>6. answer' \in [Reader -> Times]
  BY <1>1, <1>2 DEF IInv, TypeOK
<1> HIDE DEF l
<1> QED
  BY <1>1, <1>2, <1>3, <1>4, <1>5, <1>6, LookupStep DEF IInv, TypeOK

LEMMA EndStep ==
  ASSUME IInv, NEW p \in Reader, End(p)
  PROVE  IInv'
<1>1. Idle \in Look /\ Idle.step = "idle" /\ Idle.mtime = 0 /\ 0 \in Times
  BY CacheAssumption DEF Idle, Look, Times
<1>2. answer' \in [Reader -> Times] /\ loaded' \subseteq Reader
  BY <1>1 DEF End, IInv, TypeOK
<1>3. Idle.mtime <= clock
  BY <1>1, CacheAssumption DEF IInv, TypeOK, Times
<1> QED
  BY <1>1, <1>2, <1>3, LookupStep DEF End

\* An entry is made of what was read, or removed.
LEMMA EntryStep ==
  ASSUME IInv, NEW p \in Reader, NEW f \in File, NEW e \in CacheEntry \cup {NoEntry}, Sound(e),
         memory' = [memory EXCEPT ![p][f] = e],
         saved' = saved \/ saved' = memory'[p],
         look' = look \/ look' = [look EXCEPT ![p].step = "idle"],
         UNCHANGED <<file, clock, loaded, answer>>
  PROVE  IInv'
<1>1. /\ memory' \in [Reader -> Cache] /\ memory'[p][f] = e
      /\ \A q \in Reader, g \in File : q # p \/ g # f => memory'[q][g] = memory[q][g]
  BY DEF IInv, TypeOK, Cache
<1>2. \A q \in Reader, g \in File : Sound(memory'[q][g])
  BY <1>1 DEF IInv, EntriesAreSound, Sound
<1>3. saved' \in Cache /\ \A g \in File : Sound(saved'[g])
  <2>1. CASE saved' = saved
    BY <2>1 DEF IInv, TypeOK, EntriesAreSound, Cache
  <2>2. CASE saved' = memory'[p]
    BY <1>1, <1>2, <2>2
  <2> QED
    BY <2>1, <2>2
<1>4. EntriesAreSound'
  BY <1>2, <1>3 DEF EntriesAreSound, Sound
<1>5. look' \in [Reader -> Look]
      /\ \A q \in Reader : /\ look'[q].mtime = look[q].mtime
                           /\ look'[q] = look[q] \/ look'[q].step = "idle"
  <2>1. look \in [Reader -> Look]
    BY DEF IInv, TypeOK, Look
  <2> DEFINE l == [look[p] EXCEPT !.step = "idle"]
  <2>2. l \in Look /\ l.step = "idle" /\ l.mtime = look[p].mtime
    BY <2>1 DEF Look
  <2>3. look' = look \/ look' = [look EXCEPT ![p] = l]
    OBVIOUS
  <2> HIDE DEF l
  <2> QED
    BY <2>1, <2>2, <2>3
<1>6. TypeOK'
  BY <1>1, <1>3, <1>5 DEF IInv, TypeOK, Cache, Look
<1>7. \A q \in Reader : LookIsSound(q)' /\ look'[q].mtime <= clock'
  BY <1>5 DEF IInv, LookIsSound
<1> QED
  BY <1>4, <1>6, <1>7 DEF IInv

LEMMA PutStep ==
  ASSUME IInv, NEW p \in Reader, NEW f \in File, Put(p, f)
  PROVE  IInv'
<1>1. look[p] \in Look /\ LookIsSound(p) /\ look[p].step = "put"
  BY DEF IInv, TypeOK, Look, Put
<1>2. /\ Entry(p, f) \in CacheEntry
      /\ Entry(p, f).mtime = look[p].mtime /\ Entry(p, f).content = look[p].content
  BY <1>1 DEF Entry, CacheEntry, Look
<1>3. Sound(Entry(p, f))
  BY <1>1, <1>2 DEF Sound, LookIsSound
<1>4. PICK e \in CacheEntry : e = Entry(p, f)
  BY <1>2
<1> QED
  BY <1>3, <1>4, EntryStep DEF Put

LEMMA InvalidateStep ==
  ASSUME IInv, NEW p \in Reader, NEW f \in File, Invalidate(p, f)
  PROVE  IInv'
BY EntryStep DEF Invalidate, Sound

LEMMA SaveStep ==
  ASSUME IInv, NEW p \in Reader, Save(p)
  PROVE  IInv'
<1>1. PICK q \in Reader : saved' = memory[q]
  BY DEF Save, IInv, TypeOK
<1>2. UNCHANGED <<file, clock, memory, loaded, look, answer>>
  BY DEF Save
<1>3. saved' \in Cache /\ \A g \in File : Sound(saved'[g])
  BY <1>1 DEF IInv, TypeOK, EntriesAreSound, Cache
<1>4. TypeOK' /\ EntriesAreSound'
  BY <1>2, <1>3 DEF IInv, TypeOK, EntriesAreSound, Cache, Sound
<1> QED
  BY <1>2, <1>4 DEF IInv, LookIsSound

-----------------------------------------------------------------------------

LEMMA InitInv == Init => IInv
<1> SUFFICES ASSUME Init PROVE IInv
  OBVIOUS
<1>1. 0 \in Times /\ Idle \in Look /\ Idle.step = "idle" /\ Idle.mtime = 0
  BY CacheAssumption DEF Times, Idle, Look
<1>2. file \in [File -> Times] /\ clock \in Times /\ \A f \in File : file[f] <= clock
  BY <1>1 DEF Init
<1>3. Nobody \in Cache /\ \A f \in File : Sound(Nobody[f])
  BY DEF Nobody, Cache, Sound
<1>4. /\ saved \in Cache /\ memory \in [Reader -> Cache] /\ loaded \subseteq Reader
      /\ look \in [Reader -> Look] /\ answer \in [Reader -> Times]
  BY <1>1, <1>3 DEF Init
<1>5. TypeOK
  BY <1>2, <1>4 DEF TypeOK, Cache, Look
<1>6. EntriesAreSound
  BY <1>3 DEF Init, EntriesAreSound
<1>7. \A p \in Reader : LookIsSound(p) /\ look[p].mtime <= clock
  BY <1>1 DEF Init, LookIsSound
<1> QED
  BY <1>2, <1>5, <1>6, <1>7 DEF IInv

\* Every step keeps the inductive invariant.
LEMMA StepInv == IInv /\ [Next]_vars => IInv'
<1> SUFFICES ASSUME IInv, [Next]_vars PROVE IInv'
  OBVIOUS
<1>1. ASSUME UNCHANGED vars PROVE IInv'
  BY <1>1 DEF vars, IInv, TypeOK, EntriesAreSound, LookIsSound, Sound
<1> QED
  BY <1>1, TouchStep, LoadStep, SaveStep, EndStep, StatStep, GetStep, ReadStep, PutStep,
     InvalidateStep DEF Next

LEMMA AlwaysInv == Spec => []IInv
  BY InitInv, StepInv, PTL DEF Spec

\* The types of the caches, for any number of processes, files and changes.
THEOREM CachesAreTyped == Spec => []TypeOK
<1>1. IInv => TypeOK
  BY DEF IInv
<1> QED
  BY <1>1, AlwaysInv, PTL

\* A lookup that answers from the cache answers with the content of the stat, or a
\* later one: the order of stat, read and insert in knowledge and the call graph
\* makes the cache sound however files change in between.
THEOREM HitsAreFresh == Spec => HitIsFresh
<1> DEFINE Hit(p, f) ==
             /\ look[p].step = "get" /\ look[p].of = {f} /\ look[p].mtime # 0
             /\ look'[p].step = "idle" /\ p \in loaded'
             => answer'[p] >= look[p].mtime /\ answer'[p] # 0
           EveryHit == \A p \in Reader, f \in File : Hit(p, f)
<1>1. ASSUME IInv, Next PROVE EveryHit
  <2> SUFFICES ASSUME NEW p \in Reader, NEW f \in File,
                      look[p].step = "get", look[p].of = {f}, look[p].mtime # 0,
                      look'[p].step = "idle", p \in loaded'
               PROVE  answer'[p] >= look[p].mtime /\ answer'[p] # 0
    OBVIOUS
  <2>1. look \in [Reader -> Look] /\ answer \in [Reader -> Times]
    BY <1>1 DEF IInv, TypeOK, Look
  <2>2. Hits(p, f) => memory[p][f].content # 0 /\ memory[p][f].content >= look[p].mtime
    BY <1>1 DEF IInv, EntriesAreSound, Sound, Hits
  <2>3. ASSUME UNCHANGED look PROVE FALSE
    BY <2>3
  <2>4. ASSUME NEW q \in Reader, NEW g \in File,
               Stat(q, g) \/ Get(q, g) \/ Read(q, g) \/ Put(q, g)
        PROVE  answer'[p] >= look[p].mtime /\ answer'[p] # 0
    <3>1. q = p
      BY <2>1, <2>4 DEF Stat, Get, Read, Put
    <3>2. Get(p, g)
      BY <2>4, <3>1 DEF Stat, Get, Read, Put
    <3>3. g = f
      BY <3>2 DEF Get
    <3>4. ~Hits(p, f) => look'[p].step = "read"
      BY <2>1, <3>2, <3>3 DEF Get, Look
    <3>5. Hits(p, f) => answer'[p] = memory[p][f].content
      BY <2>1, <3>2, <3>3 DEF Get
    <3> QED
      BY <2>2, <3>4, <3>5
  <2>5. ASSUME NEW q \in Reader, End(q) PROVE FALSE
    BY <2>1, <2>5 DEF End
  <2> QED
    BY <1>1, <2>3, <2>4, <2>5 DEF Next, Touch, load_path, Save, Invalidate
<1>2. IInv /\ [Next]_vars => [EveryHit]_vars
  BY <1>1
<1> QED
  BY <1>2, AlwaysInv, PTL DEF Spec, HitIsFresh
=============================================================================
