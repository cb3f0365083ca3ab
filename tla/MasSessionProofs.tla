--------------------------- MODULE MasSessionProofs ---------------------------
(***************************************************************************)
(* Theorems about MasSession.  The round budget holds for any number of    *)
(* processes: every document that is held anywhere, on disk, in a cache or  *)
(* in a call, is within its own budget.                                    *)
(*                                                                         *)
(* What the blackboard promises about its entries holds for one process:   *)
(* its cached copy is the document on disk, so that a call works on what    *)
(* the last one saved.                                                     *)
(***************************************************************************)
EXTENDS MasSession, TLAPS, SequenceTheorems

\* The condition of all but the first theorem.
OneProcess == \A p, q \in Proc : p = q

Documents == Document \cup {Absent}

\* A document that somebody has loaded, whatever the budget it was asked with.
Loaded(s) ==
    /\ s \in Document
    /\ s.next_id <= posts + 1
    /\ s.status = "final" => s.result # Absent

Sound(s) == s # Absent => Loaded(s) /\ s.round <= s.max_rounds

\* The invariant for any number of processes.
EveryCopyIsSound ==
    /\ SessionTypeOK
    /\ Sound(doc)
    /\ \A p \in Proc : Sound(cache[p]) /\ Sound(call[p].s)
    /\ \A p \in Proc : call[p].at # "idle" /\ call[p].tool = "post" =>
          call[p].s.next_id > 1 /\ call[p].op > 0
    /\ \A p \in Proc : call[p].at = "spill" => call[p].tool = "post"

-----------------------------------------------------------------------------
(* What the operators return *)

LEMMA AbsentIsNoDocument == Absent \notin Document /\ Absent \notin Result
BY SessionAssumption

LEMMA FreshIsSound ==
  ASSUME SessionTypeOK, NEW mr \in Nat \ {0}
  PROVE  /\ Loaded(Fresh(mr)) /\ Fresh(mr).round <= Fresh(mr).max_rounds
         /\ Fresh(mr).status = "active" /\ Fresh(mr).entries = <<>> /\ Fresh(mr).next_id = 1
<1>1. 1 \in 1 .. MaxPosts + 1 /\ 1 <= posts + 1
  BY SessionAssumption DEF SessionTypeOK
<1>2. <<>> \in Seq(Entry)
  OBVIOUS
<1> QED
  BY <1>1, <1>2 DEF Fresh, Loaded, Document

LEMMA LoadedIsLoaded ==
  ASSUME EveryCopyIsSound, NEW p \in Proc, NEW mr \in RoundArg
  PROVE  Loaded(get_or_create_session(p, mr))
<1> DEFINE s == get_or_create_session(p, mr)
<1>1. CASE cache[p] # Absent
  BY <1>1 DEF get_or_create_session, EveryCopyIsSound, Sound
<1>2. CASE cache[p] = Absent /\ doc # Absent
  <2>1. Loaded(doc)
    BY <1>2 DEF EveryCopyIsSound, Sound
  <2>2. CASE mr = NotGiven
    BY <1>2, <2>1, <2>2 DEF get_or_create_session
  <2>3. CASE mr # NotGiven
    <3>1. mr \in Nat \ {0} /\ s = [doc EXCEPT !.max_rounds = mr]
      BY <1>2, <2>3, SessionAssumption DEF get_or_create_session, RoundArg
    <3>2. [doc EXCEPT !.max_rounds = mr] \in Document
      BY <2>1, <3>1 DEF Loaded, Document
    <3> QED
      BY <2>1, <3>1, <3>2 DEF Loaded, Document
  <2> QED
    BY <2>2, <2>3
<1>3. CASE cache[p] = Absent /\ doc = Absent
  <2>1. PICK n \in Nat \ {0} : s = Fresh(n)
    BY <1>3, SessionAssumption DEF get_or_create_session, RoundArg
  <2> QED
    BY <2>1, FreshIsSound DEF EveryCopyIsSound
<1> QED
  BY <1>1, <1>2, <1>3

\* An entry goes to the end, under the next id.
LEMMA EntryIsAppended ==
  ASSUME SessionTypeOK, NEW s, Loaded(s), posts < MaxPosts, NEW b \in BOOLEAN
  PROVE  LET t == WithEntry(s, posts + 1, b)
             n == Len(s.entries)
         IN  /\ t \in Document
             /\ t.next_id = s.next_id + 1 /\ t.next_id \in 2 .. posts + 2
             /\ t.status = s.status /\ t.result = s.result
             /\ t.round = s.round /\ t.max_rounds = s.max_rounds
             /\ n \in Nat /\ DOMAIN s.entries = 1 .. n /\ DOMAIN t.entries = 1 .. n + 1
             /\ \A i \in 1 .. n : t.entries[i] = s.entries[i]
             /\ t.entries[n + 1].id = s.next_id /\ t.entries[n + 1].op = posts + 1
             /\ t.entries[n + 1].spilled = b
<1> DEFINE e == [id |-> s.next_id, round |-> s.round, op |-> posts + 1, spilled |-> b]
           q == Append(s.entries, e)
<1>1. /\ s \in Document /\ s.entries \in Seq(Entry) /\ s.next_id \in 1 .. posts + 1
      /\ posts \in Nat /\ posts + 1 <= MaxPosts /\ MaxPosts \in Nat /\ s.round \in Nat
  BY SessionAssumption DEF Loaded, Document, SessionTypeOK
<1>2. e \in Entry
  BY <1>1 DEF Entry
<1>3. /\ q \in Seq(Entry) /\ Len(s.entries) \in Nat
      /\ DOMAIN s.entries = 1 .. Len(s.entries) /\ DOMAIN q = 1 .. Len(s.entries) + 1
      /\ \A i \in 1 .. Len(s.entries) : q[i] = s.entries[i]
      /\ q[Len(s.entries) + 1] = e
  BY <1>1, <1>2, AppendProperties, LenProperties
<1>4. WithEntry(s, posts + 1, b) = [s EXCEPT !.entries = q, !.next_id = s.next_id + 1]
  BY DEF WithEntry
<1>5. s.next_id + 1 \in 1 .. MaxPosts + 1 /\ s.next_id + 1 \in 2 .. posts + 2
  BY <1>1
<1>6. e.id = s.next_id /\ e.op = posts + 1 /\ e.spilled = b
  OBVIOUS
<1> HIDE DEF e, q
<1> QED
  BY <1>1, <1>3, <1>4, <1>5, <1>6 DEF Document

-----------------------------------------------------------------------------
(* Any number of processes *)

CallBy(p, c) ==
    /\ call' \in [Proc -> Call]
    /\ call'[p] = c
    /\ \A q \in Proc \ {p} : call'[q] = call[q]

\* A call begins, with a document that is within its budget.
LEMMA BeginKeepsSound ==
  ASSUME EveryCopyIsSound, NEW p \in Proc, NEW c \in Call, c.at # "idle",
         call' = [call EXCEPT ![p] = c],
         c.s \in Document, c.s.round <= c.s.max_rounds, c.s.next_id <= posts' + 1,
         c.s.status = "final" => c.s.result # Absent,
         c.tool = "post" => c.s.next_id > 1 /\ c.op > 0,
         c.at = "spill" => c.tool = "post",
         posts' \in 0 .. MaxPosts, posts <= posts',
         UNCHANGED <<doc, cache, notes, posted>>
  PROVE  EveryCopyIsSound'
<1>1. CallBy(p, c)
  BY DEF EveryCopyIsSound, SessionTypeOK, CallBy
<1>2. posts \in Nat /\ posts' \in Nat
  BY SessionAssumption DEF EveryCopyIsSound, SessionTypeOK
<1>3. c.s # Absent
  BY AbsentIsNoDocument
<1>4. SessionTypeOK'
  BY <1>1, <1>3 DEF EveryCopyIsSound, SessionTypeOK, CallBy
<1>5. \A s : Sound(s) => Sound(s)'
  BY <1>2 DEF Sound, Loaded, Document
<1>6. Sound(c.s)'
  BY DEF Sound, Loaded
<1>7. Sound(doc)' /\ \A q \in Proc : Sound(cache[q])' /\ Sound(call[q].s)'
  BY <1>1, <1>2, <1>6 DEF EveryCopyIsSound, SessionTypeOK, CallBy, Sound, Loaded, Document
<1> QED
  BY <1>1, <1>4, <1>7 DEF EveryCopyIsSound, CallBy

LEMMA PostKeepsSound ==
  ASSUME EveryCopyIsSound, NEW p \in Proc, NEW mr \in RoundArg, NEW b \in BOOLEAN, Post(p, mr, b)
  PROVE  EveryCopyIsSound'
<1> DEFINE s == get_or_create_session(p, mr)
           t == WithEntry(s, posts + 1, b)
           c == [at |-> IF b THEN "spill" ELSE "save", tool |-> "post", s |-> t, op |-> posts + 1]
<1>1. /\ Loaded(s) /\ posts < MaxPosts /\ s.round <= s.max_rounds /\ s.status # "final"
      /\ call' = [call EXCEPT ![p] = c] /\ posts' = posts + 1
      /\ UNCHANGED <<doc, cache, notes, posted>>
  BY LoadedIsLoaded DEF Post
<1>2. posts \in Nat /\ posts' \in 0 .. MaxPosts /\ posts + 1 \in 0 .. MaxPosts
  BY <1>1, SessionAssumption DEF EveryCopyIsSound, SessionTypeOK
<1> HIDE DEF s
<1>3. /\ t \in Document /\ t.next_id \in 2 .. posts + 2 /\ t.status = s.status
      /\ t.round = s.round /\ t.max_rounds = s.max_rounds
  BY <1>1, EntryIsAppended DEF EveryCopyIsSound
<1> HIDE DEF t
<1>4. /\ c \in Call /\ c.at \in {"spill", "save"} /\ c.tool = "post" /\ c.s = t
      /\ c.op = posts + 1
  BY <1>2, <1>3 DEF Call
<1> HIDE DEF c
<1>5. /\ c.at # "idle" /\ c.s \in Document /\ c.s.round <= c.s.max_rounds
      /\ c.s.next_id <= posts' + 1 /\ c.s.status # "final" /\ c.s.next_id > 1 /\ c.op > 0
  BY <1>1, <1>2, <1>3, <1>4
<1>6. posts <= posts'
  BY <1>1, <1>2
<1> QED
  BY <1>1, <1>2, <1>4, <1>5, <1>6, BeginKeepsSound

LEMMA AdvanceKeepsSound ==
  ASSUME EveryCopyIsSound, NEW p \in Proc, NEW mr \in RoundArg, Advance(p, mr)
  PROVE  EveryCopyIsSound'
<1> DEFINE s == get_or_create_session(p, mr)
           t == [s EXCEPT !.round = @ + 1]
           c == [at |-> "save", tool |-> "status", op |-> 0, s |-> t]
<1>1. /\ Loaded(s) /\ s.status # "final" /\ s.round < s.max_rounds
      /\ call' = [call EXCEPT ![p] = c] /\ UNCHANGED <<doc, cache, notes, posts, posted>>
  BY LoadedIsLoaded DEF Advance, MayAdvance
<1> HIDE DEF s
<1>2. posts \in 0 .. MaxPosts /\ 0 \in 0 .. MaxPosts
  BY SessionAssumption DEF EveryCopyIsSound, SessionTypeOK
<1>3. /\ t \in Document /\ t.next_id = s.next_id /\ t.status = s.status
      /\ t.round = s.round + 1 /\ t.max_rounds = s.max_rounds /\ s.round + 1 <= s.max_rounds
  BY <1>1 DEF Loaded, Document
<1> HIDE DEF t
<1>4. c \in Call /\ c.at = "save" /\ c.tool = "status" /\ c.s = t
  BY <1>2, <1>3 DEF Call
<1> HIDE DEF c
<1>5. /\ c.s.round <= c.s.max_rounds /\ c.s.next_id <= posts' + 1 /\ c.s.status # "final"
      /\ posts' \in 0 .. MaxPosts /\ posts <= posts'
  BY <1>1, <1>2, <1>3, <1>4 DEF Loaded
<1> QED
  BY <1>1, <1>3, <1>4, <1>5, BeginKeepsSound

LEMMA OpenKeepsSound ==
  ASSUME EveryCopyIsSound, NEW p \in Proc, NEW mr \in RoundArg, Open(p, mr)
  PROVE  EveryCopyIsSound'
<1> DEFINE s == get_or_create_session(p, mr)
           c == [at |-> "save", tool |-> "status", op |-> 0, s |-> s]
<1>1. PICK n \in Nat \ {0} : s = Fresh(n)
  BY SessionAssumption DEF Open, load_session, get_or_create_session, RoundArg
<1>2. Loaded(s) /\ s.round <= s.max_rounds /\ s.status = "active"
  BY <1>1, FreshIsSound DEF EveryCopyIsSound
<1>3. call' = [call EXCEPT ![p] = c] /\ UNCHANGED <<doc, cache, notes, posts, posted>>
  BY DEF Open
<1> HIDE DEF s
<1>4. posts \in 0 .. MaxPosts /\ 0 \in 0 .. MaxPosts
  BY SessionAssumption DEF EveryCopyIsSound, SessionTypeOK
<1>5. c \in Call /\ c.at = "save" /\ c.tool = "status" /\ c.s = s
  BY <1>2, <1>4 DEF Call, Loaded
<1> HIDE DEF c
<1>6. /\ c.s \in Document /\ c.s.round <= c.s.max_rounds /\ c.s.next_id <= posts' + 1
      /\ c.s.status # "final" /\ posts' \in 0 .. MaxPosts /\ posts <= posts'
  BY <1>2, <1>3, <1>4, <1>5 DEF Loaded
<1> QED
  BY <1>3, <1>5, <1>6, BeginKeepsSound

\* What closing a session returns.
LEMMA ClosedIsSound ==
  ASSUME EveryCopyIsSound, NEW s, s # Absent, Sound(s), NEW r \in Result
  PROVE  /\ Closed(s, r) \in Document
         /\ Closed(s, r).status = "final" /\ Closed(s, r).result # Absent
         /\ Closed(s, r).entries = s.entries /\ Closed(s, r).next_id = s.next_id
         /\ Closed(s, r).round = s.round /\ Closed(s, r).max_rounds = s.max_rounds
         /\ s.status = "final" => Closed(s, r) = s
<1>1. s \in Document /\ (s.status = "final" => s.result # Absent)
  BY DEF Sound, Loaded
<1> DEFINE v == IF s.status = "final" /\ s.result # Absent THEN s.result ELSE r
<1>2. v \in Result /\ v # Absent
  BY <1>1, AbsentIsNoDocument DEF Document
<1>3. Closed(s, r) = [s EXCEPT !.status = "final", !.result = v]
  BY DEF Closed
<1>4. s.status = "final" => [s EXCEPT !.status = "final", !.result = v] = s
  BY <1>1 DEF Document
<1> HIDE DEF v
<1> QED
  BY <1>1, <1>2, <1>3, <1>4 DEF Document

LEMMA FinalizeKeepsSound ==
  ASSUME EveryCopyIsSound, NEW p \in Proc, NEW r \in Result, Finalize(p, r)
  PROVE  EveryCopyIsSound'
<1> DEFINE s == load_session(p)
           t == Closed(s, r)
           c == [at |-> "save", tool |-> "finalize", op |-> 0, s |-> t]
<1>1. s # Absent /\ Sound(s) /\ UNCHANGED <<doc, cache, notes, posts, posted>>
  BY DEF Finalize, load_session, EveryCopyIsSound
<1>2. CASE call' = call
  BY <1>1, <1>2 DEF EveryCopyIsSound, SessionTypeOK, Sound, Loaded
<1>3. CASE call' = [call EXCEPT ![p] = c]
  <2> HIDE DEF s
  <2>1. /\ t \in Document /\ t.status = "final" /\ t.result # Absent /\ t.next_id = s.next_id
        /\ t.round = s.round /\ t.max_rounds = s.max_rounds
    BY <1>1, ClosedIsSound
  <2> HIDE DEF t
  <2>2. posts \in 0 .. MaxPosts /\ 0 \in 0 .. MaxPosts
    BY SessionAssumption DEF EveryCopyIsSound, SessionTypeOK
  <2>3. c \in Call /\ c.at = "save" /\ c.tool = "finalize" /\ c.s = t
    BY <2>1, <2>2 DEF Call
  <2> HIDE DEF c
  <2>4. /\ c.s \in Document /\ c.s.round <= c.s.max_rounds /\ c.s.next_id <= posts' + 1
        /\ c.s.result # Absent /\ posts' \in 0 .. MaxPosts /\ posts <= posts'
    BY <1>1, <2>1, <2>2, <2>3 DEF Sound, Loaded
  <2> QED
    BY <1>1, <1>3, <2>3, <2>4, BeginKeepsSound
<1> QED
  BY <1>2, <1>3 DEF Finalize

LEMMA SpillKeepsSound ==
  ASSUME EveryCopyIsSound, NEW p \in Proc, Spill(p)
  PROVE  EveryCopyIsSound'
<1> DEFINE c == [call[p] EXCEPT !.at = "save"]
<1>1. /\ call[p] \in Call /\ call[p].at = "spill" /\ call[p].tool = "post"
      /\ call[p].s # Absent /\ Sound(call[p].s) /\ call[p].s.next_id > 1
      /\ call' = [call EXCEPT ![p] = c] /\ UNCHANGED <<doc, cache, posts, posted>>
  BY DEF EveryCopyIsSound, SessionTypeOK, Spill
<1>2. c \in Call /\ c.at = "save" /\ c.tool = call[p].tool /\ c.s = call[p].s /\ c.op = call[p].op
  BY <1>1 DEF Call
<1> HIDE DEF c
<1>3. CallBy(p, c)
  BY <1>1, <1>2 DEF EveryCopyIsSound, SessionTypeOK, CallBy
<1>4. notes' \in [1 .. MaxPosts -> 0 .. MaxPosts]
  <2>1. call[p].op \in 0 .. MaxPosts
    BY <1>1 DEF Call
  <2> QED
    BY <2>1 DEF EveryCopyIsSound, SessionTypeOK, Spill
<1>5. SessionTypeOK'
  BY <1>1, <1>2, <1>3, <1>4 DEF EveryCopyIsSound, SessionTypeOK, CallBy
<1> QED
  BY <1>1, <1>2, <1>3, <1>5 DEF EveryCopyIsSound, CallBy, Sound, Loaded

LEMMA SaveKeepsSound ==
  ASSUME EveryCopyIsSound, NEW p \in Proc, Save(p)
  PROVE  EveryCopyIsSound'
<1>1. /\ call[p] \in Call /\ call[p].at = "save" /\ call[p].s # Absent
      /\ Sound(call[p].s) /\ call[p].s \in Document
      /\ doc' = call[p].s /\ UNCHANGED <<notes, posts>>
  BY DEF EveryCopyIsSound, SessionTypeOK, Sound, Loaded, Save
<1>2. Idle \in Call /\ Idle.at = "idle" /\ Idle.s = Absent
  BY SessionAssumption DEF Idle, Call
<1>3. CallBy(p, Idle)
  BY <1>2 DEF EveryCopyIsSound, SessionTypeOK, CallBy, Save
<1>4. KeptCopy(p) \in Documents /\ Sound(KeptCopy(p))
  BY <1>1 DEF KeptCopy, Documents, Sound
<1>5. /\ cache' \in [Proc -> Documents] /\ cache'[p] = KeptCopy(p)
      /\ \A q \in Proc \ {p} : cache'[q] = cache[q]
  BY <1>4 DEF EveryCopyIsSound, SessionTypeOK, Documents, Save
<1>6. posted' \subseteq [op: 1 .. MaxPosts, id: 1 .. MaxPosts]
  <2>1. CASE call[p].tool = "post"
    <3>1. call[p].s.next_id > 1 /\ call[p].op > 0
      BY <1>1, <2>1 DEF EveryCopyIsSound
    <3>2. call[p].op \in 1 .. MaxPosts /\ call[p].s.next_id - 1 \in 1 .. MaxPosts
      BY <1>1, <3>1, SessionAssumption DEF Call, Document
    <3> QED
      BY <2>1, <3>2 DEF EveryCopyIsSound, SessionTypeOK, Save
  <2>2. CASE call[p].tool # "post"
    BY <2>2 DEF EveryCopyIsSound, SessionTypeOK, Save
  <2> QED
    BY <2>1, <2>2
<1>7. SessionTypeOK'
  BY <1>1, <1>2, <1>3, <1>5, <1>6 DEF EveryCopyIsSound, SessionTypeOK, CallBy, Documents
<1> QED
  BY <1>1, <1>2, <1>3, <1>4, <1>5, <1>7 DEF EveryCopyIsSound, CallBy, Sound, Loaded

\* A cache is dropped, and a call may be.
LEMMA DropKeepsSound ==
  ASSUME EveryCopyIsSound, NEW p \in Proc, cache' = [cache EXCEPT ![p] = Absent],
         call' = call \/ call' = [call EXCEPT ![p] = Idle], UNCHANGED <<doc, notes, posts, posted>>
  PROVE  EveryCopyIsSound'
<1>1. Idle \in Call /\ Idle.at = "idle" /\ Idle.s = Absent
  BY SessionAssumption DEF Idle, Call
<1>2. call' = call \/ CallBy(p, Idle)
  BY <1>1 DEF EveryCopyIsSound, SessionTypeOK, CallBy
<1>3. /\ cache' \in [Proc -> Documents]
      /\ \A q \in Proc : cache'[q] = cache[q] \/ cache'[q] = Absent
  BY DEF EveryCopyIsSound, SessionTypeOK, Documents
<1>4. SessionTypeOK'
  BY <1>1, <1>2, <1>3 DEF EveryCopyIsSound, SessionTypeOK, CallBy, Documents
<1> QED
  BY <1>1, <1>2, <1>3, <1>4 DEF EveryCopyIsSound, CallBy, Sound, Loaded

LEMMA SoundInit == SessionInit => EveryCopyIsSound
<1> SUFFICES ASSUME SessionInit PROVE EveryCopyIsSound
  OBVIOUS
<1>1. Idle \in Call /\ Idle.at = "idle" /\ Idle.s = Absent
  BY SessionAssumption DEF Idle, Call
<1>2. 0 \in 0 .. MaxPosts
  BY SessionAssumption
<1>3. SessionTypeOK
  BY <1>1, <1>2 DEF SessionInit, SessionTypeOK
<1> QED
  BY <1>1, <1>3 DEF SessionInit, EveryCopyIsSound, Sound

LEMMA SoundStep == EveryCopyIsSound /\ [SessionNext]_sessionVars => EveryCopyIsSound'
<1> SUFFICES ASSUME EveryCopyIsSound, [SessionNext]_sessionVars PROVE EveryCopyIsSound'
  OBVIOUS
<1>1. ASSUME UNCHANGED sessionVars PROVE EveryCopyIsSound'
  BY <1>1 DEF sessionVars, EveryCopyIsSound, SessionTypeOK, Sound, Loaded
<1>2. ASSUME NEW p \in Proc, Read(p) \/ Restart(p) PROVE EveryCopyIsSound'
  BY <1>2, DropKeepsSound DEF Read, Restart
<1> QED
  BY <1>1, <1>2, PostKeepsSound, AdvanceKeepsSound, OpenKeepsSound, FinalizeKeepsSound,
     SpillKeepsSound, SaveKeepsSound DEF SessionNext, Begin, Proceed

LEMMA AlwaysSound == SessionSpec => []EveryCopyIsSound
BY SoundInit, SoundStep, PTL DEF SessionSpec

\* The types of a session, for any number of processes.
THEOREM SessionIsTyped == SessionSpec => []SessionTypeOK
<1>1. EveryCopyIsSound => SessionTypeOK
  BY DEF EveryCopyIsSound
<1> QED
  BY <1>1, AlwaysSound, PTL

\* No session is saved past its round budget, for any number of processes that
\* work on stale copies of it and lower the budget as they like: each call checks
\* the round and the budget of the value that it will save.
THEOREM RoundsAreWithinBudget == SessionSpec => []WithinRounds
<1>1. EveryCopyIsSound => WithinRounds
  BY DEF EveryCopyIsSound, Sound, WithinRounds
<1> QED
  BY <1>1, AlwaysSound, PTL

-----------------------------------------------------------------------------
(* One process *)

IdsAreBelow(s) == \A i \in DOMAIN s.entries : s.entries[i].id < s.next_id

LEMMA EntryHasId ==
  ASSUME NEW s \in Document, NEW i \in DOMAIN s.entries
  PROVE  s.entries[i] \in Entry /\ s.entries[i].id \in 1 .. MaxPosts
<1>1. s.entries \in Seq(Entry)
  BY DEF Document
<1>2. s.entries[i] \in Entry
  BY <1>1, LenProperties, ElementOfSeq
<1> QED
  BY <1>2 DEF Entry

\* Spill notes hold the text of the entries that name them.
Noted(s) ==
    \A i \in DOMAIN s.entries : s.entries[i].spilled => notes[s.entries[i].id] = s.entries[i].op

\* So they will when the call has written the note of its own entry.
NotedButLast(c) ==
    \A i \in DOMAIN c.s.entries :
        IF c.s.entries[i].id = c.s.next_id - 1 THEN c.s.entries[i].op = c.op
        ELSE c.s.entries[i].spilled => notes[c.s.entries[i].id] = c.s.entries[i].op

\* The document goes on from the one on disk.
Continues(s) ==
    doc # Absent =>
        /\ doc.status # "final"
        /\ \A i \in DOMAIN doc.entries :
              i \in DOMAIN s.entries /\ s.entries[i] = doc.entries[i]

\* What a call under way is about to save.
Based(c) ==
    c.at # "idle" =>
        /\ Continues(c.s) /\ IdsAreBelow(c.s)
        /\ c.tool = "post" => \E i \in DOMAIN c.s.entries :
              c.s.entries[i].op = c.op /\ c.s.entries[i].id = c.s.next_id - 1
        /\ c.at = "save" => Noted(c.s)
        /\ c.at = "spill" =>
              /\ NotedButLast(c)
              /\ doc # Absent => \A i \in DOMAIN doc.entries :
                     doc.entries[i].id < c.s.next_id - 1

\* The invariant for one process.
OneCopy ==
    /\ EveryCopyIsSound /\ PostsStay
    /\ \A p \in Proc : cache[p] # Absent => cache[p] = doc
    /\ doc # Absent => IdsAreBelow(doc) /\ Noted(doc)
    /\ \A p \in Proc : Based(call[p])

\* What a call loads is the document on disk, or a fresh one.
FromDisk(s) ==
    IF doc # Absent
    THEN /\ s.status = doc.status /\ s.entries = doc.entries /\ s.next_id = doc.next_id
    ELSE s.status = "active" /\ s.entries = <<>> /\ s.next_id = 1

LEMMA LoadedFromDisk ==
  ASSUME OneCopy, NEW p \in Proc, NEW mr \in RoundArg
  PROVE  FromDisk(get_or_create_session(p, mr))
<1>1. CASE cache[p] # Absent
  BY <1>1 DEF OneCopy, get_or_create_session, FromDisk
<1>2. CASE cache[p] = Absent /\ doc # Absent
  <2>1. doc \in Document
    BY <1>2 DEF OneCopy, EveryCopyIsSound, Sound, Loaded
  <2> QED
    BY <1>2, <2>1 DEF get_or_create_session, FromDisk, Document
<1>3. CASE cache[p] = Absent /\ doc = Absent
  BY <1>3 DEF get_or_create_session, FromDisk, Fresh
<1> QED
  BY <1>1, <1>2, <1>3

\* A call begins with what is on disk, changed or not, and one entry more or none.
LEMMA BeginKeepsCopy ==
  ASSUME OneCopy, OneProcess, NEW p \in Proc, NEW c \in Call,
         call' = [call EXCEPT ![p] = c], EveryCopyIsSound', Based(c),
         UNCHANGED <<doc, cache, notes, posted>>
  PROVE  OneCopy'
<1>1. \A q \in Proc : call'[q] = c
  BY DEF OneCopy, EveryCopyIsSound, SessionTypeOK, OneProcess
<1>2. Based(c)'
  BY DEF Based, Continues, IdsAreBelow, Noted, NotedButLast
<1>3. PostsStay'
  BY DEF OneCopy, PostsStay
<1>4. doc' # Absent => IdsAreBelow(doc)' /\ Noted(doc)'
  BY DEF OneCopy, IdsAreBelow, Noted
<1> QED
  BY <1>1, <1>2, <1>3, <1>4 DEF OneCopy, Based, Continues, IdsAreBelow, Noted, NotedButLast

LEMMA PostKeepsCopy ==
  ASSUME OneCopy, OneProcess, NEW p \in Proc, NEW mr \in RoundArg, NEW b \in BOOLEAN,
         Post(p, mr, b)
  PROVE  OneCopy'
<1> DEFINE s == get_or_create_session(p, mr)
           t == WithEntry(s, posts + 1, b)
           n == Len(s.entries)
           c == [at |-> IF b THEN "spill" ELSE "save", tool |-> "post", s |-> t, op |-> posts + 1]
<1>1. /\ Loaded(s) /\ FromDisk(s) /\ posts < MaxPosts /\ s.status # "final"
      /\ call' = [call EXCEPT ![p] = c] /\ posts' = posts + 1
      /\ UNCHANGED <<doc, cache, notes, posted>>
  BY LoadedIsLoaded, LoadedFromDisk DEF OneCopy, Post
<1>2. EveryCopyIsSound'
  BY PostKeepsSound DEF OneCopy
<1> HIDE DEF s
<1>3. /\ t \in Document /\ t.next_id = s.next_id + 1
      /\ n \in Nat /\ DOMAIN s.entries = 1 .. n /\ DOMAIN t.entries = 1 .. n + 1
      /\ \A i \in 1 .. n : t.entries[i] = s.entries[i]
      /\ t.entries[n + 1].id = s.next_id /\ t.entries[n + 1].op = posts + 1
      /\ t.entries[n + 1].spilled = b
  BY <1>1, EntryIsAppended DEF OneCopy, EveryCopyIsSound
<1>4. IdsAreBelow(s) /\ Noted(s) /\ s.next_id \in Nat /\ s \in Document
  <2>1. s.next_id \in Nat /\ s \in Document
    BY <1>1 DEF Loaded, Document
  <2>2. CASE doc # Absent
    BY <1>1, <2>1, <2>2 DEF OneCopy, FromDisk, IdsAreBelow, Noted
  <2>3. CASE doc = Absent
    <3>1. DOMAIN s.entries = {}
      BY <1>1, <2>3 DEF FromDisk
    <3> QED
      BY <2>1, <3>1 DEF IdsAreBelow, Noted
  <2> QED
    BY <2>2, <2>3
<1>5. c \in Call /\ c.at = (IF b THEN "spill" ELSE "save") /\ c.tool = "post" /\ c.s = t
      /\ c.op = posts + 1
  <2>1. posts + 1 \in 0 .. MaxPosts
    BY <1>1, SessionAssumption DEF OneCopy, EveryCopyIsSound, SessionTypeOK
  <2> HIDE DEF t
  <2> QED
    BY <1>3, <2>1 DEF Call
<1> HIDE DEF t, c, n
<1>6. ASSUME NEW i \in DOMAIN t.entries
      PROVE  \/ i \in 1 .. n /\ t.entries[i] = s.entries[i] /\ s.entries[i].id < s.next_id
                /\ s.entries[i].id \in Nat
                /\ (s.entries[i].spilled => notes[s.entries[i].id] = s.entries[i].op)
             \/ i = n + 1
  <2>1. i \in 1 .. n \/ i = n + 1
    BY <1>3
  <2>2. i \in 1 .. n => s.entries[i] \in Entry
    BY <1>3, <1>4, EntryHasId
  <2> QED
    BY <1>3, <1>4, <2>1, <2>2 DEF IdsAreBelow, Noted, Entry
<1>7. Continues(t)
  BY <1>1, <1>3 DEF Continues, FromDisk
<1>8. IdsAreBelow(t)
  <2> SUFFICES ASSUME NEW i \in DOMAIN t.entries PROVE t.entries[i].id < t.next_id
    BY DEF IdsAreBelow
  <2>1. CASE i = n + 1
    BY <1>3, <1>4, <2>1
  <2>2. CASE i # n + 1
    <3>1. t.entries[i] = s.entries[i] /\ s.entries[i].id < s.next_id /\ s.entries[i].id \in Nat
      BY <1>6, <2>2
    <3> QED
      BY <1>3, <1>4, <3>1
  <2> QED
    BY <2>1, <2>2
<1>9. t.entries[n + 1].op = posts + 1 /\ t.entries[n + 1].id = t.next_id - 1
      /\ n + 1 \in DOMAIN t.entries
  BY <1>3, <1>4
<1>10. ~b => Noted(t)
  BY <1>3, <1>6 DEF Noted
<1>11. \A i \in DOMAIN t.entries :
         IF t.entries[i].id = t.next_id - 1 THEN t.entries[i].op = posts + 1
         ELSE t.entries[i].spilled => notes[t.entries[i].id] = t.entries[i].op
  BY <1>3, <1>4, <1>6
<1>12. doc # Absent => \A i \in DOMAIN doc.entries : doc.entries[i].id < t.next_id - 1
  <2>1. t.next_id - 1 = s.next_id
    BY <1>3, <1>4
  <2>2. doc # Absent => doc.entries = s.entries
    BY <1>1 DEF FromDisk
  <2> QED
    BY <1>4, <2>1, <2>2 DEF IdsAreBelow
<1>13. Based(c)
  BY <1>5, <1>7, <1>8, <1>9, <1>10, <1>11, <1>12 DEF Based, NotedButLast
<1> QED
  BY <1>1, <1>2, <1>5, <1>13, BeginKeepsCopy

\* A call that adds no entry.
LEMMA NoEntryIsBased ==
  ASSUME OneCopy, NEW s, s.entries = <<>> \/ (doc # Absent /\ s.entries = doc.entries
                                             /\ s.next_id = doc.next_id),
         doc = Absent => s.entries = <<>>,
         doc # Absent => doc.status # "final" /\ s.entries = doc.entries,
         NEW c \in Call, c.at = "save", c.tool # "post", c.s = s
  PROVE  Based(c)
<1>1. CASE doc # Absent
  <2>1. s.entries = doc.entries /\ doc.status # "final" /\ IdsAreBelow(doc) /\ Noted(doc)
    BY <1>1 DEF OneCopy
  <2>2. DOMAIN s.entries = {} \/ s.next_id = doc.next_id
    OBVIOUS
  <2> QED
    BY <1>1, <2>1, <2>2 DEF Based, Continues, IdsAreBelow, Noted
<1>2. CASE doc = Absent
  <2>1. DOMAIN s.entries = {}
    BY <1>2
  <2> QED
    BY <1>2, <2>1 DEF Based, Continues, IdsAreBelow, Noted
<1> QED
  BY <1>1, <1>2

LEMMA StatusKeepsCopy ==
  ASSUME OneCopy, OneProcess, NEW p \in Proc, NEW mr \in RoundArg,
         Advance(p, mr) \/ Open(p, mr)
  PROVE  OneCopy'
<1> DEFINE s == get_or_create_session(p, mr)
<1>1. Loaded(s) /\ FromDisk(s) /\ EveryCopyIsSound'
  BY LoadedIsLoaded, LoadedFromDisk, AdvanceKeepsSound, OpenKeepsSound DEF OneCopy
<1>2. UNCHANGED <<doc, cache, notes, posts, posted>> /\ s.status # "final"
  <2>1. Open(p, mr) => s.status = "active"
    BY DEF Open, load_session, get_or_create_session, Fresh
  <2> QED
    BY <2>1 DEF Advance, MayAdvance, Open
<1>3. PICK t : /\ call' = [call EXCEPT ![p] = [at |-> "save", tool |-> "status", op |-> 0, s |-> t]]
               /\ t = s \/ t = [s EXCEPT !.round = @ + 1]
  BY DEF Advance, Open
<1> HIDE DEF s
<1>4. t.entries = s.entries /\ t.next_id = s.next_id
  BY <1>1, <1>3 DEF Loaded, Document
<1> DEFINE c == [at |-> "save", tool |-> "status", op |-> 0, s |-> t]
<1>5. c.at = "save" /\ c.tool = "status" /\ c.s = t
  OBVIOUS
<1>6. c = call'[p]
  BY <1>3 DEF OneCopy, EveryCopyIsSound, SessionTypeOK
<1> HIDE DEF c
<1>7. c \in Call
  BY <1>1, <1>6 DEF EveryCopyIsSound, SessionTypeOK
<1>8. Based(c)
  BY <1>1, <1>2, <1>4, <1>5, <1>7, NoEntryIsBased DEF FromDisk
<1> QED
  BY <1>1, <1>2, <1>3, <1>7, <1>8, BeginKeepsCopy DEF c

LEMMA FinalizeKeepsCopy ==
  ASSUME OneCopy, OneProcess, NEW p \in Proc, NEW r \in Result, Finalize(p, r)
  PROVE  OneCopy'
<1>1. /\ load_session(p) = doc /\ doc # Absent /\ Sound(doc) /\ EveryCopyIsSound'
      /\ UNCHANGED <<doc, cache, notes, posts, posted>>
  BY FinalizeKeepsSound DEF Finalize, load_session, OneCopy, EveryCopyIsSound
<1> DEFINE t == Closed(doc, r)
           c == [at |-> "save", tool |-> "finalize", op |-> 0, s |-> t]
<1>2. /\ t.entries = doc.entries /\ t.next_id = doc.next_id
      /\ doc.status = "final" => t = doc
  BY <1>1, ClosedIsSound DEF OneCopy
<1>3. CASE call' = call
  BY <1>1, <1>3 DEF OneCopy, PostsStay, Based, Continues, IdsAreBelow, Noted, NotedButLast
<1>4. CASE doc.status # "final" /\ call' = [call EXCEPT ![p] = c]
  <2>1. c.at = "save" /\ c.tool = "finalize" /\ c.s = t
    OBVIOUS
  <2> HIDE DEF t
  <2>2. c = call'[p]
    BY <1>4 DEF OneCopy, EveryCopyIsSound, SessionTypeOK
  <2> HIDE DEF c
  <2>3. c \in Call
    BY <1>1, <2>2 DEF EveryCopyIsSound, SessionTypeOK
  <2>4. Based(c)
    BY <1>1, <1>2, <1>4, <2>1, <2>3, NoEntryIsBased
  <2> QED
    BY <1>1, <1>4, <2>3, <2>4, BeginKeepsCopy
<1> QED
  BY <1>1, <1>2, <1>3, <1>4 DEF Finalize

LEMMA SpillKeepsCopy ==
  ASSUME OneCopy, OneProcess, NEW p \in Proc, Spill(p)
  PROVE  OneCopy'
<1> DEFINE c == [call[p] EXCEPT !.at = "save"]
           s == call[p].s
<1>1. /\ call[p] \in Call /\ call[p].at = "spill" /\ call[p].tool = "post" /\ Based(call[p])
      /\ s \in Document /\ s.next_id > 1 /\ s.next_id \in 1 .. MaxPosts + 1
      /\ call' = [call EXCEPT ![p] = c] /\ UNCHANGED <<doc, cache, posts, posted>>
      /\ notes' = [notes EXCEPT ![s.next_id - 1] = call[p].op]
  BY DEF OneCopy, EveryCopyIsSound, SessionTypeOK, Sound, Loaded, Document, Spill
<1>2. /\ c.at = "save" /\ c.tool = "post" /\ c.s = s /\ c.op = call[p].op
  BY <1>1 DEF Call
<1> HIDE DEF c
<1>3. \A q \in Proc : call'[q] = c
  BY <1>1 DEF OneCopy, EveryCopyIsSound, SessionTypeOK, OneProcess
<1>4. /\ notes'[s.next_id - 1] = call[p].op
      /\ \A i \in 1 .. MaxPosts : i # s.next_id - 1 => notes'[i] = notes[i]
  <2>1. notes \in [1 .. MaxPosts -> 0 .. MaxPosts] /\ s.next_id - 1 \in 1 .. MaxPosts
    BY <1>1, SessionAssumption DEF OneCopy, EveryCopyIsSound, SessionTypeOK
  <2> QED
    BY <1>1, <2>1
<1>5. \A t \in Document : \A i \in DOMAIN t.entries : t.entries[i].id \in 1 .. MaxPosts
  BY EntryHasId
<1>6. Noted(s)'
  <2>1. ASSUME NEW i \in DOMAIN s.entries, s.entries[i].spilled
        PROVE  notes'[s.entries[i].id] = s.entries[i].op
    BY <1>1, <1>4, <1>5, <2>1 DEF Based, NotedButLast
  <2> QED
    BY <1>1, <1>2, <1>3, <2>1 DEF Noted
<1>7. doc # Absent => IdsAreBelow(doc) /\ \A i \in DOMAIN doc.entries :
         doc.entries[i].spilled => notes'[doc.entries[i].id] = doc.entries[i].op
  <2> SUFFICES ASSUME doc # Absent, NEW i \in DOMAIN doc.entries, doc.entries[i].spilled
               PROVE  notes'[doc.entries[i].id] = doc.entries[i].op
    BY DEF OneCopy
  <2>1. doc \in Document /\ doc.entries[i].id < s.next_id - 1
    BY <1>1 DEF OneCopy, EveryCopyIsSound, Sound, Loaded, Based
  <2>2. doc.entries[i].id \in 1 .. MaxPosts /\ s.next_id \in Nat
    BY <1>1, <1>5, <2>1
  <2> QED
    BY <1>4, <2>1, <2>2 DEF OneCopy, Noted
<1>8. EveryCopyIsSound' /\ PostsStay'
  BY <1>1, SpillKeepsSound DEF OneCopy, PostsStay
<1>9. ASSUME NEW q \in Proc PROVE Based(call[q])'
  <2>1. q = p /\ UNCHANGED doc
    BY <1>1 DEF OneProcess
  <2>2. /\ call'[p].at = "save" /\ call'[p].tool = "post" /\ call'[p].s = call[p].s
        /\ call'[p].op = call[p].op
    BY <1>2, <1>3
  <2>3. /\ Continues(call[p].s) /\ IdsAreBelow(call[p].s)
        /\ \E i \in DOMAIN call[p].s.entries :
              call[p].s.entries[i].op = call[p].op /\ call[p].s.entries[i].id = call[p].s.next_id - 1
    BY <1>1 DEF Based
  <2>4. Continues(call[p].s)' /\ IdsAreBelow(call[p].s)'
    BY <2>1, <2>2, <2>3 DEF Continues, IdsAreBelow
  <2> QED
    BY <1>6, <2>1, <2>2, <2>3, <2>4 DEF Based
<1> QED
  BY <1>1, <1>7, <1>8, <1>9 DEF OneCopy, IdsAreBelow, Noted

LEMMA SaveKeepsCopy ==
  ASSUME OneCopy, OneProcess, NEW p \in Proc, Save(p)
  PROVE  OneCopy'
<1> DEFINE s == call[p].s
<1>1. /\ call[p] \in Call /\ call[p].at = "save" /\ Based(call[p]) /\ s # Absent
      /\ doc' = s /\ UNCHANGED <<notes, posts>>
  BY DEF OneCopy, EveryCopyIsSound, SessionTypeOK, Save
<1>2. \A q \in Proc : call'[q] = Idle /\ (cache'[q] = Absent \/ cache'[q] = doc')
  BY <1>1 DEF OneCopy, EveryCopyIsSound, SessionTypeOK, OneProcess, Save, KeptCopy
<1>3. EveryCopyIsSound'
  BY SaveKeepsSound DEF OneCopy
<1>4. IdsAreBelow(s) /\ Noted(s) /\ Continues(s)
  BY <1>1 DEF Based
<1>5. PostsStay'
  <2>1. ASSUME NEW x \in posted
        PROVE  \E i \in DOMAIN s.entries : s.entries[i].op = x.op /\ s.entries[i].id = x.id
    BY <1>4 DEF OneCopy, PostsStay, Continues
  <2>2. CASE call[p].tool = "post"
    <3>1. PICK i \in DOMAIN s.entries :
            s.entries[i].op = call[p].op /\ s.entries[i].id = s.next_id - 1
      BY <1>1, <2>2 DEF Based
    <3>2. posted' = posted \cup {[op |-> call[p].op, id |-> s.next_id - 1]}
      BY <2>2 DEF Save
    <3> QED
      BY <1>1, <2>1, <3>1, <3>2 DEF PostsStay
  <2>3. CASE call[p].tool # "post"
    BY <1>1, <2>1, <2>3 DEF Save, PostsStay
  <2> QED
    BY <2>2, <2>3
<1>6. IdsAreBelow(doc)' /\ Noted(doc)'
  BY <1>1, <1>4 DEF IdsAreBelow, Noted
<1>7. ASSUME NEW q \in Proc PROVE Based(call[q])'
  BY <1>2 DEF Based, Idle
<1> QED
  BY <1>2, <1>3, <1>5, <1>6, <1>7 DEF OneCopy

LEMMA DropKeepsCopy ==
  ASSUME OneCopy, NEW p \in Proc, cache' = [cache EXCEPT ![p] = Absent],
         call' = call \/ call' = [call EXCEPT ![p] = Idle], UNCHANGED <<doc, notes, posts, posted>>
  PROVE  OneCopy'
<1>1. EveryCopyIsSound' /\ PostsStay'
  BY DropKeepsSound DEF OneCopy, PostsStay
<1>2. \A q \in Proc : /\ cache'[q] = cache[q] \/ cache'[q] = Absent
                      /\ call'[q] = call[q] \/ call'[q].at = "idle"
  BY DEF OneCopy, EveryCopyIsSound, SessionTypeOK, Idle
<1>3. \A q \in Proc : Based(call[q])'
  BY <1>2 DEF OneCopy, Based, Continues, IdsAreBelow, Noted, NotedButLast
<1> QED
  BY <1>1, <1>2, <1>3 DEF OneCopy, IdsAreBelow, Noted

LEMMA CopyInit == SessionInit => OneCopy
BY SoundInit DEF SessionInit, OneCopy, PostsStay, Based, Idle

LEMMA CopyStep == OneProcess /\ OneCopy /\ [SessionNext]_sessionVars => OneCopy'
<1> SUFFICES ASSUME OneProcess, OneCopy, [SessionNext]_sessionVars PROVE OneCopy'
  OBVIOUS
<1>1. ASSUME UNCHANGED sessionVars PROVE OneCopy'
  <2>1. EveryCopyIsSound'
    BY <1>1, SoundStep DEF OneCopy
  <2> QED
    BY <1>1, <2>1 DEF sessionVars, OneCopy, PostsStay, Based, Continues, IdsAreBelow, Noted,
       NotedButLast
<1>2. ASSUME NEW p \in Proc, Read(p) \/ Restart(p) PROVE OneCopy'
  BY <1>2, DropKeepsCopy DEF Read, Restart
<1> QED
  BY <1>1, <1>2, PostKeepsCopy, StatusKeepsCopy, FinalizeKeepsCopy, SpillKeepsCopy,
     SaveKeepsCopy DEF SessionNext, Begin, Proceed

LEMMA AlwaysOneCopy ==
  ASSUME OneProcess
  PROVE  SessionSpec => []OneCopy
<1>1. OneCopy /\ [SessionNext]_sessionVars => OneCopy'
  BY CopyStep
<1> QED
  BY <1>1, CopyInit, PTL DEF SessionSpec

\* What mas_post has answered stays on the blackboard under its id, when one
\* process serves the session, however often it restarts and in the middle of what.
THEOREM PostsAreKept ==
  ASSUME OneProcess
  PROVE  SessionSpec => []PostsStay
<1>1. OneCopy => PostsStay
  BY DEF OneCopy
<1> QED
  BY <1>1, AlwaysOneCopy, PTL

\* A note_ref leads to the text of its entry, although the note is written before the
\* entry is saved, and a crash in between leaves a note that the next post overwrites.
THEOREM NotesAreRight ==
  ASSUME OneProcess
  PROVE  SessionSpec => []SpillsAreTheirs
<1>1. OneCopy => SpillsAreTheirs
  BY DEF OneCopy, Noted, SpillsAreTheirs
<1> QED
  BY <1>1, AlwaysOneCopy, PTL

\* A finalized session stays as it is.
THEOREM FinalStays ==
  ASSUME OneProcess
  PROVE  SessionSpec => FinalIsFinal
<1> DEFINE Kept == doc # Absent => (doc.status = "final" => doc' = doc)
<1>1. OneCopy /\ [SessionNext]_sessionVars => [Kept]_sessionVars
  <2> SUFFICES ASSUME OneCopy, SessionNext, doc # Absent, doc.status = "final", doc' # doc
               PROVE  FALSE
    OBVIOUS
  <2>1. PICK p \in Proc : Save(p)
    BY DEF SessionNext, Begin, Proceed, Post, Advance, Open, Read, Finalize, Spill, Restart
  <2> QED
    BY <2>1 DEF OneCopy, Save, Based, Continues
<1> QED
  BY <1>1, AlwaysOneCopy, PTL DEF SessionSpec, FinalIsFinal
=============================================================================
