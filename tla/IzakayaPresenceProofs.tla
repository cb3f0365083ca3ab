----------------------- MODULE IzakayaPresenceProofs -----------------------
(***************************************************************************)
(* Theorems about IzakayaPresence, for every set of sessions, agents and   *)
(* calls.                                                                  *)
(***************************************************************************)
EXTENDS IzakayaPresence, SequenceTheorems, FiniteSetTheorems, TLAPS

-----------------------------------------------------------------------------
(* The board: every operation on it yields a board. *)

LEMMA EmptyBoardOK == EmptyBoard \in Board
  BY DEF EmptyBoard, Board

\* A sequence changed in place is a sequence over the same set.
LEMMA InPlace ==
  ASSUME NEW S, NEW s \in Seq(S), NEW t \in [1 .. Len(s) -> S]
  PROVE  t \in Seq(S) /\ Len(t) = Len(s)
  BY LenProperties, SeqDef

LEMMA PushBoundedOK ==
  ASSUME NEW S, NEW s \in Seq(S), NEW x \in S, NEW max \in Nat \ {0}
  PROVE  PushBounded(s, x, max) \in Seq(S)
  BY DEF PushBounded

LEMMA AcceptingOK ==
  ASSUME NEW hs \in Seq(Handoff), NEW id, NEW agent \in Agent
  PROVE  Accepting(hs, id, agent) \in Seq(Handoff)
<1> DEFINE open == {i \in DOMAIN hs : hs[i].id = id /\ Offered(hs[i])}
           first == CHOOSE i \in open : \A j \in open : i <= j
           taken == [hs EXCEPT ![first].accepted_by = agent]
<1> HIDE DEF open, first
<1>1. hs \in [1 .. Len(hs) -> Handoff]
  BY LenProperties
<1>2. \A h \in Handoff : [h EXCEPT !.accepted_by = agent] \in Handoff
  BY DEF Handoff
<1>3. taken \in [1 .. Len(hs) -> Handoff]
  BY <1>1, <1>2
<1>4. taken \in Seq(Handoff)
  BY <1>3, InPlace
<1> QED
  BY <1>4 DEF Accepting, open, first

LEMMA AckedOK ==
  ASSUME NEW ms \in Seq(Note), NEW seqs, NEW agent
  PROVE  Acked(ms, seqs, agent) \in Seq(Note)
<1>1. ms \in [1 .. Len(ms) -> Note] /\ DOMAIN ms = 1 .. Len(ms)
  BY LenProperties
<1>2. \A m \in Note : [m EXCEPT !.acked = TRUE] \in Note
  BY DEF Note
<1>3. Acked(ms, seqs, agent) \in [1 .. Len(ms) -> Note]
  BY <1>1, <1>2 DEF Acked
<1> QED
  BY <1>3, InPlace

\* A board differs from another only in the fields an operation assigns.
LEMMA BoardFields ==
  ASSUME NEW b \in Board
  PROVE  /\ b.seq \in Nat
         /\ b.agents \in [Agent -> AgentRecord \cup {Absent}]
         /\ b.handoffs \in Seq(Handoff)
         /\ b.messages \in Seq(Note)
         /\ b.policies \in Seq(PolicyRecord)
         /\ b.active_policy \in Policy \cup {NoPolicy}
         /\ b.idempotency \in [Key -> Nat]
  BY DEF Board

LEMMA CheckInOK ==
  ASSUME NEW b \in Board, NEW e \in Event, e.kind = "check_in"
  PROVE  apply_check_in(b, e) \in Board
<1>1. e.agent \in Agent /\ e.lease \in Lease /\ e.ts \in Nat /\ e.body \in CheckInBody
  BY DEF Event
<1>2. CheckedIn(e) \in AgentRecord
  BY <1>1 DEF CheckedIn, CheckInBody, AgentRecord, AgentState, LiveState
<1>3. Accepting(b.handoffs, e.body.accept_handoff, e.agent) \in Seq(Handoff)
  BY <1>1, AcceptingOK, BoardFields
<1> QED
  BY <1>1, <1>2, <1>3 DEF apply_check_in, Board

LEMMA NoteOK ==
  ASSUME NEW e \in Event, e.kind = "update"
  PROVE  NoteOf(e) \in Note
  BY DEF NoteOf, Note, Event, UpdateBody

LEMMA UpdateOK ==
  ASSUME NEW b \in Board, NEW e \in Event, e.kind = "update"
  PROVE  apply_update(b, e) \in Board
<1> DEFINE ms == Acked(PushBounded(b.messages, NoteOf(e), MaxMessages),
                       e.body.ack_seqs, e.agent)
<1>1. e.agent \in Agent /\ e.lease \in Lease /\ e.ts \in Nat /\ e.body \in UpdateBody
  BY DEF Event
<1>2. ASSUME NEW a \in AgentRecord
      PROVE  Updated(a, e) \in AgentRecord
  BY <1>1 DEF Updated, UpdateBody, AgentRecord, AgentState, MaybePaths
<1>3. ms \in Seq(Note)
  BY NoteOK, AckedOK, PushBoundedOK, BoardFields, LimitAssumption
<1> QED
  BY <1>1, <1>2, <1>3 DEF apply_update, Board

LEMMA CheckOutOK ==
  ASSUME NEW b \in Board, NEW e \in Event, e.kind = "check_out"
  PROVE  apply_check_out(b, e) \in Board
<1>1. e.agent \in Agent /\ e.ts \in Nat /\ e.body \in CheckOutBody
  BY DEF Event
<1>2. ASSUME NEW a \in AgentRecord
      PROVE  CheckedOut(a, e) \in AgentRecord
  BY <1>1 DEF CheckedOut, CheckOutBody, AgentRecord, AgentState
<1>3. e.body.handoff # None => CapsuleOf(e) \in Handoff
  BY <1>1 DEF CapsuleOf, CheckOutBody, Handoff
<1>4. e.body.handoff # None =>
        PushBounded(b.handoffs, CapsuleOf(e), MaxHandoffs) \in Seq(Handoff)
  BY <1>3, PushBoundedOK, BoardFields, LimitAssumption
<1> QED
  BY <1>1, <1>2, <1>4 DEF apply_check_out, Board

LEMMA RetiredOK ==
  ASSUME NEW ps \in Seq(PolicyRecord), NEW which
  PROVE  /\ Retired(ps, which) \in Seq(PolicyRecord)
         /\ Len(Retired(ps, which)) = Len(ps)
<1>1. ps \in [1 .. Len(ps) -> PolicyRecord] /\ DOMAIN ps = 1 .. Len(ps)
  BY LenProperties
<1>2. \A p \in PolicyRecord : [p EXCEPT !.status = "retired"] \in PolicyRecord
  BY DEF PolicyRecord
<1>3. Retired(ps, which) \in [1 .. Len(ps) -> PolicyRecord]
  BY <1>1, <1>2 DEF Retired
<1> QED
  BY <1>3, InPlace

LEMMA PolicyOK ==
  ASSUME NEW b \in Board, NEW e \in Event,
         e.kind \in {"policy_promote", "policy_retire"}
  PROVE  apply_promote(b, e) \in Board /\ apply_retire(b, e) \in Board
<1>1. e.body.id \in Policy
  BY DEF Event
<1>2. [id |-> e.body.id, status |-> "active"] \in PolicyRecord
  BY <1>1 DEF PolicyRecord
<1>3. \A which : Retired(b.policies, which) \in Seq(PolicyRecord)
  BY RetiredOK, BoardFields
<1>4. Append(Retired(b.policies, ActiveOnes(b.policies)),
             [id |-> e.body.id, status |-> "active"]) \in Seq(PolicyRecord)
  BY <1>2, <1>3
<1>5. apply_promote(b, e) \in Board
  BY <1>1, <1>4 DEF apply_promote, Board
<1>6. apply_retire(b, e) \in Board
  BY <1>1, <1>3 DEF apply_retire, Board
<1> QED
  BY <1>5, <1>6

\* Remembering a key writes its seq and forgets at most one key.
LEMMA RememberOK ==
  ASSUME NEW idem \in [Key -> Nat], NEW key \in Key, NEW seq \in Nat
  PROVE  /\ Remember(idem, key, seq) \in [Key -> Nat]
         /\ \A k \in Key : Remember(idem, key, seq)[k] \in {0, seq, idem[k]}
  BY DEF Remember

LEMMA KindOK ==
  ASSUME NEW b \in Board, NEW e \in Event
  PROVE  apply_kind(b, e) \in Board
<1>1. e.kind \in {"check_in", "update", "check_out",
                  "policy_promote", "policy_retire"}
  BY DEF Event
<1> QED
  BY <1>1, CheckInOK, UpdateOK, CheckOutOK, PolicyOK DEF apply_kind

\* Applying an event gives a board with the event's seq, whose key table
\* differs at most by what the event's key does to it.
LEMMA ApplyOK ==
  ASSUME NEW b \in Board, NEW e \in Event
  PROVE  /\ apply(b, e) \in Board
         /\ apply(b, e).seq = e.seq
         /\ apply(b, e).idempotency =
              IF e.key = NoKey THEN b.idempotency
              ELSE Remember(b.idempotency, e.key, e.seq)
<1>1. apply_kind(b, e) \in Board
  BY KindOK
<1>2. apply_kind(b, e).idempotency = b.idempotency
  <2>1. e.kind \in {"check_in", "update", "check_out",
                    "policy_promote", "policy_retire"}
    BY DEF Event
  <2> QED
    BY <2>1 DEF apply_kind, apply_check_in, apply_update, apply_check_out,
                apply_promote, apply_retire, Board
<1>3. e.seq \in Nat /\ e.key \in MaybeKey
  BY DEF Event, MaybeKey
<1>4. e.key # NoKey => Remember(b.idempotency, e.key, e.seq) \in [Key -> Nat]
  BY <1>3, RememberOK, BoardFields DEF MaybeKey
<1> QED
  BY <1>1, <1>2, <1>3, <1>4 DEF apply, Board

\* Garbage collection touches agents only.
LEMMA GcOK ==
  ASSUME NEW b \in Board, NEW t \in Nat
  PROVE  /\ gc_projection(b, t) \in Board
         /\ gc_projection(b, t).seq = b.seq
         /\ gc_projection(b, t).idempotency = b.idempotency
         /\ gc_projection(b, t).policies = b.policies
         /\ gc_projection(b, t).active_policy = b.active_policy
<1>1. \A a \in AgentRecord : [a EXCEPT !.claims = {}, !.dirty = {}] \in AgentRecord
  BY DEF AgentRecord
<1>2. \A a \in Present(b) : b.agents[a] \in AgentRecord
  BY BoardFields DEF Present
<1> QED
  BY <1>1, <1>2 DEF gc_projection, Board

-----------------------------------------------------------------------------
(* The inductive invariant.  Types alone are not inductive: a repeated call *)
(* is answered from the journal, at the place its key's entry names, so the *)
(* entries must point into the journal, and the journal must be as long as  *)
(* the board's sequence number says.                                        *)

KeysInRange == \A k \in Key : board.idempotency[k] \in 0 .. Len(journal)

IInv == TypeOK /\ SequenceIsDense /\ KeysInRange

LEMMA InitIInv == Init => IInv
<1> SUFFICES ASSUME Init PROVE IInv
  OBVIOUS
<1>1. TypeOK
  BY EmptyBoardOK, EmptySeq DEF Init, TypeOK, LeaseOrNone
<1>2. SequenceIsDense /\ KeysInRange
  BY DEF Init, EmptyBoard, SequenceIsDense, KeysInRange
<1> QED
  BY <1>1, <1>2 DEF IInv

LEMMA LoadedOK ==
  ASSUME TypeOK
  PROVE  /\ Loaded \in Board
         /\ Loaded.seq = board.seq
         /\ Loaded.idempotency = board.idempotency
         /\ Loaded.policies = board.policies
         /\ Loaded.active_policy = board.active_policy
  BY GcOK DEF TypeOK, Loaded

LEMMA HearOK ==
  ASSUME TypeOK, NEW s \in Session, NEW e \in Event, Hear(s, e)
  PROVE  held' \in [Session -> LeaseOrNone] /\ seen' \in [Session -> Nat]
<1>1. e.kind \in {"check_in", "update"} => e.lease \in Lease /\ e.body.revision \in Nat
  BY DEF Event, CheckInBody, UpdateBody
<1> QED
  BY <1>1 DEF Hear, TypeOK, LeaseOrNone

\* What a repeated key is answered with is an event of the journal.
LEMMA FirstOK ==
  ASSUME IInv, NEW key \in MaybeKey, Remembered(Loaded, key)
  PROVE  First(Loaded, key) \in Event
<1>1. key \in Key /\ board.idempotency[key] \in 1 .. Len(journal)
  BY LoadedOK DEF IInv, KeysInRange, Remembered, MaybeKey, TypeOK
<1> QED
  BY <1>1, LoadedOK, ElementOfSeq DEF IInv, TypeOK, First

\* A call only writes back the collected board.
LEMMA StartOK ==
  ASSUME IInv, NEW s \in Session, NEW r, Start(s, r)
  PROVE  /\ board' \in Board /\ journal' \in Seq(Event) /\ now' \in Nat
         /\ SequenceIsDense' /\ KeysInRange'
         /\ r \in Calls
  BY LoadedOK DEF IInv, Start, TypeOK, SequenceIsDense, KeysInRange

LEMMA PrepareOK ==
  ASSUME IInv, NEW s \in Session, NEW r,
         Start(s, r),
         NEW e \in Prepared \cup Advice, Prepare(s, r, e),
         UNCHANGED <<held, seen>>
  PROVE  IInv'
<1>1. [args |-> r, event |-> e] \in Pending
  BY DEF Pending, Start
<1>2. call' \in [Session -> Pending \cup {NoCall}]
  BY <1>1 DEF Prepare, IInv, TypeOK
<1> QED
  BY <1>2, StartOK DEF IInv, TypeOK

LEMMA RepeatStep ==
  ASSUME IInv, NEW s \in Session, NEW r, Repeat(s, r)
  PROVE  IInv'
<1>1. r.key \in MaybeKey
  BY CallAssumption DEF Repeat, Start, CheckInArgs, UpdateArgs, CheckOutArgs,
                        PolicyArgs, AdviseArgs
<1>2. First(Loaded, r.key) \in Event
  BY <1>1, FirstOK DEF Repeat
<1>3. held' \in [Session -> LeaseOrNone] /\ seen' \in [Session -> Nat]
  BY <1>2, HearOK DEF Repeat, IInv
<1> QED
  BY <1>3, StartOK DEF Repeat, IInv, TypeOK

LEMMA RevisionOK ==
  ASSUME TypeOK, NEW id \in Agent
  PROVE  Revision(Loaded.agents[id]) \in Nat
  BY LoadedOK, BoardFields DEF Revision, AgentRecord

LEMMA CheckInStep ==
  ASSUME IInv, NEW s \in Session, NEW r, CheckIn(s, r)
  PROVE  IInv'
<1> DEFINE id == AgentOf[s]
           a == Loaded.agents[id]
           revision == Revision(a) + 1
           ttl == IF r.ttl = 0 THEN DefaultTtl ELSE r.ttl
<1>1. Start(s, r) /\ r \in CheckInArgs
  BY CallAssumption DEF CheckIn, Start, CheckInArgs, UpdateArgs, CheckOutArgs,
                        PolicyArgs, AdviseArgs
<1>2. id \in Agent /\ revision \in Nat /\ ttl \in Nat /\ now \in Nat
  BY <1>1, RevisionOK, SessionAssumption, TtlAssumption DEF IInv, TypeOK, CheckInArgs
<1>3. \A h \in Range(Loaded.handoffs) : h.id \in Nat
  <2>1. Loaded.handoffs \in Seq(Handoff)
    BY LoadedOK, BoardFields DEF IInv
  <2>2. Range(Loaded.handoffs) \subseteq Handoff
    BY <2>1, RangeOfSeq
  <2> QED
    BY <2>2 DEF Handoff
<1>4. Resumes(s, r, a) => a.lease \in Lease
  BY <1>2, LoadedOK, BoardFields DEF IInv, Resumes, Active, AgentRecord
<1>5. new_lease(id, revision, now) \in Lease
  BY <1>2 DEF new_lease, Lease
<1>6. PICK accept \in {None} \cup {h.id : h \in Range(Loaded.handoffs)} :
        Prepare(s, r,
          [kind |-> "check_in", agent |-> id,
           lease |-> IF Resumes(s, r, a) THEN a.lease
                     ELSE new_lease(id, revision, now),
           key |-> r.key,
           body |-> [revision |-> revision, expires_at |-> now + ttl,
                     ttl |-> ttl, claims |-> r.claims, dirty |-> r.dirty,
                     saved |-> r.saved, accept_handoff |-> accept]])
  BY DEF CheckIn
<1> DEFINE body == [revision |-> revision, expires_at |-> now + ttl,
                    ttl |-> ttl, claims |-> r.claims, dirty |-> r.dirty,
                    saved |-> r.saved, accept_handoff |-> accept]
           lease == IF Resumes(s, r, a) THEN a.lease
                    ELSE new_lease(id, revision, now)
           e == [kind |-> "check_in", agent |-> id, lease |-> lease,
                 key |-> r.key, body |-> body]
<1>7. lease \in Lease
  BY <1>4, <1>5
<1>8. accept \in Nat \cup {None}
  BY <1>3, <1>6
<1>9. body \in CheckInBody
  BY <1>1, <1>2, <1>8 DEF CheckInBody, CheckInArgs
<1> HIDE DEF body, lease, id, revision, ttl
<1>10. e \in Prepared
  BY <1>1, <1>2, <1>7, <1>9 DEF Prepared, CheckInArgs
<1>11. Prepare(s, r, e) /\ UNCHANGED <<held, seen>>
  BY <1>6 DEF CheckIn, body, lease, id, revision, ttl
<1> HIDE DEF e
<1> QED
  BY <1>1, <1>10, <1>11, PrepareOK

LEMMA UpdateStep ==
  ASSUME IInv, NEW s \in Session, NEW r, Update(s, r)
  PROVE  IInv'
<1> DEFINE id == AgentOf[s]
           a == Loaded.agents[id]
           to == IF r.state = None THEN a.state ELSE r.state
           saved == r.saved \/ a.saved
           acks == IF r.ack THEN {m.seq : m \in Range(Loaded.messages)} ELSE {}
           body == [revision |-> a.revision + 1, state |-> to,
                    expires_at |-> now + TtlAfter(r, a, to), claims |-> r.claims,
                    dirty |-> r.dirty, saved |-> saved, note |-> r.note,
                    ack_seqs |-> acks]
           e == [kind |-> "update", agent |-> id, lease |-> held[s],
                 key |-> r.key, body |-> body]
<1>1. Start(s, r) /\ r \in UpdateArgs
  BY CallAssumption DEF Update, Start, CheckInArgs, UpdateArgs, CheckOutArgs,
                        PolicyArgs, AdviseArgs
<1>2. id \in Agent /\ now \in Nat
  BY SessionAssumption DEF IInv, TypeOK
<1>3. a \in AgentRecord /\ held[s] = a.lease
  BY <1>2, LoadedOK, BoardFields DEF IInv, Update, HoldsLease, Active
<1>4. to \in LiveState
  BY <1>1, <1>3 DEF Update, UpdateArgs, AgentRecord, AgentState
<1>5. TtlAfter(r, a, to) \in Nat
  BY <1>1, <1>3, TtlAssumption DEF TtlAfter, UpdateArgs, AgentRecord
<1>6. acks \in SUBSET Nat
  <2>1. Loaded.messages \in Seq(Note)
    BY LoadedOK, BoardFields DEF IInv
  <2>2. Range(Loaded.messages) \subseteq Note
    BY <2>1, RangeOfSeq
  <2> QED
    BY <2>2 DEF Note
<1>7. saved \in BOOLEAN
  BY <1>1, <1>3 DEF UpdateArgs, AgentRecord
<1>8. a.revision + 1 \in Nat /\ now + TtlAfter(r, a, to) \in Nat /\ a.lease \in Lease
  BY <1>2, <1>3, <1>5 DEF AgentRecord
<1>9. Prepare(s, r, e) /\ UNCHANGED <<held, seen>>
  BY DEF Update
<1> HIDE DEF id, a, to, saved, acks
<1>10. body \in UpdateBody
  BY <1>1, <1>4, <1>6, <1>7, <1>8 DEF UpdateBody, UpdateArgs
<1> HIDE DEF body
<1>11. e \in Prepared
  BY <1>1, <1>2, <1>3, <1>8, <1>10 DEF Prepared, UpdateArgs
<1> HIDE DEF e
<1> QED
  BY <1>1, <1>9, <1>11, PrepareOK

LEMMA LearnLeaseStep ==
  ASSUME IInv, NEW s \in Session, NEW r, LearnLease(s, r)
  PROVE  IInv'
<1>1. Loaded.agents[AgentOf[s]] \in AgentRecord
  BY SessionAssumption, LoadedOK, BoardFields DEF LearnLease, Active, IInv
<1>2. held' \in [Session -> LeaseOrNone]
  BY <1>1 DEF LearnLease, IInv, TypeOK, LeaseOrNone, AgentRecord
<1> QED
  BY <1>2, StartOK DEF LearnLease, IInv, TypeOK

LEMMA CheckOutStep ==
  ASSUME IInv, NEW s \in Session, NEW r, CheckOut(s, r)
  PROVE  IInv'
<1> DEFINE id == AgentOf[s]
           a == Loaded.agents[id]
           capsule == IF r.handoff = None THEN None
                      ELSE [id |-> Loaded.seq + 1, to |-> r.handoff]
           body == [revision |-> a.revision + 1, handoff |-> capsule]
           e == [kind |-> "check_out", agent |-> id, lease |-> held[s],
                 key |-> r.key, body |-> body]
<1>1. Start(s, r) /\ r \in CheckOutArgs
  BY CallAssumption DEF CheckOut, Start, CheckInArgs, UpdateArgs, CheckOutArgs,
                        PolicyArgs, AdviseArgs
<1>2. id \in Agent
  BY SessionAssumption
<1>3. a \in AgentRecord /\ held[s] = a.lease
  BY <1>2, LoadedOK, BoardFields DEF IInv, CheckOut, HoldsLease, Active
<1>4. a.revision + 1 \in Nat /\ held[s] \in Lease
  BY <1>3 DEF AgentRecord
<1>5. capsule \in [id: Nat, to: Agent \cup {Nobody}] \cup {None}
  BY <1>1, LoadedOK, BoardFields DEF IInv, CheckOutArgs
<1>6. Prepare(s, r, e) /\ UNCHANGED <<held, seen>>
  BY DEF CheckOut
<1> HIDE DEF id, a, capsule
<1>7. body \in CheckOutBody
  BY <1>4, <1>5 DEF CheckOutBody
<1> HIDE DEF body
<1>8. e \in Prepared
  BY <1>1, <1>2, <1>4, <1>7 DEF Prepared, CheckOutArgs
<1> HIDE DEF e
<1> QED
  BY <1>1, <1>6, <1>8, PrepareOK

LEMMA PolicyStep ==
  ASSUME IInv, NEW s \in Session, NEW r, Promote(s, r) \/ Retire(s, r)
  PROVE  IInv'
<1>1. Start(s, r) /\ r \in PolicyArgs
  BY CallAssumption DEF Promote, Retire, Start, CheckInArgs, UpdateArgs,
                        CheckOutArgs, PolicyArgs, AdviseArgs
<1>2. PICK kind \in {"policy_promote", "policy_retire"} :
        Prepare(s, r, PolicyEvent(kind, r.id)) /\ UNCHANGED <<held, seen>>
  BY DEF Promote, Retire
<1>3. PolicyEvent(kind, r.id) \in Prepared
  BY <1>1 DEF PolicyEvent, Prepared, PolicyArgs
<1> QED
  BY <1>1, <1>2, <1>3, PrepareOK

LEMMA AdviseStep ==
  ASSUME IInv, NEW s \in Session, NEW r, Advise(s, r)
  PROVE  IInv'
<1>1. [kind |-> "advise", seq |-> Loaded.seq] \in Advice
  BY LoadedOK, BoardFields DEF IInv, Advice
<1> QED
  BY <1>1, PrepareOK DEF Advise

LEMMA BeginStep ==
  ASSUME IInv, NEW s \in Session, NEW r, Begin(s, r)
  PROVE  IInv'
  BY RepeatStep, CheckInStep, UpdateStep, LearnLeaseStep, CheckOutStep,
     PolicyStep, AdviseStep
  DEF Begin

\* Steps that write back the collected board and append nothing.
LEMMA LoadStep ==
  ASSUME IInv, board' = Loaded, UNCHANGED <<journal, now>>,
         call' \in [Session -> Pending \cup {NoCall}],
         held' \in [Session -> LeaseOrNone], seen' \in [Session -> Nat]
  PROVE  IInv'
  BY LoadedOK DEF IInv, TypeOK, SequenceIsDense, KeysInRange

LEMMA Released ==
  ASSUME TypeOK, NEW s \in Session
  PROVE  [call EXCEPT ![s] = NoCall] \in [Session -> Pending \cup {NoCall}]
  BY DEF TypeOK

\* The event a committing session holds is not an advice.
LEMMA CommittingOK ==
  ASSUME TypeOK, NEW s \in Session, Committing(s)
  PROVE  call[s].event \in Prepared /\ call[s].event.key \in MaybeKey
  BY DEF TypeOK, Committing, Pending, Advice, Prepared, MaybeKey

LEMMA StampedOK ==
  ASSUME NEW p \in Prepared, NEW b \in Board, now \in Nat
  PROVE  /\ Stamped(p, b) \in Event
         /\ Stamped(p, b).seq = b.seq + 1
         /\ Stamped(p, b).key = p.key
<1>1. b.seq + 1 \in Nat
  BY BoardFields
<1> QED
  BY <1>1 DEF Stamped, Prepared, Event

LEMMA CommitAppendStep ==
  ASSUME IInv, NEW s \in Session, NEW heard \in Replies, CommitAppend(s, heard)
  PROVE  IInv'
<1> DEFINE p == call[s].event
           e == Stamped(p, Loaded)
<1>1. p \in Prepared /\ p.key \in MaybeKey /\ now \in Nat /\ Loaded \in Board
  BY CommittingOK, LoadedOK DEF CommitAppend, IInv, TypeOK
<1>2. e \in Event /\ e.seq = Len(journal) + 1
  BY <1>1, StampedOK, LoadedOK DEF IInv, SequenceIsDense
<1> HIDE DEF p
<1>3. /\ board' = Committed(Loaded, e) /\ journal' = Append(journal, e)
      /\ call' = [call EXCEPT ![s] = NoCall] /\ now' = now
      /\ Hear(s, e) \/ UNCHANGED <<held, seen>>
  BY DEF CommitAppend, p
<1> HIDE DEF e
<1>4. /\ board' \in Board
      /\ board'.seq = e.seq
      /\ board'.idempotency = IF e.key = NoKey THEN Loaded.idempotency
                              ELSE Remember(Loaded.idempotency, e.key, e.seq)
  <2>1. /\ apply(Loaded, e) \in Board
        /\ apply(Loaded, e).seq = e.seq
        /\ apply(Loaded, e).idempotency =
             IF e.key = NoKey THEN Loaded.idempotency
             ELSE Remember(Loaded.idempotency, e.key, e.seq)
    BY <1>1, <1>2, ApplyOK
  <2>2. board' = gc_projection(apply(Loaded, e), now)
    BY <1>3 DEF Committed
  <2> HIDE DEF e
  <2> QED
    BY <1>1, <2>1, <2>2, GcOK
<1>5. journal' \in Seq(Event) /\ Len(journal') = Len(journal) + 1
      /\ \A i \in DOMAIN journal' :
            journal'[i] = IF i = Len(journal) + 1 THEN e ELSE journal[i]
  BY <1>2, <1>3, AppendProperties DEF IInv, TypeOK
<1>6. held' \in [Session -> LeaseOrNone] /\ seen' \in [Session -> Nat]
  BY <1>2, <1>3, HearOK DEF IInv, TypeOK
<1>7. TypeOK'
  BY <1>3, <1>4, <1>5, <1>6, Released DEF IInv, TypeOK
<1>8. SequenceIsDense'
  BY <1>2, <1>4, <1>5 DEF IInv, SequenceIsDense, TypeOK
<1>9. KeysInRange'
  <2>1. e.key \in MaybeKey
    BY <1>2 DEF Event, MaybeKey
  <2>2. Loaded.idempotency = board.idempotency /\ board.idempotency \in [Key -> Nat]
    BY LoadedOK, BoardFields DEF IInv, TypeOK
  <2>3. \A k \in Key : board'.idempotency[k] \in {0, e.seq, board.idempotency[k]}
    <3>1. CASE e.key = NoKey
      BY <1>4, <2>2, <3>1
    <3>2. CASE e.key \in Key
      <4>1. e.seq \in Nat
        BY <1>2 DEF Event
      <4>2. \A k \in Key : Remember(board.idempotency, e.key, e.seq)[k]
                             \in {0, e.seq, board.idempotency[k]}
        BY <2>2, <3>2, <4>1, RememberOK
      <4> QED
        BY <1>4, <2>2, <3>2, <4>2, SentinelAssumption
    <3> QED
      BY <2>1, <3>1, <3>2 DEF MaybeKey
  <2>4. Len(journal) \in Nat /\ \A k \in Key : board.idempotency[k] \in 0 .. Len(journal)
    BY LenProperties DEF IInv, KeysInRange, TypeOK
  <2>5. \A k \in Key : board'.idempotency[k] \in 0 .. Len(journal')
    BY <1>2, <1>5, <2>3, <2>4
  <2> QED
    BY <2>5 DEF KeysInRange
<1> QED
  BY <1>7, <1>8, <1>9 DEF IInv

LEMMA FinishStep ==
  ASSUME IInv, NEW s \in Session, Finish(s)
  PROVE  IInv'
<1>1. CASE AdviseAgain(s)
  BY <1>1, LoadStep, Released DEF AdviseAgain, IInv, TypeOK
<1>2. CASE CommitRepeat(s)
  <2>1. First(Loaded, call[s].event.key) \in Event
    BY <1>2, CommittingOK, FirstOK DEF CommitRepeat, AlreadyCommitted, IInv
  <2>2. held' \in [Session -> LeaseOrNone] /\ seen' \in [Session -> Nat]
    BY <1>2, <2>1, HearOK DEF CommitRepeat, IInv
  <2> QED
    BY <1>2, <2>2, LoadStep, Released DEF CommitRepeat, IInv
<1>3. CASE CommitPanic(s)
  BY <1>3, LoadStep, Released DEF CommitPanic, IInv, TypeOK
<1>4. CASE \E heard \in Replies : CommitAppend(s, heard)
  BY <1>4, CommitAppendStep
<1>5. CASE Abandon(s)
  BY <1>5, Released DEF Abandon, IInv, TypeOK, SequenceIsDense, KeysInRange
<1> QED
  BY <1>1, <1>2, <1>3, <1>4, <1>5 DEF Finish

LEMMA NextIInv == IInv /\ [Next]_vars => IInv'
<1> SUFFICES ASSUME IInv, [Next]_vars
             PROVE  IInv'
  OBVIOUS
<1>1. CASE \E s \in Session : Finish(s) \/ \E r \in Calls : Begin(s, r)
  BY <1>1, FinishStep, BeginStep
<1>2. CASE Status
  BY <1>2, LoadStep DEF Status, IInv, TypeOK
<1>3. CASE Tick
  BY <1>3 DEF Tick, IInv, TypeOK, SequenceIsDense, KeysInRange
<1>4. CASE UNCHANGED vars
  BY <1>4 DEF vars, IInv, TypeOK, SequenceIsDense, KeysInRange
<1> QED
  BY <1>1, <1>2, <1>3, <1>4 DEF Next

LEMMA AlwaysIInv == Spec => []IInv
  BY InitIInv, NextIInv, PTL DEF Spec

\* The board, the journal, the clock and what the sessions hold keep their
\* types: no interleaving of the sessions' two critical sections writes a
\* malformed board, and a repeated key is always answered from the journal.
THEOREM TypeCorrect == Spec => []TypeOK
  BY AlwaysIInv, PTL DEF IInv

\* The journal numbers its events without a gap or a repetition, whoever
\* commits and however old the board a call was validated against.
THEOREM DenseSequence == Spec => []SequenceIsDense
  BY AlwaysIInv, PTL DEF IInv

-----------------------------------------------------------------------------
(* Two more invariants, each inductive relative to IInv. *)

\* A step appends one event, or leaves the journal, the keys and the policies
\* alone.
Quiet ==
    /\ journal' = journal
    /\ board'.idempotency = board.idempotency
    /\ board'.policies = board.policies
    /\ board'.active_policy = board.active_policy

LEMMA QuietOrAppend ==
  ASSUME IInv, [Next]_vars
  PROVE  Quiet \/ \E s \in Session, heard \in Replies : CommitAppend(s, heard)
<1>1. ASSUME board' = Loaded, journal' = journal
      PROVE  Quiet
  BY <1>1, LoadedOK DEF IInv, Quiet
<1>2. CASE \E s \in Session, r \in Calls : Begin(s, r)
  BY <1>1, <1>2 DEF Begin, Repeat, CheckIn, Update, LearnLease, CheckOut,
                    Promote, Retire, Advise, Start, Quiet
<1>3. CASE \E s \in Session : AdviseAgain(s) \/ CommitRepeat(s) \/ CommitPanic(s)
  BY <1>1, <1>3 DEF AdviseAgain, CommitRepeat, CommitPanic
<1>4. CASE Status
  BY <1>1, <1>4 DEF Status
<1>5. CASE UNCHANGED <<board, journal>>
  BY <1>5 DEF Quiet
<1> QED
  BY <1>2, <1>3, <1>4, <1>5 DEF Next, Finish, Abandon, Tick, vars

\* What an append does to the board, in terms of the event appended.
LEMMA AppendEffect ==
  ASSUME IInv, NEW s \in Session, NEW heard \in Replies, CommitAppend(s, heard)
  PROVE  \E e \in Event :
           /\ journal' = Append(journal, e)
           /\ e.seq = Len(journal) + 1
           /\ e.key = NoKey \/ (e.key \in Key /\ board.idempotency[e.key] = 0)
           /\ board'.idempotency = apply(Loaded, e).idempotency
           /\ board'.policies = apply(Loaded, e).policies
           /\ board'.active_policy = apply(Loaded, e).active_policy
<1> DEFINE p == call[s].event
           e == Stamped(p, Loaded)
<1>1. p \in Prepared /\ p.key \in MaybeKey /\ now \in Nat /\ Loaded \in Board
  BY CommittingOK, LoadedOK DEF CommitAppend, IInv, TypeOK
<1>2. e \in Event /\ e.seq = Len(journal) + 1 /\ e.key = p.key
  BY <1>1, StampedOK, LoadedOK DEF IInv, SequenceIsDense
<1>3. e.key = NoKey \/ (e.key \in Key /\ board.idempotency[e.key] = 0)
  BY <1>1, <1>2, LoadedOK DEF CommitAppend, AlreadyCommitted, Remembered, MaybeKey, IInv
<1>4. journal' = Append(journal, e) /\ board' = gc_projection(apply(Loaded, e), now)
  BY DEF CommitAppend, Committed
<1> HIDE DEF p, e
<1>5. apply(Loaded, e) \in Board
  BY <1>1, <1>2, ApplyOK
<1>6. /\ board'.idempotency = apply(Loaded, e).idempotency
      /\ board'.policies = apply(Loaded, e).policies
      /\ board'.active_policy = apply(Loaded, e).active_policy
  BY <1>1, <1>4, <1>5, GcOK
<1> QED
  BY <1>2, <1>3, <1>4, <1>6

(* Keys *)

\* There are no more keys than the table holds, so none is forgotten.
FewKeys == IsFiniteSet(Key) /\ Cardinality(Key) <= MaxIdempotency

LEMMA NothingForgotten ==
  ASSUME FewKeys, NEW idem \in [Key -> Nat], NEW key \in Key, NEW seq \in Nat
  PROVE  Remember(idem, key, seq) = [idem EXCEPT ![key] = seq]
<1> DEFINE with == [idem EXCEPT ![key] = seq]
           used == {k \in Key : with[k] # 0}
<1>1. IsFiniteSet(used) /\ Cardinality(used) <= Cardinality(Key)
  BY FS_Subset DEF FewKeys
<1>2. Cardinality(used) \in Nat /\ Cardinality(Key) \in Nat
  BY <1>1, FS_CardinalityType DEF FewKeys
<1> HIDE DEF used
<1>3. ~(Cardinality(used) > MaxIdempotency)
  BY <1>1, <1>2, LimitAssumption DEF FewKeys
<1> QED
  BY <1>3 DEF Remember, used

LEMMA KeysStep ==
  ASSUME FewKeys, IInv, KeysAreIndexed, [Next]_vars
  PROVE  KeysAreIndexed'
<1>1. CASE Quiet
  BY <1>1 DEF Quiet, KeysAreIndexed
<1>2. ASSUME NEW s \in Session, NEW heard \in Replies, CommitAppend(s, heard)
      PROVE  KeysAreIndexed'
  <2>1. PICK e \in Event :
           /\ journal' = Append(journal, e)
           /\ e.seq = Len(journal) + 1
           /\ e.key = NoKey \/ (e.key \in Key /\ board.idempotency[e.key] = 0)
           /\ board'.idempotency = apply(Loaded, e).idempotency
    BY <1>2, AppendEffect
  <2>2. /\ Len(journal') = Len(journal) + 1
        /\ DOMAIN journal = 1 .. Len(journal)
        /\ DOMAIN journal' = 1 .. Len(journal) + 1
        /\ \A i \in DOMAIN journal' :
             journal'[i] = IF i = Len(journal) + 1 THEN e ELSE journal[i]
        /\ Len(journal) \in Nat
    BY <2>1, AppendProperties, LenProperties DEF IInv, TypeOK
  <2>3. board.idempotency \in [Key -> Nat] /\ Loaded.idempotency = board.idempotency
        /\ Loaded \in Board
    BY LoadedOK, BoardFields DEF IInv, TypeOK
  <2>4. board'.idempotency = IF e.key = NoKey THEN board.idempotency
                             ELSE Remember(board.idempotency, e.key, e.seq)
    BY <2>1, <2>3, ApplyOK
  <2>5. CASE e.key = NoKey
    BY <2>2, <2>4, <2>5 DEF KeysAreIndexed
  <2>6. CASE e.key \in Key /\ board.idempotency[e.key] = 0
    <3>1. board'.idempotency = [board.idempotency EXCEPT ![e.key] = Len(journal) + 1]
      <4>1. e.seq \in Nat /\ e.key # NoKey
        BY <2>1, <2>2, <2>6, SentinelAssumption
      <4>2. Remember(board.idempotency, e.key, e.seq)
              = [board.idempotency EXCEPT ![e.key] = e.seq]
        BY <2>3, <2>6, <4>1, NothingForgotten
      <4> QED
        BY <2>1, <2>4, <4>1, <4>2
    <3>2. \A k \in Key : board'.idempotency[k] \in 0 .. Len(journal')
      BY <2>2, <2>3, <2>6, <3>1 DEF KeysAreIndexed
    <3>3. ASSUME NEW i \in DOMAIN journal', journal'[i].key # NoKey
          PROVE  board'.idempotency[journal'[i].key] = i
      <4>1. CASE i = Len(journal) + 1
        BY <2>2, <2>3, <2>6, <3>1, <4>1
      <4>2. CASE i \in DOMAIN journal
        <5>1. journal'[i] = journal[i] /\ board.idempotency[journal[i].key] = i /\ i # 0
          BY <2>2, <3>3, <4>2 DEF KeysAreIndexed
        <5>2. journal[i] \in Event
          BY <2>2, <4>2, ElementOfSeq DEF IInv, TypeOK
        <5>3. journal[i].key \in Key
          BY <3>3, <5>1, <5>2 DEF Event, MaybeKey
        <5> QED
          BY <2>3, <2>6, <3>1, <5>1, <5>3
      <4> QED
        BY <2>2, <4>1, <4>2
    <3> QED
      BY <3>2, <3>3 DEF KeysAreIndexed
  <2> QED
    BY <2>1, <2>5, <2>6
<1> QED
  BY <1>1, <1>2, QuietOrAppend

\* A repeated call is answered with the event its own key wrote: the table of
\* keys stays the exact index of the journal, as long as there are no more keys
\* than it remembers.
THEOREM KeysStayIndexed ==
  ASSUME FewKeys
  PROVE  Spec => []KeysAreIndexed
<1>1. Init => KeysAreIndexed
  BY DEF Init, EmptyBoard, KeysAreIndexed
<1>2. IInv /\ KeysAreIndexed /\ [Next]_vars => KeysAreIndexed'
  BY KeysStep
<1> QED
  BY <1>1, <1>2, AlwaysIInv, PTL DEF Spec

LEMMA KeysOnce ==
  ASSUME IInv, KeysAreIndexed
  PROVE  KeyTakesEffectOnce
  BY DEF KeysAreIndexed, KeyTakesEffectOnce

\* However calls are retried and replies lost, and whichever sessions use the
\* same key at the same time, its event is written once; as long as there are
\* no more keys than the table remembers.
THEOREM RetriesTakeEffectOnce ==
  ASSUME FewKeys
  PROVE  Spec => []KeyTakesEffectOnce
<1>1. IInv /\ KeysAreIndexed => KeyTakesEffectOnce
  BY KeysOnce
<1> QED
  BY <1>1, KeysStayIndexed, AlwaysIInv, PTL

(* Policies *)

LEMMA PromotedAlone ==
  ASSUME NEW ps \in Seq(PolicyRecord), NEW id \in Policy
  PROVE  OneActive(Append(Retired(ps, ActiveOnes(ps)),
                          [id |-> id, status |-> "active"]), id)
<1> DEFINE old == Retired(ps, ActiveOnes(ps))
           new == Append(old, [id |-> id, status |-> "active"])
<1>1. old \in Seq(PolicyRecord) /\ Len(old) = Len(ps) /\ Len(ps) \in Nat
      /\ DOMAIN ps = 1 .. Len(ps)
  BY RetiredOK, LenProperties
<1>2. \A i \in 1 .. Len(ps) : old[i].status # "active"
  <2> SUFFICES ASSUME NEW i \in 1 .. Len(ps)
               PROVE  old[i].status # "active"
    OBVIOUS
  <2>1. ps[i] \in PolicyRecord
    BY ElementOfSeq
  <2> QED
    BY <1>1, <2>1 DEF Retired, ActiveOnes, PolicyRecord
<1> HIDE DEF old
<1>3. [id |-> id, status |-> "active"] \in PolicyRecord
  BY DEF PolicyRecord
<1>4. /\ DOMAIN new = 1 .. Len(ps) + 1
      /\ \A i \in 1 .. Len(ps) : new[i] = old[i]
      /\ new[Len(ps) + 1] = [id |-> id, status |-> "active"]
  BY <1>1, <1>3, AppendProperties
<1>5. ActiveOnes(new) = {Len(ps) + 1}
  BY <1>1, <1>2, <1>4 DEF ActiveOnes
<1>6. id # NoPolicy
  BY SentinelAssumption
<1> QED
  BY <1>4, <1>5, <1>6 DEF OneActive, old

LEMMA RetiredLeavesOthers ==
  ASSUME NEW ps \in Seq(PolicyRecord), NEW id \in Policy,
         NEW active \in Policy \cup {NoPolicy}, OneActive(ps, active)
  PROVE  OneActive(Retired(ps, Called(ps, id)), IF active = id THEN NoPolicy ELSE active)
<1> DEFINE new == Retired(ps, Called(ps, id))
<1>1. DOMAIN new = DOMAIN ps
  BY DEF Retired
<1>2. \A i \in DOMAIN ps : ps[i] \in PolicyRecord
  BY ElementOfSeq, LenProperties
<1>3. \A i \in DOMAIN ps :
        new[i] = IF ps[i].id = id THEN [ps[i] EXCEPT !.status = "retired"] ELSE ps[i]
  BY DEF Retired, Called
<1>4. ActiveOnes(new) = {i \in ActiveOnes(ps) : ps[i].id # id}
  BY <1>1, <1>2, <1>3 DEF ActiveOnes, PolicyRecord
<1>5. \A i \in ActiveOnes(new) : new[i].id = ps[i].id
  BY <1>1, <1>3, <1>4 DEF ActiveOnes
<1> HIDE DEF new
<1> QED
  BY <1>4, <1>5, SentinelAssumption DEF OneActive, new

LEMMA PoliciesStep ==
  ASSUME IInv, ActivePolicyIsTheActiveOne, [Next]_vars
  PROVE  ActivePolicyIsTheActiveOne'
<1>1. CASE Quiet
  BY <1>1 DEF Quiet, ActivePolicyIsTheActiveOne
<1>2. ASSUME NEW s \in Session, NEW heard \in Replies, CommitAppend(s, heard)
      PROVE  ActivePolicyIsTheActiveOne'
  <2>1. PICK e \in Event :
           /\ board'.policies = apply(Loaded, e).policies
           /\ board'.active_policy = apply(Loaded, e).active_policy
    BY <1>2, AppendEffect
  <2>2. /\ Loaded \in Board /\ Loaded.policies = board.policies
        /\ Loaded.active_policy = board.active_policy
    BY LoadedOK DEF IInv
  <2>3. /\ board.policies \in Seq(PolicyRecord)
        /\ board.active_policy \in Policy \cup {NoPolicy}
    BY <2>2, BoardFields
  <2>4. apply_kind(Loaded, e) \in Board
    BY <2>2, KindOK
  <2>5. /\ board'.policies = apply_kind(Loaded, e).policies
        /\ board'.active_policy = apply_kind(Loaded, e).active_policy
    BY <2>1, <2>4 DEF apply, Board
  <2>6. CASE e.kind = "policy_promote"
    <3>1. e.body.id \in Policy
      BY <2>6 DEF Event
    <3>2. /\ board'.policies = Append(Retired(board.policies, ActiveOnes(board.policies)),
                                      [id |-> e.body.id, status |-> "active"])
          /\ board'.active_policy = e.body.id
      BY <2>2, <2>5, <2>6 DEF apply_kind, apply_promote, Board
    <3> QED
      BY <2>3, <3>1, <3>2, PromotedAlone DEF ActivePolicyIsTheActiveOne
  <2>7. CASE e.kind = "policy_retire"
    <3>1. e.body.id \in Policy
      BY <2>7 DEF Event
    <3>2. /\ board'.policies = Retired(board.policies, Called(board.policies, e.body.id))
          /\ board'.active_policy = IF board.active_policy = e.body.id THEN NoPolicy
                                    ELSE board.active_policy
      BY <2>2, <2>5, <2>7 DEF apply_kind, apply_retire, Board
    <3> QED
      BY <2>3, <3>1, <3>2, RetiredLeavesOthers DEF ActivePolicyIsTheActiveOne
  <2>8. CASE e.kind \in {"check_in", "update", "check_out"}
    <3>1. /\ board'.policies = board.policies
          /\ board'.active_policy = board.active_policy
      BY <2>2, <2>5, <2>8 DEF apply_kind, apply_check_in, apply_update,
                              apply_check_out, Board
    <3> QED
      BY <3>1 DEF ActivePolicyIsTheActiveOne
  <2> QED
    BY <2>6, <2>7, <2>8 DEF Event
<1> QED
  BY <1>1, <1>2, QuietOrAppend

\* At most one policy is active, and active_policy names it, in whatever order
\* promotions and retirements validated against older boards commit.
THEOREM OnePolicyIsActive == Spec => []ActivePolicyIsTheActiveOne
<1>1. Init => ActivePolicyIsTheActiveOne
  BY EmptySeq DEF Init, EmptyBoard, ActivePolicyIsTheActiveOne, OneActive, ActiveOnes
<1>2. IInv /\ ActivePolicyIsTheActiveOne /\ [Next]_vars => ActivePolicyIsTheActiveOne'
  BY PoliciesStep
<1> QED
  BY <1>1, <1>2, AlwaysIInv, PTL DEF Spec

(* Handoffs *)

Anchored(b) ==
    \A i \in DOMAIN b.handoffs :
        LET h == b.handoffs[i] IN
        /\ b.agents[h.from] # Absent
        /\ h.accepted_by # Nobody => b.agents[h.accepted_by] # Absent

LEMMA PushedItems ==
  ASSUME NEW S, NEW s \in Seq(S), NEW x \in S, NEW max \in Nat \ {0}
  PROVE  \A i \in DOMAIN PushBounded(s, x, max) :
           \/ PushBounded(s, x, max)[i] = x
           \/ \E j \in DOMAIN s : PushBounded(s, x, max)[i] = s[j]
  BY DEF PushBounded

LEMMA AcceptedItems ==
  ASSUME NEW hs \in Seq(Handoff), NEW id, NEW agent \in Agent
  PROVE  /\ DOMAIN Accepting(hs, id, agent) = DOMAIN hs
         /\ \A i \in DOMAIN hs :
              Accepting(hs, id, agent)[i] \in {hs[i], [hs[i] EXCEPT !.accepted_by = agent]}
<1> DEFINE open == {i \in DOMAIN hs : hs[i].id = id /\ Offered(hs[i])}
           first == CHOOSE i \in open : \A j \in open : i <= j
<1> HIDE DEF open, first
<1>1. Accepting(hs, id, agent) = IF open = {} THEN hs
                                 ELSE [hs EXCEPT ![first].accepted_by = agent]
  BY DEF Accepting, open, first
<1> QED
  BY <1>1

\* Collection keeps every agent that a capsule names.
LEMMA GcAnchored ==
  ASSUME NEW b \in Board, NEW t \in Nat, Anchored(b)
  PROVE  Anchored(gc_projection(b, t))
<1> DEFINE g == gc_projection(b, t)
<1>1. g.handoffs = b.handoffs /\ b.handoffs \in Seq(Handoff)
  BY BoardFields DEF gc_projection, Board
<1>2. ASSUME NEW a \in Agent, b.agents[a] # Absent, a \in Referenced(b)
      PROVE  g.agents[a] # Absent
  <2>1. a \in Present(b) /\ a \notin Dropped(b, t) /\ b.agents[a] \in AgentRecord
    BY <1>2, BoardFields DEF Present, Dropped
  <2>2. g.agents[a] \in {b.agents[a], [b.agents[a] EXCEPT !.claims = {}, !.dirty = {}]}
    BY <2>1, BoardFields DEF gc_projection, Board
  <2>3. [b.agents[a] EXCEPT !.claims = {}, !.dirty = {}] \in AgentRecord
    BY <2>1 DEF AgentRecord
  <2> QED
    BY <1>2, <2>2, <2>3, AbsentAssumption
<1> HIDE DEF g
<1>3. ASSUME NEW i \in DOMAIN b.handoffs
      PROVE  /\ b.handoffs[i].from \in Agent \cap Referenced(b)
             /\ b.handoffs[i].accepted_by # Nobody
                  => b.handoffs[i].accepted_by \in Agent \cap Referenced(b)
  <2>1. b.handoffs[i] \in Handoff /\ b.handoffs[i] \in Range(b.handoffs)
    BY <1>1, ElementOfSeq DEF Range
  <2> QED
    BY <2>1 DEF Referenced, Handoff
<1> QED
  BY <1>1, <1>2, <1>3 DEF Anchored, g

\* Applying an event removes no agent, and a capsule it adds or takes names the
\* agent whose record it writes.
LEMMA ApplyAnchored ==
  ASSUME NEW b \in Board, NEW e \in Event, Anchored(b)
  PROVE  Anchored(apply(b, e))
<1> DEFINE c == apply(b, e)
<1> SUFFICES Anchored(c)
  OBVIOUS
<1>1. /\ b.handoffs \in Seq(Handoff)
      /\ b.agents \in [Agent -> AgentRecord \cup {Absent}]
      /\ \A i \in DOMAIN b.handoffs : b.handoffs[i] \in Handoff
  BY BoardFields, ElementOfSeq
<1>2. c.handoffs = apply_kind(b, e).handoffs /\ c.agents = apply_kind(b, e).agents
  BY KindOK DEF apply, Board
<1> HIDE DEF c
<1>3. CASE e.kind = "check_in"
  <2>1. e.agent \in Agent /\ e.body \in CheckInBody
    BY <1>3 DEF Event
  <2>2. CheckedIn(e) # Absent
    <3>1. CheckedIn(e) \in AgentRecord
      BY <1>3, <2>1 DEF CheckedIn, CheckInBody, AgentRecord, AgentState, LiveState, Event
    <3> QED
      BY <3>1, AbsentAssumption
  <2>3. /\ c.agents = [b.agents EXCEPT ![e.agent] = CheckedIn(e)]
        /\ c.handoffs = IF e.body.accept_handoff = None THEN b.handoffs
                        ELSE Accepting(b.handoffs, e.body.accept_handoff, e.agent)
    BY <1>2, <1>3 DEF apply_kind, apply_check_in, Board
  <2>4. \A a \in Agent : b.agents[a] # Absent \/ a = e.agent => c.agents[a] # Absent
    BY <1>1, <2>1, <2>2, <2>3
  <2>5. /\ DOMAIN c.handoffs = DOMAIN b.handoffs
        /\ \A i \in DOMAIN b.handoffs :
             c.handoffs[i] \in {b.handoffs[i], [b.handoffs[i] EXCEPT !.accepted_by = e.agent]}
    BY <1>1, <2>1, <2>3, AcceptedItems
  <2>6. \A i \in DOMAIN b.handoffs :
          /\ c.handoffs[i].from = b.handoffs[i].from
          /\ c.handoffs[i].accepted_by \in {b.handoffs[i].accepted_by, e.agent}
          /\ b.handoffs[i].from \in Agent
          /\ b.handoffs[i].accepted_by \in Agent \cup {Nobody}
    BY <1>1, <2>5 DEF Handoff
  <2> QED
    BY <2>1, <2>4, <2>5, <2>6 DEF Anchored
<1>4. CASE e.kind = "update"
  <2>1. e.agent \in Agent
    BY <1>4 DEF Event
  <2>2. c.handoffs = b.handoffs
        /\ c.agents = IF b.agents[e.agent] = Absent THEN b.agents
                      ELSE [b.agents EXCEPT ![e.agent] = Updated(b.agents[e.agent], e)]
    BY <1>2, <1>4 DEF apply_kind, apply_update, Board
  <2>3. c.agents \in [Agent -> AgentRecord \cup {Absent}]
    BY <1>2, KindOK, BoardFields
  <2>4. b.agents[e.agent] # Absent => Updated(b.agents[e.agent], e) \in AgentRecord
    <3> HAVE b.agents[e.agent] # Absent
    <3>1. b.agents[e.agent] \in AgentRecord /\ e.lease \in Lease /\ e.ts \in Nat
          /\ e.body \in UpdateBody
      BY <1>1, <1>4, <2>1 DEF Event
    <3> QED
      BY <3>1 DEF Updated, UpdateBody, AgentRecord, AgentState, MaybePaths
  <2>5. \A a \in Agent : b.agents[a] # Absent => c.agents[a] # Absent
    BY <1>1, <2>1, <2>2, <2>4, AbsentAssumption
  <2> QED
    BY <1>1, <2>2, <2>5 DEF Anchored, Handoff
<1>5. CASE e.kind = "check_out"
  <2>1. e.agent \in Agent /\ e.ts \in Nat /\ e.body \in CheckOutBody
    BY <1>5 DEF Event
  <2>2. /\ c.agents = IF b.agents[e.agent] = Absent THEN b.agents
                      ELSE [b.agents EXCEPT ![e.agent] = CheckedOut(b.agents[e.agent], e)]
        /\ c.handoffs = IF b.agents[e.agent] = Absent \/ e.body.handoff = None
                        THEN b.handoffs
                        ELSE PushBounded(b.handoffs, CapsuleOf(e), MaxHandoffs)
    BY <1>2, <1>5 DEF apply_kind, apply_check_out, Board
  <2>3. b.agents[e.agent] # Absent => CheckedOut(b.agents[e.agent], e) \in AgentRecord
    <3> HAVE b.agents[e.agent] # Absent
    <3>1. b.agents[e.agent] \in AgentRecord
      BY <1>1, <2>1
    <3> QED
      BY <2>1, <3>1 DEF CheckedOut, CheckOutBody, AgentRecord, AgentState
  <2>4. \A a \in Agent : b.agents[a] # Absent => c.agents[a] # Absent
    BY <1>1, <2>1, <2>2, <2>3, AbsentAssumption
  <2>5. CASE c.handoffs = b.handoffs
    BY <1>1, <2>4, <2>5 DEF Anchored, Handoff
  <2>6. CASE /\ b.agents[e.agent] # Absent /\ e.body.handoff # None
             /\ c.handoffs = PushBounded(b.handoffs, CapsuleOf(e), MaxHandoffs)
    <3>1. CapsuleOf(e) \in Handoff
      BY <2>1, <2>6 DEF CapsuleOf, CheckOutBody, Handoff
    <3>2. CapsuleOf(e).from = e.agent /\ CapsuleOf(e).accepted_by = Nobody
      BY DEF CapsuleOf
    <3>3. \A i \in DOMAIN c.handoffs :
            c.handoffs[i] = CapsuleOf(e) \/ \E j \in DOMAIN b.handoffs : c.handoffs[i] = b.handoffs[j]
      BY <1>1, <2>6, <3>1, PushedItems, LimitAssumption
    <3> QED
      BY <1>1, <2>1, <2>4, <2>6, <3>2, <3>3 DEF Anchored, Handoff
  <2> QED
    BY <2>2, <2>5, <2>6
<1>6. CASE e.kind \in {"policy_promote", "policy_retire"}
  <2>1. c.handoffs = b.handoffs /\ c.agents = b.agents
    BY <1>2, <1>6 DEF apply_kind, apply_promote, apply_retire, Board
  <2> QED
    BY <2>1 DEF Anchored
<1> QED
  BY <1>3, <1>4, <1>5, <1>6 DEF Event

LEMMA AnchoredStep ==
  ASSUME IInv, HandoffsAreAnchored, [Next]_vars
  PROVE  HandoffsAreAnchored'
<1>2. Anchored(board) /\ board \in Board /\ now \in Nat
  BY DEF HandoffsAreAnchored, Anchored, IInv, TypeOK
<1>3. Anchored(Loaded)
  BY <1>2, GcAnchored DEF Loaded
<1>4. CASE board' = Loaded
  BY <1>3, <1>4 DEF HandoffsAreAnchored, Anchored
<1>5. CASE board' = board
  BY <1>2, <1>5 DEF HandoffsAreAnchored, Anchored
<1>6. ASSUME NEW s \in Session, NEW heard \in Replies, CommitAppend(s, heard)
      PROVE  HandoffsAreAnchored'
  <2> DEFINE e == Stamped(call[s].event, Loaded)
  <2>1. e \in Event /\ Loaded \in Board
    BY <1>6, CommittingOK, LoadedOK, StampedOK DEF CommitAppend, IInv, TypeOK
  <2>2. board' = gc_projection(apply(Loaded, e), now)
    BY <1>6 DEF CommitAppend, Committed
  <2> HIDE DEF e
  <2>3. Anchored(board')
    BY <1>2, <1>3, <2>1, <2>2, ApplyAnchored, ApplyOK, GcAnchored
  <2> QED
    BY <2>3 DEF HandoffsAreAnchored, Anchored
<1>7. CASE \E s \in Session, r \in Calls : Begin(s, r)
  BY <1>4, <1>7 DEF Begin, Repeat, CheckIn, Update, LearnLease, CheckOut,
                    Promote, Retire, Advise, Start
<1> QED
  BY <1>4, <1>5, <1>6, <1>7 DEF Next, Finish, AdviseAgain, CommitRepeat,
                               CommitPanic, Abandon, Status, Tick, vars

\* The agents a capsule names, its giver and its taker, are on the board for as
\* long as the capsule is, whatever is collected and in whatever order the
\* commits that give and take it arrive.
THEOREM CapsulesAreAnchored == Spec => []HandoffsAreAnchored
<1>1. Init => HandoffsAreAnchored
  BY DEF Init, EmptyBoard, HandoffsAreAnchored
<1>2. IInv /\ HandoffsAreAnchored /\ [Next]_vars => HandoffsAreAnchored'
  BY AnchoredStep
<1> QED
  BY <1>1, <1>2, AlwaysIInv, PTL DEF Spec

-----------------------------------------------------------------------------
(* Leases and records.  A call is validated against a board that is no      *)
(* longer the one it commits to; what makes that harmless is that nobody    *)
(* else writes the caller's record in between, so that each pending call    *)
(* still fits the record it was validated against.  Most of what follows    *)
(* assumes that an agent id belongs to one session, and fails without it    *)
(* (run MCTakeover).                                                        *)

\* The condition: no two sessions act under one agent id.
OwnAgents == \A s, t \in Session : AgentOf[s] = AgentOf[t] => s = t

Presence == {"check_in", "update", "check_out"}

\* Session s has validated a call that writes its agent's record.
Writing(s) == call[s] # NoCall /\ call[s].event.kind \in Presence

Own(s) == board.agents[AgentOf[s]]

\* The board keeps every agent, though all of them be stale at once.
FewAgents == IsFiniteSet(Agent) /\ Cardinality(Agent) <= MaxStale

-----------------------------------------------------------------------------
(* Collection, and everyone else's commits, as one agent sees them *)

\* A record that is still there has not been changed, except that its claims
\* and its dirty list may be gone.
Same(new, old) ==
    new # Absent =>
      /\ old # Absent
      /\ new.lease = old.lease
      /\ new.revision = old.revision
      /\ new.state = old.state
      /\ new.expires_at = old.expires_at
      /\ new.saved = old.saved
      /\ new.dirty \in {{}, old.dirty}
      /\ new.claims \in {{}, old.claims}

LEMMA SameTransitive ==
  ASSUME NEW x, NEW y, NEW z, Same(x, y), Same(y, z)
  PROVE  Same(x, z)
  BY DEF Same

\* With that room only agents that checked out are dropped.
LEMMA OnlyLeaversDropped ==
  ASSUME FewAgents, NEW b \in Board, NEW t \in Nat, NEW a \in Dropped(b, t)
  PROVE  b.agents[a].state = "checked_out"
<1> DEFINE stale == {x \in Present(b) \ Referenced(b) : is_stale(b.agents[x], t)}
           newer == {x \in stale : Before(b, x, a)}
<1> SUFFICES ASSUME a \in stale, Cardinality(newer) >= MaxStale
             PROVE  FALSE
  BY DEF Dropped
<1>1. a \in Agent /\ b.agents[a] \in AgentRecord
  BY BoardFields DEF Present
<1>2. ~Before(b, a, a)
  BY <1>1, AgentAssumption DEF Before, AgentRecord
<1>3. newer \subseteq Agent \ {a}
  BY <1>2 DEF Present
<1> HIDE DEF newer, stale
<1>4. /\ IsFiniteSet(Agent \ {a}) /\ Cardinality(Agent \ {a}) = Cardinality(Agent) - 1
      /\ Cardinality(Agent) \in Nat
  BY <1>1, FS_RemoveElement, FS_CardinalityType DEF FewAgents
<1>5. Cardinality(newer) <= Cardinality(Agent \ {a}) /\ Cardinality(newer) \in Nat
  BY <1>3, <1>4, FS_Subset, FS_CardinalityType
<1> QED
  BY <1>4, <1>5, LimitAssumption DEF FewAgents

LEMMA GcRecord ==
  ASSUME NEW b \in Board, NEW t \in Nat, NEW a \in Agent
  PROVE  /\ Same(gc_projection(b, t).agents[a], b.agents[a])
         /\ b.agents[a] # Absent /\ ~Idle(b.agents[a], t)
              => gc_projection(b, t).agents[a] = b.agents[a]
         /\ FewAgents /\ Active(b.agents[a]) => Active(gc_projection(b, t).agents[a])
<1> DEFINE old == b.agents[a]
           new == gc_projection(b, t).agents[a]
<1>1. old \in AgentRecord \cup {Absent}
  BY BoardFields
<1>2. new = IF a \notin Present(b) \/ a \in Dropped(b, t) THEN Absent
            ELSE IF Idle(old, t) THEN [old EXCEPT !.claims = {}, !.dirty = {}]
            ELSE old
  BY BoardFields DEF gc_projection, Board
<1>3. a \in Present(b) <=> old # Absent
  BY DEF Present
<1>4. a \in Dropped(b, t) => Idle(old, t)
  BY DEF Dropped, Idle
<1> HIDE DEF new
<1>5. Same(new, old)
  <2>1. CASE a \notin Present(b) \/ a \in Dropped(b, t)
    BY <1>2, <2>1 DEF Same
  <2>2. CASE a \in Present(b) /\ a \notin Dropped(b, t) /\ Idle(old, t)
    <3>1. old \in AgentRecord /\ new = [old EXCEPT !.claims = {}, !.dirty = {}]
      BY <1>1, <1>2, <1>3, <2>2
    <3> HIDE DEF old
    <3> QED
      BY <1>3, <2>2, <3>1 DEF Same, AgentRecord
  <2>3. CASE a \in Present(b) /\ a \notin Dropped(b, t) /\ ~Idle(old, t)
    BY <1>2, <1>3, <2>3 DEF Same
  <2> QED
    BY <2>1, <2>2, <2>3
<1>6. ASSUME FewAgents, Active(old)
      PROVE  Active(new)
  <2>1. a \in Present(b) /\ a \notin Dropped(b, t) /\ old \in AgentRecord
    BY <1>1, <1>3, <1>6, OnlyLeaversDropped DEF Active
  <2>2. new \in {old, [old EXCEPT !.claims = {}, !.dirty = {}]}
    BY <1>2, <2>1
  <2> HIDE DEF old
  <2>3. new \in AgentRecord /\ new.state = old.state
    BY <2>1, <2>2 DEF AgentRecord
  <2> QED
    BY <1>6, <2>3, AbsentAssumption DEF Active
<1> QED
  BY <1>2, <1>3, <1>4, <1>5, <1>6 DEF new

LEMMA LoadedRecord ==
  ASSUME TypeOK, NEW a \in Agent
  PROVE  /\ Same(Loaded.agents[a], board.agents[a])
         /\ Working(board, a) => Loaded.agents[a] = board.agents[a]
         /\ FewAgents /\ Active(board.agents[a]) => Active(Loaded.agents[a])
  BY GcRecord DEF TypeOK, Loaded, Working

\* An event writes the record of its own agent only, and these fields of it.
LEMMA ApplyRecord ==
  ASSUME NEW b \in Board, NEW e \in Event
  PROVE  /\ \A a \in Agent : a # e.agent => apply(b, e).agents[a] = b.agents[a]
         /\ e.kind = "check_in" => apply(b, e).agents[e.agent] = CheckedIn(e)
         /\ e.kind = "update" =>
              apply(b, e).agents[e.agent] =
                IF b.agents[e.agent] = Absent THEN Absent
                ELSE Updated(b.agents[e.agent], e)
         /\ e.kind = "check_out" =>
              apply(b, e).agents[e.agent] =
                IF b.agents[e.agent] = Absent THEN Absent
                ELSE CheckedOut(b.agents[e.agent], e)
<1>1. e.kind \in Presence \cup {"policy_promote", "policy_retire"}
  BY DEF Event, Presence
<1>2. e.kind \in Presence => e.agent \in Agent
  BY DEF Event, Presence
<1>3. apply_kind(b, e) \in Board
  BY KindOK
<1>4. apply(b, e).agents = apply_kind(b, e).agents
  BY <1>3 DEF apply, Board
<1>5. b.agents \in [Agent -> AgentRecord \cup {Absent}]
  BY BoardFields
<1>6. CASE e.kind = "check_in"
  <2>1. apply_kind(b, e).agents = [b.agents EXCEPT ![e.agent] = CheckedIn(e)]
    BY <1>6 DEF apply_kind, apply_check_in, Board
  <2> QED
    BY <1>2, <1>4, <1>5, <1>6, <2>1 DEF Presence
<1>7. CASE e.kind = "update"
  <2>1. apply_kind(b, e).agents =
          IF b.agents[e.agent] = Absent THEN b.agents
          ELSE [b.agents EXCEPT ![e.agent] = Updated(b.agents[e.agent], e)]
    BY <1>7 DEF apply_kind, apply_update, Board
  <2> QED
    BY <1>2, <1>4, <1>5, <1>7, <2>1 DEF Presence
<1>8. CASE e.kind = "check_out"
  <2>1. apply_kind(b, e).agents =
          IF b.agents[e.agent] = Absent THEN b.agents
          ELSE [b.agents EXCEPT ![e.agent] = CheckedOut(b.agents[e.agent], e)]
    BY <1>8 DEF apply_kind, apply_check_out, Board
  <2> QED
    BY <1>2, <1>4, <1>5, <1>8, <2>1 DEF Presence
<1>9. CASE e.kind \in {"policy_promote", "policy_retire"}
  BY <1>4, <1>9 DEF apply_kind, apply_promote, apply_retire, Board
<1> QED
  BY <1>1, <1>6, <1>7, <1>8, <1>9 DEF Presence

-----------------------------------------------------------------------------
(* Steps, as one agent and as one session see them *)

\* At most collected in this step, and not even that while its lease lives;
\* and not dropped before it checks out, if there is room.
Undisturbed(a) ==
    /\ Same(board'.agents[a], board.agents[a])
    /\ Working(board, a) => board'.agents[a] = board.agents[a]
    /\ FewAgents /\ Active(board.agents[a]) => Active(board'.agents[a])

LEMMA LoadLeavesRecords ==
  ASSUME TypeOK, NEW a \in Agent, board' = Loaded
  PROVE  Undisturbed(a)
  BY LoadedRecord DEF Undisturbed

LEMMA AppendLeavesRecords ==
  ASSUME IInv, NEW s \in Session, NEW heard \in Replies, CommitAppend(s, heard),
         NEW a \in Agent, a # call[s].event.agent
  PROVE  Undisturbed(a)
<1> DEFINE p == call[s].event
           e == Stamped(p, Loaded)
<1>1. p \in Prepared /\ now \in Nat /\ Loaded \in Board
  BY CommittingOK, LoadedOK DEF CommitAppend, IInv, TypeOK
<1>2. e \in Event /\ e.agent = p.agent
  BY <1>1, StampedOK DEF Stamped
<1>3. board' = gc_projection(apply(Loaded, e), now)
  BY DEF CommitAppend, Committed
<1> HIDE DEF p, e
<1>4. apply(Loaded, e) \in Board /\ apply(Loaded, e).agents[a] = Loaded.agents[a]
  BY <1>1, <1>2, ApplyOK, ApplyRecord DEF p
<1>5. Same(board'.agents[a], Loaded.agents[a])
  BY <1>1, <1>3, <1>4, GcRecord
<1>6. Same(board'.agents[a], board.agents[a])
  BY <1>5, LoadedRecord, SameTransitive DEF IInv
<1>7. ASSUME Working(board, a)
      PROVE  board'.agents[a] = board.agents[a]
  <2>1. Loaded.agents[a] = board.agents[a]
    BY <1>7, LoadedRecord DEF IInv
  <2> QED
    BY <1>1, <1>3, <1>4, <1>7, <2>1, GcRecord DEF Working
<1>8. FewAgents /\ Active(board.agents[a]) => Active(board'.agents[a])
  <2> HAVE FewAgents /\ Active(board.agents[a])
  <2>1. Active(apply(Loaded, e).agents[a])
    BY <1>4, LoadedRecord DEF IInv
  <2> QED
    BY <1>1, <1>3, <1>4, <2>1, GcRecord
<1> QED
  BY <1>6, <1>7, <1>8 DEF Undisturbed

LEMMA RecordStep ==
  ASSUME IInv, [Next]_vars, NEW a \in Agent
  PROVE  \/ Undisturbed(a)
         \/ \E s \in Session, heard \in Replies :
              CommitAppend(s, heard) /\ call[s].event.agent = a
<1>1. CASE board' = Loaded
  BY <1>1, LoadLeavesRecords DEF IInv
<1>2. CASE board' = board
  <2>1. board.agents[a] # Absent => board.agents[a] \in AgentRecord
    BY BoardFields DEF IInv, TypeOK
  <2> QED
    BY <1>2 DEF Undisturbed, Same
<1>3. CASE \E s \in Session, heard \in Replies : CommitAppend(s, heard)
  BY <1>3, AppendLeavesRecords
<1>4. CASE \E s \in Session, r \in Calls : Begin(s, r)
  BY <1>1, <1>4 DEF Begin, Repeat, CheckIn, Update, LearnLease, CheckOut,
                    Promote, Retire, Advise, Start
<1> QED
  BY <1>1, <1>2, <1>3, <1>4 DEF Next, Finish, AdviseAgain, CommitRepeat,
                               CommitPanic, Abandon, Status, Tick, vars

\* A session's pending call stays, goes, or is one it has just validated.
LEMMA CallStep ==
  ASSUME IInv, [Next]_vars, NEW s \in Session
  PROVE  /\ now \in Nat /\ now' \in Nat /\ now <= now'
         /\ \/ call'[s] = call[s]
            \/ ~Writing(s)'
            \/ \E r \in Calls : CheckIn(s, r) \/ Update(s, r) \/ CheckOut(s, r)
<1>1. call \in [Session -> Pending \cup {NoCall}] /\ now \in Nat
  BY DEF IInv, TypeOK
<1>2. CASE UNCHANGED call /\ (UNCHANGED now \/ Tick)
  BY <1>1, <1>2 DEF Tick
<1>3. CASE (\E t \in Session : call' = [call EXCEPT ![t] = NoCall]) /\ UNCHANGED now
  BY <1>1, <1>3 DEF Writing
<1>4. ASSUME NEW t \in Session, NEW r \in Calls, Begin(t, r)
      PROVE  /\ UNCHANGED now
             /\ \/ call'[s] = call[s]
                \/ ~Writing(s)'
                \/ t = s /\ (CheckIn(s, r) \/ Update(s, r) \/ CheckOut(s, r))
  <2>1. CASE Repeat(t, r) \/ LearnLease(t, r)
    BY <2>1 DEF Repeat, LearnLease, Start
  <2>2. CASE CheckIn(t, r)
    <3>1. UNCHANGED now /\ \E e : call' = [call EXCEPT ![t] = e]
      BY <2>2 DEF CheckIn, Start, Prepare
    <3>2. t # s => call'[s] = call[s]
      BY <1>1, <3>1
    <3> QED
      BY <2>2, <3>1, <3>2
  <2>3. CASE Update(t, r)
    BY <1>1, <2>3 DEF Update, Start, Prepare
  <2>4. CASE CheckOut(t, r)
    BY <1>1, <2>4 DEF CheckOut, Start, Prepare
  <2>5. CASE Promote(t, r) \/ Retire(t, r)
    BY <1>1, <2>5 DEF Promote, Retire, Start, Prepare, PolicyEvent, Writing, Presence
  <2>6. CASE Advise(t, r)
    BY <1>1, <2>6 DEF Advise, Start, Prepare, Writing, Presence
  <2> QED
    BY <1>4, <2>1, <2>2, <2>3, <2>4, <2>5, <2>6 DEF Begin
<1>5. CASE \E t \in Session, r \in Calls : Begin(t, r)
  BY <1>1, <1>4, <1>5
<1> QED
  BY <1>2, <1>3, <1>5 DEF Next, Finish, AdviseAgain, CommitRepeat, CommitPanic,
                          CommitAppend, Abandon, Status, Tick, vars

-----------------------------------------------------------------------------
(* A pending call names its session's agent *)

WritesItsOwn == \A s \in Session : Writing(s) => call[s].event.agent = AgentOf[s]

LEMMA OwnStep ==
  ASSUME IInv, WritesItsOwn, [Next]_vars
  PROVE  WritesItsOwn'
<1> SUFFICES ASSUME NEW s \in Session, Writing(s)'
             PROVE  call'[s].event.agent = AgentOf[s]
  BY DEF WritesItsOwn
<1>1. call \in [Session -> Pending \cup {NoCall}]
  BY DEF IInv, TypeOK
<1>2. CASE call'[s] = call[s]
  BY <1>2 DEF WritesItsOwn, Writing
<1>3. ASSUME NEW r \in Calls, CheckIn(s, r) \/ Update(s, r) \/ CheckOut(s, r)
      PROVE  call'[s].event.agent = AgentOf[s]
  BY <1>1, <1>3 DEF CheckIn, Update, CheckOut, Prepare
<1> QED
  BY <1>2, <1>3, CallStep

\* A commit that appends an agent's event is its own session's.
LEMMA OwnAppend ==
  ASSUME IInv, WritesItsOwn,
         NEW s \in Session, NEW heard \in Replies, CommitAppend(s, heard),
         call[s].event.agent \in Agent
  PROVE  Writing(s) /\ AgentOf[s] = call[s].event.agent
<1>1. call[s].event \in Prepared /\ call[s] # NoCall
  BY CommittingOK DEF IInv, CommitAppend, Committing
<1>2. call[s].event.kind \in Presence
  BY <1>1, SentinelAssumption DEF Prepared, Presence
<1> QED
  BY <1>1, <1>2 DEF Writing, WritesItsOwn

\* The one session whose commit appends in a step.
LEMMA WhoAppends ==
  ASSUME IInv, NEW s \in Session, NEW heard \in Replies, CommitAppend(s, heard)
  PROVE  \A t \in Session : Appends(t) <=> t = s
<1>1. Len(journal') = Len(journal) + 1 /\ Len(journal) \in Nat
  BY AppendEffect, AppendProperties, LenProperties DEF IInv, TypeOK
<1>2. call' = [call EXCEPT ![s] = NoCall] /\ call[s] # NoCall
  BY DEF CommitAppend, Committing
<1> QED
  BY <1>1, <1>2 DEF Appends, IInv, TypeOK

LEMMA LeftAloneStep ==
  ASSUME IInv, WritesItsOwn, [Next]_vars, NEW a \in Agent,
         Working(board, a), board'.agents[a] # board.agents[a]
  PROVE  \E s \in Session : Appends(s) /\ AgentOf[s] = a
<1>1. PICK s \in Session, heard \in Replies :
         CommitAppend(s, heard) /\ call[s].event.agent = a
  BY RecordStep DEF Undisturbed
<1> QED
  BY <1>1, OwnAppend, WhoAppends

\* However many sessions read and commit at the same time, and whatever is
\* collected on the way, the record of an agent whose lease is live changes
\* only by a commit of a session of that agent.
THEOREM RecordsAreLeftAlone == Spec => OthersAreLeftAlone
<1>1. Init => WritesItsOwn
  BY DEF Init, WritesItsOwn, Writing
<1>2. IInv /\ WritesItsOwn /\ [Next]_vars => WritesItsOwn'
  BY OwnStep
<1>3. IInv /\ WritesItsOwn /\ [Next]_vars =>
        [\A a \in Agent :
           Working(board, a) /\ board'.agents[a] # board.agents[a]
           => \E s \in Session : Appends(s) /\ AgentOf[s] = a]_vars
  BY LeftAloneStep
<1> QED
  BY <1>1, <1>2, <1>3, AlwaysIInv, PTL DEF Spec, OthersAreLeftAlone

-----------------------------------------------------------------------------
(* A pending call still fits the record it was validated against *)

\* The pending call c may be committed to the record a at time t.
FitsRecord(c, a, t) ==
    LET p == c.event IN
    a # Absent =>
      /\ p.body.revision = a.revision + 1
      /\ p.kind = "check_in" /\ ~c.args.force => Idle(a, t) \/ a.lease = p.lease
      /\ p.kind = "update" /\ p.body.state = "suspended" =>
           p.body.saved \/ (IF p.body.dirty = None THEN a.dirty ELSE p.body.dirty) = {}

CallsFit == \A s \in Session : Writing(s) => FitsRecord(call[s], Own(s), now)

\* Collection and time take nothing away from a call that fitted.
LEMMA StillFits ==
  ASSUME NEW c, NEW a \in AgentRecord \cup {Absent}, NEW b, Same(b, a),
         NEW t \in Nat, NEW u \in Nat, t <= u, FitsRecord(c, a, t)
  PROVE  FitsRecord(c, b, u)
<1> SUFFICES ASSUME b # Absent PROVE FitsRecord(c, b, u)
  BY DEF FitsRecord
<1>1. a # Absent /\ a \in AgentRecord
  BY DEF Same
<1>2. b.revision = a.revision /\ b.lease = a.lease /\ b.dirty \in {{}, a.dirty}
  BY DEF Same
<1>3. Idle(a, t) => Idle(b, u)
  BY <1>1 DEF Same, Idle, is_stale, AgentRecord
<1> QED
  BY <1>1, <1>2, <1>3 DEF FitsRecord

LEMMA CheckInFits ==
  ASSUME IInv, NEW s \in Session, NEW r, CheckIn(s, r)
  PROVE  FitsRecord(call'[s], Loaded.agents[AgentOf[s]], now)
<1> DEFINE id == AgentOf[s]
           a == Loaded.agents[id]
           lease == IF Resumes(s, r, a) THEN a.lease
                    ELSE new_lease(id, Revision(a) + 1, now)
<1>1. PICK body :
        /\ body.revision = Revision(a) + 1
        /\ Prepare(s, r, [kind |-> "check_in", agent |-> id, lease |-> lease,
                          key |-> r.key, body |-> body])
  BY DEF CheckIn
<1>2. call'[s] = [args |-> r, event |-> [kind |-> "check_in", agent |-> id,
                  lease |-> lease, key |-> r.key, body |-> body]]
  BY <1>1 DEF IInv, TypeOK, Prepare
<1>3. a # Absent => Revision(a) = a.revision
  BY DEF Revision
<1>4. MayCheckIn(s, r, a)
  BY DEF CheckIn
<1>5. a # Absent /\ ~r.force => Idle(a, now) \/ a.lease = lease
  BY <1>4 DEF MayCheckIn, Active, Idle
<1> HIDE DEF a, id, lease
<1>6. FitsRecord(call'[s], a, now)
  BY <1>1, <1>2, <1>3, <1>5 DEF FitsRecord
<1> QED
  BY <1>6 DEF a, id

LEMMA UpdateFits ==
  ASSUME IInv, NEW s \in Session, NEW r, Update(s, r)
  PROVE  FitsRecord(call'[s], Loaded.agents[AgentOf[s]], now)
<1> DEFINE a == Loaded.agents[AgentOf[s]]
           to == IF r.state = None THEN a.state ELSE r.state
           saved == r.saved \/ a.saved
<1>1. PICK e, body :
        /\ Prepare(s, r, e)
        /\ e.kind = "update" /\ e.body = body
        /\ body.revision = a.revision + 1 /\ body.state = to
        /\ body.dirty = r.dirty /\ body.saved = saved
  BY DEF Update
<1>2. call'[s] = [args |-> r, event |-> e]
  BY <1>1 DEF IInv, TypeOK, Prepare
<1>3. to = "suspended" /\ DirtyAfter(r, a) # {} => saved
  BY DEF Update
<1> HIDE DEF a, to, saved
<1>4. FitsRecord(call'[s], a, now)
  BY <1>1, <1>2, <1>3 DEF FitsRecord, DirtyAfter
<1> QED
  BY <1>4 DEF a

LEMMA CheckOutFits ==
  ASSUME IInv, NEW s \in Session, NEW r, CheckOut(s, r)
  PROVE  FitsRecord(call'[s], Loaded.agents[AgentOf[s]], now)
<1>1. PICK e :
        /\ Prepare(s, r, e)
        /\ e.kind = "check_out"
        /\ e.body.revision = Loaded.agents[AgentOf[s]].revision + 1
  BY DEF CheckOut
<1>2. call'[s] = [args |-> r, event |-> e]
  BY <1>1 DEF IInv, TypeOK, Prepare
<1> QED
  BY <1>1, <1>2 DEF FitsRecord

LEMMA FitStep ==
  ASSUME OwnAgents, IInv, WritesItsOwn, CallsFit, [Next]_vars
  PROVE  CallsFit'
<1> SUFFICES ASSUME NEW s \in Session, Writing(s)'
             PROVE  FitsRecord(call'[s], board'.agents[AgentOf[s]], now')
  BY DEF CallsFit, Own
<1>1. /\ now \in Nat /\ now' \in Nat /\ now <= now'
      /\ AgentOf[s] \in Agent
      /\ board.agents[AgentOf[s]] \in AgentRecord \cup {Absent}
  BY CallStep, SessionAssumption, BoardFields DEF IInv, TypeOK
<1>2. CASE call'[s] = call[s]
  <2>1. Writing(s) /\ FitsRecord(call[s], board.agents[AgentOf[s]], now)
    BY <1>2 DEF Writing, CallsFit, Own
  <2>2. ASSUME NEW t \in Session, NEW heard \in Replies, CommitAppend(t, heard),
               call[t].event.agent = AgentOf[s]
        PROVE  FALSE
    <3>1. t = s
      BY <1>1, <2>2, OwnAppend DEF OwnAgents
    <3> QED
      BY <1>2, <2>1, <2>2, <3>1 DEF CommitAppend, IInv, TypeOK, Writing
  <2>3. Same(board'.agents[AgentOf[s]], board.agents[AgentOf[s]])
    BY <1>1, <2>2, RecordStep DEF Undisturbed
  <2> QED
    BY <1>1, <1>2, <2>1, <2>3, StillFits
<1>3. ASSUME NEW r \in Calls, CheckIn(s, r) \/ Update(s, r) \/ CheckOut(s, r)
      PROVE  FitsRecord(call'[s], board'.agents[AgentOf[s]], now')
  <2>1. board' = Loaded /\ now' = now
    BY <1>3 DEF CheckIn, Update, CheckOut, Start
  <2> QED
    BY <1>3, <2>1, CheckInFits, UpdateFits, CheckOutFits
<1> QED
  BY <1>2, <1>3, CallStep

LeaseInv == IInv /\ WritesItsOwn /\ CallsFit

LEMMA AlwaysLeaseInv ==
  ASSUME OwnAgents
  PROVE  Spec => []LeaseInv
<1>1. Init => LeaseInv
  BY InitIInv DEF Init, WritesItsOwn, CallsFit, Writing, LeaseInv
<1>2. LeaseInv /\ [Next]_vars => LeaseInv'
  BY NextIInv, OwnStep, FitStep DEF LeaseInv
<1> QED
  BY <1>1, <1>2, PTL DEF Spec

-----------------------------------------------------------------------------
(* What a session's own commit makes of its agent's record *)

LEMMA OwnRecord ==
  ASSUME LeaseInv, NEW s \in Session, NEW heard \in Replies, CommitAppend(s, heard),
         call[s].event.agent = AgentOf[s]
  PROVE  LET p == call[s].event
             e == Stamped(p, Loaded)
             mine == Loaded.agents[AgentOf[s]]
         IN
         /\ p \in Prepared
         /\ p.kind \in Presence
         /\ FitsRecord(call[s], board.agents[AgentOf[s]], now)
         /\ \E r : /\ Same(board'.agents[AgentOf[s]], r)
                   /\ \/ p.kind = "check_in" /\ r = CheckedIn(e)
                      \/ mine = Absent /\ r = Absent
                      \/ p.kind = "update" /\ mine # Absent /\ r = Updated(mine, e)
                      \/ p.kind = "check_out" /\ mine # Absent /\ r = CheckedOut(mine, e)
<1> DEFINE p == call[s].event
           e == Stamped(p, Loaded)
           a == AgentOf[s]
<1>1. a \in Agent /\ IInv /\ now \in Nat /\ Loaded \in Board
  BY SessionAssumption, LoadedOK DEF LeaseInv, IInv, TypeOK
<1>2. Writing(s)
  BY <1>1, OwnAppend DEF LeaseInv
<1>3. FitsRecord(call[s], board.agents[a], now)
  BY <1>2 DEF LeaseInv, CallsFit, Own
<1>4. p \in Prepared /\ p.kind \in Presence
  BY <1>1, <1>2, CommittingOK DEF CommitAppend, IInv, Writing
<1>5. e \in Event /\ e.agent = a /\ e.kind = p.kind
  BY <1>1, <1>4, StampedOK DEF Stamped
<1>6. board' = gc_projection(apply(Loaded, e), now)
  BY DEF CommitAppend, Committed
<1> HIDE DEF e, p
<1>7. Same(board'.agents[a], apply(Loaded, e).agents[a])
  BY <1>1, <1>5, <1>6, ApplyOK, GcRecord
<1>8. LET mine == Loaded.agents[a]
          r == apply(Loaded, e).agents[a]
      IN  \/ p.kind = "check_in" /\ r = CheckedIn(e)
          \/ mine = Absent /\ r = Absent
          \/ p.kind = "update" /\ mine # Absent /\ r = Updated(mine, e)
          \/ p.kind = "check_out" /\ mine # Absent /\ r = CheckedOut(mine, e)
  BY <1>1, <1>4, <1>5, ApplyRecord DEF Presence
<1> QED
  BY <1>3, <1>4, <1>7, <1>8 DEF e, p

(* Takeovers *)

LEMMA TakeoverStep ==
  ASSUME LeaseInv, [Next]_vars, NEW s \in Session, Appends(s),
         call[s].event.kind = "check_in", ~call[s].args.force
  PROVE  LET a == board.agents[AgentOf[s]]
         IN  \/ a = Absent
             \/ Idle(a, now)
             \/ a.lease = call[s].event.lease
<1>1. Writing(s)
  BY DEF Writing, Presence, Appends
<1> QED
  BY <1>1 DEF LeaseInv, CallsFit, FitsRecord, Own

\* An unforced check-in that was validated while the record was free, or its
\* own, still finds it so at its commit, with the clock and every other
\* session having moved in between: no live lease is taken by accident.
THEOREM TakeoversAreForced ==
  ASSUME OwnAgents
  PROVE  Spec => ActiveIncarnationNeedsForce
<1>1. LeaseInv /\ [Next]_vars =>
        [\A s \in Session :
           (Appends(s) /\ call[s].event.kind = "check_in" /\ ~call[s].args.force)
           => LET a == board.agents[AgentOf[s]]
              IN  \/ a = Absent
                  \/ Idle(a, now)
                  \/ a.lease = call[s].event.lease]_vars
  BY TakeoverStep
<1> QED
  BY <1>1, AlwaysLeaseInv, PTL DEF Spec, ActiveIncarnationNeedsForce

(* Revisions *)

LEMMA ForwardStep ==
  ASSUME LeaseInv, [Next]_vars, NEW a \in Present(board), board'.agents[a] # Absent
  PROVE  LET old == board.agents[a]
             new == board'.agents[a]
         IN  /\ new.revision >= old.revision
             /\ new.lease # old.lease => new.revision > old.revision
<1> DEFINE old == board.agents[a]
           new == board'.agents[a]
<1>1. a \in Agent /\ old # Absent /\ old \in AgentRecord /\ old.revision \in Nat /\ IInv
  BY BoardFields DEF LeaseInv, IInv, TypeOK, Present, AgentRecord
<1>2. CASE Undisturbed(a)
  BY <1>1, <1>2 DEF Undisturbed, Same
<1>3. ASSUME NEW s \in Session, NEW heard \in Replies,
             CommitAppend(s, heard), call[s].event.agent = a
      PROVE  new.revision = old.revision + 1
  <2> DEFINE p == call[s].event
             e == Stamped(p, Loaded)
             mine == Loaded.agents[a]
  <2>1. AgentOf[s] = a
    BY <1>1, <1>3, OwnAppend DEF LeaseInv
  <2>2. /\ FitsRecord(call[s], old, now)
        /\ p.kind \in Presence
        /\ p \in Prepared
        /\ \E r : /\ Same(new, r)
                  /\ \/ p.kind = "check_in" /\ r = CheckedIn(e)
                     \/ mine = Absent /\ r = Absent
                     \/ p.kind = "update" /\ mine # Absent /\ r = Updated(mine, e)
                     \/ p.kind = "check_out" /\ mine # Absent /\ r = CheckedOut(mine, e)
    BY <1>3, <2>1, OwnRecord
  <2>3. p.body.revision = old.revision + 1
    BY <1>1, <2>2 DEF FitsRecord
  <2>4. e.body = p.body
    BY DEF Stamped
  <2>5. mine \in AgentRecord \cup {Absent}
    BY <1>1, LoadedOK, BoardFields DEF IInv
  <2> HIDE DEF e, p, mine
  <2>6. CheckedIn(e).revision = old.revision + 1
    BY <1>1, <2>3, <2>4 DEF CheckedIn
  <2>7. ASSUME mine # Absent
        PROVE  /\ Updated(mine, e).revision = old.revision + 1
               /\ CheckedOut(mine, e).revision = old.revision + 1
    BY <2>3, <2>4, <2>5, <2>7 DEF Updated, CheckedOut, AgentRecord
  <2> QED
    BY <2>2, <2>6, <2>7 DEF Same
<1> QED
  BY <1>1, <1>2, <1>3, RecordStep

\* While an agent stays on the board its revisions only grow, and with every
\* new lease by at least one, although each commit carries a revision computed
\* from an older board.
THEOREM RevisionsGrow ==
  ASSUME OwnAgents
  PROVE  Spec => IncarnationsMoveForward
<1>1. LeaseInv /\ [Next]_vars =>
        [\A a \in Present(board) : board'.agents[a] # Absent =>
           LET old == board.agents[a]
               new == board'.agents[a]
           IN  /\ new.revision >= old.revision
               /\ new.lease # old.lease => new.revision > old.revision]_vars
  BY ForwardStep
<1> QED
  BY <1>1, AlwaysLeaseInv, PTL DEF Spec, IncarnationsMoveForward

(* Suspended work *)

Saved(r) == r.state = "suspended" /\ r.dirty # {} => r.saved

LEMMA SavedStep ==
  ASSUME LeaseInv, SuspendedWorkIsSaved, [Next]_vars
  PROVE  SuspendedWorkIsSaved'
<1> SUFFICES ASSUME NEW a \in Agent, board'.agents[a] # Absent
             PROVE  Saved(board'.agents[a])
  BY DEF SuspendedWorkIsSaved, Present, Saved
<1> DEFINE old == board.agents[a]
           new == board'.agents[a]
           mine == Loaded.agents[a]
<1>1. IInv /\ (old # Absent => Saved(old))
  BY DEF LeaseInv, SuspendedWorkIsSaved, Present, Saved
<1>2. \A x, y : x # Absent /\ Same(x, y) /\ Saved(y) => Saved(x)
  BY DEF Same, Saved
<1>3. CASE Undisturbed(a)
  BY <1>1, <1>2, <1>3 DEF Undisturbed, Same
<1>4. ASSUME NEW s \in Session, NEW heard \in Replies,
             CommitAppend(s, heard), call[s].event.agent = a
      PROVE  Saved(new)
  <2> DEFINE p == call[s].event
             e == Stamped(p, Loaded)
  <2>1. AgentOf[s] = a
    BY <1>1, <1>4, OwnAppend DEF LeaseInv
  <2>2. /\ FitsRecord(call[s], old, now)
        /\ p \in Prepared
        /\ \E r : /\ Same(new, r)
                  /\ \/ p.kind = "check_in" /\ r = CheckedIn(e)
                     \/ mine = Absent /\ r = Absent
                     \/ p.kind = "update" /\ mine # Absent /\ r = Updated(mine, e)
                     \/ p.kind = "check_out" /\ mine # Absent /\ r = CheckedOut(mine, e)
    BY <1>4, <2>1, OwnRecord
  <2>3. e.body = p.body
    BY DEF Stamped
  <2>4. mine \in AgentRecord \cup {Absent}
    BY <1>1, LoadedOK, BoardFields DEF IInv
  <2>5. Same(mine, old)
    BY <1>1, LoadedRecord DEF IInv
  <2> HIDE DEF e, p, mine
  <2>6. Saved(CheckedIn(e))
    BY DEF CheckedIn, Saved
  <2>7. ASSUME mine # Absent, p.kind = "update"
        PROVE  Saved(Updated(mine, e))
    <3>1. /\ old # Absent /\ mine \in AgentRecord
          /\ mine.dirty \in {{}, old.dirty}
      BY <2>4, <2>5, <2>7 DEF Same
    <3>2. p.body.state = "suspended" =>
            p.body.saved \/ (IF p.body.dirty = None THEN old.dirty ELSE p.body.dirty) = {}
      BY <2>2, <2>7, <3>1 DEF FitsRecord, p
    <3>3. /\ Updated(mine, e).state = p.body.state
          /\ Updated(mine, e).saved = p.body.saved
          /\ Updated(mine, e).dirty =
               IF p.body.dirty = None THEN mine.dirty ELSE p.body.dirty
      BY <2>3, <3>1 DEF Updated, AgentRecord
    <3> QED
      BY <3>1, <3>2, <3>3 DEF Saved
  <2>8. mine # Absent => Saved(CheckedOut(mine, e))
    BY <2>4 DEF CheckedOut, Saved, AgentRecord
  <2> QED
    BY <1>2, <2>2, <2>6, <2>7, <2>8 DEF Same
<1> QED
  BY <1>1, <1>3, <1>4, RecordStep

\* An agent is never on the board as suspended with a dirty tree and nothing
\* that says where its work is saved, although the list it leaves out of its
\* update is looked up again, and may be gone, at the commit.
THEOREM NothingSuspendedUnsaved ==
  ASSUME OwnAgents
  PROVE  Spec => []SuspendedWorkIsSaved
<1>1. Init => SuspendedWorkIsSaved
  BY DEF Init, EmptyBoard, SuspendedWorkIsSaved, Present
<1>2. LeaseInv /\ SuspendedWorkIsSaved /\ [Next]_vars => SuspendedWorkIsSaved'
  BY SavedStep
<1> QED
  BY <1>1, <1>2, AlwaysLeaseInv, PTL DEF Spec

(* Commits do not panic *)

\* The agent of a pending update or check-out is still on the board, and has
\* not left.
UpdatesHaveRecords ==
    \A s \in Session :
        Writing(s) /\ call[s].event.kind # "check_in" => Active(Own(s))

LEMMA RecordsHeldStep ==
  ASSUME OwnAgents, FewAgents, LeaseInv, UpdatesHaveRecords, [Next]_vars
  PROVE  UpdatesHaveRecords'
<1> SUFFICES ASSUME NEW s \in Session, Writing(s)', call'[s].event.kind # "check_in"
             PROVE  Active(board'.agents[AgentOf[s]])
  BY DEF UpdatesHaveRecords, Own
<1>1. AgentOf[s] \in Agent /\ IInv
  BY SessionAssumption DEF LeaseInv
<1>2. CASE call'[s] = call[s]
  <2>1. Writing(s) /\ Active(board.agents[AgentOf[s]])
    BY <1>2 DEF Writing, UpdatesHaveRecords, Own
  <2>2. ASSUME NEW t \in Session, NEW heard \in Replies, CommitAppend(t, heard),
               call[t].event.agent = AgentOf[s]
        PROVE  FALSE
    <3>1. t = s
      BY <1>1, <2>2, OwnAppend DEF OwnAgents, LeaseInv
    <3> QED
      BY <1>1, <1>2, <2>1, <2>2, <3>1 DEF CommitAppend, IInv, TypeOK, Writing
  <2> QED
    BY <1>1, <2>1, <2>2, RecordStep DEF Undisturbed
<1>3. CASE \E r \in Calls : Update(s, r) \/ CheckOut(s, r)
  BY <1>3 DEF Update, CheckOut, Start, HoldsLease
<1>4. ASSUME NEW r \in Calls, CheckIn(s, r)
      PROVE  FALSE
  BY <1>1, <1>4 DEF CheckIn, Prepare, IInv, TypeOK
<1> QED
  BY <1>1, <1>2, <1>3, <1>4, CallStep

LEMMA NoPanic ==
  ASSUME FewAgents, LeaseInv, UpdatesHaveRecords, NEW s \in Session
  PROVE  ~CommitPanic(s)
<1> SUFFICES ASSUME CommitPanic(s) PROVE FALSE
  OBVIOUS
<1> DEFINE p == call[s].event
           e == Stamped(p, Loaded)
           a == AgentOf[s]
<1>1. a \in Agent /\ IInv /\ now \in Nat /\ Loaded \in Board
  BY SessionAssumption, LoadedOK DEF LeaseInv, IInv, TypeOK
<1>2. p \in Prepared /\ call[s] # NoCall
  BY <1>1, CommittingOK DEF CommitPanic, Committing, IInv
<1>3. e.kind = p.kind /\ e.agent = p.agent /\ e.body = p.body
  BY DEF Stamped
<1>4. /\ p.kind \in {"check_in", "update"}
      /\ gc_projection(apply(Loaded, e), now).agents[p.agent] = Absent
  BY <1>3 DEF CommitPanic, Panics, Committed
<1>5. Writing(s) /\ p.agent = a
  BY <1>2, <1>4 DEF Writing, Presence, LeaseInv, WritesItsOwn
<1>6. e \in Event
  BY <1>1, <1>2, StampedOK
<1> HIDE DEF e, p, a
<1>7. Active(apply(Loaded, e).agents[a])
  <2>1. CASE p.kind = "check_in"
    <3>1. apply(Loaded, e).agents[a] = CheckedIn(e)
      BY <1>1, <1>3, <1>5, <1>6, <2>1, ApplyRecord
    <3>2. CheckedIn(e).state = "checked_in"
      BY DEF CheckedIn
    <3>3. apply(Loaded, e).agents[a] \in AgentRecord \cup {Absent}
      BY <1>1, <1>6, ApplyOK, BoardFields
    <3>4. CheckedIn(e) \in AgentRecord
      BY <1>3, <1>6, <2>1 DEF Event, CheckedIn, CheckInBody, AgentRecord, AgentState, LiveState
    <3> QED
      BY <3>1, <3>2, <3>4, AbsentAssumption DEF Active
  <2>2. CASE p.kind = "update"
    <3> DEFINE mine == Loaded.agents[a]
    <3>1. Active(mine)
      BY <1>1, <1>5, <2>2, LoadedRecord DEF UpdatesHaveRecords, Own, IInv, a, p
    <3>2. mine \in AgentRecord
      BY <1>1, <3>1, BoardFields DEF Active
    <3> HIDE DEF mine
    <3>3. apply(Loaded, e).agents[a] = Updated(mine, e)
      BY <1>1, <1>3, <1>5, <1>6, <2>2, <3>1, ApplyRecord DEF Active, mine
    <3>4. e.lease \in Lease /\ e.ts \in Nat /\ e.body \in UpdateBody
      BY <1>3, <1>6, <2>2 DEF Event
    <3>5. Updated(mine, e) \in AgentRecord /\ Updated(mine, e).state \in LiveState
      BY <3>2, <3>4 DEF Updated, UpdateBody, AgentRecord, AgentState, MaybePaths
    <3> QED
      BY <3>3, <3>5, AbsentAssumption DEF Active, LiveState
  <2> QED
    BY <1>4, <2>1, <2>2
<1> QED
  BY <1>1, <1>4, <1>5, <1>6, <1>7, ApplyOK, GcRecord DEF Active

\* A session's commit always finds the record its reply is made from, however
\* long it waited and whatever was collected meanwhile; as long as the board
\* never has to drop a stale agent to make room.
THEOREM CommitsDoNotPanic ==
  ASSUME OwnAgents, FewAgents
  PROVE  Spec => NoCommitPanics
<1>1. Init => UpdatesHaveRecords
  BY DEF Init, UpdatesHaveRecords, Writing
<1>2. LeaseInv /\ UpdatesHaveRecords /\ [Next]_vars => UpdatesHaveRecords'
  BY RecordsHeldStep
<1>3. LeaseInv /\ UpdatesHaveRecords /\ [Next]_vars =>
        [\A s \in Session : ~CommitPanic(s)]_vars
  BY NoPanic
<1> QED
  BY <1>1, <1>2, <1>3, AlwaysLeaseInv, PTL DEF Spec, NoCommitPanics

-----------------------------------------------------------------------------
(* Capsules and their addressees.  A call that accepts a capsule names its  *)
(* id, and the commit looks for the first open one of that id once more.    *)

\* No capsule has to go to make room for another.
CapsulesFit == Len(board.handoffs) < MaxHandoffs

\* A set of numbers that is not empty has a least one.
LEMMA LeastNumber ==
    ASSUME NEW S \in SUBSET Nat, S # {}
    PROVE  \E m \in S : \A k \in S : m <= k
<1> DEFINE R == {ss \in Nat \X Nat : ss[1] < ss[2]}
<1>1. R = OpToRel(<, Nat)
  BY DEF OpToRel
<1>2. IsWellFoundedOn(R, Nat)
  BY <1>1, NatLessThanWellFounded
<1>3. \E m \in S : \A k \in S : ~ (<<k, m>> \in R)
  BY <1>2, WFMin
<1>4. \A k, m \in Nat : <<k, m>> \in R <=> k < m
  OBVIOUS
<1> QED
  <2> HIDE DEF R
  <2>1. PICK m \in S : \A k \in S : ~ (<<k, m>> \in R)
    BY <1>3
  <2>2. \A k \in S : m <= k
    <3> TAKE k \in S
    <3>1. k \in Nat /\ m \in Nat /\ ~ (<<k, m>> \in R)
      BY <2>1
    <3>2. ~ (k < m)
      BY <1>4, <3>1
    <3> QED
      BY <3>1, <3>2
  <2> QED
  BY <2>2

\* Only an open capsule of that id is taken.
LEMMA TakenItem ==
  ASSUME NEW hs \in Seq(Handoff), NEW id, NEW agent \in Agent, NEW i \in DOMAIN hs,
         Accepting(hs, id, agent)[i] # hs[i]
  PROVE  hs[i].id = id
<1> DEFINE open == {j \in DOMAIN hs : hs[j].id = id /\ Offered(hs[j])}
           first == CHOOSE j \in open : \A k \in open : j <= k
<1>1. open \in SUBSET Nat
  BY LenProperties
<1>2. open # {} => first \in open
  <2> HAVE open # {}
  <2> HIDE DEF open
  <2>1. \E j \in open : \A k \in open : j <= k
    BY <1>1, LeastNumber
  <2> QED
    BY <2>1
<1> HIDE DEF first
<1>3. Accepting(hs, id, agent) = IF open = {} THEN hs
                                 ELSE [hs EXCEPT ![first].accepted_by = agent]
  BY DEF Accepting, first
<1>4. open # {} /\ i = first
  <2> HIDE DEF open
  <2> QED
    BY <1>3
<1> QED
  BY <1>2, <1>4

\* Session s has validated a check-in that takes a capsule.
Taking(s) ==
    /\ call[s] # NoCall /\ call[s].event.kind = "check_in"
    /\ call[s].event.body.accept_handoff # None

\* The capsule it was validated against is still there, under an id that another
\* may have as well.
OffersStand ==
    \A s \in Session : Taking(s) =>
        \E i \in DOMAIN board.handoffs :
            /\ board.handoffs[i].id = call[s].event.body.accept_handoff
            /\ board.handoffs[i].to \in {Nobody, call[s].event.agent}

\* What a step does to the capsules.
LEMMA CapsuleStep ==
  ASSUME IInv, CapsulesFit, [Next]_vars
  PROVE  \/ board'.handoffs = board.handoffs
         \/ \E h \in Handoff : /\ h.accepted_by = Nobody
                               /\ board'.handoffs = Append(board.handoffs, h)
         \/ \E s \in Session : /\ Taking(s) /\ call[s].event.agent \in Agent
                               /\ board'.handoffs = Accepting(board.handoffs,
                                      call[s].event.body.accept_handoff, call[s].event.agent)
<1>1. Loaded.handoffs = board.handoffs /\ Loaded \in Board /\ board.handoffs \in Seq(Handoff)
  BY LoadedOK, BoardFields DEF Loaded, gc_projection, IInv, TypeOK, Board
<1>2. CASE board' = Loaded
  BY <1>1, <1>2
<1>3. CASE board' = board
  BY <1>3
<1>4. ASSUME NEW s \in Session, NEW heard \in Replies, CommitAppend(s, heard)
      PROVE  \/ board'.handoffs = board.handoffs
             \/ \E h \in Handoff : /\ h.accepted_by = Nobody
                                   /\ board'.handoffs = Append(board.handoffs, h)
             \/ /\ Taking(s) /\ call[s].event.agent \in Agent
                /\ board'.handoffs = Accepting(board.handoffs,
                       call[s].event.body.accept_handoff, call[s].event.agent)
  <2> DEFINE p == call[s].event
             e == Stamped(p, Loaded)
  <2>1. e \in Event /\ p \in Prepared /\ call[s] # NoCall /\ now \in Nat
    BY <1>1, <1>4, CommittingOK, StampedOK DEF CommitAppend, Committing, IInv, TypeOK
  <2>2. e.kind = p.kind /\ e.agent = p.agent /\ e.body = p.body
    BY DEF Stamped
  <2>3. board' = gc_projection(apply(Loaded, e), now)
    BY <1>4 DEF CommitAppend, Committed
  <2> HIDE DEF e
  <2>4. board'.handoffs = apply_kind(Loaded, e).handoffs
    <3>1. apply(Loaded, e) \in Board
      BY <1>1, <2>1, ApplyOK
    <3>2. board'.handoffs = apply(Loaded, e).handoffs
      BY <2>3, <3>1 DEF gc_projection, Board
    <3>3. apply(Loaded, e).handoffs = apply_kind(Loaded, e).handoffs
      BY <1>1, <2>1, KindOK DEF apply, Board
    <3> QED
      BY <3>2, <3>3
  <2>5. CASE e.kind = "check_in"
    <3>1. board'.handoffs = IF e.body.accept_handoff = None THEN board.handoffs
                            ELSE Accepting(board.handoffs, e.body.accept_handoff, e.agent)
      BY <1>1, <2>4, <2>5 DEF apply_kind, apply_check_in, Board
    <3>2. e.agent \in Agent
      BY <2>1, <2>5 DEF Event
    <3> QED
      BY <2>1, <2>2, <2>5, <3>1, <3>2 DEF Taking
  <2>6. CASE e.kind = "update"
    BY <1>1, <2>4, <2>6 DEF apply_kind, apply_update, Board
  <2>7. CASE e.kind = "check_out"
    <3>1. board'.handoffs = IF Loaded.agents[e.agent] = Absent \/ e.body.handoff = None
                            THEN board.handoffs
                            ELSE PushBounded(board.handoffs, CapsuleOf(e), MaxHandoffs)
      BY <1>1, <2>4, <2>7 DEF apply_kind, apply_check_out, Board
    <3>2. PushBounded(board.handoffs, CapsuleOf(e), MaxHandoffs) = Append(board.handoffs, CapsuleOf(e))
      BY <1>1, LimitAssumption DEF PushBounded, CapsulesFit
    <3>3. e.body.handoff # None => CapsuleOf(e) \in Handoff /\ CapsuleOf(e).accepted_by = Nobody
      BY <2>1, <2>7 DEF Event, CapsuleOf, CheckOutBody, Handoff
    <3> QED
      BY <3>1, <3>2, <3>3
  <2>8. CASE e.kind \in {"policy_promote", "policy_retire"}
    BY <1>1, <2>4, <2>8 DEF apply_kind, apply_promote, apply_retire, Board
  <2> QED
    BY <2>1, <2>5, <2>6, <2>7, <2>8 DEF Event
<1>5. CASE \E s \in Session, r \in Calls : Begin(s, r)
  BY <1>2, <1>5 DEF Begin, Repeat, CheckIn, Update, LearnLease, CheckOut,
                    Promote, Retire, Advise, Start
<1> QED
  BY <1>2, <1>3, <1>4, <1>5 DEF Next, Finish, AdviseAgain, CommitRepeat,
                               CommitPanic, Abandon, Status, Tick, vars

\* Capsules keep their place, id and addressee.
LEMMA CapsulesStay ==
  ASSUME IInv, CapsulesFit, [Next]_vars
  PROVE  \A i \in DOMAIN board.handoffs :
            /\ i \in DOMAIN board'.handoffs
            /\ board'.handoffs[i].id = board.handoffs[i].id
            /\ board'.handoffs[i].to = board.handoffs[i].to
<1>1. /\ board.handoffs \in Seq(Handoff)
      /\ \A i \in DOMAIN board.handoffs : board.handoffs[i] \in Handoff
  BY BoardFields, ElementOfSeq DEF IInv, TypeOK
<1>2. ASSUME NEW h \in Handoff, board'.handoffs = Append(board.handoffs, h),
             NEW i \in DOMAIN board.handoffs
      PROVE  i \in DOMAIN board'.handoffs /\ board'.handoffs[i] = board.handoffs[i]
  BY <1>1, <1>2
<1>3. ASSUME NEW id, NEW agent \in Agent, board'.handoffs = Accepting(board.handoffs, id, agent),
             NEW i \in DOMAIN board.handoffs
      PROVE  /\ i \in DOMAIN board'.handoffs
             /\ board'.handoffs[i].id = board.handoffs[i].id
             /\ board'.handoffs[i].to = board.handoffs[i].to
  <2>1. /\ i \in DOMAIN board'.handoffs
        /\ board'.handoffs[i] \in {board.handoffs[i],
                                   [board.handoffs[i] EXCEPT !.accepted_by = agent]}
    BY <1>1, <1>3, AcceptedItems
  <2> QED
    BY <1>1, <2>1 DEF Handoff
<1> QED
  BY <1>2, <1>3, CapsuleStep

\* A call that takes a capsule has read that it is offered to its agent.
LEMMA OffersStandStep ==
  ASSUME IInv, CapsulesFit, OffersStand, [Next]_vars
  PROVE  OffersStand'
<1> SUFFICES ASSUME NEW s \in Session, Taking(s)'
             PROVE  \E i \in DOMAIN board'.handoffs :
                       /\ board'.handoffs[i].id = call'[s].event.body.accept_handoff
                       /\ board'.handoffs[i].to \in {Nobody, call'[s].event.agent}
  BY DEF OffersStand
<1>1. CASE call'[s] = call[s]
  <2>1. PICK i \in DOMAIN board.handoffs :
           /\ board.handoffs[i].id = call[s].event.body.accept_handoff
           /\ board.handoffs[i].to \in {Nobody, call[s].event.agent}
    BY <1>1 DEF OffersStand, Taking
  <2> QED
    BY <1>1, <2>1, CapsulesStay
<1>2. ASSUME NEW r \in Calls, CheckIn(s, r)
      PROVE  \E i \in DOMAIN board'.handoffs :
                /\ board'.handoffs[i].id = call'[s].event.body.accept_handoff
                /\ board'.handoffs[i].to \in {Nobody, call'[s].event.agent}
  <2> DEFINE Accept == {None} \cup {h.id : h \in Range(Loaded.handoffs)}
  <2>1. PICK accept \in Accept :
           /\ r.accept <=> accept # None
           /\ r.accept => MayAccept(Loaded, accept, AgentOf[s])
           /\ call'[s].event.agent = AgentOf[s]
           /\ call'[s].event.body.accept_handoff = accept
    BY <1>2 DEF CheckIn, Prepare, IInv, TypeOK
  <2> HIDE DEF Accept
  <2>2. MayAccept(Loaded, accept, AgentOf[s])
    BY <2>1 DEF Taking
  <2>3. PICK i \in DOMAIN Loaded.handoffs :
           Loaded.handoffs[i].id = accept /\ Loaded.handoffs[i].to \in {Nobody, AgentOf[s]}
    BY <2>2 DEF MayAccept
  <2>4. board' = Loaded
    BY <1>2 DEF CheckIn, Start
  <2> QED
    BY <2>1, <2>3, <2>4
<1>3. ASSUME NEW r \in Calls, Update(s, r) \/ CheckOut(s, r)
      PROVE  FALSE
  BY <1>3 DEF Update, CheckOut, Prepare, IInv, TypeOK, Taking
<1>4. Writing(s)'
  BY DEF Taking, Writing, Presence
<1> QED
  BY <1>1, <1>2, <1>3, <1>4, CallStep

\* What is taken was offered to its taker, if there is only one it can have been.
LEMMA TakenStep ==
  ASSUME IInv, CapsulesFit, OffersStand, TakenByAddressee, [Next]_vars
  PROVE  TakenByAddressee'
<1> SUFFICES ASSUME NEW i \in DOMAIN board'.handoffs,
                    board'.handoffs[i].accepted_by # Nobody,
                    \A j \in DOMAIN board'.handoffs :
                       board'.handoffs[j].id = board'.handoffs[i].id => j = i
             PROVE  board'.handoffs[i].to \in {Nobody, board'.handoffs[i].accepted_by}
  BY DEF TakenByAddressee
<1>1. /\ board.handoffs \in Seq(Handoff)
      /\ \A j \in DOMAIN board.handoffs : board.handoffs[j] \in Handoff
  BY BoardFields, ElementOfSeq DEF IInv, TypeOK
<1>2. i \in DOMAIN board.handoffs =>
         /\ board'.handoffs[i].id = board.handoffs[i].id
         /\ board'.handoffs[i].to = board.handoffs[i].to
         /\ \A j \in DOMAIN board.handoffs : board.handoffs[j].id = board.handoffs[i].id => j = i
  BY CapsulesStay
<1>3. CASE i \in DOMAIN board.handoffs /\ board'.handoffs[i] = board.handoffs[i]
  BY <1>2, <1>3 DEF TakenByAddressee
<1>4. ASSUME NEW h \in Handoff, h.accepted_by = Nobody, board'.handoffs = Append(board.handoffs, h)
      PROVE  i \in DOMAIN board.handoffs /\ board'.handoffs[i] = board.handoffs[i]
  BY <1>1, <1>4
<1>5. ASSUME NEW s \in Session, Taking(s), call[s].event.agent \in Agent,
             board'.handoffs = Accepting(board.handoffs,
                                  call[s].event.body.accept_handoff, call[s].event.agent),
             board'.handoffs[i] # board.handoffs[i]
      PROVE  board'.handoffs[i].to \in {Nobody, board'.handoffs[i].accepted_by}
  <2> DEFINE id == call[s].event.body.accept_handoff
             agent == call[s].event.agent
  <2>1. /\ i \in DOMAIN board.handoffs
        /\ board'.handoffs[i] = [board.handoffs[i] EXCEPT !.accepted_by = agent]
    BY <1>1, <1>5, AcceptedItems
  <2>2. board.handoffs[i].id = id
    BY <1>1, <1>5, <2>1, TakenItem
  <2>3. PICK k \in DOMAIN board.handoffs :
           board.handoffs[k].id = id /\ board.handoffs[k].to \in {Nobody, agent}
    BY <1>5 DEF OffersStand
  <2>4. k = i
    BY <1>2, <2>1, <2>2, <2>3
  <2> HIDE DEF agent
  <2>5. board'.handoffs[i].accepted_by = agent /\ board'.handoffs[i].to = board.handoffs[i].to
    BY <1>1, <2>1 DEF Handoff
  <2> QED
    BY <2>3, <2>4, <2>5
<1>6. ASSUME NEW s \in Session, call[s].event.agent \in Agent,
             board'.handoffs = Accepting(board.handoffs,
                                  call[s].event.body.accept_handoff, call[s].event.agent)
      PROVE  i \in DOMAIN board.handoffs
  BY <1>1, <1>6, AcceptedItems
<1> QED
  BY <1>3, <1>4, <1>5, <1>6, CapsuleStep

\* A capsule that is addressed to one agent is only taken by that agent, though the offer
\* was read under one lock and is taken under another, and although ids can be minted
\* twice; as long as the board has room for the capsules.
THEOREM CapsulesReachTheirAddressees == Spec /\ []CapsulesFit => []TakenByAddressee
<1>1. Init => OffersStand /\ TakenByAddressee
  BY DEF Init, EmptyBoard, OffersStand, Taking, TakenByAddressee
<1>2. IInv /\ CapsulesFit /\ OffersStand /\ TakenByAddressee /\ [Next]_vars
        => OffersStand' /\ TakenByAddressee'
  BY OffersStandStep, TakenStep
<1> QED
  BY <1>1, <1>2, AlwaysIInv, PTL DEF Spec

-----------------------------------------------------------------------------
(* Rebuilding the board.  fold is a recursive function of the journal; that *)
(* it is one, and what an event more makes of it, is shown by looking for   *)
(* the least number at which it would fail.                                 *)

\* f is the replay of the first n events of es, step by step.
Replays(f, es, n) ==
    f = [i \in 0 .. n |-> IF i = 0 THEN EmptyBoard ELSE apply(f[i - 1], es[i])]

\* Every number of events can be replayed.
LEMMA ReplaysExist ==
  ASSUME NEW es \in Seq(Event)
  PROVE  \A n \in 0 .. Len(es) : \E f : Replays(f, es, n)
<1> DEFINE bad == {n \in 0 .. Len(es) : ~ \E f : Replays(f, es, n)}
<1> SUFFICES ASSUME bad # {} PROVE FALSE
  OBVIOUS
<1>1. bad \in SUBSET Nat /\ Len(es) \in Nat
  BY LenProperties
<1>2. PICK m \in bad : \A k \in bad : m <= k
  <2> HIDE DEF bad
  <2> QED
    BY <1>1, LeastNumber
<1>3. m \in 0 .. Len(es) /\ ~ \E f : Replays(f, es, m)
  OBVIOUS
<1>4. m # 0
  <2>1. Replays([i \in 0 .. 0 |-> EmptyBoard], es, 0)
    BY DEF Replays
  <2> QED
    BY <1>3, <2>1
<1>5. m - 1 \in 0 .. Len(es) /\ m - 1 \notin bad
  <2> HIDE DEF bad
  <2> QED
    BY <1>1, <1>2, <1>3, <1>4
<1>6. PICK f : Replays(f, es, m - 1)
  BY <1>5
<1> DEFINE g == [i \in 0 .. m |-> IF i = m THEN apply(f[m - 1], es[m]) ELSE f[i]]
<1>7. \A i \in 0 .. m - 1 : f[i] = IF i = 0 THEN EmptyBoard ELSE apply(f[i - 1], es[i])
  BY <1>6 DEF Replays
<1>8. \A i \in 0 .. m : g[i] = IF i = 0 THEN EmptyBoard ELSE apply(g[i - 1], es[i])
  <2> TAKE i \in 0 .. m
  <2>1. CASE i = m
    BY <1>3, <1>4, <2>1
  <2>2. CASE i # m
    <3>1. i \in 0 .. m - 1 /\ g[i] = f[i] /\ (i # 0 => g[i - 1] = f[i - 1])
      BY <1>3, <1>4, <2>2
    <3> HIDE DEF g
    <3> QED
      BY <1>7, <3>1
  <2> QED
    BY <2>1, <2>2
<1>9. Replays(g, es, m)
  <2>1. g = [i \in 0 .. m |-> g[i]]
    OBVIOUS
  <2> HIDE DEF g
  <2> QED
    BY <1>8, <2>1 DEF Replays
<1> QED
  BY <1>3, <1>9

\* There is one replay.
LEMMA ReplaysAgree ==
  ASSUME NEW es, NEW n \in Nat, NEW f, NEW g, Replays(f, es, n), Replays(g, es, n)
  PROVE  \A i \in 0 .. n : f[i] = g[i]
<1> DEFINE bad == {i \in 0 .. n : f[i] # g[i]}
<1> SUFFICES ASSUME bad # {} PROVE FALSE
  OBVIOUS
<1>1. bad \in SUBSET Nat
  OBVIOUS
<1>2. PICK m \in bad : \A i \in bad : m <= i
  <2> HIDE DEF bad
  <2> QED
    BY <1>1, LeastNumber
<1>3. m \in 0 .. n /\ f[m] # g[m]
  OBVIOUS
<1>4. /\ \A i \in 0 .. n : f[i] = IF i = 0 THEN EmptyBoard ELSE apply(f[i - 1], es[i])
      /\ \A i \in 0 .. n : g[i] = IF i = 0 THEN EmptyBoard ELSE apply(g[i - 1], es[i])
  BY DEF Replays
<1>5. m # 0
  BY <1>3, <1>4
<1>6. m - 1 \in 0 .. n /\ m - 1 \notin bad
  <2> HIDE DEF bad
  <2> QED
    BY <1>2, <1>3, <1>5
<1>7. f[m - 1] = g[m - 1]
  BY <1>6
<1> QED
  BY <1>3, <1>4, <1>5, <1>7

LEMMA FoldIsReplay ==
  ASSUME NEW es \in Seq(Event), NEW f, Replays(f, es, Len(es))
  PROVE  fold(es) = f[Len(es)]
<1> DEFINE g == CHOOSE h : Replays(h, es, Len(es))
<1>1. fold(es) = g[Len(es)]
  BY DEF fold, Replays
<1>2. Replays(g, es, Len(es))
  OBVIOUS
<1> HIDE DEF g
<1> QED
  BY <1>1, <1>2, ReplaysAgree, LenProperties

LEMMA FoldOfNothing == fold(<<>>) = EmptyBoard
<1>1. <<>> \in Seq(Event) /\ Len(<<>>) = 0
  OBVIOUS
<1>2. \A n \in 0 .. Len(<<>>) : \E f : Replays(f, <<>>, n)
  BY <1>1, ReplaysExist
<1>3. PICK f : Replays(f, <<>>, 0)
  BY <1>1, <1>2
<1>4. fold(<<>>) = f[0]
  BY <1>1, <1>3, FoldIsReplay
<1> QED
  BY <1>3, <1>4 DEF Replays

\* One event more is one application more.
LEMMA FoldOfAppended ==
  ASSUME NEW es \in Seq(Event), NEW e \in Event
  PROVE  fold(Append(es, e)) = apply(fold(es), e)
<1> DEFINE n == Len(es)
           fs == Append(es, e)
<1>1. /\ n \in Nat /\ fs \in Seq(Event) /\ Len(fs) = n + 1 /\ fs[n + 1] = e
      /\ \A i \in 1 .. n : es[i] = fs[i]
  BY AppendProperties, LenProperties
<1> HIDE DEF n, fs
<1>2. PICK g : Replays(g, fs, n + 1)
  <2>1. \A k \in 0 .. Len(fs) : \E g : Replays(g, fs, k)
    BY <1>1, ReplaysExist
  <2> QED
    BY <1>1, <2>1
<1>3. \A i \in 0 .. n + 1 : g[i] = IF i = 0 THEN EmptyBoard ELSE apply(g[i - 1], fs[i])
  BY <1>2 DEF Replays
<1> DEFINE f == [i \in 0 .. n |-> g[i]]
<1>4. Replays(f, es, n)
  <2>1. \A i \in 0 .. n : f[i] = IF i = 0 THEN EmptyBoard ELSE apply(f[i - 1], es[i])
    BY <1>1, <1>3
  <2>2. f = [i \in 0 .. n |-> f[i]]
    OBVIOUS
  <2> HIDE DEF f
  <2> QED
    BY <2>1, <2>2 DEF Replays
<1>5. f[n] = g[n] /\ g[n + 1] = apply(g[n], fs[n + 1])
  BY <1>1, <1>3
<1> HIDE DEF f
<1>6. fold(es) = f[n]
  BY <1>4, FoldIsReplay DEF n
<1>7. fold(fs) = g[n + 1]
  BY <1>1, <1>2, FoldIsReplay
<1> QED
  BY <1>1, <1>5, <1>6, <1>7 DEF fs

-----------------------------------------------------------------------------
(* What the maintained board and the rebuilt one have in common: the replay  *)
(* never collects, so it may still have the record of an agent whose lease   *)
(* is over, and claims that have been cleared.                               *)

Matches(x, y, t) == Same(x, y) /\ (x = Absent /\ y # Absent => Idle(y, t))

Rebuilds(r, b, t) ==
    /\ r \in Board
    /\ r.seq = b.seq
    /\ r.handoffs = b.handoffs
    /\ r.messages = b.messages
    /\ r.policies = b.policies
    /\ r.active_policy = b.active_policy
    /\ r.idempotency = b.idempotency
    /\ \A a \in Agent : Matches(b.agents[a], r.agents[a], t)

\* Time only makes records idle.
LEMMA MatchesLater ==
  ASSUME NEW x, NEW y \in AgentRecord \cup {Absent}, NEW t \in Nat, NEW u \in Nat,
         t <= u, Matches(x, y, t)
  PROVE  Matches(x, y, u)
  BY DEF Matches, Idle, is_stale, AgentRecord

\* Collection takes nothing from the board that the replay has alive.
LEMMA GcRebuilds ==
  ASSUME NEW b \in Board, NEW r, NEW t \in Nat, Rebuilds(r, b, t)
  PROVE  Rebuilds(r, gc_projection(b, t), t)
<1> DEFINE c == gc_projection(b, t)
<1>1. /\ c.seq = b.seq /\ c.handoffs = b.handoffs /\ c.messages = b.messages
      /\ c.policies = b.policies /\ c.active_policy = b.active_policy
      /\ c.idempotency = b.idempotency
  BY DEF gc_projection, Board
<1>2. ASSUME NEW a \in Agent
      PROVE  Matches(c.agents[a], r.agents[a], t)
  <2> DEFINE x == b.agents[a]
             y == r.agents[a]
             z == c.agents[a]
  <2>1. Matches(x, y, t)
    BY DEF Rebuilds
  <2>2. Same(z, x) /\ (x # Absent /\ ~ Idle(x, t) => z = x)
    BY GcRecord
  <2> HIDE DEF x, y, z
  <2>3. Same(z, y)
    BY <2>1, <2>2, SameTransitive DEF Matches
  <2>4. ASSUME z = Absent, y # Absent
        PROVE  Idle(y, t)
    <3>1. CASE x = Absent
      BY <2>1, <2>4, <3>1 DEF Matches
    <3>2. CASE x # Absent
      BY <2>1, <2>2, <2>4, <3>2 DEF Matches, Same, Idle, is_stale
    <3> QED
      BY <3>1, <3>2
  <2> QED
    BY <2>3, <2>4 DEF Matches, x, y, z
<1> HIDE DEF c
<1> QED
  BY <1>1, <1>2 DEF Rebuilds, c

\* An event does the same to both, if the record it is about is there.
LEMMA ApplyRebuilds ==
  ASSUME NEW b \in Board, NEW r, NEW t \in Nat, Rebuilds(r, b, t), NEW e \in Event,
         e.kind \in {"update", "check_out"} => b.agents[e.agent] # Absent
  PROVE  Rebuilds(apply(r, e), apply(b, e), t)
<1> DEFINE c == apply(b, e)
           q == apply(r, e)
<1>1. r \in Board /\ q \in Board /\ apply_kind(r, e) \in Board /\ apply_kind(b, e) \in Board
  BY ApplyOK, KindOK DEF Rebuilds
<1>2. /\ r.handoffs = b.handoffs /\ r.messages = b.messages /\ r.policies = b.policies
      /\ r.active_policy = b.active_policy /\ r.idempotency = b.idempotency
      /\ \A a \in Agent : Matches(b.agents[a], r.agents[a], t)
  BY DEF Rebuilds
<1>3. e.kind \in Presence => e.agent \in Agent
  BY DEF Event, Presence
<1>4. e.kind \in Presence \cup {"policy_promote", "policy_retire"}
  BY DEF Event, Presence
<1>5. e.kind \in {"update", "check_out"} => r.agents[e.agent] # Absent
  BY <1>2, <1>3 DEF Matches, Same, Presence
<1>6. /\ apply_kind(r, e).handoffs = apply_kind(b, e).handoffs
      /\ apply_kind(r, e).messages = apply_kind(b, e).messages
      /\ apply_kind(r, e).policies = apply_kind(b, e).policies
      /\ apply_kind(r, e).active_policy = apply_kind(b, e).active_policy
      /\ apply_kind(r, e).idempotency = b.idempotency
      /\ apply_kind(b, e).idempotency = b.idempotency
  <2>1. CASE e.kind = "check_in"
    BY <1>1, <1>2, <2>1 DEF apply_kind, apply_check_in, Board
  <2>2. CASE e.kind = "update"
    BY <1>1, <1>2, <1>5, <2>2 DEF apply_kind, apply_update, Board
  <2>3. CASE e.kind = "check_out"
    BY <1>1, <1>2, <1>5, <2>3 DEF apply_kind, apply_check_out, Board
  <2>4. CASE e.kind = "policy_promote"
    BY <1>1, <1>2, <2>4 DEF apply_kind, apply_promote, Board
  <2>5. CASE e.kind = "policy_retire"
    BY <1>1, <1>2, <2>5 DEF apply_kind, apply_retire, Board
  <2> QED
    BY <1>4, <2>1, <2>2, <2>3, <2>4, <2>5 DEF Presence
<1>7. /\ q.seq = c.seq /\ q.handoffs = c.handoffs /\ q.messages = c.messages
      /\ q.policies = c.policies /\ q.active_policy = c.active_policy
      /\ q.idempotency = c.idempotency
  BY <1>1, <1>6 DEF apply, Board
<1>8. ASSUME NEW a \in Agent
      PROVE  Matches(c.agents[a], q.agents[a], t)
  <2>1. CASE a # e.agent
    <3>1. c.agents[a] = b.agents[a] /\ q.agents[a] = r.agents[a]
      BY <1>1, <2>1, ApplyRecord
    <3> QED
      BY <1>2, <3>1
  <2>2. CASE a = e.agent /\ e.kind = "check_in"
    <3>1. c.agents[a] = CheckedIn(e) /\ q.agents[a] = CheckedIn(e)
      BY <1>1, <2>2, ApplyRecord
    <3> HIDE DEF c, q
    <3> QED
      BY <3>1 DEF Matches, Same
  <2>3. CASE a = e.agent /\ e.kind = "update"
    <3> DEFINE x == b.agents[a]
               y == r.agents[a]
    <3>1. c.agents[a] = Updated(x, e) /\ q.agents[a] = Updated(y, e) /\ x # Absent /\ y # Absent
      BY <1>1, <1>5, <2>3, ApplyRecord
    <3>2. x \in AgentRecord /\ y \in AgentRecord /\ Same(x, y) /\ Updated(y, e) # Absent
      <4>1. /\ x \in AgentRecord \cup {Absent} /\ y \in AgentRecord \cup {Absent}
            /\ Matches(x, y, t)
        BY <1>1, <1>2, BoardFields
      <4>2. e.lease \in Lease /\ e.ts \in Nat /\ e.body \in UpdateBody
        BY <2>3 DEF Event
      <4>3. y \in AgentRecord => Updated(y, e) \in AgentRecord
        <5> HIDE DEF y
        <5> QED
          BY <4>2 DEF Updated, UpdateBody, AgentRecord, AgentState, MaybePaths
      <4> QED
        BY <3>1, <4>1, <4>3, AbsentAssumption DEF Matches
    <3> HIDE DEF x, y, c, q
    <3>3. Same(Updated(x, e), Updated(y, e)) /\ Updated(x, e) # Absent
      <4>1. /\ Updated(x, e).lease = Updated(y, e).lease
            /\ Updated(x, e).revision = Updated(y, e).revision
            /\ Updated(x, e).state = Updated(y, e).state
            /\ Updated(x, e).expires_at = Updated(y, e).expires_at
            /\ Updated(x, e).saved = Updated(y, e).saved
        BY <3>2 DEF Updated, AgentRecord
      <4>2. /\ Updated(x, e).dirty = IF e.body.dirty = None THEN x.dirty ELSE e.body.dirty
            /\ Updated(y, e).dirty = IF e.body.dirty = None THEN y.dirty ELSE e.body.dirty
            /\ Updated(x, e).claims = IF e.body.claims = None THEN x.claims ELSE e.body.claims
            /\ Updated(y, e).claims = IF e.body.claims = None THEN y.claims ELSE e.body.claims
        BY <3>2 DEF Updated, AgentRecord
      <4>3. x.dirty \in {{}, y.dirty} /\ x.claims \in {{}, y.claims}
        BY <3>1, <3>2 DEF Same
      <4>4. Updated(x, e) # Absent
        <5>1. e.lease \in Lease /\ e.ts \in Nat /\ e.body \in UpdateBody
          BY <2>3 DEF Event
        <5>2. Updated(x, e) \in AgentRecord
          BY <3>2, <5>1 DEF Updated, UpdateBody, AgentRecord, AgentState, MaybePaths
        <5> QED
          BY <5>2, AbsentAssumption
      <4> QED
        BY <3>2, <4>1, <4>2, <4>3, <4>4 DEF Same
    <3> QED
      BY <3>1, <3>3 DEF Matches
  <2>4. CASE a = e.agent /\ e.kind = "check_out"
    <3> DEFINE x == b.agents[a]
               y == r.agents[a]
    <3>1. c.agents[a] = CheckedOut(x, e) /\ q.agents[a] = CheckedOut(y, e) /\ x # Absent /\ y # Absent
      BY <1>1, <1>5, <2>4, ApplyRecord
    <3>2. x \in AgentRecord /\ y \in AgentRecord /\ Same(x, y)
      <4>1. /\ x \in AgentRecord \cup {Absent} /\ y \in AgentRecord \cup {Absent}
            /\ Matches(x, y, t)
        BY <1>1, <1>2, BoardFields
      <4> QED
        BY <3>1, <4>1 DEF Matches
    <3>3. e.ts \in Nat /\ e.body \in CheckOutBody
      BY <2>4 DEF Event
    <3> HIDE DEF x, y, c, q
    <3>4. CheckedOut(x, e) \in AgentRecord /\ CheckedOut(y, e) \in AgentRecord
      BY <3>2, <3>3 DEF CheckedOut, CheckOutBody, AgentRecord, AgentState
    <3>5. Same(CheckedOut(x, e), CheckedOut(y, e))
      BY <3>1, <3>2, <3>4, AbsentAssumption DEF CheckedOut, Same, AgentRecord
    <3> QED
      BY <3>1, <3>4, <3>5, AbsentAssumption DEF Matches
  <2>5. CASE a = e.agent /\ e.kind \in {"policy_promote", "policy_retire"}
    <3>1. apply_kind(r, e).agents = r.agents /\ apply_kind(b, e).agents = b.agents
      BY <1>1, <2>5 DEF apply_kind, apply_promote, apply_retire, Board
    <3>2. q.agents = r.agents /\ c.agents = b.agents
      BY <1>1, <3>1 DEF apply, Board
    <3> QED
      BY <1>2, <3>2
  <2> QED
    BY <1>4, <2>1, <2>2, <2>3, <2>4, <2>5 DEF Presence
<1> HIDE DEF c, q
<1> QED
  BY <1>1, <1>7, <1>8 DEF Rebuilds, c, q

JournalRebuilds == Rebuilds(fold(journal), board, now)

LEMMA RebuildStep ==
  ASSUME FewAgents, LeaseInv, UpdatesHaveRecords, JournalRebuilds, [Next]_vars
  PROVE  JournalRebuilds'
<1>1. /\ IInv /\ board \in Board /\ journal \in Seq(Event) /\ now \in Nat
      /\ Loaded \in Board /\ Rebuilds(fold(journal), board, now)
  BY LoadedOK DEF LeaseInv, IInv, TypeOK, JournalRebuilds
<1>2. Rebuilds(fold(journal), Loaded, now)
  BY <1>1, GcRebuilds DEF Loaded
<1>3. CASE board' = Loaded /\ journal' = journal /\ now' = now
  BY <1>2, <1>3 DEF JournalRebuilds
<1>4. CASE board' = board /\ journal' = journal /\ now' = now
  BY <1>1, <1>4 DEF JournalRebuilds
<1>5. CASE board' = board /\ journal' = journal /\ now' = now + 1
  <2>1. \A a \in Agent : fold(journal).agents[a] \in AgentRecord \cup {Absent}
    BY <1>1, BoardFields DEF Rebuilds
  <2>2. \A a \in Agent : Matches(board.agents[a], fold(journal).agents[a], now + 1)
    BY <1>1, <2>1, MatchesLater DEF Rebuilds
  <2>3. Rebuilds(fold(journal), board, now + 1)
    BY <1>1, <2>2 DEF Rebuilds
  <2> QED
    BY <1>5, <2>3 DEF JournalRebuilds
<1>6. ASSUME NEW s \in Session, NEW heard \in Replies, CommitAppend(s, heard)
      PROVE  JournalRebuilds'
  <2> DEFINE p == call[s].event
             e == Stamped(p, Loaded)
  <2>1. p \in Prepared /\ e \in Event /\ e.kind = p.kind /\ e.agent = p.agent
    <3>1. p \in Prepared
      BY <1>1, <1>6, CommittingOK DEF CommitAppend, IInv
    <3>2. e.kind = p.kind /\ e.agent = p.agent
      BY DEF Stamped
    <3> HIDE DEF p
    <3>3. e \in Event
      BY <1>1, <3>1, StampedOK
    <3> QED
      BY <3>1, <3>2, <3>3
  <2>2. /\ board' = gc_projection(apply(Loaded, e), now)
        /\ journal' = Append(journal, e) /\ now' = now
    BY <1>6 DEF CommitAppend, Committed
  <2>3. e.kind \in {"update", "check_out"} => Loaded.agents[e.agent] # Absent
    <3> HAVE e.kind \in {"update", "check_out"}
    <3>1. p.agent \in Agent
      BY <2>1 DEF Prepared
    <3>2. Writing(s) /\ AgentOf[s] = p.agent
      BY <1>1, <1>6, <3>1, OwnAppend DEF LeaseInv
    <3>3. Active(board.agents[p.agent])
      BY <2>1, <3>2 DEF UpdatesHaveRecords, Own
    <3> QED
      BY <1>1, <2>1, <3>1, <3>3, LoadedRecord DEF IInv, Active
  <2> HIDE DEF e
  <2>4. fold(journal') = apply(fold(journal), e)
    BY <1>1, <2>1, <2>2, FoldOfAppended
  <2>5. Rebuilds(apply(fold(journal), e), apply(Loaded, e), now)
    BY <1>1, <1>2, <2>1, <2>3, ApplyRebuilds
  <2>6. Rebuilds(apply(fold(journal), e), board', now)
    BY <1>1, <2>1, <2>2, <2>5, ApplyOK, GcRebuilds
  <2> QED
    BY <2>2, <2>4, <2>6 DEF JournalRebuilds
<1>7. CASE \E s \in Session, r \in Calls : Begin(s, r)
  BY <1>3, <1>7 DEF Begin, Repeat, CheckIn, Update, LearnLease, CheckOut,
                    Promote, Retire, Advise, Start
<1> QED
  BY <1>3, <1>4, <1>5, <1>6, <1>7 DEF Next, Finish, AdviseAgain, CommitRepeat,
                               CommitPanic, Abandon, Status, Tick, vars

\* Who is working is the same before and after a collection.
LEMMA WorkingStays ==
  ASSUME NEW b \in Board, NEW a \in Agent, now \in Nat
  PROVE  /\ Working(gc_projection(b, now), a) <=> Working(b, a)
         /\ Working(b, a) => gc_projection(b, now).agents[a] = b.agents[a]
<1> DEFINE x == b.agents[a]
           z == gc_projection(b, now).agents[a]
<1>1. Same(z, x) /\ (x # Absent /\ ~ Idle(x, now) => z = x)
  BY GcRecord
<1> HIDE DEF x, z
<1>2. z # Absent /\ ~ Idle(z, now) <=> x # Absent /\ ~ Idle(x, now)
  BY <1>1 DEF Same, Idle, is_stale
<1> QED
  BY <1>1, <1>2 DEF Working, x, z

\* A board rebuilt from the journal has every agent that is working, with its
\* lease, and all capsules, notes, policies and keys, as the maintained one has.
THEOREM RebuildsAgree ==
  ASSUME OwnAgents, FewAgents
  PROVE  Spec => []RebuildAgrees
<1>1. Init => UpdatesHaveRecords /\ JournalRebuilds
  <2> SUFFICES ASSUME Init PROVE UpdatesHaveRecords /\ JournalRebuilds
    OBVIOUS
  <2>1. UpdatesHaveRecords
    BY DEF Init, UpdatesHaveRecords, Writing
  <2>2. board = EmptyBoard /\ fold(journal) = EmptyBoard
    BY FoldOfNothing DEF Init
  <2> QED
    BY <2>1, <2>2, EmptyBoardOK DEF JournalRebuilds, Rebuilds, Matches, Same, EmptyBoard
<1>2. LeaseInv /\ UpdatesHaveRecords /\ [Next]_vars => UpdatesHaveRecords'
  BY RecordsHeldStep
<1>3. LeaseInv /\ UpdatesHaveRecords /\ JournalRebuilds /\ [Next]_vars => JournalRebuilds'
  BY RebuildStep
<1>4. LeaseInv /\ JournalRebuilds => RebuildAgrees
  <2> SUFFICES ASSUME LeaseInv, JournalRebuilds PROVE RebuildAgrees
    OBVIOUS
  <2> DEFINE r == fold(journal)
             b == gc_projection(board, now)
             q == gc_projection(r, now)
  <2>1. board \in Board /\ now \in Nat /\ r \in Board /\ Rebuilds(r, board, now)
    BY DEF LeaseInv, IInv, TypeOK, JournalRebuilds, Rebuilds
  <2> HIDE DEF r
  <2>2. /\ b.seq = board.seq /\ b.handoffs = board.handoffs /\ b.messages = board.messages
        /\ b.policies = board.policies /\ b.active_policy = board.active_policy
        /\ b.idempotency = board.idempotency
    BY <2>1 DEF gc_projection, Board
  <2>3. /\ q.seq = r.seq /\ q.handoffs = r.handoffs /\ q.messages = r.messages
        /\ q.policies = r.policies /\ q.active_policy = r.active_policy
        /\ q.idempotency = r.idempotency
    BY <2>1 DEF gc_projection, Board
  <2>4. ASSUME NEW a \in Agent, Working(b, a) \/ Working(q, a)
        PROVE  /\ Working(b, a) /\ Working(q, a)
               /\ b.agents[a].lease = q.agents[a].lease
               /\ b.agents[a].revision = q.agents[a].revision
               /\ b.agents[a].state = q.agents[a].state
               /\ b.agents[a].expires_at = q.agents[a].expires_at
               /\ b.agents[a].claims \subseteq q.agents[a].claims
    <3>1. /\ Working(b, a) <=> Working(board, a)
          /\ Working(q, a) <=> Working(r, a)
          /\ Working(board, a) => b.agents[a] = board.agents[a]
          /\ Working(r, a) => q.agents[a] = r.agents[a]
      BY <2>1, WorkingStays
    <3>2. Matches(board.agents[a], r.agents[a], now)
      BY <2>1 DEF Rebuilds
    <3>3. Working(board, a) <=> Working(r, a)
      BY <3>2 DEF Matches, Same, Working, Idle, is_stale
    <3>4. Working(board, a) => /\ board.agents[a].lease = r.agents[a].lease
                               /\ board.agents[a].revision = r.agents[a].revision
                               /\ board.agents[a].state = r.agents[a].state
                               /\ board.agents[a].expires_at = r.agents[a].expires_at
                               /\ board.agents[a].claims \in {{}, r.agents[a].claims}
      BY <3>2 DEF Matches, Same, Working
    <3> QED
      BY <2>4, <3>1, <3>3, <3>4
  <2> HIDE DEF b, q
  <2>5. /\ q.seq = b.seq /\ q.handoffs = b.handoffs /\ q.messages = b.messages
        /\ q.policies = b.policies /\ q.active_policy = b.active_policy
        /\ q.idempotency = b.idempotency
    BY <2>1, <2>2, <2>3 DEF Rebuilds
  <2> QED
    BY <2>4, <2>5 DEF RebuildAgrees, b, q, r
<1> QED
  BY <1>1, <1>2, <1>3, <1>4, AlwaysLeaseInv, PTL DEF Spec

=============================================================================
