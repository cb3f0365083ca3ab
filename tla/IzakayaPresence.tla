--------------------------- MODULE IzakayaPresence ---------------------------
(***************************************************************************)
(* Sessions (MCP servers and CLI runs, one process each) sharing one       *)
(* Izakaya coordination group.                                             *)
(*                                                                         *)
(* Every mutation is two critical sections of the group's file lock: one   *)
(* that reads the board and validates the call against it, and one, some   *)
(* time later, that commits the prepared event.  Nothing is validated      *)
(* again in the second, except the idempotency key.  Between the two the   *)
(* clock may advance, other sessions may run, and the process may die.     *)
(*                                                                         *)
(* Here the files never tear, so the projection is always trusted and the  *)
(* journal is the list of every event; IzakayaJournal models the files.    *)
(***************************************************************************)
EXTENDS IzakayaBoard

CONSTANTS
    Session,        \* processes that call the tools
    AgentOf,        \* the agent id a session calls the tools with
    Calls,          \* the argument records sessions may send
    NoCall,         \* no call in progress
    NoLease,        \* a session that holds no lease
    DefaultTtl,     \* izakaya.ttl_secs
    SuspendTtl,     \* izakaya.suspend_ttl_secs
    Replies,        \* TRUE: replies arrive, FALSE: they are lost
    MaxEvents,      \* bound: journal length
    MaxTime         \* bound: the clock

ASSUME SessionAssumption == AgentOf \in [Session -> Agent]
\* What a caller may pass to each operation.
CheckInArgs ==
    [op: {"check_in"}, force: BOOLEAN, resume: BOOLEAN, ttl: Nat,
     claims: SUBSET Path, dirty: SUBSET Path, saved: BOOLEAN, accept: BOOLEAN,
     key: MaybeKey, expect: BOOLEAN]

UpdateArgs ==
    [op: {"update"}, state: AgentState \cup {None}, ttl: Nat,
     claims: MaybePaths, dirty: MaybePaths, saved: BOOLEAN,
     note: Agent \cup {Nobody, None}, ack: BOOLEAN,
     key: MaybeKey, expect: BOOLEAN]

CheckOutArgs ==
    [op: {"check_out"}, handoff: Agent \cup {Nobody, None},
     key: MaybeKey, expect: BOOLEAN]

PolicyArgs == [op: {"promote", "retire"}, id: Policy]

AdviseArgs == [op: {"advise"}]

ASSUME CallAssumption ==
    Calls \subseteq CheckInArgs \cup UpdateArgs \cup CheckOutArgs
                       \cup PolicyArgs \cup AdviseArgs
ASSUME ReplyAssumption == Replies \subseteq BOOLEAN
ASSUME TtlAssumption == DefaultTtl \in Nat \ {0} /\ SuspendTtl \in Nat \ {0}

VARIABLES
    board,          \* projection.json
    journal,        \* events.ndjson
    now,            \* now_secs()
    call,           \* per session: the validated call waiting to be committed
    held,           \* per session: the lease id it last learned
    seen            \* per session: the revision it last learned

vars == <<board, journal, now, call, held, seen>>

\* store::read, and the load at the start of a commit: the projection as it
\* is on disk, collected at the current time and written back when that
\* changed it.
Loaded == gc_projection(board, now)

\* A new call starts only while its event would still fit the bound.
Room == Len(journal) + Cardinality({s \in Session : call[s] # NoCall}) < MaxEvents

Remembered(b, key) == key # NoKey /\ b.idempotency[key] # 0

\* The event a repeated key is answered for.
First(b, key) == journal[b.idempotency[key]]

\* The reply to a check-in or an update names the lease and the revision, and
\* so does a repetition of that reply.
Hear(s, e) ==
    IF e.kind \in {"check_in", "update"}
    THEN /\ held' = [held EXCEPT ![s] = e.lease]
         /\ seen' = [seen EXCEPT ![s] = e.body.revision]
    ELSE UNCHANGED <<held, seen>>

-----------------------------------------------------------------------------
Init ==
    /\ board = EmptyBoard
    /\ journal = <<>>
    /\ now = 1
    /\ call = [s \in Session |-> NoCall]
    /\ held = [s \in Session |-> NoLease]
    /\ seen = [s \in Session |-> 0]

\* The first critical section of a call.
Start(s, r) ==
    /\ call[s] = NoCall
    /\ Room
    /\ r \in Calls
    /\ board' = Loaded
    /\ UNCHANGED <<journal, now>>

\* cached(): the key is known, so the call is over.
Repeat(s, r) ==
    /\ Start(s, r)
    /\ r.op \in {"check_in", "update", "check_out"}
    /\ Remembered(Loaded, r.key)
    /\ Hear(s, First(Loaded, r.key))
    /\ UNCHANGED call

Prepare(s, r, event) == call' = [call EXCEPT ![s] = [args |-> r, event |-> event]]

\* Mutant: the addressee is not compared.
MayAccept_anyone(b, id, agent) ==
    \E h \in Range(b.handoffs) : h.id = id /\ Offered(h)

\* The first handoff of that id is open and addressed to the agent or anyone.
MayAccept(b, id, agent) ==
    LET matching == {i \in DOMAIN b.handoffs : b.handoffs[i].id = id}
    IN  \E i \in matching :
          /\ \A j \in matching : i <= j
          /\ Offered(b.handoffs[i])
          /\ b.handoffs[i].to \in {Nobody, agent}

\* Mutant: every check-in starts counting again.
Revision_restarted(a) == 0

Revision(a) == IF a = Absent THEN 0 ELSE a.revision

Active(a) == a # Absent /\ a.state # "checked_out"

Resumes(s, r, a) == Active(a) /\ r.resume /\ held[s] = a.lease

\* Mutant: only a resumption is compared with the current lease.
MayCheckIn_trusting(s, r, a) ==
    Active(a) /\ r.resume => held[s] = a.lease

\* An active incarnation is resumed by its lease, or taken over once it has
\* expired or by force.
MayCheckIn(s, r, a) ==
    Active(a) /\ ~Resumes(s, r, a) => is_stale(a, now) \/ r.force

CheckIn(s, r) ==
    LET id == AgentOf[s]
        a == Loaded.agents[id]
        revision == Revision(a) + 1
        ttl == IF r.ttl = 0 THEN DefaultTtl ELSE r.ttl
    IN
    /\ Start(s, r)
    /\ r.op = "check_in"
    /\ ~Remembered(Loaded, r.key)
    /\ MayCheckIn(s, r, a)
    /\ r.expect => seen[s] = Revision(a)
    /\ \E accept \in {None} \cup {h.id : h \in Range(Loaded.handoffs)} :
         /\ r.accept <=> accept # None
         /\ r.accept => MayAccept(Loaded, accept, id)
         /\ Prepare(s, r,
              [kind |-> "check_in", agent |-> id,
               lease |-> IF Resumes(s, r, a) THEN a.lease
                         ELSE new_lease(id, revision, now),
               key |-> r.key,
               body |-> [revision |-> revision, expires_at |-> now + ttl,
                         ttl |-> ttl, claims |-> r.claims, dirty |-> r.dirty,
                         saved |-> r.saved, accept_handoff |-> accept]])
    /\ UNCHANGED <<held, seen>>

\* live_agent, and the lease the caller passed is the current one
HoldsLease(s, a) == Active(a) /\ held[s] = a.lease

\* Mutant: an omitted dirty list is taken for an empty one.
DirtyAfter_empty(r, a) == IF r.dirty = None THEN {} ELSE r.dirty

DirtyAfter(r, a) == IF r.dirty = None THEN a.dirty ELSE r.dirty

TtlAfter(r, a, to) ==
    LET default == IF a.ttl >= DefaultTtl THEN a.ttl ELSE DefaultTtl
    IN  IF to = "suspended" THEN SuspendTtl
        ELSE IF r.ttl = 0 THEN default ELSE r.ttl

Update(s, r) ==
    LET id == AgentOf[s]
        a == Loaded.agents[id]
        to == IF r.state = None THEN a.state ELSE r.state
        saved == r.saved \/ a.saved
    IN
    /\ Start(s, r)
    /\ r.op = "update"
    /\ ~Remembered(Loaded, r.key)
    /\ HoldsLease(s, a)
    /\ r.expect => seen[s] = a.revision
    /\ to # "checked_out"
    /\ transition_ok(a.state, to)
    /\ to = "suspended" /\ DirtyAfter(r, a) # {} => saved
    /\ Prepare(s, r,
         [kind |-> "update", agent |-> id, lease |-> held[s], key |-> r.key,
          body |-> [revision |-> a.revision + 1, state |-> to,
                    expires_at |-> now + TtlAfter(r, a, to), claims |-> r.claims,
                    dirty |-> r.dirty, saved |-> saved, note |-> r.note,
                    ack_seqs |-> IF r.ack THEN {m.seq : m \in Range(Loaded.messages)}
                                 ELSE {}]])
    /\ UNCHANGED <<held, seen>>

\* An update without the current lease is refused, and the refusal names it.
LearnLease(s, r) ==
    LET a == Loaded.agents[AgentOf[s]] IN
    /\ Start(s, r)
    /\ r.op = "update"
    /\ ~Remembered(Loaded, r.key)
    /\ Active(a)
    /\ held[s] # a.lease
    /\ held' = [held EXCEPT ![s] = a.lease]
    /\ UNCHANGED <<call, seen>>

\* The capsule's id is minted from the board that was read, not the one the
\* commit will find.
CheckOut(s, r) ==
    LET id == AgentOf[s]
        a == Loaded.agents[id]
    IN
    /\ Start(s, r)
    /\ r.op = "check_out"
    /\ ~Remembered(Loaded, r.key)
    /\ HoldsLease(s, a)
    /\ r.expect => seen[s] = a.revision
    /\ Prepare(s, r,
         [kind |-> "check_out", agent |-> id, lease |-> held[s], key |-> r.key,
          body |-> [revision |-> a.revision + 1,
                    handoff |-> IF r.handoff = None THEN None
                                ELSE [id |-> Loaded.seq + 1, to |-> r.handoff]]])
    /\ UNCHANGED <<held, seen>>

PolicyEvent(kind, id) ==
    [kind |-> kind, agent |-> Nobody, lease |-> None, key |-> NoKey,
     body |-> [id |-> id]]

\* The evaluation a promotion has to pass loads the board, and then the lab's
\* events; whether it passes is left open.
Promote(s, r) ==
    /\ Start(s, r)
    /\ r.op = "promote"
    /\ Prepare(s, r, PolicyEvent("policy_promote", r.id))
    /\ UNCHANGED <<held, seen>>

Retire(s, r) ==
    /\ Start(s, r)
    /\ r.op = "retire"
    /\ \E p \in Range(Loaded.policies) : p.id = r.id
    /\ Prepare(s, r, PolicyEvent("policy_retire", r.id))
    /\ UNCHANGED <<held, seen>>

\* izakaya_advise reads the board twice and compares what it saw.
Advise(s, r) ==
    /\ Start(s, r)
    /\ r.op = "advise"
    /\ [id |-> Loaded.active_policy, status |-> "active"] \in Range(Loaded.policies)
    /\ Prepare(s, r, [kind |-> "advise", seq |-> Loaded.seq])
    /\ UNCHANGED <<held, seen>>

AdviseAgain(s) ==
    /\ call[s] # NoCall
    /\ call[s].event.kind = "advise"
    /\ board' = Loaded
    /\ call' = [call EXCEPT ![s] = NoCall]
    /\ UNCHANGED <<journal, now, held, seen>>

\* izakaya_status, any call that is refused, and a check-out of an agent still
\* on the board as checked out: only the load happens.
Status ==
    /\ board' = Loaded
    /\ UNCHANGED <<journal, now, call, held, seen>>

-----------------------------------------------------------------------------
(* store::commit, the second critical section *)

Committing(s) == call[s] # NoCall /\ call[s].event.kind # "advise"

Stamped(p, b) ==
    [kind |-> p.kind, seq |-> b.seq + 1, ts |-> now, agent |-> p.agent,
     lease |-> p.lease, key |-> p.key, body |-> p.body]

Committed(b, e) == gc_projection(apply(b, e), now)

\* render_check_in and render_update index the agent's record before the
\* event is appended; with no record there the process panics.
Panics(e, b) == e.kind \in {"check_in", "update"} /\ b.agents[e.agent] = Absent

\* Mutant: the table is consulted only when the call is read.
AlreadyCommitted_unchecked(p) == FALSE

\* The idempotency table is looked up once more under the lock.
AlreadyCommitted(p) == Remembered(Loaded, p.key)

\* The key was committed since it was looked up: the first reply again.
CommitRepeat(s) ==
    /\ Committing(s)
    /\ AlreadyCommitted(call[s].event)
    /\ board' = Loaded
    /\ call' = [call EXCEPT ![s] = NoCall]
    /\ Hear(s, First(Loaded, call[s].event.key))
    /\ UNCHANGED <<journal, now>>

CommitPanic(s) ==
    LET e == Stamped(call[s].event, Loaded) IN
    /\ Committing(s)
    /\ ~AlreadyCommitted(e)
    /\ Panics(e, Committed(Loaded, e))
    /\ board' = Loaded
    /\ call' = [call EXCEPT ![s] = NoCall]
    /\ UNCHANGED <<journal, now, held, seen>>

\* heard: whether the reply reaches the session.
CommitAppend(s, heard) ==
    LET e == Stamped(call[s].event, Loaded) IN
    /\ Committing(s)
    /\ ~AlreadyCommitted(e)
    /\ ~Panics(e, Committed(Loaded, e))
    /\ board' = Committed(Loaded, e)
    /\ journal' = Append(journal, e)
    /\ call' = [call EXCEPT ![s] = NoCall]
    /\ IF heard THEN Hear(s, e) ELSE UNCHANGED <<held, seen>>
    /\ UNCHANGED now

\* The process is killed, or its caller gives up, before the commit.
Abandon(s) ==
    /\ call[s] # NoCall
    /\ call' = [call EXCEPT ![s] = NoCall]
    /\ UNCHANGED <<board, journal, now, held, seen>>

Tick ==
    /\ now < MaxTime
    /\ now' = now + 1
    /\ UNCHANGED <<board, journal, call, held, seen>>

-----------------------------------------------------------------------------
Begin(s, r) ==
    \/ Repeat(s, r)
    \/ CheckIn(s, r)
    \/ Update(s, r)
    \/ LearnLease(s, r)
    \/ CheckOut(s, r)
    \/ Promote(s, r)
    \/ Retire(s, r)
    \/ Advise(s, r)

Finish(s) ==
    \/ AdviseAgain(s)
    \/ CommitRepeat(s)
    \/ CommitPanic(s)
    \/ \E heard \in Replies : CommitAppend(s, heard)
    \/ Abandon(s)

Next ==
    \/ \E s \in Session : Finish(s) \/ \E r \in Calls : Begin(s, r)
    \/ Status
    \/ Tick

Spec == Init /\ [][Next]_vars

-----------------------------------------------------------------------------
(* Types *)

LeaseOrNone == Lease \cup {NoLease}

\* An event prepared but not yet numbered.
Prepared ==
    [kind: {"check_in"}, agent: Agent, lease: Lease, key: MaybeKey,
     body: CheckInBody]
    \cup [kind: {"update"}, agent: Agent, lease: Lease, key: MaybeKey,
          body: UpdateBody]
    \cup [kind: {"check_out"}, agent: Agent, lease: Lease, key: MaybeKey,
          body: CheckOutBody]
    \cup [kind: {"policy_promote", "policy_retire"}, agent: {Nobody},
          lease: {None}, key: {NoKey}, body: [id: Policy]]

Advice == [kind: {"advise"}, seq: Nat]

Pending == [args: Calls, event: Prepared \cup Advice]

\* Type invariant of the shared files, the clock and the sessions.
TypeOK ==
    /\ board \in Board
    /\ journal \in Seq(Event)
    /\ now \in Nat
    /\ call \in [Session -> Pending \cup {NoCall}]
    /\ held \in [Session -> LeaseOrNone]
    /\ seen \in [Session -> Nat]

-----------------------------------------------------------------------------
(* Safety *)

\* The commit takes its sequence number from the board it loads under the
\* lock, so however many sessions validated against the same board, the
\* journal numbers its events 1, 2, 3, ... and the board carries the last.
SequenceIsDense ==
    /\ board.seq = Len(journal)
    /\ \A i \in DOMAIN journal : journal[i].seq = i

\* A call retried with its idempotency key, after a lost reply or at the same
\* time as the first try, takes effect once.
KeyTakesEffectOnce ==
    \A i, j \in DOMAIN journal :
        journal[i].key = journal[j].key /\ journal[i].key # NoKey => i = j

\* The table kept in the projection is the index of the journal by key: a
\* repeated call is answered with the event its own key wrote.  (As long as
\* the table is not full.)
KeysAreIndexed ==
    /\ \A k \in Key : board.idempotency[k] \in 0 .. Len(journal)
    /\ \A i \in DOMAIN journal :
          journal[i].key # NoKey => board.idempotency[journal[i].key] = i

Working(b, a) == b.agents[a] # Absent /\ ~Idle(b.agents[a], now)

\* The journal is the rebuild source: folding it gives the projection that was
\* maintained event by event, for every agent with a live lease and for all
\* handoffs, notes, policies and keys.  Claims may only reappear: collecting an
\* expired lease clears its claims in the projection without an event.
RebuildAgrees ==
    LET b == gc_projection(board, now)
        r == gc_projection(fold(journal), now)
    IN  /\ r.seq = b.seq
        /\ r.handoffs = b.handoffs
        /\ r.messages = b.messages
        /\ r.policies = b.policies
        /\ r.active_policy = b.active_policy
        /\ r.idempotency = b.idempotency
        /\ \A a \in Agent : Working(b, a) \/ Working(r, a) =>
             /\ Working(b, a) /\ Working(r, a)
             /\ b.agents[a].lease = r.agents[a].lease
             /\ b.agents[a].revision = r.agents[a].revision
             /\ b.agents[a].state = r.agents[a].state
             /\ b.agents[a].expires_at = r.agents[a].expires_at
             /\ b.agents[a].claims \subseteq r.agents[a].claims

\* Garbage collection never removes an agent a handoff still names as its
\* giver or its taker, so the board can always say who a capsule came from.
HandoffsAreAnchored ==
    \A i \in DOMAIN board.handoffs :
        LET h == board.handoffs[i] IN
        /\ board.agents[h.from] # Absent
        /\ h.accepted_by # Nobody => board.agents[h.accepted_by] # Absent

\* An agent that has checked out can be checked out again and is told so.
CheckOutCanRepeat ==
    \A i \in DOMAIN journal :
        /\ journal[i].kind = "check_out"
        /\ \A j \in i + 1 .. Len(journal) : journal[j].agent # journal[i].agent
        => board.agents[journal[i].agent] # Absent

\* A dirty tree is suspended only with a checkpoint that says where it is.
SuspendedWorkIsSaved ==
    \A a \in Present(board) :
        LET r == board.agents[a] IN
        r.state = "suspended" /\ r.dirty # {} => r.saved

\* A capsule addressed to one agent is only ever taken by that agent, as long
\* as its id is its own.
TakenByAddressee ==
    \A i \in DOMAIN board.handoffs :
        LET h == board.handoffs[i] IN
        /\ h.accepted_by # Nobody
        /\ \A j \in DOMAIN board.handoffs : board.handoffs[j].id = h.id => j = i
        => h.to \in {Nobody, h.accepted_by}

OneActive(ps, id) ==
    IF id = NoPolicy THEN ActiveOnes(ps) = {}
    ELSE \E i \in ActiveOnes(ps) : ActiveOnes(ps) = {i} /\ ps[i].id = id

\* active_policy names the one policy that is active, whatever the order in
\* which promotions and retirements commit.
ActivePolicyIsTheActiveOne == OneActive(board.policies, board.active_policy)

-----------------------------------------------------------------------------
(* Action properties *)

\* The session whose commit appends an event in this step.
Appends(s) ==
    /\ Len(journal') > Len(journal)
    /\ call[s] # NoCall
    /\ call'[s] = NoCall

\* A check-in that is neither forced nor a resumption takes over only a lease
\* that has expired or an agent that left.
ActiveIncarnationNeedsForce ==
    [][\A s \in Session :
         (Appends(s) /\ call[s].event.kind = "check_in" /\ ~call[s].args.force)
         => LET a == board.agents[AgentOf[s]]
            IN  \/ a = Absent
                \/ Idle(a, now)
                \/ a.lease = call[s].event.lease]_vars

\* While an agent stays on the board its revision never goes back, and a new
\* lease always comes with a higher revision: a displaced incarnation does
\* not return.
IncarnationsMoveForward ==
    [][\A a \in Present(board) : board'.agents[a] # Absent =>
         LET old == board.agents[a]
             new == board'.agents[a]
         IN  /\ new.revision >= old.revision
             /\ new.lease # old.lease => new.revision > old.revision]_vars

\* Nobody's record changes under it: only its own session's commit changes
\* the record of an agent whose lease is live.
OthersAreLeftAlone ==
    [][\A a \in Agent :
         Working(board, a) /\ board'.agents[a] # board.agents[a]
         => \E s \in Session : Appends(s) /\ AgentOf[s] = a]_vars

\* A check-in that was told it accepted a handoff is the one on record.
AcceptanceIsRecorded ==
    [][\A s \in Session :
         (Appends(s) /\ call[s].event.kind = "check_in"
            /\ call[s].event.body.accept_handoff # None)
         => \E h \in Range(board'.handoffs) :
              /\ h.id = call[s].event.body.accept_handoff
              /\ h.accepted_by = AgentOf[s]]_vars

\* Only an update that carries a note posts one; a plain heartbeat leaves the
\* notes on the board as they were.
HeartbeatsPostNothing ==
    [][\A s \in Session :
         (Appends(s) /\ call[s].event.kind = "update" /\ call[s].args.note = None)
         => {m.seq : m \in Range(board'.messages)}
              = {m.seq : m \in Range(board.messages)}]_vars

\* A commit the session was allowed to make does not kill its process: the
\* record its reply is made from is there (as long as no more agents are stale
\* at once than the board keeps).
NoCommitPanics == [][\A s \in Session : ~CommitPanic(s)]_vars
=============================================================================
