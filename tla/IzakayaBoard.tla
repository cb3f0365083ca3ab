---------------------------- MODULE IzakayaBoard ----------------------------
(***************************************************************************)
(* The Izakaya projection ("the board") and the pure functions on it:      *)
(* applying a journal event, and the garbage collection every load and     *)
(* every commit runs.  A board is what projection.json holds.              *)
(*                                                                         *)
(* Abstractions.  An agent's descriptive text, git oids and MAS reference  *)
(* are left out; blockers are treated exactly as claims are everywhere in  *)
(* the code and are left out too.  A checkpoint is only present or absent. *)
(* A lease id "{agent}-{revision}-{now}" is the triple it prints.  A note  *)
(* keeps its addressee and whether it has a body.  An idempotency hit      *)
(* keeps the seq of the event it answers for.                              *)
(***************************************************************************)
EXTENDS Naturals, Sequences, FiniteSets, Functions

CONSTANTS
    Agent,          \* agent ids; numbers, since the code walks them in id order
    Path,           \* paths an agent may claim or have dirty
    Key,            \* idempotency keys
    Policy,         \* policy ids
    Absent,         \* no record under this agent id
    Nobody,         \* the empty addressee, and "accepted by no one"
    NoKey,          \* a call without idempotency_key
    NoPolicy,       \* active_policy = None
    None,           \* an optional part of a request that was omitted
    MaxMessages, MaxHandoffs, MaxIdempotency, MaxStale

ASSUME AgentAssumption == Agent \subseteq Nat
ASSUME SentinelAssumption ==
    /\ Nobody \notin Agent
    /\ NoKey \notin Key
    /\ NoPolicy \notin Policy
ASSUME LimitAssumption ==
    /\ MaxMessages \in Nat \ {0}
    /\ MaxHandoffs \in Nat \ {0}
    /\ MaxIdempotency \in Nat \ {0}
    /\ MaxStale \in Nat

LiveState == {"checked_in", "live_code", "suspended"}
AgentState == LiveState \cup {"checked_out"}

Lease == Agent \X Nat \X Nat
\* Mutant: the time is left out of the id.
new_lease_undated(agent, revision, now) == <<agent, revision>>

new_lease(agent, revision, now) == <<agent, revision, now>>

AgentRecord ==
    [lease: Lease, revision: Nat, state: AgentState, last_seen_at: Nat,
     expires_at: Nat, ttl: Nat, claims: SUBSET Path, dirty: SUBSET Path,
     saved: BOOLEAN]

ASSUME AbsentAssumption == Absent \notin AgentRecord

Handoff == [id: Nat, from: Agent, to: Agent \cup {Nobody},
            created_at: Nat, accepted_by: Agent \cup {Nobody}]

Note == [seq: Nat, from: Agent, to: Agent \cup {Nobody},
         worded: BOOLEAN, acked: BOOLEAN]

PolicyRecord == [id: Policy, status: {"active", "retired"}]

Board ==
    [seq: Nat,
     agents: [Agent -> AgentRecord \cup {Absent}],
     handoffs: Seq(Handoff),
     messages: Seq(Note),
     policies: Seq(PolicyRecord),
     active_policy: Policy \cup {NoPolicy},
     idempotency: [Key -> Nat]]          \* 0: the key is not recorded

MaybeKey == Key \cup {NoKey}
MaybePaths == (SUBSET Path) \cup {None}

CheckInBody ==
    [revision: Nat, expires_at: Nat, ttl: Nat, claims: SUBSET Path,
     dirty: SUBSET Path, saved: BOOLEAN, accept_handoff: Nat \cup {None}]

UpdateBody ==
    [revision: Nat, state: LiveState, expires_at: Nat, claims: MaybePaths,
     dirty: MaybePaths, saved: BOOLEAN,
     note: Agent \cup {Nobody, None}, ack_seqs: SUBSET Nat]

CheckOutBody ==
    [revision: Nat,
     handoff: [id: Nat, to: Agent \cup {Nobody}] \cup {None}]

\* The journal's events.
Event ==
    [kind: {"check_in"}, seq: Nat, ts: Nat, agent: Agent, lease: Lease,
     key: MaybeKey, body: CheckInBody]
    \cup [kind: {"update"}, seq: Nat, ts: Nat, agent: Agent, lease: Lease,
          key: MaybeKey, body: UpdateBody]
    \cup [kind: {"check_out"}, seq: Nat, ts: Nat, agent: Agent, lease: Lease,
          key: MaybeKey, body: CheckOutBody]
    \cup [kind: {"policy_promote", "policy_retire"}, seq: Nat, ts: Nat,
          agent: {Nobody}, lease: {None}, key: {NoKey}, body: [id: Policy]]

EmptyBoard ==
    [seq |-> 0,
     agents |-> [a \in Agent |-> Absent],
     handoffs |-> <<>>,
     messages |-> <<>>,
     policies |-> <<>>,
     active_policy |-> NoPolicy,
     idempotency |-> [k \in Key |-> 0]]

Present(b) == {a \in Agent : b.agents[a] # Absent}

-----------------------------------------------------------------------------
(* Rules of model.rs *)

transition_ok(from, to) == from = "checked_out" => to = "checked_in"

is_stale(a, now) ==
    a.state # "checked_out" /\ a.expires_at > 0 /\ now >= a.expires_at

Offered(h) == h.accepted_by = Nobody

-----------------------------------------------------------------------------
(* apply: one event folded into the board *)

\* A bounded list drops its oldest item to make room for one more.
PushBounded(s, x, max) ==
    IF Len(s) >= max THEN Append(Tail(s), x) ELSE Append(s, x)

Accepting(hs, id, agent) ==
    LET open == {i \in DOMAIN hs : hs[i].id = id /\ Offered(hs[i])}
        first == CHOOSE i \in open : \A j \in open : i <= j
    IN  IF open = {} THEN hs
        ELSE [hs EXCEPT ![first].accepted_by = agent]

CheckedIn(e) ==
    [lease |-> e.lease,
     revision |-> IF e.body.revision = 0 THEN 1 ELSE e.body.revision,
     state |-> "checked_in",
     last_seen_at |-> e.ts,
     expires_at |-> e.body.expires_at,
     ttl |-> e.body.ttl,
     claims |-> e.body.claims,
     dirty |-> e.body.dirty,
     saved |-> e.body.saved]

apply_check_in(b, e) ==
    [b EXCEPT
       !.agents[e.agent] = CheckedIn(e),
       !.handoffs = IF e.body.accept_handoff = None THEN @
                    ELSE Accepting(@, e.body.accept_handoff, e.agent)]

\* The body of an update always carries the key "note", null when the caller
\* sent none, and apply_update tests only that the key is there.
NoteOf(e) ==
    [seq |-> e.seq, from |-> e.agent,
     to |-> IF e.body.note = None THEN Nobody ELSE e.body.note,
     worded |-> e.body.note # None,
     acked |-> FALSE]

Acked(msgs, seqs, agent) ==
    [i \in DOMAIN msgs |->
        IF msgs[i].seq \in seqs /\ msgs[i].to \in {agent, Nobody}
        THEN [msgs[i] EXCEPT !.acked = TRUE] ELSE msgs[i]]

Updated(a, e) ==
    [a EXCEPT
       !.lease = e.lease,
       !.revision = e.body.revision,
       !.state = e.body.state,
       !.last_seen_at = e.ts,
       !.expires_at = e.body.expires_at,
       !.claims = IF e.body.claims = None THEN @ ELSE e.body.claims,
       !.dirty = IF e.body.dirty = None THEN @ ELSE e.body.dirty,
       !.saved = e.body.saved]

apply_update(b, e) ==
    IF b.agents[e.agent] = Absent THEN b
    ELSE [b EXCEPT
            !.agents[e.agent] = Updated(@, e),
            !.messages = Acked(PushBounded(@, NoteOf(e), MaxMessages),
                               e.body.ack_seqs, e.agent)]

CheckedOut(a, e) ==
    [a EXCEPT
       !.state = "checked_out",
       !.revision = e.body.revision,
       !.last_seen_at = e.ts,
       !.claims = {},
       !.dirty = {}]

CapsuleOf(e) ==
    [id |-> e.body.handoff.id, from |-> e.agent, to |-> e.body.handoff.to,
     created_at |-> e.ts, accepted_by |-> Nobody]

apply_check_out(b, e) ==
    IF b.agents[e.agent] = Absent THEN b
    ELSE [b EXCEPT
            !.agents[e.agent] = CheckedOut(@, e),
            !.handoffs = IF e.body.handoff = None THEN @
                         ELSE PushBounded(@, CapsuleOf(e), MaxHandoffs)]

ActiveOnes(ps) == {i \in DOMAIN ps : ps[i].status = "active"}

Called(ps, id) == {i \in DOMAIN ps : ps[i].id = id}

Retired(ps, which) ==
    [i \in DOMAIN ps |->
        IF i \in which THEN [ps[i] EXCEPT !.status = "retired"] ELSE ps[i]]

apply_promote(b, e) ==
    [b EXCEPT
       !.policies = Append(Retired(@, ActiveOnes(@)),
                           [id |-> e.body.id, status |-> "active"]),
       !.active_policy = e.body.id]

\* Mutant: the active policy stays named after it is retired.
apply_retire_half(b, e) ==
    [b EXCEPT !.policies = Retired(@, Called(@, e.body.id))]

apply_retire(b, e) ==
    [b EXCEPT
       !.policies = Retired(@, Called(@, e.body.id)),
       !.active_policy = IF @ = e.body.id THEN NoPolicy ELSE @]

\* The key of an event is remembered with its seq; the oldest goes when the
\* table is over its limit.
Remember(idem, key, seq) ==
    LET with == [idem EXCEPT ![key] = seq]
        used == {k \in Key : with[k] # 0}
        oldest == CHOOSE k \in used : \A j \in used : with[k] <= with[j]
    IN  IF Cardinality(used) > MaxIdempotency
        THEN [with EXCEPT ![oldest] = 0] ELSE with

apply_kind(b, e) ==
    CASE e.kind = "check_in"       -> apply_check_in(b, e)
      [] e.kind = "update"         -> apply_update(b, e)
      [] e.kind = "check_out"      -> apply_check_out(b, e)
      [] e.kind = "policy_promote" -> apply_promote(b, e)
      [] e.kind = "policy_retire"  -> apply_retire(b, e)
      [] OTHER                     -> b          \* decision, outcome

apply(b, e) ==
    [apply_kind(b, e) EXCEPT
       !.seq = e.seq,
       !.idempotency = IF e.key = NoKey THEN @ ELSE Remember(@, e.key, e.seq)]

\* The board a replay of the journal gives.
fold(events) ==
    LET after[i \in 0 .. Len(events)] ==
          IF i = 0 THEN EmptyBoard ELSE apply(after[i - 1], events[i])
    IN  after[Len(events)]

-----------------------------------------------------------------------------
(* gc_projection *)

\* Mutant: only open handoffs keep their agents.
Referenced_open(b) ==
    UNION {{h.from, h.to} : h \in {x \in Range(b.handoffs) : Offered(x)}}

Referenced(b) ==
    UNION {{h.from, h.to, h.accepted_by} : h \in Range(b.handoffs)}

Idle(a, now) == a.state = "checked_out" \/ is_stale(a, now)

\* Newest last_seen_at first; the sort is stable over ids in order.
Before(b, x, y) ==
    \/ b.agents[x].last_seen_at > b.agents[y].last_seen_at
    \/ b.agents[x].last_seen_at = b.agents[y].last_seen_at /\ x < y

\* Mutant: every agent that is stale goes at once.
Dropped_eager(b, now) ==
    {a \in Present(b) \ Referenced(b) : Idle(b.agents[a], now)}

Dropped(b, now) ==
    LET loose == Present(b) \ Referenced(b)
        stale == {a \in loose : is_stale(b.agents[a], now)}
    IN  {a \in loose : b.agents[a].state = "checked_out"}
          \cup {a \in stale :
                  Cardinality({x \in stale : Before(b, x, a)}) >= MaxStale}

\* Mutant: loading the board renews every live lease.
gc_projection_renewing(b, now) ==
    [b EXCEPT !.agents =
       [a \in Agent |->
          IF a \in Present(b) /\ ~Idle(b.agents[a], now)
          THEN [b.agents[a] EXCEPT !.expires_at = now + b.agents[a].ttl]
          ELSE b.agents[a]]]

gc_projection(b, now) ==
    LET dropped == Dropped(b, now) IN
    [b EXCEPT !.agents =
       [a \in Agent |->
          IF a \notin Present(b) \/ a \in dropped THEN Absent
          ELSE IF Idle(b.agents[a], now)
               THEN [b.agents[a] EXCEPT !.claims = {}, !.dirty = {}]
               ELSE b.agents[a]]]
=============================================================================
