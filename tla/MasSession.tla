------------------------------ MODULE MasSession ------------------------------
(***************************************************************************)
(* One MAS session: its document on disk, and the copies of it that the    *)
(* processes keep in memory (SESSION_CACHE).                               *)
(*                                                                         *)
(* A process serves one tool call at a time.  Nothing locks the document:  *)
(* a call loads it, from the process's own copy when it has one, works on  *)
(* the loaded value, and saves the whole of it.  load_session does not     *)
(* fill the cache, save_session does, and what empties it again is the     *)
(* coeffect table: mas_post declares workspace-cache, mas_finalize and     *)
(* mas_status declare nothing that reaches the cache.                      *)
(*                                                                         *)
(* An entry is its id, round, whether its text was spilled to a note, and  *)
(* the number of the post that made it.                                    *)
(***************************************************************************)
EXTENDS Naturals, Sequences

CONSTANTS
    Proc,               \* processes: MCP servers, command line invocations
    Absent,             \* no document; no cached copy
    Result,             \* values of the result argument
    MaxRounds,          \* values of the max_rounds argument
    NotGiven,           \* the argument is not there
    DefaultMaxRounds,   \* DEFAULT_MAX_ROUNDS
    MaxPosts            \* bound: posts attempted

Entry == [id: 1 .. MaxPosts, round: Nat, op: 1 .. MaxPosts, spilled: BOOLEAN]

Document ==
    [status: {"active", "final"}, round: Nat \ {0}, max_rounds: Nat \ {0},
     entries: Seq(Entry), result: Result \cup {Absent}, next_id: 1 .. MaxPosts + 1]

ASSUME SessionAssumption ==
    /\ Absent \notin Result \cup Document
    /\ MaxRounds \subseteq Nat \ {0}
    /\ NotGiven \notin MaxRounds
    /\ DefaultMaxRounds \in Nat \ {0}
    /\ MaxPosts \in Nat

VARIABLES
    doc,        \* <session>.json
    cache,      \* per process, the entry of SESSION_CACHE
    call,       \* per process, the call between its load and its save
    notes,      \* per entry id, the post whose text the spill note holds
    posts,      \* posts attempted
    posted      \* posts answered: post and entry id

sessionVars == <<doc, cache, call, notes, posts, posted>>

Idle == [at |-> "idle", tool |-> "none", s |-> Absent, op |-> 0]

Fresh(mr) ==
    [status |-> "active", round |-> 1, max_rounds |-> mr, entries |-> <<>>,
     result |-> Absent, next_id |-> 1]

-----------------------------------------------------------------------------
(* Loading and saving *)

load_session(p) == IF cache[p] # Absent THEN cache[p] ELSE doc

\* A cached copy keeps its max_rounds; a loaded one takes the argument.
get_or_create_session(p, mr) ==
    IF cache[p] # Absent THEN cache[p]
    ELSE IF doc # Absent
    THEN IF mr = NotGiven THEN doc ELSE [doc EXCEPT !.max_rounds = mr]
    ELSE Fresh(IF mr = NotGiven THEN DefaultMaxRounds ELSE mr)

\* Mutant: any session will do.
require_open_session_any(p) == load_session(p) # Absent

require_open_session(p) ==
    load_session(p) # Absent /\ load_session(p).status # "final"

\* The cache after save_session and the notify that follows it.
\* Mutant: a save leaves an older copy in the cache.
KeptCopy_old(p) == IF cache[p] # Absent THEN cache[p] ELSE call[p].s

KeptCopy(p) == IF call[p].tool = "post" THEN Absent ELSE call[p].s

\* The rename of write_atomic, the cache, the reply.
Save(p) ==
    /\ call[p].at = "save"
    /\ doc' = call[p].s
    /\ cache' = [cache EXCEPT ![p] = KeptCopy(p)]
    /\ posted' = IF call[p].tool = "post"
                 THEN posted \cup {[op |-> call[p].op, id |-> call[p].s.next_id - 1]}
                 ELSE posted
    /\ call' = [call EXCEPT ![p] = Idle]
    /\ UNCHANGED <<notes, posts>>

-----------------------------------------------------------------------------
(* The tools *)

WithEntry(s, op, spilled) ==
    [s EXCEPT !.entries = Append(@, [id |-> s.next_id, round |-> s.round,
                                     op |-> op, spilled |-> spilled]),
              !.next_id = @ + 1]

\* mas_post up to its save; an overlong handoff is spilled before that.
Post(p, mr, spilled) ==
    LET s == get_or_create_session(p, mr)
    IN  /\ call[p] = Idle
        /\ posts < MaxPosts
        /\ s.status # "final"
        /\ s.round <= s.max_rounds
        /\ posts' = posts + 1
        /\ call' = [call EXCEPT ![p] =
                      [at |-> IF spilled THEN "spill" ELSE "save", tool |-> "post",
                       s |-> WithEntry(s, posts + 1, spilled), op |-> posts + 1]]
        /\ UNCHANGED <<doc, cache, notes, posted>>

\* Mutant: the note is named after the id that comes next.
Spill_next(p) ==
    /\ call[p].at = "spill"
    /\ notes' = [notes EXCEPT ![call[p].s.next_id] = call[p].op]
    /\ call' = [call EXCEPT ![p].at = "save"]
    /\ UNCHANGED <<doc, cache, posts, posted>>

\* spill_note: the note is named after the id the entry is going to have.
Spill(p) ==
    /\ call[p].at = "spill"
    /\ notes' = [notes EXCEPT ![call[p].s.next_id - 1] = call[p].op]
    /\ call' = [call EXCEPT ![p].at = "save"]
    /\ UNCHANGED <<doc, cache, posts, posted>>

\* mas_read, whatever it then filters.
Read(p) ==
    /\ call[p] = Idle
    /\ cache' = [cache EXCEPT ![p] = Absent]
    /\ UNCHANGED <<doc, call, notes, posts, posted>>

MayAdvance(s) == s.status # "final" /\ s.round < s.max_rounds

\* mas_status with advance_round.
Advance(p, mr) ==
    LET s == get_or_create_session(p, mr)
    IN  /\ call[p] = Idle
        /\ MayAdvance(s)
        /\ call' = [call EXCEPT ![p] = [at |-> "save", tool |-> "status", op |-> 0,
                                        s |-> [s EXCEPT !.round = @ + 1]]]
        /\ UNCHANGED <<doc, cache, notes, posts, posted>>

\* mas_status without it saves only a session that did not exist.
Open(p, mr) ==
    /\ call[p] = Idle
    /\ load_session(p) = Absent
    /\ call' = [call EXCEPT ![p] = [at |-> "save", tool |-> "status", op |-> 0,
                                    s |-> get_or_create_session(p, mr)]]
    /\ UNCHANGED <<doc, cache, notes, posts, posted>>

\* mas_finalize on the loaded session: the first result stays.
Closed(s, r) ==
    [s EXCEPT !.status = "final",
              !.result = IF s.status = "final" /\ @ # Absent THEN @ ELSE r]

\* mas_finalize, and session_handoff with finalize, once effects are settled.
\* Saving a session that has not changed is left out, as it is in the code.
Finalize(p, r) ==
    LET s == load_session(p)
    IN  /\ call[p] = Idle
        /\ s # Absent
        /\ call' = IF Closed(s, r) = s THEN call
                   ELSE [call EXCEPT ![p] = [at |-> "save", tool |-> "finalize",
                                             op |-> 0, s |-> Closed(s, r)]]
        /\ UNCHANGED <<doc, cache, notes, posts, posted>>

\* The process dies, at any point, and a new one takes its place.
Restart(p) ==
    /\ cache' = [cache EXCEPT ![p] = Absent]
    /\ call' = [call EXCEPT ![p] = Idle]
    /\ UNCHANGED <<doc, notes, posts, posted>>

SessionInit ==
    /\ doc = Absent
    /\ cache = [p \in Proc |-> Absent]
    /\ call = [p \in Proc |-> Idle]
    /\ notes = [i \in 1 .. MaxPosts |-> 0]
    /\ posts = 0
    /\ posted = {}

RoundArg == MaxRounds \cup {NotGiven}

Begin(p) ==
    \/ \E mr \in RoundArg, spilled \in BOOLEAN : Post(p, mr, spilled)
    \/ \E mr \in RoundArg : Advance(p, mr) \/ Open(p, mr)
    \/ Read(p)

Proceed(p) == Spill(p) \/ Save(p)

\* Processes as they are.
SessionNext ==
    \E p \in Proc :
        Begin(p) \/ (\E r \in Result : Finalize(p, r)) \/ Proceed(p) \/ Restart(p)

SessionSpec == SessionInit /\ [][SessionNext]_sessionVars

\* Processes that take turns: no call begins while another is under way.
TurnsNext ==
    \E p \in Proc :
        \/ /\ \A q \in Proc : call[q] = Idle
           /\ Begin(p) \/ \E r \in Result : Finalize(p, r)
        \/ Proceed(p)

TurnsSpec == SessionInit /\ [][TurnsNext]_sessionVars

-----------------------------------------------------------------------------
(* Properties *)

Call == [at: {"idle", "spill", "save"}, tool: {"none", "post", "status", "finalize"},
         s: Document \cup {Absent}, op: 0 .. MaxPosts]

\* Type invariant of the session.
SessionTypeOK ==
    /\ doc \in Document \cup {Absent}
    /\ cache \in [Proc -> Document \cup {Absent}]
    /\ call \in [Proc -> Call]
    /\ \A p \in Proc : call[p].at # "idle" => call[p].s # Absent
    /\ notes \in [1 .. MaxPosts -> 0 .. MaxPosts]
    /\ posts \in 0 .. MaxPosts
    /\ posted \subseteq [op: 1 .. MaxPosts, id: 1 .. MaxPosts]

\* What a caller of mas_post was told is on the blackboard stays there, under
\* the id it was given, whatever is cached and however often the server
\* restarts.
PostsStay ==
    \A x \in posted :
        /\ doc # Absent
        /\ \E i \in DOMAIN doc.entries :
               doc.entries[i].op = x.op /\ doc.entries[i].id = x.id

\* A note_ref leads to the text of the entry that carries it.
SpillsAreTheirs ==
    doc # Absent =>
        \A i \in DOMAIN doc.entries :
            doc.entries[i].spilled => notes[doc.entries[i].id] = doc.entries[i].op

\* No saved session is past its round budget, although max_rounds may be
\* lowered by any later call.
WithinRounds == doc # Absent => doc.round <= doc.max_rounds

\* A finalized session is closed for good: it takes no entry, advances no
\* round and keeps its result.
FinalIsFinal ==
    [][doc # Absent => (doc.status = "final" => doc' = doc)]_sessionVars
=============================================================================
