---------------------------- MODULE WorkspaceDocs ----------------------------
(***************************************************************************)
(* JSON documents of a workspace that several processes read, change and    *)
(* write back without a lock: the run ledger, and the tacet latch that      *)
(* every tool with effects asks before it runs.                             *)
(*                                                                         *)
(* A document is written to a temporary file, which is then renamed.  The   *)
(* name of that file does not depend on the writer: two writers open one    *)
(* and the same file, and a writer may find that the file it has open has   *)
(* been renamed, and is the document by now.                                *)
(*                                                                         *)
(* A run ledger is, per id, the time its record was made, 0 for none.       *)
(* A call is its number; every call is in a second of its own.              *)
(***************************************************************************)
EXTENDS Naturals, FiniteSets

CONSTANTS
    Writer,
    RunId,          \* ids that callers give their runs
    MaxRuns,        \* records the ledger keeps (200 in the code)
    MaxCalls        \* bound: calls

VARIABLES
    docs,       \* per document, its content
    temp,       \* per document, the content of its temporary file
    at,         \* per writer, the step of its call
    calls,
    acked,      \* history: per id, the last call that was answered
    begun,      \* history: per id, the last call that got past the gate
    latch,      \* history: the last call of tacet has answered that it is on
    collided    \* history: documents that two calls have written side by side

vars == <<docs, temp, at, calls, acked, begun, latch, collided>>

Doc == {"runs", "tacet"}

\* A document or temporary file that is not there; one that was just opened; and
\* one that two writers have written over one another.
Nothing == [kind |-> "nothing"]
Empty   == [kind |-> "empty"]
Garbled == [kind |-> "garbled"]
Full(c) == [kind |-> "full", is |-> c]

NoRuns == [i \in RunId |-> 0]

Idle == [step |-> "idle", doc |-> "runs", id |-> {}, call |-> 0, copy |-> Nothing,
         open |-> "none"]

Goto(w, step) == at' = [at EXCEPT ![w].step = step]

Writing(w, d) == at[w].step # "idle" /\ at[w].doc = d

Begin(w, d, call) ==
    /\ at[w].step = "idle"
    /\ calls < MaxCalls
    /\ calls' = calls + 1
    /\ at' = [at EXCEPT ![w] = call]
    /\ collided' = IF \E v \in Writer \ {w} : Writing(v, d) THEN collided \cup {d}
                   ELSE collided

-----------------------------------------------------------------------------
(* What the documents say *)

\* A document that is not there says nothing; one that does not parse is an error.
Parses(d) == docs[d].kind \in {"nothing", "full"}

Runs == IF docs["runs"] = Nothing THEN NoRuns ELSE docs["runs"].is

\* An error opens the latch.
is_enabled == docs["tacet"].kind = "full" /\ docs["tacet"].is

\* save_all drops the oldest.
Trimmed(runs) ==
    LET kept == {i \in RunId : Cardinality({j \in RunId : runs[j] > runs[i]}) < MaxRuns}
    IN  [i \in RunId |-> IF i \in kept THEN runs[i] ELSE 0]

-----------------------------------------------------------------------------
(* Calls *)

\* Mutant: the latch is not asked.
Record_ungated(w, i) ==
    /\ Begin(w, "runs", [Idle EXCEPT !.step = "load", !.id = {i}, !.call = calls + 1])
    /\ begun' = [begun EXCEPT ![i] = calls + 1]
    /\ UNCHANGED <<docs, temp, acked, latch>>

\* handle_call asks the latch; when it holds, the call is refused.
Record(w, i) ==
    /\ ~is_enabled
    /\ Begin(w, "runs", [Idle EXCEPT !.step = "load", !.id = {i}, !.call = calls + 1])
    /\ begun' = [begun EXCEPT ![i] = calls + 1]
    /\ UNCHANGED <<docs, temp, acked, latch>>

\* A ledger that does not parse ends the call.
Load(w) ==
    /\ at[w].step = "load"
    /\ at' = [at EXCEPT ![w] =
                IF Parses("runs")
                THEN [at[w] EXCEPT !.step = "open",
                                   !.copy = Full(Trimmed([i \in RunId |->
                                      IF i \in at[w].id THEN at[w].call ELSE Runs[i]]))]
                ELSE Idle]
    /\ UNCHANGED <<docs, temp, calls, acked, begun, latch, collided>>

\* tacet writes what it is told, whatever was there.
Tacet(w, on) ==
    /\ Begin(w, "tacet", [Idle EXCEPT !.step = "open", !.doc = "tacet", !.call = calls + 1,
                                      !.copy = Full(on)])
    /\ latch' = FALSE
    /\ UNCHANGED <<docs, temp, acked, begun>>

-----------------------------------------------------------------------------
(* write_atomic_json *)

\* Mutant: the document is written in place.
Open_inPlace(w) ==
    /\ at[w].step = "open"
    /\ docs' = [docs EXCEPT ![at[w].doc] = Empty]
    /\ at' = [at EXCEPT ![w].step = "write", ![w].open = "document"]
    /\ UNCHANGED <<temp, calls, acked, begun, latch, collided>>

\* fs::write truncates the temporary file, whoever's it is.
Open(w) ==
    /\ at[w].step = "open"
    /\ temp' = [temp EXCEPT ![at[w].doc] = Empty]
    /\ at' = [at EXCEPT ![w].step = "write", ![w].open = "temporary"]
    /\ UNCHANGED <<docs, calls, acked, begun, latch, collided>>

\* What comes of writing into a file with this content: a shorter text leaves the
\* end of a longer one.
Over(was, copy) == IF was = Empty THEN {copy} ELSE {copy, Garbled}

Write(w) ==
    LET d == at[w].doc
    IN  /\ at[w].step = "write"
        /\ \/ /\ at[w].open = "temporary"
              /\ \E c \in Over(temp[d], at[w].copy) : temp' = [temp EXCEPT ![d] = c]
              /\ UNCHANGED docs
           \/ /\ at[w].open = "document"
              /\ \E c \in Over(docs[d], at[w].copy) : docs' = [docs EXCEPT ![d] = c]
              /\ UNCHANGED temp
           \/ /\ at[w].open = "gone"
              /\ UNCHANGED <<docs, temp>>
        /\ Goto(w, "rename")
        /\ UNCHANGED <<calls, acked, begun, latch, collided>>

\* Who has the temporary file open has the document open from now on; who had the
\* old document open has a file without a name.
Moved(v, d) ==
    IF at[v].doc # d THEN at[v]
    ELSE CASE at[v].open = "temporary" -> [at[v] EXCEPT !.open = "document"]
           [] at[v].open = "document"  -> [at[v] EXCEPT !.open = "gone"]
           [] OTHER                    -> at[v]

Rename(w) ==
    LET d == at[w].doc
    IN  /\ at[w].step = "rename" /\ temp[d] # Nothing
        /\ docs' = [docs EXCEPT ![d] = temp[d]]
        /\ temp' = [temp EXCEPT ![d] = Nothing]
        /\ at' = [v \in Writer |-> IF v = w THEN [at[w] EXCEPT !.step = "reply"]
                                   ELSE Moved(v, d)]
        /\ UNCHANGED <<calls, acked, begun, latch, collided>>

\* Another writer has renamed the file: an error.
RenameFails(w) ==
    /\ at[w].step = "rename" /\ temp[at[w].doc] = Nothing
    /\ at' = [at EXCEPT ![w] = Idle]
    /\ UNCHANGED <<docs, temp, calls, acked, begun, latch, collided>>

Reply(w) ==
    /\ at[w].step = "reply"
    /\ IF at[w].doc = "runs"
       THEN /\ acked' = [i \in RunId |-> IF i \in at[w].id THEN at[w].call ELSE acked[i]]
            /\ UNCHANGED latch
       ELSE /\ latch' = at[w].copy.is
            /\ UNCHANGED acked
    /\ at' = [at EXCEPT ![w] = Idle]
    /\ UNCHANGED <<docs, temp, calls, begun, collided>>

Die(w) ==
    /\ at[w].step # "idle"
    /\ at' = [at EXCEPT ![w] = Idle]
    /\ UNCHANGED <<docs, temp, calls, acked, begun, latch, collided>>

-----------------------------------------------------------------------------
Init ==
    /\ docs = [d \in Doc |-> Nothing]
    /\ temp = [d \in Doc |-> Nothing]
    /\ at = [w \in Writer |-> Idle]
    /\ calls = 0
    /\ acked = NoRuns /\ begun = NoRuns
    /\ latch = FALSE
    /\ collided = {}

Next ==
    \E w \in Writer :
        \/ \E i \in RunId : Record(w, i)
        \/ \E on \in BOOLEAN : Tacet(w, on)
        \/ Load(w) \/ Open(w) \/ Write(w) \/ Rename(w) \/ RenameFails(w) \/ Reply(w) \/ Die(w)

Spec == Init /\ [][Next]_vars

-----------------------------------------------------------------------------
(* Properties *)

\* A run whose record was acknowledged is in the ledger until MaxRuns other runs
\* have been begun after it, whoever dies in the middle of writing, as long as no
\* two calls have worked on the ledger side by side.
AckedRunsAreKept ==
    "runs" \notin collided =>
        /\ Parses("runs")
        /\ \A i \in RunId :
              /\ acked[i] # 0 /\ acked[i] = begun[i]
              /\ Cardinality({j \in RunId : begun[j] > acked[i]}) < MaxRuns
              => Runs[i] = acked[i]

\* A document parses, whoever writes it: write_atomic_json is said to be atomic.
DocumentsParse == \A d \in Doc : Parses(d)

\* Once tacet has answered that it is on, no call with effects gets past the gate
\* before tacet is called again, as long as no two calls of tacet met.
LatchedIsRefused ==
    [][\A w \in Writer :
          /\ latch /\ "tacet" \notin collided
          => ~(at[w].step = "idle" /\ at'[w].step = "load")]_vars
=============================================================================
