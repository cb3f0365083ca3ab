-------------------------------- MODULE Shrift --------------------------------
(***************************************************************************)
(* The idea board: one markdown file per idea, a ledger that lists them,    *)
(* and a file of bookmarks.  MCP servers and the wiki work on it side by    *)
(* side and without a lock: a call reads an idea, writes it back as a       *)
(* whole, reads all ideas, and writes the whole ledger.                     *)
(*                                                                         *)
(* Of an idea there is its title, its status, and whether it has links;     *)
(* tags, source and dates go the same way as the links.  The title of a     *)
(* file is its first heading.  Titles here all make the same slug, so the   *)
(* slugs are 1 for the first idea, 2 for "-2", and so on.                   *)
(***************************************************************************)
EXTENDS Naturals, FiniteSets

CONSTANTS
    Writer,         \* processes that work on the board
    Title,          \* titles of ideas
    NoIdea,         \* no such file; no title in front of a body
    MaxSlug,        \* bound: slugs of one title (99 in the code)
    MaxCalls        \* bound: calls

VARIABLES
    idea,       \* per slug, its file
    ledger,     \* per slug, the status its line shows
    marks,      \* shrift-bookmarks.json
    at,         \* per process, the step of its call, and what it has in hand
    calls,
    alone,      \* history: per process, nobody else was at work since its call began
    agreed      \* history: the last call to end ran alone

vars == <<idea, ledger, marks, at, calls, alone, agreed>>

Slug == 1 .. MaxSlug
Status == {"seed", "sprouted", "planned", "implemented", "archived"}

\* next is the status a call will set.
Waiting == [step |-> "idle", slug |-> 0, copy |-> NoIdea, next |-> "none", seen |-> {}]

Goto(p, step) == at' = [at EXCEPT ![p].step = step]

Busy(p) == at[p].step # "idle"

-----------------------------------------------------------------------------
\* A body that was read from a file starts with the heading of the file, and
\* then the title in hand is not written; in front of another body it is.
Rendered(copy) == [title  |-> IF copy.head = NoIdea THEN copy.title ELSE copy.head,
                   status |-> copy.status, links |-> copy.links]

idea_from_markdown(file) == [title |-> file.title, head |-> file.title,
                             status |-> file.status, links |-> file.links]

Lines(files) == [s \in Slug |-> IF files[s] = NoIdea THEN "none" ELSE files[s].status]

Began(p) ==
    /\ calls < MaxCalls
    /\ calls' = calls + 1
    /\ alone' = [q \in Writer |-> q = p /\ \A r \in Writer \ {p} : ~Busy(r)]

-----------------------------------------------------------------------------
(* Calls *)

\* The slug is the first that is free now.
Capture(p, t) ==
    LET free == {s \in Slug : idea[s] = NoIdea}
    IN  /\ ~Busy(p) /\ free # {}
        /\ Began(p)
        /\ at' = [at EXCEPT ![p] =
                    [Waiting EXCEPT !.step = "write",
                                    !.slug = CHOOSE s \in free : \A r \in free : s <= r,
                                    !.copy = [title |-> t, head |-> NoIdea, status |-> "seed",
                                              links |-> FALSE]]]
        /\ UNCHANGED <<idea, ledger, marks, agreed>>

\* load_one, and what the call changes: the title and perhaps the body, the
\* status, the links, or (touch) nothing but the date.
Edits(copy) ==
    {[copy EXCEPT !.title = t] : t \in Title}
    \cup {[copy EXCEPT !.title = t, !.head = NoIdea] : t \in Title}
    \cup {[copy EXCEPT !.links = TRUE]}

Change(p, s) ==
    /\ ~Busy(p) /\ idea[s] # NoIdea
    /\ Began(p)
    /\ \E copy \in Edits(idea_from_markdown(idea[s])) :
          at' = [at EXCEPT ![p] = [Waiting EXCEPT !.step = "write", !.slug = s, !.copy = copy]]
    /\ UNCHANGED <<idea, ledger, marks, agreed>>

\* shrift_status may set any status, the wiki's promote the one after the idea's;
\* both read the idea before, for its freshness or for its status.
SetStatusOf(p, s) ==
    /\ ~Busy(p) /\ idea[s] # NoIdea
    /\ Began(p)
    /\ \E status \in Status :
          at' = [at EXCEPT ![p] = [Waiting EXCEPT !.step = "status", !.slug = s,
                                                  !.next = status]]
    /\ UNCHANGED <<idea, ledger, marks, agreed>>

SetStatus(p) ==
    /\ at[p].step = "status"
    /\ at' = [at EXCEPT ![p].step = "write",
                        ![p].copy = [idea_from_markdown(idea[at[p].slug])
                                        EXCEPT !.status = at[p].next]]
    /\ UNCHANGED <<idea, ledger, marks, calls, alone, agreed>>

WriteIdea(p) ==
    /\ at[p].step = "write"
    /\ idea' = [idea EXCEPT ![at[p].slug] = Rendered(at[p].copy)]
    /\ Goto(p, "load")
    /\ UNCHANGED <<ledger, marks, calls, alone, agreed>>

\* Mutant: the list is the one from before the write.
LoadAll_before(p) ==
    /\ at[p].step = "load"
    /\ at' = [at EXCEPT ![p].step = "ledger", ![p].seen = ledger]
    /\ UNCHANGED <<idea, ledger, marks, calls, alone, agreed>>

\* The directory is read at once.  A file that was just written is in it.
LoadAll(p) ==
    /\ at[p].step = "load"
    /\ at' = [at EXCEPT ![p].step = "ledger", ![p].seen = Lines(idea)]
    /\ UNCHANGED <<idea, ledger, marks, calls, alone, agreed>>

RewriteLedger(p) ==
    /\ at[p].step = "ledger"
    /\ ledger' = at[p].seen
    /\ Goto(p, "reply")
    /\ UNCHANGED <<idea, marks, calls, alone, agreed>>

\* shrift_status with links changes the idea a second time, in the same way.
Reply(p) ==
    /\ at[p].step = "reply"
    /\ \/ /\ at' = [at EXCEPT ![p] = Waiting]
          /\ agreed' = alone[p]
       \/ /\ at[p].next # "none"
          /\ at' = [at EXCEPT ![p].step = "write", ![p].next = "none",
                              ![p].copy = [idea_from_markdown(idea[at[p].slug])
                                              EXCEPT !.links = TRUE]]
          /\ UNCHANGED agreed
    /\ UNCHANGED <<idea, ledger, marks, calls, alone>>

\* toggle_bookmark: all bookmarks are read, and all are written.
ReadMarks(p, s) ==
    /\ ~Busy(p) /\ idea[s] # NoIdea
    /\ Began(p)
    /\ at' = [at EXCEPT ![p] =
                [Waiting EXCEPT !.step = "mark", !.slug = s,
                                !.seen = IF s \in marks THEN marks \ {s} ELSE marks \cup {s}]]
    /\ UNCHANGED <<idea, ledger, marks, agreed>>

\* The ledger is as good as it was before.
WriteMarks(p) ==
    /\ at[p].step = "mark"
    /\ marks' = at[p].seen
    /\ at' = [at EXCEPT ![p] = Waiting]
    /\ UNCHANGED <<idea, ledger, calls, alone, agreed>>

\* The process dies in the middle.
Die(p) ==
    /\ Busy(p)
    /\ at' = [at EXCEPT ![p] = Waiting]
    /\ agreed' = FALSE
    /\ UNCHANGED <<idea, ledger, marks, calls, alone>>

-----------------------------------------------------------------------------
Init ==
    /\ idea = [s \in Slug |-> NoIdea]
    /\ ledger = [s \in Slug |-> "none"]
    /\ marks = {}
    /\ at = [p \in Writer |-> Waiting]
    /\ calls = 0
    /\ alone = [p \in Writer |-> FALSE]
    /\ agreed = TRUE

Next ==
    \E p \in Writer :
        \/ \E t \in Title : Capture(p, t)
        \/ \E s \in Slug : Change(p, s) \/ SetStatusOf(p, s) \/ ReadMarks(p, s)
        \/ SetStatus(p) \/ WriteIdea(p) \/ LoadAll(p) \/ RewriteLedger(p) \/ Reply(p)
        \/ WriteMarks(p) \/ Die(p)

Spec == Init /\ [][Next]_vars

-----------------------------------------------------------------------------
(* Properties *)

\* Calls that overlap, and a process that dies, can leave the ledger behind the
\* ideas, but the next call that runs alone mends it, whichever idea it is about.
LedgerMends ==
    agreed /\ (\A p \in Writer : ~Busy(p)) => ledger = Lines(idea)

\* An idea that nobody else touches has, when its call answers, the title that the
\* answer gives it.  It has not: a new title is not written unless a new body is.
TitleIsWritten ==
    \A p \in Writer :
        at[p].step = "reply" /\ alone[p] => idea[at[p].slug].title = at[p].copy.title
=============================================================================
