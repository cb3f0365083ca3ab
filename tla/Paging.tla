-------------------------------- MODULE Paging --------------------------------
(***************************************************************************)
(* Results in pages.  A tool that lists more rows than token_budget allows  *)
(* ends its reply with a token: the tool, a fingerprint of the arguments    *)
(* and the offset of the next row.  The server keeps nothing of a walk; it  *)
(* makes the list again for every page, from files that may have changed.   *)
(*                                                                         *)
(* One walk of one client: its first call, and calls with the token of the  *)
(* page before, whose other arguments may not be the same.                  *)
(***************************************************************************)
EXTENDS Naturals, Sequences, SequencesExt

CONSTANTS
    Tool,       \* the tools that page
    Row,        \* what they list: files, functions, hits, callers, modules
    Query,      \* the arguments that the fingerprint covers
    Lists,      \* the lists a query may give
    Costs,      \* what a row may cost: its line, and the details below it
    Budget,     \* token_budget, which may differ from page to page
    Cap,        \* max, or k
    Body,       \* what symbol_context says before its callers, on a first page
    Clip,       \* what outline gives every file it shows, at least
    None,
    MaxEdits    \* bound: changes of the files during a walk

ASSUME PagingAssumption ==
    /\ Tool \subseteq {"repo_map", "outline", "big_functions", "symbol_refs",
                       "symbol_context", "knowledge_search", "module_map"}
    /\ Lists \subseteq {s \in Seq(Row) : IsInjective(s)}
    /\ Costs \subseteq [line : Nat, more : Nat]
    /\ Budget \subseteq Nat /\ Cap \subseteq Nat \ {0}
    /\ {Body, Clip, MaxEdits} \subseteq Nat

VARIABLES
    list,       \* per query, its rows in order
    cost,       \* per row
    cap,        \* per query, since max and k are in the fingerprint
    walk,       \* the call that began the walk
    began,      \* the offset the last page began at
    token,      \* what it ended with
    shown,      \* rows the client has been given
    again,      \* rows it has been given twice
    capped,     \* the last page asked for a higher max
    steady,     \* the files have not changed since the first page
    mixed,      \* pages in different orders
    edits

pagingVars == <<list, cost, cap, walk, began, token, shown, again, capped, steady, mixed, edits>>

-----------------------------------------------------------------------------
\* The rows of a call.  Asking for a rerank gives knowledge_search another order,
\* and only the first k hits are listed.
RowsOf(t, q, semif) ==
    IF t = "knowledge_search"
    THEN LET hits == IF semif THEN Reverse(list[q]) ELSE list[q]
         IN  SubSeq(hits, 1, IF cap[q] < Len(hits) THEN cap[q] ELSE Len(hits))
    ELSE list[q]

Header(t, from) ==
    IF t = "repo_map" THEN 0 ELSE IF t = "symbol_context" /\ from = 0 THEN Body ELSE 1

Whole(r) == cost[r].line + cost[r].more

\* What the reply costs before row i, on a page that begins after row from.
Used(t, rows, from) ==
    LET used[i \in Nat] == IF i <= from + 1 THEN Header(t, from)
                           ELSE used[i - 1] + Whole(rows[i - 1])
    IN  used

\* A row that would make the reply too long is left to the next page.  outline
\* clips a file to the room there is, when there is room for Clip.
Overflows(t, rows, from, b, i) ==
    LET used == Used(t, rows, from)[i] IN
    CASE t = "outline"    -> b < used + Whole(rows[i]) /\ b < used + Clip
      [] t = "module_map" -> b < used + cost[rows[i]].line
      [] OTHER            -> b < used + Whole(rows[i])

\* module_map ends the page after a module whose edges do not fit.
CutAfter(t, rows, from, b, i) ==
    t = "module_map" /\ b < Used(t, rows, from)[i] + Whole(rows[i])

CapReached(t, q, from, i) ==
    t \in {"big_functions", "symbol_refs", "symbol_context", "module_map"} /\ i - from > cap[q]

\* Mutant: a row that does not fit ends the page even if it is the first.
Ends_bare(t, q, rows, from, b) ==
    {i \in from + 1 .. Len(rows) :
        CapReached(t, q, from, i) \/ Overflows(t, rows, from, b, i)}

\* Where the page may end before row i: never before its first row.
Ends(t, q, rows, from, b) ==
    {i \in from + 2 .. Len(rows) + 1 :
        \/ CutAfter(t, rows, from, b, i - 1)
        \/ /\ i <= Len(rows)
           /\ CapReached(t, q, from, i) \/ Overflows(t, rows, from, b, i)}

Least(S) == CHOOSE i \in S : \A j \in S : i <= j

\* A page that ends at max asks for a higher one, but for symbol_context.
AsksForMore(t, q, rows, from, b, stop) ==
    /\ t # "symbol_context" /\ CapReached(t, q, from, stop)
    /\ ~ CutAfter(t, rows, from, b, stop - 1)

\* Mutant: the offset is that of the row after.
Offset_late(t, rows, from, b, stop) == stop

\* repo_map goes on to count the files it leaves out, and the token is the last
\* of those that would not have fitted.
Offset(t, rows, from, b, stop) ==
    IF t # "repo_map" THEN stop - 1
    ELSE LET used   == Used(t, rows, from)[stop]
             misfit == {i \in stop .. Len(rows) : b < used + Whole(rows[i])}
         IN  (CHOOSE i \in misfit : \A j \in misfit : j <= i) - 1

\* A page: its rows, and what it ends with.
Page(t, q, semif, from, b) ==
    LET rows == RowsOf(t, q, semif)
        ends == Ends(t, q, rows, from, b)
        stop == IF ends = {} THEN Len(rows) + 1 ELSE Least(ends)
        page == {rows[i] : i \in from + 1 .. stop - 1}
    IN  /\ began' = from
        /\ shown' = shown \cup page
        /\ again' = again \cup (shown \cap page)
        /\ capped' = (ends # {} /\ AsksForMore(t, q, rows, from, b, stop))
        /\ token' = IF ends = {} \/ capped' THEN None
                    ELSE [tool |-> t, args |-> q, offset |-> Offset(t, rows, from, b, stop)]

-----------------------------------------------------------------------------
PagingInit ==
    /\ list \in [Query -> Lists] /\ cost \in [Row -> Costs] /\ cap \in [Query -> Cap]
    /\ walk = None /\ began = 0 /\ token = None
    /\ shown = {} /\ again = {}
    /\ capped = FALSE /\ steady = TRUE /\ mixed = FALSE
    /\ edits = 0

\* The first page.
Ask(t, q, semif, b) ==
    /\ walk = None
    /\ walk' = [tool |-> t, args |-> q, semif |-> semif]
    /\ Page(t, q, semif, 0, b)
    /\ UNCHANGED <<list, cost, cap, steady, mixed, edits>>

\* resume_offset: a token of another tool or of other arguments is refused.
Accepted(t, q) == token # None /\ token.tool = t /\ token.args = q

\* The next page.
Resume(t, q, semif, b) ==
    /\ Accepted(t, q)
    /\ Page(t, q, semif, token.offset, b)
    /\ mixed' = (mixed \/ semif # walk.semif)
    /\ UNCHANGED <<list, cost, cap, walk, steady, edits>>

\* Files change between two pages.
Edit(q) ==
    /\ token # None /\ edits < MaxEdits
    /\ list' \in {[list EXCEPT ![q] = s] : s \in Lists \ {list[q]}}
    /\ steady' = FALSE /\ edits' = edits + 1
    /\ UNCHANGED <<cost, cap, walk, began, token, shown, again, capped, mixed>>

PagingNext ==
    \/ \E t \in Tool, q \in Query, semif \in BOOLEAN, b \in Budget :
          Ask(t, q, semif, b) \/ Resume(t, q, semif, b)
    \/ \E q \in Query : Edit(q)

PagingSpec == PagingInit /\ [][PagingNext]_pagingVars

-----------------------------------------------------------------------------
(* Properties *)

PagingTypeOK ==
    /\ list \in [Query -> Lists] /\ cost \in [Row -> Costs] /\ cap \in [Query -> Cap]
    /\ walk \in {None} \cup [tool : Tool, args : Query, semif : BOOLEAN]
    /\ token \in {None} \cup [tool : Tool, args : Query, offset : Nat]
    /\ began \in Nat /\ shown \subseteq Row /\ again \subseteq Row
    /\ {capped, steady, mixed} \subseteq BOOLEAN
    /\ edits \in 0..MaxEdits

\* The pages of a walk show every row of the list, and none of them twice, as long
\* as the files and the order stay as they were; a walk that ends at max shows
\* the rows before.  The client may change its other arguments: the token of one
\* list is not taken for another.
RowsAreShownOnce ==
    steady /\ ~ mixed =>
        /\ again = {}
        /\ (walk # None /\ token = None /\ ~ capped) =>
               shown = Range(RowsOf(walk.tool, walk.args, walk.semif))

\* Every page gets further, however small the budget is and whatever has changed:
\* a client that goes on asking comes to the end of the list.
PagesMoveOn == token # None => token.offset > began
=============================================================================
