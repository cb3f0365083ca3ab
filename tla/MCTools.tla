------------------------------- MODULE MCTools -------------------------------
(***************************************************************************)
(* Small instances of parts that share no state with one another: results   *)
(* in pages, usage statistics, semantic_decide.  A behaviour is one of one  *)
(* part, the others stay where they start.                                 *)
(***************************************************************************)
EXTENDS MCPaging, TLC

CONSTANTS
    Server, FlushThreshold, Window, MaxEvents, MaxClock,    \* statistics
    Rows, Configs, MaxDecides                               \* decisions

VARIABLES
    which,      \* the part that is at work
    clock, at, up, counted, unsaved, savings, journal, marker, tacet, reported,
    handed, several,
    config, gguf, slot, cpu, verify, loads, cooling, call, stage, bundle, decides

Processes == Permutations(Server)

Setting(b, d, conformal, tandem, v) ==
    [backend |-> b, debias |-> d, conformal |-> conformal, tandem |-> tandem, verify |-> v]

Settings ==
    {Setting("auto", "adaptive", TRUE, FALSE, TRUE),
     Setting("ereshkigal", "permute", TRUE, TRUE, TRUE),
     Setting("ereshkigal", "none", TRUE, TRUE, FALSE),
     Setting("remote-copper", "adaptive", FALSE, TRUE, TRUE)}

Counts    == INSTANCE Stats
Decisions == INSTANCE SemIf

countVars    == <<clock, at, up, counted, unsaved, savings, journal, marker, tacet,
                  reported, handed, several>>
decisionVars == <<config, gguf, slot, cpu, verify, loads, cooling, call, stage,
                  bundle, decides>>

allVars == <<which, pagingVars, countVars, decisionVars>>

-----------------------------------------------------------------------------
\* The part that is at work steps, and the others do not.
PageStep ==
    /\ which = "pages" /\ PagingNext
    /\ UNCHANGED <<which, countVars, decisionVars>>

CountStep ==
    /\ which = "counts" /\ Counts!Next
    /\ UNCHANGED <<which, pagingVars, decisionVars>>

DecisionStep ==
    /\ which = "decisions" /\ Decisions!Next
    /\ UNCHANGED <<which, pagingVars, countVars>>

ToolsInit ==
    /\ which \in {"pages", "counts", "decisions"}
    /\ PagingInit /\ Counts!Init /\ Decisions!Init
    /\ which # "pages" =>
          /\ list = [q \in Query |-> CHOOSE s \in Lists : TRUE]
          /\ cost = [r \in Row |-> CHOOSE c \in Costs : TRUE]
    /\ which # "decisions" => config = (CHOOSE c \in Configs : TRUE) /\ gguf

ToolsNext == PageStep \/ CountStep \/ DecisionStep

ToolsSpec == ToolsInit /\ [][ToolsNext]_allVars

-----------------------------------------------------------------------------
(* Properties: those of the parts, which say what they mean *)

\* Stats: a process that works alone loses few calls when it ends.
LossIsBounded == Counts!LossIsBounded

\* Stats: the pressure after a handoff does not count what was before it.
HandoffRelieves == Counts!HandoffRelieves

\* SemIf: cascade_source names the engine whose scores the reply has.
SourceIsTrue == Decisions!SourceIsTrue

\* SemIf: each engine is loaded once, and the heavy ones when they are needed.
EnginesLoadOnce == Decisions!EnginesLoadOnce
=============================================================================
