--------------------------------- MODULE Stats ---------------------------------
(***************************************************************************)
(* Usage statistics.  Every process counts its calls in memory, over what   *)
(* it found in savings.json when it started, and writes the whole count     *)
(* back now and then; and it appends every call to events.jsonl, which all  *)
(* processes of the workspace share.  Reports take the events of a window,  *)
(* or the counts in memory; session_pressure takes the events since the     *)
(* last handoff.                                                           *)
(*                                                                         *)
(* A count is the set of the calls that are in it.  `at` is the second a    *)
(* call ended in, which its event carries.                                  *)
(***************************************************************************)
EXTENDS Naturals, FiniteSets

CONSTANTS
    Server,             \* processes
    FlushThreshold,     \* FLUSH_EVENT_THRESHOLD
    Window,             \* since_days, in ticks of the clock
    MaxEvents,          \* bound: calls that are observed
    MaxClock            \* bound: the clock

VARIABLES
    clock,
    at,         \* the calls so far, and when each ended
    up,         \* processes that run
    counted,    \* per process, Store.tools
    unsaved,    \* per process, Store.pending_flush
    savings,    \* savings.json
    journal,    \* events.jsonl
    marker,     \* last_handoff.json: 0, or when
    tacet,      \* the latch of the workspace
    reported,   \* what a report that was just given was made of
    handed,     \* calls before the last handoff
    several     \* two processes have been up

statsVars == <<clock, at, up, counted, unsaved, savings, journal, marker, tacet,
               reported, handed, several>>

Calls == DOMAIN at

NoReport == [what |-> "none", calls |-> {}]

-----------------------------------------------------------------------------
\* Mutant: one call more may be unsaved.
Full_late(waiting) == waiting >= FlushThreshold

\* So much is unsaved that it is saved now.
Full(waiting) == waiting + 1 >= FlushThreshold

\* instrument, finish: a call of p ends, and its handler left `mine` counted, `waiting`
\* of it unsaved, and `disk` on disk.  Under tacet it is not observed.  The event may
\* fail to be appended; the count is saved when enough is unsaved, or two seconds
\* have passed.
Finish(p, mine, waiting, disk) ==
    IF tacet
    THEN /\ counted' = [counted EXCEPT ![p] = mine]
         /\ unsaved' = [unsaved EXCEPT ![p] = waiting]
         /\ savings' = disk
         /\ UNCHANGED <<at, journal>>
    ELSE LET call == Cardinality(Calls) + 1
             more == mine \cup {call}
         IN  /\ call <= MaxEvents
             /\ at' = [c \in Calls \cup {call} |-> IF c = call THEN clock ELSE at[c]]
             /\ journal' \in {journal, journal \cup {call}}
             /\ counted' = [counted EXCEPT ![p] = more]
             /\ \E late \in BOOLEAN :
                   IF Full(waiting) \/ late
                   THEN unsaved' = [unsaved EXCEPT ![p] = 0] /\ savings' = more
                   ELSE unsaved' = [unsaved EXCEPT ![p] = waiting + 1] /\ savings' = disk

Init ==
    /\ clock = 1 /\ at = <<>>
    /\ up = {} /\ counted = [p \in Server |-> {}] /\ unsaved = [p \in Server |-> 0]
    /\ savings = {} /\ journal = {} /\ marker = 0 /\ tacet = FALSE
    /\ reported = NoReport /\ handed = {} /\ several = FALSE

\* The store is loaded when the tools are registered.
Start(p) ==
    /\ p \notin up
    /\ up' = up \cup {p}
    /\ counted' = [counted EXCEPT ![p] = savings]
    /\ unsaved' = [unsaved EXCEPT ![p] = 0]
    /\ several' = (several \/ up # {})
    /\ reported' = NoReport
    /\ UNCHANGED <<clock, at, savings, journal, marker, tacet, handed>>

\* What is not saved when a process ends is gone from the count.
Die(p) ==
    /\ p \in up
    /\ up' = up \ {p}
    /\ counted' = [counted EXCEPT ![p] = {}]
    /\ unsaved' = [unsaved EXCEPT ![p] = 0]
    /\ reported' = NoReport
    /\ UNCHANGED <<clock, at, savings, journal, marker, tacet, handed, several>>

\* Any tool but those below.
Call(p) ==
    /\ p \in up
    /\ reported' = NoReport
    /\ Finish(p, counted[p], unsaved[p], savings)
    /\ UNCHANGED <<clock, up, marker, tacet, handed, several>>

\* stats: the events of the window, or the count when there are none or when
\* since_days is 0.
Recent == {c \in journal : at[c] + Window >= clock}

Report(p, lifetime) ==
    /\ p \in up
    /\ reported' = IF lifetime \/ Recent = {}
                   THEN [what |-> "count", calls |-> counted[p]]
                   ELSE [what |-> "window", calls |-> Recent]
    /\ \E late \in BOOLEAN :
          IF late /\ unsaved[p] > 0
          THEN Finish(p, counted[p], 0, counted[p])
          ELSE Finish(p, counted[p], unsaved[p], savings)
    /\ UNCHANGED <<clock, up, marker, tacet, handed, several>>

\* stats with reset: the count of this process, and the file.
Reset(p) ==
    /\ p \in up
    /\ reported' = NoReport
    /\ Finish(p, {}, 0, {})
    /\ UNCHANGED <<clock, up, marker, tacet, handed, several>>

\* Mutant: the second of the handoff counts.
SinceHandoff_same == {c \in journal : at[c] >= marker}

SinceHandoff == {c \in journal : at[c] > marker}

\* session_pressure.
Pressure(p) ==
    /\ p \in up
    /\ reported' = [what |-> "pressure", calls |-> SinceHandoff]
    /\ Finish(p, counted[p], unsaved[p], savings)
    /\ UNCHANGED <<clock, up, marker, tacet, handed, several>>

\* mark_handoff, by finalize and session_handoff.
Handoff(p) ==
    /\ p \in up
    /\ marker' = clock
    /\ handed' = Calls
    /\ reported' = NoReport
    /\ Finish(p, counted[p], unsaved[p], savings)
    /\ UNCHANGED <<clock, up, tacet, several>>

Latch ==
    /\ tacet' = ~ tacet /\ reported' = NoReport
    /\ UNCHANGED <<clock, at, up, counted, unsaved, savings, journal, marker,
                   handed, several>>

Tick ==
    /\ clock < MaxClock /\ clock' = clock + 1 /\ reported' = NoReport
    /\ UNCHANGED <<at, up, counted, unsaved, savings, journal, marker, tacet,
                   handed, several>>

Next ==
    \/ \E p \in Server :
          \/ Start(p) \/ Die(p) \/ Call(p) \/ Reset(p) \/ Pressure(p) \/ Handoff(p)
          \/ \E lifetime \in BOOLEAN : Report(p, lifetime)
    \/ Latch \/ Tick

Spec == Init /\ [][Next]_statsVars

-----------------------------------------------------------------------------
(* Properties *)

TypeOK ==
    /\ clock \in 1..MaxClock /\ marker \in 0..MaxClock
    /\ Calls = 1 .. Cardinality(Calls) /\ \A c \in Calls : at[c] \in 1..clock
    /\ up \subseteq Server
    /\ counted \in [Server -> SUBSET Calls] /\ unsaved \in [Server -> 0 .. FlushThreshold - 1]
    /\ savings \subseteq Calls /\ journal \subseteq Calls
    /\ reported.what \in {"none", "count", "window", "pressure"}
    /\ reported.calls \subseteq Calls
    /\ handed \subseteq Calls /\ {tacet, several} \subseteq BOOLEAN

\* A process that works alone loses no more than FLUSH_EVENT_THRESHOLD - 1 calls of the
\* count when it ends, whatever was reset, latched or loaded before.
LossIsBounded ==
    ~ several => \A p \in up : Cardinality(counted[p] \ savings) < FlushThreshold

\* The pressure after a handoff does not count what was before it.
HandoffRelieves == reported.what = "pressure" => reported.calls \cap handed = {}
=============================================================================
