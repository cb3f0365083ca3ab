------------------------- MODULE MCIzakayaPresence -------------------------
(***************************************************************************)
(* Small instances of IzakayaPresence.  A run chooses who the sessions act *)
(* for and which argument records they may send.                           *)
(***************************************************************************)
EXTENDS IzakayaPresence, TLC

CONSTANTS s1, s2, p1, k1, k2, pol1, pol2

TwoAgents == (s1 :> 1) @@ (s2 :> 2)
OneAgent == (s1 :> 1) @@ (s2 :> 1)
OnlySession == s1 :> 1

CheckInCall ==
    [op |-> "check_in", force |-> FALSE, resume |-> FALSE, ttl |-> 0,
     claims |-> {}, dirty |-> {}, saved |-> FALSE, accept |-> FALSE,
     key |-> NoKey, expect |-> FALSE]
UpdateCall ==
    [op |-> "update", state |-> None, ttl |-> 0, claims |-> None,
     dirty |-> None, saved |-> FALSE, note |-> None, ack |-> FALSE,
     key |-> NoKey, expect |-> FALSE]
CheckOutCall ==
    [op |-> "check_out", handoff |-> None, key |-> NoKey, expect |-> FALSE]

\* Leases: take, resume, force, heartbeat, leave.
LeaseCalls ==
    {[CheckInCall EXCEPT !.force = f, !.claims = {p1}] : f \in BOOLEAN}
    \cup {[CheckInCall EXCEPT !.resume = TRUE, !.expect = TRUE]}
    \cup {UpdateCall, CheckOutCall}

\* Policies promoted and retired from the command line, and advice asked for.
PolicyCalls ==
    {[op |-> op, id |-> p] : op \in {"promote", "retire"}, p \in Policy}
    \cup {[op |-> "advise"]}

\* Capsules: leave with one for agent 2 or for anyone, take one.
HandoffCalls ==
    {[CheckInCall EXCEPT !.resume = TRUE, !.accept = x] : x \in BOOLEAN}
    \cup {[CheckOutCall EXCEPT !.handoff = to] : to \in {2, Nobody}}

\* Retries: the same keys on every kind of call, replies that get lost.
RetryCalls ==
    {CheckInCall}
    \cup {[CheckInCall EXCEPT !.key = k, !.resume = TRUE] : k \in Key}
    \cup {[UpdateCall EXCEPT !.key = k, !.state = "live_code"] : k \in Key}
    \cup {[CheckOutCall EXCEPT !.key = k] : k \in Key}

\* Dirty work and where it is saved.
WorkCalls ==
    {CheckInCall}
    \cup {[UpdateCall EXCEPT !.state = "suspended", !.saved = x] : x \in BOOLEAN}
    \cup {[UpdateCall EXCEPT !.state = "live_code", !.dirty = {p1}]}
    \cup {[UpdateCall EXCEPT !.dirty = d] : d \in {{}, {p1}}}

\* Notes: a directed note, a plain heartbeat, an acknowledgement.
NoteCalls ==
    {[CheckInCall EXCEPT !.ttl = 9],
     [UpdateCall EXCEPT !.note = 2],
     [UpdateCall EXCEPT !.ack = TRUE],
     UpdateCall}
=============================================================================
