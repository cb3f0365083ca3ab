------------------------------- MODULE Bellator -------------------------------
(***************************************************************************)
(* Scans in the wiki server: requests that start, cancel and refresh, and   *)
(* the threads that scan.  Two flags are all they share, busy and cancel,   *)
(* both one for all scans.                                                  *)
(*                                                                         *)
(* A scan that is asked for takes busy first, then clears what was left of  *)
(* an earlier cancel, then starts its thread.  The scan that seeds an empty *)
(* store, run 0, looks at busy and takes neither.                           *)
(***************************************************************************)
EXTENDS Naturals, FiniteSets

CONSTANTS
    Client,         \* requests that are served at the same time
    Runners,        \* runners of a scan
    MaxScans        \* bound: scans that are asked for

ASSUME BellatorAssumption == Runners \in Nat \ {0} /\ MaxScans \in Nat

VARIABLES
    busy, cancel,
    seeded,
    request,    \* per client, the step of its request
    job,        \* per run, its status in the table of jobs and in the store
    thread,     \* per run, the step of its thread, and how many runners it has begun
    scans,
    asked       \* history: runs that were cancelled in time

scanVars == <<busy, cancel, seeded, request, job, thread, scans, asked>>

Scan == 0 .. MaxScans

Step(c, step) == request' = [request EXCEPT ![c] = step]

-----------------------------------------------------------------------------
(* start_scan *)

\* Mutant: busy is read here, and set further down.
Swap_late(c) ==
    /\ request[c] = "idle" /\ scans < MaxScans
    /\ ~busy
    /\ scans' = scans + 1
    /\ Step(c, "clear")
    /\ UNCHANGED <<busy, cancel, seeded, job, thread, asked>>

\* A request that finds busy is refused.
Swap(c) ==
    /\ request[c] = "idle" /\ scans < MaxScans
    /\ ~busy
    /\ busy' = TRUE
    /\ scans' = scans + 1
    /\ Step(c, "clear")
    /\ UNCHANGED <<cancel, seeded, job, thread, asked>>

Clear(c) ==
    /\ request[c] = "clear"
    /\ cancel' = FALSE
    /\ Step(c, "spawn")
    /\ UNCHANGED <<busy, seeded, job, thread, scans, asked>>

\* The image is not the one that was asked for.
Refuse(c) ==
    /\ request[c] = "spawn"
    /\ busy' = FALSE
    /\ Step(c, "idle")
    /\ UNCHANGED <<cancel, seeded, job, thread, scans, asked>>

Spawn(c) ==
    /\ request[c] = "spawn"
    /\ thread' = [thread EXCEPT ![scans] = [step |-> "begin", begun |-> 0]]
    /\ Step(c, "idle")
    /\ UNCHANGED <<busy, cancel, seeded, job, scans, asked>>

-----------------------------------------------------------------------------
(* The other requests *)

\* ensure_seeded, when the store has no run.
Seed ==
    /\ ~seeded
    /\ seeded' = TRUE
    /\ thread' = IF ~busy /\ \A r \in Scan : job[r] = "none"
                 THEN [thread EXCEPT ![0] = [step |-> "begin", begun |-> 0]] ELSE thread
    /\ UNCHANGED <<busy, cancel, request, job, scans, asked>>

\* schedule_refresh holds busy for as long as it runs.
Refresh(c) ==
    /\ request[c] = "idle" /\ ~busy
    /\ busy' = TRUE
    /\ Step(c, "refresh")
    /\ UNCHANGED <<cancel, seeded, job, thread, scans, asked>>

Refreshed(c) ==
    /\ request[c] = "refresh"
    /\ busy' = FALSE
    /\ Step(c, "idle")
    /\ UNCHANGED <<cancel, seeded, job, thread, scans, asked>>

\* cancel_scan; the run in the request is only repeated in the answer.
Cancel ==
    /\ cancel' = TRUE
    /\ asked' = asked \cup {r \in Scan : job[r] = "running" /\ thread[r].begun < Runners}
    /\ UNCHANGED <<busy, seeded, request, job, thread, scans>>

-----------------------------------------------------------------------------
(* execute_scan_job *)

\* The stores, or the roots of the profile, may not be found: no job then.
Begin(r) ==
    /\ thread[r].step = "begin"
    /\ \/ /\ job' = [job EXCEPT ![r] = "running"]
          /\ thread' = [thread EXCEPT ![r].step = "check"]
       \/ /\ thread' = [thread EXCEPT ![r].step = "done"]
          /\ UNCHANGED job
    /\ UNCHANGED <<busy, cancel, seeded, request, scans, asked>>

\* Before each runner, and not after the last.
Check(r) ==
    /\ thread[r].step = "check"
    /\ IF thread[r].begun = Runners
       THEN /\ job' = [job EXCEPT ![r] = "completed"]
            /\ thread' = [thread EXCEPT ![r].step = "done"]
       ELSE IF cancel
       THEN /\ job' = [job EXCEPT ![r] = "cancelled"]
            /\ thread' = [thread EXCEPT ![r].step = "done"]
       ELSE /\ thread' = [thread EXCEPT ![r] = [step |-> "run", begun |-> @.begun + 1]]
            /\ UNCHANGED job
    /\ UNCHANGED <<busy, cancel, seeded, request, scans, asked>>

RunnerEnds(r) ==
    /\ thread[r].step = "run"
    /\ thread' = [thread EXCEPT ![r].step = "check"]
    /\ UNCHANGED <<busy, cancel, seeded, request, job, scans, asked>>

\* The thread of start_scan gives busy back; the seeding scan has none.
GiveBack(r) ==
    /\ thread[r].step = "done"
    /\ busy' = IF r = 0 THEN busy ELSE FALSE
    /\ thread' = [thread EXCEPT ![r].step = "none"]
    /\ UNCHANGED <<cancel, seeded, request, job, scans, asked>>

-----------------------------------------------------------------------------
ScanInit ==
    /\ busy = FALSE /\ cancel = FALSE /\ seeded = FALSE
    /\ request = [c \in Client |-> "idle"]
    /\ job = [r \in Scan |-> "none"]
    /\ thread = [r \in Scan |-> [step |-> "none", begun |-> 0]]
    /\ scans = 0
    /\ asked = {}

ScanNext ==
    \/ \E c \in Client :
          Swap(c) \/ Clear(c) \/ Refuse(c) \/ Spawn(c) \/ Refresh(c) \/ Refreshed(c)
    \/ \E r \in Scan : Begin(r) \/ Check(r) \/ RunnerEnds(r) \/ GiveBack(r)
    \/ Seed \/ Cancel

ScanSpec == ScanInit /\ [][ScanNext]_scanVars

-----------------------------------------------------------------------------
(* Properties *)

\* A scan that was asked for, and cancelled while it had a runner to begin, does not
\* complete: no other request takes the cancel away from it.  The seeding scan has
\* no such promise.
CancelIsObeyed == \A r \in asked \ {0} : job[r] # "completed"

\* busy is held by somebody who will give it back, by one at a time.
BusyHasOneHolder ==
    Cardinality({c \in Client : request[c] # "idle"}
                \cup {r \in Scan \ {0} : thread[r].step # "none"}) = IF busy THEN 1 ELSE 0
=============================================================================
