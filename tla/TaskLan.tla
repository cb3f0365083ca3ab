------------------------------- MODULE TaskLan -------------------------------
(***************************************************************************)
(* The task_* tools: one job at a time on the LAN machine's GPU.           *)
(*                                                                         *)
(* What keeps jobs apart is, inside a process, ACTIVE, and between         *)
(* processes a presence lease that is taken without force and for a fixed  *)
(* time, and that nobody renews.  A task is a JSON record that every call  *)
(* reads, changes and writes back without a lock.  Nothing runs in the     *)
(* background: a child that has ended is noticed when the process that     *)
(* started it serves its next call.                                        *)
(*                                                                         *)
(* A child is the number of its run.  Time is counted in ticks, and a task *)
(* id is the second it was made in, here the number of seconds in which a  *)
(* submission happened: two tasks of one job made within one second get    *)
(* one id.                                                                 *)
(***************************************************************************)
EXTENDS Naturals, FiniteSets

CONSTANTS
    Proc,           \* processes that serve the tools
    NoTask,         \* no record; no active task
    Ttl,            \* lifetime of the GPU lease, in ticks
    MaxRun,         \* how long a job runs at most, in ticks
    Rare,           \* what else may happen: see Cancellable and AcquireLease
    MaxSubmits,     \* bound: submissions that take the lease
    Mortal          \* bound: processes that may die, once each

ASSUME TaskAssumption ==
    /\ Ttl \in Nat /\ MaxRun \in Nat /\ MaxRun < Ttl
    /\ Rare \subseteq {"othersCancel", "sameSecond"}
    /\ MaxSubmits \in Nat
    /\ NoTask \notin [status: {"running", "ended", "cancelled"}, lease: Nat, run: Nat]
    /\ NoTask \notin [id: Nat, run: Nat]

VARIABLES
    rec,        \* per task id, tasks/<id>.json
    gpu,        \* the lease of agent gpu-3080ti, and the ticks it has left
    child,      \* per run, the state of its process, and its age
    active,     \* per process, ACTIVE
    call,       \* per process, the step of its call
    second,     \* the number of the current second among those with a task
    stamped,    \* a task was made in this second
    submits,    \* leases taken, and children started with them
    died        \* history: processes that died

vars == <<rec, gpu, child, active, call, second, stamped, submits, died>>

Task == 1 .. MaxSubmits
Run == 1 .. MaxSubmits

Idle == [at |-> "idle", id |-> 0, copy |-> NoTask]

Free == [lease |-> 0, left |-> 0]

Goto(p, step) == call' = [call EXCEPT ![p].at = step]
Done(p) == call' = [call EXCEPT ![p] = Idle]

-----------------------------------------------------------------------------
(* The lease, as presence::check_in and check_out keep it *)

\* Mutant: the check-in is forced.
LeaseFree_always == TRUE

\* Without force, a live lease refuses the check-in, and an expired one not.
LeaseFree == gpu.lease = 0 \/ gpu.left = 0

\* check_out with a lease that is no longer the agent's is refused; the
\* refusal is ignored.
Released(n) == IF gpu.lease = n THEN Free ELSE gpu

-----------------------------------------------------------------------------
(* poll_active, at the head of every call but cancel *)

\* The record is read; what is folded into it, progress apart, is the exit.
\* done and failed are one status here, and the job's exit code is left out.
PollRead(p) ==
    LET r == rec[active[p].id]
    IN  /\ call[p] = Idle
        /\ active[p] # NoTask
        /\ call' = [call EXCEPT ![p] =
                      IF child[active[p].run].state = "ended"
                      THEN [Idle EXCEPT !.at = "pollend", !.copy = [r EXCEPT !.status = "ended"]]
                      ELSE [Idle EXCEPT !.at = "poll", !.copy = r]]
        /\ UNCHANGED <<rec, gpu, child, active, second, stamped, submits, died>>

\* The copy of a running task goes back as it was read.
PollWrite(p) ==
    /\ call[p].at \in {"poll", "pollend"}
    /\ rec' = [rec EXCEPT ![active[p].id] = call[p].copy]
    /\ IF call[p].at = "pollend" THEN Goto(p, "pollrelease")
       ELSE call' = [call EXCEPT ![p] = [Idle EXCEPT !.at = "polled"]]
    /\ UNCHANGED <<gpu, child, active, second, stamped, submits, died>>

\* After an exit the lease in the record is given up.
PollRelease(p) ==
    /\ call[p].at = "pollrelease"
    /\ gpu' = Released(call[p].copy.lease)
    /\ active' = [active EXCEPT ![p] = NoTask]
    /\ call' = [call EXCEPT ![p] = [Idle EXCEPT !.at = "polled"]]
    /\ UNCHANGED <<rec, child, second, stamped, submits, died>>

\* What the call asks for does not matter before.
Polled(p) == call[p].at = "polled" \/ (call[p] = Idle /\ active[p] = NoTask)

-----------------------------------------------------------------------------
(* task_submit *)

\* task_fetch, which writes nothing, and every call that is refused: a task of
\* this process is running, the lease is somebody's, job or task are unknown.
NothingMore(p) ==
    /\ call[p].at = "polled"
    /\ Done(p)
    /\ UNCHANGED <<rec, gpu, child, active, second, stamped, submits, died>>

AcquireLease(p) ==
    /\ Polled(p)
    /\ active[p] = NoTask /\ LeaseFree
    /\ submits < MaxSubmits
    /\ stamped => "sameSecond" \in Rare
    /\ submits' = submits + 1
    /\ gpu' = [lease |-> submits + 1, left |-> Ttl]
    /\ stamped' = TRUE
    /\ call' = [call EXCEPT ![p] = [at |-> "record", id |-> second,
                                   copy |-> [status |-> "running", lease |-> submits + 1,
                                             run |-> 0]]]
    /\ UNCHANGED <<rec, child, active, second, died>>

WriteRecord(p) ==
    /\ call[p].at = "record"
    /\ rec' = [rec EXCEPT ![call[p].id] = call[p].copy]
    /\ Goto(p, "spawn")
    /\ UNCHANGED <<gpu, child, active, second, stamped, submits, died>>

Spawn(p) ==
    LET k == call[p].copy.lease
    IN  /\ call[p].at = "spawn"
        /\ child' = [child EXCEPT ![k].state = "running"]
        /\ call' = [call EXCEPT ![p].at = "pid", ![p].copy = [@ EXCEPT !.run = k]]
        /\ UNCHANGED <<rec, gpu, active, second, stamped, submits, died>>

\* Mutant: the lease is not given back.
SpawnFails_leak(p) ==
    /\ call[p].at = "spawn"
    /\ Done(p)
    /\ UNCHANGED <<rec, gpu, child, active, second, stamped, submits, died>>

\* The lease is given back; the record stays as it is.
SpawnFails(p) ==
    /\ call[p].at = "spawn"
    /\ gpu' = Released(call[p].copy.lease)
    /\ Done(p)
    /\ UNCHANGED <<rec, child, active, second, stamped, submits, died>>

\* The whole record again, now with the pid.
WritePid(p) ==
    /\ call[p].at = "pid"
    /\ rec' = [rec EXCEPT ![call[p].id] = call[p].copy]
    /\ Goto(p, "wait") \/ Goto(p, "hold")
    /\ UNCHANGED <<gpu, child, active, second, stamped, submits, died>>

\* wait: false.
Hold(p) ==
    /\ call[p].at = "hold"
    /\ active' = [active EXCEPT ![p] = [id |-> call[p].id, run |-> call[p].copy.run]]
    /\ Done(p)
    /\ UNCHANGED <<rec, gpu, child, second, stamped, submits, died>>

\* Mutant: the copy made at the start is what is written at the end.
Waited_asWas(p) ==
    /\ call[p].at = "wait"
    /\ child[call[p].copy.run].state = "ended"
    /\ Goto(p, "finish")
    /\ UNCHANGED <<rec, gpu, child, active, second, stamped, submits, died>>

\* wait: true; child.wait has returned.
Waited(p) ==
    /\ call[p].at = "wait"
    /\ child[call[p].copy.run].state = "ended"
    /\ call' = [call EXCEPT ![p].at = "finish", ![p].copy.status = "ended"]
    /\ UNCHANGED <<rec, gpu, child, active, second, stamped, submits, died>>

\* The last two steps, of a cancel too.
Finish(p) ==
    /\ call[p].at = "finish"
    /\ rec' = [rec EXCEPT ![call[p].id] = call[p].copy]
    /\ Goto(p, "release")
    /\ UNCHANGED <<gpu, child, active, second, stamped, submits, died>>

Release(p) ==
    /\ call[p].at = "release"
    /\ gpu' = Released(call[p].copy.lease)
    /\ Done(p)
    /\ UNCHANGED <<rec, child, active, second, stamped, submits, died>>

-----------------------------------------------------------------------------
(* task_status, task_cancel *)

Status(p, id) ==
    /\ Polled(p)
    /\ rec[id] # NoTask
    /\ call' = [call EXCEPT ![p] = [at |-> "save", id |-> id, copy |-> rec[id]]]
    /\ UNCHANGED <<rec, gpu, child, active, second, stamped, submits, died>>

StatusSave(p) ==
    /\ call[p].at = "save"
    /\ rec' = [rec EXCEPT ![call[p].id] = call[p].copy]
    /\ Done(p)
    /\ UNCHANGED <<gpu, child, active, second, stamped, submits, died>>

Killed(k) ==
    IF k # 0 /\ child[k].state = "running"
    THEN [child EXCEPT ![k].state = "ended"] ELSE child

Own(p, id) == active[p] # NoTask /\ active[p].id = id

\* A running task is cancelled by the process that runs it; othersCancel lets
\* any other do it as well.
Cancellable(p, id) ==
    \/ Own(p, id)
    \/ rec[id] # NoTask /\ rec[id].status # "running"
    \/ rec[id] # NoTask /\ "othersCancel" \in Rare

\* The process's own child is killed and waited for, another's by the pid in
\* the record.  A task that has ended is cancelled all the same.
Cancel(p, id) ==
    /\ call[p] = Idle
    /\ Cancellable(p, id)
    /\ active' = IF Own(p, id) THEN [active EXCEPT ![p] = NoTask] ELSE active
    /\ child' = Killed(IF Own(p, id) THEN active[p].run ELSE rec[id].run)
    /\ call' = [call EXCEPT ![p] = [at |-> "finish", id |-> id,
                                   copy |-> [rec[id] EXCEPT !.status = "cancelled"]]]
    /\ UNCHANGED <<rec, gpu, second, stamped, submits, died>>

-----------------------------------------------------------------------------
(* Everything else *)

\* The job ends.  It goes on when the process that started it has died.
Exit(k) ==
    /\ child[k].state = "running"
    /\ child' = [child EXCEPT ![k].state = "ended"]
    /\ UNCHANGED <<rec, gpu, active, call, second, stamped, submits, died>>

\* Jobs end within MaxRun ticks, and a submission that has its lease starts its
\* child within the tick.
Starting(p) == call[p].at \in {"record", "spawn"}

\* Mutant: somebody renews the lease while the record says running.
LeaseLeft_renewed ==
    IF \E id \in Task : rec[id] # NoTask /\ rec[id].status = "running" THEN gpu.left
    ELSE IF gpu.left = 0 THEN 0 ELSE gpu.left - 1

LeaseLeft == IF gpu.left = 0 THEN 0 ELSE gpu.left - 1

Tick ==
    /\ \A k \in Run : child[k].state = "running" => child[k].age < MaxRun
    /\ \A p \in Proc : ~Starting(p)
    /\ child' = [k \in Run |-> IF child[k].state = "running"
                               THEN [child[k] EXCEPT !.age = @ + 1] ELSE child[k]]
    /\ gpu' = [gpu EXCEPT !.left = LeaseLeft]
    /\ second' = IF stamped THEN second + 1 ELSE second
    /\ stamped' = FALSE
    /\ UNCHANGED <<rec, active, call, submits, died>>

\* The process dies; its child lives on, and nobody waits for it.  An idle
\* process without a task loses nothing by it.
Die(p) ==
    /\ call[p] # Idle \/ active[p] # NoTask
    /\ p \in Mortal \ died
    /\ died' = died \cup {p}
    /\ call' = [call EXCEPT ![p] = Idle]
    /\ active' = [active EXCEPT ![p] = NoTask]
    /\ UNCHANGED <<rec, gpu, child, second, stamped, submits>>

Init ==
    /\ rec = [i \in Task |-> NoTask]
    /\ gpu = Free
    /\ child = [k \in Run |-> [state |-> "none", age |-> 0]]
    /\ active = [p \in Proc |-> NoTask]
    /\ call = [p \in Proc |-> Idle]
    /\ second = 1
    /\ stamped = FALSE
    /\ submits = 0
    /\ died = {}

Start(p) ==
    \/ PollRead(p) \/ AcquireLease(p)
    \/ \E id \in Task : Status(p, id) \/ Cancel(p, id)

Proceed(p) ==
    \/ PollWrite(p) \/ PollRelease(p) \/ NothingMore(p)
    \/ WriteRecord(p) \/ Spawn(p) \/ SpawnFails(p) \/ WritePid(p) \/ Hold(p)
    \/ Waited(p) \/ Finish(p) \/ Release(p) \/ StatusSave(p)

Next ==
    \/ \E p \in Proc : Start(p) \/ Proceed(p) \/ Die(p)
    \/ \E k \in Run : Exit(k)
    \/ Tick

\* A call that has begun goes on, jobs end, and time passes.  Nothing makes
\* anybody call again, and nothing is promised about processes that die.
Fairness ==
    /\ \A p \in Proc : WF_vars(Proceed(p))
    /\ \A k \in Run : WF_vars(Exit(k))
    /\ WF_vars(Tick)

Spec == Init /\ [][Next]_vars
FairSpec == Spec /\ Fairness

-----------------------------------------------------------------------------
(* Properties *)

Record == [status: {"running", "ended", "cancelled"}, lease: Run, run: 0 .. MaxSubmits]

Step == {"idle", "poll", "pollend", "pollrelease", "polled", "record", "spawn", "pid",
         "wait", "hold", "finish", "release", "save"}

\* Type invariant of the tasks.
TypeOK ==
    /\ rec \in [Task -> Record \cup {NoTask}]
    /\ gpu \in [lease: 0 .. MaxSubmits, left: 0 .. Ttl]
    /\ child \in [Run -> [state: {"none", "running", "ended"}, age: 0 .. MaxRun]]
    /\ active \in [Proc -> [id: Task, run: Run] \cup {NoTask}]
    /\ call \in [Proc -> [at: Step, id: Task \cup {0}, copy: Record \cup {NoTask}]]
    /\ second \in 1 .. MaxSubmits + 1
    /\ stamped \in BOOLEAN
    /\ submits \in 0 .. MaxSubmits
    /\ died \subseteq Proc

\* One job at a time is on the GPU, whichever processes submit, cancel and die,
\* as long as a job is shorter than the lease it runs under, and nothing that
\* Rare names happens.
RunsDontOverlap ==
    \A j, k \in Run : child[j].state = "running" /\ child[k].state = "running" => j = k

\* A live lease is somebody's: of a call that will give it back, or of a child
\* that a process still waits for; only a death leaves one behind.
LeaseHasAnOwner ==
    (gpu.lease # 0 /\ gpu.left > 0 /\ died = {}) =>
        \E p \in Proc :
            \/ call[p].copy # NoTask /\ call[p].copy.lease = gpu.lease
            \/ active[p] # NoTask /\ active[p].run = gpu.lease

\* Whoever dies, no submission keeps the GPU for good.
LeaseEnds == []<>LeaseFree

\* The outcome of a task that somebody waits for reaches its record, unless a
\* process dies, whatever status queries write meanwhile.
WaitedTaskIsRecorded ==
    \A id \in Task :
        (\E p \in Proc : call[p].at = "wait" /\ call[p].id = id)
            ~> ((rec[id] # NoTask /\ rec[id].status # "running") \/ died # {})
=============================================================================
