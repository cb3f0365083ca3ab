---------------------------- MODULE TaskLanProofs ----------------------------
(***************************************************************************)
(* Theorems about TaskLan: however many processes submit, query, cancel and *)
(* die, one job runs at a time, as long as a job is shorter than the lease  *)
(* it is started with.  The lease is not looked at again after the child is *)
(* started, and any process may give it back that holds a copy of a record  *)
(* that names it.  What has to be shown is that a copy that says that a     *)
(* task has ended is right, and that the record of a task and the copies of *)
(* it never disagree about the lease.                                       *)
(***************************************************************************)
EXTENDS TaskLan, TLAPS

\* The condition: a task is cancelled by the process that runs it, and no two
\* tasks are made within a second.  Without it RunsDontOverlap fails.
NothingRare == Rare = {}

Gone(k) == child[k].state = "ended"
Begun(k) == child[k].state # "none"

\* A submission has its lease, for the whole of its time, and a record of its own.
Starter(p) ==
    Starting(p) =>
        /\ stamped /\ call[p].id = second
        /\ call[p].copy # NoTask
        /\ call[p].copy.status = "running"
        /\ gpu.lease = call[p].copy.lease /\ gpu.left = Ttl
        /\ call[p].copy.lease <= submits
        /\ ~Begun(call[p].copy.lease)
        /\ call[p].at = "record" => rec[second] = NoTask
        /\ call[p].at = "spawn" =>
             rec[second] # NoTask /\ rec[second].lease = call[p].copy.lease

\* No other submission is between its lease and its child.
StartersAreAlone ==
    /\ \A p \in Proc : Starter(p)
    /\ \A p, q \in Proc : Starting(p) /\ Starting(q) => p = q

\* A running child is as old as the lease it runs under.
RunsHaveTheLease ==
    \A k \in Run :
        /\ child[k].state = "running" => gpu.lease = k /\ gpu.left + child[k].age = Ttl
        /\ ~Begun(k) => child[k].age = 0
        /\ k > submits => ~Begun(k)

\* A record that says that its task has ended is right.
RecordTrue(i) ==
    rec[i] # NoTask =>
        /\ i < second \/ (i = second /\ stamped)
        /\ rec[i].status # "running" => Gone(rec[i].lease)

Writes(p) ==
    /\ call[p].copy # NoTask
    /\ call[p].id \in Task /\ rec[call[p].id] # NoTask
    /\ rec[call[p].id].lease = call[p].copy.lease

Polls(p) ==
    /\ active[p] # NoTask /\ call[p].copy # NoTask
    /\ call[p].copy.lease = active[p].run

Runs(p) ==
    /\ call[p].copy.status = "running"
    /\ call[p].copy.run = call[p].copy.lease
    /\ Begun(call[p].copy.lease)

\* So is the copy that a call holds, and it agrees with the record about the lease.
CallTrue(p) ==
    /\ call[p].at \in {"pid", "wait", "hold"} => Writes(p) /\ Runs(p)
    /\ call[p].at = "save" =>
         Writes(p) /\ (call[p].copy.status # "running" => Gone(call[p].copy.lease))
    /\ call[p].at \in {"finish", "release"} => Writes(p) /\ Gone(call[p].copy.lease)
    /\ call[p].at = "poll" =>
         Polls(p) /\ (call[p].copy.status # "running" => Gone(call[p].copy.lease))
    /\ call[p].at \in {"pollend", "pollrelease"} => Polls(p) /\ Gone(call[p].copy.lease)

\* The active task of a process has a record with its lease, and a child.
ActiveTrue(p) ==
    active[p] # NoTask =>
        /\ rec[active[p].id] # NoTask
        /\ rec[active[p].id].lease = active[p].run
        /\ Begun(active[p].run)

\* A second is only counted when a lease was taken in it.
SecondsPass == second <= submits + 1 /\ (stamped => second <= submits)

\* The inductive invariant.
IInv == /\ TypeOK /\ StartersAreAlone /\ RunsHaveTheLease /\ SecondsPass
        /\ \A i \in Task : RecordTrue(i)
        /\ \A p \in Proc : CallTrue(p) /\ ActiveTrue(p)

-----------------------------------------------------------------------------
(* What a step leaves alone *)

RecKept == \A i \in Task : rec[i] # NoTask => rec'[i] # NoTask /\ rec'[i].lease = rec[i].lease

ChildKept == \A k \in Run : /\ Gone(k) => Gone(k)'
                            /\ Begun(k) => Begun(k)'

\* At most p's call changes.
CallOf(p, c) == /\ call' \in [Proc -> [at: Step, id: Task \cup {0}, copy: Record \cup {NoTask}]]
                /\ call'[p] = c
                /\ \A q \in Proc \ {p} : call'[q] = call[q]

RecOf(i, r) == /\ rec' \in [Task -> Record \cup {NoTask}]
               /\ rec'[i] = r
               /\ \A j \in Task \ {i} : rec'[j] = rec[j]

\* A call that does not step stays true.
LEMMA CallStaysTrue ==
  ASSUME TypeOK, RecKept, ChildKept, NEW q \in Proc, CallTrue(q),
         call'[q] = call[q], active'[q] = active[q]
  PROVE  CallTrue(q)'
<1>1. /\ call[q].copy # NoTask => call[q].copy.lease \in Run
      /\ active[q] # NoTask => active[q].run \in Run
  BY TaskAssumption DEF TypeOK, Record
<1>2. call[q].copy # NoTask /\ Gone(call[q].copy.lease) => Gone(call[q].copy.lease)'
  BY <1>1 DEF ChildKept, Gone
<1>3. Writes(q) => Writes(q)'
  BY DEF Writes, RecKept
<1>4. Polls(q) => Polls(q)'
  BY DEF Polls
<1>5. Writes(q) /\ Runs(q) => Runs(q)'
  BY <1>1 DEF Writes, Runs, ChildKept, Begun
<1>6. call[q].copy # NoTask /\ Gone(call[q].copy.lease) => call'[q].copy # NoTask /\ Gone(call[q].copy.lease)'
  BY <1>2
<1> QED
  BY <1>2, <1>3, <1>4, <1>5 DEF CallTrue, Writes, Polls, Gone

\* So does an active task.
LEMMA ActiveStaysTrue ==
  ASSUME TypeOK, RecKept, ChildKept, NEW q \in Proc, ActiveTrue(q),
         active'[q] = active[q]
  PROVE  ActiveTrue(q)'
<1>1. active[q] # NoTask => active[q].run \in Run /\ active[q].id \in Task
  BY TaskAssumption DEF TypeOK
<1> QED
  BY <1>1 DEF ActiveTrue, RecKept, ChildKept, Begun

\* A record is replaced by a copy that is true and has its lease.
LEMMA RecordWritten ==
  ASSUME TypeOK, NEW i \in Task, NEW r \in Record, RecOf(i, r),
         \A j \in Task : RecordTrue(j),
         rec[i] # NoTask => rec[i].lease = r.lease,
         rec[i] # NoTask \/ (i = second /\ stamped),
         r.status # "running" => Gone(r.lease),
         UNCHANGED <<child, second, stamped>>
  PROVE  RecKept /\ ChildKept /\ \A j \in Task : RecordTrue(j)'
<1>1. r # NoTask
  BY TaskAssumption DEF Record, Run
<1>2. RecKept
  BY <1>1 DEF RecKept, RecOf
<1>3. ChildKept
  BY DEF ChildKept, Gone, Begun
<1>4. ASSUME NEW j \in Task PROVE RecordTrue(j)'
  <2>1. CASE j = i
    BY <2>1, <1>1 DEF RecOf, RecordTrue, Gone
  <2>2. CASE j # i
    BY <2>2 DEF RecOf, RecordTrue, Gone
  <2> QED
    BY <2>1, <2>2
<1> QED
  BY <1>2, <1>3, <1>4

\* Nobody is starting anew, and what starters rely on stays.
LEMMA StartersStay ==
  ASSUME TypeOK, StartersAreAlone, RecKept,
         \A q \in Proc : Starting(q)' => Starting(q) /\ call'[q] = call[q],
         UNCHANGED <<second, stamped, submits>>,
         \A q \in Proc : Starting(q) /\ Starting(q)' =>
             /\ gpu' = gpu
             /\ ~Begun(call[q].copy.lease) => ~Begun(call[q].copy.lease)'
             /\ rec[second] = NoTask => rec'[second] = NoTask
  PROVE  StartersAreAlone'
<1>1. ASSUME NEW q \in Proc PROVE Starter(q)'
  <2> SUFFICES ASSUME Starting(q)' PROVE Starter(q)'
    BY DEF Starter
  <2>1. Starting(q) /\ call'[q] = call[q]
    OBVIOUS
  <2>2. Starter(q)
    BY DEF StartersAreAlone
  <2>3. second \in Task
    BY <2>1, <2>2, TaskAssumption DEF Starter, TypeOK, Task
  <2> QED
    BY <2>1, <2>2, <2>3 DEF Starter, Begun, RecKept
<1> QED
  BY <1>1 DEF StartersAreAlone

\* Nobody starts or stops, nothing is given back, no record is made.
LEMMA RecordsOnlyStep ==
  ASSUME TypeOK, StartersAreAlone, NEW i \in Task, rec[i] # NoTask, NEW r, RecOf(i, r),
         NEW p \in Proc, NEW c, CallOf(p, c), c.at \notin {"record", "spawn"},
         RecKept, UNCHANGED <<gpu, child, second, stamped, submits>>
  PROVE  StartersAreAlone'
<1>1. \A q \in Proc : Starting(q)' => Starting(q) /\ call'[q] = call[q]
  BY DEF CallOf, Starting
<1>2. ASSUME NEW q \in Proc, Starting(q), rec[second] = NoTask PROVE rec'[second] = NoTask
  <2>1. second \in Task
    BY <1>2, TaskAssumption DEF StartersAreAlone, Starter, TypeOK, Task
  <2> QED
    BY <2>1, <1>2 DEF RecOf
<1> QED
  BY <1>1, <1>2, StartersStay DEF Begun

-----------------------------------------------------------------------------
(* The three kinds of step that a call under way takes *)

ActiveOf(p) == /\ active' \in [Proc -> [id: Task, run: Run] \cup {NoTask}]
               /\ \A q \in Proc \ {p} : active'[q] = active[q]

\* It looks, or finds out.
LEMMA LookStep ==
  ASSUME IInv, NEW p \in Proc, NEW c, CallOf(p, c), c.at \notin {"record", "spawn"},
         ActiveOf(p), died' \subseteq Proc, CallTrue(p)', ActiveTrue(p)',
         UNCHANGED <<rec, gpu, child, second, stamped, submits>>
  PROVE  IInv'
<1>1. TypeOK'
  BY DEF IInv, TypeOK, CallOf, ActiveOf
<1>2. RecKept /\ ChildKept /\ \A i \in Task : RecordTrue(i)'
  BY DEF IInv, RecKept, ChildKept, RecordTrue, Gone, Begun
<1>3. ASSUME NEW q \in Proc \ {p} PROVE CallTrue(q)' /\ ActiveTrue(q)'
  BY <1>2, CallStaysTrue, ActiveStaysTrue DEF IInv, CallOf, ActiveOf
<1>4. StartersAreAlone'
  BY <1>2, StartersStay DEF IInv, CallOf, Starting, Begun
<1>5. RunsHaveTheLease'
  BY DEF IInv, RunsHaveTheLease, Begun
<1> QED
  BY <1>1, <1>2, <1>3, <1>4, <1>5 DEF IInv, SecondsPass

\* It writes a record again.
LEMMA WriteStep ==
  ASSUME IInv, NEW p \in Proc, NEW c, CallOf(p, c), c.at \notin {"record", "spawn"},
         NEW i \in Task, NEW r \in Record, RecOf(i, r),
         rec[i] # NoTask, rec[i].lease = r.lease, r.status # "running" => Gone(r.lease),
         RecKept => CallTrue(p)',
         UNCHANGED <<gpu, child, active, second, stamped, submits, died>>
  PROVE  IInv'
<1>1. TypeOK'
  BY DEF IInv, TypeOK, CallOf, RecOf
<1>2. RecKept /\ ChildKept /\ \A j \in Task : RecordTrue(j)'
  BY RecordWritten DEF IInv
<1>3. CallTrue(p)' /\ ActiveTrue(p)'
  BY <1>2, ActiveStaysTrue DEF IInv
<1>4. ASSUME NEW q \in Proc \ {p} PROVE CallTrue(q)' /\ ActiveTrue(q)'
  BY <1>2, CallStaysTrue, ActiveStaysTrue DEF IInv, CallOf
<1>5. StartersAreAlone'
  BY <1>2, RecordsOnlyStep DEF IInv
<1>6. RunsHaveTheLease'
  BY DEF IInv, RunsHaveTheLease, Begun
<1> QED
  BY <1>1, <1>2, <1>3, <1>4, <1>5, <1>6 DEF IInv, SecondsPass

\* It gives a lease back whose child has ended.
LEMMA GiveBackStep ==
  ASSUME IInv, NEW p \in Proc, NEW c, CallOf(p, c), c.at \notin {"record", "spawn"},
         NEW n \in Run, Gone(n), gpu' = Released(n),
         ActiveOf(p), CallTrue(p)', ActiveTrue(p)',
         UNCHANGED <<rec, child, second, stamped, submits, died>>
  PROVE  IInv'
<1>1. TypeOK'
  BY TaskAssumption DEF IInv, TypeOK, CallOf, ActiveOf, Released, Free
<1>2. RecKept /\ ChildKept /\ \A j \in Task : RecordTrue(j)'
  BY DEF IInv, RecKept, ChildKept, RecordTrue, Gone, Begun
<1>3. ASSUME NEW q \in Proc \ {p} PROVE CallTrue(q)' /\ ActiveTrue(q)'
  BY <1>2, CallStaysTrue, ActiveStaysTrue DEF IInv, CallOf, ActiveOf
<1>4. ASSUME NEW q \in Proc, Starting(q) PROVE gpu' = gpu
  BY <1>4 DEF IInv, StartersAreAlone, Starter, Released, Gone, Begun
<1>5. StartersAreAlone'
  BY <1>2, <1>4, StartersStay DEF IInv, CallOf, Starting, Begun
<1>6. RunsHaveTheLease'
  BY DEF IInv, RunsHaveTheLease, Released, Gone, Begun
<1> QED
  BY <1>1, <1>2, <1>3, <1>5, <1>6 DEF IInv, SecondsPass

-----------------------------------------------------------------------------
(* The steps *)

LEMMA PollReadStep ==
  ASSUME IInv, NEW p \in Proc, PollRead(p)
  PROVE  IInv'
<1> DEFINE r == rec[active[p].id]
           ended == child[active[p].run].state = "ended"
           c == IF ended THEN [Idle EXCEPT !.at = "pollend", !.copy = [r EXCEPT !.status = "ended"]]
                ELSE [Idle EXCEPT !.at = "poll", !.copy = r]
<1>1. /\ active[p] # NoTask /\ active[p].id \in Task /\ active[p].run \in Run
      /\ r \in Record /\ r # NoTask /\ r.lease = active[p].run
      /\ r.status # "running" => Gone(r.lease)
  <2>1. ActiveTrue(p) /\ active[p] # NoTask
    BY DEF IInv, PollRead
  <2>2. active[p].id \in Task /\ active[p].run \in Run
    BY <2>1 DEF IInv, TypeOK
  <2> QED
    BY <2>1, <2>2 DEF IInv, TypeOK, ActiveTrue, RecordTrue
<1>2. /\ [r EXCEPT !.status = "ended"] \in Record
      /\ [r EXCEPT !.status = "ended"].lease = r.lease
      /\ [r EXCEPT !.status = "ended"] # NoTask
  BY <1>1, TaskAssumption DEF Record, Run
<1>3. /\ c.at = (IF ended THEN "pollend" ELSE "poll") /\ c.id = 0
      /\ c.copy \in Record /\ c.copy # NoTask /\ c.copy.lease = active[p].run
      /\ c.at = "poll" => c.copy = r
      /\ c \in [at: Step, id: Task \cup {0}, copy: Record \cup {NoTask}]
  BY <1>1, <1>2 DEF Idle, Step
<1>4. CallOf(p, c) /\ UNCHANGED <<rec, gpu, child, active, second, stamped, submits, died>>
  BY <1>3 DEF IInv, TypeOK, PollRead, CallOf
<1> HIDE DEF c
<1>5. CallTrue(p)' /\ ActiveTrue(p)'
  BY <1>1, <1>3, <1>4 DEF IInv, CallOf, CallTrue, ActiveTrue, Polls, Gone, Begun
<1> QED
  BY <1>3, <1>4, <1>5, LookStep DEF IInv, TypeOK, ActiveOf

LEMMA PollWriteStep ==
  ASSUME IInv, NEW p \in Proc, PollWrite(p)
  PROVE  IInv'
<1> DEFINE i == active[p].id
           r == call[p].copy
           c == IF call[p].at = "pollend" THEN [call[p] EXCEPT !.at = "pollrelease"]
                ELSE [Idle EXCEPT !.at = "polled"]
<1>1. /\ i \in Task /\ r \in Record /\ r.lease = active[p].run
      /\ rec[i] # NoTask /\ rec[i].lease = r.lease
      /\ r.status # "running" => Gone(r.lease)
  <2>1. CallTrue(p) /\ ActiveTrue(p) /\ call[p].at \in {"poll", "pollend"}
    BY DEF IInv, PollWrite
  <2>2. Polls(p) /\ (call[p].copy.status # "running" => Gone(call[p].copy.lease))
    BY <2>1 DEF CallTrue
  <2> QED
    BY <2>1, <2>2 DEF IInv, TypeOK, Polls, ActiveTrue
<1>2. /\ c \in [at: Step, id: Task \cup {0}, copy: Record \cup {NoTask}]
      /\ c.at = (IF call[p].at = "pollend" THEN "pollrelease" ELSE "polled")
      /\ c.at = "pollrelease" => c.copy = r /\ call[p].at = "pollend"
  BY DEF IInv, TypeOK, Idle, Step
<1>3. CallOf(p, c)
  <2>1. call' = [call EXCEPT ![p] = c]
    BY DEF PollWrite, Goto
  <2>2. call \in [Proc -> [at: Step, id: Task \cup {0}, copy: Record \cup {NoTask}]]
    BY DEF IInv, TypeOK
  <2> HIDE DEF c
  <2> QED
    BY <1>2, <2>1, <2>2 DEF CallOf
<1>4. RecOf(i, r) /\ UNCHANGED <<gpu, child, active, second, stamped, submits, died>>
  BY <1>1 DEF IInv, TypeOK, PollWrite, RecOf
<1> HIDE DEF i, r, c
<1>5. CallTrue(p)'
  <2>1. CallTrue(p)
    BY DEF IInv
  <2> QED
    BY <1>2, <1>3, <1>4, <2>1 DEF CallOf, CallTrue, Polls, Gone, r
<1> QED
  BY <1>1, <1>2, <1>3, <1>4, <1>5, WriteStep

LEMMA PollReleaseStep ==
  ASSUME IInv, NEW p \in Proc, PollRelease(p)
  PROVE  IInv'
<1> DEFINE c == [Idle EXCEPT !.at = "polled"]
           n == call[p].copy.lease
<1>1. Gone(n) /\ n \in Run
  <2>1. CallTrue(p)
    BY DEF IInv
  <2> QED
    BY <2>1 DEF PollRelease, CallTrue, Polls, IInv, TypeOK, Record
<1>2. /\ c \in [at: Step, id: Task \cup {0}, copy: Record \cup {NoTask}]
      /\ c.at = "polled"
  BY DEF Idle, Step
<1>3. /\ CallOf(p, c) /\ gpu' = Released(n) /\ ActiveOf(p) /\ active'[p] = NoTask
      /\ UNCHANGED <<rec, child, second, stamped, submits, died>>
  BY <1>2 DEF IInv, TypeOK, PollRelease, CallOf, ActiveOf
<1> HIDE DEF c, n
<1>4. CallTrue(p)' /\ ActiveTrue(p)'
  BY <1>2, <1>3 DEF CallOf, CallTrue, ActiveTrue
<1> QED
  BY <1>1, <1>2, <1>3, <1>4, GiveBackStep

LEMMA NothingMoreStep ==
  ASSUME IInv, NEW p \in Proc, NothingMore(p)
  PROVE  IInv'
<1>1. /\ CallOf(p, Idle) /\ ActiveOf(p)
      /\ UNCHANGED <<rec, gpu, child, active, second, stamped, submits, died>>
  BY DEF IInv, TypeOK, NothingMore, Done, CallOf, ActiveOf, Idle, Step
<1>2. Idle.at = "idle"
  BY DEF Idle
<1>3. CallTrue(p)' /\ ActiveTrue(p)'
  BY <1>1, <1>2 DEF IInv, CallOf, CallTrue, ActiveTrue, Begun
<1> QED
  BY <1>1, <1>2, <1>3, LookStep DEF IInv, TypeOK

\* The lease that is taken is new, and nobody ran under the one before.
LEMMA AcquireLeaseStep ==
  ASSUME IInv, NothingRare, NEW p \in Proc, AcquireLease(p)
  PROVE  IInv'
<1> DEFINE k == submits + 1
           r == [status |-> "running", lease |-> k, run |-> 0]
           c == [at |-> "record", id |-> second, copy |-> r]
<1>1. /\ k \in Run /\ ~stamped /\ second \in Task /\ rec[second] = NoTask
      /\ k \in Nat /\ k > submits /\ submits \in Nat /\ k <= MaxSubmits
      /\ r \in Record /\ r # NoTask
  <2>1. submits \in Nat /\ submits < MaxSubmits /\ ~stamped /\ second \in Nat /\ second > 0
    BY TaskAssumption DEF IInv, TypeOK, AcquireLease, NothingRare
  <2>2. second \in Task /\ k \in Run
    BY <2>1, TaskAssumption DEF IInv, SecondsPass, Task, Run
  <2>3. r \in Record
    BY <2>1, <2>2, TaskAssumption DEF Record
  <2> QED
    BY <2>1, <2>2, <2>3, TaskAssumption DEF IInv, RecordTrue, TypeOK, Record, Run
<1>2. c \in [at: Step, id: Task \cup {0}, copy: Record \cup {NoTask}]
  BY <1>1 DEF Step
<1>3. /\ CallOf(p, c) /\ gpu' = [lease |-> k, left |-> Ttl] /\ stamped' = TRUE /\ submits' = k
      /\ UNCHANGED <<rec, child, active, second, died>>
  BY <1>2 DEF IInv, TypeOK, AcquireLease, CallOf
<1>4. c.at = "record" /\ c.id = second /\ c.copy = r /\ r.status = "running" /\ r.lease = k
  OBVIOUS
<1> HIDE DEF c, r, k
<1>5. TypeOK'
  BY <1>1, <1>3, TaskAssumption DEF IInv, TypeOK, CallOf, Run
<1>6. RecKept /\ ChildKept /\ \A j \in Task : RecordTrue(j)'
  BY <1>1, <1>3 DEF IInv, RecKept, ChildKept, RecordTrue, Gone, Begun
<1>7. CallTrue(p)' /\ ActiveTrue(p)'
  BY <1>3, <1>4 DEF IInv, CallOf, CallTrue, ActiveTrue, Begun
<1>8. ASSUME NEW q \in Proc \ {p} PROVE CallTrue(q)' /\ ActiveTrue(q)'
  BY <1>3, <1>6, CallStaysTrue, ActiveStaysTrue DEF IInv, CallOf
<1>9. ASSUME NEW q \in Proc PROVE ~Starting(q)
  BY <1>1 DEF IInv, StartersAreAlone, Starter
<1>10. StartersAreAlone'
  <2>1. ASSUME NEW q \in Proc \ {p} PROVE ~Starting(q)'
    BY <1>3, <1>9 DEF CallOf, Starting
  <2>2. ~Begun(k)
    BY <1>1 DEF IInv, RunsHaveTheLease
  <2>3. Starter(p)'
    <3>1. call'[p] = c /\ second' = second /\ rec' = rec /\ child' = child
      BY <1>3 DEF CallOf
    <3>2. gpu'.lease = k /\ gpu'.left = Ttl /\ k <= submits' /\ rec'[second'] = NoTask
      BY <1>1, <1>3
    <3> QED
      BY <1>1, <1>3, <1>4, <2>2, <3>1, <3>2 DEF Starter, Begun
  <2> QED
    BY <2>1, <2>3 DEF StartersAreAlone, Starter
<1>11. RunsHaveTheLease'
  <2>1. ASSUME NEW j \in Run PROVE child[j].state # "running"
    <3> SUFFICES ASSUME child[j].state = "running" PROVE FALSE
      OBVIOUS
    <3>1. gpu.lease = j /\ gpu.left + child[j].age = Ttl
      BY DEF IInv, RunsHaveTheLease
    <3>2. child[j].age \in Nat /\ child[j].age <= MaxRun /\ gpu.left \in Nat /\ j # 0
      BY TaskAssumption DEF IInv, TypeOK, Run
    <3> QED
      BY <3>1, <3>2, TaskAssumption DEF AcquireLease, LeaseFree
  <2> QED
    BY <1>1, <1>3, <2>1 DEF IInv, RunsHaveTheLease, Begun, Run
<1>12. SecondsPass'
  BY <1>1, <1>3, TaskAssumption DEF IInv, TypeOK, SecondsPass, k
<1> QED
  BY <1>5, <1>6, <1>7, <1>8, <1>10, <1>11, <1>12 DEF IInv

\* The first record of a task.
LEMMA WriteRecordStep ==
  ASSUME IInv, NEW p \in Proc, WriteRecord(p)
  PROVE  IInv'
<1> DEFINE i == call[p].id
           r == call[p].copy
           c == [call[p] EXCEPT !.at = "spawn"]
<1>1. /\ i = second /\ i \in Task /\ stamped /\ rec[i] = NoTask
      /\ r \in Record /\ r # NoTask /\ r.status = "running"
  <2>1. Starting(p) /\ call[p].at = "record"
    BY DEF WriteRecord, Starting
  <2> QED
    BY <2>1, TaskAssumption DEF IInv, TypeOK, StartersAreAlone, Starter, Task
<1>2. /\ c \in [at: Step, id: Task \cup {0}, copy: Record \cup {NoTask}]
      /\ c.at = "spawn" /\ c.id = i /\ c.copy = r
  BY DEF IInv, TypeOK, Step
<1>3. /\ CallOf(p, c) /\ RecOf(i, r)
      /\ UNCHANGED <<gpu, child, active, second, stamped, submits, died>>
  BY <1>1, <1>2 DEF IInv, TypeOK, WriteRecord, Goto, CallOf, RecOf
<1> HIDE DEF c
<1>4. TypeOK'
  BY <1>3 DEF IInv, TypeOK, CallOf, RecOf
<1>5. RecKept /\ ChildKept /\ \A j \in Task : RecordTrue(j)'
  BY <1>1, <1>3, RecordWritten DEF IInv
<1>6. CallTrue(p)' /\ ActiveTrue(p)'
  BY <1>2, <1>3, <1>5, ActiveStaysTrue DEF IInv, CallOf, CallTrue
<1>7. ASSUME NEW q \in Proc \ {p} PROVE CallTrue(q)' /\ ActiveTrue(q)'
  BY <1>3, <1>5, CallStaysTrue, ActiveStaysTrue DEF IInv, CallOf
<1>8. StartersAreAlone'
  <2>1. Starting(p) /\ Starter(p) /\ Starting(p)'
    BY <1>2, <1>3 DEF IInv, StartersAreAlone, WriteRecord, Starting, CallOf
  <2>2. ASSUME NEW q \in Proc \ {p} PROVE ~Starting(q)'
    BY <1>3, <2>1 DEF IInv, StartersAreAlone, CallOf, Starting
  <2>3. Starter(p)'
    BY <1>1, <1>2, <1>3, <2>1 DEF Starter, CallOf, RecOf, Begun
  <2> QED
    BY <2>2, <2>3 DEF StartersAreAlone, Starter
<1>9. RunsHaveTheLease'
  BY <1>3 DEF IInv, RunsHaveTheLease, Begun
<1> QED
  BY <1>3, <1>4, <1>5, <1>6, <1>7, <1>8, <1>9 DEF IInv, SecondsPass

\* The child starts with its lease as it was taken.
LEMMA SpawnStep ==
  ASSUME IInv, NEW p \in Proc, Spawn(p)
  PROVE  IInv'
<1> DEFINE k == call[p].copy.lease
           r == [call[p].copy EXCEPT !.run = k]
           c == [call[p] EXCEPT !.at = "pid", !.copy = r]
           d == [child[k] EXCEPT !.state = "running"]
<1>1. /\ k \in Run /\ k <= submits /\ gpu.lease = k /\ gpu.left = Ttl /\ ~Begun(k)
      /\ call[p].id = second /\ second \in Task /\ rec[second] # NoTask /\ rec[second].lease = k
      /\ call[p].copy \in Record /\ call[p].copy.status = "running"
  <2>1. Starting(p) /\ call[p].at = "spawn" /\ Starter(p)
    BY DEF IInv, Spawn, Starting, StartersAreAlone
  <2>2. call[p].copy \in Record /\ call[p].id = second
    BY <2>1 DEF IInv, TypeOK, Starter
  <2> QED
    BY <2>1, <2>2, TaskAssumption DEF IInv, TypeOK, Starter, Task, Record
<1>2. /\ r \in Record /\ r # NoTask /\ r.run = k /\ r.lease = k /\ r.status = "running"
  BY <1>1, TaskAssumption DEF Record, Run
<1> HIDE DEF r
<1>3. c \in [at: Step, id: Task \cup {0}, copy: Record \cup {NoTask}]
      /\ c.at = "pid" /\ c.id = call[p].id /\ c.copy = r
  BY <1>2 DEF IInv, TypeOK, Step
<1>4. /\ CallOf(p, c) /\ UNCHANGED <<rec, gpu, active, second, stamped, submits, died>>
      /\ child' = [child EXCEPT ![k] = d]
  BY <1>1, <1>3 DEF IInv, TypeOK, Spawn, CallOf, r
<1>13. d \in [state: {"none", "running", "ended"}, age: 0 .. MaxRun]
       /\ d.state = "running" /\ d.age = child[k].age
  BY <1>1 DEF IInv, TypeOK
<1> HIDE DEF d
<1>14. /\ child' \in [Run -> [state: {"none", "running", "ended"}, age: 0 .. MaxRun]]
       /\ child'[k] = d
       /\ \A j \in Run \ {k} : child'[j] = child[j]
  BY <1>1, <1>4, <1>13 DEF IInv, TypeOK
<1>5. c.at = "pid" /\ c.id = second /\ c.copy = r
  BY <1>1, <1>3
<1> HIDE DEF c, r, k
<1>6. TypeOK'
  BY <1>4, <1>14 DEF IInv, TypeOK, CallOf
<1>7. RecKept /\ ChildKept
  BY <1>1, <1>4, <1>13, <1>14 DEF RecKept, ChildKept, Gone, Begun
<1>8. ASSUME NEW j \in Task PROVE RecordTrue(j)'
  <2>1. rec[j] # NoTask => rec[j].lease \in Run
    BY DEF IInv, TypeOK, Record
  <2> QED
    BY <1>4, <1>7, <2>1 DEF IInv, RecordTrue, ChildKept, Gone
<1>9. CallTrue(p)' /\ ActiveTrue(p)'
  BY <1>1, <1>2, <1>4, <1>5, <1>7, <1>13, <1>14, ActiveStaysTrue DEF IInv, CallOf, CallTrue, Writes, Runs, Begun
<1>10. ASSUME NEW q \in Proc \ {p} PROVE CallTrue(q)' /\ ActiveTrue(q)'
  BY <1>4, <1>7, CallStaysTrue, ActiveStaysTrue DEF IInv, CallOf
<1>11. ASSUME NEW q \in Proc PROVE ~Starting(q)'
  <2>1. Starting(p)
    BY DEF Spawn, Starting
  <2> QED
    BY <1>4, <1>5, <2>1 DEF IInv, StartersAreAlone, Starting, CallOf
<1>12. RunsHaveTheLease'
  <2>1. child[k].age = 0
    BY <1>1 DEF IInv, RunsHaveTheLease
  <2>2. ASSUME NEW j \in Run \ {k} PROVE child[j].state # "running"
    BY <1>1 DEF IInv, RunsHaveTheLease
  <2> QED
    <3>1. ASSUME NEW j \in Run \ {k}
          PROVE  /\ child'[j].state # "running"
                 /\ ~Begun(j)' => child'[j].age = 0
                 /\ j > submits' => ~Begun(j)'
      BY <1>4, <1>14, <2>2 DEF IInv, RunsHaveTheLease, Begun
    <3>2. /\ gpu'.lease = k /\ gpu'.left + child'[k].age = Ttl
          /\ child'[k].state # "none" /\ ~(k > submits')
      BY <1>1, <1>4, <1>13, <1>14, <2>1, TaskAssumption DEF IInv, TypeOK, Begun, Run
    <3> QED
      BY <3>1, <3>2 DEF RunsHaveTheLease, Begun
<1> QED
  BY <1>4, <1>6, <1>7, <1>8, <1>9, <1>10, <1>11, <1>12
  DEF IInv, SecondsPass, StartersAreAlone, Starter

\* The lease is given back, and no child was started.
LEMMA SpawnFailsStep ==
  ASSUME IInv, NEW p \in Proc, SpawnFails(p)
  PROVE  IInv'
<1>1. Starting(p) /\ Starter(p)
  BY DEF IInv, SpawnFails, Starting, StartersAreAlone
<1>2. gpu' = Free /\ ~Begun(gpu.lease)
  BY <1>1 DEF SpawnFails, Released, Starter
<1>3. /\ CallOf(p, Idle) /\ Idle.at = "idle"
      /\ UNCHANGED <<rec, child, active, second, stamped, submits, died>>
  BY DEF IInv, TypeOK, SpawnFails, Done, CallOf, Idle, Step
<1>4. TypeOK'
  BY <1>2, <1>3, TaskAssumption DEF IInv, TypeOK, CallOf, Free
<1>5. RecKept /\ ChildKept /\ \A j \in Task : RecordTrue(j)'
  BY <1>3 DEF IInv, RecKept, ChildKept, RecordTrue, Gone, Begun
<1>6. CallTrue(p)' /\ ActiveTrue(p)'
  BY <1>3 DEF IInv, CallOf, CallTrue, ActiveTrue, Begun
<1>7. ASSUME NEW q \in Proc \ {p} PROVE CallTrue(q)' /\ ActiveTrue(q)'
  BY <1>3, <1>5, CallStaysTrue, ActiveStaysTrue DEF IInv, CallOf
<1>8. ASSUME NEW q \in Proc PROVE ~Starting(q)'
  BY <1>1, <1>3 DEF IInv, StartersAreAlone, Starting, CallOf
<1>9. RunsHaveTheLease'
  BY <1>2, <1>3 DEF IInv, RunsHaveTheLease, Begun
<1> QED
  BY <1>3, <1>4, <1>5, <1>6, <1>7, <1>8, <1>9
  DEF IInv, SecondsPass, StartersAreAlone, Starter

LEMMA WritePidStep ==
  ASSUME IInv, NEW p \in Proc, WritePid(p)
  PROVE  IInv'
<1> DEFINE i == call[p].id
           r == call[p].copy
<1>1. Writes(p) /\ Runs(p)
  <2>1. CallTrue(p) /\ call[p].at = "pid"
    BY DEF IInv, WritePid
  <2> QED
    BY <2>1 DEF CallTrue
<1>2. i \in Task /\ r \in Record /\ rec[i] # NoTask /\ rec[i].lease = r.lease
  BY <1>1 DEF IInv, TypeOK, Writes
<1>3. PICK s \in {"wait", "hold"} : call' = [call EXCEPT ![p].at = s]
  BY DEF WritePid, Goto
<1> DEFINE c == [call[p] EXCEPT !.at = s]
<1>4. /\ CallOf(p, c) /\ c.at = s /\ c.id = i /\ c.copy = r
  BY <1>3 DEF IInv, TypeOK, CallOf, Step
<1>5. /\ RecOf(i, r) /\ r.status = "running"
      /\ UNCHANGED <<gpu, child, active, second, stamped, submits, died>>
  BY <1>1, <1>2 DEF IInv, TypeOK, WritePid, RecOf, Runs
<1>6. ASSUME RecKept PROVE CallTrue(p)'
  <2>1. /\ call'[p].at \in {"wait", "hold"} /\ call'[p].id = call[p].id
        /\ call'[p].copy = call[p].copy
    BY <1>4 DEF CallOf
  <2> QED
    BY <1>1, <1>5, <1>6, <2>1 DEF CallTrue, Writes, Runs, RecKept, Begun
<1> HIDE DEF i, r, c
<1> QED
  BY <1>2, <1>4, <1>5, <1>6, WriteStep

LEMMA HoldStep ==
  ASSUME IInv, NEW p \in Proc, Hold(p)
  PROVE  IInv'
<1> DEFINE a == [id |-> call[p].id, run |-> call[p].copy.run]
<1>1. Writes(p) /\ Runs(p) /\ call[p].copy \in Record
  <2>1. CallTrue(p) /\ call[p].at = "hold"
    BY DEF IInv, Hold
  <2> QED
    BY <2>1 DEF CallTrue, Writes, IInv, TypeOK
<1>2. a \in [id: Task, run: Run]
  BY <1>1 DEF Writes, Runs, Record
<1>3. /\ CallOf(p, Idle) /\ Idle.at = "idle" /\ ActiveOf(p) /\ active'[p] = a
      /\ UNCHANGED <<rec, gpu, child, second, stamped, submits, died>>
  BY <1>2 DEF IInv, TypeOK, Hold, Done, CallOf, ActiveOf, Idle, Step
<1>4. CallTrue(p)' /\ ActiveTrue(p)'
  BY <1>1, <1>3 DEF CallOf, CallTrue, ActiveTrue, Writes, Runs, Begun
<1> QED
  BY <1>3, <1>4, LookStep DEF IInv, TypeOK

LEMMA WaitedStep ==
  ASSUME IInv, NEW p \in Proc, Waited(p)
  PROVE  IInv'
<1> DEFINE r == [call[p].copy EXCEPT !.status = "ended"]
           c == [call[p] EXCEPT !.at = "finish", !.copy = r]
<1>1. Writes(p) /\ Runs(p) /\ call[p].copy \in Record /\ Gone(call[p].copy.lease)
  <2>1. CallTrue(p) /\ call[p].at = "wait"
    BY DEF IInv, Waited
  <2> QED
    BY <2>1 DEF CallTrue, Writes, Runs, IInv, TypeOK, Waited, Gone
<1>2. r \in Record /\ r.lease = call[p].copy.lease /\ r # NoTask
  BY <1>1, TaskAssumption DEF Record, Run
<1> HIDE DEF r
<1>3. c \in [at: Step, id: Task \cup {0}, copy: Record \cup {NoTask}]
      /\ c.at = "finish" /\ c.id = call[p].id /\ c.copy = r
  BY <1>2 DEF IInv, TypeOK, Step
<1>4. CallOf(p, c) /\ UNCHANGED <<rec, gpu, child, active, second, stamped, submits, died>>
  BY <1>3 DEF IInv, TypeOK, Waited, CallOf, r
<1> HIDE DEF c
<1>5. CallTrue(p)' /\ ActiveTrue(p)'
  BY <1>1, <1>2, <1>3, <1>4 DEF IInv, CallOf, CallTrue, ActiveTrue, Writes, Gone, Begun
<1> QED
  BY <1>3, <1>4, <1>5, LookStep DEF IInv, TypeOK, ActiveOf

LEMMA FinishStep ==
  ASSUME IInv, NEW p \in Proc, Finish(p)
  PROVE  IInv'
<1> DEFINE i == call[p].id
           r == call[p].copy
           c == [call[p] EXCEPT !.at = "release"]
<1>1. Writes(p) /\ Gone(r.lease)
  <2>1. CallTrue(p) /\ call[p].at = "finish"
    BY DEF IInv, Finish
  <2> QED
    BY <2>1 DEF CallTrue
<1>2. i \in Task /\ r \in Record /\ rec[i] # NoTask /\ rec[i].lease = r.lease
  BY <1>1 DEF IInv, TypeOK, Writes
<1>3. /\ CallOf(p, c) /\ c.at = "release" /\ c.id = i /\ c.copy = r
  BY DEF IInv, TypeOK, Finish, Goto, CallOf, Step
<1>4. /\ RecOf(i, r)
      /\ UNCHANGED <<gpu, child, active, second, stamped, submits, died>>
  BY <1>1, <1>2 DEF IInv, TypeOK, Finish, RecOf
<1>5. ASSUME RecKept PROVE CallTrue(p)'
  <2>1. /\ call'[p].at = "release" /\ call'[p].id = call[p].id
        /\ call'[p].copy = call[p].copy
    BY <1>3 DEF CallOf
  <2> QED
    BY <1>1, <1>4, <1>5, <2>1 DEF CallTrue, Writes, RecKept, Gone
<1> HIDE DEF c
<1> QED
  BY <1>1, <1>2, <1>3, <1>4, <1>5, WriteStep

LEMMA ReleaseStep ==
  ASSUME IInv, NEW p \in Proc, Release(p)
  PROVE  IInv'
<1> DEFINE n == call[p].copy.lease
<1>1. Gone(n) /\ n \in Run
  <2>1. CallTrue(p)
    BY DEF IInv
  <2> QED
    BY <2>1 DEF Release, CallTrue, Writes, IInv, TypeOK, Record
<1>2. /\ CallOf(p, Idle) /\ Idle.at = "idle" /\ gpu' = Released(n) /\ ActiveOf(p)
      /\ UNCHANGED <<rec, child, active, second, stamped, submits, died>>
  BY DEF IInv, TypeOK, Release, Done, CallOf, ActiveOf, Idle, Step
<1> HIDE DEF n
<1>3. CallTrue(p)' /\ ActiveTrue(p)'
  BY <1>2 DEF IInv, CallOf, CallTrue, ActiveTrue, Begun
<1> QED
  BY <1>1, <1>2, <1>3, GiveBackStep

LEMMA StatusStep ==
  ASSUME IInv, NEW p \in Proc, NEW id \in Task, Status(p, id)
  PROVE  IInv'
<1> DEFINE c == [at |-> "save", id |-> id, copy |-> rec[id]]
<1>1. /\ CallOf(p, c) /\ rec[id] # NoTask
      /\ UNCHANGED <<rec, gpu, child, active, second, stamped, submits, died>>
  BY DEF IInv, TypeOK, Status, CallOf, Step
<1>2. CallTrue(p)' /\ ActiveTrue(p)'
  BY <1>1 DEF IInv, CallOf, CallTrue, ActiveTrue, Writes, RecordTrue, Gone, Begun
<1> QED
  BY <1>1, <1>2, LookStep DEF IInv, TypeOK, ActiveOf

LEMMA StatusSaveStep ==
  ASSUME IInv, NEW p \in Proc, StatusSave(p)
  PROVE  IInv'
<1> DEFINE i == call[p].id
           r == call[p].copy
<1>1. Writes(p) /\ (r.status # "running" => Gone(r.lease))
  <2>1. CallTrue(p) /\ call[p].at = "save"
    BY DEF IInv, StatusSave
  <2> QED
    BY <2>1 DEF CallTrue
<1>2. i \in Task /\ r \in Record /\ rec[i] # NoTask /\ rec[i].lease = r.lease
  BY <1>1 DEF IInv, TypeOK, Writes
<1>3. /\ CallOf(p, Idle) /\ Idle.at = "idle"
  BY DEF IInv, TypeOK, StatusSave, Done, CallOf, Idle, Step
<1>4. /\ RecOf(i, r)
      /\ UNCHANGED <<gpu, child, active, second, stamped, submits, died>>
  BY <1>1, <1>2 DEF IInv, TypeOK, StatusSave, RecOf
<1>5. CallTrue(p)'
  BY <1>3 DEF CallOf, CallTrue
<1> HIDE DEF i, r
<1> QED
  BY <1>1, <1>2, <1>3, <1>4, <1>5, WriteStep

-----------------------------------------------------------------------------
(* Children end, time passes, processes die *)

ChildEnds ==
    /\ child' \in [Run -> [state: {"none", "running", "ended"}, age: 0 .. MaxRun]]
    /\ \A j \in Run :
          /\ Begun(j)' <=> Begun(j)
          /\ Gone(j) => Gone(j)'
          /\ child'[j].age = child[j].age
          /\ child'[j].state = "running" => child[j].state = "running"

\* What a kill does, and that it ends a child that has begun.
LEMMA KilledEnds ==
  ASSUME TypeOK, NEW k \in Run \cup {0}, child' = Killed(k)
  PROVE  ChildEnds /\ (k # 0 /\ Begun(k) => child'[k].state = "ended")
<1>1. CASE k # 0 /\ child[k].state = "running"
  <2> DEFINE d == [child[k] EXCEPT !.state = "ended"]
  <2>1. k \in Run /\ child' = [child EXCEPT ![k] = d]
    BY <1>1 DEF Killed
  <2>2. /\ d \in [state: {"none", "running", "ended"}, age: 0 .. MaxRun]
        /\ d.state = "ended" /\ d.age = child[k].age
    BY <2>1 DEF TypeOK
  <2> HIDE DEF d
  <2> QED
    BY <1>1, <2>1, <2>2 DEF TypeOK, ChildEnds, Gone, Begun
<1>2. CASE ~(k # 0 /\ child[k].state = "running")
  <2>1. child' = child
    BY <1>2 DEF Killed
  <2> QED
    BY <1>2, <2>1 DEF TypeOK, ChildEnds, Gone, Begun
<1> QED
  BY <1>1, <1>2

\* The end of a child disturbs nobody.
LEMMA EndStep ==
  ASSUME IInv, ChildEnds, TypeOK',
         \A q \in Proc : Starting(q)' => Starting(q) /\ call'[q] = call[q],
         \A q \in Proc : CallTrue(q)' /\ ActiveTrue(q)',
         UNCHANGED <<rec, gpu, second, stamped, submits>>
  PROVE  IInv'
<1>1. RecKept /\ ChildKept
  BY DEF RecKept, ChildKept, ChildEnds
<1>2. ASSUME NEW j \in Task PROVE RecordTrue(j)'
  <2>1. rec[j] # NoTask => rec[j].lease \in Run
    BY DEF IInv, TypeOK, Record
  <2> QED
    BY <1>1, <2>1 DEF IInv, RecordTrue, ChildKept, Gone
<1>3. ASSUME NEW q \in Proc, Starting(q), Starting(q)', ~Begun(call[q].copy.lease)
      PROVE  ~Begun(call[q].copy.lease)'
  <2>1. call[q].copy # NoTask
    BY <1>3 DEF IInv, StartersAreAlone, Starter
  <2>2. call[q].copy.lease \in Run
    BY <2>1 DEF IInv, TypeOK, Record
  <2>3. call'[q] = call[q]
    BY <1>3
  <2> QED
    BY <1>3, <2>2, <2>3 DEF ChildEnds, Begun
<1>4. StartersAreAlone'
  BY <1>1, <1>3, StartersStay DEF IInv
<1>5. RunsHaveTheLease'
  BY DEF IInv, RunsHaveTheLease, ChildEnds, Begun
<1> QED
  BY <1>2, <1>4, <1>5 DEF IInv, SecondsPass

LEMMA ExitStep ==
  ASSUME IInv, NEW k \in Run, Exit(k)
  PROVE  IInv'
<1>1. /\ child' = Killed(k)
      /\ UNCHANGED <<rec, gpu, active, call, second, stamped, submits, died>>
  BY TaskAssumption DEF Exit, Killed, Run
<1>2. ChildEnds
  BY <1>1, KilledEnds DEF IInv
<1>3. TypeOK'
  BY <1>1, <1>2 DEF IInv, TypeOK, ChildEnds
<1>4. RecKept /\ ChildKept
  BY <1>1, <1>2 DEF RecKept, ChildKept, ChildEnds
<1>5. \A q \in Proc : CallTrue(q)' /\ ActiveTrue(q)'
  BY <1>1, <1>4, CallStaysTrue, ActiveStaysTrue DEF IInv
<1> QED
  BY <1>1, <1>2, <1>3, <1>5, EndStep DEF Starting

\* A task is cancelled when its child is the process's own, or has ended.
LEMMA CancelStep ==
  ASSUME IInv, NothingRare, NEW p \in Proc, NEW id \in Task, Cancel(p, id)
  PROVE  IInv'
<1> DEFINE r == [rec[id] EXCEPT !.status = "cancelled"]
           c == [at |-> "finish", id |-> id, copy |-> r]
           Target == IF Own(p, id) THEN active[p].run ELSE rec[id].run
<1>1. /\ rec[id] \in Record /\ rec[id] # NoTask /\ rec[id].lease \in Run
      /\ Target \in Run \cup {0}
      /\ \/ Target = rec[id].lease /\ Target # 0 /\ Begun(Target)
         \/ Gone(rec[id].lease)
  <2>1. CASE Own(p, id)
    <3>1. active[p] # NoTask /\ active[p].id = id /\ ActiveTrue(p)
      BY <2>1 DEF Own, IInv
    <3>2. active[p].run \in Run /\ rec[id] # NoTask /\ rec[id].lease = active[p].run
      BY <3>1 DEF IInv, TypeOK, ActiveTrue
    <3> QED
      BY <2>1, <3>1, <3>2, TaskAssumption DEF IInv, TypeOK, ActiveTrue, Record, Run
  <2>2. CASE ~Own(p, id)
    <3>1. rec[id] # NoTask /\ rec[id].status # "running"
      BY <2>2 DEF Cancel, Cancellable, NothingRare
    <3>2. rec[id] \in Record /\ RecordTrue(id)
      BY <3>1 DEF IInv, TypeOK
    <3>3. Gone(rec[id].lease) /\ rec[id].run \in Run \cup {0} /\ rec[id].lease \in Run
      BY <3>1, <3>2, TaskAssumption DEF RecordTrue, Record, Run
    <3> QED
      BY <2>2, <3>1, <3>2, <3>3
  <2> QED
    BY <2>1, <2>2
<1>2. r \in Record /\ r # NoTask /\ r.lease = rec[id].lease
  BY <1>1, TaskAssumption DEF Record, Run
<1>3. child' = Killed(Target) /\ UNCHANGED <<rec, gpu, second, stamped, submits, died>>
  BY DEF Cancel
<1> HIDE DEF Target
<1>4. ChildEnds /\ child'[rec[id].lease].state = "ended"
  <2>1. PICK k \in Run \cup {0} : k = Target
    BY <1>1
  <2>2. ChildEnds /\ (k # 0 /\ Begun(k) => child'[k].state = "ended")
    BY <1>3, <2>1, KilledEnds DEF IInv
  <2> QED
    BY <1>1, <2>1, <2>2 DEF ChildEnds, Gone
<1> HIDE DEF r
<1>5. c \in [at: Step, id: Task \cup {0}, copy: Record \cup {NoTask}]
  BY <1>2 DEF Step
<1>6. CallOf(p, c) /\ c.at = "finish" /\ c.id = id /\ c.copy = r
  BY <1>5 DEF IInv, TypeOK, Cancel, CallOf, r
<1> HIDE DEF c
<1>7. ActiveOf(p) /\ (active'[p] = NoTask \/ active'[p] = active[p])
  BY DEF IInv, TypeOK, Cancel, ActiveOf
<1>8. TypeOK'
  BY <1>3, <1>4, <1>6, <1>7 DEF IInv, TypeOK, CallOf, ActiveOf, ChildEnds
<1>9. RecKept /\ ChildKept
  BY <1>3, <1>4 DEF RecKept, ChildKept, ChildEnds
<1>10. CallTrue(p)' /\ ActiveTrue(p)'
  <2>1. ActiveTrue(p)'
    BY <1>7, <1>9, ActiveStaysTrue DEF IInv, ActiveTrue
  <2>2. Gone(call[p].copy.lease)'
    BY <1>2, <1>4, <1>6 DEF CallOf, Gone
  <2> QED
    BY <1>1, <1>2, <1>3, <1>6, <2>1, <2>2 DEF CallOf, CallTrue, Writes, Gone
<1>11. ASSUME NEW q \in Proc \ {p} PROVE CallTrue(q)' /\ ActiveTrue(q)'
  BY <1>6, <1>7, <1>9, CallStaysTrue, ActiveStaysTrue DEF IInv, CallOf, ActiveOf
<1>12. \A q \in Proc : Starting(q)' => Starting(q) /\ call'[q] = call[q]
  BY <1>6 DEF CallOf, Starting
<1> QED
  BY <1>3, <1>4, <1>8, <1>10, <1>11, <1>12, EndStep

\* A child grows older as the lease does, and the tick does not split a start.
LEMMA TickStep ==
  ASSUME IInv, Tick
  PROVE  IInv'
<1>1. ASSUME NEW j \in Run, child[j].state = "running"
      PROVE  /\ child'[j].state = "running" /\ child'[j].age = child[j].age + 1
             /\ child'[j] \in [state: {"none", "running", "ended"}, age: 0 .. MaxRun]
             /\ gpu.lease = j /\ gpu.left > 0 /\ gpu.left + child[j].age = Ttl
  <2>1. child[j].age \in 0 .. MaxRun /\ child[j].age < MaxRun
    BY <1>1 DEF IInv, TypeOK, Tick
  <2>2. child'[j] = [child[j] EXCEPT !.age = child[j].age + 1]
    BY <1>1 DEF Tick
  <2>3. gpu.lease = j /\ gpu.left + child[j].age = Ttl /\ gpu.left \in Nat
    BY <1>1, TaskAssumption DEF IInv, TypeOK, RunsHaveTheLease
  <2>4. child[j] \in [state: {"none", "running", "ended"}, age: 0 .. MaxRun]
    BY DEF IInv, TypeOK
  <2>5. child[j].age + 1 \in 0 .. MaxRun /\ gpu.left > 0
    BY <2>1, <2>3, TaskAssumption
  <2> QED
    BY <1>1, <2>2, <2>3, <2>4, <2>5
<1>2. ASSUME NEW j \in Run, child[j].state # "running" PROVE child'[j] = child[j]
  BY <1>2 DEF Tick
<1>3. child' \in [Run -> [state: {"none", "running", "ended"}, age: 0 .. MaxRun]]
  <2>1. ASSUME NEW j \in Run
        PROVE child'[j] \in [state: {"none", "running", "ended"}, age: 0 .. MaxRun]
    <3>1. child[j] \in [state: {"none", "running", "ended"}, age: 0 .. MaxRun]
      BY DEF IInv, TypeOK
    <3> QED
      BY <1>1, <1>2, <3>1
  <2>2. \E f : child' = [j \in Run |-> f[j]]
    <3> DEFINE g == [j \in Run |-> IF child[j].state = "running"
                                   THEN [child[j] EXCEPT !.age = @ + 1] ELSE child[j]]
    <3>1. child' = g
      BY DEF Tick
    <3>2. g = [j \in Run |-> g[j]]
      OBVIOUS
    <3> QED
      BY <3>1, <3>2
  <2> QED
    BY <2>1, <2>2
<1>4. /\ gpu' \in [lease: 0 .. MaxSubmits, left: 0 .. Ttl] /\ gpu'.lease = gpu.lease
      /\ gpu.left > 0 => gpu'.left = gpu.left - 1
  BY TaskAssumption DEF IInv, TypeOK, Tick, LeaseLeft
<1>5. UNCHANGED <<rec, active, call, submits, died>> /\ stamped' = FALSE
  BY DEF Tick
<1>6. /\ second' \in 1 .. MaxSubmits + 1 /\ second' <= submits' + 1
      /\ second <= second' /\ (stamped => second < second')
  BY TaskAssumption DEF IInv, TypeOK, SecondsPass, Tick
<1>7. TypeOK'
  BY <1>3, <1>4, <1>5, <1>6 DEF IInv, TypeOK
<1>8. RecKept /\ ChildKept
  BY <1>1, <1>2, <1>5 DEF RecKept, ChildKept, Gone, Begun
<1>9. \A q \in Proc : CallTrue(q)' /\ ActiveTrue(q)'
  BY <1>5, <1>8, CallStaysTrue, ActiveStaysTrue DEF IInv
<1>10. StartersAreAlone'
  BY <1>5 DEF Tick, StartersAreAlone, Starter, Starting
<1>11. RunsHaveTheLease'
  <2>1. ASSUME NEW j \in Run
        PROVE  /\ child'[j].state = "running" => gpu'.lease = j /\ gpu'.left + child'[j].age = Ttl
               /\ ~Begun(j)' => child'[j].age = 0
               /\ j > submits' => ~Begun(j)'
    <3>1. CASE child[j].state = "running"
      <4>1. child[j].age \in Nat /\ gpu.left \in Nat
        BY TaskAssumption DEF IInv, TypeOK
      <4> QED
        BY <1>1, <1>4, <1>5, <3>1, <4>1, TaskAssumption DEF IInv, RunsHaveTheLease, Begun
    <3>2. CASE child[j].state # "running"
      BY <1>2, <1>5, <3>2 DEF IInv, RunsHaveTheLease, Begun
    <3> QED
      BY <3>1, <3>2
  <2> QED
    BY <2>1 DEF RunsHaveTheLease, Begun
<1>12. ASSUME NEW i \in Task PROVE RecordTrue(i)'
  <2>1. RecordTrue(i) /\ (rec[i] # NoTask => rec[i].lease \in Run)
    BY DEF IInv, TypeOK, Record
  <2>2. rec[i] # NoTask /\ Gone(rec[i].lease) => Gone(rec[i].lease)'
    BY <1>5, <1>8, <2>1 DEF ChildKept, Gone
  <2>3. rec[i] # NoTask => i < second'
    BY <1>6, <2>1, TaskAssumption DEF RecordTrue, Task, IInv, TypeOK
  <2> QED
    BY <1>5, <2>1, <2>2, <2>3 DEF RecordTrue
<1> QED
  BY <1>5, <1>6, <1>7, <1>9, <1>10, <1>11, <1>12 DEF IInv, SecondsPass

LEMMA DieStep ==
  ASSUME IInv, NEW p \in Proc, Die(p)
  PROVE  IInv'
<1>1. /\ CallOf(p, Idle) /\ Idle.at = "idle" /\ ActiveOf(p) /\ active'[p] = NoTask
      /\ died' \subseteq Proc
      /\ UNCHANGED <<rec, gpu, child, second, stamped, submits>>
  BY DEF IInv, TypeOK, Die, CallOf, ActiveOf, Idle, Step
<1>2. CallTrue(p)' /\ ActiveTrue(p)'
  BY <1>1 DEF CallOf, CallTrue, ActiveTrue
<1> QED
  BY <1>1, <1>2, LookStep

-----------------------------------------------------------------------------

LEMMA InitInv == Init => IInv
<1> SUFFICES ASSUME Init PROVE IInv
  OBVIOUS
<1>1. TypeOK
  <2>1. /\ Idle \in [at: Step, id: Task \cup {0}, copy: Record \cup {NoTask}]
        /\ Free \in [lease: 0 .. MaxSubmits, left: 0 .. Ttl]
    BY TaskAssumption DEF Idle, Free, Step
  <2>2. [state |-> "none", age |-> 0] \in [state: {"none", "running", "ended"}, age: 0 .. MaxRun]
    BY TaskAssumption
  <2>3. child \in [Run -> [state: {"none", "running", "ended"}, age: 0 .. MaxRun]]
    BY <2>2 DEF Init
  <2>4. /\ rec \in [Task -> Record \cup {NoTask}]
        /\ active \in [Proc -> [id: Task, run: Run] \cup {NoTask}]
        /\ call \in [Proc -> [at: Step, id: Task \cup {0}, copy: Record \cup {NoTask}]]
    BY <2>1 DEF Init
  <2>5. second \in 1 .. MaxSubmits + 1 /\ submits \in 0 .. MaxSubmits
    <3>1. second = 1 /\ submits = 0
      BY DEF Init
    <3> QED
      BY <3>1, TaskAssumption
  <2>6. stamped \in BOOLEAN /\ died \subseteq Proc
    BY DEF Init
  <2> QED
    BY <2>1, <2>3, <2>4, <2>5, <2>6 DEF Init, TypeOK
<1>2. StartersAreAlone
  BY DEF Init, StartersAreAlone, Starter, Starting, Idle
<1>3. RunsHaveTheLease /\ SecondsPass
  BY DEF Init, RunsHaveTheLease, SecondsPass, Begun
<1>4. \A i \in Task : RecordTrue(i)
  BY DEF Init, RecordTrue
<1>5. \A p \in Proc : CallTrue(p) /\ ActiveTrue(p)
  BY DEF Init, CallTrue, ActiveTrue, Idle
<1> QED
  BY <1>1, <1>2, <1>3, <1>4, <1>5 DEF IInv

\* Every step keeps the inductive invariant.
LEMMA StepInv ==
  ASSUME NothingRare, IInv, [Next]_vars
  PROVE  IInv'
<1>1. ASSUME NEW p \in Proc, Start(p) PROVE IInv'
  BY <1>1, PollReadStep, AcquireLeaseStep, StatusStep, CancelStep DEF Start
<1>2. ASSUME NEW p \in Proc, Proceed(p) PROVE IInv'
  BY <1>2, PollWriteStep, PollReleaseStep, NothingMoreStep, WriteRecordStep, SpawnStep,
     SpawnFailsStep, WritePidStep, HoldStep, WaitedStep, FinishStep, ReleaseStep,
     StatusSaveStep DEF Proceed
<1>3. ASSUME NEW p \in Proc, Die(p) PROVE IInv'
  BY <1>3, DieStep
<1>4. ASSUME NEW k \in Run, Exit(k) PROVE IInv'
  BY <1>4, ExitStep
<1>5. ASSUME Tick PROVE IInv'
  BY <1>5, TickStep
<1>6. ASSUME UNCHANGED vars PROVE IInv'
  BY <1>6 DEF vars, IInv, TypeOK, StartersAreAlone, Starter, Starting, RunsHaveTheLease,
     SecondsPass, RecordTrue, CallTrue, ActiveTrue, Writes, Polls, Runs, Gone, Begun
<1> QED
  BY <1>1, <1>2, <1>3, <1>4, <1>5, <1>6 DEF Next

LEMMA AlwaysInv ==
  ASSUME NothingRare
  PROVE  Spec => []IInv
<1>1. Init => IInv
  BY InitInv
<1>2. IInv /\ [Next]_vars => IInv'
  BY StepInv
<1> QED
  BY <1>1, <1>2, PTL DEF Spec

\* The types of the tasks, for any number of processes and submissions.
THEOREM TasksAreTyped ==
  ASSUME NothingRare
  PROVE  Spec => []TypeOK
<1>1. IInv => TypeOK
  BY DEF IInv
<1> QED
  BY <1>1, AlwaysInv, PTL

\* One job at a time is on the GPU: task_submit takes the lease without force,
\* and nothing that gives it back can be acting on a child that still runs.
THEOREM JobsDontOverlap ==
  ASSUME NothingRare
  PROVE  Spec => []RunsDontOverlap
<1>1. IInv => RunsDontOverlap
  BY DEF IInv, RunsHaveTheLease, RunsDontOverlap
<1> QED
  BY <1>1, AlwaysInv, PTL

-----------------------------------------------------------------------------
(* Who has the lease *)

\* A call that submits, and has yet to make its task the active one.
Submitting(p) == call[p].at \in {"record", "spawn", "pid", "wait", "hold"}

\* p gives lease n back when its call ends, or when the child it waits for does.
Owner(p, n) ==
    \/ active[p] # NoTask /\ active[p].run = n
    \/ (Submitting(p) \/ call[p].at \in {"finish", "release"}) /\ call[p].copy.lease = n

\* Nobody submits while a task of its own is active, and a live lease has an owner.
LeaseIsOwned ==
    /\ \A p \in Proc : Submitting(p) => active[p] = NoTask
    /\ gpu.lease # 0 /\ gpu.left > 0 /\ died = {} => \E p \in Proc : Owner(p, gpu.lease)

\* A step of p that keeps the lease it owns, or gives it back.
LEMMA OwnerStays ==
  ASSUME LeaseIsOwned, NEW p \in Proc,
         \A q \in Proc \ {p} : call'[q] = call[q] /\ active'[q] = active[q],
         Submitting(p)' => active'[p] = NoTask,
         gpu' = gpu \/ gpu'.lease = 0,
         gpu'.lease # 0 /\ Owner(p, gpu.lease) => Owner(p, gpu.lease)',
         died' = died
  PROVE  LeaseIsOwned'
<1>1. \A q \in Proc : Submitting(q)' => active'[q] = NoTask
  BY DEF LeaseIsOwned, Submitting
<1>2. ASSUME gpu'.lease # 0, gpu'.left > 0, died' = {}
      PROVE  \E q \in Proc : Owner(q, gpu.lease)'
  <2>1. gpu' = gpu
    BY <1>2
  <2>2. PICK q \in Proc : Owner(q, gpu.lease)
    BY <1>2, <2>1 DEF LeaseIsOwned
  <2>3. CASE q = p
    BY <1>2, <2>2, <2>3
  <2>4. CASE q # p
    <3>1. call'[q] = call[q] /\ active'[q] = active[q]
      BY <2>4
    <3>2. Owner(q, gpu.lease)'
      BY <2>1, <2>2, <3>1 DEF Owner, Submitting
    <3> QED
      BY <3>2
  <2> QED
    BY <2>3, <2>4
<1>3. gpu'.lease # 0 => gpu' = gpu
  OBVIOUS
<1> QED
  BY <1>1, <1>2, <1>3 DEF LeaseIsOwned, Owner, Submitting

\* A lease that is given back is nobody's, or was another's.
LEMMA ReleaseFrees ==
  ASSUME NEW n, gpu' = Released(n)
  PROVE  (gpu' = gpu \/ gpu'.lease = 0) /\ (gpu.lease = n => gpu'.lease = 0)
BY DEF Released, Free

\* A call that begins.
LEMMA OwnerAtStart ==
  ASSUME IInv, LeaseIsOwned, NEW p \in Proc, Start(p)
  PROVE  LeaseIsOwned'
<1>0. call[p] \in [at: Step, id: Task \cup {0}, copy: Record \cup {NoTask}] /\ Idle.at = "idle"
  BY DEF IInv, TypeOK, Idle
<1>1. CASE PollRead(p)
  <2>1. /\ call[p] = Idle /\ UNCHANGED <<gpu, active, died>>
        /\ \A q \in Proc \ {p} : call'[q] = call[q]
        /\ call'[p].at \in {"poll", "pollend"}
    BY <1>1 DEF PollRead, Idle, IInv, TypeOK
  <2>2. ~ Submitting(p) /\ ~ Submitting(p)'
    BY <1>0, <2>1 DEF Submitting
  <2>3. Owner(p, gpu.lease) => Owner(p, gpu.lease)'
    BY <1>0, <2>1, <2>2 DEF Owner
  <2> QED
    BY <2>1, <2>2, <2>3, OwnerStays
<1>2. CASE AcquireLease(p)
  <2>1. /\ active[p] = NoTask /\ LeaseFree /\ UNCHANGED <<active, died>>
        /\ gpu' = [lease |-> submits + 1, left |-> Ttl]
        /\ \A q \in Proc \ {p} : call'[q] = call[q]
        /\ call'[p].at = "record" /\ call'[p].copy.lease = submits + 1
    BY <1>2 DEF AcquireLease, IInv, TypeOK
  <2>2. Owner(p, gpu.lease)'
    BY <2>1 DEF Owner, Submitting
  <2>3. \A q \in Proc : Submitting(q)' => active'[q] = NoTask
    BY <2>1 DEF LeaseIsOwned, Submitting
  <2> QED
    BY <2>2, <2>3 DEF LeaseIsOwned
<1>3. ASSUME NEW id \in Task, Status(p, id)
      PROVE  LeaseIsOwned'
  <2>1. /\ Polled(p) /\ UNCHANGED <<gpu, active, died>>
        /\ \A q \in Proc \ {p} : call'[q] = call[q]
        /\ call'[p].at = "save"
    BY <1>3 DEF Status, IInv, TypeOK
  <2>2. call[p].at \in {"idle", "polled"}
    BY <1>0, <2>1 DEF Polled
  <2>3. ~ Submitting(p)'
    BY <2>1 DEF Submitting
  <2>4. Owner(p, gpu.lease) => Owner(p, gpu.lease)'
    BY <2>1, <2>2 DEF Owner, Submitting
  <2> QED
    BY <2>1, <2>3, <2>4, OwnerStays
<1>4. ASSUME NEW id \in Task, Cancel(p, id)
      PROVE  LeaseIsOwned'
  <2>1. /\ call[p] = Idle /\ UNCHANGED <<gpu, died>>
        /\ \A q \in Proc \ {p} : call'[q] = call[q] /\ active'[q] = active[q]
        /\ call'[p].at = "finish" /\ call'[p].copy = [rec[id] EXCEPT !.status = "cancelled"]
        /\ active'[p] = IF Own(p, id) THEN NoTask ELSE active[p]
    BY <1>4 DEF Cancel, IInv, TypeOK
  <2>2. ~ Submitting(p)' /\ ~ Submitting(p) /\ call[p].at = "idle"
    BY <1>0, <2>1 DEF Submitting
  <2>3. CASE Own(p, id)
    <3>1. rec[id] \in Record /\ rec[id].lease = active[p].run
      BY <2>3 DEF IInv, TypeOK, Own, ActiveTrue
    <3>2. call'[p].copy.lease = active[p].run
      BY <2>1, <3>1 DEF Record
    <3>3. Owner(p, gpu.lease) => Owner(p, gpu.lease)'
      BY <2>1, <2>2, <3>2 DEF Owner
    <3> QED
      BY <2>1, <2>2, <3>3, OwnerStays
  <2>4. CASE ~ Own(p, id)
    <3>1. Owner(p, gpu.lease) => Owner(p, gpu.lease)'
      BY <2>1, <2>2, <2>4 DEF Owner
    <3> QED
      BY <2>1, <2>2, <3>1, OwnerStays
  <2> QED
    BY <2>3, <2>4
<1> QED
  BY <1>1, <1>2, <1>3, <1>4 DEF Start

\* A call that goes on.
LEMMA OwnerProceeds ==
  ASSUME IInv, LeaseIsOwned, NEW p \in Proc, Proceed(p)
  PROVE  LeaseIsOwned'
<1>0. /\ call[p] \in [at: Step, id: Task \cup {0}, copy: Record \cup {NoTask}] /\ Idle.at = "idle"
      /\ Idle.copy = NoTask /\ CallTrue(p) /\ (Submitting(p) => active[p] = NoTask)
  BY DEF IInv, TypeOK, Idle, LeaseIsOwned
<1>1. CASE PollWrite(p) \/ NothingMore(p) \/ StatusSave(p)
  <2>1. /\ UNCHANGED <<gpu, active, died>>
        /\ \A q \in Proc \ {p} : call'[q] = call[q]
        /\ call[p].at \in {"poll", "pollend", "polled", "save"}
        /\ call'[p].at \in {"pollrelease", "polled", "idle"}
    BY <1>1, <1>0 DEF PollWrite, NothingMore, StatusSave, Done, Goto, Idle, IInv, TypeOK
  <2>2. ~ Submitting(p)'
    BY <2>1 DEF Submitting
  <2>3. Owner(p, gpu.lease) => Owner(p, gpu.lease)'
    BY <2>1 DEF Owner, Submitting
  <2> QED
    BY <2>1, <2>2, <2>3, OwnerStays
<1>2. CASE PollRelease(p)
  <2>1. /\ gpu' = Released(call[p].copy.lease) /\ call[p].at = "pollrelease" /\ died' = died
        /\ \A q \in Proc \ {p} : call'[q] = call[q] /\ active'[q] = active[q]
        /\ call'[p].at = "polled" /\ active'[p] = NoTask
    BY <1>2 DEF PollRelease, Idle, IInv, TypeOK
  <2>2. active[p] # NoTask /\ call[p].copy.lease = active[p].run
    BY <1>0, <2>1 DEF CallTrue, Polls
  <2>3. Owner(p, gpu.lease) => gpu'.lease = 0
    BY <2>1, <2>2, ReleaseFrees DEF Owner, Submitting
  <2>4. gpu' = gpu \/ gpu'.lease = 0
    BY <2>1, ReleaseFrees
  <2>5. ~ Submitting(p)'
    BY <2>1 DEF Submitting
  <2> QED
    BY <2>1, <2>3, <2>4, <2>5, OwnerStays
<1>3. CASE WriteRecord(p) \/ Spawn(p) \/ WritePid(p) \/ Waited(p) \/ Finish(p)
  <2>1. call[p].copy \in Record
    BY <1>0, <1>3 DEF WriteRecord, Spawn, WritePid, Waited, Finish, CallTrue, Writes, IInv,
                      StartersAreAlone, Starter, Starting
  <2>2. /\ UNCHANGED <<gpu, active, died>>
        /\ \A q \in Proc \ {p} : call'[q] = call[q]
    BY <1>3 DEF WriteRecord, Spawn, WritePid, Waited, Finish, Goto, IInv, TypeOK
  <2>3. \/ Submitting(p) /\ call'[p].at \in {"spawn", "pid", "wait", "hold", "finish"}
        \/ call[p].at = "finish" /\ call'[p].at = "release"
    BY <1>3 DEF WriteRecord, Spawn, WritePid, Waited, Finish, Goto, IInv, TypeOK, Submitting
  <2>4. call'[p].copy.lease = call[p].copy.lease
    <3>1. CASE Spawn(p)
      <4>1. call'[p].copy = [call[p].copy EXCEPT !.run = call[p].copy.lease]
        BY <3>1 DEF Spawn, IInv, TypeOK
      <4> QED
        BY <2>1, <4>1 DEF Record
    <3>2. CASE Waited(p)
      <4>1. call'[p].copy = [call[p].copy EXCEPT !.status = "ended"]
        BY <3>2 DEF Waited, IInv, TypeOK
      <4> QED
        BY <2>1, <4>1 DEF Record
    <3>3. CASE WriteRecord(p) \/ WritePid(p) \/ Finish(p)
      BY <3>3 DEF WriteRecord, WritePid, Finish, Goto, IInv, TypeOK
    <3> QED
      BY <1>3, <3>1, <3>2, <3>3
  <2>5. Owner(p, gpu.lease) => Owner(p, gpu.lease)'
    BY <2>2, <2>3, <2>4 DEF Owner, Submitting
  <2>6. Submitting(p)' => active'[p] = NoTask
    BY <1>0, <2>2, <2>3 DEF Submitting
  <2> QED
    BY <2>2, <2>5, <2>6, OwnerStays
<1>4. CASE SpawnFails(p) \/ Release(p)
  <2>1. /\ gpu' = Released(call[p].copy.lease) /\ call[p].at \in {"spawn", "release"}
        /\ UNCHANGED <<active, died>>
        /\ \A q \in Proc \ {p} : call'[q] = call[q]
        /\ call'[p].at = "idle"
    BY <1>0, <1>4 DEF SpawnFails, Release, Done, IInv, TypeOK
  <2>2. gpu'.lease # 0 => gpu.lease # call[p].copy.lease
    BY <2>1, ReleaseFrees
  <2>3. gpu' = gpu \/ gpu'.lease = 0
    BY <2>1, ReleaseFrees
  <2>4. gpu'.lease # 0 /\ Owner(p, gpu.lease) => Owner(p, gpu.lease)'
    BY <2>1, <2>2, <2>3 DEF Owner
  <2>5. ~ Submitting(p)'
    BY <2>1 DEF Submitting
  <2> QED
    BY <2>1, <2>3, <2>4, <2>5, OwnerStays
<1>5. CASE Hold(p)
  <2>1. /\ UNCHANGED <<gpu, died>> /\ call[p].at = "hold"
        /\ \A q \in Proc \ {p} : call'[q] = call[q] /\ active'[q] = active[q]
        /\ call'[p].at = "idle"
        /\ active'[p] = [id |-> call[p].id, run |-> call[p].copy.run]
    BY <1>0, <1>5 DEF Hold, Done, IInv, TypeOK
  <2>2. active[p] = NoTask /\ Writes(p) /\ Runs(p)
    BY <1>0, <2>1 DEF Submitting, CallTrue
  <2>3. call[p].id \in Task /\ call[p].copy \in Record /\ call[p].copy.run = call[p].copy.lease
    BY <1>0, <2>2 DEF Writes, Runs
  <2>4. active'[p] # NoTask /\ active'[p].run = call[p].copy.lease
    BY <2>1, <2>3, TaskAssumption DEF Record, Task, Run
  <2>5. Owner(p, gpu.lease) => Owner(p, gpu.lease)'
    BY <2>1, <2>2, <2>4 DEF Owner
  <2>6. ~ Submitting(p)'
    BY <2>1 DEF Submitting
  <2> QED
    BY <2>1, <2>5, <2>6, OwnerStays
<1> QED
  BY <1>1, <1>2, <1>3, <1>4, <1>5 DEF Proceed

\* A live lease is somebody's who will give it back, unless a process has died.
THEOREM LeasesHaveOwners ==
  ASSUME NothingRare
  PROVE  Spec => []LeaseHasAnOwner
<1>1. Init => LeaseIsOwned
  BY DEF Init, LeaseIsOwned, Submitting, Free, Idle
<1>2. IInv /\ LeaseIsOwned /\ [Next]_vars => LeaseIsOwned'
  <2> SUFFICES ASSUME IInv, LeaseIsOwned, [Next]_vars PROVE LeaseIsOwned'
    OBVIOUS
  <2>1. ASSUME NEW p \in Proc, Die(p) PROVE LeaseIsOwned'
    <3>1. /\ UNCHANGED gpu /\ died' = died \cup {p}
          /\ \A q \in Proc \ {p} : call'[q] = call[q] /\ active'[q] = active[q]
          /\ active'[p] = NoTask
      BY <2>1 DEF Die, IInv, TypeOK
    <3>2. died' # {}
      BY <3>1
    <3> QED
      BY <3>1, <3>2 DEF LeaseIsOwned, Submitting
  <2>2. ASSUME NEW k \in Run, Exit(k) PROVE LeaseIsOwned'
    BY <2>2 DEF Exit, LeaseIsOwned, Owner, Submitting
  <2>3. ASSUME Tick PROVE LeaseIsOwned'
    <3>1. /\ UNCHANGED <<active, call, died>> /\ gpu'.lease = gpu.lease
          /\ gpu'.left > 0 => gpu.left > 0
      BY <2>3, TaskAssumption DEF Tick, LeaseLeft, IInv, TypeOK
    <3> QED
      BY <3>1 DEF LeaseIsOwned, Owner, Submitting
  <2>4. ASSUME UNCHANGED vars PROVE LeaseIsOwned'
    BY <2>4 DEF vars, LeaseIsOwned, Owner, Submitting
  <2> QED
    BY <2>1, <2>2, <2>3, <2>4, OwnerAtStart, OwnerProceeds DEF Next
<1>3. IInv /\ LeaseIsOwned => LeaseHasAnOwner
  <2> SUFFICES ASSUME IInv, NEW p \in Proc, Owner(p, gpu.lease)
               PROVE  \/ call[p].copy # NoTask /\ call[p].copy.lease = gpu.lease
                      \/ active[p] # NoTask /\ active[p].run = gpu.lease
    BY DEF LeaseIsOwned, LeaseHasAnOwner
  <2>1. Submitting(p) \/ call[p].at \in {"finish", "release"} => call[p].copy # NoTask
    BY DEF IInv, CallTrue, Writes, StartersAreAlone, Starter, Starting, Submitting
  <2> QED
    BY <2>1 DEF Owner
<1> QED
  BY <1>1, <1>2, <1>3, AlwaysInv, PTL DEF Spec
=============================================================================
