------------------------------ MODULE RuntimeHub ------------------------------
(***************************************************************************)
(* The wiki server's view of a running process: a snapshot that is taken    *)
(* anew every two seconds and on request, parts of it that helpers post     *)
(* (overlays), and a stream of what has changed for the pages that watch.   *)
(* Its captures are in RuntimeCaptures.                                     *)
(*                                                                         *)
(* All of it is behind one lock.  What has changed is worked out under the  *)
(* lock and sent after it: two threads may send in the other order.  The    *)
(* channel keeps the last value only, and a page that is slower than the    *)
(* hub is not given what was in between.                                    *)
(*                                                                         *)
(* A snapshot has a census, of the process it was taken of, and an overlay; *)
(* the fields that nobody but a refresh sets go with the census.            *)
(***************************************************************************)
EXTENDS Naturals, FiniteSets

CONSTANTS
    Thread,         \* threads that refresh and ingest
    Viewer,         \* pages that watch
    Pid,            \* processes to attach to, and
    Own,            \* the server's own, which it starts with
    Reading,        \* what a census may find
    None,           \* no overlay
    MaxSeq          \* bound: snapshots

VARIABLES
    seq, pid, snapshot, overlay,
    sending,    \* per thread, the delta it has to send
    channel,    \* the last delta that was sent, and how many there were
    viewer,     \* per page, its copy of the snapshot and how far it has listened
    missed      \* history: pages that were not given a delta, or not in order

vars == <<seq, pid, snapshot, overlay, sending, channel, viewer, missed>>

hubVars    == <<seq, pid, snapshot, overlay>>
streamVars == <<channel, viewer>>

NoDelta == [seq |-> 0, changed |-> {}, to |-> [seq |-> 0]]

-----------------------------------------------------------------------------
\* Mutant: only what the new snapshot has is compared.
stream_delta_present(was, is) ==
    [seq |-> is.seq, to |-> is,
     changed |-> {field \in DOMAIN is : was[field] # is[field] /\ is[field] # None}]

\* The fields that differ, with their new values; one that is gone is sent as null.
stream_delta(was, is) ==
    [seq |-> is.seq, to |-> is, changed |-> {field \in DOMAIN is : was[field] # is[field]}]

\* The lock is given back with the new snapshot in place.
Publish(t, is) ==
    /\ snapshot' = is
    /\ sending' = [sending EXCEPT ![t] = stream_delta(snapshot, is)]

-----------------------------------------------------------------------------
(* refresh *)

\* An overlay of the process that is attached is merged while it is fresh.
Refresh(t) ==
    /\ sending[t] = NoDelta
    /\ seq < MaxSeq
    /\ seq' = seq + 1
    /\ \E found \in Reading,
          merged \in {None} \cup (IF overlay # None /\ overlay.of = pid
                                  THEN {overlay} ELSE {}) :
          Publish(t, [seq |-> seq + 1, census |-> [of |-> pid, found |-> found],
                      overlay |-> merged])
    /\ UNCHANGED <<pid, overlay, channel, viewer, missed>>

-----------------------------------------------------------------------------
(* ingest, set_attach_pid *)

\* The overlay is kept, and merged into the snapshot if it is of the process that
\* is attached, whatever process the snapshot is of.
IngestOverlay(t, p, what) ==
    /\ sending[t] = NoDelta
    /\ seq < MaxSeq
    /\ seq' = seq + 1
    /\ overlay' = [of |-> p, is |-> what]
    /\ Publish(t, [snapshot EXCEPT !.seq = seq + 1,
                                   !.overlay = IF p = pid THEN overlay' ELSE @])
    /\ UNCHANGED <<pid, streamVars, missed>>

\* A section of the overlay is not an object: a number is used up, and nothing else.
IngestBad(t) ==
    /\ sending[t] = NoDelta
    /\ seq < MaxSeq
    /\ seq' = seq + 1
    /\ UNCHANGED <<pid, snapshot, overlay, sending, streamVars, missed>>

\* A whole snapshot takes the place of the one there is.
IngestSnapshot(t, p, found) ==
    /\ sending[t] = NoDelta
    /\ seq < MaxSeq
    /\ seq' = seq + 1
    /\ Publish(t, [seq |-> seq + 1, census |-> [of |-> p, found |-> found],
                   overlay |-> None])
    /\ UNCHANGED <<pid, overlay, streamVars, missed>>

\* The request refreshes after it.
set_attach_pid(p) ==
    /\ p # pid
    /\ pid' = p
    /\ overlay' = None
    /\ UNCHANGED <<seq, snapshot, sending, streamVars, missed>>

-----------------------------------------------------------------------------
(* runtime_stream *)

\* send_replace.  A page that is still to be given the last delta will not be.
Send(t) ==
    /\ sending[t] # NoDelta
    /\ channel' = [last |-> sending[t], sent |-> channel.sent + 1]
    /\ sending' = [sending EXCEPT ![t] = NoDelta]
    /\ missed' = missed \cup {v \in Viewer :
                    \/ viewer[v].step = "looked" /\ sending[t].seq # viewer[v].copy.seq
                    \/ viewer[v].step = "watching" /\ viewer[v].heard < channel.sent}
    /\ UNCHANGED <<hubVars, viewer>>

\* The request takes a copy of the snapshot, and then subscribes; what is in the
\* channel when the stream is first polled is skipped.
Look(v) ==
    /\ viewer[v].step = "away"
    /\ viewer' = [viewer EXCEPT ![v] = [step |-> "looked", copy |-> snapshot, heard |-> 0]]
    /\ missed' = missed \ {v}
    /\ UNCHANGED <<hubVars, sending, channel>>

Listen(v) ==
    /\ viewer[v].step = "looked"
    /\ viewer' = [viewer EXCEPT ![v].step = "watching", ![v].heard = channel.sent]
    /\ UNCHANGED <<hubVars, sending, channel, missed>>

\* The page puts what has changed into its copy.
Receive(v) ==
    LET delta == channel.last
    IN  /\ viewer[v].step = "watching" /\ viewer[v].heard < channel.sent
        /\ viewer' = [viewer EXCEPT
                        ![v].heard = channel.sent,
                        ![v].copy = [field \in DOMAIN @ |->
                            IF field \in delta.changed THEN delta.to[field] ELSE @[field]]]
        /\ missed' = IF delta.seq < viewer[v].copy.seq THEN missed \cup {v} ELSE missed
        /\ UNCHANGED <<hubVars, sending, channel>>

Leave(v) ==
    /\ viewer[v].step # "away"
    /\ viewer' = [viewer EXCEPT ![v].step = "away"]
    /\ UNCHANGED <<hubVars, sending, channel, missed>>

-----------------------------------------------------------------------------
\* The server is stopped and started.
Restart ==
    /\ seq # 0
    /\ seq' = 0
    /\ pid' = Own
    /\ snapshot' = [seq |-> 0, census |-> None, overlay |-> None]
    /\ overlay' = None
    /\ sending' = [t \in Thread |-> NoDelta]
    /\ channel' = [last |-> NoDelta, sent |-> 0]
    /\ viewer' = [v \in Viewer |-> [step |-> "away", copy |-> snapshot', heard |-> 0]]
    /\ missed' = {}

-----------------------------------------------------------------------------
Init ==
    /\ seq = 0
    /\ pid = Own
    /\ snapshot = [seq |-> 0, census |-> None, overlay |-> None]
    /\ overlay = None
    /\ sending = [t \in Thread |-> NoDelta]
    /\ channel = [last |-> NoDelta, sent |-> 0]
    /\ viewer = [v \in Viewer |-> [step |-> "away", copy |-> snapshot, heard |-> 0]]
    /\ missed = {}

Next ==
    \/ \E t \in Thread :
          \/ Refresh(t) \/ IngestBad(t) \/ Send(t)
          \/ \E p \in Pid, what \in Reading : IngestOverlay(t, p, what) \/ IngestSnapshot(t, p, what)
    \/ \E p \in Pid : set_attach_pid(p)
    \/ \E v \in Viewer : Look(v) \/ Listen(v) \/ Receive(v) \/ Leave(v)
    \/ Restart

Spec == Init /\ [][Next]_vars

-----------------------------------------------------------------------------
(* Properties *)

\* A page that has been given every delta, in order, has the snapshot, whether
\* what changed was a census, an overlay that came or one that went.
ViewerAgrees ==
    \A v \in Viewer :
        /\ viewer[v].step = "watching" /\ v \notin missed
        /\ viewer[v].heard = channel.sent
        /\ \A t \in Thread : sending[t] = NoDelta
        => viewer[v].copy = snapshot
=============================================================================
