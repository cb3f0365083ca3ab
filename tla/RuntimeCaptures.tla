--------------------------- MODULE RuntimeCaptures ---------------------------
(***************************************************************************)
(* Captures of the runtime hub: while one runs, every refresh appends the   *)
(* snapshot to its file; a description beside the file, written when the    *)
(* capture starts and when it ends, counts the samples.  All of it happens  *)
(* under the lock of the hub, but each write may fail, and what was written *)
(* before stays.                                                            *)
(*                                                                         *)
(* A capture is named by the time it was started.  An append that fails     *)
(* leaves nothing in the file.                                              *)
(***************************************************************************)
EXTENDS Naturals, FiniteSets

CONSTANTS
    MaxCaptures,    \* captures kept (16 in the code)
    MaxSamples,     \* samples of a capture (1800 in the code)
    MaxStarts       \* bound: captures that are started

VARIABLES
    capture,    \* the capture that runs, 0 for none, and the samples it counts
    files,      \* captures that have a file
    lines,      \* per capture, the samples in its file
    meta,       \* per capture, the samples its description counts; NoMeta without one
    starts,
    available,  \* the hub has a snapshot to show
    failed      \* history: captures whose description could not be written

vars == <<capture, files, lines, meta, starts, available, failed>>

CaptureId == 1 .. MaxStarts

NoMeta == MaxSamples + 1

NoCapture == [id |-> 0, samples |-> 0]

\* write_capture_meta, which may fail.
write_capture_meta(c, samples) ==
    \/ meta' = [meta EXCEPT ![c] = samples] /\ UNCHANGED failed
    \/ failed' = failed \cup {c} /\ UNCHANGED meta

-----------------------------------------------------------------------------
\* Mutant: as many as may be kept are kept, and then one is added.
prune_captures_one(ids) == {c \in ids : Cardinality({d \in ids : d > c}) < MaxCaptures}

\* Room is made for one more.  The oldest go; appends come to one capture at a time,
\* so their files are in the order of their starts.
prune_captures(ids) == {c \in ids : Cardinality({d \in ids : d > c}) < MaxCaptures - 1}

\* The file is made and gets the snapshot as its first sample.  If the first fails
\* there is none; if the sample or the description fails, there is no capture.
StartCapture ==
    LET c == starts + 1
        first == IF available THEN 1 ELSE 0
    IN  /\ capture = NoCapture /\ starts < MaxStarts
        /\ starts' = c
        /\ \/ /\ files' = prune_captures(files)
              /\ UNCHANGED <<lines, meta, capture, failed>>
           \/ /\ files' = prune_captures(files) \cup {c}
              /\ lines' = [lines EXCEPT ![c] = first]
              /\ write_capture_meta(c, first)
              /\ capture' = IF c \in failed' THEN capture ELSE [id |-> c, samples |-> first]
           \/ /\ available
              /\ files' = prune_captures(files) \cup {c}
              /\ failed' = failed \cup {c}
              /\ UNCHANGED <<lines, meta, capture>>
        /\ UNCHANGED available

Full(samples) == samples >= MaxSamples

\* refresh.  The sample is appended or is dropped; the last one ends the capture.
Refresh ==
    /\ available' = TRUE
    /\ IF capture = NoCapture
       THEN UNCHANGED <<capture, lines, meta, failed>>
       ELSE \E more \in {0, 1} :
              /\ lines' = [lines EXCEPT ![capture.id] = @ + more]
              /\ IF Full(capture.samples + more)
                 THEN /\ capture' = NoCapture
                      /\ write_capture_meta(capture.id, capture.samples + more)
                 ELSE /\ capture' = [capture EXCEPT !.samples = @ + more]
                      /\ UNCHANGED <<meta, failed>>
    /\ UNCHANGED <<files, starts>>

StopCapture ==
    /\ capture # NoCapture
    /\ write_capture_meta(capture.id, capture.samples)
    /\ capture' = NoCapture
    /\ UNCHANGED <<files, lines, starts, available>>

\* The server is stopped and started: a capture that ran is not ended.
Restart ==
    /\ failed' = IF capture = NoCapture THEN failed ELSE failed \cup {capture.id}
    /\ capture' = NoCapture
    /\ available' = FALSE
    /\ UNCHANGED <<files, lines, meta, starts>>

-----------------------------------------------------------------------------
Init ==
    /\ capture = NoCapture
    /\ files = {}
    /\ lines = [c \in CaptureId |-> 0]
    /\ meta = [c \in CaptureId |-> NoMeta]
    /\ starts = 0
    /\ available = FALSE
    /\ failed = {}

Next == StartCapture \/ Refresh \/ StopCapture \/ Restart

Spec == Init /\ [][Next]_vars

-----------------------------------------------------------------------------
(* Properties *)

\* There are never more captures than are kept, none is longer than it may be, the
\* one that runs is not pruned, and one that has ended with no failing write says
\* how many samples it has.
CapturesAreKept ==
    /\ Cardinality(files) <= MaxCaptures
    /\ capture # NoCapture => capture.id \in files
    /\ \A c \in files :
          /\ lines[c] <= MaxSamples
          /\ c # capture.id /\ c \notin failed => meta[c] = lines[c]
=============================================================================
