------------------------------ MODULE MCServices ------------------------------
(***************************************************************************)
(* Small instances of the parts of the program that share no state with     *)
(* one another: the caches, the scans, the wiki's indexer, the idea board,  *)
(* the documents of a workspace, the runtime hub and its captures.  A       *)
(* behaviour is one of one part, the others stay where they start.          *)
(***************************************************************************)
EXTENDS MtimeCache, Bellator

CONSTANTS
    Path, MaxChanges, MaxDirs, MaxFaults,                   \* the indexer
    Writer, MaxCalls,                                       \* ideas, documents
    Title, NoIdea, MaxSlug,                                 \* ideas
    RunId, MaxRuns,                                         \* documents
    Thread, Viewer, Pid, Own, Reading, None, MaxSeq,        \* the hub
    MaxCaptures, MaxSamples, MaxStarts                      \* its captures

VARIABLES
    which,      \* the part that is at work
    page, index, disk, hand, pass, events, changes, dirs, faults, lost, dropped,
    idea, ledger, marks, board, edits, alone, agreed,
    docs, temp, desk, updates, acked, begun, latch, collided,
    seq, pid, snapshot, overlay, sending, channel, viewer, missed,
    capture, captured, lines, meta, starts, available, failed

Index == INSTANCE WikiIndex WITH file <- page
Ideas == INSTANCE Shrift WITH at <- board, calls <- edits
Docs  == INSTANCE WorkspaceDocs WITH at <- desk, calls <- updates
Hub   == INSTANCE RuntimeHub
Captures == INSTANCE RuntimeCaptures WITH files <- captured

indexVars == <<page, index, disk, hand, pass, events, changes, dirs, faults, lost, dropped>>
ideaVars  == <<idea, ledger, marks, board, edits, alone, agreed>>
docVars   == <<docs, temp, desk, updates, acked, begun, latch, collided>>
hubVars   == <<seq, pid, snapshot, overlay, sending, channel, viewer, missed,
               capture, captured, lines, meta, starts, available, failed>>

allVars == <<which, vars, scanVars, indexVars, ideaVars, docVars, hubVars>>

-----------------------------------------------------------------------------
\* The part that is at work steps, and the others do not.
InCache(A) ==
    which = "cache" /\ A /\ UNCHANGED <<which, scanVars, indexVars, ideaVars, docVars, hubVars>>
InScans(A) ==
    which = "scans" /\ A /\ UNCHANGED <<which, vars, indexVars, ideaVars, docVars, hubVars>>
InIndex(A) ==
    which = "index" /\ A /\ UNCHANGED <<which, vars, scanVars, ideaVars, docVars, hubVars>>
InIdeas(A) ==
    which = "ideas" /\ A /\ UNCHANGED <<which, vars, scanVars, indexVars, docVars, hubVars>>
InDocs(A) ==
    which = "docs" /\ A /\ UNCHANGED <<which, vars, scanVars, indexVars, ideaVars, hubVars>>

OthersStay == UNCHANGED <<which, vars, scanVars, indexVars, ideaVars, docVars>>

InHub(A) ==
    /\ which = "hub" /\ A /\ OthersStay
    /\ UNCHANGED <<capture, captured, lines, meta, starts, available, failed>>
InCaptures(A) ==
    /\ which = "captures" /\ A /\ OthersStay
    /\ UNCHANGED <<seq, pid, snapshot, overlay, sending, channel, viewer, missed>>

CacheStep ==
    \/ \E f \in File : InCache(Touch(f))
    \/ \E p \in Reader : InCache(load_path(p)) \/ InCache(Save(p)) \/ InCache(End(p))
    \/ \E p \in Reader, f \in File :
          \/ InCache(Stat(p, f)) \/ InCache(Get(p, f)) \/ InCache(Read(p, f))
          \/ InCache(Put(p, f)) \/ InCache(Invalidate(p, f))

ScanStep ==
    \/ \E c \in Client :
          \/ InScans(Swap(c)) \/ InScans(Clear(c)) \/ InScans(Refuse(c))
          \/ InScans(Spawn(c)) \/ InScans(Refresh(c)) \/ InScans(Refreshed(c))
    \/ \E r \in Scan :
          \/ InScans(Begin(r)) \/ InScans(Check(r)) \/ InScans(RunnerEnds(r))
          \/ InScans(GiveBack(r))
    \/ InScans(Seed) \/ InScans(Cancel)

IndexStep ==
    \/ InIndex(Index!Collect) \/ InIndex(Index!Orphans) \/ InIndex(Index!Save)
    \/ InIndex(Index!Visit) \/ InIndex(Index!Take) \/ InIndex(Index!Rescan)
    \/ InIndex(Index!Refused) \/ InIndex(Index!Restart) \/ InIndex(Index!MakeDirectory)
    \/ \E p \in Path :
          \/ InIndex(Index!Drop(p)) \/ InIndex(Index!Read(p))
          \/ InIndex(Index!DeleteOld(p)) \/ InIndex(Index!Upsert(p))
    \/ \E p \in Path, v \in Index!State : InIndex(Index!Change(p, v))

IdeaStep ==
    \E p \in Writer :
        \/ \E t \in Title : InIdeas(Ideas!Capture(p, t))
        \/ \E s \in Ideas!Slug :
              \/ InIdeas(Ideas!Change(p, s)) \/ InIdeas(Ideas!SetStatusOf(p, s))
              \/ InIdeas(Ideas!ReadMarks(p, s))
        \/ InIdeas(Ideas!SetStatus(p)) \/ InIdeas(Ideas!WriteIdea(p))
        \/ InIdeas(Ideas!LoadAll(p)) \/ InIdeas(Ideas!RewriteLedger(p))
        \/ InIdeas(Ideas!Reply(p)) \/ InIdeas(Ideas!WriteMarks(p)) \/ InIdeas(Ideas!Die(p))

DocStep ==
    \E w \in Writer :
        \/ \E i \in RunId : InDocs(Docs!Record(w, i))
        \/ \E on \in BOOLEAN : InDocs(Docs!Tacet(w, on))
        \/ InDocs(Docs!Load(w)) \/ InDocs(Docs!Open(w)) \/ InDocs(Docs!Write(w))
        \/ InDocs(Docs!Rename(w)) \/ InDocs(Docs!RenameFails(w)) \/ InDocs(Docs!Reply(w))
        \/ InDocs(Docs!Die(w))

HubStep ==
    \/ \E t \in Thread :
          \/ InHub(Hub!Refresh(t)) \/ InHub(Hub!IngestBad(t)) \/ InHub(Hub!Send(t))
          \/ \E p \in Pid, what \in Reading :
                \/ InHub(Hub!IngestOverlay(t, p, what))
                \/ InHub(Hub!IngestSnapshot(t, p, what))
    \/ \E p \in Pid : InHub(Hub!set_attach_pid(p))
    \/ \E v \in Viewer :
          \/ InHub(Hub!Look(v)) \/ InHub(Hub!Listen(v)) \/ InHub(Hub!Receive(v))
          \/ InHub(Hub!Leave(v))
    \/ InHub(Hub!Restart)

CaptureStep ==
    \/ InCaptures(Captures!StartCapture) \/ InCaptures(Captures!Refresh)
    \/ InCaptures(Captures!StopCapture) \/ InCaptures(Captures!Restart)

ServicesInit ==
    /\ which \in {"cache", "scans", "index", "ideas", "docs", "hub", "captures"}
    /\ Init /\ ScanInit /\ Index!Init /\ Ideas!Init /\ Docs!Init /\ Hub!Init /\ Captures!Init

ServicesNext ==
    CacheStep \/ ScanStep \/ IndexStep \/ IdeaStep \/ DocStep \/ HubStep \/ CaptureStep

\* The indexer goes on; nothing else has to happen.
ServicesSpec ==
    /\ ServicesInit /\ [][ServicesNext]_allVars
    /\ WF_allVars(InIndex(Index!Indexer))

-----------------------------------------------------------------------------
(* Properties: those of the parts, which say what they mean *)

\* WikiIndex: no pass skips a file that the index does not have as it is.
SkippedIsIndexed == Index!SkippedIsIndexed

\* WikiIndex: chunks that no manifest lists come from passes that failed.
OnlyDroppedPassesLeak == Index!OnlyDroppedPassesLeak

\* WikiIndex: when files are left alone, the index comes to agree with them.
IndexSettles == which = "index" => Index!IndexSettles

\* Shrift: a call that runs alone leaves a ledger that lists what is there.
LedgerMends == Ideas!LedgerMends

\* WorkspaceDocs: an acknowledged run stays in the ledger, and the ledger parses.
AckedRunsAreKept == Docs!AckedRunsAreKept

\* WorkspaceDocs: once tacet is on, no call with effects passes the gate.
LatchedIsRefused == Docs!LatchedIsRefused

\* RuntimeHub: a page that was given every delta in order has the snapshot.
ViewerAgrees == Hub!ViewerAgrees

\* RuntimeCaptures: as many as are kept, none too long, each with its count.
CapturesAreKept == Captures!CapturesAreKept
=============================================================================
