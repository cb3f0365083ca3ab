--------------------------------- MODULE SemIf ---------------------------------
(***************************************************************************)
(* semantic_decide: the backend is resolved, every row is scored and        *)
(* debiased, and with local engines a row whose scores are not sharp goes   *)
(* on to a second draft engine and then to the verify engine, which are     *)
(* loaded when first needed.  One row is taken through all of this at once; *)
(* the rows of a batch go through it side by side.                          *)
(*                                                                         *)
(* What an engine says of a row is whether its scores are sharp, i.e. its   *)
(* conformal set has one option, or flat, or that it failed.  A bundle      *)
(* keeps the engines whose scores are in it.                               *)
(***************************************************************************)
EXTENDS Naturals, FiniteSets

CONSTANTS
    Rows,               \* a batch has this many rows
    Configs,            \* what semif may be set to, see Config
    MaxDecides          \* bound: calls

VARIABLES
    config,     \* one of Configs
    gguf,       \* the draft's file is there
    slot,       \* SLOT, the draft engine: "empty", "missing", "broken" or "ok"
    cpu,        \* Live.cpu_draft: "empty", "broken" or "ok"
    verify,     \* Live.verify
    loads,      \* per engine, how often it was loaded
    cooling,    \* copper_health.cooldown has not passed
    call,       \* the call: rows, whether it is a batch still, its scorer
    stage,      \* per row, what is next
    bundle,     \* per row, its ScoreBundle
    decides

semifVars == <<config, gguf, slot, cpu, verify, loads, cooling, call, stage, bundle, decides>>

engines == <<slot, cpu, verify, loads>>

\* backend, debias, whether routing is conformal, tandem, and gguf_verify is set.
Config ==
    [backend : {"auto", "heuristic", "ereshkigal", "remote-aeron", "remote-copper"},
     debias : {"none", "adaptive", "permute"},
     conformal : BOOLEAN, tandem : BOOLEAN, verify : BOOLEAN]

Item == 1 .. Rows
NoCallYet == [rows |-> 0, wave |-> FALSE, scorer |-> "none", unknown |-> FALSE, aborted |-> FALSE]
Blank(e) == [by |-> {}, says |-> "flat", source |-> "none", seen |-> e, averaged |-> FALSE]

\* What is attached to a row: "bad" is clipped, gone, or not what its hash says.
Evidence == {"none", "good", "bad"}

-----------------------------------------------------------------------------
\* ensure_arc: what is loaded stays, and a file that was not there is looked for
\* again; any other failure stays too.
EnsureArc ==
    IF slot \in {"empty", "missing"}
    THEN /\ slot' \in IF gguf THEN {"ok", "broken"} ELSE {"missing"}
         /\ loads' = IF gguf THEN [loads EXCEPT !.draft = @ + 1] ELSE loads
         /\ UNCHANGED <<cpu, verify>>
    ELSE UNCHANGED engines

\* score_one of scorer s: the engine that answered, and what it says.  copper-cli is
\* tried four times; then it is left alone for a while and another engine answers,
\* only the heuristic when copper was asked for by name.
Score(s, by, says) ==
    \/ /\ by = s
       /\ s \in {"heuristic", "remote-copper"} => says # "failed"
       /\ cooling' = (cooling /\ s # "remote-copper")
       /\ UNCHANGED engines
    \/ /\ s = "remote-copper" /\ by # s
       /\ cooling' = TRUE
       /\ \/ /\ config.backend = "remote-copper"
             /\ by = "heuristic" /\ says # "failed" /\ UNCHANGED engines
          \/ /\ config.backend # "remote-copper"
             /\ \/ by = "remote-aeron" /\ says # "failed" /\ UNCHANGED engines
                \/ EnsureArc /\ IF slot' = "ok" THEN by = "ereshkigal"
                                ELSE by = "heuristic" /\ says # "failed"

Engine == {"heuristic", "remote-copper", "remote-aeron", "ereshkigal"}
Says   == {"sharp", "flat", "failed"}

-----------------------------------------------------------------------------
Init ==
    /\ config \in Configs
    /\ gguf \in BOOLEAN
    /\ slot = "empty" /\ cpu = "empty" /\ verify = "empty"
    /\ loads = [draft |-> 0, cpu |-> 0, verify |-> 0]
    /\ cooling = FALSE
    /\ call = NoCallYet
    /\ stage = [i \in Item |-> "done"] /\ bundle = [i \in Item |-> Blank("none")]
    /\ decides = 0

\* The thread that main starts.
Prefetch ==
    /\ config.backend # "heuristic"
    /\ EnsureArc
    /\ UNCHANGED <<config, gguf, cooling, call, stage, bundle, decides>>

\* resolve_scorer.  Health and ping are what they happen to be; a peer in cooldown
\* is not asked.
Resolve(s, unknown) ==
    CASE config.backend = "auto" ->
            \/ /\ s = "remote-copper" /\ ~ unknown /\ ~ cooling /\ UNCHANGED engines
            \/ /\ s = "remote-aeron" /\ ~ unknown /\ UNCHANGED engines
            \/ /\ EnsureArc
               /\ IF slot' = "ok" THEN s = "ereshkigal" /\ ~ unknown
                  ELSE s = "heuristic" /\ unknown
      [] config.backend = "ereshkigal" ->
            s = "ereshkigal" /\ ~ unknown /\ EnsureArc /\ slot' = "ok"
      [] OTHER -> s = config.backend /\ ~ unknown /\ UNCHANGED engines

\* decide, with one row or a batch.
Decide(n, wave, s, unknown, seen) ==
    /\ call = NoCallYet /\ decides < MaxDecides
    /\ n > 1 => wave
    /\ Resolve(s, unknown)
    /\ call' = [rows |-> n, wave |-> wave, scorer |-> s, unknown |-> unknown, aborted |-> FALSE]
    /\ stage' = [i \in Item |-> IF i <= n THEN "draft" ELSE "done"]
    /\ bundle' = [i \in Item |-> Blank(IF i <= n THEN seen[i] ELSE "none")]
    /\ decides' = decides + 1
    /\ UNCHANGED <<config, gguf, cooling>>

Order == [draft |-> 1, debias |-> 2, commit |-> 3, cpu |-> 4, verify |-> 5, done |-> 6]

\* One by one, or in waves: every row through a stage before any goes on.
Turn(i, at) ==
    /\ stage[i] = at
    /\ \A j \in Item \ {i} :
          IF call.wave
          THEN IF j < i THEN Order[stage[j]] > Order[at] ELSE Order[stage[j]] >= Order[at]
          ELSE j < i => stage[j] = "done"

\* The row has its result, or goes on.
Goes(i, b, at) ==
    /\ bundle' = [bundle EXCEPT ![i] = b]
    /\ stage' = [stage EXCEPT ![i] = at]
    /\ UNCHANGED call

Ends(i, source) == Goes(i, [bundle[i] EXCEPT !.source = source, !.by = {}], "done")

\* A batch that cannot be scored together is decided row by row from the start.
OneByOne(unknown) ==
    /\ call' = [call EXCEPT !.wave = FALSE, !.unknown = unknown]
    /\ stage' = [i \in Item |-> IF i <= call.rows THEN "draft" ELSE "done"]
    /\ bundle' = [i \in Item |-> Blank(bundle[i].seen)]

\* decide_one_at: evidence that is clipped or is not what it was is refused.
Gate(i) ==
    /\ Turn(i, "draft") /\ ~ call.wave
    /\ bundle[i].seen = "bad"
    /\ Ends(i, "visual-abstain")
    /\ UNCHANGED <<config, gguf, engines, cooling, decides>>

\* score_hybrid: a draft made of the evidence is taken when it is clear.
Hybrid(i) ==
    /\ Turn(i, "draft") /\ ~ call.wave /\ bundle[i].seen = "good"
    /\ \E says \in {"sharp", "flat"} :
          Goes(i, [bundle[i] EXCEPT !.by = {"visual"}, !.says = says,
                                    !.source = "visual-hybrid-draft"], "debias")
    /\ UNCHANGED <<config, gguf, engines, cooling, decides>>

Draft(i) ==
    /\ Turn(i, "draft") /\ (call.wave \/ bundle[i].seen \in {"none", "good"})
    /\ \E by \in Engine, says \in Says :
          /\ Score(call.scorer, by, says)
          /\ IF says = "failed"
             THEN IF call.wave THEN OneByOne(call.unknown) ELSE Ends(i, "error")
             ELSE Goes(i, [bundle[i] EXCEPT
                              !.by = {by}, !.says = says,
                              !.source = IF ~ call.wave /\ bundle[i].seen = "good"
                                         THEN "visual-hybrid-exact" ELSE "draft"], "debias")
    /\ UNCHANGED <<config, gguf, decides>>

\* apply_debias: scores that are sharp are kept, others averaged with those of
\* rotated options.
Averages(i) ==
    config.debias = "permute" \/ (config.debias = "adaptive" /\ bundle[i].says = "flat")

DebiasRow(i) ==
    /\ Turn(i, "debias")
    /\ IF ~ Averages(i)
       THEN Goes(i, bundle[i], "commit") /\ UNCHANGED <<engines, cooling>>
       ELSE \E by \in Engine, says \in Says :
              /\ Score(call.scorer, by, says)
              /\ IF says = "failed"
                 THEN IF call.wave THEN OneByOne(TRUE) ELSE Ends(i, "error")
                 ELSE Goes(i, [bundle[i] EXCEPT
                                  !.by = @ \cup {by}, !.says = says, !.averaged = TRUE,
                                  !.source = IF config.debias = "adaptive"
                                             THEN "cascade-adaptive" ELSE @], "commit")
    /\ UNCHANGED <<config, gguf, decides>>

\* Mutant: scores that were averaged are committed.
Commit_averaged(i) ==
    /\ Turn(i, "commit")
    /\ IF call.scorer # "ereshkigal" \/ ~ config.conformal THEN Goes(i, bundle[i], "done")
       ELSE IF bundle[i].says = "sharp" \/ bundle[i].averaged
       THEN Goes(i, [bundle[i] EXCEPT !.source = IF bundle[i].averaged THEN "cascade-adaptive"
                                                 ELSE "cascade-draft"], "done")
       ELSE Goes(i, bundle[i], "cpu")
    /\ UNCHANGED <<config, gguf, engines, cooling, decides>>

\* try_commit_draft, when the engines are local.
Commit(i) ==
    /\ Turn(i, "commit")
    /\ IF call.scorer # "ereshkigal" \/ ~ config.conformal THEN Goes(i, bundle[i], "done")
       ELSE IF bundle[i].says = "sharp"
       THEN Goes(i, [bundle[i] EXCEPT !.source = IF bundle[i].averaged THEN "cascade-adaptive"
                                                 ELSE "cascade-draft"], "done")
       ELSE Goes(i, bundle[i], "cpu")
    /\ UNCHANGED <<config, gguf, engines, cooling, decides>>

\* An engine that fails in the waves leaves the rows that are not done as they are.
Fails(i) ==
    IF call.wave
    THEN /\ call' = [call EXCEPT !.aborted = TRUE]
         /\ stage' = [j \in Item |-> "done"] /\ UNCHANGED bundle
    ELSE Ends(i, "error")

\* Mutant: an engine that could not be loaded is loaded again.
Load_again(state, engine) ==
    /\ state' \in IF state # "ok" THEN {"ok", "broken"} ELSE {state}
    /\ loads' = IF state # "ok" THEN [loads EXCEPT ![engine] = @ + 1] ELSE loads

\* load_one, once: "broken" stays so.
Load(state, engine) ==
    /\ state' \in IF state = "empty" THEN {"ok", "broken"} ELSE {state}
    /\ loads' = IF state = "empty" THEN [loads EXCEPT ![engine] = @ + 1] ELSE loads

\* score_cpu_row.
Cpu(i) ==
    /\ Turn(i, "cpu")
    /\ IF ~ config.tandem
       THEN Goes(i, bundle[i], "verify") /\ UNCHANGED engines
       ELSE /\ Load(cpu, "cpu") /\ UNCHANGED <<slot, verify>>
            /\ IF cpu' = "broken" THEN Goes(i, bundle[i], "verify")
               ELSE \E says \in Says :
                      IF says = "failed" THEN Fails(i)
                      ELSE Goes(i, [bundle[i] EXCEPT !.by = {"cpu"}, !.says = says,
                                                     !.averaged = FALSE, !.source = "cascade-cpu"],
                                IF says = "sharp" THEN "done" ELSE "verify")
    /\ UNCHANGED <<config, gguf, cooling, decides>>

\* apply_verify_row.
Verify(i) ==
    /\ Turn(i, "verify")
    /\ IF ~ config.verify
       THEN Goes(i, [bundle[i] EXCEPT !.source = "cascade-skipped"], "done") /\ UNCHANGED engines
       ELSE /\ Load(verify, "verify") /\ UNCHANGED <<slot, cpu>>
            /\ IF verify' = "broken"
               THEN Goes(i, [bundle[i] EXCEPT !.source = "cascade-skipped"], "done")
               ELSE \/ Fails(i)
                    \/ \E says \in {"sharp", "flat"} :
                          Goes(i, [bundle[i] EXCEPT !.by = {"verify"}, !.says = says,
                                                    !.averaged = FALSE,
                                                    !.source = "cascade-verify"], "done")
    /\ UNCHANGED <<config, gguf, cooling, decides>>

\* The results are returned, and the call keeps nothing.
Return ==
    /\ call # NoCallYet /\ \A i \in Item : stage[i] = "done"
    /\ call' = NoCallYet /\ bundle' = [i \in Item |-> Blank("none")]
    /\ UNCHANGED <<config, gguf, engines, cooling, stage, decides>>

\* The draft's file comes, and the cooldown passes.
FileComes ==
    /\ ~ gguf /\ gguf' = TRUE
    /\ UNCHANGED <<config, engines, cooling, call, stage, bundle, decides>>

CoolDown ==
    /\ cooling /\ cooling' = FALSE
    /\ UNCHANGED <<config, gguf, engines, call, stage, bundle, decides>>

Next ==
    \/ Prefetch \/ Return \/ FileComes \/ CoolDown
    \/ \E n \in {1, Rows} : \E s \in Engine, wave, unknown \in BOOLEAN, seen \in [1..n -> Evidence] :
          Decide(n, wave, s, unknown, seen)
    \/ \E i \in Item :
          Gate(i) \/ Hybrid(i) \/ Draft(i) \/ DebiasRow(i) \/ Commit(i) \/ Cpu(i) \/ Verify(i)

Spec == Init /\ [][Next]_semifVars

-----------------------------------------------------------------------------
(* Properties *)

TypeOK ==
    /\ slot \in {"empty", "missing", "broken", "ok"}
    /\ {cpu, verify} \subseteq {"empty", "broken", "ok"}
    /\ loads \in [{"draft", "cpu", "verify"} -> Nat]
    /\ stage \in [Item -> DOMAIN Order]
    /\ call.scorer \in Engine \cup {"none"} /\ call.rows \in 0..Rows
    /\ decides \in 0..MaxDecides /\ config \in Config /\ {gguf, cooling} \subseteq BOOLEAN

Replied(i) == stage[i] = "done" /\ i <= call.rows

\* cascade_source names the engine whose scores the reply has, and one that committed
\* was sharp, unless an engine failed under a batch; the local scorer never replies
\* with scores of another one.
SourceIsTrue ==
    \A i \in Item : Replied(i) /\ ~ call.aborted =>
        LET b == bundle[i] IN
        /\ b.source = "cascade-draft"  => b.says = "sharp" /\ b.by \subseteq {"ereshkigal", "visual"}
        /\ b.source = "cascade-cpu"    => b.says = "sharp" /\ b.by = {"cpu"}
        /\ b.source = "cascade-verify" => b.by = {"verify"}
        /\ b.source = "cascade-adaptive" /\ call.scorer = "ereshkigal" /\ config.conformal =>
               b.says = "sharp"
        /\ call.scorer = "ereshkigal" =>
               b.by \subseteq {"ereshkigal", "visual", "cpu", "verify"}

\* Each engine is loaded once, by whichever thread needs it first; the heavy ones only
\* after the draft, and only if some scores were not sharp.
EnginesLoadOnce ==
    /\ \A e \in DOMAIN loads : loads[e] <= 1
    /\ loads.cpu + loads.verify > 0 => slot = "ok" /\ config.conformal

\* "no silent argmax": a row whose evidence is clipped, missing or altered is never
\* answered by a choice.
NoSilentArgmax ==
    \A i \in Item : Replied(i) /\ bundle[i].seen = "bad" =>
        bundle[i].source \in {"visual-abstain", "error"}
=============================================================================
