---------------------------- MODULE IzakayaStore ----------------------------
(***************************************************************************)
(* What the Izakaya store promises its callers, apart from any file: a     *)
(* commit takes effect at most once, at the end of everything that took    *)
(* effect before; a commit that was answered has taken effect, and its     *)
(* answer names its place.  Nothing that took effect is taken back.  A     *)
(* commit may take effect and never be answered (its process died).        *)
(***************************************************************************)
EXTENDS Naturals, Sequences, Functions

CONSTANT Op             \* commits callers may ask for

VARIABLES
    effect,             \* the commits in force, in the order they came
    answers             \* what callers were told: commit and sequence number

svars == <<effect, answers>>

Init == effect = <<>> /\ answers = {}

TakeEffect(op) ==
    /\ op \notin Range(effect)
    /\ effect' = Append(effect, op)
    /\ UNCHANGED answers

Answer(op, seq) ==
    /\ seq \in DOMAIN effect
    /\ effect[seq] = op
    /\ answers' = answers \cup {[op |-> op, seq |-> seq]}
    /\ UNCHANGED effect

Next ==
    \E op \in Op : TakeEffect(op) \/ \E seq \in DOMAIN effect : Answer(op, seq)

Spec == Init /\ [][Next]_svars
=============================================================================
