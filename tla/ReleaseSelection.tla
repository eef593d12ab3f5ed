-------------------------- MODULE ReleaseSelection --------------------------
(***************************************************************************)
(* What the game updater promises, without saying how: one build is        *)
(* selected at a time, a new selection is a candidate until the server     *)
(* opens the world with it, and from then on nothing but acceptance        *)
(* releases it; the world is only ever opened by the selected build.       *)
(* docs/architecture.md, "Game-update transaction", refined by             *)
(* GameUpdater.                                                            *)
(***************************************************************************)
EXTENDS Naturals

CONSTANTS
    Build,          \* Steam build identifiers
    Incompatible    \* builds whose launcher is not supported

VARIABLES
    selected,   \* the build active-release selects, 0 when there is none
    phase,      \* of the selection: "settled", "candidate", "opened" or "failed"
    world       \* the build that opened the world last, 0 before the first

vars == <<selected, phase, world>>

TypeOK ==
    /\ selected \in Build \cup {0}
    /\ phase \in {"settled", "candidate", "opened", "failed"}
    /\ world \in Build \cup {0}

Init == selected = 0 /\ phase = "settled" /\ world = 0

\* A supported build, never an older one, is selected at once.
Select ==
    /\ phase = "settled"
    /\ \E b \in Build \ Incompatible : b >= selected /\ selected' = b
    /\ phase' = "candidate"
    /\ UNCHANGED world

\* From here on the candidate may have changed the world.
Cross ==
    /\ phase = "candidate"
    /\ phase' = "opened"
    /\ UNCHANGED <<selected, world>>

\* The server is launched on the world, with what is selected.
Play ==
    /\ phase # "candidate" /\ selected # 0
    /\ world' = selected
    /\ UNCHANGED <<selected, phase>>

\* Readiness ends the candidacy well, or for good.
Accept ==
    /\ phase = "opened"
    /\ phase' = "settled"
    /\ UNCHANGED <<selected, world>>

Reject ==
    /\ phase = "opened"
    /\ phase' = "failed"
    /\ UNCHANGED <<selected, world>>

\* The disk with the releases is lost; the world is on another one.
Replace ==
    /\ selected' = 0 /\ phase' = "settled"
    /\ UNCHANGED world

Next == Replace \/ Select \/ Cross \/ Play \/ Accept \/ Reject

Spec == Init /\ [][Next]_vars

\* The world never lags behind the selection by an older build's launch.
WorldNotAhead == world <= selected
=============================================================================
