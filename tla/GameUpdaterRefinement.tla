----------------------- MODULE GameUpdaterRefinement -----------------------
(***************************************************************************)
(* GameUpdater implements ReleaseSelection: the atomic replacement of the  *)
(* pointer is the selection, whatever update-state.json says at that       *)
(* moment, and mark_world_opened is the crossing of the world boundary.    *)
(***************************************************************************)
EXTENDS GameUpdater

\* The phase of the selection, read from the record and the pointer.
Phase ==
    CASE ActivationTookEffect \/ upd.state = "pending-readiness" -> "candidate"
      [] upd.state \in {"starting-candidate", "runtime-ready"} -> "opened"
      [] upd.state = "failed-after-world-open" -> "failed"
      [] OTHER -> "settled"

Promise == INSTANCE ReleaseSelection WITH selected <- CurrentBuild, phase <- Phase

\* Every step of the transaction, of its recovery, of the entrypoint and of the
\* operator is a step of the promise or leaves it alone (active-release and
\* update-state.json are replaced one after the other, core.py write_active).
KeepsPromise == Promise!Spec
=============================================================================
