----------------------------- MODULE Deployment -----------------------------
(* pzctl deploy: the checkout, the watchdog's environment and the service
   are replaced by those of another commit, and put back when that fails.
   Every command is a step, which may succeed or fail; pzctl may be killed or
   interrupted, or the host lose power, between any two.  A pending marker and
   a transient guardian keep a half-made deployment from running.  Preflight,
   fetch and player queries are abstracted to their verdict, the lifecycle
   lock to the single op, pz-watchdog.service to the unit it follows. *)

CONSTANTS Commit, None, Partial

ASSUME CommitAssumption ==
    /\ None \notin Commit /\ Partial \notin Commit /\ None # Partial
    /\ None \notin [previous : Commit, target : Commit]

VARIABLES
    head,          \* HEAD of /opt/pz-stack
    clean,         \* git status reports nothing
    venv,          \* the commit of WATCHDOG_VENV
    rollbackVenv,  \* the commit of ROLLBACK_WATCHDOG_VENV
    deployed,      \* DEPLOYED_COMMIT_FILE
    pending,       \* PENDING_DEPLOYMENT_FILE
    recovery,      \* RECOVERY_PZCTL is there
    auth,          \* the start authorization is there and its pzctl alive
    guardian,      \* a guardian unit watches the authorization
    server,        \* the checkout the running server was built from
    op,            \* the running pzctl deploy
    unmarked       \* history: a record_deployed_commit that failed took the marker

service == <<auth, guardian, server>>
disk == <<head, clean, venv, rollbackVenv, deployed>>
marker == <<pending, recovery, unmarked>>
vars == <<disk, marker, service, op>>

NoOp == [at |-> "idle", back |-> FALSE, resumed |-> FALSE,
         target |-> None, previous |-> None]

Stages == {"sweep", "save", "mark", "permit", "quiesce", "revoke", "refuse",
           "refused", "preserve", "checkout", "switch", "remove", "restore",
           "authorize", "install", "start", "verify", "record", "unmark",
           "finish", "drop"}

Marker == [previous : Commit, target : Commit]

Ops == {NoOp} \cup [at : Stages, back : BOOLEAN, resumed : BOOLEAN,
                    target : Commit, previous : Commit]

TypeOK ==
    /\ head \in Commit /\ clean \in BOOLEAN
    /\ venv \in Commit \cup {None, Partial}
    /\ rollbackVenv \in Commit \cup {None, Partial}
    /\ deployed \in Commit \cup {None}
    /\ pending \in Marker \cup {None}
    /\ recovery \in BOOLEAN /\ unmarked \in BOOLEAN
    /\ auth \in BOOLEAN /\ guardian \in BOOLEAN
    /\ server \in Commit \cup {None, Partial}
    /\ op \in Ops

\* A bootstrapped host, or one from before the deployed marker existed.
Init ==
    /\ head \in Commit /\ clean = TRUE
    /\ venv = head /\ rollbackVenv = None
    /\ deployed \in {head, None}
    /\ pending = None /\ recovery = FALSE /\ unmarked = FALSE
    /\ auth = FALSE /\ guardian = FALSE /\ server \in {None, head}
    /\ op = NoOp

-----------------------------------------------------------------------------
At(stage) == op.at = stage
GoTo(stage) == op' = [op EXCEPT !.at = stage]

\* pzctl exits; an authorization of a dead process is not valid.
End == op' = NoOp /\ auth' = FALSE

\* The commit this half of the deployment installs.
Goal == IF op.back THEN op.previous ELSE op.target

\* What compose builds from the checkout.
Built == IF clean THEN head ELSE Partial

\* ExecCondition of the units, and pzctl start.
MayStart == pending = None \/ auth

\* A failure after the safe stop: roll back, or give up a rollback.
Failed ==
    \/ op.back /\ End
    \/ ~op.back /\ op' = [op EXCEPT !.back = TRUE, !.at = "permit"] /\ UNCHANGED auth

\* stop_watchdog_version
StopVenv == IF op.back \/ rollbackVenv # None THEN rollbackVenv ELSE venv

-----------------------------------------------------------------------------
(* Entry checks; without a marker the environment of the last deployment is
   swept away, the orchestrator saved and the marker written. *)

Deployable(t) ==
    /\ pending = None
    /\ deployed \in {head, None} /\ deployed # t /\ (deployed = None => t = head)

Resumable(t) ==
    /\ pending \in Marker /\ pending.target = t
    /\ head \in {pending.previous, t}
    /\ head = t /\ pending.previous # t => rollbackVenv # None

Deploy(t) ==
    /\ op = NoOp /\ clean
    /\ rollbackVenv # None \/ venv # None
    /\ \/ Deployable(t)
          /\ op' = [at |-> "sweep", back |-> FALSE, resumed |-> FALSE, target |-> t, previous |-> head]
       \/ Resumable(t)
          /\ op' = [at |-> "permit", back |-> FALSE, resumed |-> TRUE, target |-> t, previous |-> pending.previous]
    /\ UNCHANGED <<disk, marker, service>>

\* rm -rf of the environment that is left from before.
Sweep ==
    /\ At("sweep")
    /\ \/ rollbackVenv # None /\ rollbackVenv' = Partial /\ UNCHANGED op
       \/ rollbackVenv' = None /\ GoTo("save")
    /\ UNCHANGED <<head, clean, venv, deployed, marker, service>>

Save ==
    /\ At("save")
    /\ recovery' = TRUE /\ GoTo("mark")
    /\ UNCHANGED <<disk, pending, unmarked, service>>

SaveFails ==
    /\ At("save")
    /\ recovery' \in {recovery, FALSE} /\ End
    /\ UNCHANGED <<disk, pending, unmarked, guardian, server>>

MarkerOf == [previous |-> op.previous, target |-> op.target]

Mark ==
    /\ At("mark")
    /\ pending' = MarkerOf /\ GoTo("permit")
    /\ UNCHANGED <<disk, recovery, unmarked, service>>

\* The sync may fail with the marker in place: it stays, its orchestrator goes.
MarkFails ==
    /\ At("mark")
    /\ pending' \in {None, MarkerOf} /\ recovery' = FALSE /\ End
    /\ UNCHANGED <<disk, unmarked, guardian, server>>

-----------------------------------------------------------------------------
(* The guarded stop, of the previous server or, in a rollback or a retry, of
   the candidate. *)

Monitored == op.back \/ (op.resumed /\ head = op.target /\ op.previous # op.target)

Permit ==
    /\ At("permit")
    /\ auth' = TRUE /\ guardian' = (guardian \/ Monitored) /\ GoTo("quiesce")
    /\ UNCHANGED <<disk, marker, server>>

PermitFails ==
    /\ At("permit")
    /\ auth' = FALSE /\ GoTo("refuse")
    /\ UNCHANGED <<disk, marker, guardian, server>>

Quiesce ==
    /\ At("quiesce")
    /\ server # None => StopVenv \in Commit
    /\ server' = None /\ GoTo("revoke")
    /\ UNCHANGED <<disk, marker, auth, guardian>>

\* Players, an unknown answer, an unclean exit, or a unit that will not stop.
QuiesceFails ==
    /\ At("quiesce")
    /\ server' \in {server, None} /\ GoTo("refuse")
    /\ UNCHANGED <<disk, marker, auth, guardian>>

Revoke ==
    /\ At("revoke")
    /\ auth' = FALSE /\ guardian' = FALSE
    /\ GoTo(IF op.back THEN "checkout" ELSE "preserve")
    /\ UNCHANGED <<disk, marker, server>>

\* The guardian would not stop: it will find the authorization gone.
RevokeFails ==
    /\ At("revoke")
    /\ auth' = FALSE /\ GoTo("refused")
    /\ UNCHANGED <<disk, marker, guardian, server>>

Refuse ==
    /\ At("refuse")
    /\ auth' = FALSE /\ guardian' \in {FALSE, guardian} /\ GoTo("refused")
    /\ UNCHANGED <<disk, marker, server>>

\* Nothing was changed: a first attempt withdraws its marker.
Withdraw ==
    /\ At("refused") /\ ~op.back /\ ~op.resumed
    /\ pending' = None /\ recovery' = FALSE /\ End
    /\ UNCHANGED <<disk, unmarked, guardian, server>>

\* A rollback or a retry leaves the server as it is, for diagnosis.
LeaveOnline ==
    /\ At("refused") /\ (op.back \/ op.resumed)
    /\ End
    /\ UNCHANGED <<disk, marker, guardian, server>>

-----------------------------------------------------------------------------
(* Replacing the installation. *)

\* Mutation of Preserve: a retry preserves whatever is installed.
PreserveAgain ==
    /\ At("preserve")
    /\ rollbackVenv' = venv /\ venv' = None
    /\ GoTo("checkout")
    /\ UNCHANGED <<head, clean, deployed, marker, service>>

Preserve ==
    /\ At("preserve")
    /\ IF rollbackVenv = None
         THEN rollbackVenv' = venv /\ venv' = None
         ELSE UNCHANGED <<rollbackVenv, venv>>
    /\ GoTo("checkout")
    /\ UNCHANGED <<head, clean, deployed, marker, service>>

PreserveFails ==
    /\ At("preserve") /\ rollbackVenv = None
    /\ End
    /\ UNCHANGED <<disk, marker, guardian, server>>

\* git checkout --force rewrites the tree, then HEAD.
Checkout ==
    \/ At("checkout") /\ clean' = FALSE /\ GoTo("switch") /\ UNCHANGED head
    \/ At("switch") /\ clean' = TRUE /\ head' = Goal
       /\ GoTo(IF op.back THEN "remove" ELSE "authorize")

CheckOut == Checkout /\ UNCHANGED <<venv, rollbackVenv, deployed, marker, service>>

CheckoutFails ==
    /\ op.at \in {"checkout", "switch"}
    /\ Failed
    /\ UNCHANGED <<disk, marker, guardian, server>>

\* rm -rf of the target's environment, in a rollback.
RemoveVenv ==
    /\ At("remove")
    /\ \/ venv # None /\ venv' = Partial /\ UNCHANGED op
       \/ venv' = None /\ GoTo("restore")
    /\ UNCHANGED <<head, clean, rollbackVenv, deployed, marker, service>>

RestoreVenv ==
    /\ At("restore") /\ rollbackVenv # None
    /\ venv' = rollbackVenv /\ rollbackVenv' = None /\ GoTo("authorize")
    /\ UNCHANGED <<head, clean, deployed, marker, service>>

RestoreFails ==
    /\ op.at \in {"remove", "restore"}
    /\ End
    /\ UNCHANGED <<disk, marker, guardian, server>>

\* Mutation of Authorize: the candidate starts without a guardian.
AuthorizeAlone ==
    /\ At("authorize")
    /\ auth' = TRUE
    /\ GoTo(IF op.back THEN "start" ELSE "install")
    /\ UNCHANGED <<disk, marker, server, guardian>>

Authorize ==
    /\ At("authorize")
    /\ auth' = TRUE /\ guardian' = TRUE
    /\ GoTo(IF op.back THEN "start" ELSE "install")
    /\ UNCHANGED <<disk, marker, server>>

\* install_watchdog; a rollback keeps the environment it restored.
Install ==
    /\ At("install")
    /\ \/ venv' = Partial /\ UNCHANGED op
       \/ venv' = Goal /\ GoTo("start")
    /\ UNCHANGED <<head, clean, rollbackVenv, deployed, marker, service>>

\* install_services restarts the units, which ask the guard.
Start ==
    /\ At("start") /\ MayStart
    /\ server' = Built /\ GoTo("verify")
    /\ UNCHANGED <<disk, marker, auth, guardian>>

\* Mutation of Verify: readiness clears the marker before the record is made.
VerifyUnmarks ==
    /\ At("verify") /\ server # None
    /\ pending' = None /\ GoTo("record")
    /\ UNCHANGED <<disk, recovery, unmarked, service>>

\* Asked with the previous watchdog, in a rollback with the restored one.
Verify ==
    /\ At("verify") /\ server # None
    /\ (IF op.back THEN venv ELSE rollbackVenv) \in Commit
    /\ GoTo("record")
    /\ UNCHANGED <<disk, marker, service>>

InstallationFails ==
    /\ op.at \in {"authorize", "install", "start", "verify"}
    /\ server' \in {server, None} /\ Failed
    /\ UNCHANGED <<disk, marker, guardian>>

-----------------------------------------------------------------------------
(* record_deployed_commit and what follows it. *)

Record ==
    /\ At("record")
    /\ deployed' = Goal /\ GoTo("unmark")
    /\ UNCHANGED <<head, clean, venv, rollbackVenv, marker, service>>

RecordFails ==
    /\ At("record")
    /\ deployed' \in {deployed, Goal} /\ Failed
    /\ UNCHANGED <<head, clean, venv, rollbackVenv, marker, guardian, server>>

Unmark ==
    /\ At("unmark")
    /\ pending' = None /\ GoTo("finish")
    /\ UNCHANGED <<disk, recovery, unmarked, service>>

\* rm fails, or the sync after it: pzctl rolls back without a marker.
UnmarkFails ==
    /\ At("unmark")
    /\ \/ UNCHANGED <<pending, unmarked>>
       \/ pending' = None /\ unmarked' = TRUE
    /\ Failed
    /\ UNCHANGED <<disk, recovery, guardian, server>>

Finish ==
    /\ At("finish")
    /\ auth' = FALSE /\ guardian' = FALSE /\ GoTo("drop")
    /\ UNCHANGED <<disk, marker, server>>

FinishFails ==
    /\ At("finish")
    /\ End
    /\ UNCHANGED <<disk, marker, guardian, server>>

\* Best effort: rm -rf may stop half way.
Drop ==
    /\ At("drop")
    /\ rollbackVenv' \in {rollbackVenv, None} \cup (IF rollbackVenv = None THEN {} ELSE {Partial})
    /\ recovery' = FALSE /\ End
    /\ UNCHANGED <<head, clean, venv, deployed, pending, unmarked, guardian, server>>

-----------------------------------------------------------------------------
(* Signals, power, the guardian and the other commands. *)

\* kill -9, or a signal before the trap: a start that was let through goes on.
Kill ==
    /\ op # NoOp
    /\ \/ UNCHANGED server
       \/ At("start") /\ MayStart /\ server' = Built
    /\ End
    /\ UNCHANGED <<disk, marker, guardian>>

Trapped ==
    \/ op.back
    \/ op.resumed /\ Monitored
    \/ op.at \in {"preserve", "checkout", "switch", "authorize", "install",
                  "start", "verify", "record", "unmark", "finish", "drop"}

\* deployment_interrupted; systemctl stop may fail.
Interrupt ==
    /\ op # NoOp /\ Trapped
    /\ server' \in {server, None} /\ End
    /\ UNCHANGED <<disk, marker, guardian>>

\* monitor_deployment: systemctl stop, once, whatever becomes of it.
GuardianStops ==
    /\ guardian /\ pending # None /\ ~auth
    /\ server' \in {server, None} /\ guardian' = FALSE
    /\ UNCHANGED <<disk, marker, auth, op>>

GuardianEnds ==
    /\ guardian /\ pending = None
    /\ guardian' = FALSE
    /\ UNCHANGED <<disk, marker, auth, server, op>>

PowerLoss ==
    /\ op' = NoOp /\ auth' = FALSE /\ guardian' = FALSE /\ server' = None
    /\ UNCHANGED <<disk, marker>>

\* Boot, pzctl start.
StartStack ==
    /\ op = NoOp /\ server = None /\ MayStart
    /\ server' = Built
    /\ UNCHANGED <<disk, marker, auth, guardian, op>>

\* pzctl graceful-stop, the idle watchdog, or the server's own end.
StopServer ==
    /\ server # None
    /\ server' = None
    /\ UNCHANGED <<disk, marker, auth, guardian, op>>

Next ==
    \/ \E t \in Commit : Deploy(t)
    \/ Sweep \/ Save \/ SaveFails \/ Mark \/ MarkFails
    \/ Permit \/ PermitFails \/ Quiesce \/ QuiesceFails \/ Revoke \/ RevokeFails
    \/ Refuse \/ Withdraw \/ LeaveOnline
    \/ Preserve \/ PreserveFails \/ CheckOut \/ CheckoutFails
    \/ RemoveVenv \/ RestoreVenv \/ RestoreFails
    \/ Authorize \/ Install \/ Start \/ Verify \/ InstallationFails
    \/ Record \/ RecordFails \/ Unmark \/ UnmarkFails \/ Finish \/ FinishFails \/ Drop
    \/ Kill \/ Interrupt \/ GuardianStops \/ GuardianEnds
    \/ PowerLoss \/ StartStack \/ StopServer

Spec == Init /\ [][Next]_vars

-----------------------------------------------------------------------------
\* Without a pending marker the host is whole: HEAD, the clean checkout, the
\* watchdog's environment and a running server are all of the one commit that
\* is recorded as deployed; only a rollback begun after a failing sync had
\* already lost the marker is excepted (README.md:340).
WholeWithoutMarker ==
    pending = None /\ ~unmarked =>
        /\ clean /\ venv = head
        /\ deployed \in {head, None}
        /\ server \in {None, head}

\* While a deployment is pending, the whole environment of the previous commit
\* is in one of the two places, where the retry and the rollback look for it,
\* and HEAD is one of the two commits, with the same exception
\* (docs/aws.md:107-109, pzctl:641-659).
PreviousPreserved ==
    pending # None /\ ~unmarked =>
        /\ head \in {pending.previous, pending.target}
        /\ \/ rollbackVenv = pending.previous
           \/ rollbackVenv = None /\ venv = pending.previous /\ (clean => head = pending.previous)

Unattended ==
    /\ pending # None /\ op = NoOp /\ ~guardian
    /\ server \notin {None, pending.previous}

\* No step leaves a candidate running with neither pzctl nor a guardian, but
\* that of a deployment that could not stop it safely, and of a guardian whose
\* systemctl stop failed (docs/aws.md:108).
CandidateGuarded ==
    [][Unattended' /\ ~Unattended
         => guardian \/ op.at \in {"permit", "refuse", "refused"}]_vars

\* An interrupted deployment can be resumed by a retry of its commit, which
\* asks for a clean checkout first (README.md:340, docs/aws.md:113).
Resumes == pending # None /\ op = NoOp => clean
=============================================================================
