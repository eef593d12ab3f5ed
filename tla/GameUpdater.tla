---------------------------- MODULE GameUpdater ----------------------------
(***************************************************************************)
(* The game update transaction of pz-server: pz_updater/core.py, driven by *)
(* the container entrypoint (docker/entrypoint.sh) and by the operator     *)
(* (scripts/linux/pzctl).                                                  *)
(*                                                                         *)
(* What survives a crash is explicit: update-state.json (upd), the two     *)
(* pointer files (active, previous), the directories under releases/       *)
(* (dir), the world and its pre-update archive.  The transaction lock is   *)
(* an flock: at most one command holds it, a contender fails at once, and  *)
(* it vanishes with the process that holds it.  txn is that holder: its    *)
(* program counter and its local variables.  Every durable write of a      *)
(* transaction is a step of its own, so a kill may fall between any two.   *)
(***************************************************************************)
EXTENDS Integers, FiniteSets

CONSTANTS
    Release,        \* names of directories under releases/
    None,           \* an absent pointer or release field
    Build,          \* Steam build identifiers
    Incompatible,   \* builds whose launcher LauncherValidator rejects
    Policies,       \* what prepare-start may find configured
    Environment,    \* DEPLOYMENT_ENVIRONMENT: "local" or "aws"
    ExecUpdate,     \* may `update` also be executed inside the game container?
    HostReplacement \* may the disposable root volume be lost?

ASSUME ReleaseAssumption == None \notin Release
ASSUME BuildAssumption == Build \subseteq Nat \ {0} /\ Incompatible \subseteq Build
ASSUME PolicyAssumption == Policies \subseteq {"stable-on-start", "manual", "blocked-mods"}
ASSUME ModeAssumption ==
    /\ Environment \in {"local", "aws"}
    /\ ExecUpdate \in BOOLEAN
    /\ HostReplacement \in BOOLEAN

VARIABLES
    upd,        \* update-state.json
    active,     \* the pointer file active-release
    previous,   \* the pointer file previous-release
    dir,        \* content of each release directory
    txn,        \* the command that holds the transaction lock, and its locals
    sess,       \* the game container's entrypoint, and the server it launched
    op,         \* pzctl: "idle", or "quiesced" while `pzctl update` runs
    branch,     \* the build Steam currently publishes on the branch
    world,      \* the build that opened the world last, 0 before the first
    archived    \* a verified archive holds the world as it is now

durable == <<upd, active, previous, dir>>
vars == <<upd, active, previous, dir, txn, sess, op, branch, world, archived>>

-----------------------------------------------------------------------------
(* Values *)

\* A release directory that is not a complete installation.
Left    == -3       \* what a cleanup that ignores errors did not delete, maybe all
Absent  == -2
Empty   == -1       \* just created
Partial == 0        \* SteamCMD writing it, or rmtree deleting it
Content == {Left, Absent, Empty, Partial} \cup Build

Exists(r) == dir[r] # Absent
Launchable(c) == c \in Build \ Incompatible

\* The build in the manifest of a release, 0 when there is no release.
BuildOf(r) == IF r = None THEN 0 ELSE dir[r]

\* _read_pointer raises for a pointer whose target is not a directory.
Readable(p) == p # None => Exists(p)

Interrupted == {"downloading-candidate", "promoting-candidate"}
Held == {"pending-readiness", "starting-candidate", "runtime-ready",
         "failed-after-world-open"}
CandidateStates == Interrupted \cup Held \cup {"activating"}
States == CandidateStates \cup {"uninitialized", "current", "failed-before-world-open"}

MaybeRelease == Release \cup {None}
MaybeBuild == Build \cup {0}

UpdateState ==
    [state : States, candidate : MaybeBuild, candidateRelease : MaybeRelease,
     promotedRelease : MaybeRelease, previousRelease : MaybeRelease,
     blocked : MaybeBuild, opened : BOOLEAN]

Uninitialized ==
    [state |-> "uninitialized", candidate |-> 0, candidateRelease |-> None,
     promotedRelease |-> None, previousRelease |-> None, blocked |-> 0,
     opened |-> FALSE]

\* Steps of a transaction, each named for what it is about to do.
Steps == {"recover", "recover-write", "decide", "query", "stage", "unlink-previous",
          "mkdir", "write-downloading", "install", "validate", "backup",
          "write-promoting", "rename", "write-activating", "write-previous",
          "write-active", "write-pending", "undo-activation", "write-undone",
          "cleanup", "write-failure", "handler"}

Transaction ==
    [by : {"none", "session", "run", "exec"}, pc : Steps \cup {"idle"}, base : UpdateState,
     latest : MaybeBuild, candidate : MaybeRelease, final : MaybeRelease, block : BOOLEAN]

NoTxn == [by |-> "none", pc |-> "idle", base |-> Uninitialized, latest |-> 0,
          candidate |-> None, final |-> None, block |-> FALSE]

Session == [pc : {"down", "boot", "prepared", "selected", "marked", "up", "ready",
                  "draining", "stopping", "exited"},
            selected : MaybeRelease, server : MaybeRelease]

Down == [pc |-> "down", selected |-> None, server |-> None]

TypeOK ==
    /\ upd \in UpdateState
    /\ active \in MaybeRelease /\ previous \in MaybeRelease
    /\ dir \in [Release -> Content]
    /\ txn \in Transaction
    /\ sess \in Session
    /\ op \in {"idle", "quiesced"}
    /\ branch \in Build
    /\ world \in MaybeBuild
    /\ archived \in BOOLEAN

\* A fresh installation.
Init ==
    /\ upd = Uninitialized
    /\ active = None /\ previous = None
    /\ dir = [r \in Release |-> Absent]
    /\ txn = NoTxn
    /\ sess = Down
    /\ op = "idle"
    /\ branch \in Build
    /\ world = 0
    /\ archived = FALSE

-----------------------------------------------------------------------------
(* The transaction lock and the way a command leaves it *)

LockFree == txn.by = "none"
At(step) == txn.pc = step
GoTo(step) == txn' = [txn EXCEPT !.pc = step]

Begin(who) == txn' = [NoTxn EXCEPT !.by = who, !.pc = "recover"]

\* The command succeeds: prepare-start lets the entrypoint go on.
Succeed ==
    /\ txn' = NoTxn
    /\ sess' = IF txn.by = "session" THEN [sess EXCEPT !.pc = "prepared"] ELSE sess

\* The command fails: a failed prepare-start ends the container.
Fail ==
    /\ txn' = NoTxn
    /\ sess' = IF txn.by = "session" THEN Down ELSE sess

\* A fresh name: unique_candidate and final_release never reuse one that any
\* record still refers to (uuid4, timestamp).  A directory that is empty or left
\* behind, and that nothing refers to, is not told apart from an unused name.
Referenced ==
    {active, previous, sess.selected, sess.server, txn.candidate, txn.final}
      \cup UNION {{s.candidateRelease, s.promotedRelease, s.previousRelease}
                    : s \in {upd, txn.base}}
Fresh(r) == dir[r] \in {Left, Absent, Empty} /\ r \notin Referenced

Remove(R) == dir' = [r \in Release |-> IF r \in R THEN Absent ELSE dir[r]]

\* The same with shutil.rmtree(..., ignore_errors=True), which does not report what
\* it cannot delete.
LeaveBehind(R) ==
    \E stuck \in SUBSET {r \in R \ {None} : Exists(r)} :
       /\ stuck # {}
       /\ dir' = [r \in Release |-> IF r \in stuck THEN Left
                                    ELSE IF r \in R THEN Absent ELSE dir[r]]

-----------------------------------------------------------------------------
(* Records written to update-state.json *)

\* _record_pre_world_failure starts from the state the transaction loaded.
PreWorldFailure(base, build, block) ==
    [base EXCEPT !.state = "failed-before-world-open", !.candidate = build,
                 !.candidateRelease = None, !.promotedRelease = None,
                 !.blocked = IF block THEN build ELSE 0]

\* _write_observation, which is only reached with an active release.
Observation(s) == [s EXCEPT !.state = "current", !.candidate = 0]

\* _verify_candidate_active
CandidateActive ==
    /\ upd.candidateRelease # None /\ upd.candidate # 0
    /\ active = upd.candidateRelease
    /\ dir[active] = upd.candidate

\* Mutation of Accepted: everything is reset but the state.
AcceptedAsReady(s) ==
    [s EXCEPT !.candidate = 0, !.candidateRelease = None, !.promotedRelease = None,
              !.blocked = 0, !.opened = TRUE]

\* _complete_acceptance
Accepted(s) ==
    [s EXCEPT !.state = "current", !.candidate = 0, !.candidateRelease = None,
              !.promotedRelease = None, !.blocked = 0, !.opened = TRUE]

-----------------------------------------------------------------------------
(* Recovery of an interrupted transaction, the first step of every command *)

\* Mutation of ActivationTookEffect: the record is believed, the pointer not read.
ActivationIntended == upd.state = "activating"

\* The pointer is read back to learn whether the activation reached it.
ActivationTookEffect ==
    upd.state = "activating" /\ active # None /\ active = upd.candidateRelease
ActivationLost ==
    upd.state = "activating" /\ ~ActivationTookEffect /\ active = upd.previousRelease

\* Mutation of Debris: the promoted directory is forgotten.
CandidateDebris ==
    CASE upd.state \in Interrupted -> {upd.candidateRelease} \ {None}
      [] ActivationLost -> {upd.candidateRelease} \ {None}
      [] OTHER -> {}

\* The directories _recover_interrupted and _recover_activation delete.
Debris ==
    CASE upd.state \in Interrupted -> {upd.candidateRelease, upd.promotedRelease} \ {None}
      [] ActivationLost -> {upd.candidateRelease} \ {None}
      [] OTHER -> {}

NoLongerInterrupted ==
    [upd EXCEPT !.state = "failed-before-world-open", !.candidateRelease = None,
                !.promotedRelease = IF upd.state \in Interrupted THEN None ELSE @,
                !.blocked = 0]

\* What a step may be deleting or downloading.
Doomed ==
    CASE At("recover") \/ At("undo-activation") -> Debris
      [] At("handler") /\ txn.by = "session" -> Debris
      [] At("stage") -> {previous} \ {active, None}
      [] At("install") -> {txn.candidate}
      [] At("cleanup") -> {txn.candidate, txn.final} \ {None}
      [] OTHER -> {}

\* A deletion or a download that fails or is killed half way.
Divisible(r) == dir[r] # Absent /\ (dir[r] \in {Left, Empty} => At("install"))
CutShort ==
    \E gone \in SUBSET Doomed, half \in SUBSET {r \in Doomed : Divisible(r)} :
       dir' = [r \in Release |-> IF r \in half THEN Partial
                                 ELSE IF r \in gone THEN Absent ELSE dir[r]]

PendingRecord == [upd EXCEPT !.state = "pending-readiness"]

RecoverNothing ==
    /\ At("recover")
    /\ upd.state \notin Interrupted \cup {"activating"}
    /\ GoTo("decide")
    /\ UNCHANGED <<durable, sess, op, branch, world, archived>>

\* The staged directories of a download or a promotion, or of an activation
\* that did not reach the pointer, are deleted before the state is rewritten.
RecoverClean ==
    /\ At("recover")
    /\ upd.state \in Interrupted \/ ActivationLost
    /\ Remove(Debris)
    /\ GoTo("recover-write")
    /\ UNCHANGED <<upd, active, previous, sess, op, branch, world, archived>>

RecoverWrite ==
    /\ At("recover-write")
    /\ upd' = NoLongerInterrupted
    /\ GoTo("decide")
    /\ UNCHANGED <<active, previous, dir, sess, op, branch, world, archived>>

\* The pointer already selects the candidate: finish the activation.
RecoverActivated ==
    /\ At("recover")
    /\ ActivationTookEffect
    /\ upd' = PendingRecord
    /\ GoTo("decide")
    /\ UNCHANGED <<active, previous, dir, sess, op, branch, world, archived>>

\* rmtree fails, or the pointer selects neither release, and the record stays; or
\* StateStore.write raises, with the record replaced or not.
RecoverFails ==
    /\ \/ At("recover") /\ upd.state \in Interrupted \cup {"activating"} /\ CutShort
            /\ upd' \in {upd} \cup (IF ActivationTookEffect THEN {PendingRecord} ELSE {})
       \/ At("recover-write") /\ upd' \in {upd, NoLongerInterrupted} /\ UNCHANGED dir
    /\ Fail
    /\ UNCHANGED <<active, previous, op, branch, world, archived>>

-----------------------------------------------------------------------------
(* prepare_start and explicit_update: what to do with the recovered state *)

\* launcher.prepare(active) accepts only a complete, supported release.
ActivePrepares == active # None => Launchable(dir[active])

\* A candidate that is selected or has touched the world is started again as it is.
ResumeCandidate ==
    /\ At("decide") /\ txn.by = "session"
    /\ upd.state \in Held
    /\ active # None /\ ActivePrepares
    /\ Succeed
    /\ UNCHANGED <<durable, op, branch, world, archived>>

\* A pending repository deployment refuses an explicit update and suppresses
\* the check of a start: what is installed runs, if anything is.
DeploymentPending ==
    /\ At("decide")
    /\ IF txn.by = "session" /\ active # None
       THEN upd.state \notin Held /\ upd' = Observation(upd) /\ Succeed
       ELSE UNCHANGED upd /\ Fail
    /\ UNCHANGED <<active, previous, dir, op, branch, world, archived>>

\* Mutation of SkipCheck: a policy that skips the check also skips the candidate.
SkipCandidate ==
    /\ At("decide") /\ txn.by = "session"
    /\ active # None /\ ActivePrepares
    /\ \E policy \in Policies \ {"stable-on-start"} : upd' = Observation(upd)
    /\ Succeed
    /\ UNCHANGED <<active, previous, dir, op, branch, world, archived>>

\* So do, at a start, the manual policy and mods without permission.
SkipCheck ==
    /\ At("decide") /\ txn.by = "session"
    /\ upd.state \notin Held
    /\ active # None /\ ActivePrepares
    /\ \E policy \in Policies \ {"stable-on-start"} :
          upd' = IF policy = "manual" /\ upd.state = "failed-before-world-open"
                 THEN upd ELSE Observation(upd)
    /\ Succeed
    /\ UNCHANGED <<active, previous, dir, op, branch, world, archived>>

\* Mutation of DecideCheck: a failed update is not tried again.
DecideCheckOnce ==
    /\ At("decide")
    /\ IF txn.by = "session"
       THEN /\ upd.state \notin Held \cup {"failed-before-world-open"}
            /\ active = None \/ "stable-on-start" \in Policies
       ELSE upd.state \notin CandidateStates
    /\ ActivePrepares
    /\ txn' = [txn EXCEPT !.pc = "query", !.base = upd]
    /\ UNCHANGED <<durable, sess, op, branch, world, archived>>

\* Go on to _check_and_update with the state as it now is.  A first
\* installation is checked under every policy.
DecideCheck ==
    /\ At("decide")
    /\ IF txn.by = "session"
       THEN upd.state \notin Held /\ (active = None \/ "stable-on-start" \in Policies)
       ELSE upd.state \notin CandidateStates
    /\ ActivePrepares
    /\ txn' = [txn EXCEPT !.pc = "query", !.base = upd]
    /\ UNCHANGED <<durable, sess, op, branch, world, archived>>

\* A candidate state refuses an explicit update.
UpdateRefused ==
    /\ At("decide") /\ txn.by # "session"
    /\ upd.state \in CandidateStates
    /\ Fail
    /\ UNCHANGED <<durable, op, branch, world, archived>>

\* launcher.prepare(active) raises, if only for an input/output error, or the
\* observation of a start without a check cannot be written.
PrepareActiveFails ==
    /\ At("decide") /\ active # None
    /\ upd' \in {upd} \cup (IF txn.by = "session" /\ upd.state \notin Held
                           THEN {Observation(upd)} ELSE {})
    /\ Fail
    /\ UNCHANGED <<active, previous, dir, op, branch, world, archived>>

-----------------------------------------------------------------------------
(* _check_and_update *)

CurrentBuild == BuildOf(active)

\* Steam does not answer: recorded against no build.
QueryFails ==
    /\ At("query")
    /\ GoTo("write-failure")
    /\ UNCHANGED <<durable, sess, op, branch, world, archived>>

UpToDateRecord == [txn.base EXCEPT !.state = "current", !.candidate = 0, !.blocked = 0]

\* Only `update --validate` stages the build that is already installed.
NoUpdate ==
    /\ At("query")
    /\ CurrentBuild = branch
    /\ upd' = UpToDateRecord
    /\ Succeed
    /\ UNCHANGED <<active, previous, dir, op, branch, world, archived>>

DowngradeRefused ==
    /\ At("query")
    /\ branch < CurrentBuild
    /\ txn' = [txn EXCEPT !.pc = "write-failure", !.latest = branch]
    /\ UNCHANGED <<durable, sess, op, branch, world, archived>>

BuildBlocked(b) == active # None /\ txn.base.blocked = b /\ txn.by = "session"

\* An automatic start refuses a build that is blocked; nothing is written.
BlockedRefused ==
    /\ At("query")
    /\ CurrentBuild < branch /\ BuildBlocked(branch)
    /\ GoTo("handler")
    /\ UNCHANGED <<durable, sess, op, branch, world, archived>>

\* Mutation of NewBuildFound: another build is taken for a newer one.
OtherBuildFound ==
    /\ At("query")
    /\ CurrentBuild # branch
    /\ ~BuildBlocked(branch)
    /\ txn' = [txn EXCEPT !.pc = "stage", !.latest = branch]
    /\ UNCHANGED <<durable, sess, op, branch, world, archived>>

NewBuildFound ==
    /\ At("query")
    /\ CurrentBuild < branch \/ (CurrentBuild = branch /\ txn.by # "session")
    /\ ~BuildBlocked(branch)
    /\ txn' = [txn EXCEPT !.pc = "stage", !.latest = branch]
    /\ UNCHANGED <<durable, sess, op, branch, world, archived>>

-----------------------------------------------------------------------------
(* _stage_and_activate: preconditions *)

\* Only a process of its own container is visible to _default_game_server_running.
GameServerRunning == txn.by = "exec" /\ sess.server # None

StageRefused ==
    /\ At("stage")
    /\ GameServerRunning \/ (active # None /\ ~Readable(previous))
    /\ GoTo("write-failure")
    /\ UNCHANGED <<durable, sess, op, branch, world, archived>>

\* Mutation of DiscardPrevious: previous-release may name the active release after
\* an activation was undone, and is deleted all the same.
DiscardPreviousAlways ==
    /\ At("stage") /\ ~GameServerRunning
    /\ active # None /\ Readable(previous)
    /\ Remove({previous})
    /\ GoTo("unlink-previous")
    /\ UNCHANGED <<upd, active, previous, sess, op, branch, world, archived>>

\* Mutation of DiscardPrevious: the pointer is discarded, the directory stays.
DiscardPreviousPointer ==
    /\ At("stage") /\ ~GameServerRunning
    /\ active # None /\ Readable(previous)
    /\ GoTo("unlink-previous")
    /\ UNCHANGED <<durable, sess, op, branch, world, archived>>

\* discard_old_previous deletes the directory first, then unlinks the pointer.
DiscardPrevious ==
    /\ At("stage") /\ ~GameServerRunning
    /\ active # None /\ Readable(previous)
    /\ Remove({previous} \ {active})
    /\ GoTo("unlink-previous")
    /\ UNCHANGED <<upd, active, previous, sess, op, branch, world, archived>>

UnlinkPrevious ==
    /\ At("unlink-previous")
    /\ previous' = None
    /\ GoTo("mkdir")
    /\ UNCHANGED <<upd, active, dir, sess, op, branch, world, archived>>

StageFirst ==
    /\ At("stage") /\ ~GameServerRunning
    /\ active = None
    /\ GoTo("mkdir")
    /\ UNCHANGED <<durable, sess, op, branch, world, archived>>

\* rmtree or unlink fails, there is not enough space, or mkdir fails.
PreconditionFails ==
    /\ \/ /\ At("stage") /\ ~GameServerRunning
          /\ active # None /\ Readable(previous) /\ CutShort
       \/ (At("unlink-previous") \/ At("mkdir")) /\ UNCHANGED dir
    /\ GoTo("write-failure")
    /\ UNCHANGED <<upd, active, previous, sess, op, branch, world, archived>>

MakeCandidate ==
    /\ At("mkdir")
    /\ \E r \in Release :
          /\ Fresh(r)
          /\ dir' = [dir EXCEPT ![r] = Empty]
          /\ txn' = [txn EXCEPT !.pc = "write-downloading", !.candidate = r]
    /\ UNCHANGED <<upd, active, previous, sess, op, branch, world, archived>>

-----------------------------------------------------------------------------
(* _stage_and_activate: download, validation, backup *)

DownloadingRecord ==
    [txn.base EXCEPT !.state = "downloading-candidate", !.candidate = txn.latest,
                     !.candidateRelease = txn.candidate]

WriteDownloading ==
    /\ At("write-downloading")
    /\ upd' = DownloadingRecord
    /\ GoTo("install")
    /\ UNCHANGED <<active, previous, dir, sess, op, branch, world, archived>>

\* SteamCMD installs whatever the branch publishes when it runs.
Install ==
    /\ At("install")
    /\ dir' = [dir EXCEPT ![txn.candidate] = branch]
    /\ GoTo("validate")
    /\ UNCHANGED <<upd, active, previous, sess, op, branch, world, archived>>

\* Mutation of Validate: the manifest is checked, the launcher is not.
ValidateManifest ==
    /\ At("validate")
    /\ dir[txn.candidate] = txn.latest
    /\ GoTo("backup")
    /\ UNCHANGED <<durable, sess, op, branch, world, archived>>

Validate ==
    /\ At("validate")
    /\ Launchable(dir[txn.candidate]) /\ dir[txn.candidate] = txn.latest
    /\ GoTo("backup")
    /\ UNCHANGED <<durable, sess, op, branch, world, archived>>

\* A launcher that is not recognised, or the wrong build, blocks the build.
ValidateRejects ==
    /\ At("validate")
    /\ ~Launchable(dir[txn.candidate]) \/ dir[txn.candidate] # txn.latest
    /\ txn' = [txn EXCEPT !.pc = "cleanup", !.block = TRUE]
    /\ UNCHANGED <<durable, sess, op, branch, world, archived>>

\* Mutation of NeedsBackup: only the update of an installed release.
BackupInstalled(rendered) == active # None

\* An installed release, or anything at all in the world's directories: once an
\* entrypoint has rendered its configuration there, they are never empty.
NeedsBackup(rendered) == active # None \/ world # 0 \/ rendered

Backup ==
    /\ At("backup")
    /\ \E rendered \in BOOLEAN :
          /\ rendered \/ txn.by = "run"
          /\ archived' = (archived \/ NeedsBackup(rendered))
    /\ GoTo("write-promoting")
    /\ UNCHANGED <<durable, sess, op, branch, world>>

\* Download, validation or backup fails for a reason that may pass.
StagingFails ==
    /\ At("install") \/ At("validate") \/ At("backup")
    /\ \E c \in {dir[txn.candidate]} \cup (IF At("install") THEN {Partial} ELSE {}) :
          dir' = [dir EXCEPT ![txn.candidate] = c]
    /\ GoTo("cleanup")
    /\ UNCHANGED <<upd, active, previous, sess, op, branch, world, archived>>

-----------------------------------------------------------------------------
(* _stage_and_activate: promotion and activation *)

PromotingRecord(r) ==
    [txn.base EXCEPT !.state = "promoting-candidate", !.candidate = txn.latest,
                     !.candidateRelease = txn.candidate, !.promotedRelease = r,
                     !.previousRelease = active, !.opened = FALSE]

WritePromoting ==
    /\ At("write-promoting")
    /\ \E r \in Release :
          /\ Fresh(r)
          /\ txn' = [txn EXCEPT !.pc = "rename", !.final = r]
          /\ upd' = PromotingRecord(r)
    /\ UNCHANGED <<active, previous, dir, sess, op, branch, world, archived>>

Renamed == [dir EXCEPT ![txn.final] = dir[txn.candidate], ![txn.candidate] = Absent]

Rename ==
    /\ At("rename")
    /\ dir' = Renamed
    /\ GoTo("write-activating")
    /\ UNCHANGED <<upd, active, previous, sess, op, branch, world, archived>>

ActivatingRecord ==
    [upd EXCEPT !.state = "activating", !.candidateRelease = txn.final,
                !.promotedRelease = None]

\* Mutation of WriteActivating: the outcome is recorded before the pointer is written.
WriteActivated ==
    /\ At("write-activating")
    /\ upd' = [upd EXCEPT !.state = "pending-readiness", !.candidateRelease = txn.final,
                          !.promotedRelease = None]
    /\ GoTo("write-previous")
    /\ UNCHANGED <<active, previous, dir, sess, op, branch, world, archived>>

WriteActivating ==
    /\ At("write-activating")
    /\ upd' = ActivatingRecord
    /\ GoTo("write-previous")
    /\ UNCHANGED <<active, previous, dir, sess, op, branch, world, archived>>

\* The rename, the sync of its directory, or the record of it fails.
PromotionFails ==
    /\ \/ At("rename") /\ dir' \in {dir, Renamed} /\ UNCHANGED upd
       \/ At("write-activating") /\ upd' \in {upd, ActivatingRecord} /\ UNCHANGED dir
    /\ GoTo("cleanup")
    /\ UNCHANGED <<active, previous, sess, op, branch, world, archived>>

\* Mutation of WritePrevious: the fallback pointer is not written.
KeepPrevious ==
    /\ At("write-previous")
    /\ GoTo("write-active")
    /\ UNCHANGED <<durable, sess, op, branch, world, archived>>

WritePrevious ==
    /\ At("write-previous")
    /\ previous' = active
    /\ GoTo("write-active")
    /\ UNCHANGED <<upd, active, dir, sess, op, branch, world, archived>>

\* The atomic replacement of the pointer is the activation.
WriteActive ==
    /\ At("write-active")
    /\ active' = txn.final
    /\ GoTo("write-pending")
    /\ UNCHANGED <<upd, previous, dir, sess, op, branch, world, archived>>

WritePending ==
    /\ At("write-pending")
    /\ upd' = PendingRecord
    /\ Succeed
    /\ UNCHANGED <<active, previous, dir, op, branch, world, archived>>

\* A pointer write raises, with the replacement done or not: the pointer decides.
ActivationFails ==
    /\ At("write-previous") \/ At("write-active")
    /\ previous' \in {previous} \cup (IF At("write-previous") THEN {active} ELSE {})
    /\ active' \in {active} \cup (IF At("write-active") THEN {txn.final} ELSE {})
    /\ GoTo(IF active' = txn.final THEN "write-pending" ELSE "undo-activation")
    /\ UNCHANGED <<upd, dir, sess, op, branch, world, archived>>

UndoActivation ==
    /\ At("undo-activation")
    /\ Remove(Debris)
    /\ GoTo("write-undone")
    /\ UNCHANGED <<upd, active, previous, sess, op, branch, world, archived>>

WriteUndone ==
    /\ At("write-undone")
    /\ upd' = NoLongerInterrupted
    /\ GoTo("handler")
    /\ UNCHANGED <<active, previous, dir, sess, op, branch, world, archived>>

-----------------------------------------------------------------------------
(* How a failed check ends *)

Cleanup ==
    /\ At("cleanup")
    /\ Remove({txn.candidate, txn.final})
    /\ GoTo("write-failure")
    /\ UNCHANGED <<upd, active, previous, sess, op, branch, world, archived>>

\* A deletion fails and nobody is told: the failure of the update is recorded all
\* the same, and that record forgets the directory.
CleanupFails ==
    /\ At("cleanup")
    /\ LeaveBehind({txn.candidate, txn.final})
    /\ GoTo("write-failure")
    /\ UNCHANGED <<upd, active, previous, sess, op, branch, world, archived>>

FailureRecord == PreWorldFailure(txn.base, txn.latest, txn.block)

WriteFailure ==
    /\ At("write-failure")
    /\ upd' = FailureRecord
    /\ GoTo("handler")
    /\ UNCHANGED <<active, previous, dir, sess, op, branch, world, archived>>

\* StateStore.write raises where nothing catches it below prepare_start, with the
\* record replaced or not (the directory may fail to be synced), or the deletion of
\* an undone activation does.  A candidate directory that could not be recorded is
\* removed, if it can be.
StateWriteFails ==
    /\ \/ At("query") /\ CurrentBuild = branch /\ upd' \in {upd, UpToDateRecord}
            /\ UNCHANGED dir
       \/ At("write-downloading") /\ upd' \in {upd, DownloadingRecord}
            /\ (Remove({txn.candidate}) \/ LeaveBehind({txn.candidate}))
       \/ At("write-promoting") /\ UNCHANGED dir
            /\ \E r \in Release : Fresh(r) /\ upd' \in {upd, PromotingRecord(r)}
       \/ At("write-pending") /\ upd' \in {upd, PendingRecord} /\ UNCHANGED dir
       \/ At("undo-activation") /\ CutShort /\ UNCHANGED upd
       \/ At("write-undone") /\ upd' \in {upd, NoLongerInterrupted} /\ UNCHANGED dir
       \/ At("write-failure") /\ upd' \in {upd, FailureRecord} /\ UNCHANGED dir
    /\ GoTo("handler")
    /\ UNCHANGED <<active, previous, sess, op, branch, world, archived>>

\* prepare_start finishes the cleanup of a candidate that was left recorded.
Uncleaned == txn.by = "session" /\ upd.state \in Interrupted

HandlerRecovers ==
    /\ At("handler") /\ Uncleaned
    /\ Remove(Debris)
    /\ upd' = NoLongerInterrupted
    /\ UNCHANGED <<active, previous, txn, sess, op, branch, world, archived>>

\* That fails too: the known-good release is started, if there is one, all the same.
HandlerFails ==
    /\ At("handler") /\ Uncleaned
    /\ CutShort
    /\ IF active # None THEN Succeed ELSE Fail
    /\ UNCHANGED <<upd, active, previous, op, branch, world, archived>>

\* prepare_start starts the known-good release, unless the activation was under way.
StartKnownGood ==
    /\ At("handler") /\ txn.by = "session" /\ ~Uncleaned
    /\ active # None
    /\ upd.state \notin Held \cup {"activating"}
    /\ Succeed
    /\ UNCHANGED <<durable, op, branch, world, archived>>

\* Mutation of RaiseFailure: the error path does not release the lock.
RaiseWithLock ==
    /\ At("handler") /\ ~Uncleaned
    /\ txn.by = "session" => active = None \/ upd.state \in Held \cup {"activating"}
    /\ UNCHANGED vars

\* Otherwise, and for an explicit update always, the error is raised.
RaiseFailure ==
    /\ At("handler") /\ ~Uncleaned
    /\ txn.by = "session" => active = None \/ upd.state \in Held \cup {"activating"}
    /\ Fail
    /\ UNCHANGED <<durable, op, branch, world, archived>>

-----------------------------------------------------------------------------
(* The entrypoint *)

NoContainerTxn == txn.by \notin {"session", "exec"}

\* PID 1 ends: so does a command executed in the container.
ContainerEnds ==
    /\ sess' = Down
    /\ IF NoContainerTxn THEN UNCHANGED <<txn, dir>> ELSE txn' = NoTxn /\ CutShort

StartContainer ==
    /\ sess.pc = "down" /\ op = "idle"
    /\ sess' = [Down EXCEPT !.pc = "boot"]
    /\ UNCHANGED <<durable, txn, op, branch, world, archived>>

PrepareStart ==
    /\ sess.pc = "boot" /\ LockFree
    /\ Begin("session")
    /\ UNCHANGED <<durable, sess, op, branch, world, archived>>

\* The lock is held: prepare-start or mark-world-opened fails, and with it the container.
LockContended ==
    /\ sess.pc \in {"boot", "selected"} /\ txn.by = "exec"
    /\ ContainerEnds
    /\ UNCHANGED <<upd, active, previous, op, branch, world, archived>>

\* `pz-updater active-release`, read outside the transaction lock.
SelectRelease ==
    /\ sess.pc = "prepared"
    /\ sess' = [sess EXCEPT !.pc = "selected", !.selected = active]
    /\ UNCHANGED <<durable, txn, op, branch, world, archived>>

AwaitsWorld == upd.state \in {"pending-readiness", "starting-candidate"}
OpenedRecord == [upd EXCEPT !.state = "starting-candidate", !.opened = TRUE]

\* Mutation of MarkWorldOpened: the boundary is checked but not recorded.
CheckWorldOpened ==
    /\ sess.pc = "selected" /\ LockFree
    /\ sess' = IF AwaitsWorld => CandidateActive THEN [sess EXCEPT !.pc = "marked"] ELSE Down
    /\ UNCHANGED <<durable, txn, op, branch, world, archived>>

\* mark_world_opened: the boundary is recorded before the candidate is launched;
\* a candidate that is not the selected release ends the container.
MarkWorldOpened ==
    /\ sess.pc = "selected" /\ LockFree
    /\ upd' = IF AwaitsWorld /\ CandidateActive THEN OpenedRecord ELSE upd
    /\ sess' = IF AwaitsWorld => CandidateActive THEN [sess EXCEPT !.pc = "marked"] ELSE Down
    /\ UNCHANGED <<active, previous, dir, txn, op, branch, world, archived>>

\* The record cannot be written, or its directory not synced: nothing is launched.
MarkFails ==
    /\ sess.pc = "selected" /\ LockFree
    /\ AwaitsWorld /\ CandidateActive
    /\ upd' \in {upd, OpenedRecord}
    /\ sess' = Down
    /\ UNCHANGED <<active, previous, dir, txn, op, branch, world, archived>>

Launch ==
    /\ sess.pc = "marked"
    /\ sess' = [sess EXCEPT !.pc = "up", !.server = sess.selected]
    /\ world' = dir[sess.selected]
    /\ archived' = FALSE
    /\ UNCHANGED <<durable, txn, op, branch>>

\* The readiness poller runs until it reports: it has not in these phases.  An
\* answer it got just before the server exited may be reported after.
Polling == sess.pc \in {"up", "draining", "exited"}

\* What remains to do once the poller has ended, well or badly; `wait -n` may tell
\* the entrypoint of the poller or of the server that exited.
PollerEnded(well) ==
    \E pc \in CASE sess.pc = "exited" -> {"exited", "stopping"}
                 [] sess.pc = "up" /\ well -> {"ready"}
                 [] OTHER -> {"stopping"} :
        sess' = [sess EXCEPT !.pc = pc]

InReadiness == upd.state \in {"pending-readiness", "starting-candidate", "runtime-ready"}
CrossedAsRecorded == upd.opened /\ CandidateActive

ReadyRecord ==
    LET ready == [upd EXCEPT !.state = "runtime-ready"] IN
    IF ~InReadiness THEN upd
    ELSE IF Environment = "local" THEN Accepted(ready) ELSE ready

\* mark_runtime_ready after an exact RCON answer; the poller fails when it raises.
RuntimeReady ==
    /\ Polling /\ LockFree
    /\ upd' = IF InReadiness => CrossedAsRecorded THEN ReadyRecord ELSE upd
    /\ PollerEnded(InReadiness => CrossedAsRecorded)
    /\ UNCHANGED <<active, previous, dir, txn, op, branch, world, archived>>

\* The record cannot be written, or its directory not synced.
ReadyFails ==
    /\ Polling /\ LockFree
    /\ InReadiness => CrossedAsRecorded
    /\ upd' \in {upd, ReadyRecord}
    /\ PollerEnded(FALSE)
    /\ UNCHANGED <<active, previous, dir, txn, op, branch, world, archived>>

\* fail_readiness: a candidate that crossed the boundary has failed for good.
FailedRecord == [upd EXCEPT !.state = "failed-after-world-open"]
RecordReadinessFailure ==
    upd' = IF InReadiness /\ CrossedAsRecorded THEN FailedRecord ELSE upd

\* The poller times out, or finds the server process gone; it may be unable to
\* record that.
ReadinessFails ==
    /\ Polling /\ LockFree
    /\ RecordReadinessFailure \/ UNCHANGED upd
    /\ PollerEnded(FALSE)
    /\ UNCHANGED <<active, previous, dir, txn, op, branch, world, archived>>

\* The lock is held when the poller wants to record its result: it fails.
ReadinessContended ==
    /\ Polling /\ ~LockFree
    /\ PollerEnded(FALSE)
    /\ UNCHANGED <<durable, txn, op, branch, world, archived>>

\* docker stop while the server runs: the entrypoint asks the server to quit.
RequestStop ==
    /\ sess.pc \in {"up", "ready"} /\ sess.server # None
    /\ sess' = [sess EXCEPT !.pc = IF @ = "up" THEN "draining" ELSE "stopping"]
    /\ UNCHANGED <<durable, txn, op, branch, world, archived>>

\* The server exits, asked to or not.  Before readiness the entrypoint must
\* record it; while it drains the poller may still notice.
ServerExits ==
    /\ sess.server # None
    /\ sess' = [sess EXCEPT !.server = None,
                            !.pc = CASE @ = "up" -> "exited" [] @ = "ready" -> "stopping"
                                     [] OTHER -> @]
    /\ UNCHANGED <<durable, txn, op, branch, world, archived>>

\* fail-readiness after the server exited; its failure is only logged.
RecordExit ==
    /\ sess.pc = "exited"
    /\ (LockFree /\ RecordReadinessFailure) \/ UNCHANGED upd
    /\ ContainerEnds
    /\ UNCHANGED <<active, previous, op, branch, world, archived>>

\* The entrypoint kills a poller that is left and returns.
EntrypointReturns ==
    /\ sess.pc \in {"draining", "stopping"} /\ sess.server = None
    /\ ContainerEnds
    /\ UNCHANGED <<upd, active, previous, op, branch, world, archived>>

\* The container, or the whole host, is killed.
KillContainer ==
    /\ sess.pc # "down"
    /\ ContainerEnds
    /\ UNCHANGED <<upd, active, previous, op, branch, world, archived>>

-----------------------------------------------------------------------------
(* The operator, Steam and the host *)

\* Mutation of Quiesce: the update does not wait for the server to be down.
QuiesceAnyway ==
    /\ op = "idle"
    /\ op' = "quiesced"
    /\ UNCHANGED <<durable, txn, sess, branch, world, archived>>

\* pzctl holds the lifecycle lock and has stopped the server and the watchdog.
Quiesce ==
    /\ op = "idle" /\ sess.pc = "down"
    /\ op' = "quiesced"
    /\ UNCHANGED <<durable, txn, sess, branch, world, archived>>

\* `docker compose run ... pz-updater update`, or the same executed in the
\* game container, where nothing but the process check holds it back.
ExplicitUpdate ==
    /\ LockFree
    /\ \/ op = "quiesced" /\ Begin("run")
       \/ ExecUpdate /\ sess.pc # "down" /\ Begin("exec")
    /\ UNCHANGED <<durable, sess, op, branch, world, archived>>

\* The update container is killed.
KillUpdate ==
    /\ txn.by = "run"
    /\ txn' = NoTxn /\ CutShort
    /\ UNCHANGED <<upd, active, previous, sess, op, branch, world, archived>>

\* pzctl starts the stack again, whatever became of the update.
Resume ==
    /\ op = "quiesced" /\ LockFree
    /\ op' = "idle"
    /\ UNCHANGED <<durable, txn, sess, branch, world, archived>>

\* `pz-updater accept`, executed by pzctl once the host has seen the server ready.
Accept ==
    /\ Environment = "aws"
    /\ sess.pc # "down" /\ LockFree
    /\ upd.state = "runtime-ready" /\ upd.opened /\ CandidateActive
    /\ upd' = Accepted(upd)
    /\ UNCHANGED <<active, previous, dir, txn, sess, op, branch, world, archived>>

\* Steam publishes another build on the branch, or withdraws one.
Publish ==
    /\ branch' \in Build \ {branch}
    /\ UNCHANGED <<durable, txn, sess, op, world, archived>>

\* The root volume is lost; the data volume keeps the world and its archives.
ReplaceHost ==
    /\ HostReplacement
    /\ upd' = Uninitialized /\ active' = None /\ previous' = None
    /\ dir' = [r \in Release |-> Absent]
    /\ txn' = NoTxn /\ sess' = Down /\ op' = "idle"
    /\ UNCHANGED <<branch, world, archived>>

-----------------------------------------------------------------------------
Recovery == RecoverNothing \/ RecoverClean \/ RecoverWrite \/ RecoverActivated

Decision == ResumeCandidate \/ SkipCheck \/ DecideCheck \/ UpdateRefused

Check == NoUpdate \/ DowngradeRefused \/ BlockedRefused \/ NewBuildFound

Staging ==
    \/ StageRefused \/ DiscardPrevious \/ UnlinkPrevious \/ StageFirst \/ MakeCandidate
    \/ WriteDownloading \/ Install \/ Validate \/ ValidateRejects \/ Backup

Activation ==
    \/ WritePromoting \/ Rename \/ WriteActivating \/ WritePrevious \/ WriteActive
    \/ WritePending

Failure ==
    \/ UndoActivation \/ WriteUndone \/ Cleanup \/ WriteFailure
    \/ HandlerRecovers \/ StartKnownGood \/ RaiseFailure

\* What may go wrong inside a command without stopping it.
InputOutputFault ==
    \/ RecoverFails \/ PrepareActiveFails \/ QueryFails \/ PreconditionFails
    \/ StagingFails \/ PromotionFails \/ ActivationFails \/ StateWriteFails
    \/ CleanupFails \/ HandlerFails

Transact == Recovery \/ Decision \/ Check \/ Staging \/ Activation \/ Failure

Entrypoint ==
    \/ PrepareStart \/ LockContended \/ SelectRelease \/ MarkWorldOpened \/ Launch
    \/ RuntimeReady \/ ReadinessContended \/ RecordExit \/ EntrypointReturns

Operator == Quiesce \/ ExplicitUpdate \/ Resume \/ Accept

Environs ==
    \/ DeploymentPending \/ MarkFails \/ ReadyFails \/ ReadinessFails
    \/ KillContainer \/ KillUpdate \/ Publish \/ ReplaceHost

Next ==
    \/ Transact \/ InputOutputFault \/ Entrypoint \/ Operator \/ Environs
    \/ StartContainer \/ RequestStop \/ ServerExits

Spec == Init /\ [][Next]_vars

-----------------------------------------------------------------------------
(* Safety *)

\* The selected release is always a complete installation with a supported
\* launcher: no interruption of a download, a promotion or a deletion, and no
\* partial write order, leaves the pointer on anything else.
ActiveLaunchable == active # None => Launchable(dir[active])

\* While a candidate awaits or has crossed the world boundary, it is the
\* selected release and its manifest is the recorded candidate build, so that
\* readiness and acceptance speak of the binaries that run.
CandidateSelected == upd.state \in Held => CandidateActive

\* A running server is the selected release, and never a candidate whose world
\* boundary is not on record (entrypoint.sh: mark-world-opened, then launch).
ServerCrossedBoundary ==
    sess.server # None =>
        /\ sess.server = active
        /\ upd.state # "pending-readiness"
        /\ upd.state \in Held => upd.opened

\* A directory that holds data; what a cleanup failed to delete is not counted.
Populated(r) == dir[r] \notin {Left, Absent, Empty}

\* One active release and one isolated candidate are all the space an update
\* needs (README: root volume size), whatever is killed: never three populated
\* releases, besides what a cleanup that ignores errors left (Left).
TwoReleases == Cardinality({r \in Release : Populated(r)}) <= 2

\* Until the candidate is accepted, the release it replaced stays complete on
\* disk and previous-release names it: manual recovery can still select it.
FallbackKept ==
    upd.state \in Held /\ upd.previousRelease # None =>
        /\ previous = upd.previousRelease
        /\ Launchable(dir[previous])

\* No kill, no failed write and no failed download makes the program forget a
\* directory: one that holds data is selected, kept as the previous release,
\* recorded in the state, or owned by a live command.  The one way to forget one
\* is a cleanup whose own deletion fails in silence (CleanupFails).
NoLeakedRelease ==
    \A r \in Release : Populated(r) =>
        r \in {active, previous, upd.candidateRelease, upd.promotedRelease, txn.candidate}

\* No candidate is downloaded or activated under a running server.
Busy == {"unlink-previous", "mkdir", "write-downloading", "install", "validate", "backup",
         "write-promoting", "rename", "write-activating", "write-previous", "write-active"}
NoStagingUnderServer == txn.pc \in Busy => sess.server = None

\* The first launch of a newer build finds a verified archive of exactly the
\* world it is about to migrate.
ArchivedBeforeMigration ==
    [][ /\ sess'.server # None /\ sess.server = None
        /\ world # 0 /\ world' # world
        => archived ]_vars

\* No server opens the world with an older build than one that opened it before.
NoWorldDowngrade ==
    [][sess'.server # None /\ sess.server = None => world' >= world]_vars

\* failed-after-world-open is final for automation: no command leaves it, and
\* none selects another release (manual recovery is outside the program).
FailedStaysSelected ==
    [][upd.state = "failed-after-world-open" => UNCHANGED <<upd, active>>]_vars

\* The selection changes only before the world boundary: a release that may
\* have opened the world in an unaccepted state is never deselected.
SelectionSettled ==
    [][upd.state \in Held => active' = active]_vars

-----------------------------------------------------------------------------
(* Liveness; MCGameUpdaterLive states the fairness *)

\* Whoever takes the transaction lock gives it back.
LockReleased == []<>LockFree

\* A candidate that is being staged, activated or tried out reaches a verdict:
\* it is accepted, given up, or failed for good.
Verdicts == {"uninitialized", "current", "failed-before-world-open", "failed-after-world-open"}
CandidateSettles == upd.state \notin Verdicts ~> upd.state \in Verdicts

\* A failure before the world boundary is retried by a later start until the
\* branch build is staged, unless that build is unsupported, blocked or older.
Settled ==
    \/ upd.state \in Held \cup {"current"}
    \/ branch \in Incompatible \cup {upd.blocked} \/ branch < CurrentBuild
Retries == upd.state = "failed-before-world-open" ~> Settled

\* The same as far as the code keeps it: a previous-release pointer left
\* dangling by a kill between rmtree and unlink stops every later attempt.
RetriesUnlessDangling ==
    upd.state = "failed-before-world-open" ~> Settled \/ ~Readable(previous)

=============================================================================
