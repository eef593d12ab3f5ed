--------------------------- MODULE HostLifecycle ---------------------------
(***************************************************************************)
(* The AWS host around the watchdog: systemd's pz-stack.service and        *)
(* pz-watchdog.service, boot and power loss, and the operator's commands   *)
(* pzctl start, graceful-stop, restart, update, shutdown-host and          *)
(* pz-backup, which exclude each other by an flock.                        *)
(*                                                                         *)
(* The daemon does not take that lock.  A command keeps it away by         *)
(* stopping pz-watchdog.service first, and runs a one-shot pz-watchdog     *)
(* that stops the server (IdleWatchdog's process "command").               *)
(***************************************************************************)
EXTENDS IdleWatchdog

CONSTANTS
    Kills       \* may a lifecycle command be killed?

ASSUME KillAssumption == Kills \in BOOLEAN

VARIABLES
    stack,      \* pz-stack.service, and whether pz-watchdog.service follows it
    ctl         \* the command that holds the lifecycle lock, and its locals

vars == <<watchdogVars, stack, ctl>>

Kinds == {"start", "stop", "restart", "update", "shutdown", "backup"}

Stopped == [state |-> "inactive", by |-> "none", watch |-> FALSE]
Starting(who, watch) == [state |-> "building", by |-> who, watch |-> watch]

NoCtl == [kind |-> "none", pc |-> "idle", allow |-> FALSE,
          watched |-> FALSE, owed |-> FALSE, ran |-> FALSE]

\* The start job of pz-stack.service: pz-start-stack runs, with the lock or on
\* the authority of the pzctl that has it (lock_source).
InStart == stack.state \in {"building", "waiting"}
StartHolds == InStart /\ stack.by = "direct"

\* /run/pz-server-backup.lock
LockFree == ctl.kind = "none" /\ ~StartHolds

Step(pc) == host = "on" /\ ctl.pc = pc
Continue(pc) == ctl' = [ctl EXCEPT !.pc = pc]

\* A command that fails releases the lock with its process; pz-backup runs its
\* exit trap first.
GiveUp == ctl' = IF ctl.kind = "backup" THEN [ctl EXCEPT !.pc = "trap"] ELSE NoCtl

-----------------------------------------------------------------------------
(* systemctl *)

\* is-active does not count a daemon that awaits its automatic restart.
IsActive == run["daemon"].pc \notin {"off", "down"}

\* What is left of the daemon when systemd stops it, whatever it was doing.
DaemonGone ==
    /\ server' \in Effects(run["daemon"].pc)
    /\ dog' = Idle /\ seen' = Spent

StopDaemon == Goto("daemon", "off") /\ DaemonGone

\* start pz-watchdog.service: its requirement pz-stack cannot start under the lock.
StartDaemon(runs) ==
    run' = IF IsActive \/ stack.state # "active" THEN runs
           ELSE [runs EXCEPT !["daemon"].pc = "query"]

CommandOff == [run EXCEPT !["command"].pc = "off"]

\* Mutation of StackStops: pz-watchdog.service is not PartOf pz-stack.service.
StackStopsAlone == server' \in Halted({server}) /\ UNCHANGED <<run, dog, seen>>

\* stop or restart pz-stack.service: pz-watchdog.service goes first (PartOf), a
\* start job in progress is cancelled (cancel_start), ExecStop stops the container.
StackStops ==
    /\ server' \in Halted(Effects(run["daemon"].pc))
    /\ Goto("daemon", "off")
    /\ dog' = Idle /\ seen' = Spent

-----------------------------------------------------------------------------
(* pz-start-stack *)

\* `docker compose up --build --wait`: the container is created or started ...
ComposeUp ==
    /\ host = "on" /\ stack.state = "building"
    /\ stack' = [stack EXCEPT !.state = "waiting"]
    /\ server' = IF Running THEN server ELSE Fresh
    /\ UNCHANGED <<host, run, dog, seen, ctl>>

\* ... and becomes healthy, whereupon systemd starts what waits for the stack.
StackReady ==
    /\ host = "on" /\ stack.state = "waiting"
    /\ Running /\ server.health = "healthy"
    /\ stack' = [state |-> "active", by |-> "none", watch |-> FALSE]
    /\ run' = [run EXCEPT !["daemon"].pc = IF stack.watch THEN "query" ELSE @]
    /\ UNCHANGED <<host, server, dog, seen, ctl>>

\* The build or the wait fails, and the container stays as it is; or systemd's
\* timeout cancels the start.
StackFails ==
    /\ host = "on" /\ InStart
    /\ stack' = Stopped
    /\ server' \in {server} \cup Halted({server})
    /\ UNCHANGED <<host, run, dog, seen, ctl>>

\* EC2 starts the instance; systemd starts both units.
Boot ==
    /\ host = "off"
    /\ host' = "on"
    /\ stack' = Starting("direct", TRUE)
    /\ UNCHANGED <<server, run, dog, seen, ctl>>

HostDown == stack' = Stopped /\ ctl' = NoCtl

PowerLoss ==
    /\ host = "on"
    /\ host' = "off"
    /\ server' = IF Running THEN Exited("unclean") ELSE server
    /\ run' = AllDown /\ dog' = Idle /\ seen' = NothingSeen
    /\ HostDown

-----------------------------------------------------------------------------
(* The guarded stop: graceful_stop_with_watchdog and shutdown_host *)

FirstPc(kind) ==
    CASE kind = "start" -> "inspect"
      [] kind = "update" -> "survey"
      [] kind = "backup" -> "suspend"
      [] OTHER -> "quiesce"

Acquire(kind, allow) ==
    /\ host = "on" /\ LockFree
    /\ ctl' = [NoCtl EXCEPT !.kind = kind, !.pc = FirstPc(kind), !.allow = allow]
    /\ UNCHANGED <<watchdogVars, stack>>

\* Mutation of Quiesce: only a daemon that is active is stopped, as in pz-backup.
QuiesceActive ==
    /\ Step("quiesce")
    /\ ctl' = [ctl EXCEPT !.pc = "launch", !.watched = IsActive]
    /\ IF IsActive THEN StopDaemon ELSE UNCHANGED <<server, run, dog, seen>>
    /\ stack' = [stack EXCEPT !.watch = FALSE]
    /\ UNCHANGED host

\* The daemon is stopped, and a start of it that waits for the stack cancelled.
Quiesce ==
    /\ Step("quiesce")
    /\ ctl' = [ctl EXCEPT !.pc = "launch", !.watched = IsActive]
    /\ StopDaemon
    /\ stack' = [stack EXCEPT !.watch = FALSE]
    /\ UNCHANGED host

QuiesceFails ==
    /\ Step("quiesce")
    /\ GiveUp
    /\ UNCHANGED <<watchdogVars, stack>>

Launch ==
    /\ Step("launch")
    /\ RunCommand(IF ctl.kind = "shutdown" THEN "shutdown" ELSE "stop", ctl.allow)
    /\ Continue("await")
    /\ UNCHANGED stack

\* The one-shot stopped the server; `shutdown-host` has nothing left to do.
Succeeded ==
    /\ Step("await") /\ At("command", "done")
    /\ run' = CommandOff
    /\ IF ctl.kind = "shutdown" THEN ctl' = NoCtl ELSE Continue("stop-unit")
    /\ UNCHANGED <<host, server, dog, seen, stack>>

\* Mutation of Failed: the watchdog is not restored.
FailedUnwatched ==
    /\ Step("await") /\ At("command", "failed")
    /\ run' = CommandOff
    /\ GiveUp
    /\ UNCHANGED <<host, server, dog, seen, stack>>

\* It refused or failed: the watchdog is restored.
Failed ==
    /\ Step("await") /\ At("command", "failed")
    /\ IF ctl.watched THEN StartDaemon(CommandOff) ELSE run' = CommandOff
    /\ GiveUp
    /\ UNCHANGED <<host, server, dog, seen, stack>>

StopUnit ==
    /\ Step("stop-unit")
    /\ StackStops /\ stack' = Stopped
    /\ CASE ctl.kind = "stop" -> ctl' = NoCtl
         [] ctl.kind = "restart" -> Continue("inspect")
         [] ctl.kind = "update" -> Continue("updater")
         [] OTHER -> Continue("archive")
    /\ UNCHANGED host

StopUnitFails ==
    /\ Step("stop-unit")
    /\ Continue("recover")
    /\ UNCHANGED <<watchdogVars, stack>>

\* Does pz-start-stack get the lock, or find a pzctl start that authorises it?
MayStart == LockFree \/ ctl.pc = "up"

\* `systemctl restart pz-stack`, then the watchdog, whose start needs the stack.
Recover ==
    /\ Step("recover")
    /\ StackStops
    /\ stack' = IF MayStart THEN Starting("direct", ctl.watched) ELSE Stopped
    /\ GiveUp
    /\ UNCHANGED host

-----------------------------------------------------------------------------
(* start_stack *)

InspectRunning ==
    /\ Step("inspect") /\ Running
    /\ IF stack.state = "active" THEN Continue("adopt") ELSE ctl' = NoCtl
    /\ UNCHANGED <<watchdogVars, stack>>

InspectClean ==
    /\ Step("inspect") /\ server.ctr = "clean"
    /\ Continue("begin-up")
    /\ UNCHANGED <<watchdogVars, stack>>

\* An unclean exit, or an inspection that fails
InspectRefuses ==
    /\ Step("inspect")
    /\ ctl' = NoCtl
    /\ UNCHANGED <<watchdogVars, stack>>

Adopt ==
    /\ Step("adopt")
    /\ StartDaemon(run)
    /\ ctl' = NoCtl
    /\ UNCHANGED <<host, server, dog, seen, stack>>

\* restart pz-stack.service under authorisation; a daemon that ran follows it.
BeginUp ==
    /\ Step("begin-up")
    /\ StackStops
    /\ stack' = Starting("authorized", run["daemon"].pc # "off")
    /\ Continue("up")
    /\ UNCHANGED host

UpSucceeds ==
    /\ Step("up") /\ stack.state = "active"
    /\ run' = [run EXCEPT !["daemon"].pc = "query"]
    /\ DaemonGone
    /\ ctl' = NoCtl
    /\ UNCHANGED <<host, stack>>

\* Mutation of UpFails: it waits for a stack that failed.
UpWaits == Step("up") /\ stack.state = "inactive" /\ UNCHANGED vars

UpFails ==
    /\ Step("up") /\ stack.state = "inactive"
    /\ ctl' = NoCtl
    /\ UNCHANGED <<watchdogVars, stack>>

-----------------------------------------------------------------------------
(* pzctl update and pz-backup *)

\* quiesce_for_deployment
Survey ==
    /\ Step("survey")
    /\ CASE Running -> Continue("quiesce")
         [] server.ctr = "clean" -> Continue("stop-both")
         [] OTHER -> ctl' = NoCtl
    /\ UNCHANGED <<watchdogVars, stack>>

StopBoth ==
    /\ Step("stop-both")
    /\ StackStops /\ stack' = Stopped
    /\ Continue("survey-again")
    /\ UNCHANGED host

SurveyAgain ==
    /\ Step("survey-again")
    /\ IF server.ctr = "clean" THEN Continue("updater") ELSE ctl' = NoCtl
    /\ UNCHANGED <<watchdogVars, stack>>

\* systemctl or an inspection fails.
SurveyFails ==
    /\ Step("survey") \/ Step("stop-both") \/ Step("survey-again")
    /\ ctl' = NoCtl
    /\ UNCHANGED <<watchdogVars, stack>>

\* The one-off updater container (GameUpdater) succeeds or fails; either way
\* the stack is started.
UpdaterEnds ==
    /\ Step("updater")
    /\ Continue("inspect")
    /\ UNCHANGED <<watchdogVars, stack>>

\* pz-backup stops a watchdog that is active, and only such a one.
Suspend ==
    /\ Step("suspend")
    /\ ctl' = [ctl EXCEPT !.pc = "look", !.owed = IsActive]
    /\ IF IsActive THEN StopDaemon ELSE UNCHANGED <<server, run, dog, seen>>
    /\ UNCHANGED <<host, stack>>

Look(answer) ==
    /\ Step("look") /\ answer \in Answers
    /\ IF Running
       THEN IF answer = "none" \/ (answer = "some" /\ ctl.allow)
            THEN ctl' = [ctl EXCEPT !.pc = "quiesce", !.ran = TRUE]
            ELSE GiveUp
       ELSE IF server.ctr = "clean" THEN Continue("archive") ELSE GiveUp
    /\ UNCHANGED <<watchdogVars, stack>>

BackupFails ==
    /\ Step("suspend") \/ Step("look")
    /\ ctl' = [ctl EXCEPT !.pc = "trap", !.owed = @ \/ (ctl.pc = "suspend" /\ IsActive)]
    /\ UNCHANGED <<watchdogVars, stack>>

\* tar ends, and the archive is kept if the container is still cleanly stopped;
\* kept or not, the exit trap is next.
Archived ==
    /\ Step("archive")
    /\ Continue("trap")
    /\ UNCHANGED <<watchdogVars, stack>>

\* restart_if_needed
Trap ==
    /\ Step("trap")
    /\ IF ctl.ran THEN ctl' = [ctl EXCEPT !.kind = "start", !.pc = "inspect"]
                        /\ UNCHANGED run
       ELSE ctl' = NoCtl /\ IF ctl.owed THEN StartDaemon(run) ELSE UNCHANGED run
    /\ UNCHANGED <<host, server, dog, seen, stack>>

\* A command and its one-shot are killed.  A start job it ordered goes on: with
\* the lock if it had not yet looked, and otherwise without.
KillCommand ==
    /\ Kills /\ host = "on" /\ ctl.kind # "none"
    /\ server' \in Effects(run["command"].pc)
    /\ run' = CommandOff
    /\ stack' \in {stack} \cup
           (IF Step("up") /\ stack.state = "building"
            THEN {[stack EXCEPT !.by = "direct"]} ELSE {})
    /\ ctl' = [NoCtl EXCEPT !.pc = "killed"]
    /\ UNCHANGED <<host, dog, seen>>

-----------------------------------------------------------------------------
(* The specification *)

\* The installation has started both units.
HostInit == Init /\ stack = [Stopped EXCEPT !.state = "active"] /\ ctl = NoCtl

Watchdog ==
    /\ Engine \/ DaemonRestarts \/ \E a \in Actor : Coordinator(a) \/ Dies(a)
    /\ IF host' = "off" THEN HostDown ELSE UNCHANGED <<stack, ctl>>

GuardedStop ==
    \/ Quiesce \/ QuiesceFails \/ Launch \/ Succeeded \/ Failed
    \/ StopUnit \/ StopUnitFails \/ Recover

StartStack ==
    \/ InspectRunning \/ InspectClean \/ InspectRefuses \/ Adopt
    \/ BeginUp \/ UpSucceeds \/ UpFails

UpdateOrBackup ==
    \/ Survey \/ StopBoth \/ SurveyAgain \/ SurveyFails \/ UpdaterEnds
    \/ Suspend \/ BackupFails \/ (\E answer \in Answers : Look(answer)) \/ Archived \/ Trap

Systemd == ComposeUp \/ StackReady \/ StackFails \/ Boot

HostNext ==
    \/ Watchdog
    \/ Environs /\ UNCHANGED <<stack, ctl>>
    \/ GuardedStop \/ StartStack \/ UpdateOrBackup \/ Systemd
    \/ \E kind \in Kinds, allow \in BOOLEAN : Acquire(kind, allow)
    \/ KillCommand \/ PowerLoss

HostSpec == HostInit /\ [][HostNext]_vars

-----------------------------------------------------------------------------
(* Properties *)

CtlPcs == {"idle", "killed", "inspect", "survey", "suspend", "quiesce", "launch",
           "await", "stop-unit", "recover", "adopt", "begin-up", "up", "stop-both",
           "survey-again", "updater", "look", "archive", "trap"}

\* Every variable of the host has its type; a process of the watchdog or a command
\* runs only on a host that is on, and the daemon only beside an active stack.
HostTypeOK ==
    /\ TypeOK
    /\ stack \in [state : {"inactive", "building", "waiting", "active"},
                   by : {"none", "direct", "authorized"}, watch : BOOLEAN]
    /\ ctl \in [kind : Kinds \cup {"none"}, pc : CtlPcs, allow : BOOLEAN,
                 watched : BOOLEAN, owed : BOOLEAN, ran : BOOLEAN]
    /\ host = "off" => ctl.kind = "none" /\ \A a \in Actor : run[a].pc = "off"
    /\ run["daemon"].pc # "off" => stack.state = "active"

\* The daemon and the one-shot of a command are never at work at the same time.
Apart == run["command"].pc # "off" => run["daemon"].pc = "off"

\* Power-off is ordered only over a server that exited cleanly and is still down,
\* whoever else starts or restarts it (docs/watchdog.md, invariant 6).
PowerOffClean == \A a \in Actor : At(a, "poweroff") => server.ctr = "clean"

\* Once a command has stopped the server, nothing but the command's own start
\* brings it back: no daemon, restart of a daemon or start job does while the unit
\* is stopped, the updater stages a release, or tar reads the world.
DownUntilStarted ==
    \/ ctl.pc \in {"stop-unit", "recover", "updater"}
    \/ ctl.pc = "archive" /\ ctl.ran
    \/ ctl.pc = "begin-up" /\ ctl.kind \in {"restart", "update"}
    => ~Running

\* A command that ends with the stack active leaves the watchdog running if it had
\* stopped an active one, unless it is killed, its start refuses over a container it
\* cannot show to be running or cleanly stopped, or it is a shutdown-host under
\* DRY_RUN, which stops the watchdog, does nothing and succeeds.
WatchKept ==
    [][ctl.kind # "none" /\ ctl'.kind = "none" /\ ctl'.pc # "killed" /\ ctl.pc # "inspect"
       /\ ~(DryRun /\ ctl.kind = "shutdown")
       /\ (ctl.watched \/ ctl.owed) /\ host' = "on" /\ stack'.state = "active"
         => run'["daemon"].pc # "off"]_vars

\* scripts/linux/pzctl:124: "attempting recovery": the restart may start the stack.
RecoveryRestarts ==
    [][ctl.pc = "recover" /\ ctl'.pc \notin {"recover", "killed"} /\ host' = "on"
         => stack'.state # "inactive"]_vars

=============================================================================
