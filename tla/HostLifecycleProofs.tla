------------------------ MODULE HostLifecycleProofs ------------------------
(***************************************************************************)
(* Proofs about HostLifecycle, for every timeout and number of checks,     *)
(* with and without kills: the daemon and the commands stay apart, and a   *)
(* server that a command has stopped stays down.                           *)
(*                                                                         *)
(* The lock does not say any of this by itself, because neither the daemon *)
(* nor a start job left by a killed command holds it.  The invariant says  *)
(* where each of them can still be: a start job that has not created the   *)
(* container yet finds it down, so that a one-shot that has saved the      *)
(* world cannot have one beside it.                                        *)
(***************************************************************************)
EXTENDS HostLifecycle, IdleWatchdogProofs

(***************************************************************************)
(* The inductive invariant                                                 *)
(***************************************************************************)

\* Where a one-shot may be, and where it has seen a running server saved.
Rest == {"off", "eligible", "before-save", "save", "failed"}
AfterSaving == {"after-save", "stop", "verify", "is-stopped", "poweroff", "revive"}
CommandPcs == Rest \cup AfterSaving \cup {"await", "done"}

Stacks == [state : {"inactive", "building", "waiting", "active"},
           by : {"none", "direct", "authorized"}, watch : BOOLEAN]
Ctls == [kind : Kinds \cup {"none"}, pc : CtlPcs, allow : BOOLEAN,
         watched : BOOLEAN, owed : BOOLEAN, ran : BOOLEAN]

\* The units and the command are consistent with the host and the daemon.
HostForm ==
    /\ stack \in Stacks /\ ctl \in Ctls
    /\ ctl.kind = "none" <=> ctl.pc \in {"idle", "killed"}
    /\ host = "off" => /\ ctl.kind = "none" /\ ~Running /\ stack.state = "inactive"
                       /\ \A a \in Actor : run[a].pc = "off"
    /\ run["daemon"].pc # "off" => stack.state = "active"

\* The one-shot is at work only while its command waits for it, with the plan the
\* command gave it, and the daemon is then neither running nor about to.  A host
\* that is on after a shutdown-host that succeeded is one under DRY_RUN.
OneShot ==
    LET pc == run["command"].pc
    IN  /\ pc \in CommandPcs
        /\ pc # "off" => ctl.pc = "await"
        /\ pc # "off" =>
              run["command"].plan = IF ctl.kind = "shutdown" THEN "shutdown" ELSE "stop"
        /\ pc = "done" /\ run["command"].plan = "shutdown" => DryRun
        /\ ctl.pc \in {"launch", "await"} => run["daemon"].pc = "off" /\ ~stack.watch

\* A start job that has not yet created the container finds it down, so that a
\* one-shot that has saved the world has none beside it.
BuildsOverStopped ==
    /\ stack.state = "building" => ~Running
    /\ run["command"].pc \in AfterSaving => stack.state # "building"
    /\ run["command"].pc = "done" /\ run["command"].plan = "stop" =>
          ~Running /\ stack.state # "building"

\* Where a command keeps the server down, no start job is left that could create it.
HeldDown ==
    /\ ctl.pc \in {"suspend", "look"} => ~ctl.ran
    /\ ctl.pc \in {"stop-unit", "recover"} =>
          ~Running /\ stack.state # "building" /\ run["daemon"].pc = "off"
    /\ \/ ctl.pc \in {"updater", "survey-again"}
       \/ ctl.pc = "archive" /\ ctl.ran
       \/ ctl.pc \in {"inspect", "begin-up"} /\ ctl.kind \in {"restart", "update"}
       => ~Running /\ stack.state = "inactive"

\* IdleWatchdog's own invariant holds beside them.
HostPart == HostForm /\ OneShot /\ BuildsOverStopped /\ HeldDown /\ PowerOffClean
HInv == IInv /\ HostPart

(***************************************************************************)
(* What the host does to the watchdog keeps the watchdog's invariant       *)
(***************************************************************************)

\* Docker leaves a container in form, and brings no player.
LEMMA DockerSound ==
    ASSUME ServerOK, NEW pc \in Pcs,
           server' \in {server} \cup Effects(pc) \cup Halted({server}) \cup Halted(Effects(pc))
    PROVE  server' \in Containers /\ (server'.occupied => server.occupied)
  <1>1. server \in Containers /\ Exits \subseteq Containers /\ Effects(pc) \subseteq Containers
        /\ Halted({server}) \subseteq Containers
    BY ContainerOK, FreshOrExited, DockerKeepsForm
  <1>2. \A s \in Exits \cup Halted({server}) \cup Effects(pc) : s.occupied => server.occupied
    BY DockerBringsNobody
  <1>3. Halted(Effects(pc)) \subseteq Effects(pc) \cup Exits
    BY DEF Halted
  <1> QED BY <1>1, <1>2, <1>3

\* After a stop of the unit the server is down.
LEMMA HaltedDown ==
    ASSUME NEW states, server' \in Halted(states)
    PROVE  ~Running'
  BY DEF Halted, Exits, Exited, Running

\* A daemon that is stopped or begins anew claims nothing.
LEMMA WatchdogKept ==
    ASSUME IInv, host' \in {"on", "off"},
           server' \in Containers, server'.occupied => server.occupied,
           run' \in Processes, run'["daemon"].allow = FALSE,
           run'["daemon"].pc \in {run["daemon"].pc, "off", "query"},
           \/ UNCHANGED <<dog, seen>>
           \/ dog' = Idle /\ seen' = Spent /\ run'["daemon"].pc \in {"off", "query"},
           \A b \in Actor : run'[b].pc = "stop" => run'[b] = run[b]
    PROVE  IInv'
  <1>1. ServerOK' /\ ProcessesOK'
    BY DEF ServerOK, Containers, Running, ProcessesOK, Processes
  <1>2. DaemonOK'
    <2>1. CASE UNCHANGED <<dog, seen>> /\ run'["daemon"].pc = run["daemon"].pc
      BY <2>1, DaemonFrame DEF IInv
    <2>2. CASE UNCHANGED <<dog, seen>> /\ run'["daemon"].pc \in {"off", "query"}
      <3>1. dog' \in State /\ seen' \in History /\ TimersBacked'
        BY <2>2 DEF IInv, DaemonOK, TimersBacked
      <3>2. run'["daemon"].pc \in Unclaimed
        BY <2>2 DEF Unclaimed, Pcs, BeforeSaving, Saving, Stopping
      <3> QED BY <3>1, <3>2, NothingClaimed
    <2>3. CASE dog' = Idle /\ seen' = Spent /\ run'["daemon"].pc \in {"off", "query"}
      <3>1. seen' \in History
        BY <2>3, SpentTyped DEF IInv, DaemonOK
      <3>2. run'["daemon"].pc \in Unclaimed
        BY <2>3 DEF Unclaimed, Pcs, BeforeSaving, Saving, Stopping
      <3> QED BY <2>3, <3>1, <3>2, TimersStopped, NothingClaimed DEF IInv
    <2> QED BY <2>1, <2>2, <2>3
  <1>3. seen'.late = seen.late
    BY DEF Spent, IInv, DaemonOK, History
  <1>4. NobodyDropped'
    BY <1>3, Calm DEF IInv
  <1> QED BY <1>1, <1>2, <1>4 DEF IInv

\* Power loss leaves nothing at work.
LEMMA PowerLossKept == ASSUME IInv, PowerLoss PROVE IInv'
  <1>1. ServerOK'
    <2>1. Exits \subseteq Containers /\ server \in Containers
      BY ContainerOK, FreshOrExited DEF IInv
    <2>2. server' \in Containers
      BY <2>1 DEF PowerLoss, Exits
    <2> QED BY <2>2 DEF ServerOK, Containers, Running
  <1>2. ProcessesOK' /\ \A a \in Actor : run'[a].pc = "off"
    BY DEF PowerLoss, AllDown, IInv, ProcessesOK, Processes, Pcs, Actor
  <1>3. DaemonOK'
    <2>1. dog' \in State /\ TimersBacked'
      BY TimersStopped DEF PowerLoss, IInv
    <2>2. seen' \in History
      BY CheckAssumption DEF PowerLoss, NothingSeen, History, Timer
    <2>3. run'["daemon"].pc \in Unclaimed
      BY <1>2 DEF Unclaimed, Pcs, BeforeSaving, Saving, Stopping, Actor
    <2> QED BY <2>1, <2>2, <2>3, NothingClaimed
  <1>4. NobodyDropped'
    BY <1>2 DEF NobodyDropped
  <1> QED BY <1>1, <1>2, <1>3, <1>4 DEF IInv, PowerLoss

(***************************************************************************)
(* The steps of the watchdog beside the host                               *)
(***************************************************************************)

\* A step of the daemon that does not switch the host off.
LEMMA DaemonActs ==
    ASSUME ProcessesOK, host' # "off",
           Engine \/ DaemonRestarts \/ Coordinator("daemon") \/ Dies("daemon")
    PROVE  /\ host = "on" /\ UNCHANGED host
           /\ run["daemon"].pc # "off" /\ run'["daemon"].pc # "off"
           /\ run'["command"] = run["command"]
           /\ run'["daemon"].pc = "poweroff" => server'.ctr = "clean"
  <1> USE DEF ProcessesOK, Processes, Actor, At, Goto
  <1>1. CASE Tick \/ InspectDead \/ InspectAlive \/ RestartServer
    <2>1. CASE Tick
      BY <2>1 DEF Tick
    <2>2. CASE InspectDead
      BY <2>2 DEF InspectDead
    <2>3. CASE InspectAlive \/ RestartServer
      BY <2>3 DEF InspectAlive, RestartServer
    <2> QED BY <1>1, <2>1, <2>2, <2>3
  <1>2. CASE RestartFails
    BY <1>2 DEF RestartFails, Aborts
  <1>3. CASE \E answer \in Answers : Poll(answer)
    BY <1>3 DEF Poll, TickSome, TickNone, TickUnknown
  <1>4. CASE \E answer \in Answers : Recheck(answer)
    BY <1>4 DEF Recheck, Ordered
  <1>5. CASE DaemonRestarts \/ Dies("daemon")
    BY <1>5 DEF DaemonRestarts, Dies, Mortal
  <1>6. CASE Coordinator("daemon")
    <2>1. CASE CheckEligible("daemon") \/ SaveWorld("daemon") \/ SaveFails("daemon")
      BY <2>1 DEF CheckEligible, SaveWorld, SaveFails, Aborts
    <2>2. CASE \E answer \in Answers :
                  BeforeSave("daemon", answer) \/ AfterSave("daemon", answer)
      BY <2>2 DEF BeforeSave, AfterSave, Consult, Aborts
    <2>3. CASE StopServer("daemon") \/ StopFails("daemon") \/ Verify("daemon")
      BY <2>3 DEF StopServer, StopFails, Verify, Aborts
    <2>4. CASE IsStopped("daemon") \/ InspectionFails("daemon")
      BY <2>4 DEF IsStopped, InspectionFails, CleanExit, Aborts
    <2>5. CASE PowerOff("daemon") \/ PowerOffFails("daemon")
      BY <2>5 DEF PowerOff, PowerOffFails
    <2>6. CASE Revive("daemon") \/ ReviveFails("daemon") \/ Await("daemon")
      BY <2>6 DEF Revive, ReviveFails, Await, Aborts
    <2> QED BY <1>6, <2>1, <2>2, <2>3, <2>4, <2>5, <2>6 DEF Coordinator
  <1> QED BY <1>1, <1>2, <1>3, <1>4, <1>5, <1>6 DEF Engine

\* What a step of a one-shot comes from and leads to.
OneShotStep ==
    LET pc == run["command"].pc
    IN  /\ pc # "off" /\ run'["daemon"] = run["daemon"]
        /\ run'["command"].pc \in CommandPcs \ {"off"}
        /\ run'["command"].plan = run["command"].plan
        /\ run'["command"].pc \in AfterSaving => Running \/ pc \in AfterSaving
        /\ run'["command"].pc = "done" =>
              pc \in AfterSaving /\ ~Running' /\ run["command"].plan = "stop"
        /\ Running' => Running \/ pc \in AfterSaving
        /\ run'["command"].pc = "poweroff" => server'.ctr = "clean"

\* A step of a one-shot that does not switch the host off.
LEMMA CommandActs ==
    ASSUME ProcessesOK, host' # "off", run["command"].pc \in CommandPcs,
           Coordinator("command") \/ Dies("command")
    PROVE  host = "on" /\ UNCHANGED host /\ OneShotStep
  <1> USE DEF ProcessesOK, Processes, Actor, At, Goto, CommandPcs, Rest, AfterSaving,
              OneShotStep
  <1>1. CASE CheckEligible("command") \/ SaveWorld("command") \/ SaveFails("command")
    BY <1>1 DEF CheckEligible, SaveWorld, SaveFails, Aborts, Running
  <1>2. CASE \E answer \in Answers :
                BeforeSave("command", answer) \/ AfterSave("command", answer)
    BY <1>2 DEF BeforeSave, AfterSave, Consult, Aborts, Running
  <1>3. CASE StopServer("command") \/ StopFails("command")
    BY <1>3 DEF StopServer, StopFails, Aborts, Running
  <1>4. CASE Verify("command")
    BY <1>4 DEF Verify, CleanExit, Aborts, Running
  <1>5. CASE IsStopped("command") \/ InspectionFails("command")
    BY <1>5 DEF IsStopped, InspectionFails, CleanExit, Aborts, Running
  <1>6. CASE PowerOff("command") \/ PowerOffFails("command")
    BY <1>6 DEF PowerOff, PowerOffFails, Running
  <1>7. CASE Revive("command") \/ ReviveFails("command") \/ Await("command")
    BY <1>7 DEF Revive, ReviveFails, Await, Aborts, Running
  <1>8. CASE Dies("command")
    <2>1. Running' => Running \/ run["command"].pc \in AfterSaving
      BY <1>8 DEF Dies, Mortal, Effects, Halted, Exits, Exited, Running
    <2> QED BY <1>8, <2>1 DEF Dies, Mortal
  <1> QED BY <1>1, <1>2, <1>3, <1>4, <1>5, <1>6, <1>7, <1>8 DEF Coordinator

\* The host switched off has nothing at work.
LEMMA OffKept ==
    ASSUME ctl' = NoCtl, stack' = Stopped, ~Running',
           \A a \in Actor : run'[a].pc = "off"
    PROVE  HostPart'
  <1>1. HostForm'
    BY DEF HostForm, NoCtl, Stopped, Stacks, Ctls, Kinds, CtlPcs, Actor
  <1>2. OneShot' /\ BuildsOverStopped'
    BY DEF OneShot, BuildsOverStopped, NoCtl, Stopped, Actor, CommandPcs, Rest, AfterSaving
  <1>3. HeldDown' /\ PowerOffClean'
    BY DEF HeldDown, PowerOffClean, At, NoCtl, Actor
  <1> QED BY <1>1, <1>2, <1>3 DEF HostPart

\* The daemon acts only beside an active stack, a one-shot only for its command.
LEMMA WatchdogStepKept == ASSUME HInv, Watchdog PROVE HInv'
  <1>1. IInv'
    BY StepSound DEF HInv, Watchdog, Next
  <1>2. HostPart'
    <2>1. CASE host' = "off"
      <3>1. \E a \in Actor : PowerOff(a)
        <4>1. host = "on"
          BY DEF Watchdog, Engine, DaemonRestarts, Coordinator, Dies, Mortal, At, Tick,
                 InspectDead, InspectAlive, RestartServer, RestartFails, Poll, Recheck,
                 CheckEligible, BeforeSave, AfterSave, SaveWorld, SaveFails, StopServer,
                 StopFails, Verify, IsStopped, InspectionFails, PowerOff, PowerOffFails,
                 Revive, ReviveFails, Await
        <4> QED
          BY <2>1, <4>1
          DEF Watchdog, Engine, DaemonRestarts, Coordinator, Dies, Tick,
              InspectDead, InspectAlive, RestartServer, RestartFails, Poll, Recheck,
              CheckEligible, BeforeSave, AfterSave, Consult, SaveWorld, SaveFails, StopServer,
              StopFails, Verify, IsStopped, InspectionFails, PowerOffFails,
              Revive, ReviveFails, Await
      <3>2. ~Running' /\ run' = AllDown
        BY <3>1, HaltedDown DEF PowerOff
      <3>3. \A a \in Actor : run'[a].pc = "off"
        BY <3>2 DEF AllDown, HInv, IInv, ProcessesOK, Processes
      <3> QED BY <2>1, <3>2, <3>3, OffKept DEF Watchdog, HostDown
    <2>2. CASE /\ host' # "off"
               /\ Engine \/ DaemonRestarts \/ Coordinator("daemon") \/ Dies("daemon")
      <3>1. /\ host = "on" /\ UNCHANGED <<host, stack, ctl>>
            /\ run["daemon"].pc # "off" /\ run'["daemon"].pc # "off"
            /\ run'["command"] = run["command"]
            /\ run'["daemon"].pc = "poweroff" => server'.ctr = "clean"
        BY <2>2, DaemonActs DEF HInv, IInv, Watchdog
      <3>2. /\ stack.state = "active" /\ run["command"].pc = "off"
            /\ ctl.pc \notin {"launch", "await", "stop-unit", "recover"}
        BY <3>1 DEF HInv, HostPart, HostForm, OneShot, HeldDown
      <3>3. HostForm'
        BY <3>1, <3>2 DEF HInv, HostPart, HostForm
      <3>4. OneShot' /\ BuildsOverStopped'
        BY <3>1, <3>2 DEF OneShot, BuildsOverStopped, CommandPcs, Rest, AfterSaving
      <3>5. HeldDown' /\ PowerOffClean'
        BY <3>1, <3>2 DEF HInv, HostPart, HeldDown, PowerOffClean, At, Actor
      <3> QED BY <3>3, <3>4, <3>5 DEF HostPart
    <2>3. CASE host' # "off" /\ (Coordinator("command") \/ Dies("command"))
      <3>1. host = "on" /\ UNCHANGED <<host, stack, ctl>> /\ OneShotStep
        BY <2>3, CommandActs DEF HInv, IInv, HostPart, OneShot, Watchdog
      <3>2. ctl.pc = "await" /\ run["daemon"].pc = "off" /\ ~stack.watch
        BY <3>1 DEF HInv, HostPart, OneShot, OneShotStep
      <3>3. HostForm'
        BY <3>1, <3>2 DEF HInv, HostPart, HostForm, OneShotStep
      <3>4. OneShot'
        BY <3>1, <3>2 DEF HInv, HostPart, OneShot, OneShotStep
      <3>5. BuildsOverStopped'
        BY <3>1, <3>2 DEF HInv, HostPart, BuildsOverStopped, OneShotStep, AfterSaving
      <3>6. HeldDown' /\ PowerOffClean'
        BY <3>1, <3>2 DEF HInv, HostPart, HeldDown, PowerOffClean, At, Actor, OneShotStep
      <3> QED BY <3>3, <3>4, <3>5, <3>6 DEF HostPart
    <2> QED BY <2>1, <2>2, <2>3 DEF Watchdog, Actor
  <1> QED BY <1>1, <1>2 DEF HInv

\* Nothing that the environment does starts a server that is down.
LEMMA EnvironsKept == ASSUME HInv, Environs, UNCHANGED <<stack, ctl>> PROVE HInv'
  <1>1. IInv'
    BY StepSound DEF HInv, Next
  <1>2. /\ UNCHANGED <<host, run>> /\ (Running' => Running)
        /\ ~Running => server'.ctr = server.ctr
    BY DEF Environs, Players, Join, Leave, ServerExits, HealthPasses, HealthFails, Health,
           Running, HInv, IInv, ServerOK, Server
  <1>3. HostForm'
    BY <1>2 DEF HInv, HostPart, HostForm
  <1>4. OneShot' /\ BuildsOverStopped' /\ HeldDown'
    BY <1>2 DEF HInv, HostPart, OneShot, BuildsOverStopped, HeldDown
  <1>5. PowerOffClean'
    BY <1>2 DEF HInv, HostPart, PowerOffClean, At, Running
  <1> QED BY <1>1, <1>3, <1>4, <1>5 DEF HInv, HostPart

(***************************************************************************)
(* The steps of a command and of systemd                                   *)
(***************************************************************************)

\* A command gives up the lock, or goes on to one of some steps.
Moved(pcs) ==
    /\ ctl' \in Ctls
    /\ \/ ctl'.kind = "none" /\ ctl'.pc = "idle"
       \/ ctl'.kind # "none" /\ ctl'.kind = ctl.kind /\ ctl'.pc \in pcs

\* Releasing the lock and continuing are all that such a step can do.
LEMMA CtlMoves ==
    ASSUME ctl \in Ctls, ctl.kind # "none", NEW pcs \in SUBSET CtlPcs,
           ctl' = NoCtl \/ \E pc \in pcs : Continue(pc)
    PROVE  Moved(pcs)
  <1>1. CASE ctl' = NoCtl
    BY <1>1 DEF NoCtl, Moved, Ctls, CtlPcs
  <1>2. ASSUME NEW pc \in pcs, Continue(pc) PROVE Moved(pcs)
    BY <1>2 DEF Continue, Moved, Ctls
  <1> QED BY <1>1, <1>2

\* A step that changes only what the command remembers.
LEMMA QuietKept ==
    ASSUME HInv, host = "on", UNCHANGED <<watchdogVars, stack>>, ctl' \in Ctls,
           ctl'.kind = "none" <=> ctl'.pc \in {"idle", "killed"},
           ctl.pc # "await", ctl'.pc \notin {"launch", "await"}, HeldDown'
    PROVE  HInv'
  <1>1. IInv'
    BY StepSound DEF HInv
  <1>2. HostForm'
    BY DEF watchdogVars, HInv, HostPart, HostForm, Running
  <1>3. OneShot'
    BY DEF watchdogVars, HInv, HostPart, OneShot
  <1>4. BuildsOverStopped' /\ PowerOffClean'
    BY DEF watchdogVars, HInv, HostPart, BuildsOverStopped, PowerOffClean, At, Running
  <1> QED BY <1>1, <1>2, <1>3, <1>4 DEF HInv, HostPart

\* A command that cannot stop the watchdog gives up.
LEMMA QuiesceFailsKept ==
    ASSUME HInv, QuiesceFails
    PROVE  HInv'
  <1>1. ctl \in Ctls /\ (ctl.kind = "none" <=> ctl.pc \in {"idle", "killed"})
    BY DEF HInv, HostPart, HostForm
  <1>2. /\ host = "on" /\ UNCHANGED <<watchdogVars, stack>>
        /\ ctl.pc # "await" /\ ctl'.pc \notin {"launch", "await"}
    BY <1>1 DEF QuiesceFails, Step, Continue, NoCtl, GiveUp, Ctls
  <1>3. ctl' \in Ctls /\ (ctl'.kind = "none" <=> ctl'.pc \in {"idle", "killed"})
    BY <1>1 DEF QuiesceFails, Step, Continue, NoCtl, GiveUp, Ctls, Kinds, CtlPcs
  <1>4. HeldDown'
    BY <1>1, <1>2 DEF QuiesceFails, Step, Continue, NoCtl, GiveUp, watchdogVars, HInv,
        HostPart, HeldDown, HostForm, Ctls, Running
  <1> QED BY <1>2, <1>3, <1>4, QuietKept

\* So does StopUnitFails.
LEMMA StopUnitFailsKept ==
    ASSUME HInv, StopUnitFails
    PROVE  HInv'
  <1>1. ctl \in Ctls /\ (ctl.kind = "none" <=> ctl.pc \in {"idle", "killed"})
    BY DEF HInv, HostPart, HostForm
  <1>2. /\ host = "on" /\ UNCHANGED <<watchdogVars, stack>>
        /\ ctl.pc # "await" /\ ctl'.pc \notin {"launch", "await"}
    BY <1>1 DEF StopUnitFails, Step, Continue, NoCtl, Ctls
  <1>3. ctl' \in Ctls /\ (ctl'.kind = "none" <=> ctl'.pc \in {"idle", "killed"})
    BY <1>1 DEF StopUnitFails, Step, Continue, NoCtl, Ctls, Kinds, CtlPcs
  <1>4. HeldDown'
    BY <1>1, <1>2 DEF StopUnitFails, Step, Continue, NoCtl, watchdogVars, HInv, HostPart,
        HeldDown, HostForm, Ctls, Running
  <1> QED BY <1>2, <1>3, <1>4, QuietKept

\* So does InspectRunning.
LEMMA InspectRunningKept ==
    ASSUME HInv, InspectRunning
    PROVE  HInv'
  <1>1. Moved({"adopt"})
    <2>1. ctl \in Ctls /\ ctl.kind # "none"
      BY DEF HInv, HostPart, HostForm, InspectRunning, Step
    <2>2. ctl' = NoCtl \/ \E pc \in {"adopt"} : Continue(pc)
      BY DEF InspectRunning
    <2> QED BY <2>1, <2>2, CtlMoves DEF CtlPcs
  <1>2. host = "on" /\ UNCHANGED <<watchdogVars, stack>> /\ ctl.pc # "await"
    BY DEF InspectRunning, Step
  <1>3. /\ ctl' \in Ctls /\ (ctl'.kind = "none" <=> ctl'.pc \in {"idle", "killed"})
        /\ ctl'.pc \notin {"launch", "await"}
    BY <1>1 DEF Moved
  <1>4. HeldDown'
    BY <1>1, <1>2 DEF Moved, InspectRunning, Step, watchdogVars, HInv, HostPart, HeldDown,
        Running
  <1> QED BY <1>2, <1>3, <1>4, QuietKept

\* So does InspectClean.
LEMMA InspectCleanKept ==
    ASSUME HInv, InspectClean
    PROVE  HInv'
  <1>1. ctl \in Ctls /\ (ctl.kind = "none" <=> ctl.pc \in {"idle", "killed"})
    BY DEF HInv, HostPart, HostForm
  <1>2. /\ host = "on" /\ UNCHANGED <<watchdogVars, stack>>
        /\ ctl.pc # "await" /\ ctl'.pc \notin {"launch", "await"}
    BY <1>1 DEF InspectClean, Step, Continue, NoCtl, Ctls
  <1>3. ctl' \in Ctls /\ (ctl'.kind = "none" <=> ctl'.pc \in {"idle", "killed"})
    BY <1>1 DEF InspectClean, Step, Continue, NoCtl, Ctls, Kinds, CtlPcs
  <1>4. HeldDown'
    BY <1>1, <1>2 DEF InspectClean, Step, Continue, NoCtl, watchdogVars, HInv, HostPart,
        HeldDown, HostForm, Ctls, Running
  <1> QED BY <1>2, <1>3, <1>4, QuietKept

\* So does InspectRefuses.
LEMMA InspectRefusesKept ==
    ASSUME HInv, InspectRefuses
    PROVE  HInv'
  <1>1. ctl \in Ctls /\ (ctl.kind = "none" <=> ctl.pc \in {"idle", "killed"})
    BY DEF HInv, HostPart, HostForm
  <1>2. /\ host = "on" /\ UNCHANGED <<watchdogVars, stack>>
        /\ ctl.pc # "await" /\ ctl'.pc \notin {"launch", "await"}
    BY <1>1 DEF InspectRefuses, Step, Continue, NoCtl, Ctls
  <1>3. ctl' \in Ctls /\ (ctl'.kind = "none" <=> ctl'.pc \in {"idle", "killed"})
    BY <1>1 DEF InspectRefuses, Step, Continue, NoCtl, Ctls, Kinds, CtlPcs
  <1>4. HeldDown'
    BY <1>1, <1>2 DEF InspectRefuses, Step, Continue, NoCtl, watchdogVars, HInv, HostPart,
        HeldDown, HostForm, Ctls, Running
  <1> QED BY <1>2, <1>3, <1>4, QuietKept

\* So does UpFails.
LEMMA UpFailsKept ==
    ASSUME HInv, UpFails
    PROVE  HInv'
  <1>1. ctl \in Ctls /\ (ctl.kind = "none" <=> ctl.pc \in {"idle", "killed"})
    BY DEF HInv, HostPart, HostForm
  <1>2. /\ host = "on" /\ UNCHANGED <<watchdogVars, stack>>
        /\ ctl.pc # "await" /\ ctl'.pc \notin {"launch", "await"}
    BY <1>1 DEF UpFails, Step, Continue, NoCtl, Ctls
  <1>3. ctl' \in Ctls /\ (ctl'.kind = "none" <=> ctl'.pc \in {"idle", "killed"})
    BY <1>1 DEF UpFails, Step, Continue, NoCtl, Ctls, Kinds, CtlPcs
  <1>4. HeldDown'
    BY <1>1, <1>2 DEF UpFails, Step, Continue, NoCtl, watchdogVars, HInv, HostPart,
        HeldDown, HostForm, Ctls, Running
  <1> QED BY <1>2, <1>3, <1>4, QuietKept

\* So does Survey.
LEMMA SurveyKept ==
    ASSUME HInv, Survey
    PROVE  HInv'
  <1>1. Moved({"quiesce", "stop-both"})
    <2>1. ctl \in Ctls /\ ctl.kind # "none"
      BY DEF HInv, HostPart, HostForm, Survey, Step
    <2>2. ctl' = NoCtl \/ \E pc \in {"quiesce", "stop-both"} : Continue(pc)
      BY DEF Survey
    <2> QED BY <2>1, <2>2, CtlMoves DEF CtlPcs
  <1>2. host = "on" /\ UNCHANGED <<watchdogVars, stack>> /\ ctl.pc # "await"
    BY DEF Survey, Step
  <1>3. /\ ctl' \in Ctls /\ (ctl'.kind = "none" <=> ctl'.pc \in {"idle", "killed"})
        /\ ctl'.pc \notin {"launch", "await"}
    BY <1>1 DEF Moved
  <1>4. HeldDown'
    BY <1>1, <1>2 DEF Moved, Survey, Step, watchdogVars, HInv, HostPart, HeldDown, Running
  <1> QED BY <1>2, <1>3, <1>4, QuietKept

\* So does SurveyAgain.
LEMMA SurveyAgainKept ==
    ASSUME HInv, SurveyAgain
    PROVE  HInv'
  <1>1. Moved({"updater"})
    <2>1. ctl \in Ctls /\ ctl.kind # "none"
      BY DEF HInv, HostPart, HostForm, SurveyAgain, Step
    <2>2. ctl' = NoCtl \/ \E pc \in {"updater"} : Continue(pc)
      BY DEF SurveyAgain
    <2> QED BY <2>1, <2>2, CtlMoves DEF CtlPcs
  <1>2. host = "on" /\ UNCHANGED <<watchdogVars, stack>> /\ ctl.pc # "await"
    BY DEF SurveyAgain, Step
  <1>3. /\ ctl' \in Ctls /\ (ctl'.kind = "none" <=> ctl'.pc \in {"idle", "killed"})
        /\ ctl'.pc \notin {"launch", "await"}
    BY <1>1 DEF Moved
  <1>4. HeldDown'
    BY <1>1, <1>2 DEF Moved, SurveyAgain, Step, watchdogVars, HInv, HostPart, HeldDown,
        Running
  <1> QED BY <1>2, <1>3, <1>4, QuietKept

\* So does SurveyFails.
LEMMA SurveyFailsKept ==
    ASSUME HInv, SurveyFails
    PROVE  HInv'
  <1>1. ctl \in Ctls /\ (ctl.kind = "none" <=> ctl.pc \in {"idle", "killed"})
    BY DEF HInv, HostPart, HostForm
  <1>2. /\ host = "on" /\ UNCHANGED <<watchdogVars, stack>>
        /\ ctl.pc # "await" /\ ctl'.pc \notin {"launch", "await"}
    BY <1>1 DEF SurveyFails, Step, Continue, NoCtl, Ctls
  <1>3. ctl' \in Ctls /\ (ctl'.kind = "none" <=> ctl'.pc \in {"idle", "killed"})
    BY <1>1 DEF SurveyFails, Step, Continue, NoCtl, Ctls, Kinds, CtlPcs
  <1>4. HeldDown'
    BY <1>1, <1>2 DEF SurveyFails, Step, Continue, NoCtl, watchdogVars, HInv, HostPart,
        HeldDown, HostForm, Ctls, Running
  <1> QED BY <1>2, <1>3, <1>4, QuietKept

\* So does UpdaterEnds.
LEMMA UpdaterEndsKept ==
    ASSUME HInv, UpdaterEnds
    PROVE  HInv'
  <1>1. ctl \in Ctls /\ (ctl.kind = "none" <=> ctl.pc \in {"idle", "killed"})
    BY DEF HInv, HostPart, HostForm
  <1>2. /\ host = "on" /\ UNCHANGED <<watchdogVars, stack>>
        /\ ctl.pc # "await" /\ ctl'.pc \notin {"launch", "await"}
    BY <1>1 DEF UpdaterEnds, Step, Continue, NoCtl, Ctls
  <1>3. ctl' \in Ctls /\ (ctl'.kind = "none" <=> ctl'.pc \in {"idle", "killed"})
    BY <1>1 DEF UpdaterEnds, Step, Continue, NoCtl, Ctls, Kinds, CtlPcs
  <1>4. HeldDown'
    BY <1>1, <1>2 DEF UpdaterEnds, Step, Continue, NoCtl, watchdogVars, HInv, HostPart,
        HeldDown, HostForm, Ctls, Running
  <1> QED BY <1>2, <1>3, <1>4, QuietKept

\* So does BackupFails.
LEMMA BackupFailsKept ==
    ASSUME HInv, BackupFails
    PROVE  HInv'
  <1>1. ctl \in Ctls /\ (ctl.kind = "none" <=> ctl.pc \in {"idle", "killed"})
    BY DEF HInv, HostPart, HostForm
  <1>2. /\ host = "on" /\ UNCHANGED <<watchdogVars, stack>>
        /\ ctl.pc # "await" /\ ctl'.pc \notin {"launch", "await"}
    BY <1>1 DEF BackupFails, Step, Continue, NoCtl, IsActive, Ctls
  <1>3. ctl' \in Ctls /\ (ctl'.kind = "none" <=> ctl'.pc \in {"idle", "killed"})
    BY <1>1 DEF BackupFails, Step, Continue, NoCtl, IsActive, Ctls, Kinds, CtlPcs
  <1>4. HeldDown'
    BY <1>1, <1>2 DEF BackupFails, Step, Continue, NoCtl, IsActive, watchdogVars, HInv,
        HostPart, HeldDown, HostForm, Ctls, Running
  <1> QED BY <1>2, <1>3, <1>4, QuietKept

\* So does Archived.
LEMMA ArchivedKept ==
    ASSUME HInv, Archived
    PROVE  HInv'
  <1>1. ctl \in Ctls /\ (ctl.kind = "none" <=> ctl.pc \in {"idle", "killed"})
    BY DEF HInv, HostPart, HostForm
  <1>2. /\ host = "on" /\ UNCHANGED <<watchdogVars, stack>>
        /\ ctl.pc # "await" /\ ctl'.pc \notin {"launch", "await"}
    BY <1>1 DEF Archived, Step, Continue, NoCtl, Ctls
  <1>3. ctl' \in Ctls /\ (ctl'.kind = "none" <=> ctl'.pc \in {"idle", "killed"})
    BY <1>1 DEF Archived, Step, Continue, NoCtl, Ctls, Kinds, CtlPcs
  <1>4. HeldDown'
    BY <1>1, <1>2 DEF Archived, Step, Continue, NoCtl, watchdogVars, HInv, HostPart,
        HeldDown, HostForm, Ctls, Running
  <1> QED BY <1>2, <1>3, <1>4, QuietKept

\* So does a query of the players by pz-backup.
LEMMA LookKept ==
    ASSUME HInv, NEW answer \in Answers, Look(answer)
    PROVE  HInv'
  <1>1. /\ Moved({"quiesce", "archive", "trap"})
        /\ ctl'.pc = "archive" => ~ctl'.ran /\ ~Running
    <2>1. /\ ctl \in Ctls /\ ctl.kind # "none" /\ ~ctl.ran
      BY DEF HInv, HostPart, HostForm, HeldDown, Look, Step
    <2>2. CASE ctl' = [ctl EXCEPT !.pc = "quiesce", !.ran = TRUE]
      BY <2>1, <2>2 DEF Moved, Ctls, CtlPcs
    <2>3. CASE ctl' = NoCtl \/ Continue("trap")
      <3>1. Moved({"trap"})
        BY <2>1, <2>3, CtlMoves DEF CtlPcs
      <3> QED BY <3>1 DEF Moved
    <2>4. CASE Continue("archive") /\ server.ctr = "clean"
      <3>1. Moved({"archive"})
        BY <2>1, <2>4, CtlMoves DEF CtlPcs
      <3>2. ~ctl'.ran
        BY <2>1, <2>4 DEF Continue, Ctls
      <3> QED BY <2>4, <3>1, <3>2 DEF Moved, Running
    <2> QED BY <2>2, <2>3, <2>4 DEF Look, GiveUp, Continue
  <1>2. host = "on" /\ UNCHANGED <<watchdogVars, stack>> /\ ctl.pc # "await"
    BY DEF Look, Step
  <1>3. /\ ctl' \in Ctls /\ (ctl'.kind = "none" <=> ctl'.pc \in {"idle", "killed"})
        /\ ctl'.pc \notin {"launch", "await"}
    BY <1>1 DEF Moved
  <1>4. HeldDown'
    BY <1>1, <1>2 DEF Moved, Look, Step, watchdogVars, HInv, HostPart, HeldDown, Running
  <1> QED BY <1>2, <1>3, <1>4, QuietKept

\* A command begins only while no other holds the lock.
LEMMA AcquireKept ==
    ASSUME HInv, NEW kind \in Kinds, NEW allow \in BOOLEAN, Acquire(kind, allow)
    PROVE  HInv'
  <1>1. ctl \in Ctls /\ (ctl.kind = "none" <=> ctl.pc \in {"idle", "killed"})
    BY DEF HInv, HostPart, HostForm
  <1> FirstPc(kind) \in {"inspect", "survey", "suspend", "quiesce"} /\ kind # "none"
      /\ (FirstPc(kind) = "inspect" => kind = "start")
    BY DEF FirstPc, Kinds
  <1>2. /\ host = "on" /\ UNCHANGED <<watchdogVars, stack>>
        /\ ctl.pc # "await" /\ ctl'.pc \notin {"launch", "await"}
    BY <1>1 DEF Acquire, LockFree, NoCtl, Ctls
  <1>3. ctl' \in Ctls /\ (ctl'.kind = "none" <=> ctl'.pc \in {"idle", "killed"})
    BY <1>1 DEF Acquire, LockFree, NoCtl, Ctls, Kinds, CtlPcs
  <1>4. HeldDown'
    BY <1>1, <1>2 DEF Acquire, LockFree, NoCtl, watchdogVars, HInv, HostPart, HeldDown,
        HostForm, Ctls, Running
  <1> QED BY <1>2, <1>3, <1>4, QuietKept

\* A one-shot is launched where the daemon is off and stays off.
LEMMA LaunchKept == ASSUME HInv, Launch PROVE HInv'
  <1>1. IInv'
    <2>1. ctl.allow \in BOOLEAN
      BY DEF HInv, HostPart, HostForm, Ctls
    <2>2. \E plan \in {"stop", "shutdown"} : RunCommand(plan, ctl.allow)
      BY DEF Launch
    <2> QED BY <2>1, <2>2, StepSound DEF HInv, Next
  <1> USE DEF HInv, HostPart, Launch, RunCommand, FirstStep, IInv, ProcessesOK, Processes,
      Running, Step, Continue
  <1>2. HostForm'
    BY DEF HostForm, Stacks, Ctls, Kinds, CtlPcs, Actor
  <1>3. OneShot'
    BY DEF OneShot, HostForm, CommandPcs, Rest, AfterSaving, Actor
  <1>4. BuildsOverStopped'
    BY DEF BuildsOverStopped, HostForm, OneShot, AfterSaving, Actor
  <1>5. HeldDown'
    BY DEF HeldDown, HostForm, OneShot, BuildsOverStopped
  <1>6. PowerOffClean'
    BY DEF PowerOffClean, HostForm, OneShot, BuildsOverStopped, AfterSaving, At, Actor
  <1> QED BY <1>1, <1>2, <1>3, <1>4, <1>5, <1>6

\* It is over when its command goes on.
LEMMA SucceededKept == ASSUME HInv, Succeeded PROVE HInv'
  <1>1. IInv'
    BY StepSound DEF HInv, Next, CommandReturns, Goto, CommandOff, Succeeded, Step
  <1>7. /\ Moved({"stop-unit"})
        /\ ctl'.pc = "stop-unit" => ~Running /\ stack.state # "building"
                                    /\ run["daemon"].pc = "off"
    <2>1. ctl \in Ctls /\ ctl.kind # "none"
      BY DEF HInv, HostPart, HostForm, Succeeded, Step
    <2>2. ctl' = NoCtl \/ \E pc \in {"stop-unit"} : Continue(pc)
      BY DEF Succeeded
    <2>3. Moved({"stop-unit"})
      BY <2>1, <2>2, CtlMoves DEF CtlPcs
    <2>4. ctl.kind = "shutdown" => ctl'.pc = "idle"
      BY DEF Succeeded, NoCtl
    <2>5. ctl.kind # "shutdown" => ~Running /\ stack.state # "building"
      BY DEF Succeeded, Step, At, HInv, HostPart, OneShot, BuildsOverStopped
    <2>6. run["daemon"].pc = "off"
      BY DEF Succeeded, Step, HInv, HostPart, OneShot
    <2> QED BY <2>3, <2>4, <2>5, <2>6
  <1> USE DEF HInv, HostPart, Moved, Succeeded, CommandOff, NoCtl, IInv, ProcessesOK,
      Processes, Running, Step, Continue
  <1>2. HostForm'
    BY <1>7 DEF HostForm, Stacks, Ctls, Kinds, CtlPcs, Actor
  <1>3. OneShot'
    BY <1>7 DEF OneShot, HostForm, CommandPcs, Rest, AfterSaving, Actor
  <1>4. BuildsOverStopped'
    BY <1>7 DEF BuildsOverStopped, HostForm, OneShot, AfterSaving, Actor
  <1>5. HeldDown'
    BY <1>7 DEF HeldDown, HostForm, OneShot, BuildsOverStopped
  <1>6. PowerOffClean'
    BY <1>7 DEF PowerOffClean, HostForm, OneShot, BuildsOverStopped, AfterSaving, At, Actor
  <1> QED BY <1>1, <1>2, <1>3, <1>4, <1>5, <1>6

\* The daemon may be restored once the one-shot is over.
LEMMA FailedKept == ASSUME HInv, Failed PROVE HInv'
  <1>1. IInv'
    <2> USE DEF HInv, IInv, ProcessesOK, Processes, Actor, Failed, StartDaemon, IsActive,
        CommandOff, Goto
    <2>1. server' \in Containers /\ (server'.occupied => server.occupied)
      BY ContainerOK DEF Pcs
    <2>2. run' \in Processes /\ run'["daemon"].allow = FALSE
      BY DEF Pcs
    <2>3. /\ run'["daemon"].pc \in {run["daemon"].pc, "off", "query"}
          /\ \/ UNCHANGED <<dog, seen>>
             \/ dog' = Idle /\ seen' = Spent /\ run'["daemon"].pc \in {"off", "query"}
      OBVIOUS
    <2>4. \A b \in Actor : run'[b].pc = "stop" => run'[b] = run[b]
      OBVIOUS
    <2>5. host' \in {"on", "off"}
      OBVIOUS
    <2> QED BY <2>1, <2>2, <2>3, <2>4, <2>5, WatchdogKept
  <1> USE DEF HInv, HostPart, Failed, StartDaemon, IsActive, CommandOff, GiveUp, NoCtl,
      IInv, ProcessesOK, Processes, Running, Step
  <1>2. HostForm'
    BY DEF HostForm, Stacks, Ctls, Kinds, CtlPcs, Actor
  <1>3. OneShot'
    BY DEF OneShot, HostForm, CommandPcs, Rest, AfterSaving, Actor
  <1>4. BuildsOverStopped'
    BY DEF BuildsOverStopped, HostForm, OneShot, AfterSaving, Actor
  <1>5. HeldDown'
    BY DEF HeldDown, HostForm, OneShot, BuildsOverStopped
  <1>6. PowerOffClean'
    BY DEF PowerOffClean, HostForm, OneShot, BuildsOverStopped, AfterSaving, At, Actor
  <1> QED BY <1>1, <1>2, <1>3, <1>4, <1>5, <1>6

\* It may be restored by a start that finds the server up ...
LEMMA AdoptKept == ASSUME HInv, Adopt PROVE HInv'
  <1>1. IInv'
    <2> USE DEF HInv, IInv, ProcessesOK, Processes, Actor, Adopt, StartDaemon, IsActive,
        CommandOff
    <2>1. server' \in Containers /\ (server'.occupied => server.occupied)
      BY ContainerOK DEF Pcs
    <2>2. run' \in Processes /\ run'["daemon"].allow = FALSE
      BY DEF Pcs
    <2>3. /\ run'["daemon"].pc \in {run["daemon"].pc, "off", "query"}
          /\ \/ UNCHANGED <<dog, seen>>
             \/ dog' = Idle /\ seen' = Spent /\ run'["daemon"].pc \in {"off", "query"}
      OBVIOUS
    <2>4. \A b \in Actor : run'[b].pc = "stop" => run'[b] = run[b]
      OBVIOUS
    <2>5. host' \in {"on", "off"}
      OBVIOUS
    <2> QED BY <2>1, <2>2, <2>3, <2>4, <2>5, WatchdogKept
  <1> USE DEF HInv, HostPart, Adopt, StartDaemon, IsActive, CommandOff, NoCtl, IInv,
      ProcessesOK, Processes, Running, Step
  <1>2. HostForm'
    BY DEF HostForm, Stacks, Ctls, Kinds, CtlPcs, Actor
  <1>3. OneShot'
    BY DEF OneShot, HostForm, CommandPcs, Rest, AfterSaving, Actor
  <1>4. BuildsOverStopped'
    BY DEF BuildsOverStopped, HostForm, OneShot, AfterSaving, Actor
  <1>5. HeldDown'
    BY DEF HeldDown, HostForm, OneShot, BuildsOverStopped
  <1>6. PowerOffClean'
    BY DEF PowerOffClean, HostForm, OneShot, BuildsOverStopped, AfterSaving, At, Actor
  <1> QED BY <1>1, <1>2, <1>3, <1>4, <1>5, <1>6

\* ... and at the end of a backup.
LEMMA TrapKept == ASSUME HInv, Trap PROVE HInv'
  <1>1. IInv'
    <2> USE DEF HInv, IInv, ProcessesOK, Processes, Actor, Trap, StartDaemon, IsActive,
        CommandOff
    <2>1. server' \in Containers /\ (server'.occupied => server.occupied)
      BY ContainerOK DEF Pcs
    <2>2. run' \in Processes /\ run'["daemon"].allow = FALSE
      BY DEF Pcs
    <2>3. /\ run'["daemon"].pc \in {run["daemon"].pc, "off", "query"}
          /\ \/ UNCHANGED <<dog, seen>>
             \/ dog' = Idle /\ seen' = Spent /\ run'["daemon"].pc \in {"off", "query"}
      OBVIOUS
    <2>4. \A b \in Actor : run'[b].pc = "stop" => run'[b] = run[b]
      OBVIOUS
    <2>5. host' \in {"on", "off"}
      OBVIOUS
    <2> QED BY <2>1, <2>2, <2>3, <2>4, <2>5, WatchdogKept
  <1>7. Moved({}) \/ (ctl' \in Ctls /\ ctl'.kind = "start" /\ ctl'.pc = "inspect")
    <2>1. ctl \in Ctls /\ ctl.kind # "none"
      BY DEF HInv, HostPart, HostForm, Trap, Step
    <2>2. CASE ctl' = NoCtl
      BY <2>1, <2>2, CtlMoves
    <2>3. CASE ctl' = [ctl EXCEPT !.kind = "start", !.pc = "inspect"]
      BY <2>1, <2>3 DEF Ctls, Kinds, CtlPcs
    <2> QED BY <2>2, <2>3 DEF Trap
  <1> USE DEF HInv, HostPart, Moved, Trap, StartDaemon, IsActive, CommandOff, NoCtl, IInv,
      ProcessesOK, Processes, Running, Step
  <1>2. HostForm'
    BY <1>7 DEF HostForm, Stacks, Ctls, Kinds, CtlPcs, Actor
  <1>3. OneShot'
    BY <1>7 DEF OneShot, HostForm, CommandPcs, Rest, AfterSaving, Actor
  <1>4. BuildsOverStopped'
    BY <1>7 DEF BuildsOverStopped, HostForm, OneShot, AfterSaving, Actor
  <1>5. HeldDown'
    BY <1>7 DEF HeldDown, HostForm, OneShot, BuildsOverStopped
  <1>6. PowerOffClean'
    BY <1>7 DEF PowerOffClean, HostForm, OneShot, BuildsOverStopped, AfterSaving, At, Actor
  <1> QED BY <1>1, <1>2, <1>3, <1>4, <1>5, <1>6

\* A start job that is over may start the daemon, unless a command cancelled that.
LEMMA StackReadyKept == ASSUME HInv, StackReady PROVE HInv'
  <1>1. IInv'
    <2> USE DEF HInv, IInv, ProcessesOK, Processes, Actor, StackReady
    <2>1. server' \in Containers /\ (server'.occupied => server.occupied)
      BY ContainerOK DEF Pcs
    <2>2. run' \in Processes /\ run'["daemon"].allow = FALSE
      BY DEF Pcs
    <2>3. /\ run'["daemon"].pc \in {run["daemon"].pc, "off", "query"}
          /\ \/ UNCHANGED <<dog, seen>>
             \/ dog' = Idle /\ seen' = Spent /\ run'["daemon"].pc \in {"off", "query"}
      OBVIOUS
    <2>4. \A b \in Actor : run'[b].pc = "stop" => run'[b] = run[b]
      OBVIOUS
    <2>5. host' \in {"on", "off"}
      OBVIOUS
    <2> QED BY <2>1, <2>2, <2>3, <2>4, <2>5, WatchdogKept
  <1> USE DEF HInv, HostPart, StackReady, IInv, ProcessesOK, Processes, Running
  <1>2. HostForm'
    BY DEF HostForm, Stacks, Ctls, Kinds, CtlPcs, Actor
  <1>3. OneShot'
    BY DEF OneShot, HostForm, CommandPcs, Rest, AfterSaving, Actor
  <1>4. BuildsOverStopped'
    BY DEF BuildsOverStopped, HostForm, OneShot, AfterSaving, Actor
  <1>5. HeldDown'
    BY DEF HeldDown, HostForm, OneShot, BuildsOverStopped
  <1>6. PowerOffClean'
    BY DEF PowerOffClean, HostForm, OneShot, BuildsOverStopped, AfterSaving, At, Actor
  <1> QED BY <1>1, <1>2, <1>3, <1>4, <1>5, <1>6

\* A start job creates the container where nobody needs it down.
LEMMA ComposeUpKept == ASSUME HInv, ComposeUp PROVE HInv'
  <1>1. IInv'
    <2> USE DEF HInv, IInv, ProcessesOK, Processes, Actor, ComposeUp
    <2>1. server' \in Containers /\ (server'.occupied => server.occupied)
      BY ContainerOK, FreshOrExited, DockerBringsNobody DEF Pcs
    <2>2. run' \in Processes /\ run'["daemon"].allow = FALSE
      BY DEF Pcs
    <2>3. /\ run'["daemon"].pc \in {run["daemon"].pc, "off", "query"}
          /\ \/ UNCHANGED <<dog, seen>>
             \/ dog' = Idle /\ seen' = Spent /\ run'["daemon"].pc \in {"off", "query"}
      OBVIOUS
    <2>4. \A b \in Actor : run'[b].pc = "stop" => run'[b] = run[b]
      OBVIOUS
    <2>5. host' \in {"on", "off"}
      OBVIOUS
    <2> QED BY <2>1, <2>2, <2>3, <2>4, <2>5, WatchdogKept
  <1> USE DEF HInv, HostPart, ComposeUp, Fresh, IInv, ProcessesOK, Processes, Running
  <1>2. HostForm'
    BY DEF HostForm, Stacks, Ctls, Kinds, CtlPcs, Actor
  <1>3. OneShot'
    BY DEF OneShot, HostForm, CommandPcs, Rest, AfterSaving, Actor
  <1>4. BuildsOverStopped'
    BY DEF BuildsOverStopped, HostForm, OneShot, AfterSaving, Actor
  <1>5. HeldDown'
    BY DEF HeldDown, HostForm, OneShot, BuildsOverStopped
  <1>6. PowerOffClean'
    BY DEF PowerOffClean, HostForm, OneShot, BuildsOverStopped, AfterSaving, At, Actor
  <1> QED BY <1>1, <1>2, <1>3, <1>4, <1>5, <1>6

\* A start job may fail.
LEMMA StackFailsKept == ASSUME HInv, StackFails PROVE HInv'
  <1>1. IInv'
    <2> USE DEF HInv, IInv, ProcessesOK, Processes, Actor, StackFails
    <2>1. server' \in Containers /\ (server'.occupied => server.occupied)
      BY DockerSound DEF Pcs
    <2>2. run' \in Processes /\ run'["daemon"].allow = FALSE
      BY DEF Pcs
    <2>3. /\ run'["daemon"].pc \in {run["daemon"].pc, "off", "query"}
          /\ \/ UNCHANGED <<dog, seen>>
             \/ dog' = Idle /\ seen' = Spent /\ run'["daemon"].pc \in {"off", "query"}
      OBVIOUS
    <2>4. \A b \in Actor : run'[b].pc = "stop" => run'[b] = run[b]
      OBVIOUS
    <2>5. host' \in {"on", "off"}
      OBVIOUS
    <2> QED BY <2>1, <2>2, <2>3, <2>4, <2>5, WatchdogKept
  <1> USE DEF HInv, HostPart, StackFails, InStart, Stopped, Halted, Exits, Exited, IInv,
      ProcessesOK, Processes, Running
  <1>2. HostForm'
    BY DEF HostForm, Stacks, Ctls, Kinds, CtlPcs, Actor
  <1>3. OneShot'
    BY DEF OneShot, HostForm, CommandPcs, Rest, AfterSaving, Actor
  <1>4. BuildsOverStopped'
    BY DEF BuildsOverStopped, HostForm, OneShot, AfterSaving, Actor
  <1>5. HeldDown'
    BY DEF HeldDown, HostForm, OneShot, BuildsOverStopped
  <1>6. PowerOffClean'
    BY DEF PowerOffClean, HostForm, OneShot, BuildsOverStopped, AfterSaving, At, Actor
  <1> QED BY <1>1, <1>2, <1>3, <1>4, <1>5, <1>6

\* A boot starts over.
LEMMA BootKept == ASSUME HInv, Boot PROVE HInv'
  <1>1. IInv'
    <2> USE DEF HInv, IInv, ProcessesOK, Processes, Actor, Boot
    <2>1. server' \in Containers /\ (server'.occupied => server.occupied)
      BY ContainerOK DEF Pcs
    <2>2. run' \in Processes /\ run'["daemon"].allow = FALSE
      BY DEF Pcs
    <2>3. /\ run'["daemon"].pc \in {run["daemon"].pc, "off", "query"}
          /\ \/ UNCHANGED <<dog, seen>>
             \/ dog' = Idle /\ seen' = Spent /\ run'["daemon"].pc \in {"off", "query"}
      OBVIOUS
    <2>4. \A b \in Actor : run'[b].pc = "stop" => run'[b] = run[b]
      OBVIOUS
    <2>5. host' \in {"on", "off"}
      OBVIOUS
    <2> QED BY <2>1, <2>2, <2>3, <2>4, <2>5, WatchdogKept
  <1> USE DEF HInv, HostPart, Boot, Starting, IInv, ProcessesOK, Processes, Running
  <1>2. HostForm'
    BY DEF HostForm, Stacks, Ctls, Kinds, CtlPcs, Actor
  <1>3. OneShot'
    BY DEF OneShot, HostForm, CommandPcs, Rest, AfterSaving, Actor
  <1>4. BuildsOverStopped'
    BY DEF BuildsOverStopped, HostForm, OneShot, AfterSaving, Actor
  <1>5. HeldDown'
    BY DEF HeldDown, HostForm, OneShot, BuildsOverStopped
  <1>6. PowerOffClean'
    BY DEF PowerOffClean, HostForm, OneShot, BuildsOverStopped, AfterSaving, At, Actor
  <1> QED BY <1>1, <1>2, <1>3, <1>4, <1>5, <1>6

\* The daemon is stopped, and a start of it cancelled.
LEMMA QuiesceKept == ASSUME HInv, Quiesce PROVE HInv'
  <1>1. IInv'
    <2> USE DEF HInv, IInv, ProcessesOK, Processes, Actor, Quiesce, StopDaemon, DaemonGone,
        Goto
    <2>1. server' \in Containers /\ (server'.occupied => server.occupied)
      BY DockerSound DEF Pcs
    <2>2. run' \in Processes /\ run'["daemon"].allow = FALSE
      BY DEF Pcs
    <2>3. /\ run'["daemon"].pc \in {run["daemon"].pc, "off", "query"}
          /\ \/ UNCHANGED <<dog, seen>>
             \/ dog' = Idle /\ seen' = Spent /\ run'["daemon"].pc \in {"off", "query"}
      OBVIOUS
    <2>4. \A b \in Actor : run'[b].pc = "stop" => run'[b] = run[b]
      OBVIOUS
    <2>5. host' \in {"on", "off"}
      OBVIOUS
    <2> QED BY <2>1, <2>2, <2>3, <2>4, <2>5, WatchdogKept
  <1> USE DEF HInv, HostPart, Quiesce, StopDaemon, DaemonGone, IsActive, Effects, Halted,
      Exits, Exited, Fresh, IInv, ProcessesOK, Processes, Running, Goto, Step
  <1>2. HostForm'
    BY DEF HostForm, Stacks, Ctls, Kinds, CtlPcs, Actor
  <1>3. OneShot'
    BY DEF OneShot, HostForm, CommandPcs, Rest, AfterSaving, Actor
  <1>4. BuildsOverStopped'
    BY DEF BuildsOverStopped, HostForm, OneShot, AfterSaving, Actor
  <1>5. HeldDown'
    BY DEF HeldDown, HostForm, OneShot, BuildsOverStopped
  <1>6. PowerOffClean'
    BY DEF PowerOffClean, HostForm, OneShot, BuildsOverStopped, AfterSaving, At, Actor
  <1> QED BY <1>1, <1>2, <1>3, <1>4, <1>5, <1>6

\* pz-backup stops a daemon that is active.
LEMMA SuspendKept == ASSUME HInv, Suspend PROVE HInv'
  <1>1. IInv'
    <2> USE DEF HInv, IInv, ProcessesOK, Processes, Actor, Suspend, StopDaemon, DaemonGone,
        Goto
    <2>1. server' \in Containers /\ (server'.occupied => server.occupied)
      BY DockerSound DEF Pcs
    <2>2. run' \in Processes /\ run'["daemon"].allow = FALSE
      BY DEF Pcs
    <2>3. /\ run'["daemon"].pc \in {run["daemon"].pc, "off", "query"}
          /\ \/ UNCHANGED <<dog, seen>>
             \/ dog' = Idle /\ seen' = Spent /\ run'["daemon"].pc \in {"off", "query"}
      OBVIOUS
    <2>4. \A b \in Actor : run'[b].pc = "stop" => run'[b] = run[b]
      OBVIOUS
    <2>5. host' \in {"on", "off"}
      OBVIOUS
    <2> QED BY <2>1, <2>2, <2>3, <2>4, <2>5, WatchdogKept
  <1> USE DEF HInv, HostPart, Suspend, StopDaemon, DaemonGone, IsActive, Effects, Halted,
      Exits, Exited, Fresh, IInv, ProcessesOK, Processes, Running, Goto, Step
  <1>2. HostForm'
    BY DEF HostForm, Stacks, Ctls, Kinds, CtlPcs, Actor
  <1>3. OneShot'
    BY DEF OneShot, HostForm, CommandPcs, Rest, AfterSaving, Actor
  <1>4. BuildsOverStopped'
    BY DEF BuildsOverStopped, HostForm, OneShot, AfterSaving, Actor
  <1>5. HeldDown'
    BY DEF HeldDown, HostForm, OneShot, BuildsOverStopped
  <1>6. PowerOffClean'
    BY DEF PowerOffClean, HostForm, OneShot, BuildsOverStopped, AfterSaving, At, Actor
  <1> QED BY <1>1, <1>2, <1>3, <1>4, <1>5, <1>6

\* A command whose start succeeded starts the daemon anew.
LEMMA UpSucceedsKept == ASSUME HInv, UpSucceeds PROVE HInv'
  <1>1. IInv'
    <2> USE DEF HInv, IInv, ProcessesOK, Processes, Actor, UpSucceeds, DaemonGone
    <2>1. server' \in Containers /\ (server'.occupied => server.occupied)
      BY DockerSound DEF Pcs
    <2>2. run' \in Processes /\ run'["daemon"].allow = FALSE
      BY DEF Pcs
    <2>3. /\ run'["daemon"].pc \in {run["daemon"].pc, "off", "query"}
          /\ \/ UNCHANGED <<dog, seen>>
             \/ dog' = Idle /\ seen' = Spent /\ run'["daemon"].pc \in {"off", "query"}
      OBVIOUS
    <2>4. \A b \in Actor : run'[b].pc = "stop" => run'[b] = run[b]
      OBVIOUS
    <2>5. host' \in {"on", "off"}
      OBVIOUS
    <2> QED BY <2>1, <2>2, <2>3, <2>4, <2>5, WatchdogKept
  <1> USE DEF HInv, HostPart, UpSucceeds, DaemonGone, NoCtl, IInv, ServerOK, ProcessesOK,
      Processes, Running, Step
  <1>2. HostForm'
    BY DEF HostForm, Stacks, Ctls, Kinds, CtlPcs, Actor
  <1>3. OneShot'
    BY DEF OneShot, HostForm, CommandPcs, Rest, AfterSaving, Actor
  <1>4. BuildsOverStopped'
    BY DEF BuildsOverStopped, HostForm, OneShot, AfterSaving, Actor
  <1>5. HeldDown'
    BY DEF HeldDown, HostForm, OneShot, BuildsOverStopped
  <1>6. PowerOffClean'
    BY DEF PowerOffClean, HostForm, OneShot, BuildsOverStopped, AfterSaving, At, Actor
  <1> QED BY <1>1, <1>2, <1>3, <1>4, <1>5, <1>6

\* The unit is stopped, and with it the daemon and every start job.
LEMMA StopUnitKept == ASSUME HInv, StopUnit PROVE HInv'
  <1>1. IInv'
    <2> USE DEF HInv, IInv, ProcessesOK, Processes, Actor, StopUnit, StackStops, Goto
    <2>1. server' \in Containers /\ (server'.occupied => server.occupied)
      BY DockerSound DEF Pcs
    <2>2. run' \in Processes /\ run'["daemon"].allow = FALSE
      BY DEF Pcs
    <2>3. /\ run'["daemon"].pc \in {run["daemon"].pc, "off", "query"}
          /\ \/ UNCHANGED <<dog, seen>>
             \/ dog' = Idle /\ seen' = Spent /\ run'["daemon"].pc \in {"off", "query"}
      OBVIOUS
    <2>4. \A b \in Actor : run'[b].pc = "stop" => run'[b] = run[b]
      OBVIOUS
    <2>5. host' \in {"on", "off"}
      OBVIOUS
    <2> QED BY <2>1, <2>2, <2>3, <2>4, <2>5, WatchdogKept
  <1>7. Moved({"inspect", "updater", "archive"})
    <2>1. ctl \in Ctls /\ ctl.kind # "none"
      BY DEF HInv, HostPart, HostForm, StopUnit, Step
    <2>2. ctl' = NoCtl \/ \E pc \in {"inspect", "updater", "archive"} : Continue(pc)
      BY DEF StopUnit
    <2> QED BY <2>1, <2>2, CtlMoves DEF CtlPcs
  <1>8. ~Running'
    BY HaltedDown DEF StopUnit, StackStops
  <1> USE DEF HInv, HostPart, Moved, StopUnit, StackStops, Stopped, NoCtl, IInv,
      ProcessesOK, Processes, Running, Goto, Step, Continue
  <1>2. HostForm'
    BY <1>7, <1>8 DEF HostForm, Stacks, Ctls, Kinds, CtlPcs, Actor
  <1>3. OneShot'
    BY <1>7, <1>8 DEF OneShot, HostForm, CommandPcs, Rest, AfterSaving, Actor
  <1>4. BuildsOverStopped'
    BY <1>7, <1>8 DEF BuildsOverStopped, HostForm, OneShot, AfterSaving, Actor
  <1>5. HeldDown'
    BY <1>7, <1>8 DEF HeldDown, HostForm, OneShot, BuildsOverStopped
  <1>6. PowerOffClean'
    BY <1>7, <1>8 DEF PowerOffClean, HostForm, OneShot, BuildsOverStopped, AfterSaving, At,
        Actor
  <1> QED BY <1>1, <1>2, <1>3, <1>4, <1>5, <1>6

\* So it is where the server was found cleanly stopped.
LEMMA StopBothKept == ASSUME HInv, StopBoth PROVE HInv'
  <1>1. IInv'
    <2> USE DEF HInv, IInv, ProcessesOK, Processes, Actor, StopBoth, StackStops, Goto
    <2>1. server' \in Containers /\ (server'.occupied => server.occupied)
      BY DockerSound DEF Pcs
    <2>2. run' \in Processes /\ run'["daemon"].allow = FALSE
      BY DEF Pcs
    <2>3. /\ run'["daemon"].pc \in {run["daemon"].pc, "off", "query"}
          /\ \/ UNCHANGED <<dog, seen>>
             \/ dog' = Idle /\ seen' = Spent /\ run'["daemon"].pc \in {"off", "query"}
      OBVIOUS
    <2>4. \A b \in Actor : run'[b].pc = "stop" => run'[b] = run[b]
      OBVIOUS
    <2>5. host' \in {"on", "off"}
      OBVIOUS
    <2> QED BY <2>1, <2>2, <2>3, <2>4, <2>5, WatchdogKept
  <1>8. ~Running'
    BY HaltedDown DEF StopBoth, StackStops
  <1> USE DEF HInv, HostPart, StopBoth, StackStops, Stopped, IInv, ProcessesOK, Processes,
      Running, Goto, Step, Continue
  <1>2. HostForm'
    BY <1>8 DEF HostForm, Stacks, Ctls, Kinds, CtlPcs, Actor
  <1>3. OneShot'
    BY <1>8 DEF OneShot, HostForm, CommandPcs, Rest, AfterSaving, Actor
  <1>4. BuildsOverStopped'
    BY <1>8 DEF BuildsOverStopped, HostForm, OneShot, AfterSaving, Actor
  <1>5. HeldDown'
    BY <1>8 DEF HeldDown, HostForm, OneShot, BuildsOverStopped
  <1>6. PowerOffClean'
    BY <1>8 DEF PowerOffClean, HostForm, OneShot, BuildsOverStopped, AfterSaving, At, Actor
  <1> QED BY <1>1, <1>2, <1>3, <1>4, <1>5, <1>6

\* A recovery cannot start under the lock.
LEMMA RecoverKept == ASSUME HInv, Recover PROVE HInv'
  <1>1. IInv'
    <2> USE DEF HInv, IInv, ProcessesOK, Processes, Actor, Recover, StackStops, Goto
    <2>1. server' \in Containers /\ (server'.occupied => server.occupied)
      BY DockerSound DEF Pcs
    <2>2. run' \in Processes /\ run'["daemon"].allow = FALSE
      BY DEF Pcs
    <2>3. /\ run'["daemon"].pc \in {run["daemon"].pc, "off", "query"}
          /\ \/ UNCHANGED <<dog, seen>>
             \/ dog' = Idle /\ seen' = Spent /\ run'["daemon"].pc \in {"off", "query"}
      OBVIOUS
    <2>4. \A b \in Actor : run'[b].pc = "stop" => run'[b] = run[b]
      OBVIOUS
    <2>5. host' \in {"on", "off"}
      OBVIOUS
    <2> QED BY <2>1, <2>2, <2>3, <2>4, <2>5, WatchdogKept
  <1>8. ~Running'
    BY HaltedDown DEF Recover, StackStops
  <1> USE DEF HInv, HostPart, Recover, StackStops, Stopped, Starting, MayStart, LockFree,
      GiveUp, NoCtl, IInv, ProcessesOK, Processes, Running, Goto, Step
  <1>2. HostForm'
    BY <1>8 DEF HostForm, Stacks, Ctls, Kinds, CtlPcs, Actor
  <1>3. OneShot'
    BY <1>8 DEF OneShot, HostForm, CommandPcs, Rest, AfterSaving, Actor
  <1>4. BuildsOverStopped'
    BY <1>8 DEF BuildsOverStopped, HostForm, OneShot, AfterSaving, Actor
  <1>5. HeldDown'
    BY <1>8 DEF HeldDown, HostForm, OneShot, BuildsOverStopped
  <1>6. PowerOffClean'
    BY <1>8 DEF PowerOffClean, HostForm, OneShot, BuildsOverStopped, AfterSaving, At, Actor
  <1> QED BY <1>1, <1>2, <1>3, <1>4, <1>5, <1>6

\* A start under authorisation begins over a stopped server.
LEMMA BeginUpKept == ASSUME HInv, BeginUp PROVE HInv'
  <1>1. IInv'
    <2> USE DEF HInv, IInv, ProcessesOK, Processes, Actor, BeginUp, StackStops, Goto
    <2>1. server' \in Containers /\ (server'.occupied => server.occupied)
      BY DockerSound DEF Pcs
    <2>2. run' \in Processes /\ run'["daemon"].allow = FALSE
      BY DEF Pcs
    <2>3. /\ run'["daemon"].pc \in {run["daemon"].pc, "off", "query"}
          /\ \/ UNCHANGED <<dog, seen>>
             \/ dog' = Idle /\ seen' = Spent /\ run'["daemon"].pc \in {"off", "query"}
      OBVIOUS
    <2>4. \A b \in Actor : run'[b].pc = "stop" => run'[b] = run[b]
      OBVIOUS
    <2>5. host' \in {"on", "off"}
      OBVIOUS
    <2> QED BY <2>1, <2>2, <2>3, <2>4, <2>5, WatchdogKept
  <1>8. ~Running'
    BY HaltedDown DEF BeginUp, StackStops
  <1> USE DEF HInv, HostPart, BeginUp, StackStops, Starting, IInv, ProcessesOK, Processes,
      Running, Goto, Step, Continue
  <1>2. HostForm'
    BY <1>8 DEF HostForm, Stacks, Ctls, Kinds, CtlPcs, Actor
  <1>3. OneShot'
    BY <1>8 DEF OneShot, HostForm, CommandPcs, Rest, AfterSaving, Actor
  <1>4. BuildsOverStopped'
    BY <1>8 DEF BuildsOverStopped, HostForm, OneShot, AfterSaving, Actor
  <1>5. HeldDown'
    BY <1>8 DEF HeldDown, HostForm, OneShot, BuildsOverStopped
  <1>6. PowerOffClean'
    BY <1>8 DEF PowerOffClean, HostForm, OneShot, BuildsOverStopped, AfterSaving, At, Actor
  <1> QED BY <1>1, <1>2, <1>3, <1>4, <1>5, <1>6

\* A command is killed with its one-shot; a start job it ordered goes on.
LEMMA KillCommandKept == ASSUME HInv, KillCommand PROVE HInv'
  <1>1. IInv'
    <2> USE DEF HInv, IInv, ProcessesOK, Processes, Actor, KillCommand, CommandOff
    <2>1. server' \in Containers /\ (server'.occupied => server.occupied)
      BY DockerSound DEF Pcs
    <2>2. run' \in Processes /\ run'["daemon"].allow = FALSE
      BY DEF Pcs
    <2>3. /\ run'["daemon"].pc \in {run["daemon"].pc, "off", "query"}
          /\ \/ UNCHANGED <<dog, seen>>
             \/ dog' = Idle /\ seen' = Spent /\ run'["daemon"].pc \in {"off", "query"}
      OBVIOUS
    <2>4. \A b \in Actor : run'[b].pc = "stop" => run'[b] = run[b]
      OBVIOUS
    <2>5. host' \in {"on", "off"}
      OBVIOUS
    <2> QED BY <2>1, <2>2, <2>3, <2>4, <2>5, WatchdogKept
  <1>7. Running' => Running \/ run["command"].pc = "revive"
    BY DEF KillCommand, Effects, Halted, Exits, Exited, Fresh, Running, HInv, HostPart, OneShot,
           CommandPcs, Rest, AfterSaving
  <1> USE DEF HInv, HostPart, KillCommand, CommandOff, NoCtl, Effects, Halted, Exits,
      Exited, Fresh, IInv, ProcessesOK, Processes, Running, Step
  <1>2. HostForm'
    BY <1>7 DEF HostForm, Stacks, Ctls, Kinds, CtlPcs, Actor
  <1>3. OneShot'
    BY <1>7 DEF OneShot, HostForm, CommandPcs, Rest, AfterSaving, Actor
  <1>4. BuildsOverStopped'
    BY <1>7 DEF BuildsOverStopped, HostForm, OneShot, AfterSaving, Actor
  <1>5. HeldDown'
    BY <1>7 DEF HeldDown, HostForm, OneShot, BuildsOverStopped
  <1>6. PowerOffClean'
    BY <1>7 DEF PowerOffClean, HostForm, OneShot, BuildsOverStopped, AfterSaving, At, Actor
  <1> QED BY <1>1, <1>2, <1>3, <1>4, <1>5, <1>6

\* Power loss ends everything.
LEMMA PowerLossEnds == ASSUME HInv, PowerLoss PROVE HInv'
  <1>1. IInv'
    BY PowerLossKept DEF HInv
  <1>2. ~Running' /\ \A a \in Actor : run'[a].pc = "off"
    BY DEF PowerLoss, AllDown, Exited, Running, HInv, IInv, ProcessesOK, Processes
  <1> QED BY <1>1, <1>2, OffKept DEF PowerLoss, HostDown, HInv

(***************************************************************************)
(* The watchdog is given back                                              *)
(***************************************************************************)

\* What a command remembers of the daemon it stopped, and the branch it is on: it
\* owes nothing before it has stopped the daemon, only pz-backup defers the debt to
\* its exit trap, and there only after a server it did not stop.
Accounts ==
    /\ ctl.watched => ctl.pc \notin {"survey", "stop-both", "survey-again", "suspend",
                                     "look", "quiesce"}
    /\ ctl.owed => ctl.kind \in {"backup", "start"}
    /\ ctl.kind = "start" => ctl.pc \in {"inspect", "adopt", "begin-up", "up"}
    /\ ctl.pc \in {"suspend", "look", "archive", "trap"} => ctl.kind = "backup"
    /\ ctl.pc \in {"survey", "stop-both", "survey-again"} => ctl.kind = "update"
    /\ ctl.kind = "shutdown" => ctl.pc \in {"quiesce", "launch", "await"}
    /\ ctl.kind = "backup" /\ (ctl.watched \/ ctl.pc = "quiesce") => ctl.ran

\* A command that goes on keeps its accounts, and one that ends closes them.
LEMMA GoesOn ==
    ASSUME HInv, Accounts, NEW pc \in CtlPcs, Continue(pc), ctl.kind # "none",
           pc \in {"survey", "stop-both", "survey-again", "suspend", "look", "quiesce"} =>
               ~ctl.watched,
           ctl.kind = "start" => pc \in {"inspect", "adopt", "begin-up", "up"},
           pc \in {"suspend", "look", "archive", "trap"} => ctl.kind = "backup",
           pc \in {"survey", "stop-both", "survey-again"} => ctl.kind = "update",
           ctl.kind = "shutdown" => pc \in {"quiesce", "launch", "await"},
           pc = "quiesce" => ctl.kind # "backup"
    PROVE  Accounts'
  BY DEF Continue, Accounts, HInv, HostPart, HostForm, Ctls

LEMMA Ends == ASSUME ctl' = NoCtl \/ ctl' = [NoCtl EXCEPT !.pc = "killed"] PROVE Accounts'
  BY DEF NoCtl, Accounts

\* Every step of the guarded stop keeps the accounts, ...
LEMMA GuardedStopAccounts == ASSUME HInv, Accounts, GuardedStop PROVE Accounts'
  <1> USE DEF Step, HInv, HostPart, HostForm, Ctls, Kinds, CtlPcs
  <1>1. CASE Quiesce
    BY <1>1 DEF Quiesce, Accounts, IsActive, IInv, ProcessesOK, Processes
  <1>2. CASE QuiesceFails
    BY <1>2, Ends DEF QuiesceFails, GiveUp, Accounts
  <1>3. CASE Launch
    BY <1>3, GoesOn DEF Launch, Accounts
  <1>4. CASE Succeeded
    BY <1>4, GoesOn, Ends DEF Succeeded, Accounts
  <1>5. CASE Failed
    BY <1>5, Ends DEF Failed, GiveUp, Accounts
  <1>6. CASE StopUnit
    BY <1>6, GoesOn, Ends DEF StopUnit, Accounts
  <1>7. CASE StopUnitFails
    BY <1>7, GoesOn DEF StopUnitFails, Accounts
  <1>8. CASE Recover
    BY <1>8, Ends DEF Recover, GiveUp, Accounts
  <1> QED BY <1>1, <1>2, <1>3, <1>4, <1>5, <1>6, <1>7, <1>8 DEF GuardedStop

\* ... as does every step of a start ...
LEMMA StartAccounts == ASSUME HInv, Accounts, StartStack PROVE Accounts'
  <1> USE DEF Step, HInv, HostPart, HostForm, Ctls, Kinds, CtlPcs
  <1>1. CASE InspectRunning \/ InspectClean \/ InspectRefuses
    BY <1>1, GoesOn, Ends DEF InspectRunning, InspectClean, InspectRefuses, Accounts
  <1>2. CASE Adopt \/ UpSucceeds \/ UpFails
    BY <1>2, Ends DEF Adopt, UpSucceeds, UpFails
  <1>3. CASE BeginUp
    BY <1>3, GoesOn DEF BeginUp, Accounts
  <1> QED BY <1>1, <1>2, <1>3 DEF StartStack

\* ... and of an update or a backup.
LEMMA OthersAccounts == ASSUME HInv, Accounts, UpdateOrBackup PROVE Accounts'
  <1> USE DEF Step, HInv, HostPart, HostForm, Ctls, Kinds, CtlPcs
  <1>1. CASE Survey
    BY <1>1, GoesOn, Ends DEF Survey, Accounts
  <1>2. CASE StopBoth \/ SurveyAgain
    BY <1>2, GoesOn, Ends DEF StopBoth, SurveyAgain, Accounts
  <1>3. CASE SurveyFails
    BY <1>3, Ends DEF SurveyFails
  <1>4. CASE UpdaterEnds
    BY <1>4, GoesOn DEF UpdaterEnds, Accounts
  <1>5. CASE Suspend \/ BackupFails
    BY <1>5 DEF Suspend, BackupFails, Accounts
  <1>6. CASE \E answer \in Answers : Look(answer)
    BY <1>6, GoesOn DEF Look, GiveUp, Accounts
  <1>7. CASE Archived
    BY <1>7, GoesOn DEF Archived, Accounts
  <1>8. CASE Trap
    BY <1>8, Ends DEF Trap, Accounts
  <1> QED BY <1>1, <1>2, <1>3, <1>4, <1>5, <1>6, <1>7, <1>8 DEF UpdateOrBackup

\* Every step of the host keeps them.
LEMMA AccountsKept == ASSUME HInv, Accounts, [HostNext]_vars PROVE Accounts'
  <1>1. CASE UNCHANGED ctl
    BY <1>1 DEF Accounts
  <1>2. CASE Watchdog \/ PowerLoss
    BY <1>1, <1>2, Ends DEF Watchdog, PowerLoss, HostDown
  <1>3. CASE (Environs /\ UNCHANGED <<stack, ctl>>) \/ Systemd \/ UNCHANGED vars
    BY <1>1, <1>3 DEF Systemd, ComposeUp, StackReady, StackFails, Boot, vars
  <1>4. CASE GuardedStop \/ StartStack \/ UpdateOrBackup
    BY <1>4, GuardedStopAccounts, StartAccounts, OthersAccounts
  <1>5. CASE \E kind \in Kinds, allow \in BOOLEAN : Acquire(kind, allow)
    BY <1>5 DEF Acquire, FirstPc, Kinds, NoCtl, Accounts
  <1>6. CASE KillCommand
    BY <1>6, Ends DEF KillCommand
  <1> QED BY <1>2, <1>3, <1>4, <1>5, <1>6 DEF HostNext

\* How a command that owes the daemon ends: another end is one of a backup that goes
\* on to its trap, of a command that owes nothing, of one that is killed or refuses
\* over the container, or of the host.
LEMMA EndsWatched ==
    ASSUME HInv, Accounts, [HostNext]_vars
    PROVE  ctl.kind # "none" /\ ctl'.kind = "none" /\ ctl'.pc # "killed" /\ ctl.pc # "inspect"
           /\ ~(DryRun /\ ctl.kind = "shutdown")
           /\ (ctl.watched \/ ctl.owed) /\ host' = "on" /\ stack'.state = "active"
             => run'["daemon"].pc # "off"
  <1> SUFFICES ASSUME ctl.kind # "none", ctl'.kind = "none", ctl'.pc # "killed",
                      ctl.pc # "inspect", ~(DryRun /\ ctl.kind = "shutdown"),
                      ctl.watched \/ ctl.owed, host' = "on", stack'.state = "active"
               PROVE  run'["daemon"].pc # "off"
    OBVIOUS
  <1> USE DEF Step, HInv, HostPart, HostForm, Ctls, NoCtl
  <1>0. run \in Processes
    BY DEF IInv, ProcessesOK
  <1>1. CASE GuardedStop
    <2>1. ~Quiesce /\ ~QuiesceFails /\ ~Launch /\ ~StopUnitFails
      BY DEF Quiesce, QuiesceFails, Launch, StopUnitFails, GiveUp, Continue, Accounts
    <2>2. ~Succeeded
      BY DEF Succeeded, Continue, At, OneShot
    <2>3. ~StopUnit /\ ~Recover
      BY DEF StopUnit, Recover, Stopped, Starting, Continue
    <2>4. CASE Failed
      <3>1. ctl.watched /\ stack.state = "active"
        BY <2>4 DEF Failed, GiveUp, Accounts
      <3> QED BY <1>0, <2>4, <3>1 DEF Failed, StartDaemon, IsActive, CommandOff, Processes, Actor
    <2> QED BY <1>1, <2>1, <2>2, <2>3, <2>4 DEF GuardedStop
  <1>2. CASE StartStack
    <2>1. ~InspectRunning /\ ~InspectClean /\ ~InspectRefuses /\ ~BeginUp /\ ~UpFails
      BY DEF InspectRunning, InspectClean, InspectRefuses, BeginUp, UpFails, Continue
    <2>2. CASE Adopt
      BY <1>0, <2>2 DEF Adopt, StartDaemon, IsActive, Processes, Actor
    <2>3. CASE UpSucceeds
      BY <1>0, <2>3 DEF UpSucceeds, Processes, Actor
    <2> QED BY <1>2, <2>1, <2>2, <2>3 DEF StartStack
  <1>3. CASE UpdateOrBackup
    <2>1. ~Survey /\ ~StopBoth /\ ~SurveyAgain /\ ~SurveyFails /\ ~UpdaterEnds
      BY DEF Survey, StopBoth, SurveyAgain, SurveyFails, UpdaterEnds, Continue, Accounts
    <2>2. ~Suspend /\ ~BackupFails /\ ~Archived /\ ~\E answer \in Answers : Look(answer)
      BY DEF Suspend, BackupFails, Archived, Look, GiveUp, Continue, Accounts
    <2>3. CASE Trap
      <3>1. ctl.owed /\ ~ctl.ran /\ stack.state = "active"
        BY <2>3 DEF Trap, Accounts
      <3> QED BY <1>0, <2>3, <3>1 DEF Trap, StartDaemon, IsActive, Processes, Actor
    <2> QED BY <1>3, <2>1, <2>2, <2>3 DEF UpdateOrBackup
  <1>4. ctl' # ctl /\ ctl' # [NoCtl EXCEPT !.pc = "killed"]
    OBVIOUS
  <1>5. ~(Watchdog \/ PowerLoss \/ KillCommand)
    BY <1>4 DEF Watchdog, PowerLoss, KillCommand
  <1>6. ~Systemd /\ ~(Environs /\ UNCHANGED <<stack, ctl>>) /\ ~UNCHANGED vars
    BY <1>4 DEF Systemd, ComposeUp, StackReady, StackFails, Boot, vars
  <1>7. ~\E kind \in Kinds, allow \in BOOLEAN : Acquire(kind, allow)
    BY DEF Acquire, Kinds
  <1> QED BY <1>1, <1>2, <1>3, <1>5, <1>6, <1>7 DEF HostNext

(***************************************************************************)
(* The theorems                                                            *)
(***************************************************************************)

\* The invariant holds at first ...
LEMMA HostInitSound == ASSUME HostInit PROVE HInv
  <1>1. IInv
    BY InitSound DEF HostInit
  <1>2. HostForm /\ OneShot
    BY DEF HostInit, Init, HostForm, OneShot, Stopped, NoCtl, Stacks, Ctls, Kinds, CtlPcs,
           Actor, CommandPcs, Rest
  <1>3. BuildsOverStopped /\ HeldDown /\ PowerOffClean
    BY DEF HostInit, Init, BuildsOverStopped, HeldDown, PowerOffClean, Stopped, NoCtl, At,
           Actor, AfterSaving
  <1> QED BY <1>1, <1>2, <1>3 DEF HInv, HostPart

\* ... and every step of the host preserves it.
LEMMA HostStepSound == ASSUME HInv, [HostNext]_vars PROVE HInv'
  <1>1. CASE Watchdog
    BY <1>1, WatchdogStepKept
  <1>2. CASE Environs /\ UNCHANGED <<stack, ctl>>
    BY <1>2, EnvironsKept
  <1>3. CASE GuardedStop
    BY <1>3, QuiesceKept, QuiesceFailsKept, LaunchKept, SucceededKept, FailedKept,
       StopUnitKept, StopUnitFailsKept, RecoverKept DEF GuardedStop
  <1>4. CASE StartStack
    BY <1>4, InspectRunningKept, InspectCleanKept, InspectRefusesKept, AdoptKept,
       BeginUpKept, UpSucceedsKept, UpFailsKept DEF StartStack
  <1>5. CASE UpdateOrBackup
    BY <1>5, SurveyKept, StopBothKept, SurveyAgainKept, SurveyFailsKept, UpdaterEndsKept,
       SuspendKept, BackupFailsKept, LookKept, ArchivedKept, TrapKept DEF UpdateOrBackup
  <1>6. CASE Systemd
    BY <1>6, ComposeUpKept, StackReadyKept, StackFailsKept, BootKept DEF Systemd
  <1>7. CASE \E kind \in Kinds, allow \in BOOLEAN : Acquire(kind, allow)
    BY <1>7, AcquireKept
  <1>8. CASE KillCommand \/ PowerLoss
    BY <1>8, KillCommandKept, PowerLossEnds
  <1>9. CASE UNCHANGED vars
    <2>1. IInv'
      BY <1>9, StepSound DEF HInv, vars
    <2>2. HostPart'
      BY <1>9 DEF vars, watchdogVars, HInv, HostPart, HostForm, OneShot, BuildsOverStopped,
                  HeldDown, PowerOffClean, At, Running
    <2> QED BY <2>1, <2>2 DEF HInv
  <1> QED
    BY <1>1, <1>2, <1>3, <1>4, <1>5, <1>6, <1>7, <1>8, <1>9 DEF HostNext

\* On every host, with and without kills of commands.
THEOREM HostInvariance == HostSpec => []HInv
  <1>1. HostInit => HInv
    BY HostInitSound
  <1>2. HInv /\ [HostNext]_vars => HInv'
    BY HostStepSound
  <1> QED BY <1>1, <1>2, PTL DEF HostSpec

\* Every variable has its type; what runs, runs on a host that is on, and the daemon
\* beside an active stack.
THEOREM HostTypes == HostSpec => []HostTypeOK
  <1>1. HInv => HostTypeOK
    BY DEF HInv, IInv, TypeOK, ServerOK, Server, ProcessesOK, Processes, DaemonOK, State,
           History, HostPart, HostForm, Stacks, Ctls, HostTypeOK
  <1> QED BY <1>1, HostInvariance, PTL

\* The daemon and the one-shot of a command are never at work at the same time.
THEOREM WatchdogsApart == HostSpec => []Apart
  <1>1. HInv => Apart
    BY DEF HInv, HostPart, OneShot, Apart
  <1> QED BY <1>1, HostInvariance, PTL

\* Power-off is ordered only over a server that exited cleanly and is still down,
\* start jobs left by killed commands included.
THEOREM PowerOffOverClean == HostSpec => []PowerOffClean
  <1>1. HInv => PowerOffClean
    BY DEF HInv, HostPart
  <1> QED BY <1>1, HostInvariance, PTL

\* Nothing but the command's own start brings back the server it stopped.
THEOREM StaysDown == HostSpec => []DownUntilStarted
  <1>1. HInv => DownUntilStarted
    BY DEF HInv, HostPart, HeldDown, DownUntilStarted
  <1> QED BY <1>1, HostInvariance, PTL

\* What IdleWatchdog promises of the daemon also holds on the host, where units,
\* commands and backups stop and start it.
THEOREM PromisesKeptOnHost ==
    HostSpec => [](StopJustified /\ RestartJustified /\ NobodyDropped)
  <1>1. HInv => StopJustified /\ RestartJustified /\ NobodyDropped
    BY DEF HInv, IInv, DaemonOK
  <1> QED BY <1>1, HostInvariance, PTL

\* A command that stopped the daemon gives it back however the command ends, but for
\* the ends that WatchKept names.
THEOREM WatchdogGivenBack == HostSpec => WatchKept
  <1>1. HostInit => Accounts
    BY DEF HostInit, NoCtl, Accounts
  <1>2. HInv /\ Accounts /\ [HostNext]_vars => Accounts'
    BY AccountsKept
  <1>3. HInv /\ Accounts /\ [HostNext]_vars =>
          (ctl.kind # "none" /\ ctl'.kind = "none" /\ ctl'.pc # "killed"
           /\ ctl.pc # "inspect" /\ ~(DryRun /\ ctl.kind = "shutdown")
           /\ (ctl.watched \/ ctl.owed) /\ host' = "on" /\ stack'.state = "active"
             => run'["daemon"].pc # "off")
    BY EndsWatched, Zenon
  <1> QED BY <1>1, <1>2, <1>3, HostInvariance, PTL DEF HostSpec, WatchKept

=============================================================================
