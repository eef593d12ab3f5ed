-------------------------- MODULE MCHostLifecycle --------------------------
(***************************************************************************)
(* HostLifecycle with fairness, and what it comes to once faults, kills,   *)
(* boots and operator commands cease.                                      *)
(***************************************************************************)
EXTENDS HostLifecycle, MCIdleWatchdog

Beside(A) == A /\ IF host' = "off" THEN HostDown ELSE UNCHANGED <<stack, ctl>>

CommandGoesOn ==
    \/ Quiesce \/ Launch \/ Succeeded \/ Failed \/ StopUnit \/ Recover
    \/ InspectRunning \/ InspectClean \/ (server.ctr = "unclean" /\ InspectRefuses)
    \/ Adopt \/ BeginUp \/ UpSucceeds \/ UpFails
    \/ Survey \/ StopBoth \/ SurveyAgain \/ UpdaterEnds
    \/ Suspend \/ (\E answer \in Expected : Look(answer)) \/ Archived \/ Trap

\* `compose up --wait` gives up on a container that exits or turns unhealthy.
StackGoesOn ==
    ComposeUp \/ StackReady \/ (stack.state = "waiting" /\ Dead /\ StackFails)

\* Commands, start jobs and processes go on, since all they wait for has a timeout.
HostFairSpec ==
    /\ HostSpec
    /\ \A a \in Actor : WF_vars(Beside(Steady(a)))
    /\ WF_vars(CommandGoesOn)
    /\ WF_vars(StackGoesOn)
    /\ WF_vars(Beside(HealthPasses))

HostCalm ==
    <>[][\/ CommandGoesOn \/ StackGoesOn
         \/ Beside(Players \/ HealthPasses \/ \E a \in Actor : Steady(a))]_vars

\* Once faults, kills and commands cease, no command holds the lock for ever.
LifecycleLockReleased == HostCalm => []<>(ctl.kind = "none")

\* And an empty host is switched off in the end unless it lost its watchdog.
WatchedHostSleeps ==
    HostCalm => []<>(server.occupied \/ host = "off" \/ run["daemon"].pc = "off")

=============================================================================
