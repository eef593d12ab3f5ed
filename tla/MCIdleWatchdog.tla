--------------------------- MODULE MCIdleWatchdog ---------------------------
(***************************************************************************)
(* IdleWatchdog with the fairness its scheduling justifies, and what it    *)
(* comes to once faults and operator commands cease.  Players come and go  *)
(* without end.                                                            *)
(***************************************************************************)
EXTENDS IdleWatchdog

Healthy == Running /\ server.health = "healthy"

\* What a healthy host does: it answers, confirms, stops cleanly, powers off.
\* A server that is not healthy may also stay silent and not save.
Expected == IF Healthy THEN Answers \ {"unknown"} ELSE Answers

Steady(a) ==
    \/ CheckEligible(a)
    \/ \E answer \in Expected : BeforeSave(a, answer) \/ AfterSave(a, answer)
    \/ SaveWorld(a) \/ (~Healthy /\ SaveFails(a))
    \/ StopServer(a) /\ (Running => server'.ctr = "clean")
    \/ Verify(a) \/ IsStopped(a) \/ PowerOff(a)
    \/ Revive(a) \/ Await(a)
    \/ /\ a = "daemon"
       /\ \/ Tick \/ InspectDead \/ (~Dead /\ InspectAlive)
          \/ RestartServer \/ DaemonRestarts
          \/ \E answer \in Expected : Poll(answer) \/ Recheck(answer)

\* Both processes go on, since every query and command they wait for has a
\* timeout; systemd restarts a daemon that died; a server that is starting
\* becomes healthy, since Docker's start period ends.
Fairness ==
    /\ \A a \in Actor : WF_watchdogVars(Steady(a))
    /\ WF_watchdogVars(CommandReturns)
    /\ WF_watchdogVars(HealthPasses)

FairSpec == Spec /\ Fairness

\* From some time on nothing fails, nothing is killed and no command is given.
Calm ==
    <>[][\/ Players \/ HealthPasses \/ CommandReturns
         \/ \E a \in Actor : Steady(a)]_watchdogVars

\* Once faults cease, an empty host is switched off in the end: the server that
\* went down is restarted first, and aborted attempts are repeated.
IdleHostSleeps == Calm => []<>(server.occupied \/ host = "off")

\* Once faults cease, a server that is down comes back or its host is off.
ServerReturns == Calm => []<>(Running \/ host = "off")

=============================================================================
