---------------------------- MODULE IdleWatchdog ----------------------------
(***************************************************************************)
(* pz-watchdog on the AWS host: the daemon that polls the player count     *)
(* (WatchdogEngine), the shutdown it may order (ShutdownCoordinator), the  *)
(* container it stops and starts (DockerComposeService), and a one-shot    *)
(* `pz-watchdog graceful-stop` or `shutdown-host` beside it.               *)
(*                                                                         *)
(* Every RCON query, docker command and systemctl call is a step of its    *)
(* own: players come and go, the server may exit and a process may be      *)
(* killed between any two.  Time is counted in poll intervals, from one    *)
(* tick of the daemon to the next; only its two timers depend on it.       *)
(***************************************************************************)
EXTENDS Integers

CONSTANTS
    IdleTimeout,    \* idle_timeout_seconds, in poll intervals
    OutageTimeout,  \* health_failure_timeout_seconds, in poll intervals
    FinalChecks,    \* final_check_count
    MaxGap,         \* a slow tick delays the next by at most this many intervals
    DryRun,         \* DRY_RUN
    Armed           \* aws, enabled, and the guard file in place

ASSUME TimeoutAssumption == {IdleTimeout, OutageTimeout, MaxGap} \subseteq Nat \ {0}
ASSUME CheckAssumption == FinalChecks \in Nat /\ FinalChecks >= 2
ASSUME SwitchAssumption == DryRun \in BOOLEAN /\ Armed \in BOOLEAN

VARIABLES
    host,       \* "on" or "off"
    server,     \* the container: running or how it exited, its health, players
    run,        \* each pz-watchdog process: its program counter and what it was told
    dog,        \* the daemon's WatchdogState, and the final check it is at
    seen        \* history: what the daemon observed, and who was late to see a player

watchdogVars == <<host, server, run, dog, seen>>

-----------------------------------------------------------------------------
(* Values *)

Actor == {"daemon", "command"}

\* A timer that is not running.
None == -1

\* RESTART_POLICY=no on AWS: an exited container stays as it exited.
Running == server.ctr = "running"
Fresh == [ctr |-> "running", health |-> "starting", occupied |-> FALSE]
Exited(how) == [ctr |-> how, health |-> "starting", occupied |-> FALSE]
Exits == {Exited("clean"), Exited("unclean")}

\* Mutation of CleanExit: exit code, OOM kill and error are not looked at.
AnyExit == ~Running

\* _is_clean_exit
CleanExit == server.ctr = "clean"

\* `docker compose stop`: the entrypoint saves and exits, or it is killed.
Halted(states) ==
    {s \in states : s.ctr # "running"} \cup
    IF \E s \in states : s.ctr = "running" THEN Exits ELSE {}

\* RconAdmin and the player counter answer only from a running server, never
\* wrongly, and not always; after its retries a query is "unknown".
Answers ==
    {"unknown"} \cup
    IF Running THEN {IF server.occupied THEN "some" ELSE "none"} ELSE {}

\* health(): stopped, or the health check failed; anything else excuses it.
Dead == ~Running \/ server.health = "unhealthy"

Older(timer, gap, limit) ==
    IF timer = None THEN None ELSE IF timer + gap > limit THEN limit ELSE timer + gap

Idle == [idle |-> None, outage |-> None, reported |-> FALSE, check |-> 0]

\* What docker may have done for a process when its command failed or the
\* process was killed while it waited for the command.
Effects(pc) ==
    {server} \cup
    CASE pc = "stop" -> Halted({server})
      [] pc = "restart" -> Exits \cup {Fresh}
      [] pc = "revive" -> IF Running THEN {} ELSE {Fresh}
      [] OTHER -> {}

-----------------------------------------------------------------------------
(* History *)

\* quiet: time since the first of the latest unbroken row of zero answers;
\* confirmed: zero answers in that row since it was IdleTimeout old;
\* dark: time since the first of the latest row of dead inspections;
\* late: processes that had asked for the last time when the player joined.
NothingSeen == [quiet |-> None, confirmed |-> 0, dark |-> None, late |-> {}]

Noted(a, answer) ==
    IF a # "daemon" THEN seen
    ELSE [quiet |-> IF answer # "none" THEN None
                    ELSE IF seen.quiet = None THEN 0 ELSE seen.quiet,
          confirmed |-> IF answer = "none" /\ seen.quiet = IdleTimeout
                        THEN IF seen.confirmed < FinalChecks + 2
                             THEN seen.confirmed + 1 ELSE seen.confirmed
                        ELSE 0,
          dark |-> IF answer = "unknown" THEN seen.dark ELSE None,
          late |-> seen.late]

\* An attempt that is over justifies no other one.
Spent == [seen EXCEPT !.quiet = None, !.confirmed = 0, !.dark = None]

-----------------------------------------------------------------------------
(* Both kinds of process *)

At(a, pc) == host = "on" /\ run[a].pc = pc
Goto(a, pc) == run' = [run EXCEPT ![a].pc = pc]

\* _reset_empty
ResetEmpty == [dog EXCEPT !.idle = None, !.reported = FALSE]

\* The daemon sleeps after an aborted attempt; a one-shot process reports it.
Aborts(a) ==
    IF a = "daemon"
    THEN Goto(a, "sleep") /\ dog' = [ResetEmpty EXCEPT !.outage = None] /\ seen' = Spent
    ELSE Goto(a, "failed") /\ UNCHANGED <<dog, seen>>

-----------------------------------------------------------------------------
(* WatchdogEngine *)

\* run_watchdog sleeps a poll interval, then ticks.
Tick ==
    /\ At("daemon", "sleep")
    /\ \E gap \in 1..MaxGap :
         /\ dog' = [dog EXCEPT !.idle = Older(@, gap, IdleTimeout),
                               !.outage = Older(@, gap, OutageTimeout)]
         /\ seen' = [seen EXCEPT !.quiet = Older(@, gap, IdleTimeout),
                                 !.dark = Older(@, gap, OutageTimeout)]
    /\ Goto("daemon", "query")
    /\ UNCHANGED <<host, server>>

\* tick: players are connected.
TickSome ==
    /\ dog' = [ResetEmpty EXCEPT !.outage = None]
    /\ Goto("daemon", "sleep")

\* Mutation of TickNone: every empty tick starts the timer.
TickNoneAnew ==
    /\ dog' = [dog EXCEPT !.outage = None, !.idle = 0, !.check = 2]
    /\ Goto("daemon",
            IF dog.idle = IdleTimeout /\ ~dog.reported THEN "recheck" ELSE "sleep")

\* _handle_empty
TickNone ==
    /\ dog' = [dog EXCEPT !.outage = None,
                          !.idle = IF @ = None THEN 0 ELSE @,
                          !.reported = @ /\ dog.idle # None,
                          !.check = 2]
    /\ Goto("daemon",
            IF dog.idle = IdleTimeout /\ ~dog.reported THEN "recheck" ELSE "sleep")

\* Mutation of TickUnknown: an unanswered query leaves the idle timer running.
TickUnknownIdle == UNCHANGED dog /\ Goto("daemon", "health")

\* Mutation of TickUnknown: it also forgets since when the server has been dead.
TickUnknownAnew ==
    dog' = [ResetEmpty EXCEPT !.outage = None] /\ Goto("daemon", "health")

\* _handle_unknown, up to the inspection
TickUnknown == dog' = ResetEmpty /\ Goto("daemon", "health")

Poll(answer) ==
    /\ At("daemon", "query") /\ answer \in Answers
    /\ CASE answer = "some" -> TickSome
         [] answer = "none" -> TickNone
         [] OTHER -> TickUnknown
    /\ seen' = Noted("daemon", answer)
    /\ UNCHANGED <<host, server>>

\* _handle_unknown: the outage timer runs while the inspection finds it dead.
InspectDead ==
    /\ At("daemon", "health") /\ Dead
    /\ dog' = [dog EXCEPT !.outage = IF @ = None THEN 0 ELSE @]
    /\ Goto("daemon", IF dog.outage = OutageTimeout THEN "restart" ELSE "sleep")
    /\ seen' = [seen EXCEPT !.dark = IF @ = None THEN 0 ELSE @]
    /\ UNCHANGED <<host, server>>

\* Mutation of InspectAlive: the outage timer is kept.
InspectAliveKeeps ==
    /\ At("daemon", "health")
    /\ Goto("daemon", "sleep")
    /\ seen' = [seen EXCEPT !.dark = None]
    /\ UNCHANGED <<host, server, dog>>

\* Healthy, still starting, or the inspection itself failed.
InspectAlive ==
    /\ At("daemon", "health")
    /\ dog' = [dog EXCEPT !.outage = None]
    /\ Goto("daemon", "sleep")
    /\ seen' = [seen EXCEPT !.dark = None]
    /\ UNCHANGED <<host, server>>

\* restart(): `docker compose restart`, then wait_until_healthy.
RestartServer ==
    /\ At("daemon", "restart")
    /\ server' = Fresh
    /\ Goto("daemon", "await")
    /\ UNCHANGED <<host, dog, seen>>

RestartFails ==
    /\ At("daemon", "restart")
    /\ server' \in Effects("restart")
    /\ Aborts("daemon")
    /\ UNCHANGED host

\* range(2, final_check_count + 1) has another check.
ChecksLeft == dog.check < FinalChecks

\* execute(): under DRY_RUN it only reports.
Ordered ==
    IF DryRun THEN dog' = [dog EXCEPT !.reported = TRUE] /\ Goto("daemon", "sleep")
    ELSE UNCHANGED dog /\ Goto("daemon", "eligible")

\* _final_shutdown_validation
Recheck(answer) ==
    /\ At("daemon", "recheck") /\ answer \in Answers
    /\ seen' = Noted("daemon", answer)
    /\ IF answer # "none" THEN dog' = ResetEmpty /\ Goto("daemon", "sleep")
       ELSE IF ChecksLeft THEN dog' = [dog EXCEPT !.check = @ + 1] /\ UNCHANGED run
       ELSE Ordered
    /\ UNCHANGED <<host, server>>

-----------------------------------------------------------------------------
(* ShutdownCoordinator.execute, and graceful_stop of the command line,     *)
(* which is its middle part                                                *)

\* A known answer, and nobody connected unless the operator accepts that.
Permits(a, answer) == answer = "none" \/ (answer = "some" /\ run[a].allow)

CheckEligible(a) ==
    /\ At(a, "eligible")
    /\ IF Armed THEN Goto(a, "before-save") /\ UNCHANGED <<dog, seen>> ELSE Aborts(a)
    /\ UNCHANGED <<host, server>>

\* _players_allow_shutdown: an answer that does not permit it aborts.
Consult(a, answer, next) ==
    /\ answer \in Answers
    /\ IF Permits(a, answer)
       THEN Goto(a, next) /\ seen' = Noted(a, answer) /\ UNCHANGED dog
       ELSE Aborts(a)
    /\ UNCHANGED <<host, server>>

BeforeSave(a, answer) == At(a, "before-save") /\ Consult(a, answer, "save")

\* Mutation of AfterSave: the players are not asked again.
AfterSaveUnasked(a, answer) ==
    At(a, "after-save") /\ Goto(a, "stop") /\ UNCHANGED <<host, server, dog, seen>>

AfterSave(a, answer) == At(a, "after-save") /\ Consult(a, answer, "stop")

SaveWorld(a) ==
    /\ At(a, "save") /\ Running
    /\ Goto(a, "after-save")
    /\ UNCHANGED <<host, server, dog, seen>>

SaveFails(a) ==
    /\ At(a, "save")
    /\ Aborts(a)
    /\ UNCHANGED <<host, server>>

StopServer(a) ==
    /\ At(a, "stop")
    /\ server' \in Halted({server})
    /\ Goto(a, "verify")
    /\ UNCHANGED <<host, dog, seen>>

StopFails(a) ==
    /\ At(a, "stop")
    /\ server' \in Effects("stop")
    /\ Aborts(a)
    /\ UNCHANGED host

\* graceful_stop: the very container stopped is inspected.
Verify(a) ==
    /\ At(a, "verify")
    /\ IF CleanExit
       THEN /\ Goto(a, IF run[a].plan = "stop" THEN "done" ELSE "is-stopped")
            /\ UNCHANGED <<dog, seen>>
       ELSE Aborts(a)
    /\ UNCHANGED <<host, server>>

IsStopped(a) ==
    /\ At(a, "is-stopped")
    /\ IF CleanExit
       THEN Goto(a, "poweroff") /\ UNCHANGED <<dog, seen>>
       ELSE Aborts(a)
    /\ UNCHANGED <<host, server>>

InspectionFails(a) ==
    /\ At(a, "verify") \/ At(a, "is-stopped")
    /\ Aborts(a)
    /\ UNCHANGED <<host, server>>

\* `systemctl poweroff`: systemd refuses new starts from here on and stops
\* every unit; the host is as good as off.
AllDown == [a \in Actor |-> [run[a] EXCEPT !.pc = "off"]]

PowerOff(a) ==
    /\ At(a, "poweroff") /\ Armed
    /\ host' = "off"
    /\ server' \in Halted({server})
    /\ run' = AllDown
    /\ dog' = Idle /\ seen' = NothingSeen

PowerOffFails(a) ==
    /\ At(a, "poweroff")
    /\ Goto(a, "revive")
    /\ UNCHANGED <<host, server, dog, seen>>

\* start(): `docker compose up --detach`, then wait_until_healthy.
Revive(a) ==
    /\ At(a, "revive")
    /\ server' = IF Running THEN server ELSE Fresh
    /\ Goto(a, "await")
    /\ UNCHANGED <<host, dog, seen>>

ReviveFails(a) ==
    /\ At(a, "revive")
    /\ server' \in Effects("revive")
    /\ Aborts(a)
    /\ UNCHANGED host

\* The server became healthy, or the wait timed out: all one to the caller.
Await(a) ==
    /\ At(a, "await")
    /\ Aborts(a)
    /\ UNCHANGED <<host, server>>

-----------------------------------------------------------------------------
(* Processes and their environment *)

\* shutdown-host does nothing under DRY_RUN and says it is done.
FirstStep(plan) ==
    IF plan = "stop" THEN "before-save" ELSE IF DryRun THEN "done" ELSE "eligible"

RunCommand(plan, allow) ==
    /\ At("command", "off")
    /\ run' = [run EXCEPT !["command"] =
                   [pc |-> FirstStep(plan), plan |-> plan, allow |-> allow]]
    /\ UNCHANGED <<host, server, dog, seen>>

CommandReturns ==
    /\ At("command", "done") \/ At("command", "failed")
    /\ Goto("command", "off")
    /\ UNCHANGED <<host, server, dog, seen>>

Mortal(a) == host = "on" /\ run[a].pc \notin {"off", "down", "done", "failed"}

\* A daemon that dies is "down" until systemd restarts it (Restart=on-failure).
Dies(a) ==
    /\ Mortal(a)
    /\ server' \in Effects(run[a].pc)
    /\ Goto(a, IF a = "daemon" THEN "down" ELSE "failed")
    /\ IF a = "daemon" THEN dog' = Idle /\ seen' = Spent
                       ELSE UNCHANGED <<dog, seen>>
    /\ UNCHANGED host

DaemonRestarts ==
    /\ At("daemon", "down")
    /\ Goto("daemon", "query")
    /\ UNCHANGED <<host, server, dog, seen>>

Join ==
    /\ host = "on" /\ Running
    /\ server' = [server EXCEPT !.occupied = TRUE]
    /\ seen' = [seen EXCEPT !.late = IF server.occupied THEN @
                                    ELSE {a \in Actor : run[a].pc = "stop"}]
    /\ UNCHANGED <<host, run, dog>>

Leave ==
    /\ host = "on" /\ server.occupied
    /\ server' = [server EXCEPT !.occupied = FALSE]
    /\ UNCHANGED <<host, run, dog, seen>>

\* A crash, an out-of-memory kill, or `quit` on the console.
ServerExits ==
    /\ host = "on" /\ Running
    /\ server' \in Exits
    /\ UNCHANGED <<host, run, dog, seen>>

Health(from, to) ==
    /\ host = "on" /\ Running /\ server.health = from
    /\ server' = [server EXCEPT !.health = to]
    /\ UNCHANGED <<host, run, dog, seen>>

HealthPasses == Health("starting", "healthy") \/ Health("unhealthy", "healthy")
HealthFails == Health("healthy", "unhealthy") \/ Health("starting", "unhealthy")

-----------------------------------------------------------------------------
(* The specification *)

Init ==
    /\ host = "on" /\ server = Fresh
    /\ run = [a \in Actor |->
                 [pc |-> IF a = "daemon" THEN "query" ELSE "off",
                  plan |-> "shutdown", allow |-> FALSE]]
    /\ dog = Idle /\ seen = NothingSeen

Engine ==
    \/ Tick \/ InspectDead \/ InspectAlive
    \/ RestartServer \/ RestartFails
    \/ \E answer \in Answers : Poll(answer) \/ Recheck(answer)

Coordinator(a) ==
    \/ CheckEligible(a)
    \/ \E answer \in Answers : BeforeSave(a, answer) \/ AfterSave(a, answer)
    \/ SaveWorld(a) \/ SaveFails(a)
    \/ StopServer(a) \/ StopFails(a)
    \/ Verify(a) \/ IsStopped(a) \/ InspectionFails(a)
    \/ PowerOff(a) \/ PowerOffFails(a)
    \/ Revive(a) \/ ReviveFails(a) \/ Await(a)

Players == Join \/ Leave
Environs == Players \/ ServerExits \/ HealthPasses \/ HealthFails

Next ==
    \/ Engine \/ Environs \/ DaemonRestarts \/ CommandReturns
    \/ \E a \in Actor : Coordinator(a) \/ Dies(a)
    \/ \E plan \in {"stop", "shutdown"}, allow \in BOOLEAN : RunCommand(plan, allow)

Spec == Init /\ [][Next]_watchdogVars

-----------------------------------------------------------------------------
(* Properties *)

Pcs == {"off", "down", "sleep", "query", "health", "restart", "await", "recheck",
        "eligible", "before-save", "save", "after-save", "stop", "verify",
        "is-stopped", "poweroff", "revive", "done", "failed"}
Timer(limit) == {None} \cup 0..limit

\* Every variable has its type: timers stop at their timeout, checks at their
\* number, and only a running container has players or a health other than the first.
TypeOK ==
    /\ host \in {"on", "off"}
    /\ server \in [ctr : {"running", "clean", "unclean"}, occupied : BOOLEAN,
                   health : {"starting", "healthy", "unhealthy"}]
    /\ ~Running => server \in Exits
    /\ run \in [Actor -> [pc : Pcs, plan : {"stop", "shutdown"}, allow : BOOLEAN]]
    /\ dog \in [idle : Timer(IdleTimeout), outage : Timer(OutageTimeout),
                reported : BOOLEAN, check : 0..FinalChecks]
    /\ seen \in [quiet : Timer(IdleTimeout), dark : Timer(OutageTimeout),
                 confirmed : 0..FinalChecks + 2, late : SUBSET Actor]

\* The daemon's steps between the order to shut down and the end of it.
BeforeSaving == {"eligible", "before-save"}
Saving == {"save", "after-save"}
Stopping == {"stop", "verify", "is-stopped", "poweroff", "revive"}

Confirmed(n) == ~DryRun /\ seen.quiet = IdleTimeout /\ seen.confirmed >= n

\* The daemon orders a shutdown only after an unbroken row of zero answers as
\* old as the idle timeout and FinalChecks more, saves after one more and stops
\* the server after yet another; an unknown answer, a player, an aborted attempt
\* or a crash of the daemon each begin the row anew, and DRY_RUN orders nothing
\* (docs/watchdog.md, invariants 1, 2 and 5).
StopJustified ==
    LET pc == run["daemon"].pc
    IN  /\ pc \in BeforeSaving => Confirmed(FinalChecks)
        /\ pc \in Saving => Confirmed(FinalChecks + 1)
        /\ pc \in Stopping => Confirmed(FinalChecks + 2)

\* The daemon restarts the server only when RCON went unanswered and the local
\* inspection found the server dead at every tick of a whole outage timeout,
\* since the last restart (docs/watchdog.md, invariant 4).
RestartJustified == run["daemon"].pc = "restart" => seen.dark = OutageTimeout

\* Without --allow-connected-players, a stop disconnects only players who joined
\* after the query that follows the save: the window docs/watchdog.md admits.
NobodyDropped ==
    \A a \in Actor :
        run[a].pc = "stop" /\ server.occupied /\ ~run[a].allow => a \in seen.late

=============================================================================
