-------------------------- MODULE EntrypointSession --------------------------
(* run_server of the container's entrypoint from the trap to its exit status:
   the server and the readiness poller as its children, the signal that only
   sets a flag, the wait it may or may not interrupt, the graceful shutdown
   with its two timers, and docker's stop timeout running beside it.

   Time is in ticks.  The entrypoint's own steps take none; a tick passes
   while it sleeps or waits. *)

EXTENDS Integers

CONSTANT TickSeconds    \* one second, or five for settings that are multiples of five

ASSUME TickAssumption == TickSeconds \in {1, 5}

VARIABLES
    conf,      \* SHUTDOWN_SAVE_SECONDS and SHUTDOWN_GRACE_SECONDS, in ticks
    pc,        \* where run_server is
    timer,     \* ticks that the present sleep, or the grace, has left
    server,    \* the server process
    told,      \* commands written to its console
    poller,    \* pz-updater wait-runtime-ready
    flag,      \* shutdown_requested; the trap is reset with it
    failed,    \* shutdown_failed
    unready,   \* readiness_failed
    status,    \* what run_server would return: zero, or one for any other
    stop,      \* ticks since docker's SIGTERM, -1 before it
    missed,    \* history: the signal came when nothing looked at the flag any more
    exit       \* how the container ended

children == <<server, told, poller>>
verdict == <<failed, unready, status>>
docker == <<conf, flag, stop, missed>>
vars == <<children, verdict, docker, pc, timer, exit>>

Ticks(seconds) == seconds \div TickSeconds

\* Mutation of Valid: each value has a limit, the sum has none.
ValidEach(save, grace) ==
    /\ save \in 0 .. Ticks(30)
    /\ grace \in Ticks(30) .. Ticks(90)

\* require_integer, and the limit on the sum.
Valid(save, grace) ==
    /\ save \in 0 .. Ticks(30)
    /\ grace \in Ticks(30) .. Ticks(90)
    /\ save + grace <= Ticks(110)

\* stop_grace_period, and the default of SERVICE_STOP_TIMEOUT_SECONDS.
StopTimeout == Ticks(120)

Settings == {c \in [save : 0 .. Ticks(30), grace : 0 .. Ticks(90)] : Valid(c.save, c.grace)}

Running == exit = "none"
Alive == server \in {"up", "hung", "termed"}
ServerStatus == IF server \in {"exited", "yielded"} THEN 0 ELSE 1
PollerDone == poller \in {"ready", "unready"}

At(place) == Running /\ pc = place
GoTo(place) == pc' = place

TypeOK ==
    /\ conf \in Settings
    /\ pc \in {"launch", "loop", "wait", "check", "enter", "waitServer",
               "stopping", "saving", "grace", "term", "reap", "done"}
    /\ timer \in 0 .. Ticks(90)
    /\ server \in {"none", "up", "hung", "termed", "exited", "yielded", "crashed", "killed"}
    /\ told \in {{}, {"save"}, {"save", "quit"}}
    /\ poller \in {"none", "polling", "ready", "unready", "ended"}
    /\ {flag, failed, unready, missed} \subseteq BOOLEAN
    /\ status \in {0, 1}
    /\ stop \in -1 .. StopTimeout
    /\ exit \in {"none", "ok", "error", "killed", "terminated"}

Init ==
    /\ conf \in Settings
    /\ pc = "launch" /\ timer = 0
    /\ server = "none" /\ told = {} /\ poller = "none"
    /\ flag = FALSE /\ failed = FALSE /\ unready = FALSE /\ status = 0
    /\ stop = -1 /\ missed = FALSE /\ exit = "none"

-----------------------------------------------------------------------------
(* The children. *)

\* The server ends by itself or as told, crashes, hangs, and dies of SIGTERM
\* with a status of its own or, yielded, with zero.
ServerSteps ==
    /\ Running
    /\ \/ server = "up" /\ server' \in {"exited", "crashed", "hung"}
       \/ server = "termed" /\ server' \in {"yielded", "crashed"}
    /\ UNCHANGED <<told, poller, verdict, docker, pc, timer, exit>>

PollerEnds ==
    /\ Running /\ poller = "polling"
    /\ \/ server = "up" /\ poller' = "ready"
       \/ poller' = "unready"
    /\ UNCHANGED <<server, told, verdict, docker, pc, timer, exit>>

-----------------------------------------------------------------------------
(* run_server *)

Launch ==
    /\ At("launch")
    /\ server' = "up" /\ poller' = "polling" /\ GoTo("loop")
    /\ UNCHANGED <<told, verdict, docker, timer, exit>>

\* log-fingerprint or mark-world-opened fails.
Die ==
    /\ At("launch")
    /\ exit' = "error"
    /\ UNCHANGED <<children, verdict, docker, pc, timer>>

\* wait -n, and wait for the server: what came before them they do not see.
Wait ==
    /\ \/ At("loop") /\ GoTo("wait")
       \/ At("enter") /\ GoTo("waitServer")
    /\ UNCHANGED <<children, verdict, docker, timer, exit>>

\* The server ended first.
ServerEnded ==
    /\ At("wait") /\ ~Alive
    /\ poller' = "ended" /\ status' = ServerStatus
    /\ GoTo(IF flag THEN "stopping" ELSE "done")
    /\ UNCHANGED <<server, told, failed, unready, docker, timer, exit>>

\* The poller ended first; a pending stop request hides its verdict.
PollerEnded ==
    /\ At("wait") /\ PollerDone
    /\ poller' = "ended"
    /\ status' = (IF poller = "ready" THEN 0 ELSE 1)
    /\ unready' = (poller = "unready" /\ ~flag)
    /\ GoTo(IF flag \/ unready' THEN "stopping" ELSE "check")
    /\ UNCHANGED <<server, told, failed, docker, timer, exit>>

Check ==
    /\ At("check")
    /\ GoTo(IF flag THEN "stopping" ELSE "enter")
    /\ UNCHANGED <<children, verdict, docker, timer, exit>>

ServerWaited ==
    /\ At("waitServer") /\ ~Alive
    /\ status' = ServerStatus
    /\ GoTo(IF flag THEN "reap" ELSE "done")
    /\ UNCHANGED <<children, failed, unready, docker, timer, exit>>

-----------------------------------------------------------------------------
(* graceful_shutdown, and the wait and the return after it. *)

Save ==
    /\ At("stopping")
    /\ IF Alive THEN told' = told \cup {"save"} /\ timer' = conf.save /\ GoTo("saving")
                ELSE GoTo("reap") /\ UNCHANGED <<told, timer>>
    /\ UNCHANGED <<server, poller, verdict, docker, exit>>

Quit ==
    /\ At("saving") /\ timer = 0
    /\ told' = told \cup {"quit"} /\ timer' = conf.grace /\ GoTo("grace")
    /\ UNCHANGED <<server, poller, verdict, docker, exit>>

StoppedInGrace ==
    /\ At("grace") /\ ~Alive
    /\ timer' = 0 /\ GoTo("reap")
    /\ UNCHANGED <<children, verdict, docker, exit>>

\* Mutation of Escalate: a server that had to be signalled counts as stopped.
EscalateQuietly ==
    /\ At("grace") /\ Alive /\ timer = 0
    /\ server' = "termed" /\ timer' = Ticks(5) /\ GoTo("term")
    /\ UNCHANGED <<told, poller, verdict, docker, exit>>

Escalate ==
    /\ At("grace") /\ Alive /\ timer = 0
    /\ failed' = TRUE /\ server' = "termed" /\ timer' = Ticks(5) /\ GoTo("term")
    /\ UNCHANGED <<told, poller, unready, status, docker, exit>>

Kill ==
    /\ At("term") /\ timer = 0
    /\ server' = (IF Alive THEN "killed" ELSE server) /\ GoTo("reap")
    /\ UNCHANGED <<told, poller, verdict, docker, timer, exit>>

\* A stop request on top of failed readiness: the second graceful_shutdown finds
\* no server, and the second wait the status of the server again.
Reap ==
    /\ At("reap") /\ ~Alive
    /\ status' = (IF unready /\ ~flag THEN 1 ELSE ServerStatus)
    /\ poller' = "ended" /\ GoTo("done")
    /\ UNCHANGED <<server, told, failed, unready, docker, timer, exit>>

Return ==
    /\ At("done")
    /\ exit' = IF status = 0 /\ ~(flag /\ failed) THEN "ok" ELSE "error"
    /\ UNCHANGED <<children, verdict, docker, pc, timer>>

-----------------------------------------------------------------------------
(* Docker, and time. *)

\* SIGTERM: the trap sets the flag, and ends a wait that has begun.
Term ==
    /\ Running /\ stop = -1
    /\ stop' = 0 /\ flag' = TRUE
    /\ missed' = (pc \in {"launch", "loop", "enter"})
    /\ IF pc \in {"wait", "waitServer"} THEN GoTo("stopping") ELSE UNCHANGED pc
    /\ UNCHANGED <<conf, children, verdict, timer, exit>>

\* A second one finds the default action: the entrypoint dies, and with it the
\* container.
TermAgain ==
    /\ Running /\ flag
    /\ exit' = "terminated"
    /\ UNCHANGED <<children, verdict, docker, pc, timer>>

\* Time passes where the entrypoint sleeps, or waits for what has not ended.
Idle ==
    \/ pc \in {"saving", "term"} /\ timer > 0
    \/ pc = "grace" /\ timer > 0 /\ Alive
    \/ pc = "wait" /\ Alive /\ ~PollerDone
    \/ pc \in {"waitServer", "reap"} /\ Alive

Tick ==
    /\ Running /\ Idle /\ stop < StopTimeout
    /\ stop' = (IF flag THEN stop + 1 ELSE stop)
    /\ timer' = (IF timer > 0 THEN timer - 1 ELSE 0)
    /\ UNCHANGED <<conf, flag, missed, children, verdict, pc, exit>>

DockerKills ==
    /\ Running /\ Idle /\ stop = StopTimeout
    /\ exit' = "killed"
    /\ UNCHANGED <<children, verdict, docker, pc, timer>>

Next ==
    \/ ServerSteps \/ PollerEnds
    \/ Launch \/ Die \/ Wait \/ ServerEnded \/ PollerEnded \/ Check \/ ServerWaited
    \/ Save \/ Quit \/ StoppedInGrace \/ Escalate \/ Kill \/ Reap \/ Return
    \/ Term \/ TermAgain \/ Tick \/ DockerKills

Spec == Init /\ [][Next]_vars

-----------------------------------------------------------------------------
\* Exit status zero, which the host takes for the proof of a clean stop
\* (service.py:189, pzctl:152), is given only for a server that ended with status
\* zero before anything was sent to it but save and quit, and hides a failed
\* readiness only behind a stop request, whatever raced with what
\* (docs/architecture.md:34).
ExitHonest ==
    exit = "ok" => server = "exited" /\ (unready => flag)

\* For every accepted setting the save, the grace and the escalation fit in
\* docker's timeout, also when the stop request comes on top of a shutdown for
\* failed readiness: SIGKILL meets only an entrypoint that missed its signal
\* (README.md:144, entrypoint.sh:107).
KilledOnlyIfMissed == exit = "killed" => missed
=============================================================================
