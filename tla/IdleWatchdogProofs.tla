------------------------- MODULE IdleWatchdogProofs -------------------------
(***************************************************************************)
(* Proofs about IdleWatchdog, for every timeout, number of final checks,   *)
(* longest gap and setting of the switches.                                *)
(*                                                                         *)
(* The daemon's timers say nothing of what it observed; the history `seen` *)
(* does.  The invariant relates the two: a timer that runs is no older     *)
(* than the row of observations it stands for, and each step towards a     *)
(* shutdown has as many confirmations as the steps before it asked for.    *)
(***************************************************************************)
EXTENDS IdleWatchdog, TLAPS

(***************************************************************************)
(* The inductive invariant, by the variables it speaks of                  *)
(***************************************************************************)

Server == [ctr : {"running", "clean", "unclean"}, occupied : BOOLEAN,
           health : {"starting", "healthy", "unhealthy"}]
Processes == [Actor -> [pc : Pcs, plan : {"stop", "shutdown"}, allow : BOOLEAN]]
State == [idle : Timer(IdleTimeout), outage : Timer(OutageTimeout),
          reported : BOOLEAN, check : 0..FinalChecks]
History == [quiet : Timer(IdleTimeout), dark : Timer(OutageTimeout),
            confirmed : 0..FinalChecks + 2, late : SUBSET Actor]

ServerOK == server \in Server /\ (~Running => server \in Exits)

\* The daemon never accepts connected players.
ProcessesOK == run \in Processes /\ run["daemon"].allow = FALSE

\* A timer is no older than the row of observations it stands for.
TimersBacked ==
    /\ dog.idle # None => seen.quiet # None /\ dog.idle <= seen.quiet
    /\ dog.outage # None => seen.dark # None /\ dog.outage <= seen.dark

\* The final checks so far, and no outage among them.
ChecksConfirmed ==
    LET pc == run["daemon"].pc
    IN  /\ pc = "recheck" => /\ seen.quiet = IdleTimeout
                             /\ dog.check >= 2 /\ seen.confirmed >= dog.check - 1
        /\ pc \in {"recheck"} \cup BeforeSaving \cup Saving => dog.outage = None

DaemonOK ==
    /\ dog \in State /\ seen \in History
    /\ TimersBacked /\ ChecksConfirmed /\ StopJustified /\ RestartJustified

IInv ==
    /\ host \in {"on", "off"}
    /\ ServerOK /\ ProcessesOK /\ DaemonOK /\ NobodyDropped

(***************************************************************************)
(* The container                                                           *)
(***************************************************************************)

Containers == {s \in Server : s.ctr = "running" \/ s \in Exits}

LEMMA ContainerOK == ServerOK <=> server \in Containers
BY DEF ServerOK, Containers, Running

LEMMA FreshOrExited == Fresh \in Containers /\ Exits \subseteq Containers
BY DEF Fresh, Exits, Exited, Containers, Server

\* Whatever a docker command does, or leaves undone, it leaves a container that
\* runs or that exited and is empty.
LEMMA DockerKeepsForm ==
    ASSUME ServerOK
    PROVE  /\ Halted({server}) \subseteq Containers
           /\ \A pc \in Pcs : Effects(pc) \subseteq Containers
<1>1. server \in Containers /\ Fresh \in Containers /\ Exits \subseteq Containers
  BY ContainerOK, FreshOrExited
<1>2. Halted({server}) \subseteq Containers
  BY <1>1 DEF Halted
<1>3. ASSUME NEW pc \in Pcs PROVE Effects(pc) \subseteq Containers
  <2>1. CASE pc = "stop"
    BY <1>1, <1>2, <2>1 DEF Effects
  <2>2. CASE pc = "restart"
    BY <1>1, <2>2 DEF Effects
  <2>3. CASE pc = "revive"
    BY <1>1, <2>3 DEF Effects
  <2>4. CASE pc \notin {"stop", "restart", "revive"}
    BY <1>1, <2>4 DEF Effects
  <2>5. QED
    BY <2>1, <2>2, <2>3, <2>4
<1>4. QED
  BY <1>2, <1>3

\* The container keeps its form in every step.
LEMMA ServerKept ==
    ASSUME ServerOK, ProcessesOK, Next
    PROVE  ServerOK'
<1>1. server \in Containers /\ Fresh \in Containers /\ Exits \subseteq Containers
  BY ContainerOK, FreshOrExited
<1>2. Halted({server}) \subseteq Containers /\ \A pc \in Pcs : Effects(pc) \subseteq Containers
  BY DockerKeepsForm
<1>3. SUFFICES server' \in Containers
  BY DEF ServerOK, Containers, Running
<1>4. CASE Engine
  <2>1. CASE Tick \/ InspectDead \/ InspectAlive
    BY <1>1, <2>1 DEF Tick, InspectDead, InspectAlive
  <2>2. CASE RestartServer \/ RestartFails
    BY <1>1, <1>2, <2>2 DEF RestartServer, RestartFails, Pcs
  <2>3. CASE \E answer \in Answers : Poll(answer) \/ Recheck(answer)
    BY <1>1, <2>3 DEF Poll, Recheck
  <2>4. QED
    BY <1>4, <2>1, <2>2, <2>3 DEF Engine
<1>5. ASSUME NEW a \in Actor, Coordinator(a) PROVE server' \in Containers
  <2>1. CASE \/ CheckEligible(a) \/ SaveWorld(a) \/ SaveFails(a) \/ Verify(a)
             \/ IsStopped(a) \/ InspectionFails(a) \/ PowerOffFails(a) \/ Await(a)
    BY <1>1, <2>1 DEF CheckEligible, SaveWorld, SaveFails, Verify, IsStopped,
                      InspectionFails, PowerOffFails, Await
  <2>2. CASE \E answer \in Answers : BeforeSave(a, answer) \/ AfterSave(a, answer)
    BY <1>1, <2>2 DEF BeforeSave, AfterSave, Consult
  <2>3. CASE StopServer(a) \/ PowerOff(a)
    BY <1>2, <2>3 DEF StopServer, PowerOff
  <2>4. CASE StopFails(a) \/ ReviveFails(a)
    BY <1>2, <2>4 DEF StopFails, ReviveFails, Pcs
  <2>5. CASE Revive(a)
    BY <1>1, <2>5 DEF Revive
  <2>6. QED
    BY <1>5, <2>1, <2>2, <2>3, <2>4, <2>5 DEF Coordinator
<1>6. ASSUME NEW a \in Actor, Dies(a) PROVE server' \in Containers
  <2>1. run[a].pc \in Pcs
    BY <1>6 DEF ProcessesOK, Processes
  <2>2. QED
    BY <1>2, <1>6, <2>1 DEF Dies
<1>7. CASE Environs
  <2>1. CASE ServerExits
    BY <1>1, <2>1 DEF ServerExits
  <2>2. CASE Join \/ HealthPasses \/ HealthFails
    BY <1>1, <2>2 DEF Join, HealthPasses, HealthFails, Health, Running, Containers, Server
  <2>3. CASE Leave
    BY <1>1, <2>3 DEF Leave, Containers, Server, Exits, Exited
  <2>4. QED
    BY <1>7, <2>1, <2>2, <2>3 DEF Environs, Players
<1>8. CASE DaemonRestarts \/ CommandReturns
  BY <1>1, <1>8 DEF DaemonRestarts, CommandReturns
<1>9. CASE \E plan \in {"stop", "shutdown"}, allow \in BOOLEAN : RunCommand(plan, allow)
  BY <1>1, <1>9 DEF RunCommand
<1>10. QED
  BY <1>4, <1>5, <1>6, <1>7, <1>8, <1>9 DEF Next

(***************************************************************************)
(* The processes                                                           *)
(***************************************************************************)

LEMMA GotoTyped ==
    ASSUME ProcessesOK, NEW a \in Actor, NEW pc \in Pcs, Goto(a, pc)
    PROVE  ProcessesOK'
BY DEF ProcessesOK, Processes, Goto, Actor

LEMMA AbortTyped ==
    ASSUME ProcessesOK, NEW a \in Actor, Aborts(a)
    PROVE  ProcessesOK'
BY GotoTyped DEF Aborts, Pcs

\* Program counters stay in range, and the daemon's call never allows players.
LEMMA ProcessesKept ==
    ASSUME ProcessesOK, Next
    PROVE  ProcessesOK'
<1>0. "daemon" \in Actor /\ "command" \in Actor
  BY DEF Actor
<1>1. ASSUME UNCHANGED run PROVE ProcessesOK'
  BY <1>1 DEF ProcessesOK
<1>2. CASE Engine
  <2>1. CASE Tick \/ InspectDead \/ InspectAlive \/ RestartServer
    BY <1>0, <2>1, GotoTyped DEF Tick, InspectDead, InspectAlive, RestartServer, Pcs
  <2>2. CASE RestartFails
    BY <1>0, <2>2, AbortTyped DEF RestartFails
  <2>3. ASSUME NEW answer \in Answers, Poll(answer) PROVE ProcessesOK'
    BY <1>0, <2>3, GotoTyped DEF Poll, TickSome, TickNone, TickUnknown, Pcs
  <2>4. ASSUME NEW answer \in Answers, Recheck(answer) PROVE ProcessesOK'
    BY <1>0, <1>1, <2>4, GotoTyped DEF Recheck, Ordered, Pcs
  <2>5. QED
    BY <1>2, <2>1, <2>2, <2>3, <2>4 DEF Engine
<1>3. ASSUME NEW a \in Actor, Coordinator(a) PROVE ProcessesOK'
  <2>1. CASE CheckEligible(a) \/ Verify(a) \/ IsStopped(a)
    BY <2>1, GotoTyped, AbortTyped DEF CheckEligible, Verify, IsStopped, Pcs
  <2>2. ASSUME NEW answer \in Answers, BeforeSave(a, answer) \/ AfterSave(a, answer)
        PROVE  ProcessesOK'
    BY <2>2, GotoTyped, AbortTyped DEF BeforeSave, AfterSave, Consult, Pcs
  <2>3. CASE SaveWorld(a) \/ StopServer(a) \/ PowerOffFails(a) \/ Revive(a)
    BY <2>3, GotoTyped DEF SaveWorld, StopServer, PowerOffFails, Revive, Pcs
  <2>4. CASE SaveFails(a) \/ StopFails(a) \/ InspectionFails(a) \/ ReviveFails(a) \/ Await(a)
    BY <2>4, AbortTyped DEF SaveFails, StopFails, InspectionFails, ReviveFails, Await
  <2>5. CASE PowerOff(a)
    BY <1>0, <2>5 DEF PowerOff, AllDown, ProcessesOK, Processes, Pcs
  <2>6. QED
    BY <1>3, <2>1, <2>2, <2>3, <2>4, <2>5 DEF Coordinator
<1>4. ASSUME NEW a \in Actor, Dies(a) PROVE ProcessesOK'
  BY <1>4, GotoTyped DEF Dies, Pcs
<1>5. CASE Environs
  BY <1>1, <1>5 DEF Environs, Players, Join, Leave, ServerExits, HealthPasses, HealthFails, Health
<1>6. CASE DaemonRestarts \/ CommandReturns
  BY <1>0, <1>6, GotoTyped DEF DaemonRestarts, CommandReturns, Pcs
<1>7. ASSUME NEW plan \in {"stop", "shutdown"}, NEW allow \in BOOLEAN, RunCommand(plan, allow)
      PROVE  ProcessesOK'
  BY <1>7 DEF RunCommand, FirstStep, ProcessesOK, Processes, Actor, Pcs
<1>8. QED
  BY <1>2, <1>3, <1>4, <1>5, <1>6, <1>7 DEF Next

(***************************************************************************)
(* The daemon                                                              *)
(***************************************************************************)

AnswerSet == {"unknown", "some", "none"}

LEMMA AnswersKnown == Answers \subseteq AnswerSet
BY DEF Answers, AnswerSet

\* Program counters at which the invariant asks for nothing.
Unclaimed == Pcs \ ({"recheck", "restart"} \cup BeforeSaving \cup Saving \cup Stopping)

\* What the daemon knows is not touched by the steps of others.
LEMMA DaemonFrame ==
    ASSUME DaemonOK, run'["daemon"].pc = run["daemon"].pc, UNCHANGED dog,
           \/ UNCHANGED seen
           \/ \E late \in SUBSET Actor : seen' = [seen EXCEPT !.late = late]
    PROVE  DaemonOK'
<1>1. /\ seen' \in History /\ seen'.quiet = seen.quiet /\ seen'.dark = seen.dark
      /\ seen'.confirmed = seen.confirmed
  BY DEF DaemonOK, History
<1>2. QED
  BY <1>1 DEF DaemonOK, TimersBacked, ChecksConfirmed, StopJustified, Confirmed,
              RestartJustified

LEMMA OthersLeaveDaemon ==
    ASSUME ProcessesOK, NEW pc, Goto("command", pc)
    PROVE  run'["daemon"].pc = run["daemon"].pc
BY DEF ProcessesOK, Processes, Goto, Actor

LEMMA DaemonGoes ==
    ASSUME ProcessesOK, NEW pc, Goto("daemon", pc)
    PROVE  run'["daemon"].pc = pc
BY DEF ProcessesOK, Processes, Goto, Actor

\* Where nothing is claimed the timers need only be backed.
LEMMA NothingClaimed ==
    ASSUME dog' \in State, seen' \in History, TimersBacked', run'["daemon"].pc \in Unclaimed
    PROVE  DaemonOK'
BY DEF DaemonOK, Unclaimed, ChecksConfirmed, StopJustified, RestartJustified,
       BeforeSaving, Saving, Stopping

\* Stopped timers need no backing.
LEMMA TimersStopped ==
    ASSUME DaemonOK, dog' \in {Idle, [ResetEmpty EXCEPT !.outage = None]}
    PROVE  dog' \in State /\ TimersBacked'
<1>1. FinalChecks \in Nat /\ dog \in State
  BY CheckAssumption DEF DaemonOK
<1>2. Idle \in State /\ Idle.idle = None /\ Idle.outage = None
  BY <1>1 DEF Idle, State, Timer
<1>3. /\ [ResetEmpty EXCEPT !.outage = None] \in State
      /\ [ResetEmpty EXCEPT !.outage = None].idle = None
      /\ [ResetEmpty EXCEPT !.outage = None].outage = None
  BY <1>1 DEF ResetEmpty, State, Timer
<1>4. dog' \in State /\ dog'.idle = None /\ dog'.outage = None
  BY <1>2, <1>3
<1>5. QED
  BY <1>4 DEF TimersBacked

LEMMA SpentTyped == ASSUME seen \in History PROVE Spent \in History
<1>1. 0 \in 0..FinalChecks + 2
  BY CheckAssumption
<1>2. None \in Timer(IdleTimeout) /\ None \in Timer(OutageTimeout)
  BY DEF Timer
<1>3. QED
  BY <1>1, <1>2 DEF Spent, History

\* After an attempt that failed, everything begins anew.
LEMMA AbortSound ==
    ASSUME ProcessesOK, DaemonOK, NEW a \in Actor, Aborts(a)
    PROVE  DaemonOK'
<1>1. CASE a = "daemon"
  <2>1. dog' = [ResetEmpty EXCEPT !.outage = None] /\ seen' = Spent /\ Goto("daemon", "sleep")
    BY <1>1 DEF Aborts
  <2>2. run'["daemon"].pc \in Unclaimed
    BY <2>1, DaemonGoes DEF Unclaimed, Pcs, BeforeSaving, Saving, Stopping
  <2>3. seen' \in History
    BY <2>1, SpentTyped DEF DaemonOK
  <2>4. QED
    BY <2>1, <2>2, <2>3, TimersStopped, NothingClaimed
<1>2. CASE a = "command"
  BY <1>2, OthersLeaveDaemon, DaemonFrame DEF Aborts
<1>3. QED
  BY <1>1, <1>2 DEF Actor

\* What an answer does to the history.
LEMMA NotedAnswer ==
    ASSUME seen \in History, NEW answer \in AnswerSet
    PROVE  /\ Noted("daemon", answer) \in History
           /\ Noted("command", answer) = seen
           /\ answer = "none" =>
                  /\ Noted("daemon", answer).quiet # None
                  /\ seen.quiet # None => Noted("daemon", answer).quiet = seen.quiet
                  /\ seen.quiet = IdleTimeout =>
                        \/ Noted("daemon", answer).confirmed >= seen.confirmed + 1
                        \/ Noted("daemon", answer).confirmed = FinalChecks + 2
           /\ answer = "unknown" => Noted("daemon", answer).dark = seen.dark
<1>1. FinalChecks \in Nat /\ IdleTimeout \in Nat /\ OutageTimeout \in Nat
  BY CheckAssumption, TimeoutAssumption
<1>2. QED
  BY <1>1 DEF Noted, History, Timer, None, AnswerSet

\* A timer and the row it stands for grow together.
LEMMA OlderBacked ==
    ASSUME NEW limit \in Nat, NEW gap \in Nat, NEW x \in Timer(limit), NEW y \in Timer(limit),
           x # None => y # None /\ x <= y
    PROVE  /\ Older(x, gap, limit) \in Timer(limit) /\ Older(y, gap, limit) \in Timer(limit)
           /\ Older(x, gap, limit) # None =>
                 Older(y, gap, limit) # None /\ Older(x, gap, limit) <= Older(y, gap, limit)
BY DEF Older, Timer, None

LEMMA TickSound ==
    ASSUME ProcessesOK, DaemonOK, Tick
    PROVE  DaemonOK'
<1>1. PICK gap \in 1..MaxGap :
        /\ dog' = [dog EXCEPT !.idle = Older(@, gap, IdleTimeout),
                              !.outage = Older(@, gap, OutageTimeout)]
        /\ seen' = [seen EXCEPT !.quiet = Older(@, gap, IdleTimeout),
                                !.dark = Older(@, gap, OutageTimeout)]
  BY DEF Tick
<1>2. gap \in Nat /\ IdleTimeout \in Nat /\ OutageTimeout \in Nat
  BY TimeoutAssumption
<1>3. dog.idle \in Timer(IdleTimeout) /\ dog.outage \in Timer(OutageTimeout)
  BY DEF DaemonOK, State
<1>4. seen.quiet \in Timer(IdleTimeout) /\ seen.dark \in Timer(OutageTimeout)
  BY DEF DaemonOK, History
<1>5. /\ Older(dog.idle, gap, IdleTimeout) \in Timer(IdleTimeout)
      /\ Older(seen.quiet, gap, IdleTimeout) \in Timer(IdleTimeout)
      /\ Older(dog.idle, gap, IdleTimeout) # None =>
            /\ Older(seen.quiet, gap, IdleTimeout) # None
            /\ Older(dog.idle, gap, IdleTimeout) <= Older(seen.quiet, gap, IdleTimeout)
  BY <1>2, <1>3, <1>4, OlderBacked DEF DaemonOK, TimersBacked
<1>6. /\ Older(dog.outage, gap, OutageTimeout) \in Timer(OutageTimeout)
      /\ Older(seen.dark, gap, OutageTimeout) \in Timer(OutageTimeout)
      /\ Older(dog.outage, gap, OutageTimeout) # None =>
            /\ Older(seen.dark, gap, OutageTimeout) # None
            /\ Older(dog.outage, gap, OutageTimeout) <= Older(seen.dark, gap, OutageTimeout)
  BY <1>2, <1>3, <1>4, OlderBacked DEF DaemonOK, TimersBacked
<1>7. dog' \in State /\ seen' \in History
  BY <1>1, <1>5, <1>6 DEF DaemonOK, State, History
<1>8. TimersBacked'
  BY <1>1, <1>5, <1>6 DEF DaemonOK, State, History, TimersBacked
<1>9. run'["daemon"].pc \in Unclaimed
  BY DaemonGoes DEF Tick, Unclaimed, Pcs, BeforeSaving, Saving, Stopping
<1>10. QED
  BY <1>7, <1>8, <1>9, NothingClaimed

LEMMA PollSound ==
    ASSUME ProcessesOK, DaemonOK, NEW answer \in Answers, Poll(answer)
    PROVE  DaemonOK'
<1>1. answer \in AnswerSet
  BY AnswersKnown
<1>2. /\ IdleTimeout \in Nat \ {0} /\ OutageTimeout \in Nat \ {0}
      /\ FinalChecks \in Nat /\ FinalChecks >= 2
  BY TimeoutAssumption, CheckAssumption
<1>3. dog \in State /\ seen \in History /\ TimersBacked
  BY DEF DaemonOK
<1>4. seen' = Noted("daemon", answer) /\ seen' \in History
  BY <1>1, <1>3, NotedAnswer DEF Poll
<1>5. CASE answer = "some"
  <2>1. dog' = [ResetEmpty EXCEPT !.outage = None] /\ Goto("daemon", "sleep")
    BY <1>5 DEF Poll, TickSome
  <2>2. run'["daemon"].pc \in Unclaimed
    BY <2>1, DaemonGoes DEF Unclaimed, Pcs, BeforeSaving, Saving, Stopping
  <2>3. QED
    BY <1>4, <2>1, <2>2, TimersStopped, NothingClaimed
<1>6. CASE answer = "unknown"
  <2>1. dog' = ResetEmpty /\ Goto("daemon", "health")
    BY <1>6 DEF Poll, TickUnknown
  <2>2. run'["daemon"].pc \in Unclaimed
    BY <2>1, DaemonGoes DEF Unclaimed, Pcs, BeforeSaving, Saving, Stopping
  <2>3. dog' \in State /\ dog'.idle = None /\ dog'.outage = dog.outage
    BY <1>2, <1>3, <2>1 DEF ResetEmpty, State, Timer
  <2>4. seen'.dark = seen.dark
    BY <1>1, <1>3, <1>4, <1>6, NotedAnswer
  <2>5. TimersBacked'
    BY <1>3, <2>3, <2>4 DEF TimersBacked
  <2>6. QED
    BY <1>4, <2>2, <2>3, <2>5, NothingClaimed
<1>7. CASE answer = "none"
  <2>1. TickNone
    BY <1>7 DEF Poll
  <2>2. /\ dog' \in State /\ dog'.outage = None /\ dog'.check = 2
        /\ dog'.idle = IF dog.idle = None THEN 0 ELSE dog.idle
    <3>1. 2 \in 0..FinalChecks /\ 0 \in Timer(IdleTimeout) /\ None \in Timer(OutageTimeout)
      BY <1>2 DEF Timer
    <3>2. (dog.reported /\ dog.idle # None) \in BOOLEAN
      OBVIOUS
    <3>3. QED
      BY <1>3, <2>1, <3>1, <3>2 DEF TickNone, State
  <2>3. /\ seen'.quiet # None
        /\ seen.quiet # None => seen'.quiet = seen.quiet
        /\ seen.quiet = IdleTimeout =>
              seen'.confirmed >= seen.confirmed + 1 \/ seen'.confirmed = FinalChecks + 2
    BY <1>1, <1>3, <1>4, <1>7, NotedAnswer
  <2>4. TimersBacked'
    BY <1>2, <1>3, <1>4, <2>2, <2>3 DEF TimersBacked, State, History, Timer, None
  <2>5. CASE dog.idle = IdleTimeout /\ ~dog.reported
    <3>1. run'["daemon"].pc = "recheck"
      BY <2>1, <2>5, DaemonGoes DEF TickNone
    <3>2. seen.quiet = IdleTimeout
      BY <1>2, <1>3, <2>5 DEF TimersBacked, History, Timer, None
    <3>3. seen'.quiet = IdleTimeout /\ seen'.confirmed >= 1
      <4>1. seen.quiet # None /\ seen.confirmed \in Nat
        BY <1>2, <1>3, <3>2 DEF History, None
      <4>2. seen'.confirmed \in Nat
        BY <1>2, <1>4 DEF History
      <4>3. QED
        BY <1>2, <2>3, <3>2, <4>1, <4>2
    <3>4. QED
      BY <1>4, <2>2, <2>4, <3>1, <3>3
      DEF DaemonOK, ChecksConfirmed, StopJustified, RestartJustified,
          BeforeSaving, Saving, Stopping
  <2>6. CASE ~(dog.idle = IdleTimeout /\ ~dog.reported)
    <3>1. run'["daemon"].pc \in Unclaimed
      BY <2>1, <2>6, DaemonGoes DEF TickNone, Unclaimed, Pcs, BeforeSaving, Saving, Stopping
    <3>2. QED
      BY <1>4, <2>2, <2>4, <3>1, NothingClaimed
  <2>7. QED
    BY <2>5, <2>6
<1>8. QED
  BY <1>1, <1>5, <1>6, <1>7 DEF AnswerSet

\* Each final check that passes adds a confirmation.
LEMMA RecheckSound ==
    ASSUME ProcessesOK, DaemonOK, NEW answer \in Answers, Recheck(answer)
    PROVE  DaemonOK'
<1>1. answer \in AnswerSet
  BY AnswersKnown
<1>2. IdleTimeout \in Nat \ {0} /\ FinalChecks \in Nat /\ FinalChecks >= 2
  BY TimeoutAssumption, CheckAssumption
<1>3. /\ dog \in State /\ seen \in History /\ dog.outage = None
      /\ seen.quiet = IdleTimeout /\ dog.check >= 2 /\ seen.confirmed >= dog.check - 1
  BY DEF Recheck, At, DaemonOK, ChecksConfirmed
<1>4. seen' = Noted("daemon", answer) /\ seen' \in History
  BY <1>1, <1>3, NotedAnswer DEF Recheck
<1>5. CASE answer # "none"
  <2>1. dog' = ResetEmpty /\ Goto("daemon", "sleep")
    BY <1>5 DEF Recheck
  <2>2. run'["daemon"].pc \in Unclaimed
    BY <2>1, DaemonGoes DEF Unclaimed, Pcs, BeforeSaving, Saving, Stopping
  <2>3. dog' = [ResetEmpty EXCEPT !.outage = None]
    BY <1>3, <2>1 DEF ResetEmpty, State
  <2>4. QED
    BY <1>4, <2>2, <2>3, TimersStopped, NothingClaimed
<1>6. CASE answer = "none"
  <2>1. seen.quiet # None /\ seen.confirmed \in Nat /\ seen'.confirmed \in Nat
    BY <1>2, <1>3, <1>4 DEF History, None
  <2>2. dog.check \in Nat /\ dog.check <= FinalChecks
    BY <1>2, <1>3 DEF State
  <2>3. /\ seen'.quiet = IdleTimeout
        /\ seen'.confirmed >= seen.confirmed + 1 \/ seen'.confirmed = FinalChecks + 2
    BY <1>1, <1>3, <1>4, <1>6, <2>1, NotedAnswer
  <2>4. seen'.confirmed >= dog.check
    BY <1>2, <1>3, <2>1, <2>2, <2>3
  <2>5. ASSUME dog'.idle = dog.idle, dog'.outage = dog.outage PROVE TimersBacked'
    BY <1>3, <2>3, <2>5 DEF DaemonOK, TimersBacked
  <2>6. CASE ChecksLeft
    <3>1. dog' = [dog EXCEPT !.check = @ + 1] /\ UNCHANGED run
      BY <1>6, <2>6 DEF Recheck
    <3>2. /\ dog' \in State /\ dog'.idle = dog.idle /\ dog'.outage = None
          /\ dog'.check = dog.check + 1
      <4>1. dog.check + 1 \in 0..FinalChecks
        BY <1>2, <2>2, <2>6 DEF ChecksLeft
      <4>2. QED
        BY <1>3, <3>1, <4>1 DEF State
    <3>3. run'["daemon"].pc = "recheck"
      BY <3>1 DEF Recheck, At
    <3>4. dog'.check >= 2 /\ seen'.confirmed >= dog'.check - 1
      BY <1>3, <2>1, <2>2, <2>4, <3>2
    <3>5. QED
      BY <1>3, <1>4, <2>3, <2>5, <3>2, <3>3, <3>4
      DEF DaemonOK, ChecksConfirmed, StopJustified, RestartJustified,
          BeforeSaving, Saving, Stopping
  <2>7. CASE ~ChecksLeft
    <3>1. Ordered
      BY <1>6, <2>7 DEF Recheck
    <3>2. CASE DryRun
      <4>1. dog' = [dog EXCEPT !.reported = TRUE] /\ Goto("daemon", "sleep")
        BY <3>1, <3>2 DEF Ordered
      <4>2. dog' \in State /\ dog'.idle = dog.idle /\ dog'.outage = dog.outage
        BY <1>3, <4>1 DEF State
      <4>3. run'["daemon"].pc \in Unclaimed
        BY <4>1, DaemonGoes DEF Unclaimed, Pcs, BeforeSaving, Saving, Stopping
      <4>4. QED
        BY <1>4, <2>5, <4>2, <4>3, NothingClaimed
    <3>3. CASE ~DryRun
      <4>1. dog' = dog /\ Goto("daemon", "eligible")
        BY <3>1, <3>3 DEF Ordered
      <4>2. run'["daemon"].pc = "eligible"
        BY <4>1, DaemonGoes
      <4>3. seen'.confirmed >= FinalChecks
        BY <1>2, <2>1, <2>2, <2>4, <2>7 DEF ChecksLeft
      <4>4. QED
        BY <1>3, <1>4, <2>3, <2>5, <3>3, <4>1, <4>2, <4>3
        DEF DaemonOK, ChecksConfirmed, StopJustified, Confirmed, RestartJustified,
            BeforeSaving, Saving, Stopping
    <3>4. QED
      BY <3>2, <3>3
  <2>8. QED
    BY <2>6, <2>7
<1>7. QED
  BY <1>5, <1>6

\* The outage timer follows the row of dead inspections.
LEMMA InspectionSound ==
    ASSUME ProcessesOK, DaemonOK, InspectDead \/ InspectAlive
    PROVE  DaemonOK'
<1>1. OutageTimeout \in Nat \ {0}
  BY TimeoutAssumption
<1>2. dog \in State /\ seen \in History /\ TimersBacked
  BY DEF DaemonOK
<1>3. 0 \in Timer(OutageTimeout) /\ None \in Timer(OutageTimeout)
  BY <1>1 DEF Timer
<1>4. CASE InspectAlive
  <2>1. /\ dog' = [dog EXCEPT !.outage = None] /\ seen' = [seen EXCEPT !.dark = None]
        /\ Goto("daemon", "sleep")
    BY <1>4 DEF InspectAlive
  <2>2. run'["daemon"].pc \in Unclaimed
    BY <2>1, DaemonGoes DEF Unclaimed, Pcs, BeforeSaving, Saving, Stopping
  <2>3. dog' \in State /\ seen' \in History
    BY <1>2, <1>3, <2>1 DEF State, History
  <2>4. TimersBacked'
    BY <1>2, <2>1 DEF TimersBacked, State, History
  <2>5. QED
    BY <2>2, <2>3, <2>4, NothingClaimed
<1>5. CASE InspectDead
  <2>1. /\ dog' = [dog EXCEPT !.outage = IF @ = None THEN 0 ELSE @]
        /\ seen' = [seen EXCEPT !.dark = IF @ = None THEN 0 ELSE @]
    BY <1>5 DEF InspectDead
  <2>2. dog' \in State /\ seen' \in History
    BY <1>2, <1>3, <2>1 DEF State, History
  <2>3. /\ dog'.idle = dog.idle /\ seen'.quiet = seen.quiet
        /\ dog'.outage = IF dog.outage = None THEN 0 ELSE dog.outage
        /\ seen'.dark = IF seen.dark = None THEN 0 ELSE seen.dark
    BY <1>2, <2>1 DEF State, History
  <2>4. dog.outage \in Timer(OutageTimeout) /\ seen.dark \in Timer(OutageTimeout)
    BY <1>2 DEF State, History
  <2>5. TimersBacked'
    BY <1>1, <1>2, <2>3, <2>4 DEF TimersBacked, Timer, None
  <2>6. CASE dog.outage = OutageTimeout
    <3>1. run'["daemon"].pc = "restart"
      BY <1>5, <2>6, DaemonGoes DEF InspectDead
    <3>2. seen'.dark = OutageTimeout
      BY <1>1, <1>2, <2>3, <2>4, <2>6 DEF TimersBacked, Timer, None
    <3>3. QED
      BY <2>2, <2>5, <3>1, <3>2
      DEF DaemonOK, ChecksConfirmed, StopJustified, RestartJustified,
          BeforeSaving, Saving, Stopping
  <2>7. CASE dog.outage # OutageTimeout
    <3>1. run'["daemon"].pc \in Unclaimed
      BY <1>5, <2>7, DaemonGoes DEF InspectDead, Unclaimed, Pcs, BeforeSaving, Saving, Stopping
    <3>2. QED
      BY <2>2, <2>5, <3>1, NothingClaimed
  <2>8. QED
    BY <2>6, <2>7
<1>6. QED
  BY <1>4, <1>5

\* The daemon is permitted to go on by a zero answer only, which is one more
\* confirmation.
LEMMA ConsultSound ==
    ASSUME ProcessesOK, DaemonOK, NEW a \in Actor, NEW answer, BeforeSave(a, answer) \/ AfterSave(a, answer)
    PROVE  DaemonOK'
<1>1. PICK next \in {"save", "stop"} :
        /\ Consult(a, answer, next)
        /\ IF next = "save" THEN At(a, "before-save") ELSE At(a, "after-save")
  <2>1. CASE BeforeSave(a, answer)
    BY <2>1 DEF BeforeSave
  <2>2. CASE AfterSave(a, answer)
    BY <2>2 DEF AfterSave
  <2>3. QED
    BY <2>1, <2>2
<1>2. answer \in AnswerSet
  BY <1>1, AnswersKnown DEF Consult
<1>3. CASE ~Permits(a, answer)
  BY <1>1, <1>3, AbortSound DEF Consult
<1>4. CASE Permits(a, answer) /\ a = "command"
  <2>1. Goto("command", next) /\ seen' = Noted("command", answer) /\ UNCHANGED dog
    BY <1>1, <1>4 DEF Consult
  <2>2. UNCHANGED seen
    BY <1>2, <2>1, NotedAnswer DEF DaemonOK
  <2>3. QED
    BY <2>1, <2>2, OthersLeaveDaemon, DaemonFrame
<1>5. CASE Permits(a, answer) /\ a = "daemon"
  <2>1. Goto("daemon", next) /\ seen' = Noted("daemon", answer) /\ UNCHANGED dog
    BY <1>1, <1>5 DEF Consult
  <2>2. answer = "none"
    BY <1>5 DEF Permits, ProcessesOK
  <2>3. run'["daemon"].pc = next
    BY <2>1, DaemonGoes
  <2>4. /\ FinalChecks \in Nat /\ IdleTimeout \in Nat \ {0}
        /\ dog \in State /\ seen \in History /\ TimersBacked
    BY CheckAssumption, TimeoutAssumption DEF DaemonOK
  <2>5. seen' \in History
    BY <1>2, <2>1, <2>4, NotedAnswer
  <2>6. /\ ~DryRun /\ seen.quiet = IdleTimeout /\ dog.outage = None
        /\ seen.confirmed >= IF next = "save" THEN FinalChecks ELSE FinalChecks + 1
    BY <1>1, <1>5 DEF At, DaemonOK, ChecksConfirmed, StopJustified, Confirmed,
                      BeforeSaving, Saving, Stopping
  <2>7. seen.quiet # None /\ seen.confirmed \in Nat /\ seen'.confirmed \in Nat
    BY <2>4, <2>5, <2>6 DEF History, None
  <2>8. /\ seen'.quiet = IdleTimeout
        /\ seen'.confirmed >= seen.confirmed + 1 \/ seen'.confirmed = FinalChecks + 2
    BY <1>2, <2>1, <2>2, <2>4, <2>6, <2>7, NotedAnswer
  <2>9. seen'.confirmed >= IF next = "save" THEN FinalChecks + 1 ELSE FinalChecks + 2
    BY <2>4, <2>6, <2>7, <2>8
  <2>10. TimersBacked'
    BY <2>1, <2>4, <2>6, <2>8 DEF TimersBacked
  <2>11. CASE next = "save"
    BY <2>1, <2>3, <2>4, <2>5, <2>6, <2>8, <2>9, <2>10, <2>11
    DEF DaemonOK, ChecksConfirmed, StopJustified, Confirmed, RestartJustified,
        BeforeSaving, Saving, Stopping
  <2>12. CASE next = "stop"
    BY <2>1, <2>3, <2>4, <2>5, <2>6, <2>8, <2>9, <2>10, <2>12
    DEF DaemonOK, ChecksConfirmed, StopJustified, Confirmed, RestartJustified,
        BeforeSaving, Saving, Stopping
  <2>13. QED
    BY <1>1, <2>11, <2>12
<1>6. QED
  BY <1>3, <1>4, <1>5 DEF Actor

\* A step within a phase of the shutdown, or out of what is claimed, keeps the rest.
LEMMA PhaseSound ==
    ASSUME ProcessesOK, DaemonOK, NEW a \in Actor, NEW pc \in Pcs, Goto(a, pc),
           UNCHANGED <<dog, seen>>,
           \/ pc \in Unclaimed
           \/ run[a].pc = "eligible" /\ pc = "before-save"
           \/ run[a].pc = "save" /\ pc = "after-save"
           \/ run[a].pc \in Stopping /\ pc \in Stopping
    PROVE  DaemonOK'
<1>1. CASE a = "command"
  BY <1>1, OthersLeaveDaemon, DaemonFrame
<1>2. CASE a = "daemon"
  <2>1. run'["daemon"].pc = pc
    BY <1>2, DaemonGoes
  <2>2. dog' \in State /\ seen' \in History /\ TimersBacked'
    BY DEF DaemonOK, TimersBacked
  <2>3. CASE pc \in Unclaimed
    BY <2>1, <2>2, <2>3, NothingClaimed
  <2>4. CASE run[a].pc = "eligible" /\ pc = "before-save"
    BY <1>2, <2>1, <2>2, <2>4
    DEF DaemonOK, ChecksConfirmed, StopJustified, Confirmed, RestartJustified,
        BeforeSaving, Saving, Stopping
  <2>5. CASE run[a].pc = "save" /\ pc = "after-save"
    BY <1>2, <2>1, <2>2, <2>5
    DEF DaemonOK, ChecksConfirmed, StopJustified, Confirmed, RestartJustified,
        BeforeSaving, Saving, Stopping
  <2>6. CASE run[a].pc \in Stopping /\ pc \in Stopping
    BY <1>2, <2>1, <2>2, <2>6
    DEF DaemonOK, ChecksConfirmed, StopJustified, Confirmed, RestartJustified,
        BeforeSaving, Saving, Stopping
  <2>7. QED
    BY <2>3, <2>4, <2>5, <2>6
<1>3. QED
  BY <1>1, <1>2 DEF Actor

LEMMA CoordinatorSound ==
    ASSUME ProcessesOK, DaemonOK, NEW a \in Actor, Coordinator(a)
    PROVE  DaemonOK'
<1>1. CASE CheckEligible(a)
  BY <1>1, AbortSound, PhaseSound DEF CheckEligible, At, Pcs
<1>2. ASSUME NEW answer \in Answers, BeforeSave(a, answer) \/ AfterSave(a, answer)
      PROVE  DaemonOK'
  BY <1>2, ConsultSound
<1>3. CASE SaveWorld(a)
  BY <1>3, PhaseSound DEF SaveWorld, At, Pcs
<1>4. CASE SaveFails(a) \/ StopFails(a) \/ InspectionFails(a) \/ ReviveFails(a) \/ Await(a)
  BY <1>4, AbortSound DEF SaveFails, StopFails, InspectionFails, ReviveFails, Await
<1>5. CASE StopServer(a) \/ PowerOffFails(a)
  BY <1>5, PhaseSound DEF StopServer, PowerOffFails, At, Pcs, Stopping
<1>6. CASE Verify(a) \/ IsStopped(a)
  <2>1. "done" \in Unclaimed
    BY DEF Unclaimed, Pcs, BeforeSaving, Saving, Stopping
  <2>2. CASE CleanExit
    BY <1>6, <2>1, <2>2, PhaseSound DEF Verify, IsStopped, At, Pcs, Stopping
  <2>3. CASE ~CleanExit
    BY <1>6, <2>3, AbortSound DEF Verify, IsStopped
  <2>4. QED
    BY <2>2, <2>3
<1>7. CASE PowerOff(a)
  <2>1. dog' = Idle /\ seen' = NothingSeen /\ run' = AllDown
    BY <1>7 DEF PowerOff
  <2>2. run'["daemon"].pc \in Unclaimed
    BY <2>1 DEF AllDown, Actor, ProcessesOK, Processes, Unclaimed, Pcs, BeforeSaving, Saving, Stopping
  <2>3. seen' \in History
    <3>1. 0 \in 0..FinalChecks + 2
      BY CheckAssumption
    <3>2. QED
      BY <2>1, <3>1 DEF NothingSeen, History, Timer
  <2>4. QED
    BY <2>1, <2>2, <2>3, TimersStopped, NothingClaimed
<1>8. CASE Revive(a)
  <2>1. "await" \in Unclaimed
    BY DEF Unclaimed, Pcs, BeforeSaving, Saving, Stopping
  <2>2. QED
    BY <1>8, <2>1, PhaseSound DEF Revive, Pcs
<1>9. QED
  BY <1>1, <1>2, <1>3, <1>4, <1>5, <1>6, <1>7, <1>8 DEF Coordinator

\* Every step keeps what the daemon knows in line with what it observed.
LEMMA DaemonKept ==
    ASSUME ProcessesOK, DaemonOK, Next
    PROVE  DaemonOK'
<1>1. CASE Engine
  <2>1. CASE Tick
    BY <2>1, TickSound
  <2>2. CASE InspectDead \/ InspectAlive
    BY <2>2, InspectionSound
  <2>3. CASE RestartServer
    <3>1. "await" \in Unclaimed
      BY DEF Unclaimed, Pcs, BeforeSaving, Saving, Stopping
    <3>2. QED
      BY <2>3, <3>1, PhaseSound DEF RestartServer, Pcs, Actor
  <2>4. CASE RestartFails
    BY <2>4, AbortSound DEF RestartFails, Actor
  <2>5. ASSUME NEW answer \in Answers, Poll(answer) \/ Recheck(answer) PROVE DaemonOK'
    BY <2>5, PollSound, RecheckSound
  <2>6. QED
    BY <1>1, <2>1, <2>2, <2>3, <2>4, <2>5 DEF Engine
<1>2. ASSUME NEW a \in Actor, Coordinator(a) PROVE DaemonOK'
  BY <1>2, CoordinatorSound
<1>3. ASSUME NEW a \in Actor, Dies(a) PROVE DaemonOK'
  <2>1. CASE a = "daemon"
    <3>1. dog' = Idle /\ seen' = Spent /\ Goto("daemon", "down")
      BY <1>3, <2>1 DEF Dies
    <3>2. run'["daemon"].pc \in Unclaimed
      BY <3>1, DaemonGoes DEF Unclaimed, Pcs, BeforeSaving, Saving, Stopping
    <3>3. seen' \in History
      BY <3>1, SpentTyped DEF DaemonOK
    <3>4. QED
      BY <3>1, <3>2, <3>3, TimersStopped, NothingClaimed
  <2>2. CASE a = "command"
    BY <1>3, <2>2, OthersLeaveDaemon, DaemonFrame DEF Dies
  <2>3. QED
    BY <2>1, <2>2 DEF Actor
<1>4. CASE Environs
  <2>1. CASE Join
    BY <2>1, DaemonFrame DEF Join, DaemonOK, History
  <2>2. CASE Leave \/ ServerExits \/ HealthPasses \/ HealthFails
    BY <2>2, DaemonFrame DEF Leave, ServerExits, HealthPasses, HealthFails, Health
  <2>3. QED
    BY <1>4, <2>1, <2>2 DEF Environs, Players
<1>5. CASE DaemonRestarts
  <2>1. "query" \in Unclaimed
    BY DEF Unclaimed, Pcs, BeforeSaving, Saving, Stopping
  <2>2. QED
    BY <1>5, <2>1, PhaseSound DEF DaemonRestarts, Pcs, Actor
<1>6. CASE CommandReturns
  BY <1>6, OthersLeaveDaemon, DaemonFrame DEF CommandReturns
<1>7. ASSUME NEW plan, NEW allow, RunCommand(plan, allow) PROVE DaemonOK'
  <2>1. run'["daemon"].pc = run["daemon"].pc
    BY <1>7 DEF RunCommand, ProcessesOK, Processes, Actor
  <2>2. QED
    BY <1>7, <2>1, DaemonFrame DEF RunCommand
<1>8. QED
  BY <1>1, <1>2, <1>3, <1>4, <1>5, <1>6, <1>7 DEF Next

(***************************************************************************)
(* The players                                                             *)
(***************************************************************************)

\* A step in which nobody joins and no process comes to the stop drops nobody.
LEMMA Calm ==
    ASSUME NobodyDropped, server'.occupied => server.occupied, seen'.late = seen.late,
           \A b \in Actor : run'[b].pc = "stop" => run'[b] = run[b]
    PROVE  NobodyDropped'
BY DEF NobodyDropped

LEMMA NotToStop ==
    ASSUME ProcessesOK, NEW a \in Actor, NEW pc \in Pcs \ {"stop"}, Goto(a, pc)
    PROVE  \A b \in Actor : run'[b].pc = "stop" => run'[b] = run[b]
BY DEF ProcessesOK, Processes, Goto

LEMMA DockerBringsNobody ==
    ASSUME ServerOK
    PROVE  /\ ~Fresh.occupied
           /\ \A s \in Exits \cup Halted({server}) : s.occupied => server.occupied
           /\ \A pc \in Pcs : \A s \in Effects(pc) : s.occupied => server.occupied
<1>1. ~Fresh.occupied /\ \A s \in Exits : ~s.occupied
  BY DEF Fresh, Exits, Exited
<1>2. \A s \in Halted({server}) : s.occupied => server.occupied
  BY <1>1 DEF Halted
<1>3. ASSUME NEW pc \in Pcs, NEW s \in Effects(pc) PROVE s.occupied => server.occupied
  <2>1. CASE pc = "stop"
    BY <1>2, <1>3, <2>1 DEF Effects
  <2>2. CASE pc = "restart"
    BY <1>1, <1>3, <2>2 DEF Effects
  <2>3. CASE pc = "revive"
    BY <1>1, <1>3, <2>3 DEF Effects
  <2>4. CASE pc \notin {"stop", "restart", "revive"}
    BY <1>3, <2>4 DEF Effects
  <2>5. QED
    BY <2>1, <2>2, <2>3, <2>4
<1>4. QED
  BY <1>1, <1>2, <1>3

LEMMA AbortCalm ==
    ASSUME ProcessesOK, DaemonOK, NEW a \in Actor, Aborts(a)
    PROVE  seen'.late = seen.late /\ \A b \in Actor : run'[b].pc = "stop" => run'[b] = run[b]
<1>1. seen'.late = seen.late
  BY DEF Aborts, Spent, DaemonOK, History
<1>2. QED
  BY <1>1, NotToStop DEF Aborts, Pcs

LEMMA NotedLate ==
    ASSUME DaemonOK, NEW a \in Actor, NEW answer
    PROVE  Noted(a, answer).late = seen.late
BY DEF Noted, DaemonOK, History

\* A process comes to the stop by AfterSave alone, over an empty server unless it
\* accepts players.
LEMMA AfterSaveDropsNobody ==
    ASSUME ServerOK, ProcessesOK, DaemonOK, NobodyDropped,
           NEW a \in Actor, NEW answer, AfterSave(a, answer)
    PROVE  NobodyDropped'
<1>1. Consult(a, answer, "stop")
  BY DEF AfterSave
<1>2. CASE ~Permits(a, answer)
  BY <1>1, <1>2, AbortCalm, Calm DEF Consult
<1>3. CASE Permits(a, answer)
  <2>1. Goto(a, "stop") /\ seen' = Noted(a, answer) /\ UNCHANGED server
    BY <1>1, <1>3 DEF Consult
  <2>2. server.occupied => run[a].allow
    BY <1>1, <1>3 DEF Consult, Permits, Answers, ServerOK, Exits, Exited, Server
  <2>3. \A b \in Actor : /\ run'[b].allow <=> run[b].allow
                         /\ b # a => run'[b] = run[b]
    BY <2>1 DEF Goto, ProcessesOK, Processes
  <2>4. seen'.late = seen.late
    BY <2>1, NotedLate
  <2>5. ASSUME NEW b \in Actor, run'[b].pc = "stop", server.occupied, ~run'[b].allow
        PROVE  b \in seen.late
    <3>1. CASE b = a
      <4>1. run[a].allow
        BY <2>2, <2>5
      <4>2. run'[a].allow
        BY <2>3, <4>1
      <4>3. QED
        BY <2>5, <3>1, <4>2
    <3>2. CASE b # a
      <4>1. run'[b] = run[b]
        BY <2>3, <3>2
      <4>2. run[b].pc = "stop" /\ ~run[b].allow
        BY <2>5, <4>1
      <4>3. QED
        BY <2>5, <4>2 DEF NobodyDropped
    <3>3. QED
      BY <3>1, <3>2
  <2>6. QED
    BY <2>1, <2>4, <2>5 DEF NobodyDropped
<1>4. QED
  BY <1>2, <1>3

LEMMA NobodyDroppedKept ==
    ASSUME ServerOK, ProcessesOK, DaemonOK, NobodyDropped, Next
    PROVE  NobodyDropped'
<1>0. "daemon" \in Actor /\ "command" \in Actor
  BY DEF Actor
<1>1. /\ ~Fresh.occupied
      /\ \A s \in Exits \cup Halted({server}) : s.occupied => server.occupied
      /\ \A pc \in Pcs : \A s \in Effects(pc) : s.occupied => server.occupied
  BY DockerBringsNobody
<1>2. CASE Engine
  <2>1. CASE Tick
    <3>1. seen'.late = seen.late
      BY <2>1 DEF Tick, DaemonOK, History
    <3>2. QED
      BY <1>0, <2>1, <3>1, NotToStop, Calm DEF Tick, Pcs
  <2>2. CASE InspectDead \/ InspectAlive
    <3>1. seen'.late = seen.late
      BY <2>2 DEF InspectDead, InspectAlive, DaemonOK, History
    <3>2. QED
      BY <1>0, <2>2, <3>1, NotToStop, Calm DEF InspectDead, InspectAlive, Pcs
  <2>3. CASE RestartServer
    BY <1>0, <1>1, <2>3, NotToStop, Calm DEF RestartServer, Pcs
  <2>4. CASE RestartFails
    BY <1>0, <1>1, <2>4, AbortCalm, Calm DEF RestartFails, Pcs
  <2>5. ASSUME NEW answer \in Answers, Poll(answer) PROVE NobodyDropped'
    <3>1. seen'.late = seen.late
      BY <1>0, <2>5, NotedLate DEF Poll
    <3>2. QED
      BY <1>0, <2>5, <3>1, NotToStop, Calm DEF Poll, TickSome, TickNone, TickUnknown, Pcs
  <2>6. ASSUME NEW answer \in Answers, Recheck(answer) PROVE NobodyDropped'
    <3>1. seen'.late = seen.late
      BY <1>0, <2>6, NotedLate DEF Recheck
    <3>2. \A b \in Actor : run'[b].pc = "stop" => run'[b] = run[b]
      BY <1>0, <2>6, NotToStop DEF Recheck, Ordered, Pcs
    <3>3. QED
      BY <2>6, <3>1, <3>2, Calm DEF Recheck
  <2>7. QED
    BY <1>2, <2>1, <2>2, <2>3, <2>4, <2>5, <2>6 DEF Engine
<1>3. ASSUME NEW a \in Actor, Coordinator(a) PROVE NobodyDropped'
  <2>1. CASE CheckEligible(a) \/ Verify(a) \/ IsStopped(a)
    BY <2>1, AbortCalm, NotToStop, Calm DEF CheckEligible, Verify, IsStopped, Pcs
  <2>2. ASSUME NEW answer \in Answers, BeforeSave(a, answer) PROVE NobodyDropped'
    BY <2>2, AbortCalm, NotedLate, NotToStop, Calm DEF BeforeSave, Consult, Pcs
  <2>3. ASSUME NEW answer \in Answers, AfterSave(a, answer) PROVE NobodyDropped'
    BY <2>3, AfterSaveDropsNobody
  <2>4. CASE SaveWorld(a) \/ StopServer(a) \/ PowerOffFails(a) \/ Revive(a)
    BY <1>1, <2>4, NotToStop, Calm DEF SaveWorld, StopServer, PowerOffFails, Revive, Pcs
  <2>5. CASE SaveFails(a) \/ InspectionFails(a) \/ Await(a)
    BY <2>5, AbortCalm, Calm DEF SaveFails, InspectionFails, Await
  <2>6. CASE StopFails(a) \/ ReviveFails(a)
    BY <1>1, <2>6, AbortCalm, Calm DEF StopFails, ReviveFails, Pcs
  <2>7. CASE PowerOff(a)
    BY <2>7 DEF PowerOff, AllDown, NobodyDropped, ProcessesOK, Processes
  <2>8. QED
    BY <1>3, <2>1, <2>2, <2>3, <2>4, <2>5, <2>6, <2>7 DEF Coordinator
<1>4. ASSUME NEW a \in Actor, Dies(a) PROVE NobodyDropped'
  <2>1. run[a].pc \in Pcs
    BY DEF ProcessesOK, Processes
  <2>2. server'.occupied => server.occupied
    BY <1>1, <1>4, <2>1 DEF Dies
  <2>3. seen'.late = seen.late
    BY <1>4 DEF Dies, Spent, DaemonOK, History
  <2>4. QED
    BY <1>4, <2>2, <2>3, NotToStop, Calm DEF Dies, Pcs
<1>5. CASE Environs
  <2>1. CASE Join
    BY <2>1 DEF Join, NobodyDropped, DaemonOK, History
  <2>2. CASE Leave
    BY <2>2, Calm DEF Leave, ServerOK, Server
  <2>3. CASE ServerExits
    BY <1>1, <2>3, Calm DEF ServerExits
  <2>4. CASE HealthPasses \/ HealthFails
    BY <2>4, Calm DEF HealthPasses, HealthFails, Health, ServerOK, Server
  <2>5. QED
    BY <1>5, <2>1, <2>2, <2>3, <2>4 DEF Environs, Players
<1>6. CASE DaemonRestarts \/ CommandReturns
  BY <1>0, <1>6, NotToStop, Calm DEF DaemonRestarts, CommandReturns, Pcs
<1>7. ASSUME NEW plan, NEW allow, RunCommand(plan, allow) PROVE NobodyDropped'
  <2>1. \A b \in Actor : run'[b].pc = "stop" => run'[b] = run[b]
    BY <1>7 DEF RunCommand, FirstStep, ProcessesOK, Processes, Actor
  <2>2. QED
    BY <1>7, <2>1, Calm DEF RunCommand
<1>8. QED
  BY <1>2, <1>3, <1>4, <1>5, <1>6, <1>7 DEF Next

(***************************************************************************)
(* The theorems                                                            *)
(***************************************************************************)

LEMMA InitSound == ASSUME Init PROVE IInv
<1>1. 0 \in 0..FinalChecks /\ 0 \in 0..FinalChecks + 2
  BY CheckAssumption
<1>2. ServerOK /\ ProcessesOK /\ NobodyDropped
  BY DEF Init, ServerOK, Server, Fresh, Running, ProcessesOK, Processes, Pcs, Actor, NobodyDropped
<1>3. dog \in State /\ seen \in History
  BY <1>1 DEF Init, Idle, NothingSeen, State, History, Timer
<1>4. TimersBacked /\ ChecksConfirmed /\ StopJustified /\ RestartJustified
  BY DEF Init, Idle, Actor, TimersBacked, ChecksConfirmed, StopJustified, RestartJustified,
         BeforeSaving, Saving, Stopping
<1>5. QED
  BY <1>2, <1>3, <1>4 DEF IInv, DaemonOK, Init

LEMMA StepSound == ASSUME IInv, [Next]_watchdogVars PROVE IInv'
<1>1. CASE Next
  <2>1. ServerOK' /\ ProcessesOK' /\ DaemonOK' /\ NobodyDropped'
    BY <1>1, ServerKept, ProcessesKept, DaemonKept, NobodyDroppedKept DEF IInv
  <2>2. host' \in {"on", "off"}
    <3>1. CASE \E a \in Actor : PowerOff(a)
      BY <3>1 DEF PowerOff
    <3>2. CASE ~\E a \in Actor : PowerOff(a)
      <4>1. UNCHANGED host
        BY <1>1, <3>2
        DEF Next, Engine, Tick, InspectDead, InspectAlive, RestartServer, RestartFails, Poll,
            Recheck, Coordinator, CheckEligible, BeforeSave, AfterSave, Consult, SaveWorld,
            SaveFails, StopServer, StopFails, Verify, IsStopped, InspectionFails,
            PowerOffFails, Revive, ReviveFails, Await, Environs, Players, Join, Leave,
            ServerExits, HealthPasses, HealthFails, Health, DaemonRestarts, CommandReturns,
            Dies, RunCommand
      <4>2. QED
        BY <4>1 DEF IInv
    <3>3. QED
      BY <3>1, <3>2
  <2>3. QED
    BY <2>1, <2>2 DEF IInv
<1>2. CASE UNCHANGED watchdogVars
  BY <1>2
  DEF watchdogVars, IInv, ServerOK, Running, ProcessesOK, DaemonOK, TimersBacked,
      ChecksConfirmed, StopJustified, Confirmed, RestartJustified, NobodyDropped
<1>3. QED
  BY <1>1, <1>2

\* The invariant holds throughout, for every value of the constants.
THEOREM Invariance == Spec => []IInv
<1>1. Init => IInv
  BY InitSound
<1>2. IInv /\ [Next]_watchdogVars => IInv'
  BY StepSound
<1>3. QED
  BY <1>1, <1>2, PTL DEF Spec

\* Every variable keeps its type.
THEOREM TypeCorrect == Spec => []TypeOK
<1>1. IInv => TypeOK
  BY DEF IInv, TypeOK, ServerOK, Server, ProcessesOK, Processes, DaemonOK, State, History
<1>2. QED
  BY <1>1, Invariance, PTL

\* Whatever the timeouts, the number of final checks and the delays between ticks,
\* a shutdown follows an unbroken row of zero answers as long as was asked for.
THEOREM ShutdownIsJustified == Spec => []StopJustified
<1>1. IInv => StopJustified
  BY DEF IInv, DaemonOK
<1>2. QED
  BY <1>1, Invariance, PTL

\* A restart follows an unbroken row of dead inspections as long as was asked for.
THEOREM RestartIsJustified == Spec => []RestartJustified
<1>1. IInv => RestartJustified
  BY DEF IInv, DaemonOK
<1>2. QED
  BY <1>1, Invariance, PTL

\* A stop disconnects only players who joined after the last query.
THEOREM StopDropsNobody == Spec => []NobodyDropped
<1>1. IInv => NobodyDropped
  BY DEF IInv
<1>2. QED
  BY <1>1, Invariance, PTL

=============================================================================
