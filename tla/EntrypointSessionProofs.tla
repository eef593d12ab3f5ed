---------------------- MODULE EntrypointSessionProofs ----------------------
(***************************************************************************)
(* Proofs about EntrypointSession: what exit status zero proves, and that  *)
(* docker's timeout cuts no shutdown that was noticed, for every accepted  *)
(* pair of shutdown times, to the second.                                  *)
(***************************************************************************)
EXTENDS EntrypointSession, TLAPS

Pcs == {"launch", "loop", "wait", "check", "enter", "waitServer",
        "stopping", "saving", "grace", "term", "reap", "done"}
Servers == {"none", "up", "hung", "termed", "exited", "yielded", "crashed", "killed"}

\* The steps of a shutdown, and those of a session that knows of none.
ShuttingDown == {"stopping", "saving", "grace", "term", "reap"}
Serving == {"launch", "loop", "wait", "check", "enter", "waitServer"}

(***************************************************************************)
(* The inductive invariant                                                 *)
(***************************************************************************)

\* Only what the invariant below speaks of needs a type.
Form ==
    /\ conf \in Settings
    /\ pc \in Pcs /\ timer \in Int /\ server \in Servers
    /\ flag \in BOOLEAN /\ failed \in BOOLEAN /\ unready \in BOOLEAN /\ missed \in BOOLEAN
    /\ stop \in -1 .. StopTimeout /\ (stop = -1 <=> ~flag)

\* A server that was signalled is on record as one that had to be, until the end; a
\* shutdown has a reason, and a session that shuts nothing down has none yet; and no
\* shutdown waits for a server that it left alive.
Accounted ==
    /\ server \in {"termed", "yielded", "killed"} \/ pc = "term" => failed
    /\ pc \in Serving => ~failed /\ ~unready
    /\ pc \in ShuttingDown => flag \/ unready
    /\ pc = "reap" => ~Alive

\* What status zero stands for once it has been pieced together.
ZeroEarned ==
    pc = "done" /\ status = 0 =>
        /\ server = "exited" \/ (server = "yielded" /\ flag)
        /\ unready => flag

\* The ticks that a shutdown may still take.
TicksLeft ==
    CASE pc \in {"check", "stopping"} -> conf.save + conf.grace + Ticks(5)
      [] pc = "saving" -> timer + conf.grace + Ticks(5)
      [] pc = "grace" -> timer + Ticks(5)
      [] pc = "term" -> timer
      [] OTHER -> 0

\* A signal that was not missed finds, or begins, a shutdown that ends in time.
Fits ==
    /\ pc = "saving" => timer <= conf.save
    /\ pc = "grace" => timer <= conf.grace
    /\ pc = "term" => timer <= Ticks(5)
    /\ pc \in {"saving", "grace", "term"} => timer >= 0
    /\ flag /\ ~missed =>
          /\ pc \in {"check", "done"} \cup ShuttingDown
          /\ stop + TicksLeft <= Ticks(115)

SessionInv == Form /\ Accounted /\ ZeroEarned /\ Fits /\ ExitHonest /\ KilledOnlyIfMissed

(***************************************************************************)
(* Arithmetic                                                              *)
(***************************************************************************)

\* The save, the grace and the escalation of an accepted setting fit in 115 seconds,
\* whether counted in seconds or in ticks of five.
LEMMA TimesFit ==
    /\ Ticks(5) \in Nat /\ Ticks(115) \in Int /\ StopTimeout \in Int
    /\ 0 <= Ticks(115) /\ Ticks(115) < StopTimeout
    /\ \A c \in Settings : /\ c.save \in Nat /\ c.grace \in Nat
                           /\ c.save + c.grace + Ticks(5) <= Ticks(115)
  <1>1. CASE TickSeconds = 1
    BY <1>1 DEF Ticks, StopTimeout, Settings, Valid
  <1>2. CASE TickSeconds = 5
    BY <1>2 DEF Ticks, StopTimeout, Settings, Valid
  <1> QED BY <1>1, <1>2, TickAssumption

(***************************************************************************)
(* Every step preserves the invariant                                      *)
(***************************************************************************)

\* A server that ends by itself ends nothing else.
LEMMA ServerStepsKept == ASSUME SessionInv, ServerSteps PROVE SessionInv'
  <1>1. Form'
    BY DEF ServerSteps, Form, Servers, SessionInv, verdict, docker
  <1>2. Accounted' /\ ZeroEarned'
    BY DEF ServerSteps, Accounted, ZeroEarned, Alive, SessionInv, verdict, docker
  <1>3. Fits'
    BY DEF ServerSteps, Fits, TicksLeft, SessionInv, docker
  <1>4. ExitHonest' /\ KilledOnlyIfMissed'
    BY DEF ServerSteps, ExitHonest, KilledOnlyIfMissed, Running
  <1> QED BY <1>1, <1>2, <1>3, <1>4 DEF SessionInv

\* Nor does the poller.
LEMMA PollerEndsKept == ASSUME SessionInv, PollerEnds PROVE SessionInv'
  <1>1. Form'
    BY DEF PollerEnds, Form, SessionInv, verdict, docker
  <1>2. Accounted' /\ ZeroEarned'
    BY DEF PollerEnds, Accounted, ZeroEarned, Alive, SessionInv, verdict, docker
  <1>3. Fits'
    BY DEF PollerEnds, Fits, TicksLeft, SessionInv, docker
  <1>4. ExitHonest' /\ KilledOnlyIfMissed'
    BY DEF PollerEnds, ExitHonest, KilledOnlyIfMissed, Running
  <1> QED BY <1>1, <1>2, <1>3, <1>4 DEF SessionInv

\* The children start with a clean record.
LEMMA LaunchKept == ASSUME SessionInv, Launch PROVE SessionInv'
  <1>1. Form'
    BY DEF Launch, Form, Pcs, Servers, SessionInv, GoTo, verdict, docker
  <1>2. Accounted' /\ ZeroEarned'
    BY DEF Launch, Accounted, ZeroEarned, Serving, ShuttingDown, SessionInv, At, GoTo,
       verdict
  <1>3. Fits'
    BY DEF Launch, Fits, ShuttingDown, SessionInv, At, GoTo, docker
  <1>4. ExitHonest' /\ KilledOnlyIfMissed'
    BY DEF Launch, ExitHonest, KilledOnlyIfMissed, Running, At
  <1> QED BY <1>1, <1>2, <1>3, <1>4 DEF SessionInv

\* A failed launch returns no status zero.
LEMMA DieKept == ASSUME SessionInv, Die PROVE SessionInv'
  <1>1. Form'
    BY DEF Die, Form, SessionInv, children, verdict, docker
  <1>2. Accounted' /\ ZeroEarned'
    BY DEF Die, Accounted, ZeroEarned, ShuttingDown, SessionInv, At, children, verdict
  <1>3. Fits'
    BY DEF Die, Fits, TicksLeft, SessionInv, docker
  <1>4. ExitHonest' /\ KilledOnlyIfMissed'
    BY DEF Die, ExitHonest, KilledOnlyIfMissed
  <1> QED BY <1>1, <1>2, <1>3, <1>4 DEF SessionInv

\* A wait that begins changes nothing.
LEMMA WaitKept == ASSUME SessionInv, Wait PROVE SessionInv'
  <1>1. Form'
    BY DEF Wait, Form, Pcs, SessionInv, GoTo, children, verdict, docker
  <1>2. Accounted' /\ ZeroEarned'
    BY DEF Wait, Accounted, ZeroEarned, Serving, ShuttingDown, SessionInv, At, GoTo,
       children, verdict
  <1>3. Fits'
    BY DEF Wait, Fits, ShuttingDown, SessionInv, At, GoTo, docker
  <1>4. ExitHonest' /\ KilledOnlyIfMissed'
    BY DEF Wait, ExitHonest, KilledOnlyIfMissed, Running, At
  <1> QED BY <1>1, <1>2, <1>3, <1>4 DEF SessionInv

\* A server that ended first was not signalled.
LEMMA ServerEndedKept == ASSUME SessionInv, ServerEnded PROVE SessionInv'
  <1>1. Form'
    BY DEF ServerEnded, Form, Pcs, SessionInv, GoTo, docker
  <1>2. Accounted' /\ ZeroEarned'
    BY DEF ServerEnded, Accounted, ZeroEarned, Serving, ShuttingDown, ServerStatus,
       SessionInv, At, GoTo, docker
  <1>3. Fits'
    BY DEF ServerEnded, Fits, ShuttingDown, SessionInv, At, GoTo, docker
  <1>4. ExitHonest' /\ KilledOnlyIfMissed'
    BY DEF ServerEnded, ExitHonest, KilledOnlyIfMissed, Running, At
  <1> QED BY <1>1, <1>2, <1>3, <1>4 DEF SessionInv

\* A verdict of unready is a reason to shut down.
LEMMA PollerEndedKept == ASSUME SessionInv, PollerEnded PROVE SessionInv'
  <1>1. Form'
    BY DEF PollerEnded, Form, Pcs, SessionInv, GoTo, docker
  <1>2. Accounted' /\ ZeroEarned'
    BY DEF PollerEnded, Accounted, ZeroEarned, Serving, ShuttingDown, SessionInv, At,
       GoTo, docker
  <1>3. Fits'
    BY DEF PollerEnded, Fits, ShuttingDown, SessionInv, At, GoTo, docker
  <1>4. ExitHonest' /\ KilledOnlyIfMissed'
    BY DEF PollerEnded, ExitHonest, KilledOnlyIfMissed, Running, At
  <1> QED BY <1>1, <1>2, <1>3, <1>4 DEF SessionInv

\* The flag is seen here even if the signal ended no wait.
LEMMA CheckKept == ASSUME SessionInv, Check PROVE SessionInv'
  <1>1. Form'
    BY DEF Check, Form, Pcs, SessionInv, GoTo, children, verdict, docker
  <1>2. Accounted' /\ ZeroEarned'
    BY DEF Check, Accounted, ZeroEarned, Serving, ShuttingDown, SessionInv, At, GoTo,
       children, verdict, docker
  <1>3. Fits'
    BY DEF Check, Fits, TicksLeft, ShuttingDown, SessionInv, At, GoTo, docker
  <1>4. ExitHonest' /\ KilledOnlyIfMissed'
    BY DEF Check, ExitHonest, KilledOnlyIfMissed, Running, At
  <1> QED BY <1>1, <1>2, <1>3, <1>4 DEF SessionInv

\* A server that ended after readiness was not signalled either.
LEMMA ServerWaitedKept == ASSUME SessionInv, ServerWaited PROVE SessionInv'
  <1>1. Form'
    BY DEF ServerWaited, Form, Pcs, SessionInv, GoTo, children, docker
  <1>2. Accounted' /\ ZeroEarned'
    BY DEF ServerWaited, Accounted, ZeroEarned, Serving, ShuttingDown, Alive,
       ServerStatus, SessionInv, At, GoTo, children, docker
  <1>3. Fits'
    BY TimesFit DEF ServerWaited, Form, Fits, TicksLeft, ShuttingDown, SessionInv, GoTo,
       docker
  <1>4. ExitHonest' /\ KilledOnlyIfMissed'
    BY DEF ServerWaited, ExitHonest, KilledOnlyIfMissed, Running, At
  <1> QED BY <1>1, <1>2, <1>3, <1>4 DEF SessionInv

\* A shutdown begins with all its time before it, or is over.
LEMMA SaveKept == ASSUME SessionInv, Save PROVE SessionInv'
  <1>1. Form'
    BY TimesFit DEF Save, Form, Pcs, SessionInv, GoTo, verdict, docker
  <1>2. Accounted' /\ ZeroEarned'
    BY DEF Save, Accounted, ZeroEarned, Serving, ShuttingDown, Alive, SessionInv, At,
       GoTo, verdict, docker
  <1>3. Fits'
    BY TimesFit DEF Save, Form, Fits, TicksLeft, ShuttingDown, SessionInv, At, GoTo,
       docker
  <1>4. ExitHonest' /\ KilledOnlyIfMissed'
    BY DEF Save, ExitHonest, KilledOnlyIfMissed, Running, At
  <1> QED BY <1>1, <1>2, <1>3, <1>4 DEF SessionInv

\* The save has taken its time.
LEMMA QuitKept == ASSUME SessionInv, Quit PROVE SessionInv'
  <1>1. Form'
    BY TimesFit DEF Quit, Form, Pcs, SessionInv, GoTo, verdict, docker
  <1>2. Accounted' /\ ZeroEarned'
    BY DEF Quit, Accounted, ZeroEarned, Serving, ShuttingDown, SessionInv, At, GoTo,
       verdict, docker
  <1>3. Fits'
    BY TimesFit DEF Quit, Form, Fits, TicksLeft, ShuttingDown, SessionInv, At, GoTo,
       docker
  <1>4. ExitHonest' /\ KilledOnlyIfMissed'
    BY DEF Quit, ExitHonest, KilledOnlyIfMissed, Running, At
  <1> QED BY <1>1, <1>2, <1>3, <1>4 DEF SessionInv

\* A server that stops in the grace ends the shutdown.
LEMMA StoppedInGraceKept == ASSUME SessionInv, StoppedInGrace PROVE SessionInv'
  <1>1. Form'
    BY DEF StoppedInGrace, Form, Pcs, SessionInv, GoTo, children, verdict, docker
  <1>2. Accounted' /\ ZeroEarned'
    BY DEF StoppedInGrace, Accounted, ZeroEarned, Serving, ShuttingDown, Alive,
       SessionInv, At, GoTo, children, verdict, docker
  <1>3. Fits'
    BY TimesFit DEF StoppedInGrace, Form, Fits, TicksLeft, ShuttingDown, SessionInv, GoTo,
       docker
  <1>4. ExitHonest' /\ KilledOnlyIfMissed'
    BY DEF StoppedInGrace, ExitHonest, KilledOnlyIfMissed, Running, At
  <1> QED BY <1>1, <1>2, <1>3, <1>4 DEF SessionInv

\* A server is signalled only on record.
LEMMA EscalateKept == ASSUME SessionInv, Escalate PROVE SessionInv'
  <1>1. Form'
    BY TimesFit DEF Escalate, Form, Pcs, Servers, SessionInv, GoTo, docker
  <1>2. Accounted' /\ ZeroEarned'
    BY DEF Escalate, Accounted, ZeroEarned, Serving, ShuttingDown, SessionInv, At, GoTo,
       docker
  <1>3. Fits'
    BY TimesFit DEF Escalate, Fits, TicksLeft, ShuttingDown, SessionInv, At, GoTo, docker
  <1>4. ExitHonest' /\ KilledOnlyIfMissed'
    BY DEF Escalate, ExitHonest, KilledOnlyIfMissed, Running, At
  <1> QED BY <1>1, <1>2, <1>3, <1>4 DEF SessionInv

\* SIGKILL leaves no server to wait for.
LEMMA KillKept == ASSUME SessionInv, Kill PROVE SessionInv'
  <1>1. Form'
    BY DEF Kill, Form, Pcs, Servers, SessionInv, GoTo, verdict, docker
  <1>2. Accounted' /\ ZeroEarned'
    BY DEF Kill, Accounted, ZeroEarned, Serving, ShuttingDown, Alive, SessionInv, At,
       GoTo, verdict, docker
  <1>3. Fits'
    BY TimesFit DEF Kill, Form, Fits, TicksLeft, ShuttingDown, SessionInv, GoTo, docker
  <1>4. ExitHonest' /\ KilledOnlyIfMissed'
    BY DEF Kill, ExitHonest, KilledOnlyIfMissed, Running, At
  <1> QED BY <1>1, <1>2, <1>3, <1>4 DEF SessionInv

\* The last wait earns a zero, or does not.
LEMMA ReapKept == ASSUME SessionInv, Reap PROVE SessionInv'
  <1>1. Form'
    BY DEF Reap, Form, Pcs, SessionInv, GoTo, docker
  <1>2. Accounted' /\ ZeroEarned'
    BY DEF Reap, Accounted, ZeroEarned, Serving, ShuttingDown, ServerStatus, SessionInv,
       At, GoTo, docker
  <1>3. Fits'
    BY TimesFit DEF Reap, Form, Fits, TicksLeft, SessionInv, GoTo, docker
  <1>4. ExitHonest' /\ KilledOnlyIfMissed'
    BY DEF Reap, ExitHonest, KilledOnlyIfMissed, Running, At
  <1> QED BY <1>1, <1>2, <1>3, <1>4 DEF SessionInv

\* Only an earned zero is returned.
LEMMA ReturnKept == ASSUME SessionInv, Return PROVE SessionInv'
  <1>1. Form'
    BY DEF Return, Form, SessionInv, children, verdict, docker
  <1>2. Accounted' /\ ZeroEarned'
    BY DEF Return, Accounted, ZeroEarned, Alive, SessionInv, children, verdict, docker
  <1>3. Fits'
    BY DEF Return, Fits, TicksLeft, SessionInv, docker
  <1>4. ExitHonest' /\ KilledOnlyIfMissed'
    BY DEF Return, Accounted, ZeroEarned, ExitHonest, KilledOnlyIfMissed, SessionInv, At,
       children, verdict, docker
  <1> QED BY <1>1, <1>2, <1>3, <1>4 DEF SessionInv

\* The signal finds a shutdown, begins one, or is missed.
LEMMA TermKept == ASSUME SessionInv, Term PROVE SessionInv'
  <1>1. Form'
    BY TimesFit DEF Term, Form, Pcs, SessionInv, GoTo, children, verdict
  <1>2. Accounted' /\ ZeroEarned'
    BY DEF Term, Accounted, ZeroEarned, Serving, Alive, SessionInv, GoTo, children,
       verdict
  <1>3. Fits'
    <2>1. /\ stop' = 0 /\ UNCHANGED <<conf, timer>> /\ conf \in Settings /\ timer \in Int
          /\ pc' \in {pc, "stopping"}
      BY DEF Term, Form, SessionInv, GoTo
    <2>2. ~missed' => pc' \in {"check", "done"} \cup ShuttingDown
      BY DEF Term, Form, Pcs, ShuttingDown, SessionInv, GoTo
    <2>3. TicksLeft' <= Ticks(115)
      <3>1. CASE pc' \in {"check", "stopping"}
        BY <2>1, <3>1, TimesFit DEF TicksLeft
      <3>2. CASE pc' \in {"saving", "grace", "term"}
        BY <2>1, TimesFit DEF TicksLeft, Fits, SessionInv
      <3>3. CASE pc' \notin {"check", "stopping", "saving", "grace", "term"}
        BY <3>3, TimesFit DEF TicksLeft
      <3> QED BY <3>1, <3>2, <3>3
    <2>4. TicksLeft' \in Int
      BY <2>1, TimesFit DEF TicksLeft
    <2> QED BY <2>1, <2>2, <2>3, <2>4 DEF Fits, SessionInv
  <1>4. ExitHonest' /\ KilledOnlyIfMissed'
    BY DEF Term, ExitHonest, KilledOnlyIfMissed, Running
  <1> QED BY <1>1, <1>2, <1>3, <1>4 DEF SessionInv

\* A second signal returns no status.
LEMMA TermAgainKept == ASSUME SessionInv, TermAgain PROVE SessionInv'
  <1>1. Form'
    BY DEF TermAgain, Form, SessionInv, children, verdict, docker
  <1>2. Accounted' /\ ZeroEarned'
    BY DEF TermAgain, Accounted, ZeroEarned, Alive, SessionInv, children, verdict, docker
  <1>3. Fits'
    BY DEF TermAgain, Fits, TicksLeft, SessionInv, docker
  <1>4. ExitHonest' /\ KilledOnlyIfMissed'
    BY DEF TermAgain, ExitHonest, KilledOnlyIfMissed
  <1> QED BY <1>1, <1>2, <1>3, <1>4 DEF SessionInv

\* Each tick is one less that the shutdown takes.
LEMMA TickKept == ASSUME SessionInv, Tick PROVE SessionInv'
  <1>1. Form'
    BY TimesFit DEF Tick, Form, SessionInv, children, verdict
  <1>2. Accounted' /\ ZeroEarned'
    BY DEF Tick, Accounted, ZeroEarned, Alive, SessionInv, children, verdict
  <1>3. Fits'
    BY TimesFit DEF Tick, Form, Accounted, Fits, TicksLeft, ShuttingDown, Idle, SessionInv
  <1>4. ExitHonest' /\ KilledOnlyIfMissed'
    BY DEF Tick, ExitHonest, KilledOnlyIfMissed, Running
  <1> QED BY <1>1, <1>2, <1>3, <1>4 DEF SessionInv

\* At docker's timeout a shutdown that was noticed is over.
LEMMA DockerKillsKept == ASSUME SessionInv, DockerKills PROVE SessionInv'
  <1>1. Form'
    BY DEF DockerKills, Form, SessionInv, children, verdict, docker
  <1>2. Accounted' /\ ZeroEarned'
    BY DEF DockerKills, Accounted, ZeroEarned, Alive, SessionInv, children, verdict,
       docker
  <1>3. Fits'
    BY DEF DockerKills, Fits, TicksLeft, SessionInv, docker
  <1>4. ExitHonest' /\ KilledOnlyIfMissed'
    BY TimesFit DEF DockerKills, Form, Fits, TicksLeft, ExitHonest, KilledOnlyIfMissed,
       SessionInv, docker
  <1> QED BY <1>1, <1>2, <1>3, <1>4 DEF SessionInv

(***************************************************************************)
(* The theorems                                                            *)
(***************************************************************************)

\* For every accepted pair of shutdown times.
THEOREM SessionInvariance == Spec => []SessionInv
  <1>1. Init => SessionInv
    <2>1. Init => Form
      <3>1. -1 \in -1 .. StopTimeout
        BY TimesFit
      <3>2. Init => (stop = -1 <=> ~flag)
        BY DEF Init
      <3>3. Init => /\ conf \in Settings /\ pc \in Pcs /\ timer \in Int /\ server \in Servers
                    /\ stop \in -1 .. StopTimeout
        BY <3>1 DEF Init, Pcs, Servers
      <3>4. Init => flag \in BOOLEAN /\ failed \in BOOLEAN /\ unready \in BOOLEAN
                    /\ missed \in BOOLEAN
        BY DEF Init
      <3> QED BY <3>2, <3>3, <3>4 DEF Form
    <2>2. Init => Accounted /\ ZeroEarned /\ Fits /\ ExitHonest /\ KilledOnlyIfMissed
      BY DEF Init, Accounted, ZeroEarned, Fits, ExitHonest, KilledOnlyIfMissed,
         ShuttingDown
    <2> QED BY <2>1, <2>2 DEF SessionInv
  <1>2. SessionInv /\ [Next]_vars => SessionInv'
    <2>1. ASSUME SessionInv, UNCHANGED vars PROVE SessionInv'
      BY <2>1 DEF vars, children, verdict, docker, SessionInv, Form, Accounted,
         ZeroEarned, Fits, TicksLeft, ExitHonest, KilledOnlyIfMissed, Alive
    <2> QED BY <2>1, ServerStepsKept, PollerEndsKept, LaunchKept, DieKept, WaitKept,
               ServerEndedKept, PollerEndedKept, CheckKept, ServerWaitedKept, SaveKept,
               QuitKept, StoppedInGraceKept, EscalateKept, KillKept, ReapKept, ReturnKept,
               TermKept, TermAgainKept, TickKept, DockerKillsKept DEF Next
  <1> QED BY <1>1, <1>2, PTL DEF Spec

\* No sleep is longer than the longest grace.
LEMMA GraceIsLongest ==
    /\ Ticks(90) \in Nat /\ Ticks(5) <= Ticks(90)
    /\ \A c \in Settings : c.save <= Ticks(90) /\ c.grace <= Ticks(90)
  <1>1. CASE TickSeconds = 1
    BY <1>1 DEF Ticks, Settings
  <1>2. CASE TickSeconds = 5
    BY <1>2 DEF Ticks, Settings
  <1> QED BY <1>1, <1>2, TickAssumption

\* Every variable keeps its type, and no timer is set for longer than the grace may be.
THEOREM TypeCorrect == Spec => []TypeOK
  <1> DEFINE Typed == TypeOK /\ (pc = "saving" => told # {})
  <1>1. Init => Typed
    <2>1. -1 \in -1 .. StopTimeout /\ 0 \in 0 .. Ticks(90)
      BY TimesFit, GraceIsLongest
    <2> QED BY <2>1 DEF Init, TypeOK
  <1>2. Typed /\ [Next]_vars => Typed'
    <2> SUFFICES ASSUME Typed, [Next]_vars PROVE Typed'
      OBVIOUS
    <2>1. CASE ServerSteps \/ PollerEnds
      BY <2>1 DEF ServerSteps, PollerEnds, TypeOK, verdict, docker
    <2>2. CASE Launch \/ Die \/ Wait
      BY <2>2 DEF Launch, Die, Wait, TypeOK, GoTo, children, verdict, docker
    <2>3. CASE ServerEnded
      BY <2>3 DEF ServerEnded, ServerStatus, TypeOK, GoTo, docker
    <2>4. CASE PollerEnded
      <3>1. pc' \in {"stopping", "check"}
        BY <2>4 DEF PollerEnded, GoTo
      <3> QED BY <2>4, <3>1 DEF PollerEnded, TypeOK, docker
    <2>5. CASE Check \/ ServerWaited
      BY <2>5 DEF Check, ServerWaited, ServerStatus, TypeOK, GoTo, children, verdict,
         docker
    <2>6. CASE Save
      <3>1. CASE Alive
        <4>1. told' = told \cup {"save"} /\ timer' = conf.save /\ pc' = "saving"
          BY <2>6, <3>1 DEF Save, GoTo
        <4>2. timer' \in 0 .. Ticks(90)
          BY <4>1, GraceIsLongest DEF TypeOK, Settings
        <4> QED BY <2>6, <4>1, <4>2 DEF Save, TypeOK, verdict, docker
      <3>2. CASE ~Alive
        BY <2>6, <3>2 DEF Save, TypeOK, GoTo, verdict, docker
      <3> QED BY <3>1, <3>2
    <2>7. CASE Quit
      BY <2>7, TimesFit, GraceIsLongest DEF Quit, TypeOK, GoTo, At, verdict, docker
    <2>8. CASE StoppedInGrace
      BY <2>8, GraceIsLongest DEF StoppedInGrace, TypeOK, GoTo, children, verdict, docker
    <2>9. CASE Escalate
      BY <2>9, TimesFit, GraceIsLongest DEF Escalate, TypeOK, GoTo, docker
    <2>10. CASE Kill
      BY <2>10 DEF Kill, TypeOK, GoTo, verdict, docker
    <2>11. CASE Reap \/ Return
      BY <2>11 DEF Reap, Return, ServerStatus, TypeOK, GoTo, children, verdict, docker
    <2>12. CASE Term
      BY <2>12, TimesFit DEF Term, TypeOK, GoTo, children, verdict
    <2>13. CASE TermAgain
      BY <2>13 DEF TermAgain, TypeOK, children, verdict, docker
    <2>14. CASE Tick
      BY <2>14, TimesFit, GraceIsLongest DEF Tick, TypeOK, children, verdict
    <2>15. CASE DockerKills
      BY <2>15 DEF DockerKills, TypeOK, children, verdict, docker
    <2>16. CASE UNCHANGED vars
      BY <2>16 DEF vars, children, verdict, docker, TypeOK
    <2> QED BY <2>1, <2>2, <2>3, <2>4, <2>5, <2>6, <2>7, <2>8, <2>9, <2>10, <2>11, <2>12,
               <2>13, <2>14, <2>15, <2>16 DEF Next
  <1> QED BY <1>1, <1>2, PTL DEF Spec

\* Exit status zero stands for a server that ended with status zero before anything
\* was sent to it but save and quit, and hides a failed readiness only behind a stop
\* request.
THEOREM ZeroIsHonest == Spec => []ExitHonest
  <1>1. SessionInv => ExitHonest
    BY DEF SessionInv
  <1> QED BY <1>1, SessionInvariance, PTL

\* Docker's SIGKILL meets only an entrypoint that missed its signal.
THEOREM NoShutdownCut == Spec => []KilledOnlyIfMissed
  <1>1. SessionInv => KilledOnlyIfMissed
    BY DEF SessionInv
  <1> QED BY <1>1, SessionInvariance, PTL

=============================================================================
