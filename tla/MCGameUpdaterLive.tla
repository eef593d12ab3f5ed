------------------------- MODULE MCGameUpdaterLive -------------------------
(***************************************************************************)
(* GameUpdater with boundedly many faults, kills, Steam publications and   *)
(* operator commands (MaxEvents), after which only the program itself and  *)
(* ordinary starts and stops go on.  Release names are numbers here, taken *)
(* in their order.  A safety restriction of GameUpdater!Spec, under which  *)
(* its liveness is stated.                                                 *)
(***************************************************************************)
EXTENDS GameUpdater

CONSTANT MaxEvents

VARIABLE events

\* Spontaneous exits, and stops before the server is ready, count as events.
Unasked(A) == A /\ sess.pc = "up"

Event ==
    \/ InputOutputFault \/ Environs \/ Quiesce \/ ExplicitUpdate
    \/ Unasked(RequestStop) \/ Unasked(ServerExits)

Course ==
    \/ Transact \/ Entrypoint \/ Resume \/ Accept \/ StartContainer
    \/ (RequestStop \/ ServerExits) /\ sess.pc # "up"

\* Unused names are interchangeable (MCGameUpdater!Symmetry): the first is taken.
FirstFresh == {r \in Release : Fresh(r) /\ \A s \in Release : Fresh(s) => r <= s}
NamedInOrder ==
    /\ txn'.candidate \in {None, txn.candidate} \cup FirstFresh
    /\ upd'.promotedRelease \in {None, upd.promotedRelease} \cup FirstFresh

LiveInit == Init /\ events = 0

LiveNext ==
    \/ Course /\ NamedInOrder /\ UNCHANGED events
    \/ Event /\ NamedInOrder /\ events < MaxEvents /\ events' = events + 1

\* Steam calls and readiness polling have timeouts, so a command or an
\* entrypoint never hangs; servers are started again after a stop, a start
\* that was asked for ends, and pzctl starts the stack after an update.  On AWS
\* acceptance needs pzctl wait-ready to meet a ready server in some session.
LiveSpec ==
    /\ LiveInit /\ [][LiveNext]_<<vars, events>>
    /\ WF_<<vars, events>>(Transact /\ NamedInOrder /\ UNCHANGED events)
    /\ WF_<<vars, events>>(Entrypoint /\ UNCHANGED events)
    /\ WF_<<vars, events>>(Resume /\ UNCHANGED events)
    /\ SF_<<vars, events>>(Accept /\ UNCHANGED events)
    /\ WF_<<vars, events>>(StartContainer /\ UNCHANGED events)
    /\ WF_<<vars, events>>(RequestStop /\ sess.pc # "up" /\ UNCHANGED events)
    /\ WF_<<vars, events>>(ServerExits /\ sess.pc # "up" /\ UNCHANGED events)

=============================================================================
