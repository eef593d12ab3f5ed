-------------------------- MODULE DeploymentProofs --------------------------
(* For every set of commits: what pzctl deploy keeps on the disk, stage by
   stage, is enough for a marker, or its absence, to mean what it promises. *)

EXTENDS Deployment, TLAPS

\* Stages before the marker is written, and after it was cleared.
Unmarked == {"sweep", "save", "mark", "finish", "drop"}

\* Stages of the guarded stop.
Stopping == {"permit", "quiesce", "revoke", "refuse", "refused"}

\* Stages in which the server has been stopped and not been started again.
Replacing == {"revoke", "preserve", "checkout", "switch", "remove", "restore",
              "authorize", "install", "start"}

\* Stages in which the units may be started.
Starting == {"install", "start", "verify", "record", "unmark"}

\* pzctl's own record, and what it knows of server and guardian: true of every
\* behaviour, the unmarked rollbacks included.
Control ==
    /\ auth => op # NoOp
    /\ server \in {None, Built}
    /\ op.at \in Replacing => server = None
    /\ op.at \in Unmarked => pending = None
    /\ op # NoOp /\ pending # None => pending = MarkerOf
    /\ op.at \in {"sweep", "save", "mark"} => ~op.back /\ ~op.resumed
    /\ op.at \in {"preserve", "install"} => ~op.back
    /\ op.at \in {"remove", "restore"} => op.back
    /\ ~op.back /\ op.at \in {"sweep", "save", "mark", "preserve", "checkout"} \cup Stopping
         => /\ clean /\ head \in {op.previous, op.target}
            /\ ~op.resumed => head = op.previous
    /\ op.at \in Starting => auth /\ (guardian \/ pending = None)
    /\ op.at = "quiesce" => auth /\ (~Monitored \/ guardian \/ pending = None)

\* What is on the disk, stage by stage.
Disk ==
    /\ op # NoOp /\ op.at \notin Unmarked => pending # None
    /\ op.at \in {"save", "mark"} => rollbackVenv = None
    /\ ~op.back /\ ~op.resumed /\ op.at \in {"preserve"} \cup Stopping
         => rollbackVenv = None /\ venv = head /\ deployed \in {head, None}
    /\ ~op.back /\ op.at \in {"checkout", "switch", "authorize"} \cup Starting
         => rollbackVenv = op.previous
    /\ op.back /\ op.at \in {"checkout", "switch", "remove", "restore"} \cup Stopping
         => rollbackVenv = op.previous
    /\ op.at \in {"remove", "restore", "authorize"} \cup Starting => clean /\ head = Goal
    /\ op.at \in Starting \ {"install"} => venv = Goal
    /\ op.back /\ op.at \in {"authorize"} \cup Starting => venv = Goal /\ rollbackVenv = None
    /\ op.at = "unmark" => deployed = Goal

DeployInv ==
    /\ TypeOK
    /\ Control
    /\ ~unmarked => Disk
    /\ WholeWithoutMarker
    /\ PreviousPreserved

-----------------------------------------------------------------------------
\* What the three ways of ending a step make of op.
LEMMA Moves ==
    ASSUME op \in Ops, op # NoOp, NEW s \in Stages, GoTo(s)
    PROVE  /\ op' \in Ops /\ op' # NoOp /\ op'.at = s
           /\ op'.back = op.back /\ op'.resumed = op.resumed
           /\ op'.target = op.target /\ op'.previous = op.previous
BY DEF GoTo, Ops, NoOp, Stages

LEMMA Ends == ASSUME End PROVE op' = NoOp /\ op' \in Ops /\ auth' = FALSE
BY DEF End, Ops

LEMMA RollsBack ==
    ASSUME op \in Ops, op # NoOp, ~op.back, Failed
    PROVE  /\ op' \in Ops /\ op' # NoOp /\ op'.at = "permit" /\ op'.back = TRUE
           /\ op'.resumed = op.resumed /\ op'.target = op.target
           /\ op'.previous = op.previous /\ auth' = auth
<1>1. op \in [at : Stages, back : BOOLEAN, resumed : BOOLEAN,
              target : Commit, previous : Commit]
    BY DEF Ops
<1>2. op' = [op EXCEPT !.back = TRUE, !.at = "permit"] /\ auth' = auth
    BY DEF Failed
<1>3. op' \in Ops
    BY <1>1, <1>2 DEF Ops, Stages
<1> QED BY <1>1, <1>2, <1>3 DEF NoOp, Stages

LEMMA GivesUp ==
    ASSUME op.back, Failed PROVE op' = NoOp /\ op' \in Ops /\ auth' = FALSE
BY Ends DEF Failed

LEMMA MarkerTyped ==
    ASSUME op \in Ops, op # NoOp
    PROVE  /\ MarkerOf \in Marker /\ op.target \in Commit /\ op.previous \in Commit
           /\ op.back \in BOOLEAN /\ op.resumed \in BOOLEAN
           /\ MarkerOf.target = op.target /\ MarkerOf.previous = op.previous
           /\ MarkerOf # None
BY CommitAssumption DEF MarkerOf, Marker, Ops, NoOp

\* Each step keeps the invariant: the types, what is true of every behaviour,
\* the disk stage by stage, and what the absent and the present marker promise.
LEMMA DeployKeeps ==
    ASSUME NEW t \in Commit, DeployInv, Deploy(t) PROVE DeployInv'
<1> USE CommitAssumption DEF DeployInv
<1>1. TypeOK'
  <2>1. op' \in Ops
    <3>1. head \in Commit
      BY DEF TypeOK
    <3>2. \/ op' = [at |-> "sweep", back |-> FALSE, resumed |-> FALSE, target |-> t, previous |-> head]
          \/ /\ pending \in Marker
             /\ op' = [at |-> "permit", back |-> FALSE, resumed |-> TRUE, target |-> t, previous |-> pending.previous]
      BY DEF Deploy, Resumable
    <3>3. pending \in Marker => pending.previous \in Commit
      BY DEF Marker
    <3>4. CASE op' = [at |-> "sweep", back |-> FALSE, resumed |-> FALSE, target |-> t, previous |-> head]
      BY <3>1, <3>4 DEF Ops, Stages
    <3>5. CASE /\ pending \in Marker
               /\ op' = [at |-> "permit", back |-> FALSE, resumed |-> TRUE, target |-> t, previous |-> pending.previous]
      BY <3>3, <3>5 DEF Ops, Stages
    <3> QED BY <3>2, <3>4, <3>5
  <2> QED BY <2>1 DEF Deploy, disk, marker, service, TypeOK
<1>2. Control'
    BY DEF Deploy, disk, marker, service, Deployable, Resumable, Control, TypeOK,
        Marker, Stages, NoOp, Unmarked, Stopping, Replacing, Starting,
        MarkerOf, Built, Monitored
<1>3. ~unmarked' => Disk'
    BY DEF Deploy, disk, marker, service, Deployable, Resumable, Control, Disk,
        TypeOK, Marker, Stages, NoOp, Unmarked, Stopping, Starting,
        Replacing, Goal, WholeWithoutMarker, PreviousPreserved, Built,
        MarkerOf
<1>4. WholeWithoutMarker'
    BY DEF Deploy, disk, marker, service, Deployable, Resumable,
        WholeWithoutMarker, Control, Disk, TypeOK, Marker, NoOp,
        Unmarked, Stopping, Starting, Replacing, Goal, Built
<1>5. PreviousPreserved'
    BY DEF Deploy, disk, marker, service, Deployable, Resumable,
        PreviousPreserved, Control, Disk, TypeOK, Marker, NoOp,
        Unmarked, Stopping, Starting, Goal, MarkerOf,
        WholeWithoutMarker
<1> QED BY <1>1, <1>2, <1>3, <1>4, <1>5

LEMMA SweepKeeps ==
    ASSUME DeployInv, Sweep PROVE DeployInv'
<1> USE CommitAssumption DEF DeployInv
<1>a. op \in Ops /\ op # NoOp
    BY DEF Sweep, At, NoOp, TypeOK
<1>1. TypeOK'
  <2>1. op' \in Ops
    BY <1>a, Moves DEF Sweep, At, Stages
  <2>2. auth' \in BOOLEAN /\ guardian' \in BOOLEAN
    BY DEF Sweep, marker, service, TypeOK
  <2> QED BY <2>1, <2>2, <1>a, MarkerTyped DEF Sweep, marker, service, TypeOK
<1>2. Control'
    BY <1>a, MarkerTyped, Moves DEF Sweep, At, marker, service, Control, TypeOK, Stages, NoOp, Unmarked,
        Stopping, Replacing, Starting, MarkerOf, Built, Monitored
<1>3. ~unmarked' => Disk'
    BY <1>a, MarkerTyped, Moves DEF Sweep, At, marker, service, Control, Disk, TypeOK, Stages, NoOp,
        Unmarked, Stopping, Starting, Replacing, Goal,
        WholeWithoutMarker, PreviousPreserved, Built, MarkerOf
<1>4. WholeWithoutMarker'
    BY <1>a, MarkerTyped, Moves DEF Sweep, At, marker, service, WholeWithoutMarker, Control, Disk, TypeOK,
        NoOp, Unmarked, Stopping, Starting, Replacing, Goal, Built
<1>5. PreviousPreserved'
    BY <1>a, MarkerTyped, Moves DEF Sweep, At, marker, service, PreviousPreserved, Control, Disk, TypeOK,
        NoOp, Unmarked, Stopping, Starting, Goal, MarkerOf,
        WholeWithoutMarker
<1> QED BY <1>1, <1>2, <1>3, <1>4, <1>5

LEMMA SaveKeeps ==
    ASSUME DeployInv, Save PROVE DeployInv'
<1> USE CommitAssumption DEF DeployInv
<1>a. op \in Ops /\ op # NoOp
    BY DEF Save, At, NoOp, TypeOK
<1>1. TypeOK'
  <2>1. op' \in Ops
    BY <1>a, Moves DEF Save, At, Stages
  <2>2. auth' \in BOOLEAN /\ guardian' \in BOOLEAN
    BY DEF Save, disk, service, TypeOK
  <2> QED BY <2>1, <2>2, <1>a, MarkerTyped DEF Save, disk, service, TypeOK
<1>2. Control'
    BY <1>a, MarkerTyped, Moves DEF Save, At, disk, service, Control, TypeOK, Stages, NoOp, Unmarked,
        Stopping, Replacing, Starting, MarkerOf, Built, Monitored
<1>3. ~unmarked' => Disk'
    BY <1>a, MarkerTyped, Moves DEF Save, At, disk, service, Control, Disk, TypeOK, Stages, NoOp,
        Unmarked, Stopping, Starting, Replacing, Goal,
        WholeWithoutMarker, PreviousPreserved, Built, MarkerOf
<1>4. WholeWithoutMarker'
    BY <1>a, MarkerTyped, Moves DEF Save, At, disk, service, WholeWithoutMarker, Control, Disk, TypeOK,
        NoOp, Unmarked, Stopping, Starting, Replacing, Goal, Built
<1>5. PreviousPreserved'
    BY <1>a, MarkerTyped, Moves DEF Save, At, disk, service, PreviousPreserved, Control, Disk, TypeOK,
        NoOp, Unmarked, Stopping, Starting, Goal, MarkerOf,
        WholeWithoutMarker
<1> QED BY <1>1, <1>2, <1>3, <1>4, <1>5

LEMMA SaveFailsKeeps ==
    ASSUME DeployInv, SaveFails PROVE DeployInv'
<1> USE CommitAssumption DEF DeployInv
<1>a. op \in Ops /\ op # NoOp
    BY DEF SaveFails, At, NoOp, TypeOK
<1>1. TypeOK'
    BY <1>a, MarkerTyped, Ends DEF SaveFails, At, disk, TypeOK, Goal, Built, Stages
<1>2. Control'
    BY <1>a, MarkerTyped, Ends DEF SaveFails, At, disk, Control, TypeOK, Stages, NoOp, Unmarked,
        Stopping, Replacing, Starting, MarkerOf, Built, Monitored
<1>3. ~unmarked' => Disk'
    BY <1>a, MarkerTyped, Ends DEF SaveFails, At, disk, Control, Disk, TypeOK, Stages, NoOp, Unmarked,
        Stopping, Starting, Replacing, Goal, WholeWithoutMarker,
        PreviousPreserved, Built, MarkerOf
<1>4. WholeWithoutMarker'
    BY <1>a, MarkerTyped, Ends DEF SaveFails, At, disk, WholeWithoutMarker, Control, Disk, TypeOK, NoOp,
        Unmarked, Stopping, Starting, Replacing, Goal, Built
<1>5. PreviousPreserved'
    BY <1>a, MarkerTyped, Ends DEF SaveFails, At, disk, PreviousPreserved, Control, Disk, TypeOK, NoOp,
        Unmarked, Stopping, Starting, Goal, MarkerOf,
        WholeWithoutMarker
<1> QED BY <1>1, <1>2, <1>3, <1>4, <1>5

LEMMA MarkKeeps ==
    ASSUME DeployInv, Mark PROVE DeployInv'
<1> USE CommitAssumption DEF DeployInv
<1>a. op \in Ops /\ op # NoOp
    BY DEF Mark, At, NoOp, TypeOK
<1>1. TypeOK'
    BY <1>a, MarkerTyped, Moves DEF Mark, At, disk, service, TypeOK, Goal, Built, Stages
<1>2. Control'
    BY <1>a, MarkerTyped, Moves DEF Mark, At, disk, service, Control, TypeOK, Stages, NoOp, Unmarked,
        Stopping, Replacing, Starting, MarkerOf, Built, Monitored
<1>3. ~unmarked' => Disk'
    BY <1>a, MarkerTyped, Moves DEF Mark, At, disk, service, Control, Disk, TypeOK, Stages, NoOp,
        Unmarked, Stopping, Starting, Replacing, Goal,
        WholeWithoutMarker, PreviousPreserved, Built, MarkerOf
<1>4. WholeWithoutMarker'
    BY <1>a, MarkerTyped, Moves DEF Mark, At, disk, service, WholeWithoutMarker, Control, Disk, TypeOK,
        NoOp, Unmarked, Stopping, Starting, Replacing, Goal, Built
<1>5. PreviousPreserved'
    BY <1>a, MarkerTyped, Moves DEF Mark, At, disk, service, PreviousPreserved, Control, Disk, TypeOK,
        NoOp, Unmarked, Stopping, Starting, Goal, MarkerOf,
        WholeWithoutMarker
<1> QED BY <1>1, <1>2, <1>3, <1>4, <1>5

LEMMA MarkFailsKeeps ==
    ASSUME DeployInv, MarkFails PROVE DeployInv'
<1> USE CommitAssumption DEF DeployInv
<1>a. op \in Ops /\ op # NoOp
    BY DEF MarkFails, At, NoOp, TypeOK
<1>1. TypeOK'
    BY <1>a, MarkerTyped, Ends DEF MarkFails, At, disk, TypeOK, Goal, Built, Stages
<1>2. Control'
    BY <1>a, MarkerTyped, Ends DEF MarkFails, At, disk, Control, TypeOK, Stages, NoOp, Unmarked,
        Stopping, Replacing, Starting, MarkerOf, Built, Monitored
<1>3. ~unmarked' => Disk'
    BY <1>a, MarkerTyped, Ends DEF MarkFails, At, disk, Control, Disk, TypeOK, Stages, NoOp, Unmarked,
        Stopping, Starting, Replacing, Goal, WholeWithoutMarker,
        PreviousPreserved, Built, MarkerOf
<1>4. WholeWithoutMarker'
    BY <1>a, MarkerTyped, Ends DEF MarkFails, At, disk, WholeWithoutMarker, Control, Disk, TypeOK, NoOp,
        Unmarked, Stopping, Starting, Replacing, Goal, Built
<1>5. PreviousPreserved'
    BY <1>a, MarkerTyped, Ends DEF MarkFails, At, disk, PreviousPreserved, Control, Disk, TypeOK, NoOp,
        Unmarked, Stopping, Starting, Goal, MarkerOf,
        WholeWithoutMarker
<1> QED BY <1>1, <1>2, <1>3, <1>4, <1>5

LEMMA PermitKeeps ==
    ASSUME DeployInv, Permit PROVE DeployInv'
<1> USE CommitAssumption DEF DeployInv
<1>a. op \in Ops /\ op # NoOp
    BY DEF Permit, At, NoOp, TypeOK
<1>1. TypeOK'
  <2>1. op' \in Ops
    BY <1>a, Moves DEF Permit, At, Stages
  <2>2. auth' \in BOOLEAN /\ guardian' \in BOOLEAN
    BY DEF Permit, disk, marker, TypeOK
  <2> QED BY <2>1, <2>2, <1>a, MarkerTyped DEF Permit, disk, marker, TypeOK
<1>2. Control'
    BY <1>a, MarkerTyped, Moves DEF Permit, At, disk, marker, Monitored, Control, TypeOK, Stages, NoOp,
        Unmarked, Stopping, Replacing, Starting, MarkerOf, Built
<1>3. ~unmarked' => Disk'
    BY <1>a, MarkerTyped, Moves DEF Permit, At, disk, marker, Monitored, Control, Disk, TypeOK, Stages,
        NoOp, Unmarked, Stopping, Starting, Replacing, Goal,
        WholeWithoutMarker, PreviousPreserved, Built, MarkerOf
<1>4. WholeWithoutMarker'
    BY <1>a, MarkerTyped, Moves DEF Permit, At, disk, marker, Monitored, WholeWithoutMarker, Control,
        Disk, TypeOK, NoOp, Unmarked, Stopping, Starting, Replacing,
        Goal, Built
<1>5. PreviousPreserved'
    BY <1>a, MarkerTyped, Moves DEF Permit, At, disk, marker, Monitored, PreviousPreserved, Control, Disk,
        TypeOK, NoOp, Unmarked, Stopping, Starting, Goal, MarkerOf,
        WholeWithoutMarker
<1> QED BY <1>1, <1>2, <1>3, <1>4, <1>5

LEMMA PermitFailsKeeps ==
    ASSUME DeployInv, PermitFails PROVE DeployInv'
<1> USE CommitAssumption DEF DeployInv
<1>a. op \in Ops /\ op # NoOp
    BY DEF PermitFails, At, NoOp, TypeOK
<1>1. TypeOK'
  <2>1. op' \in Ops
    BY <1>a, Moves DEF PermitFails, At, Stages
  <2>2. auth' \in BOOLEAN /\ guardian' \in BOOLEAN
    BY DEF PermitFails, disk, marker, TypeOK
  <2> QED BY <2>1, <2>2, <1>a, MarkerTyped DEF PermitFails, disk, marker, TypeOK
<1>2. Control'
    BY <1>a, MarkerTyped, Moves DEF PermitFails, At, disk, marker, Control, TypeOK, Stages, NoOp,
        Unmarked, Stopping, Replacing, Starting, MarkerOf, Built,
        Monitored
<1>3. ~unmarked' => Disk'
    BY <1>a, MarkerTyped, Moves DEF PermitFails, At, disk, marker, Control, Disk, TypeOK, Stages, NoOp,
        Unmarked, Stopping, Starting, Replacing, Goal,
        WholeWithoutMarker, PreviousPreserved, Built, MarkerOf
<1>4. WholeWithoutMarker'
    BY <1>a, MarkerTyped, Moves DEF PermitFails, At, disk, marker, WholeWithoutMarker, Control, Disk,
        TypeOK, NoOp, Unmarked, Stopping, Starting, Replacing, Goal,
        Built
<1>5. PreviousPreserved'
    BY <1>a, MarkerTyped, Moves DEF PermitFails, At, disk, marker, PreviousPreserved, Control, Disk,
        TypeOK, NoOp, Unmarked, Stopping, Starting, Goal, MarkerOf,
        WholeWithoutMarker
<1> QED BY <1>1, <1>2, <1>3, <1>4, <1>5

LEMMA QuiesceKeeps ==
    ASSUME DeployInv, Quiesce PROVE DeployInv'
<1> USE CommitAssumption DEF DeployInv
<1>a. op \in Ops /\ op # NoOp
    BY DEF Quiesce, At, NoOp, TypeOK
<1>1. TypeOK'
  <2>1. op' \in Ops
    BY <1>a, Moves DEF Quiesce, At, Stages
  <2>2. auth' \in BOOLEAN /\ guardian' \in BOOLEAN
    BY DEF Quiesce, disk, marker, TypeOK
  <2> QED BY <2>1, <2>2, <1>a, MarkerTyped DEF Quiesce, disk, marker, TypeOK
<1>2. Control'
    BY <1>a, MarkerTyped, Moves DEF Quiesce, At, disk, marker, StopVenv, Control, TypeOK, Stages, NoOp,
        Unmarked, Stopping, Replacing, Starting, MarkerOf, Built,
        Monitored
<1>3. ~unmarked' => Disk'
    BY <1>a, MarkerTyped, Moves DEF Quiesce, At, disk, marker, StopVenv, Control, Disk, TypeOK, Stages,
        NoOp, Unmarked, Stopping, Starting, Replacing, Goal,
        WholeWithoutMarker, PreviousPreserved, Built, MarkerOf
<1>4. WholeWithoutMarker'
    BY <1>a, MarkerTyped, Moves DEF Quiesce, At, disk, marker, StopVenv, WholeWithoutMarker, Control,
        Disk, TypeOK, NoOp, Unmarked, Stopping, Starting, Replacing,
        Goal, Built
<1>5. PreviousPreserved'
    BY <1>a, MarkerTyped, Moves DEF Quiesce, At, disk, marker, StopVenv, PreviousPreserved, Control, Disk,
        TypeOK, NoOp, Unmarked, Stopping, Starting, Goal, MarkerOf,
        WholeWithoutMarker
<1> QED BY <1>1, <1>2, <1>3, <1>4, <1>5

LEMMA QuiesceFailsKeeps ==
    ASSUME DeployInv, QuiesceFails PROVE DeployInv'
<1> USE CommitAssumption DEF DeployInv
<1>a. op \in Ops /\ op # NoOp
    BY DEF QuiesceFails, At, NoOp, TypeOK
<1>1. TypeOK'
  <2>1. op' \in Ops
    BY <1>a, Moves DEF QuiesceFails, At, Stages
  <2>2. auth' \in BOOLEAN /\ guardian' \in BOOLEAN
    BY DEF QuiesceFails, disk, marker, TypeOK
  <2> QED BY <2>1, <2>2, <1>a, MarkerTyped DEF QuiesceFails, disk, marker, TypeOK
<1>2. Control'
    BY <1>a, MarkerTyped, Moves DEF QuiesceFails, At, disk, marker, Control, TypeOK, Stages, NoOp,
        Unmarked, Stopping, Replacing, Starting, MarkerOf, Built,
        Monitored
<1>3. ~unmarked' => Disk'
    BY <1>a, MarkerTyped, Moves DEF QuiesceFails, At, disk, marker, Control, Disk, TypeOK, Stages, NoOp,
        Unmarked, Stopping, Starting, Replacing, Goal,
        WholeWithoutMarker, PreviousPreserved, Built, MarkerOf
<1>4. WholeWithoutMarker'
    BY <1>a, MarkerTyped, Moves DEF QuiesceFails, At, disk, marker, WholeWithoutMarker, Control, Disk,
        TypeOK, NoOp, Unmarked, Stopping, Starting, Replacing, Goal,
        Built
<1>5. PreviousPreserved'
    BY <1>a, MarkerTyped, Moves DEF QuiesceFails, At, disk, marker, PreviousPreserved, Control, Disk,
        TypeOK, NoOp, Unmarked, Stopping, Starting, Goal, MarkerOf,
        WholeWithoutMarker
<1> QED BY <1>1, <1>2, <1>3, <1>4, <1>5

LEMMA RevokeKeeps ==
    ASSUME DeployInv, Revoke PROVE DeployInv'
<1> USE CommitAssumption DEF DeployInv
<1>a. op \in Ops /\ op # NoOp
    BY DEF Revoke, At, NoOp, TypeOK
<1>1. TypeOK'
  <2>1. op' \in Ops
    BY <1>a, Moves DEF Revoke, At, Stages
  <2>2. auth' \in BOOLEAN /\ guardian' \in BOOLEAN
    BY DEF Revoke, disk, marker, TypeOK
  <2> QED BY <2>1, <2>2, <1>a, MarkerTyped DEF Revoke, disk, marker, TypeOK
<1>2. Control'
    BY <1>a, MarkerTyped, Moves DEF Revoke, At, disk, marker, Control, TypeOK, Stages, NoOp, Unmarked,
        Stopping, Replacing, Starting, MarkerOf, Built, Monitored
<1>3. ~unmarked' => Disk'
    BY <1>a, MarkerTyped, Moves DEF Revoke, At, disk, marker, Control, Disk, TypeOK, Stages, NoOp,
        Unmarked, Stopping, Starting, Replacing, Goal,
        WholeWithoutMarker, PreviousPreserved, Built, MarkerOf
<1>4. WholeWithoutMarker'
    BY <1>a, MarkerTyped, Moves DEF Revoke, At, disk, marker, WholeWithoutMarker, Control, Disk, TypeOK,
        NoOp, Unmarked, Stopping, Starting, Replacing, Goal, Built
<1>5. PreviousPreserved'
    BY <1>a, MarkerTyped, Moves DEF Revoke, At, disk, marker, PreviousPreserved, Control, Disk, TypeOK,
        NoOp, Unmarked, Stopping, Starting, Goal, MarkerOf,
        WholeWithoutMarker
<1> QED BY <1>1, <1>2, <1>3, <1>4, <1>5

LEMMA RevokeFailsKeeps ==
    ASSUME DeployInv, RevokeFails PROVE DeployInv'
<1> USE CommitAssumption DEF DeployInv
<1>a. op \in Ops /\ op # NoOp
    BY DEF RevokeFails, At, NoOp, TypeOK
<1>1. TypeOK'
  <2>1. op' \in Ops
    BY <1>a, Moves DEF RevokeFails, At, Stages
  <2>2. auth' \in BOOLEAN /\ guardian' \in BOOLEAN
    BY DEF RevokeFails, disk, marker, TypeOK
  <2> QED BY <2>1, <2>2, <1>a, MarkerTyped DEF RevokeFails, disk, marker, TypeOK
<1>2. Control'
    BY <1>a, MarkerTyped, Moves DEF RevokeFails, At, disk, marker, Control, TypeOK, Stages, NoOp,
        Unmarked, Stopping, Replacing, Starting, MarkerOf, Built,
        Monitored
<1>3. ~unmarked' => Disk'
    BY <1>a, MarkerTyped, Moves DEF RevokeFails, At, disk, marker, Control, Disk, TypeOK, Stages, NoOp,
        Unmarked, Stopping, Starting, Replacing, Goal,
        WholeWithoutMarker, PreviousPreserved, Built, MarkerOf
<1>4. WholeWithoutMarker'
    BY <1>a, MarkerTyped, Moves DEF RevokeFails, At, disk, marker, WholeWithoutMarker, Control, Disk,
        TypeOK, NoOp, Unmarked, Stopping, Starting, Replacing, Goal,
        Built
<1>5. PreviousPreserved'
    BY <1>a, MarkerTyped, Moves DEF RevokeFails, At, disk, marker, PreviousPreserved, Control, Disk,
        TypeOK, NoOp, Unmarked, Stopping, Starting, Goal, MarkerOf,
        WholeWithoutMarker
<1> QED BY <1>1, <1>2, <1>3, <1>4, <1>5

LEMMA RefuseKeeps ==
    ASSUME DeployInv, Refuse PROVE DeployInv'
<1> USE CommitAssumption DEF DeployInv
<1>a. op \in Ops /\ op # NoOp
    BY DEF Refuse, At, NoOp, TypeOK
<1>1. TypeOK'
  <2>1. op' \in Ops
    BY <1>a, Moves DEF Refuse, At, Stages
  <2>2. auth' \in BOOLEAN /\ guardian' \in BOOLEAN
    BY DEF Refuse, disk, marker, TypeOK
  <2> QED BY <2>1, <2>2, <1>a, MarkerTyped DEF Refuse, disk, marker, TypeOK
<1>2. Control'
    BY <1>a, MarkerTyped, Moves DEF Refuse, At, disk, marker, Control, TypeOK, Stages, NoOp, Unmarked,
        Stopping, Replacing, Starting, MarkerOf, Built, Monitored
<1>3. ~unmarked' => Disk'
    BY <1>a, MarkerTyped, Moves DEF Refuse, At, disk, marker, Control, Disk, TypeOK, Stages, NoOp,
        Unmarked, Stopping, Starting, Replacing, Goal,
        WholeWithoutMarker, PreviousPreserved, Built, MarkerOf
<1>4. WholeWithoutMarker'
    BY <1>a, MarkerTyped, Moves DEF Refuse, At, disk, marker, WholeWithoutMarker, Control, Disk, TypeOK,
        NoOp, Unmarked, Stopping, Starting, Replacing, Goal, Built
<1>5. PreviousPreserved'
    BY <1>a, MarkerTyped, Moves DEF Refuse, At, disk, marker, PreviousPreserved, Control, Disk, TypeOK,
        NoOp, Unmarked, Stopping, Starting, Goal, MarkerOf,
        WholeWithoutMarker
<1> QED BY <1>1, <1>2, <1>3, <1>4, <1>5

LEMMA WithdrawKeeps ==
    ASSUME DeployInv, Withdraw PROVE DeployInv'
<1> USE CommitAssumption DEF DeployInv
<1>a. op \in Ops /\ op # NoOp
    BY DEF Withdraw, At, NoOp, TypeOK
<1>1. TypeOK'
    BY <1>a, MarkerTyped, Ends DEF Withdraw, At, disk, TypeOK, Goal, Built, Stages
<1>2. Control'
    BY <1>a, MarkerTyped, Ends DEF Withdraw, At, disk, Control, TypeOK, Stages, NoOp, Unmarked, Stopping,
        Replacing, Starting, MarkerOf, Built, Monitored
<1>3. ~unmarked' => Disk'
    BY <1>a, MarkerTyped, Ends DEF Withdraw, At, disk, Control, Disk, TypeOK, Stages, NoOp, Unmarked,
        Stopping, Starting, Replacing, Goal, WholeWithoutMarker,
        PreviousPreserved, Built, MarkerOf
<1>4. WholeWithoutMarker'
    BY <1>a, MarkerTyped, Ends DEF Withdraw, At, disk, WholeWithoutMarker, Control, Disk, TypeOK, NoOp,
        Unmarked, Stopping, Starting, Replacing, Goal, Built
<1>5. PreviousPreserved'
    BY <1>a, MarkerTyped, Ends DEF Withdraw, At, disk, PreviousPreserved, Control, Disk, TypeOK, NoOp,
        Unmarked, Stopping, Starting, Goal, MarkerOf,
        WholeWithoutMarker
<1> QED BY <1>1, <1>2, <1>3, <1>4, <1>5

LEMMA LeaveOnlineKeeps ==
    ASSUME DeployInv, LeaveOnline PROVE DeployInv'
<1> USE CommitAssumption DEF DeployInv
<1>a. op \in Ops /\ op # NoOp
    BY DEF LeaveOnline, At, NoOp, TypeOK
<1>1. TypeOK'
    BY <1>a, MarkerTyped, Ends DEF LeaveOnline, At, disk, marker, TypeOK, Goal, Built, Stages
<1>2. Control'
    BY <1>a, MarkerTyped, Ends DEF LeaveOnline, At, disk, marker, Control, TypeOK, Stages, NoOp,
        Unmarked, Stopping, Replacing, Starting, MarkerOf, Built,
        Monitored
<1>3. ~unmarked' => Disk'
    BY <1>a, MarkerTyped, Ends DEF LeaveOnline, At, disk, marker, Control, Disk, TypeOK, Stages, NoOp,
        Unmarked, Stopping, Starting, Replacing, Goal,
        WholeWithoutMarker, PreviousPreserved, Built, MarkerOf
<1>4. WholeWithoutMarker'
    BY <1>a, MarkerTyped, Ends DEF LeaveOnline, At, disk, marker, WholeWithoutMarker, Control, Disk,
        TypeOK, NoOp, Unmarked, Stopping, Starting, Replacing, Goal,
        Built
<1>5. PreviousPreserved'
    BY <1>a, MarkerTyped, Ends DEF LeaveOnline, At, disk, marker, PreviousPreserved, Control, Disk,
        TypeOK, NoOp, Unmarked, Stopping, Starting, Goal, MarkerOf,
        WholeWithoutMarker
<1> QED BY <1>1, <1>2, <1>3, <1>4, <1>5

LEMMA PreserveKeeps ==
    ASSUME DeployInv, Preserve PROVE DeployInv'
<1> USE CommitAssumption DEF DeployInv
<1>a. op \in Ops /\ op # NoOp
    BY DEF Preserve, At, NoOp, TypeOK
<1>1. TypeOK'
  <2>1. op' \in Ops
    BY <1>a, Moves DEF Preserve, At, Stages
  <2>2. auth' \in BOOLEAN /\ guardian' \in BOOLEAN
    BY DEF Preserve, marker, service, TypeOK
  <2> QED BY <2>1, <2>2, <1>a, MarkerTyped DEF Preserve, marker, service, TypeOK
<1>2. Control'
    BY <1>a, MarkerTyped, Moves DEF Preserve, At, marker, service, Control, TypeOK, Stages, NoOp,
        Unmarked, Stopping, Replacing, Starting, MarkerOf, Built,
        Monitored
<1>3. ~unmarked' => Disk'
    BY <1>a, MarkerTyped, Moves DEF Preserve, At, marker, service, Control, Disk, TypeOK, Stages, NoOp,
        Unmarked, Stopping, Starting, Replacing, Goal,
        WholeWithoutMarker, PreviousPreserved, Built, MarkerOf
<1>4. WholeWithoutMarker'
    BY <1>a, MarkerTyped, Moves DEF Preserve, At, marker, service, WholeWithoutMarker, Control, Disk,
        TypeOK, NoOp, Unmarked, Stopping, Starting, Replacing, Goal,
        Built
<1>5. PreviousPreserved'
    BY <1>a, MarkerTyped, Moves DEF Preserve, At, marker, service, PreviousPreserved, Control, Disk,
        TypeOK, NoOp, Unmarked, Stopping, Starting, Goal, MarkerOf,
        WholeWithoutMarker
<1> QED BY <1>1, <1>2, <1>3, <1>4, <1>5

LEMMA PreserveFailsKeeps ==
    ASSUME DeployInv, PreserveFails PROVE DeployInv'
<1> USE CommitAssumption DEF DeployInv
<1>a. op \in Ops /\ op # NoOp
    BY DEF PreserveFails, At, NoOp, TypeOK
<1>1. TypeOK'
    BY <1>a, MarkerTyped, Ends DEF PreserveFails, At, disk, marker, TypeOK, Goal, Built, Stages
<1>2. Control'
    BY <1>a, MarkerTyped, Ends DEF PreserveFails, At, disk, marker, Control, TypeOK, Stages, NoOp,
        Unmarked, Stopping, Replacing, Starting, MarkerOf, Built,
        Monitored
<1>3. ~unmarked' => Disk'
    BY <1>a, MarkerTyped, Ends DEF PreserveFails, At, disk, marker, Control, Disk, TypeOK, Stages, NoOp,
        Unmarked, Stopping, Starting, Replacing, Goal,
        WholeWithoutMarker, PreviousPreserved, Built, MarkerOf
<1>4. WholeWithoutMarker'
    BY <1>a, MarkerTyped, Ends DEF PreserveFails, At, disk, marker, WholeWithoutMarker, Control, Disk,
        TypeOK, NoOp, Unmarked, Stopping, Starting, Replacing, Goal,
        Built
<1>5. PreviousPreserved'
    BY <1>a, MarkerTyped, Ends DEF PreserveFails, At, disk, marker, PreviousPreserved, Control, Disk,
        TypeOK, NoOp, Unmarked, Stopping, Starting, Goal, MarkerOf,
        WholeWithoutMarker
<1> QED BY <1>1, <1>2, <1>3, <1>4, <1>5

LEMMA CheckOutKeeps ==
    ASSUME DeployInv, CheckOut PROVE DeployInv'
<1> USE CommitAssumption DEF DeployInv
<1>a. op \in Ops /\ op # NoOp
    BY DEF CheckOut, At, NoOp, TypeOK, Checkout
<1>1. TypeOK'
  <2>1. op' \in Ops
    BY <1>a, Moves DEF CheckOut, Checkout, At, Stages
  <2>2. auth' \in BOOLEAN /\ guardian' \in BOOLEAN
    BY DEF CheckOut, marker, service, Checkout, TypeOK
  <2> QED BY <2>1, <2>2, <1>a, MarkerTyped DEF CheckOut, marker, service, Checkout, Goal, TypeOK, Goal
<1>2. Control'
    BY <1>a, MarkerTyped, Moves DEF CheckOut, At, marker, service, Checkout, Goal, Control, TypeOK,
        Stages, NoOp, Unmarked, Stopping, Replacing, Starting,
        MarkerOf, Built, Monitored
<1>3. ~unmarked' => Disk'
    BY <1>a, MarkerTyped, Moves DEF CheckOut, At, marker, service, Checkout, Goal, Control, Disk, TypeOK,
        Stages, NoOp, Unmarked, Stopping, Starting, Replacing,
        WholeWithoutMarker, PreviousPreserved, Built, MarkerOf
<1>4. WholeWithoutMarker'
    BY <1>a, MarkerTyped, Moves DEF CheckOut, At, marker, service, Checkout, Goal, WholeWithoutMarker,
        Control, Disk, TypeOK, NoOp, Unmarked, Stopping, Starting,
        Replacing, Built
<1>5. PreviousPreserved'
    BY <1>a, MarkerTyped, Moves DEF CheckOut, At, marker, service, Checkout, Goal, PreviousPreserved,
        Control, Disk, TypeOK, NoOp, Unmarked, Stopping, Starting,
        MarkerOf, WholeWithoutMarker
<1> QED BY <1>1, <1>2, <1>3, <1>4, <1>5

LEMMA CheckoutFailsKeeps ==
    ASSUME DeployInv, CheckoutFails PROVE DeployInv'
<1> USE CommitAssumption DEF DeployInv
<1>a. op \in Ops /\ op # NoOp
    BY DEF CheckoutFails, At, NoOp, TypeOK
<1>1. TypeOK'
  <2>1. op' \in Ops /\ auth' \in BOOLEAN
    <3>1. CASE op.back
      BY <3>1, GivesUp DEF CheckoutFails
    <3>2. CASE ~op.back
      BY <3>2, <1>a, RollsBack DEF CheckoutFails, TypeOK
    <3> QED BY <3>1, <3>2
  <2> QED BY <2>1, <1>a, MarkerTyped DEF CheckoutFails, disk, marker, TypeOK
<1>2. Control'
  <2>1. CASE op.back
    BY <2>1, <1>a, MarkerTyped, GivesUp DEF CheckoutFails, disk, marker, Control, TypeOK, Stages, NoOp, Unmarked,
        Stopping, Replacing, Starting, MarkerOf, Built, Monitored
  <2>2. CASE ~op.back
    BY <2>2, <1>a, MarkerTyped, RollsBack DEF CheckoutFails, disk, marker, Control, TypeOK, Stages, NoOp, Unmarked,
        Stopping, Replacing, Starting, MarkerOf, Built, Monitored
  <2> QED BY <2>1, <2>2
<1>3. ~unmarked' => Disk'
  <2>1. CASE op.back
    BY <2>1, <1>a, MarkerTyped, GivesUp DEF CheckoutFails, disk, marker, Control, Disk, TypeOK, Stages, NoOp,
        Unmarked, Stopping, Starting, Replacing, Goal,
        WholeWithoutMarker, PreviousPreserved, Built, MarkerOf
  <2>2. CASE ~op.back
    BY <2>2, <1>a, MarkerTyped, RollsBack DEF CheckoutFails, disk, marker, Control, Disk, TypeOK, Stages, NoOp,
        Unmarked, Stopping, Starting, Replacing, Goal,
        WholeWithoutMarker, PreviousPreserved, Built, MarkerOf
  <2> QED BY <2>1, <2>2
<1>4. WholeWithoutMarker'
    BY <1>a, MarkerTyped, Ends DEF CheckoutFails, disk, marker, WholeWithoutMarker, Control, Disk,
        TypeOK, NoOp, Unmarked, Stopping, Starting, Replacing, Goal,
        Built
<1>5. PreviousPreserved'
    BY <1>a, MarkerTyped, Ends DEF CheckoutFails, disk, marker, PreviousPreserved, Control, Disk, TypeOK,
        NoOp, Unmarked, Stopping, Starting, Goal, MarkerOf,
        WholeWithoutMarker
<1> QED BY <1>1, <1>2, <1>3, <1>4, <1>5

LEMMA RemoveVenvKeeps ==
    ASSUME DeployInv, RemoveVenv PROVE DeployInv'
<1> USE CommitAssumption DEF DeployInv
<1>a. op \in Ops /\ op # NoOp
    BY DEF RemoveVenv, At, NoOp, TypeOK
<1>1. TypeOK'
  <2>1. op' \in Ops
    BY <1>a, Moves DEF RemoveVenv, At, Stages
  <2>2. auth' \in BOOLEAN /\ guardian' \in BOOLEAN
    BY DEF RemoveVenv, marker, service, TypeOK
  <2> QED BY <2>1, <2>2, <1>a, MarkerTyped DEF RemoveVenv, marker, service, TypeOK
<1>2. Control'
    BY <1>a, MarkerTyped, Moves DEF RemoveVenv, At, marker, service, Control, TypeOK, Stages, NoOp,
        Unmarked, Stopping, Replacing, Starting, MarkerOf, Built,
        Monitored
<1>3. ~unmarked' => Disk'
    BY <1>a, MarkerTyped, Moves DEF RemoveVenv, At, marker, service, Control, Disk, TypeOK, Stages, NoOp,
        Unmarked, Stopping, Starting, Replacing, Goal,
        WholeWithoutMarker, PreviousPreserved, Built, MarkerOf
<1>4. WholeWithoutMarker'
    BY <1>a, MarkerTyped, Moves DEF RemoveVenv, At, marker, service, WholeWithoutMarker, Control, Disk,
        TypeOK, NoOp, Unmarked, Stopping, Starting, Replacing, Goal,
        Built
<1>5. PreviousPreserved'
    BY <1>a, MarkerTyped, Moves DEF RemoveVenv, At, marker, service, PreviousPreserved, Control, Disk,
        TypeOK, NoOp, Unmarked, Stopping, Starting, Goal, MarkerOf,
        WholeWithoutMarker
<1> QED BY <1>1, <1>2, <1>3, <1>4, <1>5

LEMMA RestoreVenvKeeps ==
    ASSUME DeployInv, RestoreVenv PROVE DeployInv'
<1> USE CommitAssumption DEF DeployInv
<1>a. op \in Ops /\ op # NoOp
    BY DEF RestoreVenv, At, NoOp, TypeOK
<1>1. TypeOK'
  <2>1. op' \in Ops
    BY <1>a, Moves DEF RestoreVenv, At, Stages
  <2>2. auth' \in BOOLEAN /\ guardian' \in BOOLEAN
    BY DEF RestoreVenv, marker, service, TypeOK
  <2> QED BY <2>1, <2>2, <1>a, MarkerTyped DEF RestoreVenv, marker, service, TypeOK
<1>2. Control'
    BY <1>a, MarkerTyped, Moves DEF RestoreVenv, At, marker, service, Control, TypeOK, Stages, NoOp,
        Unmarked, Stopping, Replacing, Starting, MarkerOf, Built,
        Monitored
<1>3. ~unmarked' => Disk'
    BY <1>a, MarkerTyped, Moves DEF RestoreVenv, At, marker, service, Control, Disk, TypeOK, Stages, NoOp,
        Unmarked, Stopping, Starting, Replacing, Goal,
        WholeWithoutMarker, PreviousPreserved, Built, MarkerOf
<1>4. WholeWithoutMarker'
    BY <1>a, MarkerTyped, Moves DEF RestoreVenv, At, marker, service, WholeWithoutMarker, Control, Disk,
        TypeOK, NoOp, Unmarked, Stopping, Starting, Replacing, Goal,
        Built
<1>5. PreviousPreserved'
    BY <1>a, MarkerTyped, Moves DEF RestoreVenv, At, marker, service, PreviousPreserved, Control, Disk,
        TypeOK, NoOp, Unmarked, Stopping, Starting, Goal, MarkerOf,
        WholeWithoutMarker
<1> QED BY <1>1, <1>2, <1>3, <1>4, <1>5

LEMMA RestoreFailsKeeps ==
    ASSUME DeployInv, RestoreFails PROVE DeployInv'
<1> USE CommitAssumption DEF DeployInv
<1>a. op \in Ops /\ op # NoOp
    BY DEF RestoreFails, At, NoOp, TypeOK
<1>1. TypeOK'
    BY <1>a, MarkerTyped, Ends DEF RestoreFails, disk, marker, TypeOK, Goal, Built, Stages
<1>2. Control'
    BY <1>a, MarkerTyped, Ends DEF RestoreFails, disk, marker, Control, TypeOK, Stages, NoOp, Unmarked,
        Stopping, Replacing, Starting, MarkerOf, Built, Monitored
<1>3. ~unmarked' => Disk'
    BY <1>a, MarkerTyped, Ends DEF RestoreFails, disk, marker, Control, Disk, TypeOK, Stages, NoOp,
        Unmarked, Stopping, Starting, Replacing, Goal,
        WholeWithoutMarker, PreviousPreserved, Built, MarkerOf
<1>4. WholeWithoutMarker'
    BY <1>a, MarkerTyped, Ends DEF RestoreFails, disk, marker, WholeWithoutMarker, Control, Disk, TypeOK,
        NoOp, Unmarked, Stopping, Starting, Replacing, Goal, Built
<1>5. PreviousPreserved'
    BY <1>a, MarkerTyped, Ends DEF RestoreFails, disk, marker, PreviousPreserved, Control, Disk, TypeOK,
        NoOp, Unmarked, Stopping, Starting, Goal, MarkerOf,
        WholeWithoutMarker
<1> QED BY <1>1, <1>2, <1>3, <1>4, <1>5

LEMMA AuthorizeKeeps ==
    ASSUME DeployInv, Authorize PROVE DeployInv'
<1> USE CommitAssumption DEF DeployInv
<1>a. op \in Ops /\ op # NoOp
    BY DEF Authorize, At, NoOp, TypeOK
<1>1. TypeOK'
  <2>1. op' \in Ops
    BY <1>a, Moves DEF Authorize, At, Stages
  <2>2. auth' \in BOOLEAN /\ guardian' \in BOOLEAN
    BY DEF Authorize, disk, marker, TypeOK
  <2> QED BY <2>1, <2>2, <1>a, MarkerTyped DEF Authorize, disk, marker, TypeOK
<1>2. Control'
    BY <1>a, MarkerTyped, Moves DEF Authorize, At, disk, marker, Control, TypeOK, Stages, NoOp, Unmarked,
        Stopping, Replacing, Starting, MarkerOf, Built, Monitored
<1>3. ~unmarked' => Disk'
    BY <1>a, MarkerTyped, Moves DEF Authorize, At, disk, marker, Control, Disk, TypeOK, Stages, NoOp,
        Unmarked, Stopping, Starting, Replacing, Goal,
        WholeWithoutMarker, PreviousPreserved, Built, MarkerOf
<1>4. WholeWithoutMarker'
    BY <1>a, MarkerTyped, Moves DEF Authorize, At, disk, marker, WholeWithoutMarker, Control, Disk,
        TypeOK, NoOp, Unmarked, Stopping, Starting, Replacing, Goal,
        Built
<1>5. PreviousPreserved'
    BY <1>a, MarkerTyped, Moves DEF Authorize, At, disk, marker, PreviousPreserved, Control, Disk, TypeOK,
        NoOp, Unmarked, Stopping, Starting, Goal, MarkerOf,
        WholeWithoutMarker
<1> QED BY <1>1, <1>2, <1>3, <1>4, <1>5

LEMMA InstallKeeps ==
    ASSUME DeployInv, Install PROVE DeployInv'
<1> USE CommitAssumption DEF DeployInv
<1>a. op \in Ops /\ op # NoOp
    BY DEF Install, At, NoOp, TypeOK
<1>1. TypeOK'
  <2>1. op' \in Ops
    BY <1>a, Moves DEF Install, At, Stages
  <2>2. auth' \in BOOLEAN /\ guardian' \in BOOLEAN
    BY DEF Install, marker, service, TypeOK
  <2> QED BY <2>1, <2>2, <1>a, MarkerTyped DEF Install, marker, service, Goal, TypeOK
<1>2. Control'
    BY <1>a, MarkerTyped, Moves DEF Install, At, marker, service, Goal, Control, TypeOK, Stages, NoOp,
        Unmarked, Stopping, Replacing, Starting, MarkerOf, Built,
        Monitored
<1>3. ~unmarked' => Disk'
    BY <1>a, MarkerTyped, Moves DEF Install, At, marker, service, Goal, Control, Disk, TypeOK, Stages,
        NoOp, Unmarked, Stopping, Starting, Replacing,
        WholeWithoutMarker, PreviousPreserved, Built, MarkerOf
<1>4. WholeWithoutMarker'
    BY <1>a, MarkerTyped, Moves DEF Install, At, marker, service, Goal, WholeWithoutMarker, Control, Disk,
        TypeOK, NoOp, Unmarked, Stopping, Starting, Replacing, Built
<1>5. PreviousPreserved'
    BY <1>a, MarkerTyped, Moves DEF Install, At, marker, service, Goal, PreviousPreserved, Control, Disk,
        TypeOK, NoOp, Unmarked, Stopping, Starting, MarkerOf,
        WholeWithoutMarker
<1> QED BY <1>1, <1>2, <1>3, <1>4, <1>5

LEMMA StartKeeps ==
    ASSUME DeployInv, Start PROVE DeployInv'
<1> USE CommitAssumption DEF DeployInv
<1>a. op \in Ops /\ op # NoOp
    BY DEF Start, At, NoOp, TypeOK
<1>1. TypeOK'
  <2>1. op' \in Ops
    BY <1>a, Moves DEF Start, At, Stages
  <2>2. auth' \in BOOLEAN /\ guardian' \in BOOLEAN
    BY DEF Start, disk, marker, TypeOK
  <2> QED BY <2>1, <2>2, <1>a, MarkerTyped DEF Start, disk, marker, TypeOK, Built
<1>2. Control'
    BY <1>a, MarkerTyped, Moves DEF Start, At, disk, marker, MayStart, Built, Control, TypeOK, Stages,
        NoOp, Unmarked, Stopping, Replacing, Starting, MarkerOf,
        Monitored
<1>3. ~unmarked' => Disk'
    BY <1>a, MarkerTyped, Moves DEF Start, At, disk, marker, MayStart, Built, Control, Disk, TypeOK,
        Stages, NoOp, Unmarked, Stopping, Starting, Replacing, Goal,
        WholeWithoutMarker, PreviousPreserved, MarkerOf
<1>4. WholeWithoutMarker'
    BY <1>a, MarkerTyped, Moves DEF Start, At, disk, marker, MayStart, Built, WholeWithoutMarker, Control,
        Disk, TypeOK, NoOp, Unmarked, Stopping, Starting, Replacing,
        Goal
<1>5. PreviousPreserved'
    BY <1>a, MarkerTyped, Moves DEF Start, At, disk, marker, MayStart, Built, PreviousPreserved, Control,
        Disk, TypeOK, NoOp, Unmarked, Stopping, Starting, Goal,
        MarkerOf, WholeWithoutMarker
<1> QED BY <1>1, <1>2, <1>3, <1>4, <1>5

LEMMA VerifyKeeps ==
    ASSUME DeployInv, Verify PROVE DeployInv'
<1> USE CommitAssumption DEF DeployInv
<1>a. op \in Ops /\ op # NoOp
    BY DEF Verify, At, NoOp, TypeOK
<1>1. TypeOK'
  <2>1. op' \in Ops
    BY <1>a, Moves DEF Verify, At, Stages
  <2>2. auth' \in BOOLEAN /\ guardian' \in BOOLEAN
    BY DEF Verify, disk, marker, service, TypeOK
  <2> QED BY <2>1, <2>2, <1>a, MarkerTyped DEF Verify, disk, marker, service, TypeOK
<1>2. Control'
    BY <1>a, MarkerTyped, Moves DEF Verify, At, disk, marker, service, Control, TypeOK, Stages, NoOp,
        Unmarked, Stopping, Replacing, Starting, MarkerOf, Built,
        Monitored
<1>3. ~unmarked' => Disk'
    BY <1>a, MarkerTyped, Moves DEF Verify, At, disk, marker, service, Control, Disk, TypeOK, Stages,
        NoOp, Unmarked, Stopping, Starting, Replacing, Goal,
        WholeWithoutMarker, PreviousPreserved, Built, MarkerOf
<1>4. WholeWithoutMarker'
    BY <1>a, MarkerTyped, Moves DEF Verify, At, disk, marker, service, WholeWithoutMarker, Control, Disk,
        TypeOK, NoOp, Unmarked, Stopping, Starting, Replacing, Goal,
        Built
<1>5. PreviousPreserved'
    BY <1>a, MarkerTyped, Moves DEF Verify, At, disk, marker, service, PreviousPreserved, Control, Disk,
        TypeOK, NoOp, Unmarked, Stopping, Starting, Goal, MarkerOf,
        WholeWithoutMarker
<1> QED BY <1>1, <1>2, <1>3, <1>4, <1>5

LEMMA InstallationFailsKeeps ==
    ASSUME DeployInv, InstallationFails PROVE DeployInv'
<1> USE CommitAssumption DEF DeployInv
<1>a. op \in Ops /\ op # NoOp
    BY DEF InstallationFails, At, NoOp, TypeOK
<1>1. TypeOK'
  <2>1. op' \in Ops /\ auth' \in BOOLEAN
    <3>1. CASE op.back
      BY <3>1, GivesUp DEF InstallationFails
    <3>2. CASE ~op.back
      BY <3>2, <1>a, RollsBack DEF InstallationFails, TypeOK
    <3> QED BY <3>1, <3>2
  <2> QED BY <2>1, <1>a, MarkerTyped DEF InstallationFails, disk, marker, TypeOK
<1>2. Control'
  <2>1. CASE op.back
    BY <2>1, <1>a, MarkerTyped, GivesUp DEF InstallationFails, disk, marker, Control, TypeOK, Stages, NoOp,
        Unmarked, Stopping, Replacing, Starting, MarkerOf, Built,
        Monitored
  <2>2. CASE ~op.back
    BY <2>2, <1>a, MarkerTyped, RollsBack DEF InstallationFails, disk, marker, Control, TypeOK, Stages, NoOp,
        Unmarked, Stopping, Replacing, Starting, MarkerOf, Built,
        Monitored
  <2> QED BY <2>1, <2>2
<1>3. ~unmarked' => Disk'
  <2>1. CASE op.back
    BY <2>1, <1>a, MarkerTyped, GivesUp DEF InstallationFails, disk, marker, Control, Disk, TypeOK, Stages, NoOp,
        Unmarked, Stopping, Starting, Replacing, Goal,
        WholeWithoutMarker, PreviousPreserved, Built, MarkerOf
  <2>2. CASE ~op.back
    BY <2>2, <1>a, MarkerTyped, RollsBack DEF InstallationFails, disk, marker, Control, Disk, TypeOK, Stages, NoOp,
        Unmarked, Stopping, Starting, Replacing, Goal,
        WholeWithoutMarker, PreviousPreserved, Built, MarkerOf
  <2> QED BY <2>1, <2>2
<1>4. WholeWithoutMarker'
    BY <1>a, MarkerTyped, Ends DEF InstallationFails, disk, marker, WholeWithoutMarker, Control, Disk,
        TypeOK, NoOp, Unmarked, Stopping, Starting, Replacing, Goal,
        Built
<1>5. PreviousPreserved'
    BY <1>a, MarkerTyped, Ends DEF InstallationFails, disk, marker, PreviousPreserved, Control, Disk,
        TypeOK, NoOp, Unmarked, Stopping, Starting, Goal, MarkerOf,
        WholeWithoutMarker
<1> QED BY <1>1, <1>2, <1>3, <1>4, <1>5

LEMMA RecordKeeps ==
    ASSUME DeployInv, Record PROVE DeployInv'
<1> USE CommitAssumption DEF DeployInv
<1>a. op \in Ops /\ op # NoOp
    BY DEF Record, At, NoOp, TypeOK
<1>1. TypeOK'
  <2>1. op' \in Ops
    BY <1>a, Moves DEF Record, At, Stages
  <2>2. auth' \in BOOLEAN /\ guardian' \in BOOLEAN
    BY DEF Record, marker, service, TypeOK
  <2> QED BY <2>1, <2>2, <1>a, MarkerTyped DEF Record, marker, service, Goal, TypeOK
<1>2. Control'
    BY <1>a, MarkerTyped, Moves DEF Record, At, marker, service, Goal, Control, TypeOK, Stages, NoOp,
        Unmarked, Stopping, Replacing, Starting, MarkerOf, Built,
        Monitored
<1>3. ~unmarked' => Disk'
    BY <1>a, MarkerTyped, Moves DEF Record, At, marker, service, Goal, Control, Disk, TypeOK, Stages,
        NoOp, Unmarked, Stopping, Starting, Replacing,
        WholeWithoutMarker, PreviousPreserved, Built, MarkerOf
<1>4. WholeWithoutMarker'
    BY <1>a, MarkerTyped, Moves DEF Record, At, marker, service, Goal, WholeWithoutMarker, Control, Disk,
        TypeOK, NoOp, Unmarked, Stopping, Starting, Replacing, Built
<1>5. PreviousPreserved'
    BY <1>a, MarkerTyped, Moves DEF Record, At, marker, service, Goal, PreviousPreserved, Control, Disk,
        TypeOK, NoOp, Unmarked, Stopping, Starting, MarkerOf,
        WholeWithoutMarker
<1> QED BY <1>1, <1>2, <1>3, <1>4, <1>5

LEMMA RecordFailsKeeps ==
    ASSUME DeployInv, RecordFails PROVE DeployInv'
<1> USE CommitAssumption DEF DeployInv
<1>a. op \in Ops /\ op # NoOp
    BY DEF RecordFails, At, NoOp, TypeOK
<1>1. TypeOK'
  <2>1. op' \in Ops /\ auth' \in BOOLEAN
    <3>1. CASE op.back
      BY <3>1, GivesUp DEF RecordFails
    <3>2. CASE ~op.back
      BY <3>2, <1>a, RollsBack DEF RecordFails, TypeOK
    <3> QED BY <3>1, <3>2
  <2> QED BY <2>1, <1>a, MarkerTyped DEF RecordFails, marker, Goal, TypeOK
<1>2. Control'
  <2>1. CASE op.back
    BY <2>1, <1>a, MarkerTyped, GivesUp DEF RecordFails, At, marker, Goal, Control, TypeOK, Stages, NoOp,
        Unmarked, Stopping, Replacing, Starting, MarkerOf, Built,
        Monitored
  <2>2. CASE ~op.back
    BY <2>2, <1>a, MarkerTyped, RollsBack DEF RecordFails, At, marker, Goal, Control, TypeOK, Stages, NoOp,
        Unmarked, Stopping, Replacing, Starting, MarkerOf, Built,
        Monitored
  <2> QED BY <2>1, <2>2
<1>3. ~unmarked' => Disk'
  <2>1. CASE op.back
    BY <2>1, <1>a, MarkerTyped, GivesUp DEF RecordFails, At, marker, Goal, Control, Disk, TypeOK, Stages, NoOp,
        Unmarked, Stopping, Starting, Replacing, WholeWithoutMarker,
        PreviousPreserved, Built, MarkerOf
  <2>2. CASE ~op.back
    BY <2>2, <1>a, MarkerTyped, RollsBack DEF RecordFails, At, marker, Goal, Control, Disk, TypeOK, Stages, NoOp,
        Unmarked, Stopping, Starting, Replacing, WholeWithoutMarker,
        PreviousPreserved, Built, MarkerOf
  <2> QED BY <2>1, <2>2
<1>4. WholeWithoutMarker'
    BY <1>a, MarkerTyped, Ends DEF RecordFails, At, marker, Goal, WholeWithoutMarker, Control, Disk,
        TypeOK, NoOp, Unmarked, Stopping, Starting, Replacing, Built
<1>5. PreviousPreserved'
    BY <1>a, MarkerTyped, Ends DEF RecordFails, At, marker, Goal, PreviousPreserved, Control, Disk,
        TypeOK, NoOp, Unmarked, Stopping, Starting, MarkerOf,
        WholeWithoutMarker
<1> QED BY <1>1, <1>2, <1>3, <1>4, <1>5

LEMMA UnmarkKeeps ==
    ASSUME DeployInv, Unmark PROVE DeployInv'
<1> USE CommitAssumption DEF DeployInv
<1>a. op \in Ops /\ op # NoOp
    BY DEF Unmark, At, NoOp, TypeOK
<1>1. TypeOK'
  <2>1. op' \in Ops
    BY <1>a, Moves DEF Unmark, At, Stages
  <2>2. auth' \in BOOLEAN /\ guardian' \in BOOLEAN
    BY DEF Unmark, disk, service, TypeOK
  <2> QED BY <2>1, <2>2, <1>a, MarkerTyped DEF Unmark, disk, service, TypeOK
<1>2. Control'
    BY <1>a, MarkerTyped, Moves DEF Unmark, At, disk, service, Control, TypeOK, Stages, NoOp, Unmarked,
        Stopping, Replacing, Starting, MarkerOf, Built, Monitored
<1>3. ~unmarked' => Disk'
    BY <1>a, MarkerTyped, Moves DEF Unmark, At, disk, service, Control, Disk, TypeOK, Stages, NoOp,
        Unmarked, Stopping, Starting, Replacing, Goal,
        WholeWithoutMarker, PreviousPreserved, Built, MarkerOf
<1>4. WholeWithoutMarker'
    BY <1>a, MarkerTyped, Moves DEF Unmark, At, disk, service, WholeWithoutMarker, Control, Disk, TypeOK,
        NoOp, Unmarked, Stopping, Starting, Replacing, Goal, Built
<1>5. PreviousPreserved'
    BY <1>a, MarkerTyped, Moves DEF Unmark, At, disk, service, PreviousPreserved, Control, Disk, TypeOK,
        NoOp, Unmarked, Stopping, Starting, Goal, MarkerOf,
        WholeWithoutMarker
<1> QED BY <1>1, <1>2, <1>3, <1>4, <1>5

LEMMA UnmarkFailsKeeps ==
    ASSUME DeployInv, UnmarkFails PROVE DeployInv'
<1> USE CommitAssumption DEF DeployInv
<1>a. op \in Ops /\ op # NoOp
    BY DEF UnmarkFails, At, NoOp, TypeOK
<1>1. TypeOK'
  <2>1. op' \in Ops /\ auth' \in BOOLEAN
    <3>1. CASE op.back
      BY <3>1, GivesUp DEF UnmarkFails
    <3>2. CASE ~op.back
      BY <3>2, <1>a, RollsBack DEF UnmarkFails, TypeOK
    <3> QED BY <3>1, <3>2
  <2> QED BY <2>1, <1>a, MarkerTyped DEF UnmarkFails, disk, TypeOK
<1>2. Control'
  <2>1. CASE op.back
    BY <2>1, <1>a, MarkerTyped, GivesUp DEF UnmarkFails, At, disk, Control, TypeOK, Stages, NoOp, Unmarked,
        Stopping, Replacing, Starting, MarkerOf, Built, Monitored
  <2>2. CASE ~op.back
    BY <2>2, <1>a, MarkerTyped, RollsBack DEF UnmarkFails, At, disk, Control, TypeOK, Stages, NoOp, Unmarked,
        Stopping, Replacing, Starting, MarkerOf, Built, Monitored
  <2> QED BY <2>1, <2>2
<1>3. ~unmarked' => Disk'
  <2>1. SUFFICES ASSUME ~unmarked' PROVE Disk'
    OBVIOUS
  <2>2. pending' = pending /\ ~unmarked /\ UNCHANGED disk
    BY <2>1, <1>a DEF UnmarkFails, Disk, Unmarked, At, TypeOK
  <2>3. CASE op.back
    BY <2>2, <2>3, GivesUp DEF UnmarkFails, Disk, Unmarked, Stopping, Starting, NoOp
  <2>4. CASE ~op.back
    <3>1. rollbackVenv = op.previous /\ pending # None
      BY <2>2, <2>4, <1>a DEF UnmarkFails, At, Disk, Unmarked, Starting
    <3> QED BY <2>2, <2>4, <3>1, <1>a, RollsBack
            DEF UnmarkFails, Disk, Unmarked, Stopping, Starting, disk
  <2> QED BY <2>3, <2>4
<1>4. WholeWithoutMarker'
    BY <1>a, MarkerTyped, Ends DEF UnmarkFails, At, disk, WholeWithoutMarker, Control, Disk, TypeOK,
        NoOp, Unmarked, Stopping, Starting, Replacing, Goal, Built
<1>5. PreviousPreserved'
    BY <1>a, MarkerTyped, Ends DEF UnmarkFails, At, disk, PreviousPreserved, Control, Disk, TypeOK, NoOp,
        Unmarked, Stopping, Starting, Goal, MarkerOf,
        WholeWithoutMarker
<1> QED BY <1>1, <1>2, <1>3, <1>4, <1>5

LEMMA FinishKeeps ==
    ASSUME DeployInv, Finish PROVE DeployInv'
<1> USE CommitAssumption DEF DeployInv
<1>a. op \in Ops /\ op # NoOp
    BY DEF Finish, At, NoOp, TypeOK
<1>1. TypeOK'
  <2>1. op' \in Ops
    BY <1>a, Moves DEF Finish, At, Stages
  <2>2. auth' \in BOOLEAN /\ guardian' \in BOOLEAN
    BY DEF Finish, disk, marker, TypeOK
  <2> QED BY <2>1, <2>2, <1>a, MarkerTyped DEF Finish, disk, marker, TypeOK
<1>2. Control'
    BY <1>a, MarkerTyped, Moves DEF Finish, At, disk, marker, Control, TypeOK, Stages, NoOp, Unmarked,
        Stopping, Replacing, Starting, MarkerOf, Built, Monitored
<1>3. ~unmarked' => Disk'
    BY <1>a, MarkerTyped, Moves DEF Finish, At, disk, marker, Control, Disk, TypeOK, Stages, NoOp,
        Unmarked, Stopping, Starting, Replacing, Goal,
        WholeWithoutMarker, PreviousPreserved, Built, MarkerOf
<1>4. WholeWithoutMarker'
    BY <1>a, MarkerTyped, Moves DEF Finish, At, disk, marker, WholeWithoutMarker, Control, Disk, TypeOK,
        NoOp, Unmarked, Stopping, Starting, Replacing, Goal, Built
<1>5. PreviousPreserved'
    BY <1>a, MarkerTyped, Moves DEF Finish, At, disk, marker, PreviousPreserved, Control, Disk, TypeOK,
        NoOp, Unmarked, Stopping, Starting, Goal, MarkerOf,
        WholeWithoutMarker
<1> QED BY <1>1, <1>2, <1>3, <1>4, <1>5

LEMMA FinishFailsKeeps ==
    ASSUME DeployInv, FinishFails PROVE DeployInv'
<1> USE CommitAssumption DEF DeployInv
<1>a. op \in Ops /\ op # NoOp
    BY DEF FinishFails, At, NoOp, TypeOK
<1>1. TypeOK'
    BY <1>a, MarkerTyped, Ends DEF FinishFails, At, disk, marker, TypeOK, Goal, Built, Stages
<1>2. Control'
    BY <1>a, MarkerTyped, Ends DEF FinishFails, At, disk, marker, Control, TypeOK, Stages, NoOp,
        Unmarked, Stopping, Replacing, Starting, MarkerOf, Built,
        Monitored
<1>3. ~unmarked' => Disk'
    BY <1>a, MarkerTyped, Ends DEF FinishFails, At, disk, marker, Control, Disk, TypeOK, Stages, NoOp,
        Unmarked, Stopping, Starting, Replacing, Goal,
        WholeWithoutMarker, PreviousPreserved, Built, MarkerOf
<1>4. WholeWithoutMarker'
    BY <1>a, MarkerTyped, Ends DEF FinishFails, At, disk, marker, WholeWithoutMarker, Control, Disk,
        TypeOK, NoOp, Unmarked, Stopping, Starting, Replacing, Goal,
        Built
<1>5. PreviousPreserved'
    BY <1>a, MarkerTyped, Ends DEF FinishFails, At, disk, marker, PreviousPreserved, Control, Disk,
        TypeOK, NoOp, Unmarked, Stopping, Starting, Goal, MarkerOf,
        WholeWithoutMarker
<1> QED BY <1>1, <1>2, <1>3, <1>4, <1>5

LEMMA DropKeeps ==
    ASSUME DeployInv, Drop PROVE DeployInv'
<1> USE CommitAssumption DEF DeployInv
<1>a. op \in Ops /\ op # NoOp
    BY DEF Drop, At, NoOp, TypeOK
<1>1. TypeOK'
    BY <1>a, MarkerTyped, Ends DEF Drop, At, TypeOK, Goal, Built, Stages
<1>2. Control'
    BY <1>a, MarkerTyped, Ends DEF Drop, At, Control, TypeOK, Stages, NoOp, Unmarked, Stopping,
        Replacing, Starting, MarkerOf, Built, Monitored
<1>3. ~unmarked' => Disk'
    BY <1>a, MarkerTyped, Ends DEF Drop, At, Control, Disk, TypeOK, Stages, NoOp, Unmarked, Stopping,
        Starting, Replacing, Goal, WholeWithoutMarker,
        PreviousPreserved, Built, MarkerOf
<1>4. WholeWithoutMarker'
    BY <1>a, MarkerTyped, Ends DEF Drop, At, WholeWithoutMarker, Control, Disk, TypeOK, NoOp, Unmarked,
        Stopping, Starting, Replacing, Goal, Built
<1>5. PreviousPreserved'
    BY <1>a, MarkerTyped, Ends DEF Drop, At, PreviousPreserved, Control, Disk, TypeOK, NoOp, Unmarked,
        Stopping, Starting, Goal, MarkerOf, WholeWithoutMarker
<1> QED BY <1>1, <1>2, <1>3, <1>4, <1>5

LEMMA KillKeeps ==
    ASSUME DeployInv, Kill PROVE DeployInv'
<1> USE CommitAssumption DEF DeployInv
<1>a. op \in Ops /\ op # NoOp
    BY DEF Kill, At, NoOp, TypeOK
<1>1. TypeOK'
    BY <1>a, MarkerTyped, Ends DEF Kill, At, disk, marker, MayStart, Built, TypeOK, Goal, Stages
<1>2. Control'
    BY <1>a, MarkerTyped, Ends DEF Kill, At, disk, marker, MayStart, Built, Control, TypeOK, Stages,
        NoOp, Unmarked, Stopping, Replacing, Starting, MarkerOf,
        Monitored
<1>3. ~unmarked' => Disk'
    BY <1>a, MarkerTyped, Ends DEF Kill, At, disk, marker, MayStart, Built, Control, Disk, TypeOK,
        Stages, NoOp, Unmarked, Stopping, Starting, Replacing, Goal,
        WholeWithoutMarker, PreviousPreserved, MarkerOf
<1>4. WholeWithoutMarker'
    BY <1>a, MarkerTyped, Ends DEF Kill, At, disk, marker, MayStart, Built, WholeWithoutMarker, Control,
        Disk, TypeOK, NoOp, Unmarked, Stopping, Starting, Replacing,
        Goal
<1>5. PreviousPreserved'
    BY <1>a, MarkerTyped, Ends DEF Kill, At, disk, marker, MayStart, Built, PreviousPreserved, Control,
        Disk, TypeOK, NoOp, Unmarked, Stopping, Starting, Goal,
        MarkerOf, WholeWithoutMarker
<1> QED BY <1>1, <1>2, <1>3, <1>4, <1>5

LEMMA InterruptKeeps ==
    ASSUME DeployInv, Interrupt PROVE DeployInv'
<1> USE CommitAssumption DEF DeployInv
<1>a. op \in Ops /\ op # NoOp
    BY DEF Interrupt, At, NoOp, TypeOK
<1>1. TypeOK'
    BY <1>a, MarkerTyped, Ends DEF Interrupt, disk, marker, Trapped, TypeOK, Goal, Built, Stages
<1>2. Control'
    BY <1>a, MarkerTyped, Ends DEF Interrupt, disk, marker, Trapped, Control, TypeOK, Stages, NoOp,
        Unmarked, Stopping, Replacing, Starting, MarkerOf, Built,
        Monitored
<1>3. ~unmarked' => Disk'
    BY <1>a, MarkerTyped, Ends DEF Interrupt, disk, marker, Trapped, Control, Disk, TypeOK, Stages, NoOp,
        Unmarked, Stopping, Starting, Replacing, Goal,
        WholeWithoutMarker, PreviousPreserved, Built, MarkerOf
<1>4. WholeWithoutMarker'
    BY <1>a, MarkerTyped, Ends DEF Interrupt, disk, marker, Trapped, WholeWithoutMarker, Control, Disk,
        TypeOK, NoOp, Unmarked, Stopping, Starting, Replacing, Goal,
        Built
<1>5. PreviousPreserved'
    BY <1>a, MarkerTyped, Ends DEF Interrupt, disk, marker, Trapped, PreviousPreserved, Control, Disk,
        TypeOK, NoOp, Unmarked, Stopping, Starting, Goal, MarkerOf,
        WholeWithoutMarker
<1> QED BY <1>1, <1>2, <1>3, <1>4, <1>5

LEMMA GuardianStopsKeeps ==
    ASSUME DeployInv, GuardianStops PROVE DeployInv'
<1> USE CommitAssumption DEF DeployInv
<1>1. TypeOK'
    BY DEF GuardianStops, disk, marker, TypeOK, Goal, Built, Stages
<1>2. Control'
    BY DEF GuardianStops, disk, marker, Control, TypeOK, Marker, Stages, NoOp,
        Unmarked, Stopping, Replacing, Starting, MarkerOf, Built,
        Monitored
<1>3. ~unmarked' => Disk'
    BY DEF GuardianStops, disk, marker, Control, Disk, TypeOK, Marker, Stages,
        NoOp, Unmarked, Stopping, Starting, Replacing, Goal,
        WholeWithoutMarker, PreviousPreserved, Built, MarkerOf
<1>4. WholeWithoutMarker'
    BY DEF GuardianStops, disk, marker, WholeWithoutMarker, Control, Disk,
        TypeOK, Marker, NoOp, Unmarked, Stopping, Starting, Replacing,
        Goal, Built
<1>5. PreviousPreserved'
    BY DEF GuardianStops, disk, marker, PreviousPreserved, Control, Disk, TypeOK,
        Marker, NoOp, Unmarked, Stopping, Starting, Goal, MarkerOf,
        WholeWithoutMarker
<1> QED BY <1>1, <1>2, <1>3, <1>4, <1>5

LEMMA GuardianEndsKeeps ==
    ASSUME DeployInv, GuardianEnds PROVE DeployInv'
<1> USE CommitAssumption DEF DeployInv
<1>1. TypeOK'
    BY DEF GuardianEnds, disk, marker, TypeOK, Goal, Built, Stages
<1>2. Control'
    BY DEF GuardianEnds, disk, marker, Control, TypeOK, Marker, Stages, NoOp,
        Unmarked, Stopping, Replacing, Starting, MarkerOf, Built,
        Monitored
<1>3. ~unmarked' => Disk'
    BY DEF GuardianEnds, disk, marker, Control, Disk, TypeOK, Marker, Stages,
        NoOp, Unmarked, Stopping, Starting, Replacing, Goal,
        WholeWithoutMarker, PreviousPreserved, Built, MarkerOf
<1>4. WholeWithoutMarker'
    BY DEF GuardianEnds, disk, marker, WholeWithoutMarker, Control, Disk, TypeOK,
        Marker, NoOp, Unmarked, Stopping, Starting, Replacing, Goal,
        Built
<1>5. PreviousPreserved'
    BY DEF GuardianEnds, disk, marker, PreviousPreserved, Control, Disk, TypeOK,
        Marker, NoOp, Unmarked, Stopping, Starting, Goal, MarkerOf,
        WholeWithoutMarker
<1> QED BY <1>1, <1>2, <1>3, <1>4, <1>5

LEMMA PowerLossKeeps ==
    ASSUME DeployInv, PowerLoss PROVE DeployInv'
<1> USE CommitAssumption DEF DeployInv
<1>1. TypeOK'
    BY DEF PowerLoss, disk, marker, TypeOK, Goal, Built, Stages, Ops
<1>2. Control'
    BY DEF PowerLoss, disk, marker, Control, TypeOK, Marker, Stages, NoOp,
        Unmarked, Stopping, Replacing, Starting, MarkerOf, Built,
        Monitored
<1>3. ~unmarked' => Disk'
    BY DEF PowerLoss, disk, marker, Control, Disk, TypeOK, Marker, Stages, NoOp,
        Unmarked, Stopping, Starting, Replacing, Goal,
        WholeWithoutMarker, PreviousPreserved, Built, MarkerOf
<1>4. WholeWithoutMarker'
    BY DEF PowerLoss, disk, marker, WholeWithoutMarker, Control, Disk, TypeOK,
        Marker, NoOp, Unmarked, Stopping, Starting, Replacing, Goal,
        Built
<1>5. PreviousPreserved'
    BY DEF PowerLoss, disk, marker, PreviousPreserved, Control, Disk, TypeOK,
        Marker, NoOp, Unmarked, Stopping, Starting, Goal, MarkerOf,
        WholeWithoutMarker
<1> QED BY <1>1, <1>2, <1>3, <1>4, <1>5

LEMMA StartStackKeeps ==
    ASSUME DeployInv, StartStack PROVE DeployInv'
<1> USE CommitAssumption DEF DeployInv
<1>1. TypeOK'
    BY DEF StartStack, disk, marker, MayStart, Built, TypeOK, Goal, Stages
<1>2. Control'
    BY DEF StartStack, disk, marker, MayStart, Built, Control, TypeOK, Marker,
        Stages, NoOp, Unmarked, Stopping, Replacing, Starting,
        MarkerOf, Monitored
<1>3. ~unmarked' => Disk'
    BY DEF StartStack, disk, marker, MayStart, Built, Control, Disk, TypeOK,
        Marker, Stages, NoOp, Unmarked, Stopping, Starting, Replacing,
        Goal, WholeWithoutMarker, PreviousPreserved, MarkerOf
<1>4. WholeWithoutMarker'
    BY DEF StartStack, disk, marker, MayStart, Built, WholeWithoutMarker,
        Control, Disk, TypeOK, Marker, NoOp, Unmarked, Stopping,
        Starting, Replacing, Goal
<1>5. PreviousPreserved'
    BY DEF StartStack, disk, marker, MayStart, Built, PreviousPreserved, Control,
        Disk, TypeOK, Marker, NoOp, Unmarked, Stopping, Starting,
        Goal, MarkerOf, WholeWithoutMarker
<1> QED BY <1>1, <1>2, <1>3, <1>4, <1>5

LEMMA StopServerKeeps ==
    ASSUME DeployInv, StopServer PROVE DeployInv'
<1> USE CommitAssumption DEF DeployInv
<1>1. TypeOK'
    BY DEF StopServer, disk, marker, TypeOK, Goal, Built, Stages
<1>2. Control'
    BY DEF StopServer, disk, marker, Control, TypeOK, Marker, Stages, NoOp,
        Unmarked, Stopping, Replacing, Starting, MarkerOf, Built,
        Monitored
<1>3. ~unmarked' => Disk'
    BY DEF StopServer, disk, marker, Control, Disk, TypeOK, Marker, Stages, NoOp,
        Unmarked, Stopping, Starting, Replacing, Goal,
        WholeWithoutMarker, PreviousPreserved, Built, MarkerOf
<1>4. WholeWithoutMarker'
    BY DEF StopServer, disk, marker, WholeWithoutMarker, Control, Disk, TypeOK,
        Marker, NoOp, Unmarked, Stopping, Starting, Replacing, Goal,
        Built
<1>5. PreviousPreserved'
    BY DEF StopServer, disk, marker, PreviousPreserved, Control, Disk, TypeOK,
        Marker, NoOp, Unmarked, Stopping, Starting, Goal, MarkerOf,
        WholeWithoutMarker
<1> QED BY <1>1, <1>2, <1>3, <1>4, <1>5

-----------------------------------------------------------------------------
\* The inductive invariant: every stage finds on the disk what it counts on.
THEOREM DeploymentInvariance == Spec => []DeployInv
<1>1. Init => DeployInv
  <2> SUFFICES ASSUME Init PROVE DeployInv
    OBVIOUS
  <2>1. TypeOK
    BY DEF Init, TypeOK, Ops
  <2>2. op.at = "idle" /\ ~op.back
    BY DEF Init, NoOp
  <2>3. Control
    BY <2>2 DEF Init, Control, Built, Unmarked, Stopping, Replacing, Starting
  <2>4. Disk
    BY <2>2 DEF Init, Disk, Unmarked, Stopping, Starting
  <2> QED BY <2>1, <2>3, <2>4 DEF Init, DeployInv, WholeWithoutMarker, PreviousPreserved
<1>2. DeployInv /\ [Next]_vars => DeployInv'
  <2> SUFFICES ASSUME DeployInv, [Next]_vars PROVE DeployInv'
    OBVIOUS
  <2>1. CASE UNCHANGED vars
    BY <2>1 DEF vars, disk, marker, service, DeployInv, TypeOK, Control, Disk, Built,
       MarkerOf, Goal, Monitored, WholeWithoutMarker, PreviousPreserved
  <2>2. CASE \E t \in Commit : Deploy(t)
    BY <2>2, DeployKeeps
  <2>3. CASE Sweep \/ Save \/ SaveFails \/ Mark \/ MarkFails \/ Permit \/ PermitFails \/ Quiesce
    BY <2>3, SweepKeeps, SaveKeeps, SaveFailsKeeps, MarkKeeps, MarkFailsKeeps, PermitKeeps, PermitFailsKeeps, QuiesceKeeps
  <2>4. CASE QuiesceFails \/ Revoke \/ RevokeFails \/ Refuse \/ Withdraw \/ LeaveOnline \/ Preserve \/ PreserveFails
    BY <2>4, QuiesceFailsKeeps, RevokeKeeps, RevokeFailsKeeps, RefuseKeeps, WithdrawKeeps, LeaveOnlineKeeps, PreserveKeeps, PreserveFailsKeeps
  <2>5. CASE CheckOut \/ CheckoutFails \/ RemoveVenv \/ RestoreVenv \/ RestoreFails \/ Authorize \/ Install \/ Start
    BY <2>5, CheckOutKeeps, CheckoutFailsKeeps, RemoveVenvKeeps, RestoreVenvKeeps, RestoreFailsKeeps, AuthorizeKeeps, InstallKeeps, StartKeeps
  <2>6. CASE Verify \/ InstallationFails \/ Record \/ RecordFails \/ Unmark \/ UnmarkFails \/ Finish \/ FinishFails
    BY <2>6, VerifyKeeps, InstallationFailsKeeps, RecordKeeps, RecordFailsKeeps, UnmarkKeeps, UnmarkFailsKeeps, FinishKeeps, FinishFailsKeeps
  <2>7. CASE Drop \/ Kill \/ Interrupt \/ GuardianStops \/ GuardianEnds \/ PowerLoss \/ StartStack \/ StopServer
    BY <2>7, DropKeeps, KillKeeps, InterruptKeeps, GuardianStopsKeeps, GuardianEndsKeeps, PowerLossKeeps, StartStackKeeps, StopServerKeeps
  <2> QED BY <2>1, <2>2, <2>3, <2>4, <2>5, <2>6, <2>7 DEF Next
<1> QED BY <1>1, <1>2, PTL DEF Spec

\* Every variable keeps its type.
THEOREM DeploymentTypes == Spec => []TypeOK
<1>1. DeployInv => TypeOK
    BY DEF DeployInv
<1> QED BY <1>1, DeploymentInvariance, PTL

\* For every set of commits: a host without a pending marker is whole.
THEOREM WholeHost == Spec => []WholeWithoutMarker
<1>1. DeployInv => WholeWithoutMarker
    BY DEF DeployInv
<1> QED BY <1>1, DeploymentInvariance, PTL

\* For every set of commits: while a deployment is pending, the previous
\* environment is where a retry and a rollback look for it.
THEOREM PreviousIsPreserved == Spec => []PreviousPreserved
<1>1. DeployInv => PreviousPreserved
    BY DEF DeployInv
<1> QED BY <1>1, DeploymentInvariance, PTL

-----------------------------------------------------------------------------
\* A running deployment without guardian, that is not refusing, has no
\* candidate running.
LEMMA NoCandidate ==
    ASSUME DeployInv, op # NoOp, ~guardian, pending # None,
           op.at \notin {"permit", "refuse", "refused"}
    PROVE  /\ server \in {None, pending.previous}
           /\ op.at \notin Starting
<1>1. op \in Ops /\ pending = MarkerOf /\ MarkerOf.previous = op.previous
    BY MarkerTyped DEF DeployInv, TypeOK, Control
<1>2. op.at \in Stages
    BY <1>1 DEF Ops, NoOp
<1>3. op.at \notin Unmarked /\ op.at \notin Starting
    BY DEF DeployInv, Control
<1>4. CASE op.at \in Replacing
    BY <1>3, <1>4 DEF DeployInv, Control
<1>5. CASE op.at = "quiesce"
  <2>1. ~Monitored
    BY <1>5 DEF DeployInv, Control
  <2>2. ~op.back
    BY <2>1 DEF Monitored
  <2>3. clean /\ head = op.previous
    BY <1>5, <2>1, <2>2 DEF DeployInv, Control, Monitored, Stopping
  <2> QED BY <1>1, <1>3, <2>3 DEF DeployInv, Control, Built
<1> QED BY <1>2, <1>3, <1>4, <1>5 DEF Stages, Unmarked, Replacing, Starting

\* The steps that go on with the deployment, and those that may end it.
Continuing ==
    \/ Sweep \/ Save \/ Mark \/ Permit \/ PermitFails \/ Quiesce \/ QuiesceFails
    \/ Revoke \/ RevokeFails \/ Refuse \/ Preserve \/ CheckOut \/ RemoveVenv
    \/ RestoreVenv \/ Authorize \/ Install \/ Start \/ Verify \/ Record \/ Unmark \/ Finish

Endings ==
    \/ SaveFails \/ MarkFails \/ Withdraw \/ LeaveOnline \/ PreserveFails
    \/ CheckoutFails \/ RestoreFails \/ InstallationFails \/ RecordFails
    \/ UnmarkFails \/ FinishFails \/ Drop \/ Kill \/ Interrupt

LEMMA Continued ==
    ASSUME DeployInv, Continuing PROVE op # NoOp /\ op' # NoOp
<1>1. op # NoOp /\ op \in Ops
  <2>1. op.at # "idle"
    BY DEF Continuing, At, CheckOut, Checkout,
       Sweep, Save, Mark, Permit, PermitFails, Quiesce, QuiesceFails, Revoke,
       RevokeFails, Refuse, Preserve, RemoveVenv, RestoreVenv, Authorize, Install,
       Start, Verify, Record, Unmark, Finish
  <2> QED BY <2>1 DEF NoOp, DeployInv, TypeOK
<1>2. CASE op' = op
    BY <1>1, <1>2
<1>3. CASE \E s \in Stages : GoTo(s)
    BY <1>1, <1>3, Moves
<1>4. op' = op \/ \E s \in Stages : GoTo(s)
  <2>1. GoTo("save") \/ GoTo("mark") \/ GoTo("permit") \/ GoTo("quiesce") \/ GoTo("revoke")
        \/ GoTo("refuse") \/ GoTo("refused") \/ GoTo("preserve") \/ GoTo("checkout")
        \/ GoTo("switch") \/ GoTo("remove") \/ GoTo("restore") \/ GoTo("authorize")
        \/ GoTo("install") \/ GoTo("start") \/ GoTo("verify") \/ GoTo("record")
        \/ GoTo("unmark") \/ GoTo("finish") \/ GoTo("drop") \/ op' = op
    BY DEF Continuing, CheckOut, Checkout,
       Sweep, Save, Mark, Permit, PermitFails, Quiesce, QuiesceFails, Revoke,
       RevokeFails, Refuse, Preserve, RemoveVenv, RestoreVenv, Authorize, Install,
       Start, Verify, Record, Unmark, Finish
  <2> QED BY <2>1 DEF Stages
<1> QED BY <1>2, <1>3, <1>4

LEMMA Ended ==
    ASSUME DeployInv, Endings
    PROVE  /\ op # NoOp
           /\ op.at # "start" => server' \in {server, None}
           /\ pending' = pending \/ pending' = None \/ MarkFails
<1>1. op # NoOp
  <2>1. op # NoOp \/ op.at # "idle"
    BY DEF Endings, At, Kill, Interrupt, SaveFails, MarkFails, Withdraw, LeaveOnline,
       PreserveFails, CheckoutFails, RestoreFails, InstallationFails, RecordFails,
       UnmarkFails, FinishFails, Drop
  <2> QED BY <2>1 DEF NoOp
<1>2. op.at # "start" => server' \in {server, None}
    BY DEF Endings, At, Kill, Interrupt, SaveFails, MarkFails, Withdraw, LeaveOnline,
       PreserveFails, CheckoutFails, RestoreFails, InstallationFails, RecordFails,
       UnmarkFails, FinishFails, Drop
<1>3. pending' = pending \/ pending' = None \/ MarkFails
    BY DEF Endings, Kill, Interrupt, SaveFails, Withdraw, LeaveOnline,
       PreserveFails, CheckoutFails, RestoreFails, InstallationFails, RecordFails,
       UnmarkFails, FinishFails, Drop, marker
<1> QED BY <1>1, <1>2, <1>3

\* For every set of commits: a candidate is left to itself only by a refusal
\* to stop it, or by a guardian whose stop failed.
THEOREM CandidatesGuarded == Spec => CandidateGuarded
<1> DEFINE Excused == guardian \/ op.at \in {"permit", "refuse", "refused"}
<1>1. DeployInv /\ [Next]_vars => (Unattended' /\ ~Unattended => Excused)
  <2> SUFFICES ASSUME DeployInv, [Next]_vars, Unattended', ~Unattended, ~Excused
               PROVE  FALSE
    OBVIOUS
  <2> USE CommitAssumption
  <2>0. op' = NoOp /\ pending' # None /\ server' # None /\ server' # pending'.previous /\ ~guardian'
    BY DEF Unattended
  <2>1. CASE UNCHANGED vars
    BY <2>1 DEF vars, disk, marker, service, Unattended
  <2>2. CASE op = NoOp
    <3>1. op.at = "idle" /\ ~auth
      BY <2>2 DEF NoOp, DeployInv, Control
    <3>2. CASE \E t \in Commit : Deploy(t)
      BY <2>0, <3>2 DEF Deploy, NoOp
    <3>3. CASE StartStack \/ StopServer \/ PowerLoss \/ GuardianStops \/ GuardianEnds
      BY <2>0, <3>1, <3>3, <2>2
         DEF StartStack, MayStart, StopServer, PowerLoss, GuardianStops, GuardianEnds, marker, Unattended
    <3> QED BY <2>1, <2>2, <3>1, <3>2, <3>3, Ended, Continued DEF Next, Endings, Continuing, Kill, At, Interrupt
  <2>3. CASE op # NoOp
    <3>1. ~Continuing
      BY <2>0, <2>3, Continued
    <3>2. CASE Endings
      <4>1. CASE pending # None /\ pending' = pending
        <5>1. server \in {None, pending.previous} /\ op.at \notin Starting
          BY <2>3, <4>1, NoCandidate
        <5>2. op.at # "start"
          BY <5>1 DEF Starting
        <5>3. server' \in {server, None}
          BY <2>3, <3>2, <5>2, Ended
        <5> QED BY <2>0, <4>1, <5>1, <5>3
      <4>2. CASE MarkFails
        <5>1. op.at = "mark" /\ op \in Ops
          BY <4>2 DEF MarkFails, At, DeployInv, TypeOK
        <5>2. clean /\ head = op.previous /\ server' = server
          BY <4>2, <5>1 DEF MarkFails, DeployInv, Control
        <5>3. pending'.previous = op.previous
          BY <2>0, <2>3, <4>2, <5>1, MarkerTyped DEF MarkFails
        <5> QED BY <2>0, <5>2, <5>3 DEF DeployInv, Control, Built
      <4> QED BY <2>0, <2>3, <3>2, <4>1, <4>2, Ended
    <3>3. CASE StopServer \/ PowerLoss \/ GuardianStops \/ GuardianEnds
      BY <2>0, <3>3 DEF StopServer, PowerLoss, GuardianStops, GuardianEnds
    <3>4. ~StartStack /\ ~\E t \in Commit : Deploy(t)
      BY <2>3 DEF StartStack, Deploy
    <3> QED BY <2>1, <3>1, <3>2, <3>3, <3>4 DEF Next, Endings, Continuing
  <2> QED BY <2>2, <2>3
<1> QED BY <1>1, DeploymentInvariance, PTL DEF Spec, CandidateGuarded
=============================================================================
