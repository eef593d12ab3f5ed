--------------------- MODULE GameUpdaterSessionProofs ---------------------
(***************************************************************************)
(* Proofs about the game container next to the update transaction: who may *)
(* hold the lock beside a session, what a server is launched with, that no *)
(* older build opens the world and that a newer one finds it archived, and *)
(* that GameUpdater implements ReleaseSelection.  All but the downgrade    *)
(* are for a deployment in which no update is executed inside the game     *)
(* container.                                                              *)
(***************************************************************************)
EXTENDS GameUpdaterProofs, GameUpdaterRefinement

-----------------------------------------------------------------------------
(* The inductive invariant *)

\* Who may hold the lock while the container or the operator is where it is,
\* when no update is executed in the game container.
LockOwner ==
    /\ txn.by # "exec"
    /\ txn.by = "session" => sess.pc = "boot"
    /\ txn.by = "run" => op = "quiesced"
    /\ op = "quiesced" => sess.pc = "down"

\* A state past the world boundary has the boundary on record.
OpenedOnRecord ==
    upd.state \in {"starting-candidate", "runtime-ready", "failed-after-world-open"} =>
      upd.opened

\* Phases of the entrypoint after it read the selection, and after it recorded
\* the world boundary.
Marked == {"marked", "up", "ready", "draining", "stopping", "exited"}
Chosen == {"selected"} \cup Marked

SelectionStands ==
    /\ sess.pc \in {"prepared"} \cup Chosen => active # None
    /\ sess.pc \in Chosen => sess.selected = active
    /\ sess.server # None => sess.server = sess.selected /\ sess.pc \in Marked
    /\ sess.pc \in Marked =>
          upd.state # "pending-readiness" /\ (upd.state \in Held => upd.opened)

SInv ==
    /\ world \in MaybeBuild
    /\ LockOwner
    /\ OpenedOnRecord
    /\ SelectionStands

\* What a step of the command that holds the lock does to the session.
CommandStep ==
    /\ ~LockFree
    /\ UNCHANGED <<op, world>>
    /\ \/ UNCHANGED sess /\ txn'.by = txn.by
       \/ Fail
       \/ Succeed /\ active' # None

-----------------------------------------------------------------------------
(* The command that holds the lock *)

\* Whoever is at a step holds the lock.
LEMMA AtStepHolds ==
    IInv /\ txn.pc \in Steps => ~LockFree
  BY DEF IInv, Consistent, IdleWhenFree, LockFree, NoTxn, Steps

\* Going on to another step keeps the lock.
LEMMA GoToKeeps ==
    ASSUME IInv, NEW step, GoTo(step)
    PROVE  txn'.by = txn.by
  BY DEF IInv, TransactionTypeOK, Transaction, GoTo

\* No record that a command writes is one of a candidate past the world boundary.
LEMMA EarlyRecords ==
    ASSUME IInv
    PROVE  \A s \in {UpToDateRecord, DownloadingRecord, ActivatingRecord,
                     PendingRecord, FailureRecord,
                     NoLongerInterrupted, Observation(upd)}
                    \cup {PromotingRecord(r) : r \in Release} :
              s.state \notin {"starting-candidate", "runtime-ready",
                             "failed-after-world-open"}
  <1>1. upd \in UpdateState /\ txn.base \in UpdateState
    BY DEF IInv, TransactionTypeOK, Transaction
  <1>2. /\ UpToDateRecord.state = "current"
        /\ DownloadingRecord.state = "downloading-candidate"
        /\ ActivatingRecord.state = "activating"
        /\ PendingRecord.state = "pending-readiness"
        /\ FailureRecord.state = "failed-before-world-open"
        /\ NoLongerInterrupted.state = "failed-before-world-open"
        /\ Observation(upd).state = "current"
    BY <1>1 DEF UpdateState, UpToDateRecord, DownloadingRecord, ActivatingRecord, PendingRecord,
       FailureRecord, PreWorldFailure, NoLongerInterrupted, Observation
  <1>3. \A r \in Release : PromotingRecord(r).state = "promoting-candidate"
    BY <1>1 DEF UpdateState, PromotingRecord
  <1> QED BY <1>2, <1>3

\* The steps of the recovery of an interrupted transaction are steps of a command, and
\* none forgets a world boundary.
LEMMA RecoveryCommands ==
    ASSUME IInv, Recovery
    PROVE  CommandStep /\ (OpenedOnRecord => OpenedOnRecord')
  <1>1. CASE RecoverNothing
    <2>1. CommandStep
      BY <1>1, AtStepHolds, GoToKeeps DEF RecoverNothing, At, Steps, durable, CommandStep
    <2>2. OpenedOnRecord => OpenedOnRecord'
      BY <1>1 DEF RecoverNothing, OpenedOnRecord, durable
    <2> QED BY <2>1, <2>2
  <1>2. CASE RecoverClean
    <2>1. CommandStep
      BY <1>2, AtStepHolds, GoToKeeps DEF RecoverClean, At, Steps, CommandStep
    <2>2. OpenedOnRecord => OpenedOnRecord'
      BY <1>2 DEF RecoverClean, OpenedOnRecord
    <2> QED BY <2>1, <2>2
  <1>3. CASE RecoverWrite
    <2>1. CommandStep
      BY <1>3, AtStepHolds, GoToKeeps DEF RecoverWrite, At, Steps, CommandStep
    <2>2. OpenedOnRecord => OpenedOnRecord'
      BY <1>3, EarlyRecords DEF RecoverWrite, OpenedOnRecord
    <2> QED BY <2>1, <2>2
  <1>4. CASE RecoverActivated
    <2>1. CommandStep
      BY <1>4, AtStepHolds, GoToKeeps DEF RecoverActivated, At, Steps, CommandStep
    <2>2. OpenedOnRecord => OpenedOnRecord'
      BY <1>4, EarlyRecords DEF RecoverActivated, OpenedOnRecord
    <2> QED BY <2>1, <2>2
  <1> QED
    BY <1>1, <1>2, <1>3, <1>4 DEF Recovery

\* The steps of prepare_start and explicit_update are steps of a command, and
\* none forgets a world boundary.
LEMMA DecisionCommands ==
    ASSUME IInv, Decision
    PROVE  CommandStep /\ (OpenedOnRecord => OpenedOnRecord')
  <1>1. CASE ResumeCandidate
    <2>1. CommandStep
      BY <1>1, AtStepHolds DEF ResumeCandidate, At, Steps, durable, CommandStep
    <2>2. OpenedOnRecord => OpenedOnRecord'
      BY <1>1 DEF ResumeCandidate, OpenedOnRecord, durable
    <2> QED BY <2>1, <2>2
  <1>2. CASE SkipCheck
    <2>1. CommandStep
      BY <1>2, AtStepHolds DEF SkipCheck, At, Steps, CommandStep
    <2>2. OpenedOnRecord => OpenedOnRecord'
      BY <1>2 DEF SkipCheck, OpenedOnRecord, IInv, TransactionTypeOK, Transaction,
         UpdateState, Interrupted, Observation
    <2> QED BY <2>1, <2>2
  <1>3. CASE DecideCheck
    <2>1. CommandStep
      BY <1>3, AtStepHolds DEF DecideCheck, At, Steps, durable, IInv, TransactionTypeOK,
         Transaction, CommandStep
    <2>2. OpenedOnRecord => OpenedOnRecord'
      BY <1>3 DEF DecideCheck, OpenedOnRecord, durable
    <2> QED BY <2>1, <2>2
  <1>4. CASE UpdateRefused
    <2>1. CommandStep
      BY <1>4, AtStepHolds DEF UpdateRefused, At, Steps, durable, CommandStep
    <2>2. OpenedOnRecord => OpenedOnRecord'
      BY <1>4 DEF UpdateRefused, OpenedOnRecord, durable
    <2> QED BY <2>1, <2>2
  <1> QED
    BY <1>1, <1>2, <1>3, <1>4 DEF Decision

\* The steps of _check_and_update are steps of a command, and
\* none forgets a world boundary.
LEMMA CheckCommands ==
    ASSUME IInv, Check
    PROVE  CommandStep /\ (OpenedOnRecord => OpenedOnRecord')
  <1>1. CASE NoUpdate
    <2>1. CommandStep
      BY <1>1, AtStepHolds, BuildAssumption DEF NoUpdate, At, Steps, CurrentBuild, BuildOf,
         IInv, TransactionTypeOK, CommandStep
    <2>2. OpenedOnRecord => OpenedOnRecord'
      BY <1>1, EarlyRecords DEF NoUpdate, OpenedOnRecord
    <2> QED BY <2>1, <2>2
  <1>2. CASE DowngradeRefused
    <2>1. CommandStep
      BY <1>2, AtStepHolds DEF DowngradeRefused, At, Steps, durable, IInv,
         TransactionTypeOK, Transaction, CommandStep
    <2>2. OpenedOnRecord => OpenedOnRecord'
      BY <1>2 DEF DowngradeRefused, OpenedOnRecord, durable
    <2> QED BY <2>1, <2>2
  <1>3. CASE BlockedRefused
    <2>1. CommandStep
      BY <1>3, AtStepHolds, GoToKeeps DEF BlockedRefused, At, Steps, durable, CommandStep
    <2>2. OpenedOnRecord => OpenedOnRecord'
      BY <1>3 DEF BlockedRefused, OpenedOnRecord, durable
    <2> QED BY <2>1, <2>2
  <1>4. CASE NewBuildFound
    <2>1. CommandStep
      BY <1>4, AtStepHolds DEF NewBuildFound, At, Steps, durable, IInv, TransactionTypeOK,
         Transaction, CommandStep
    <2>2. OpenedOnRecord => OpenedOnRecord'
      BY <1>4 DEF NewBuildFound, OpenedOnRecord, durable
    <2> QED BY <2>1, <2>2
  <1> QED
    BY <1>1, <1>2, <1>3, <1>4 DEF Check

\* The steps of the staging of a candidate are steps of a command, and
\* none forgets a world boundary.
LEMMA StagingCommands ==
    ASSUME IInv, Staging
    PROVE  CommandStep /\ (OpenedOnRecord => OpenedOnRecord')
  <1>1. CASE StageRefused
    <2>1. CommandStep
      BY <1>1, AtStepHolds, GoToKeeps DEF StageRefused, At, Steps, durable, CommandStep
    <2>2. OpenedOnRecord => OpenedOnRecord'
      BY <1>1 DEF StageRefused, OpenedOnRecord, durable
    <2> QED BY <2>1, <2>2
  <1>2. CASE DiscardPrevious
    <2>1. CommandStep
      BY <1>2, AtStepHolds, GoToKeeps DEF DiscardPrevious, At, Steps, CommandStep
    <2>2. OpenedOnRecord => OpenedOnRecord'
      BY <1>2 DEF DiscardPrevious, OpenedOnRecord
    <2> QED BY <2>1, <2>2
  <1>3. CASE UnlinkPrevious
    <2>1. CommandStep
      BY <1>3, AtStepHolds, GoToKeeps DEF UnlinkPrevious, At, Steps, CommandStep
    <2>2. OpenedOnRecord => OpenedOnRecord'
      BY <1>3 DEF UnlinkPrevious, OpenedOnRecord
    <2> QED BY <2>1, <2>2
  <1>4. CASE StageFirst
    <2>1. CommandStep
      BY <1>4, AtStepHolds, GoToKeeps DEF StageFirst, At, Steps, durable, CommandStep
    <2>2. OpenedOnRecord => OpenedOnRecord'
      BY <1>4 DEF StageFirst, OpenedOnRecord, durable
    <2> QED BY <2>1, <2>2
  <1>5. CASE MakeCandidate
    <2>1. CommandStep
      BY <1>5, AtStepHolds DEF MakeCandidate, At, Steps, IInv, TransactionTypeOK,
         Transaction, CommandStep
    <2>2. OpenedOnRecord => OpenedOnRecord'
      BY <1>5 DEF MakeCandidate, OpenedOnRecord
    <2> QED BY <2>1, <2>2
  <1>6. CASE WriteDownloading
    <2>1. CommandStep
      BY <1>6, AtStepHolds, GoToKeeps DEF WriteDownloading, At, Steps, CommandStep
    <2>2. OpenedOnRecord => OpenedOnRecord'
      BY <1>6, EarlyRecords DEF WriteDownloading, OpenedOnRecord
    <2> QED BY <2>1, <2>2
  <1>7. CASE Install
    <2>1. CommandStep
      BY <1>7, AtStepHolds, GoToKeeps DEF Install, At, Steps, CommandStep
    <2>2. OpenedOnRecord => OpenedOnRecord'
      BY <1>7 DEF Install, OpenedOnRecord
    <2> QED BY <2>1, <2>2
  <1>8. CASE Validate
    <2>1. CommandStep
      BY <1>8, AtStepHolds, GoToKeeps DEF Validate, At, Steps, durable, CommandStep
    <2>2. OpenedOnRecord => OpenedOnRecord'
      BY <1>8 DEF Validate, OpenedOnRecord, durable
    <2> QED BY <2>1, <2>2
  <1>9. CASE ValidateRejects
    <2>1. CommandStep
      BY <1>9, AtStepHolds DEF ValidateRejects, At, Steps, durable, IInv, TransactionTypeOK,
         Transaction, CommandStep
    <2>2. OpenedOnRecord => OpenedOnRecord'
      BY <1>9 DEF ValidateRejects, OpenedOnRecord, durable
    <2> QED BY <2>1, <2>2
  <1>10. CASE Backup
    <2>1. CommandStep
      BY <1>10, AtStepHolds, GoToKeeps DEF Backup, At, Steps, durable, CommandStep
    <2>2. OpenedOnRecord => OpenedOnRecord'
      BY <1>10 DEF Backup, OpenedOnRecord, durable
    <2> QED BY <2>1, <2>2
  <1> QED
    BY <1>1, <1>2, <1>3, <1>4, <1>5, <1>6, <1>7, <1>8, <1>9, <1>10 DEF Staging

\* The steps of its promotion and activation are steps of a command, and
\* none forgets a world boundary.
LEMMA ActivationCommands ==
    ASSUME IInv, Activation
    PROVE  CommandStep /\ (OpenedOnRecord => OpenedOnRecord')
  <1>1. CASE WritePromoting
    <2>1. CommandStep
      BY <1>1, AtStepHolds DEF WritePromoting, At, Steps, IInv, TransactionTypeOK,
         Transaction, CommandStep
    <2>2. OpenedOnRecord => OpenedOnRecord'
      BY <1>1, EarlyRecords DEF WritePromoting, OpenedOnRecord
    <2> QED BY <2>1, <2>2
  <1>2. CASE Rename
    <2>1. CommandStep
      BY <1>2, AtStepHolds, GoToKeeps DEF Rename, At, Steps, CommandStep
    <2>2. OpenedOnRecord => OpenedOnRecord'
      BY <1>2 DEF Rename, OpenedOnRecord
    <2> QED BY <2>1, <2>2
  <1>3. CASE WriteActivating
    <2>1. CommandStep
      BY <1>3, AtStepHolds, GoToKeeps DEF WriteActivating, At, Steps, CommandStep
    <2>2. OpenedOnRecord => OpenedOnRecord'
      BY <1>3, EarlyRecords DEF WriteActivating, OpenedOnRecord
    <2> QED BY <2>1, <2>2
  <1>4. CASE WritePrevious
    <2>1. CommandStep
      BY <1>4, AtStepHolds, GoToKeeps DEF WritePrevious, At, Steps, CommandStep
    <2>2. OpenedOnRecord => OpenedOnRecord'
      BY <1>4 DEF WritePrevious, OpenedOnRecord
    <2> QED BY <2>1, <2>2
  <1>5. CASE WriteActive
    <2>1. CommandStep
      BY <1>5, AtStepHolds, GoToKeeps DEF WriteActive, At, Steps, CommandStep
    <2>2. OpenedOnRecord => OpenedOnRecord'
      BY <1>5 DEF WriteActive, OpenedOnRecord
    <2> QED BY <2>1, <2>2
  <1>6. CASE WritePending
    <2>1. CommandStep
      BY <1>6, AtStepHolds DEF WritePending, At, Steps, IInv, Consistent, RecordAtStep,
         ActivationTookEffect, CommandStep
    <2>2. OpenedOnRecord => OpenedOnRecord'
      BY <1>6, EarlyRecords DEF WritePending, OpenedOnRecord
    <2> QED BY <2>1, <2>2
  <1> QED
    BY <1>1, <1>2, <1>3, <1>4, <1>5, <1>6 DEF Activation

\* The steps that end a failed check are steps of a command, and
\* none forgets a world boundary.
LEMMA FailureCommands ==
    ASSUME IInv, Failure
    PROVE  CommandStep /\ (OpenedOnRecord => OpenedOnRecord')
  <1>1. CASE UndoActivation
    <2>1. CommandStep
      BY <1>1, AtStepHolds, GoToKeeps DEF UndoActivation, At, Steps, CommandStep
    <2>2. OpenedOnRecord => OpenedOnRecord'
      BY <1>1 DEF UndoActivation, OpenedOnRecord
    <2> QED BY <2>1, <2>2
  <1>2. CASE WriteUndone
    <2>1. CommandStep
      BY <1>2, AtStepHolds, GoToKeeps DEF WriteUndone, At, Steps, CommandStep
    <2>2. OpenedOnRecord => OpenedOnRecord'
      BY <1>2, EarlyRecords DEF WriteUndone, OpenedOnRecord
    <2> QED BY <2>1, <2>2
  <1>3. CASE Cleanup
    <2>1. CommandStep
      BY <1>3, AtStepHolds, GoToKeeps DEF Cleanup, At, Steps, CommandStep
    <2>2. OpenedOnRecord => OpenedOnRecord'
      BY <1>3 DEF Cleanup, OpenedOnRecord
    <2> QED BY <2>1, <2>2
  <1>4. CASE WriteFailure
    <2>1. CommandStep
      BY <1>4, AtStepHolds, GoToKeeps DEF WriteFailure, At, Steps, CommandStep
    <2>2. OpenedOnRecord => OpenedOnRecord'
      BY <1>4, EarlyRecords DEF WriteFailure, OpenedOnRecord
    <2> QED BY <2>1, <2>2
  <1>5. CASE HandlerRecovers
    <2>1. CommandStep
      BY <1>5, AtStepHolds DEF HandlerRecovers, At, Steps, CommandStep
    <2>2. OpenedOnRecord => OpenedOnRecord'
      BY <1>5, EarlyRecords DEF HandlerRecovers, OpenedOnRecord
    <2> QED BY <2>1, <2>2
  <1>6. CASE StartKnownGood
    <2>1. CommandStep
      BY <1>6, AtStepHolds DEF StartKnownGood, At, Steps, durable, CommandStep
    <2>2. OpenedOnRecord => OpenedOnRecord'
      BY <1>6 DEF StartKnownGood, OpenedOnRecord, durable
    <2> QED BY <2>1, <2>2
  <1>7. CASE RaiseFailure
    <2>1. CommandStep
      BY <1>7, AtStepHolds DEF RaiseFailure, At, Steps, durable, CommandStep
    <2>2. OpenedOnRecord => OpenedOnRecord'
      BY <1>7 DEF RaiseFailure, OpenedOnRecord, durable
    <2> QED BY <2>1, <2>2
  <1> QED
    BY <1>1, <1>2, <1>3, <1>4, <1>5, <1>6, <1>7 DEF Failure

\* Input/output errors, and a pending deployment, are steps of a command, and
\* none forgets a world boundary.
LEMMA InputOutputFaultCommands ==
    ASSUME IInv, InputOutputFault \/ DeploymentPending
    PROVE  CommandStep /\ (OpenedOnRecord => OpenedOnRecord')
  <1>1. CASE RecoverFails
    <2>1. CommandStep
      BY <1>1, AtStepHolds DEF RecoverFails, At, Steps, durable, CommandStep
    <2>2. OpenedOnRecord => OpenedOnRecord'
      BY <1>1, EarlyRecords DEF RecoverFails, OpenedOnRecord
    <2> QED BY <2>1, <2>2
  <1>2. CASE PrepareActiveFails
    <2>1. CommandStep
      BY <1>2, AtStepHolds DEF PrepareActiveFails, At, Steps, durable, CommandStep
    <2>2. OpenedOnRecord => OpenedOnRecord'
      BY <1>2, EarlyRecords DEF PrepareActiveFails, OpenedOnRecord
    <2> QED BY <2>1, <2>2
  <1>3. CASE QueryFails
    <2>1. CommandStep
      BY <1>3, AtStepHolds, GoToKeeps DEF QueryFails, At, Steps, durable, CommandStep
    <2>2. OpenedOnRecord => OpenedOnRecord'
      BY <1>3 DEF QueryFails, OpenedOnRecord, durable
    <2> QED BY <2>1, <2>2
  <1>4. CASE PreconditionFails
    <2>1. CommandStep
      BY <1>4, AtStepHolds, GoToKeeps DEF PreconditionFails, At, Steps, durable, CommandStep
    <2>2. OpenedOnRecord => OpenedOnRecord'
      BY <1>4 DEF PreconditionFails, OpenedOnRecord, durable
    <2> QED BY <2>1, <2>2
  <1>5. CASE StagingFails
    <2>1. CommandStep
      BY <1>5, AtStepHolds, GoToKeeps DEF StagingFails, At, Steps, CommandStep
    <2>2. OpenedOnRecord => OpenedOnRecord'
      BY <1>5 DEF StagingFails, OpenedOnRecord
    <2> QED BY <2>1, <2>2
  <1>6. CASE PromotionFails
    <2>1. CommandStep
      BY <1>6, AtStepHolds, GoToKeeps DEF PromotionFails, At, Steps, durable, CommandStep
    <2>2. OpenedOnRecord => OpenedOnRecord'
      BY <1>6, EarlyRecords DEF PromotionFails, OpenedOnRecord
    <2> QED BY <2>1, <2>2
  <1>7. CASE ActivationFails
    <2>1. CommandStep
      BY <1>7, AtStepHolds, GoToKeeps DEF ActivationFails, At, Steps, CommandStep
    <2>2. OpenedOnRecord => OpenedOnRecord'
      BY <1>7 DEF ActivationFails, OpenedOnRecord
    <2> QED BY <2>1, <2>2
  <1>8. CASE StateWriteFails
    <2>1. CommandStep
      BY <1>8, AtStepHolds, GoToKeeps DEF StateWriteFails, At, Steps, CommandStep
    <2>2. OpenedOnRecord => OpenedOnRecord'
      BY <1>8, EarlyRecords DEF StateWriteFails, OpenedOnRecord
    <2> QED BY <2>1, <2>2
  <1>9. CASE DeploymentPending
    <2>1. CommandStep
      BY <1>9, AtStepHolds DEF DeploymentPending, At, Steps, CommandStep
    <2>2. OpenedOnRecord => OpenedOnRecord'
      BY <1>9 DEF DeploymentPending, OpenedOnRecord, IInv, TransactionTypeOK, Transaction,
         UpdateState, Interrupted, Observation
    <2> QED BY <2>1, <2>2
  <1>10. CASE HandlerFails
    <2>1. CommandStep
      BY <1>10, AtStepHolds DEF HandlerFails, At, Steps, CommandStep
    <2>2. OpenedOnRecord => OpenedOnRecord'
      BY <1>10 DEF HandlerFails, OpenedOnRecord
    <2> QED BY <2>1, <2>2
  <1>11. CASE CleanupFails
    <2>1. CommandStep
      BY <1>11, AtStepHolds, GoToKeeps DEF CleanupFails, At, Steps, CommandStep
    <2>2. OpenedOnRecord => OpenedOnRecord'
      BY <1>11 DEF CleanupFails, OpenedOnRecord
    <2> QED BY <2>1, <2>2
  <1> QED
    BY <1>1, <1>2, <1>3, <1>4, <1>5, <1>6, <1>7, <1>8, <1>9, <1>10, <1>11
       DEF InputOutputFault

\* Every step of a command, and of a failure of one, is such a step.
LEMMA Commands ==
    ASSUME IInv, Transact \/ InputOutputFault \/ DeploymentPending
    PROVE  CommandStep /\ (OpenedOnRecord => OpenedOnRecord')
  BY RecoveryCommands, DecisionCommands, CheckCommands, StagingCommands, ActivationCommands,
     FailureCommands, InputOutputFaultCommands DEF Transact

-----------------------------------------------------------------------------
(* Each step keeps the session apart from the command *)

\* Past prepare-start nobody holds the lock, and a command runs only before it.
LEMMA Uncontended ==
    IInv /\ SInv => LockFree \/ (sess.pc \in {"down", "boot"} /\ sess.server = None)
  BY DEF IInv, TransactionTypeOK, Transaction, SInv, LockOwner, LockFree, SelectionStands,
     Marked

\* A step of a command leaves the session where it was, prepares it, or ends it.
LEMMA CommandKeepsSession ==
    ASSUME IInv, SInv, CommandStep, OpenedOnRecord'
    PROVE  SInv'
  <1> USE DEF SInv, LockOwner, SelectionStands, Chosen, Marked
  <1>1. ~LockFree /\ sess.pc \in {"down", "boot"} /\ sess.server = None
    BY Uncontended DEF CommandStep
  <1>2. world' \in MaybeBuild /\ op' = op
    BY DEF CommandStep
  <1>3. CASE UNCHANGED sess /\ txn'.by = txn.by
    BY <1>1, <1>2, <1>3
  <1>4. CASE Fail
    BY <1>1, <1>2, <1>4 DEF Fail, NoTxn, Down
  <1>5. CASE Succeed /\ active' # None
    <2>1. txn' = NoTxn
      BY <1>5 DEF Succeed
    <2>2. CASE txn.by = "session"
      <3>1. sess' = [sess EXCEPT !.pc = "prepared"] /\ sess.pc = "boot"
        BY <1>5, <2>2 DEF Succeed
      <3>2. sess'.pc = "prepared" /\ sess'.server = None /\ op # "quiesced"
        BY <1>1, <3>1 DEF IInv, TransactionTypeOK, Session
      <3> QED BY <1>2, <1>5, <2>1, <3>2 DEF NoTxn
    <2>3. CASE txn.by # "session"
      BY <1>1, <1>2, <1>5, <2>1, <2>3 DEF Succeed, NoTxn
    <2> QED BY <2>2, <2>3
  <1> QED BY <1>3, <1>4, <1>5 DEF CommandStep

\* The end of the container ends its session and its command.
LEMMA EndKeepsSession ==
    ASSUME IInv, SInv, ContainerEnds, UNCHANGED <<op, world>>, OpenedOnRecord'
    PROVE  SInv'
  BY DEF SInv, LockOwner, SelectionStands, Chosen, Marked, ContainerEnds, NoContainerTxn,
     NoTxn, Down

\* fail_readiness: a candidate fails for good only with the boundary on record.
LEMMA FailureOnRecord ==
    ASSUME IInv, OpenedOnRecord, RecordReadinessFailure
    PROVE  /\ OpenedOnRecord'
           /\ upd'.state # "pending-readiness" \/ upd' = upd
           /\ upd'.opened = upd.opened
           /\ upd'.state \in Held => upd.state \in Held
  BY DEF OpenedOnRecord, RecordReadinessFailure, CrossedAsRecorded, FailedRecord,
     InReadiness, Held, IInv, TransactionTypeOK, UpdateState

\* mark_runtime_ready: so does it become ready.
LEMMA ReadyOnRecord ==
    ASSUME IInv, OpenedOnRecord, InReadiness => CrossedAsRecorded, upd' \in {upd, ReadyRecord}
    PROVE  /\ OpenedOnRecord'
           /\ upd'.state # "pending-readiness" \/ upd' = upd
           /\ upd'.state \in Held => upd.state \in Held /\ upd'.opened = upd.opened
  <1>1. upd \in UpdateState
    BY DEF IInv, TransactionTypeOK
  <1>2. CASE upd' = upd
    BY <1>2 DEF OpenedOnRecord
  <1>3. CASE InReadiness /\ upd' = ReadyRecord /\ Environment = "local"
    <2>1. upd'.state = "current"
      BY <1>1, <1>3 DEF ReadyRecord, Accepted, UpdateState
    <2> QED BY <2>1 DEF OpenedOnRecord, Held
  <1>4. CASE InReadiness /\ upd' = ReadyRecord /\ Environment # "local"
    <2>1. upd' = [upd EXCEPT !.state = "runtime-ready"] /\ upd.opened
      BY <1>4 DEF ReadyRecord, CrossedAsRecorded
    <2>2. upd'.state = "runtime-ready" /\ upd'.opened = upd.opened
      BY <1>1, <2>1 DEF UpdateState
    <2> QED BY <1>4, <2>1, <2>2 DEF OpenedOnRecord, InReadiness, Held
  <1> QED BY <1>2, <1>3, <1>4 DEF ReadyRecord

\* The end of the readiness poller leaves the selection and the server alone.
LEMMA PollerKeepsSession ==
    ASSUME IInv, SInv, Polling, NEW well \in BOOLEAN, PollerEnded(well),
           UNCHANGED <<active, txn, op, world>>, OpenedOnRecord',
           upd'.state # "pending-readiness" \/ upd' = upd,
           upd'.state \in Held => upd.state \in Held /\ upd'.opened = upd.opened
    PROVE  SInv'
  <1> USE DEF SInv, LockOwner, SelectionStands, Chosen, Marked
  <1>1. PICK pc \in {"exited", "stopping", "ready"} : sess' = [sess EXCEPT !.pc = pc]
    BY DEF PollerEnded
  <1>2. /\ sess'.pc \in {"exited", "stopping", "ready"}
        /\ sess'.server = sess.server /\ sess'.selected = sess.selected
    BY <1>1 DEF IInv, TransactionTypeOK, Session
  <1>3. sess.pc \in Marked
    BY DEF Polling
  <1> QED BY <1>2, <1>3

\* The steps of the entrypoint keep the selection it read.
LEMMA EntrypointKeepsSession ==
    ASSUME IInv, SInv, Entrypoint
    PROVE  SInv'
  <1> USE DEF SInv, LockOwner, SelectionStands, Chosen, Marked
  <1>0. sess \in Session /\ upd \in UpdateState
    BY DEF IInv, TransactionTypeOK
  <1>1. CASE PrepareStart
    BY <1>1 DEF PrepareStart, Begin, NoTxn, OpenedOnRecord, durable
  <1>2. CASE LockContended
    BY <1>2 DEF LockContended
  <1>3. CASE SelectRelease
    BY <1>0, <1>3 DEF SelectRelease, OpenedOnRecord, Session, durable
  <1>4. CASE MarkWorldOpened
    <2>1. /\ active' = active /\ txn' = txn /\ op' = op /\ world' = world
          /\ sess.pc = "selected" /\ LockFree
      BY <1>4 DEF MarkWorldOpened
    <2>2. CASE AwaitsWorld /\ CandidateActive
      <3>1. /\ upd'.state = "starting-candidate" /\ upd'.opened = TRUE
            /\ sess' = [sess EXCEPT !.pc = "marked"]
        BY <1>0, <1>4, <2>2 DEF MarkWorldOpened, OpenedRecord, UpdateState
      <3> QED BY <1>0, <2>1, <3>1 DEF OpenedOnRecord, Session, LockFree
    <2>3. CASE AwaitsWorld /\ ~CandidateActive
      <3>1. upd' = upd /\ sess' = Down
        BY <1>4, <2>3 DEF MarkWorldOpened
      <3> QED BY <2>1, <3>1 DEF OpenedOnRecord, Down, LockFree
    <2>4. CASE ~AwaitsWorld
      <3>1. upd' = upd /\ sess' = [sess EXCEPT !.pc = "marked"]
        BY <1>4, <2>4 DEF MarkWorldOpened
      <3>2. upd.state # "pending-readiness" /\ (upd.state \in Held => upd.opened)
        BY <2>4 DEF AwaitsWorld, OpenedOnRecord, Held
      <3> QED BY <1>0, <2>1, <3>1, <3>2 DEF OpenedOnRecord, Session, LockFree
    <2> QED BY <2>2, <2>3, <2>4
  <1>5. CASE Launch
    <2>1. world' \in MaybeBuild
      BY <1>5 DEF Launch, IInv, Consistent, ActiveLaunchable, Launchable, MaybeBuild
    <2> QED BY <1>0, <1>5, <2>1 DEF Launch, OpenedOnRecord, Session, durable
  <1>6. CASE RuntimeReady
    <2>1. Polling /\ LockFree /\ UNCHANGED <<active, txn, op, world>>
      BY <1>6 DEF RuntimeReady
    <2>2. CASE InReadiness => CrossedAsRecorded
      <3>1. upd' = ReadyRecord /\ PollerEnded(TRUE)
        BY <1>6, <2>2 DEF RuntimeReady
      <3> QED BY <2>1, <2>2, <3>1, PollerKeepsSession, ReadyOnRecord
    <2>3. CASE ~(InReadiness => CrossedAsRecorded)
      <3>1. upd' = upd /\ PollerEnded(FALSE)
        BY <1>6, <2>3 DEF RuntimeReady
      <3> QED BY <2>1, <3>1, PollerKeepsSession DEF OpenedOnRecord
    <2> QED BY <2>2, <2>3
  <1>7. CASE ReadinessContended
    BY <1>7, PollerKeepsSession DEF ReadinessContended, OpenedOnRecord, durable
  <1>8. CASE RecordExit
    <2>1. OpenedOnRecord'
      BY <1>8, FailureOnRecord DEF RecordExit, OpenedOnRecord
    <2> QED BY <1>8, <2>1, EndKeepsSession DEF RecordExit
  <1>9. CASE EntrypointReturns
    <2>1. OpenedOnRecord'
      BY <1>9 DEF EntrypointReturns, OpenedOnRecord
    <2> QED BY <1>9, <2>1, EndKeepsSession DEF EntrypointReturns
  <1> QED
    BY <1>1, <1>2, <1>3, <1>4, <1>5, <1>6, <1>7, <1>8, <1>9 DEF Entrypoint

\* So do the operator's, when no update is executed in the game container.
LEMMA OperatorKeepsSession ==
    ASSUME ~ExecUpdate, IInv, SInv, Operator
    PROVE  SInv'
  <1> USE DEF SInv, LockOwner, SelectionStands, Chosen, Marked
  <1>1. CASE Quiesce
    BY <1>1 DEF Quiesce, OpenedOnRecord, durable
  <1>2. CASE ExplicitUpdate
    BY <1>2 DEF ExplicitUpdate, Begin, NoTxn, OpenedOnRecord, durable
  <1>3. CASE Resume
    BY <1>3 DEF Resume, LockFree, OpenedOnRecord, durable
  <1>4. CASE Accept
    <2>1. upd'.state = "current" /\ upd'.opened = TRUE
      BY <1>4 DEF Accept, Accepted, IInv, TransactionTypeOK, UpdateState
    <2> QED BY <1>4, <2>1 DEF Accept, OpenedOnRecord, Held
  <1> QED BY <1>1, <1>2, <1>3, <1>4 DEF Operator

\* The poller's failures, kills, Steam and the loss of the host keep it too.
LEMMA EnvironsKeepsSession ==
    ASSUME IInv, SInv, Environs, ~DeploymentPending
    PROVE  SInv'
  <1> USE DEF SInv, LockOwner, SelectionStands, Chosen, Marked
  <1>1. CASE ReadinessFails
    BY <1>1, PollerKeepsSession, FailureOnRecord DEF ReadinessFails, OpenedOnRecord
  <1>2. CASE KillContainer
    <2>1. OpenedOnRecord'
      BY <1>2 DEF KillContainer, OpenedOnRecord
    <2> QED BY <1>2, <2>1, EndKeepsSession DEF KillContainer
  <1>3. CASE KillUpdate
    BY <1>3 DEF KillUpdate, NoTxn, OpenedOnRecord
  <1>4. CASE Publish
    BY <1>4 DEF Publish, OpenedOnRecord, durable
  <1>5. CASE ReplaceHost
    BY <1>5 DEF ReplaceHost, Uninitialized, NoTxn, Down, OpenedOnRecord
  <1>6. CASE MarkFails
    <2>1. OpenedOnRecord'
      BY <1>6 DEF MarkFails, OpenedOnRecord, OpenedRecord, IInv, TransactionTypeOK,
         UpdateState
    <2> QED BY <1>6, <2>1 DEF MarkFails, Down
  <1>7. CASE ReadyFails
    BY <1>7, PollerKeepsSession, ReadyOnRecord DEF ReadyFails, OpenedOnRecord
  <1> QED
    BY <1>1, <1>2, <1>3, <1>4, <1>5, <1>6, <1>7 DEF Environs

\* Starts, stops and exits keep it.
LEMMA OrdinaryKeepsSession ==
    ASSUME IInv, SInv, StartContainer \/ RequestStop \/ ServerExits
    PROVE  SInv'
  <1> USE DEF SInv, LockOwner, SelectionStands, Chosen, Marked
  <1>0. sess \in Session
    BY DEF IInv, TransactionTypeOK
  <1>1. CASE StartContainer
    BY <1>1 DEF StartContainer, Down, OpenedOnRecord, durable
  <1>2. CASE RequestStop
    BY <1>0, <1>2 DEF RequestStop, Session, OpenedOnRecord, durable
  <1>3. CASE ServerExits
    BY <1>0, <1>3 DEF ServerExits, Session, OpenedOnRecord, durable
  <1> QED BY <1>1, <1>2, <1>3

-----------------------------------------------------------------------------
(* The theorems *)

\* Without updates executed in the game container, a command and a started
\* server exclude each other, and the server's release stays the selected one.
THEOREM SessionInvariance ==
    ASSUME ~ExecUpdate
    PROVE  Spec => [](IInv /\ SInv)
  <1>1. Init => IInv /\ SInv
    BY InitInvariant DEF Init, SInv, LockOwner, OpenedOnRecord, SelectionStands, Chosen,
       Marked, NoTxn, Down, Uninitialized, MaybeBuild
  <1>2. IInv /\ SInv /\ [Next]_vars => SInv'
    <2> SUFFICES ASSUME IInv, SInv, [Next]_vars PROVE SInv'
      OBVIOUS
    <2>1. CASE Transact \/ InputOutputFault \/ DeploymentPending
      BY <2>1, Commands, CommandKeepsSession DEF SInv
    <2>2. CASE UNCHANGED vars
      BY <2>2 DEF vars, SInv, LockOwner, OpenedOnRecord, SelectionStands
    <2> QED
      BY <2>1, <2>2, EntrypointKeepsSession, OperatorKeepsSession, EnvironsKeepsSession,
         OrdinaryKeepsSession DEF Next
  <1>3. IInv /\ [Next]_vars => IInv'
    BY NextTypes, NextConsistent DEF IInv
  <1> QED
    BY <1>1, <1>2, <1>3, PTL DEF Spec

\* Type correctness of the whole specification.
THEOREM TypeCorrect ==
    ASSUME ~ExecUpdate
    PROVE  Spec => []TypeOK
  <1>1. IInv /\ SInv => TypeOK
    BY DEF IInv, SInv, TransactionTypeOK, TypeOK
  <1> QED
    BY <1>1, SessionInvariance, PTL

\* A running server is the selected release, with its world boundary on record.
THEOREM BoundaryOnRecord ==
    ASSUME ~ExecUpdate
    PROVE  Spec => []ServerCrossedBoundary
  <1>1. IInv /\ SInv => ServerCrossedBoundary
    BY DEF SInv, SelectionStands, Chosen, Marked, ServerCrossedBoundary
  <1> QED
    BY <1>1, SessionInvariance, PTL

\* Nothing is downloaded, promoted or activated under a running server.
THEOREM StagingApartFromServer ==
    ASSUME ~ExecUpdate
    PROVE  Spec => []NoStagingUnderServer
  <1>1. IInv /\ SInv => NoStagingUnderServer
    BY Uncontended, AtStepHolds DEF NoStagingUnderServer, Busy, Steps
  <1> QED
    BY <1>1, SessionInvariance, PTL

-----------------------------------------------------------------------------
(* The build that is selected, and the world *)

\* Steps at which a command knows the build it installs, and has not selected it yet.
Aiming ==
    {"stage", "unlink-previous", "mkdir", "write-downloading"}
      \cup Downloading \cup Promoting \cup Activating

\* Steps after the backup, up to the selection.
BackedUp == {"write-promoting"} \cup Promoting \cup Activating

\* What is installed is not older than the selection it replaces, which the record
\* names as the release to fall back to.
AimsForward ==
    /\ txn.pc \in Aiming => txn.latest \in Build /\ CurrentBuild <= txn.latest
    /\ txn.pc \in HasFinal => upd.previousRelease = active

\* The world was last opened by a build that is not newer than the selected one, and
\* a candidate is not older than the release it replaced.
NotAhead ==
    /\ world \in MaybeBuild /\ world <= CurrentBuild
    /\ Committed /\ upd.previousRelease # None =>
          /\ dir[upd.previousRelease] \in Build
          /\ dir[upd.previousRelease] <= CurrentBuild

\* A candidate that has not been tried yet replaced what the entrypoint read, which is
\* no older than what opened the world.
Overtaken ==
    /\ Committed
    /\ upd.state \in {"activating", "pending-readiness", "starting-candidate"}
    /\ upd.previousRelease # None /\ sess.selected = upd.previousRelease
    /\ world <= dir[sess.selected]

\* What the entrypoint read is still selected, or was overtaken.
ReadStands ==
    /\ sess.pc \in {"prepared", "selected", "marked"} => active # None
    /\ sess.pc \in {"selected", "marked"} => sess.selected = active \/ Overtaken

WInv == AimsForward /\ NotAhead /\ ReadStands

\* A world that an older build opened last, or that outlived the host, is archived
\* before a release is selected for it, and stays so until the server opens it.
Archived ==
    /\ active # None /\ world # 0 /\ world # CurrentBuild => archived
    /\ txn.pc \in BackedUp /\ world # 0 => archived

\* No session goes on with an activation that was interrupted.
Resolved == sess.pc \in {"prepared"} \cup Chosen => upd.state # "activating"

-----------------------------------------------------------------------------
(* What the steps of a command do to the selection *)

\* The pointer comes to select what was installed.
Selects ==
    /\ At("write-active") /\ active' = txn.final /\ txn'.pc = "write-pending"
    /\ UNCHANGED <<upd, dir, sess, world, archived>>

\* Nothing else selects or deselects a build, or touches a candidate that is selected.
KeepsSelection ==
    /\ active' = active /\ CurrentBuild' = CurrentBuild
    /\ Committed =>
          dir' = dir /\ (upd' = upd \/ (ActivationTookEffect /\ upd' = PendingRecord))
    /\ ~Committed => ~Committed'

\* A command aims at a build that is not older, names the release it replaces, and
\* archives what it may find.
CommandAims ==
    /\ txn'.pc \in Aiming =>
          \/ txn.pc \in Aiming /\ txn'.latest = txn.latest
          \/ txn'.latest \in Build /\ CurrentBuild <= txn'.latest
    /\ txn'.pc \in HasFinal =>
          \/ upd'.previousRelease = active
          \/ txn.pc \in HasFinal /\ upd'.previousRelease = upd.previousRelease
    /\ txn'.pc \in BackedUp => txn.pc \in BackedUp \/ (world # 0 => archived')
    /\ archived => archived'
    /\ world' = world

\* A start goes on only when no activation is left unresolved.
CommandResolves ==
    sess'.pc \in {"prepared"} \cup Chosen => sess' = sess \/ upd'.state # "activating"

CommandMoves == (Selects \/ KeepsSelection) /\ CommandAims /\ CommandResolves

\* The selected build is what it was if its directory is.
LEMMA CurrentKept ==
    ASSUME active' = active, active # None => dir'[active] = dir[active]
    PROVE  CurrentBuild' = CurrentBuild
  BY DEF CurrentBuild, BuildOf

\* A build is selected, or none.
LEMMA CurrentIsBuild ==
    IInv => CurrentBuild \in MaybeBuild /\ (active # None => CurrentBuild \in Build)
  BY DEF IInv, Consistent, ActiveLaunchable, Launchable, CurrentBuild, BuildOf, MaybeBuild

\* A deletion that spares the selected release leaves its directory as it is, also
\* when it fails in silence.
LEMMA RemovalSpares ==
    ASSUME IInv, NEW R, Remove(R) \/ LeaveBehind(R), active \notin R \ {None}
    PROVE  active # None => dir'[active] = dir[active]
  <1>1. CASE Remove(R)
    BY <1>1 DEF Remove, IInv, TransactionTypeOK, MaybeRelease
  <1>2. CASE LeaveBehind(R)
    BY <1>2, LeftBehind DEF IInv, TransactionTypeOK, MaybeRelease
  <1> QED BY <1>1, <1>2

\* The steps of the recovery of an interrupted transaction keep what is selected, or select.
LEMMA RecoverySelects ==
    ASSUME IInv, Recovery
    PROVE  CommandMoves
  <1> USE DEF CommandMoves
  <1>0. /\ upd \in UpdateState /\ txn \in Transaction /\ txn.base \in UpdateState
        /\ active \in MaybeRelease /\ dir \in [Release -> Content] /\ branch \in Build
        /\ sess \in Session
    BY DEF IInv, TransactionTypeOK, Transaction
  <1>1. CASE RecoverNothing
    <2>1. Selects \/ KeepsSelection
      BY <1>1, CurrentKept DEF RecoverNothing, durable, KeepsSelection, Committed,
         ActivationTookEffect
    <2>2. CommandAims
      BY <1>1 DEF RecoverNothing, CommandAims, Aiming, BackedUp, HasFinal, Downloading,
         Promoting, Activating, GoTo
    <2>3. CommandResolves
      BY <1>0, <1>1 DEF RecoverNothing, CommandResolves
    <2> QED BY <2>1, <2>2, <2>3
  <1>2. CASE RecoverClean
    <2>1. Selects \/ KeepsSelection
      <3>1. active' = active /\ (active # None => dir'[active] = dir[active])
        BY <1>2, DoomedNotActive, RemovalSpares DEF RecoverClean
      <3>2. ~Committed
        BY <1>2 DEF RecoverClean, ActivationLost, Committed, Held, Interrupted,
           ActivationTookEffect
      <3>3. ~Committed'
        BY <1>2, <3>2 DEF RecoverClean, Committed, ActivationTookEffect
      <3> QED BY <3>1, <3>2, <3>3, CurrentKept DEF KeepsSelection
    <2>2. CommandAims
      BY <1>2 DEF RecoverClean, CommandAims, Aiming, BackedUp, HasFinal, Downloading,
         Promoting, Activating, GoTo
    <2>3. CommandResolves
      BY <1>0, <1>2 DEF RecoverClean, CommandResolves
    <2> QED BY <2>1, <2>2, <2>3
  <1>3. CASE RecoverWrite
    <2>1. Selects \/ KeepsSelection
      BY <1>3, CurrentKept DEF RecoverWrite, KeepsSelection, Committed, Held, Interrupted,
         ActivationTookEffect, IInv, Consistent, RecordAtStep, NoLongerInterrupted
    <2>2. CommandAims
      BY <1>3 DEF RecoverWrite, CommandAims, Aiming, BackedUp, HasFinal, Downloading,
         Promoting, Activating, GoTo
    <2>3. CommandResolves
      BY <1>0, <1>3 DEF RecoverWrite, CommandResolves
    <2> QED BY <2>1, <2>2, <2>3
  <1>4. CASE RecoverActivated
    <2>1. Selects \/ KeepsSelection
      BY <1>4, CurrentKept DEF RecoverActivated, KeepsSelection, Committed
    <2>2. CommandAims
      BY <1>4 DEF RecoverActivated, CommandAims, Aiming, BackedUp, HasFinal, Downloading,
         Promoting, Activating, GoTo
    <2>3. CommandResolves
      BY <1>0, <1>4 DEF RecoverActivated, CommandResolves
    <2> QED BY <2>1, <2>2, <2>3
  <1> QED
    BY <1>1, <1>2, <1>3, <1>4 DEF Recovery

\* The steps of prepare_start and explicit_update keep what is selected, or select.
LEMMA DecisionSelects ==
    ASSUME IInv, Decision
    PROVE  CommandMoves
  <1> USE DEF CommandMoves
  <1>0. /\ upd \in UpdateState /\ txn \in Transaction /\ txn.base \in UpdateState
        /\ active \in MaybeRelease /\ dir \in [Release -> Content] /\ branch \in Build
        /\ sess \in Session
    BY DEF IInv, TransactionTypeOK, Transaction
  <1>1. CASE ResumeCandidate
    <2>1. Selects \/ KeepsSelection
      BY <1>1, CurrentKept DEF ResumeCandidate, durable, KeepsSelection, Committed
    <2>2. CommandAims
      BY <1>1 DEF ResumeCandidate, CommandAims, Aiming, BackedUp, HasFinal, Downloading,
         Promoting, Activating, Succeed, NoTxn
    <2>3. CommandResolves
      BY <1>1 DEF ResumeCandidate, CommandResolves, Held, durable
    <2> QED BY <2>1, <2>2, <2>3
  <1>2. CASE SkipCheck
    <2>1. Selects \/ KeepsSelection
      BY <1>2, CurrentKept DEF SkipCheck, KeepsSelection, Committed, Held,
         ActivationTookEffect, IInv, Consistent, RecordAtStep, Observation
    <2>2. CommandAims
      BY <1>2 DEF SkipCheck, CommandAims, Aiming, BackedUp, HasFinal, Downloading,
         Promoting, Activating, Succeed, NoTxn
    <2>3. CommandResolves
      BY <1>2 DEF SkipCheck, CommandResolves, Observation
    <2> QED BY <2>1, <2>2, <2>3
  <1>3. CASE DecideCheck
    <2>1. Selects \/ KeepsSelection
      BY <1>3, CurrentKept DEF DecideCheck, durable, KeepsSelection, Committed,
         ActivationTookEffect
    <2>2. CommandAims
      BY <1>3 DEF DecideCheck, CommandAims, Aiming, BackedUp, HasFinal, Downloading,
         Promoting, Activating
    <2>3. CommandResolves
      BY <1>0, <1>3 DEF DecideCheck, CommandResolves
    <2> QED BY <2>1, <2>2, <2>3
  <1>4. CASE UpdateRefused
    <2>1. Selects \/ KeepsSelection
      BY <1>4, CurrentKept DEF UpdateRefused, durable, KeepsSelection, Committed,
         ActivationTookEffect
    <2>2. CommandAims
      BY <1>4 DEF UpdateRefused, CommandAims, Aiming, BackedUp, HasFinal, Downloading,
         Promoting, Activating, Fail, NoTxn
    <2>3. CommandResolves
      BY <1>4 DEF UpdateRefused, CommandResolves, Fail
    <2> QED BY <2>1, <2>2, <2>3
  <1> QED
    BY <1>1, <1>2, <1>3, <1>4 DEF Decision

\* The steps of _check_and_update keep what is selected, or select.
LEMMA CheckSelects ==
    ASSUME IInv, Check
    PROVE  CommandMoves
  <1> USE DEF CommandMoves
  <1>0. /\ upd \in UpdateState /\ txn \in Transaction /\ txn.base \in UpdateState
        /\ active \in MaybeRelease /\ dir \in [Release -> Content] /\ branch \in Build
        /\ sess \in Session
    BY DEF IInv, TransactionTypeOK, Transaction
  <1>1. CASE NoUpdate
    <2>1. Selects \/ KeepsSelection
      BY <1>1, CurrentKept DEF NoUpdate, At, KeepsSelection, Committed, Held,
         ActivationTookEffect, IInv, Consistent, RecordAtStep, UpToDateRecord,
         CandidateStates, BeforeDownload
    <2>2. CommandAims
      BY <1>1 DEF NoUpdate, CommandAims, Aiming, BackedUp, HasFinal, Downloading,
         Promoting, Activating, Succeed, NoTxn
    <2>3. CommandResolves
      BY <1>1 DEF NoUpdate, CommandResolves, UpToDateRecord
    <2> QED BY <2>1, <2>2, <2>3
  <1>2. CASE DowngradeRefused
    <2>1. Selects \/ KeepsSelection
      BY <1>2, CurrentKept DEF DowngradeRefused, durable, KeepsSelection, Committed,
         ActivationTookEffect
    <2>2. CommandAims
      BY <1>2 DEF DowngradeRefused, CommandAims, Aiming, BackedUp, HasFinal, Downloading,
         Promoting, Activating
    <2>3. CommandResolves
      BY <1>0, <1>2 DEF DowngradeRefused, CommandResolves
    <2> QED BY <2>1, <2>2, <2>3
  <1>3. CASE BlockedRefused
    <2>1. Selects \/ KeepsSelection
      BY <1>3, CurrentKept DEF BlockedRefused, durable, KeepsSelection, Committed,
         ActivationTookEffect
    <2>2. CommandAims
      BY <1>3 DEF BlockedRefused, CommandAims, Aiming, BackedUp, HasFinal, Downloading,
         Promoting, Activating, GoTo
    <2>3. CommandResolves
      BY <1>0, <1>3 DEF BlockedRefused, CommandResolves
    <2> QED BY <2>1, <2>2, <2>3
  <1>4. CASE NewBuildFound
    <2>1. Selects \/ KeepsSelection
      BY <1>4, CurrentKept DEF NewBuildFound, durable, KeepsSelection, Committed,
         ActivationTookEffect
    <2>2. CommandAims
      <3>1. txn' = [txn EXCEPT !.pc = "stage", !.latest = branch] /\ CurrentBuild <= branch
            /\ archived' = archived /\ world' = world
        BY <1>0, <1>4, CurrentIsBuild, BuildAssumption DEF NewBuildFound, MaybeBuild
      <3>2. txn'.pc = "stage" /\ txn'.latest = branch
        BY <1>0, <3>1 DEF Transaction
      <3> QED BY <1>0, <3>1 DEF CommandAims, HasFinal, BackedUp, Promoting, Activating
    <2>3. CommandResolves
      BY <1>0, <1>4 DEF NewBuildFound, CommandResolves
    <2> QED BY <2>1, <2>2, <2>3
  <1> QED
    BY <1>1, <1>2, <1>3, <1>4 DEF Check

\* The steps of the staging of a candidate keep what is selected, or select.
LEMMA StagingSelects ==
    ASSUME IInv, Staging
    PROVE  CommandMoves
  <1> USE DEF CommandMoves
  <1>0. /\ upd \in UpdateState /\ txn \in Transaction /\ txn.base \in UpdateState
        /\ active \in MaybeRelease /\ dir \in [Release -> Content] /\ branch \in Build
        /\ sess \in Session
    BY DEF IInv, TransactionTypeOK, Transaction
  <1>1. CASE StageRefused
    <2>1. Selects \/ KeepsSelection
      BY <1>1, CurrentKept DEF StageRefused, durable, KeepsSelection, Committed,
         ActivationTookEffect
    <2>2. CommandAims
      BY <1>1 DEF StageRefused, CommandAims, At, Aiming, BackedUp, HasFinal, Promoting,
         Activating, GoTo
    <2>3. CommandResolves
      BY <1>0, <1>1 DEF StageRefused, CommandResolves
    <2> QED BY <2>1, <2>2, <2>3
  <1>2. CASE DiscardPrevious
    <2>1. Selects \/ KeepsSelection
      <3>1. active' = active /\ (active # None => dir'[active] = dir[active])
        BY <1>2, RemovalSpares DEF DiscardPrevious
      <3>2. ~Committed
        BY <1>2 DEF DiscardPrevious, Committed, ActivationTookEffect, IInv, Consistent,
           RecordAtStep, At, CandidateStates, BeforeDownload
      <3>3. ~Committed'
        BY <1>2, <3>2 DEF DiscardPrevious, Committed, ActivationTookEffect
      <3> QED BY <3>1, <3>2, <3>3, CurrentKept DEF KeepsSelection
    <2>2. CommandAims
      BY <1>2 DEF DiscardPrevious, CommandAims, At, Aiming, BackedUp, HasFinal, Promoting,
         Activating, GoTo
    <2>3. CommandResolves
      BY <1>0, <1>2 DEF DiscardPrevious, CommandResolves
    <2> QED BY <2>1, <2>2, <2>3
  <1>3. CASE UnlinkPrevious
    <2>1. Selects \/ KeepsSelection
      BY <1>3, CurrentKept DEF UnlinkPrevious, KeepsSelection, Committed,
         ActivationTookEffect
    <2>2. CommandAims
      BY <1>3 DEF UnlinkPrevious, CommandAims, At, Aiming, BackedUp, HasFinal, Promoting,
         Activating, GoTo
    <2>3. CommandResolves
      BY <1>0, <1>3 DEF UnlinkPrevious, CommandResolves
    <2> QED BY <2>1, <2>2, <2>3
  <1>4. CASE StageFirst
    <2>1. Selects \/ KeepsSelection
      BY <1>4, CurrentKept DEF StageFirst, durable, KeepsSelection, Committed,
         ActivationTookEffect
    <2>2. CommandAims
      BY <1>4 DEF StageFirst, CommandAims, At, Aiming, BackedUp, HasFinal, Promoting,
         Activating, GoTo
    <2>3. CommandResolves
      BY <1>0, <1>4 DEF StageFirst, CommandResolves
    <2> QED BY <2>1, <2>2, <2>3
  <1>5. CASE MakeCandidate
    <2>1. Selects \/ KeepsSelection
      <3>1. active' = active /\ (active # None => dir'[active] = dir[active])
        BY <1>5, FreshApart DEF MakeCandidate
      <3>2. ~Committed
        BY <1>5 DEF MakeCandidate, Committed, ActivationTookEffect, IInv, Consistent,
           RecordAtStep, At, CandidateStates, BeforeDownload
      <3>3. ~Committed'
        BY <1>5, <3>2 DEF MakeCandidate, Committed, ActivationTookEffect
      <3> QED BY <3>1, <3>2, <3>3, CurrentKept DEF KeepsSelection
    <2>2. CommandAims
      BY <1>5 DEF MakeCandidate, CommandAims, At, Aiming, BackedUp, HasFinal, Promoting,
         Activating
    <2>3. CommandResolves
      BY <1>0, <1>5 DEF MakeCandidate, CommandResolves
    <2> QED BY <2>1, <2>2, <2>3
  <1>6. CASE WriteDownloading
    <2>1. Selects \/ KeepsSelection
      BY <1>6, CurrentKept DEF WriteDownloading, At, KeepsSelection, Committed, Held,
         ActivationTookEffect, IInv, Consistent, RecordAtStep, DownloadingRecord,
         CandidateStates, BeforeDownload
    <2>2. CommandAims
      BY <1>6 DEF WriteDownloading, CommandAims, At, Aiming, BackedUp, HasFinal,
         Promoting, Activating, GoTo
    <2>3. CommandResolves
      BY <1>0, <1>6 DEF WriteDownloading, CommandResolves
    <2> QED BY <2>1, <2>2, <2>3
  <1>7. CASE Install
    <2>1. Selects \/ KeepsSelection
      <3>1. active' = active /\ (active # None => dir'[active] = dir[active])
        BY <1>7 DEF Install, IInv, Consistent, StagedApart, HasCandidate, Downloading, At
      <3>2. ~Committed
        BY <1>7 DEF Install, Committed, Held, ActivationTookEffect, IInv, Consistent,
           RecordAtStep, At, Downloading
      <3>3. ~Committed'
        BY <1>7, <3>2 DEF Install, Committed, ActivationTookEffect
      <3> QED BY <3>1, <3>2, <3>3, CurrentKept DEF KeepsSelection
    <2>2. CommandAims
      BY <1>7 DEF Install, CommandAims, At, Aiming, BackedUp, HasFinal, Downloading,
         Promoting, Activating, GoTo
    <2>3. CommandResolves
      BY <1>0, <1>7 DEF Install, CommandResolves
    <2> QED BY <2>1, <2>2, <2>3
  <1>8. CASE Validate
    <2>1. Selects \/ KeepsSelection
      BY <1>8, CurrentKept DEF Validate, durable, KeepsSelection, Committed,
         ActivationTookEffect
    <2>2. CommandAims
      BY <1>8 DEF Validate, CommandAims, At, Aiming, BackedUp, HasFinal, Downloading,
         Promoting, Activating, GoTo
    <2>3. CommandResolves
      BY <1>0, <1>8 DEF Validate, CommandResolves
    <2> QED BY <2>1, <2>2, <2>3
  <1>9. CASE ValidateRejects
    <2>1. Selects \/ KeepsSelection
      BY <1>9, CurrentKept DEF ValidateRejects, durable, KeepsSelection, Committed,
         ActivationTookEffect
    <2>2. CommandAims
      BY <1>9 DEF ValidateRejects, CommandAims, Aiming, BackedUp, HasFinal, Downloading,
         Promoting, Activating
    <2>3. CommandResolves
      BY <1>0, <1>9 DEF ValidateRejects, CommandResolves
    <2> QED BY <2>1, <2>2, <2>3
  <1>10. CASE Backup
    <2>1. Selects \/ KeepsSelection
      BY <1>10, CurrentKept DEF Backup, durable, KeepsSelection, Committed,
         ActivationTookEffect
    <2>2. CommandAims
      <3>1. txn'.pc = "write-promoting" /\ txn.pc = "backup" /\ txn'.latest = txn.latest
        BY <1>0, <1>10 DEF Backup, GoTo, At, Transaction
      <3>2. (archived => archived') /\ (world # 0 => archived') /\ world' = world
        BY <1>10 DEF Backup, NeedsBackup
      <3> QED BY <3>1, <3>2 DEF CommandAims, Aiming, HasFinal, Downloading, Promoting,
                 Activating
    <2>3. CommandResolves
      BY <1>0, <1>10 DEF Backup, CommandResolves
    <2> QED BY <2>1, <2>2, <2>3
  <1> QED
    BY <1>1, <1>2, <1>3, <1>4, <1>5, <1>6, <1>7, <1>8, <1>9, <1>10 DEF Staging

\* The steps of the promotion and the activation keep what is selected, or select.
LEMMA ActivationSelects ==
    ASSUME IInv, Activation
    PROVE  CommandMoves
  <1> USE DEF CommandMoves
  <1>0. /\ upd \in UpdateState /\ txn \in Transaction /\ txn.base \in UpdateState
        /\ active \in MaybeRelease /\ dir \in [Release -> Content] /\ branch \in Build
        /\ sess \in Session
    BY DEF IInv, TransactionTypeOK, Transaction
  <1>1. CASE WritePromoting
    <2>1. Selects \/ KeepsSelection
      BY <1>1, CurrentKept DEF WritePromoting, At, KeepsSelection, Committed, Held,
         ActivationTookEffect, IInv, Consistent, RecordAtStep, PromotingRecord,
         Downloading
    <2>2. CommandAims
      BY <1>1 DEF WritePromoting, CommandAims, At, Aiming, BackedUp, Downloading,
         PromotingRecord
    <2>3. CommandResolves
      BY <1>0, <1>1 DEF WritePromoting, CommandResolves
    <2> QED BY <2>1, <2>2, <2>3
  <1>2. CASE Rename
    <2>1. Selects \/ KeepsSelection
      <3>1. active' = active /\ (active # None => dir'[active] = dir[active])
        BY <1>0, <1>2 DEF Rename, Renamed, MaybeRelease, IInv, Consistent, StagedApart,
           HasCandidate, HasFinal, Promoting, At
      <3>2. ~Committed
        BY <1>2 DEF Rename, Committed, Held, ActivationTookEffect, IInv, Consistent,
           RecordAtStep, At, Promoting
      <3>3. ~Committed'
        BY <1>2, <3>2 DEF Rename, Committed, ActivationTookEffect
      <3> QED BY <3>1, <3>2, <3>3, CurrentKept DEF KeepsSelection
    <2>2. CommandAims
      BY <1>2 DEF Rename, CommandAims, At, Aiming, BackedUp, HasFinal, Promoting, GoTo
    <2>3. CommandResolves
      BY <1>0, <1>2 DEF Rename, CommandResolves
    <2> QED BY <2>1, <2>2, <2>3
  <1>3. CASE WriteActivating
    <2>1. Selects \/ KeepsSelection
      <3>1. active' = active /\ (active # None => dir'[active] = dir[active])
        BY <1>3 DEF WriteActivating
      <3>2. ~Committed
        BY <1>3 DEF WriteActivating, Committed, Held, ActivationTookEffect, IInv,
           Consistent, RecordAtStep, At, Promoting
      <3>3. ~Committed'
        BY <1>3 DEF WriteActivating, Committed, Held, Interrupted, ActivationTookEffect,
           IInv, Consistent, RecordAtStep, At, Promoting, ActivatingRecord, StagedApart
      <3> QED BY <3>1, <3>2, <3>3, CurrentKept DEF KeepsSelection
    <2>2. CommandAims
      BY <1>3 DEF WriteActivating, CommandAims, At, Aiming, BackedUp, HasFinal, Promoting,
         GoTo, ActivatingRecord
    <2>3. CommandResolves
      BY <1>0, <1>3 DEF WriteActivating, CommandResolves
    <2> QED BY <2>1, <2>2, <2>3
  <1>4. CASE WritePrevious
    <2>1. Selects \/ KeepsSelection
      BY <1>4, CurrentKept DEF WritePrevious, KeepsSelection, Committed,
         ActivationTookEffect
    <2>2. CommandAims
      BY <1>4 DEF WritePrevious, CommandAims, At, Aiming, BackedUp, HasFinal, Activating,
         GoTo
    <2>3. CommandResolves
      BY <1>0, <1>4 DEF WritePrevious, CommandResolves
    <2> QED BY <2>1, <2>2, <2>3
  <1>5. CASE WriteActive
    <2>1. Selects \/ KeepsSelection
      BY <1>0, <1>5 DEF WriteActive, Selects, GoTo, Transaction
    <2>2. CommandAims
      BY <1>5 DEF WriteActive, CommandAims, At, Aiming, BackedUp, HasFinal, Activating,
         GoTo
    <2>3. CommandResolves
      BY <1>0, <1>5 DEF WriteActive, CommandResolves
    <2> QED BY <2>1, <2>2, <2>3
  <1>6. CASE WritePending
    <2>1. Selects \/ KeepsSelection
      BY <1>6, CurrentKept DEF WritePending, KeepsSelection, Committed, IInv, Consistent,
         RecordAtStep
    <2>2. CommandAims
      BY <1>6 DEF WritePending, CommandAims, Aiming, BackedUp, HasFinal, Downloading,
         Promoting, Activating, Succeed, NoTxn
    <2>3. CommandResolves
      BY <1>0, <1>6 DEF WritePending, PendingRecord, UpdateState, CommandResolves
    <2> QED BY <2>1, <2>2, <2>3
  <1> QED
    BY <1>1, <1>2, <1>3, <1>4, <1>5, <1>6 DEF Activation

\* The steps at the end of a check that failed keep what is selected, or select.
LEMMA FailureSelects ==
    ASSUME IInv, Failure
    PROVE  CommandMoves
  <1> USE DEF CommandMoves
  <1>0. /\ upd \in UpdateState /\ txn \in Transaction /\ txn.base \in UpdateState
        /\ active \in MaybeRelease /\ dir \in [Release -> Content] /\ branch \in Build
        /\ sess \in Session
    BY DEF IInv, TransactionTypeOK, Transaction
  <1>1. CASE UndoActivation
    <2>1. Selects \/ KeepsSelection
      <3>1. active' = active /\ (active # None => dir'[active] = dir[active])
        BY <1>1, DoomedNotActive, RemovalSpares DEF UndoActivation
      <3>2. ~Committed
        BY <1>1 DEF UndoActivation, Committed, Held, IInv, Consistent, RecordAtStep, At
      <3>3. ~Committed'
        BY <1>1, <3>2 DEF UndoActivation, Committed, ActivationTookEffect
      <3> QED BY <3>1, <3>2, <3>3, CurrentKept DEF KeepsSelection
    <2>2. CommandAims
      BY <1>1 DEF UndoActivation, CommandAims, Aiming, BackedUp, HasFinal, Downloading,
         Promoting, Activating, GoTo
    <2>3. CommandResolves
      BY <1>0, <1>1 DEF UndoActivation, CommandResolves
    <2> QED BY <2>1, <2>2, <2>3
  <1>2. CASE WriteUndone
    <2>1. Selects \/ KeepsSelection
      BY <1>2, CurrentKept DEF WriteUndone, At, KeepsSelection, Committed, Held,
         ActivationTookEffect, IInv, Consistent, RecordAtStep, NoLongerInterrupted
    <2>2. CommandAims
      BY <1>2 DEF WriteUndone, CommandAims, Aiming, BackedUp, HasFinal, Downloading,
         Promoting, Activating, GoTo
    <2>3. CommandResolves
      BY <1>0, <1>2 DEF WriteUndone, CommandResolves
    <2> QED BY <2>1, <2>2, <2>3
  <1>3. CASE Cleanup
    <2>1. Selects \/ KeepsSelection
      <3>1. active' = active /\ (active # None => dir'[active] = dir[active])
        BY <1>3, RemovalSpares DEF Cleanup, IInv, Consistent, StagedApart, HasCandidate,
           At
      <3>2. ~Committed
        BY <1>3 DEF Cleanup, Committed, IInv, Consistent, RecordAtStep, At
      <3>3. ~Committed'
        BY <1>3, <3>2 DEF Cleanup, Committed, ActivationTookEffect
      <3> QED BY <3>1, <3>2, <3>3, CurrentKept DEF KeepsSelection
    <2>2. CommandAims
      BY <1>3 DEF Cleanup, CommandAims, Aiming, BackedUp, HasFinal, Downloading,
         Promoting, Activating, GoTo
    <2>3. CommandResolves
      BY <1>0, <1>3 DEF Cleanup, CommandResolves
    <2> QED BY <2>1, <2>2, <2>3
  <1>4. CASE WriteFailure
    <2>1. Selects \/ KeepsSelection
      BY <1>4, CurrentKept DEF WriteFailure, At, KeepsSelection, Committed, Held,
         ActivationTookEffect, IInv, Consistent, RecordAtStep, FailureRecord,
         PreWorldFailure
    <2>2. CommandAims
      BY <1>4 DEF WriteFailure, CommandAims, Aiming, BackedUp, HasFinal, Downloading,
         Promoting, Activating, GoTo
    <2>3. CommandResolves
      BY <1>0, <1>4 DEF WriteFailure, CommandResolves
    <2> QED BY <2>1, <2>2, <2>3
  <1>5. CASE HandlerRecovers
    <2>1. Selects \/ KeepsSelection
      <3>1. active' = active /\ (active # None => dir'[active] = dir[active])
        BY <1>5, DoomedNotActive, RemovalSpares DEF HandlerRecovers
      <3>2. ~Committed
        BY <1>5 DEF HandlerRecovers, Uncleaned, Committed, Held, Interrupted,
           ActivationTookEffect
      <3>3. ~Committed'
        BY <1>5 DEF HandlerRecovers, Committed, Held, ActivationTookEffect,
           NoLongerInterrupted
      <3> QED BY <3>1, <3>2, <3>3, CurrentKept DEF KeepsSelection
    <2>2. CommandAims
      BY <1>5 DEF HandlerRecovers, CommandAims, At, HasFinal, Promoting, Activating
    <2>3. CommandResolves
      BY <1>0, <1>5 DEF HandlerRecovers, CommandResolves
    <2> QED BY <2>1, <2>2, <2>3
  <1>6. CASE StartKnownGood
    <2>1. Selects \/ KeepsSelection
      BY <1>6, CurrentKept DEF StartKnownGood, durable, KeepsSelection, Committed,
         ActivationTookEffect
    <2>2. CommandAims
      BY <1>6 DEF StartKnownGood, CommandAims, Aiming, BackedUp, HasFinal, Downloading,
         Promoting, Activating, Succeed, NoTxn
    <2>3. CommandResolves
      BY <1>6 DEF StartKnownGood, CommandResolves, durable
    <2> QED BY <2>1, <2>2, <2>3
  <1>7. CASE RaiseFailure
    <2>1. Selects \/ KeepsSelection
      BY <1>7, CurrentKept DEF RaiseFailure, durable, KeepsSelection, Committed,
         ActivationTookEffect
    <2>2. CommandAims
      BY <1>7 DEF RaiseFailure, CommandAims, Aiming, BackedUp, HasFinal, Downloading,
         Promoting, Activating, Fail, NoTxn
    <2>3. CommandResolves
      BY <1>7 DEF RaiseFailure, Fail, Down, CommandResolves, Chosen, Marked
    <2> QED BY <2>1, <2>2, <2>3
  <1> QED
    BY <1>1, <1>2, <1>3, <1>4, <1>5, <1>6, <1>7 DEF Failure

\* The faults of a command keep what is selected, or select.
LEMMA InputOutputFaultSelects ==
    ASSUME IInv, InputOutputFault
    PROVE  CommandMoves
  <1> USE DEF CommandMoves
  <1>0. /\ upd \in UpdateState /\ txn \in Transaction /\ txn.base \in UpdateState
        /\ active \in MaybeRelease /\ dir \in [Release -> Content] /\ branch \in Build
        /\ sess \in Session
    BY DEF IInv, TransactionTypeOK, Transaction
  <1>1. CASE RecoverFails
    <2>1. Selects \/ KeepsSelection
      <3>1. active' = active /\ (active # None => dir'[active] = dir[active])
        BY <1>1, CutShortSpares DEF RecoverFails
      <3>2. CASE Committed
        <4>1. At("recover") /\ dir' = dir
          BY <1>1, <3>2, CommittedCut DEF RecoverFails, Committed, IInv, Consistent,
             RecordAtStep, Held, Interrupted
        <4>2. upd' = upd \/ (ActivationTookEffect /\ upd' = PendingRecord)
          BY <1>1, <4>1 DEF RecoverFails, At
        <4> QED BY <3>1, <3>2, <4>1, <4>2, CurrentKept DEF KeepsSelection
      <3>3. CASE ~Committed
        <4>1. ~Committed'
          BY <1>0, <1>1, <3>3 DEF RecoverFails, NoLongerInterrupted, UpdateState,
             Committed, Held, ActivationTookEffect
        <4> QED BY <3>1, <3>3, <4>1, CurrentKept DEF KeepsSelection
      <3> QED BY <3>2, <3>3
    <2>2. CommandAims
      BY <1>1 DEF RecoverFails, CommandAims, Aiming, BackedUp, HasFinal, Downloading,
         Promoting, Activating, Fail, NoTxn
    <2>3. CommandResolves
      BY <1>1 DEF RecoverFails, Fail, Down, CommandResolves, Chosen, Marked
    <2> QED BY <2>1, <2>2, <2>3
  <1>2. CASE PrepareActiveFails
    <2>1. Selects \/ KeepsSelection
      BY <1>0, <1>2, CurrentKept DEF PrepareActiveFails, KeepsSelection, Committed, Held,
         ActivationTookEffect, IInv, Consistent, RecordAtStep, Observation, UpdateState
    <2>2. CommandAims
      BY <1>2 DEF PrepareActiveFails, CommandAims, Aiming, BackedUp, HasFinal,
         Downloading, Promoting, Activating, Fail, NoTxn
    <2>3. CommandResolves
      BY <1>0, <1>2 DEF PrepareActiveFails, CommandResolves, IInv, Consistent,
         RecordAtStep, Observation, UpdateState
    <2> QED BY <2>1, <2>2, <2>3
  <1>3. CASE QueryFails
    <2>1. Selects \/ KeepsSelection
      BY <1>3, CurrentKept DEF QueryFails, durable, KeepsSelection, Committed,
         ActivationTookEffect
    <2>2. CommandAims
      BY <1>3 DEF QueryFails, CommandAims, Aiming, BackedUp, HasFinal, Downloading,
         Promoting, Activating, GoTo
    <2>3. CommandResolves
      BY <1>0, <1>3 DEF QueryFails, CommandResolves
    <2> QED BY <2>1, <2>2, <2>3
  <1>4. CASE PreconditionFails
    <2>1. Selects \/ KeepsSelection
      <3>1. active' = active /\ (active # None => dir'[active] = dir[active])
        BY <1>4, CutShortSpares DEF PreconditionFails
      <3>2. ~Committed
        BY <1>4 DEF PreconditionFails, Committed, ActivationTookEffect, IInv, Consistent,
           RecordAtStep, At, CandidateStates, BeforeDownload
      <3>3. ~Committed'
        BY <1>4, <3>2 DEF PreconditionFails, Committed, ActivationTookEffect
      <3> QED BY <3>1, <3>2, <3>3, CurrentKept DEF KeepsSelection
    <2>2. CommandAims
      BY <1>4 DEF PreconditionFails, CommandAims, At, Aiming, BackedUp, HasFinal,
         Promoting, Activating, GoTo
    <2>3. CommandResolves
      BY <1>0, <1>4 DEF PreconditionFails, CommandResolves
    <2> QED BY <2>1, <2>2, <2>3
  <1>5. CASE StagingFails
    <2>1. Selects \/ KeepsSelection
      <3>1. active' = active /\ (active # None => dir'[active] = dir[active])
        BY <1>5 DEF StagingFails, IInv, Consistent, StagedApart, HasCandidate,
           Downloading, At
      <3>2. ~Committed
        BY <1>5 DEF StagingFails, Committed, Held, ActivationTookEffect, IInv, Consistent,
           RecordAtStep, At, Downloading
      <3>3. ~Committed'
        BY <1>5, <3>2 DEF StagingFails, Committed, ActivationTookEffect
      <3> QED BY <3>1, <3>2, <3>3, CurrentKept DEF KeepsSelection
    <2>2. CommandAims
      BY <1>5 DEF StagingFails, CommandAims, Aiming, BackedUp, HasFinal, Downloading,
         Promoting, Activating, GoTo
    <2>3. CommandResolves
      BY <1>0, <1>5 DEF StagingFails, CommandResolves
    <2> QED BY <2>1, <2>2, <2>3
  <1>6. CASE PromotionFails
    <2>1. Selects \/ KeepsSelection
      <3>1. active' = active /\ (active # None => dir'[active] = dir[active])
        BY <1>0, <1>6 DEF PromotionFails, Renamed, MaybeRelease, IInv, Consistent,
           StagedApart, HasCandidate, HasFinal, Promoting, At
      <3>2. ~Committed
        BY <1>6 DEF PromotionFails, Committed, Held, ActivationTookEffect, IInv,
           Consistent, RecordAtStep, At, Promoting
      <3>3. ~Committed'
        BY <1>0, <1>6 DEF PromotionFails, Committed, Held, Interrupted,
           ActivationTookEffect, IInv, Consistent, RecordAtStep, At, Promoting,
           ActivatingRecord, UpdateState, StagedApart
      <3> QED BY <3>1, <3>2, <3>3, CurrentKept DEF KeepsSelection
    <2>2. CommandAims
      BY <1>6 DEF PromotionFails, CommandAims, At, Aiming, BackedUp, HasFinal, Promoting,
         Activating, GoTo
    <2>3. CommandResolves
      BY <1>0, <1>6 DEF PromotionFails, CommandResolves
    <2> QED BY <2>1, <2>2, <2>3
  <1>7. CASE ActivationFails
    <2>1. Selects \/ KeepsSelection
      <3>1. CASE active' = txn.final
        <4>1. At("write-active") /\ txn'.pc = "write-pending"
          BY <1>7, <3>1 DEF ActivationFails, GoTo, IInv, Consistent, StagedApart,
             HasFinal, Activating, At
        <4> QED BY <1>7, <3>1, <4>1 DEF ActivationFails, Selects
      <3>2. CASE active' # txn.final
        <4>1. active' = active /\ upd' = upd /\ dir' = dir
          BY <1>7, <3>2 DEF ActivationFails
        <4> QED BY <4>1, CurrentKept DEF KeepsSelection, Committed, ActivationTookEffect
      <3> QED BY <3>1, <3>2
    <2>2. CommandAims
      BY <1>7 DEF ActivationFails, CommandAims, At, Aiming, BackedUp, HasFinal,
         Activating, GoTo
    <2>3. CommandResolves
      BY <1>0, <1>7 DEF ActivationFails, CommandResolves
    <2> QED BY <2>1, <2>2, <2>3
  <1>8. CASE StateWriteFails
    <2>1. Selects \/ KeepsSelection
      <3>1. active' = active /\ (active # None => dir'[active] = dir[active])
        <4>1. CASE At("write-downloading")
          BY <1>8, <4>1, RemovalSpares DEF StateWriteFails, IInv, Consistent, StagedApart,
             HasCandidate, At
        <4>2. CASE ~At("write-downloading")
          BY <1>8, <4>2, CutShortSpares DEF StateWriteFails
        <4> QED BY <1>8, <4>1, <4>2 DEF StateWriteFails
      <3>2. CASE At("write-pending")
        <4>1. ActivationTookEffect /\ dir' = dir /\ upd' \in {upd, PendingRecord}
          BY <1>8, <3>2 DEF StateWriteFails, IInv, Consistent, RecordAtStep, At
        <4> QED BY <3>1, <4>1, CurrentKept DEF KeepsSelection, Committed
      <3>3. CASE ~At("write-pending")
        <4>1. ~Committed
          BY <1>8, <3>3 DEF StateWriteFails, Committed, Held, ActivationTookEffect, IInv,
             Consistent, RecordAtStep, At, CandidateStates, BeforeDownload, Downloading
        <4>2. \/ upd' = upd
              \/ upd'.state \in {"current", "downloading-candidate", "promoting-candidate",
                                "failed-before-world-open"}
          BY <1>0, <1>8, <3>3 DEF StateWriteFails, UpToDateRecord, DownloadingRecord,
             UpdateState, PromotingRecord, NoLongerInterrupted, FailureRecord,
             PreWorldFailure
        <4>3. ~Committed'
          BY <3>1, <4>1, <4>2 DEF Committed, Held, ActivationTookEffect
        <4> QED BY <3>1, <4>1, <4>3, CurrentKept DEF KeepsSelection
      <3> QED BY <3>2, <3>3
    <2>2. CommandAims
      BY <1>8 DEF StateWriteFails, CommandAims, Aiming, BackedUp, HasFinal, Downloading,
         Promoting, Activating, GoTo
    <2>3. CommandResolves
      BY <1>0, <1>8 DEF StateWriteFails, CommandResolves
    <2> QED BY <2>1, <2>2, <2>3
  <1>9. CASE HandlerFails
    <2>1. Selects \/ KeepsSelection
      <3>1. active' = active /\ (active # None => dir'[active] = dir[active])
        BY <1>9, CutShortSpares DEF HandlerFails
      <3>2. ~Committed
        BY <1>9 DEF HandlerFails, Uncleaned, Committed, Held, Interrupted,
           ActivationTookEffect
      <3>3. ~Committed'
        BY <1>9, <3>2 DEF HandlerFails, Committed, ActivationTookEffect
      <3> QED BY <3>1, <3>2, <3>3, CurrentKept DEF KeepsSelection
    <2>2. CommandAims
      BY <1>9 DEF HandlerFails, CommandAims, Aiming, BackedUp, HasFinal, Downloading,
         Promoting, Activating, Succeed, Fail, NoTxn
    <2>3. CommandResolves
      BY <1>9 DEF HandlerFails, Uncleaned, Interrupted, CommandResolves
    <2> QED BY <2>1, <2>2, <2>3
  <1>10. CASE CleanupFails
    <2>1. Selects \/ KeepsSelection
      <3>1. active' = active /\ (active # None => dir'[active] = dir[active])
        BY <1>10, RemovalSpares DEF CleanupFails, IInv, Consistent, StagedApart,
           HasCandidate, At
      <3>2. ~Committed
        BY <1>10 DEF CleanupFails, Committed, IInv, Consistent, RecordAtStep, At
      <3>3. ~Committed'
        BY <1>10, <3>2 DEF CleanupFails, Committed, ActivationTookEffect
      <3> QED BY <3>1, <3>2, <3>3, CurrentKept DEF KeepsSelection
    <2>2. CommandAims
      BY <1>10 DEF CleanupFails, CommandAims, Aiming, BackedUp, HasFinal, Downloading,
         Promoting, Activating, GoTo
    <2>3. CommandResolves
      BY <1>10 DEF CleanupFails, CommandResolves
    <2> QED BY <2>1, <2>2, <2>3
  <1> QED
    BY <1>1, <1>2, <1>3, <1>4, <1>5, <1>6, <1>7, <1>8, <1>9, <1>10 DEF InputOutputFault

\* A pending repository deployment keeps what is selected.
LEMMA DeploymentPendingSelects ==
    ASSUME IInv, DeploymentPending
    PROVE  CommandMoves
  <1>0. upd \in UpdateState /\ txn \in Transaction /\ sess \in Session
    BY DEF IInv, TransactionTypeOK
  <1>1. KeepsSelection
    BY <1>0, CurrentKept DEF DeploymentPending, KeepsSelection, Committed, Held,
       Observation, UpdateState, IInv, Consistent, RecordAtStep, ActivationTookEffect
  <1>2. CommandAims
    BY DEF DeploymentPending, CommandAims, Aiming, BackedUp, HasFinal, Downloading,
       Promoting, Activating, Succeed, Fail, NoTxn
  <1>3. CommandResolves
    <2>1. CASE txn.by = "session" /\ active # None
      BY <1>0, <2>1 DEF DeploymentPending, CommandResolves, Observation, UpdateState
    <2>2. CASE ~(txn.by = "session" /\ active # None)
      <3>1. Fail
        BY <2>2 DEF DeploymentPending
      <3> QED BY <3>1 DEF CommandResolves, Fail, Down, Chosen, Marked
    <2> QED BY <2>1, <2>2
  <1> QED BY <1>1, <1>2, <1>3 DEF CommandMoves

\* Every step of a command selects or keeps the selection.
LEMMA CommandsMove ==
    ASSUME IInv, Transact \/ InputOutputFault \/ DeploymentPending
    PROVE  CommandMoves
  BY RecoverySelects, DecisionSelects, CheckSelects, StagingSelects, ActivationSelects,
     FailureSelects, InputOutputFaultSelects, DeploymentPendingSelects DEF Transact

-----------------------------------------------------------------------------
(* What every other step does to the selection *)

\* It changes the record only while nobody holds the lock, and never back to an
\* activation; it makes no candidate of what was none.
Aside ==
    /\ active' = active /\ CurrentBuild' = CurrentBuild
    /\ txn'.pc \in {"idle", "recover"} \/ (txn' = txn /\ upd' = upd)
    /\ upd' = upd \/ upd'.state # "activating"
    /\ Committed' => Committed /\ dir' = dir /\ upd'.previousRelease = upd.previousRelease

\* The steps of the entrypoint leave the selection alone.
LEMMA EntrypointAside ==
    ASSUME IInv, Entrypoint
    PROVE  Aside
  <1> USE DEF Aside, Committed, ActivationTookEffect, durable
  <1>0. upd \in UpdateState /\ (LockFree => txn = NoTxn)
    BY DEF IInv, TransactionTypeOK, Consistent, IdleWhenFree, LockFree
  <1>1. CASE PrepareStart
    BY <1>0, <1>1, CurrentKept DEF PrepareStart, Begin, NoTxn
  <1>2. CASE LockContended
    BY <1>2, CurrentKept, CutShortSpares, CommittedCut DEF LockContended, ContainerEnds,
       NoTxn
  <1>3. CASE SelectRelease
    BY <1>0, <1>3, CurrentKept DEF SelectRelease
  <1>4. CASE MarkWorldOpened
    BY <1>0, <1>4, CurrentKept DEF MarkWorldOpened, OpenedRecord, AwaitsWorld, Held, NoTxn
  <1>5. CASE Launch
    BY <1>0, <1>5, CurrentKept DEF Launch
  <1>6. CASE RuntimeReady
    BY <1>0, <1>6, CurrentKept DEF RuntimeReady, ReadyRecord, Accepted, InReadiness, Held,
       NoTxn
  <1>7. CASE ReadinessContended
    BY <1>0, <1>7, CurrentKept DEF ReadinessContended
  <1>8. CASE RecordExit
    BY <1>0, <1>8, CurrentKept, CutShortSpares, CommittedCut DEF RecordExit,
       RecordReadinessFailure, FailedRecord, InReadiness, UpdateState, Held, NoTxn,
       ContainerEnds, NoTxn
  <1>9. CASE EntrypointReturns
    BY <1>9, CurrentKept, CutShortSpares, CommittedCut DEF EntrypointReturns, ContainerEnds,
       NoTxn
  <1> QED
    BY <1>1, <1>2, <1>3, <1>4, <1>5, <1>6, <1>7, <1>8, <1>9 DEF Entrypoint

\* The steps of the operator leave the selection alone.
LEMMA OperatorAside ==
    ASSUME IInv, Operator
    PROVE  Aside
  <1> USE DEF Aside, Committed, ActivationTookEffect, durable
  <1>0. upd \in UpdateState /\ (LockFree => txn = NoTxn)
    BY DEF IInv, TransactionTypeOK, Consistent, IdleWhenFree, LockFree
  <1>1. CASE Quiesce
    BY <1>0, <1>1, CurrentKept DEF Quiesce
  <1>2. CASE ExplicitUpdate
    BY <1>0, <1>2, CurrentKept DEF ExplicitUpdate, Begin, NoTxn
  <1>3. CASE Resume
    BY <1>0, <1>3, CurrentKept DEF Resume
  <1>4. CASE Accept
    BY <1>0, <1>4, CurrentKept DEF Accept, Accepted, Held, NoTxn
  <1> QED
    BY <1>1, <1>2, <1>3, <1>4 DEF Operator

\* The poller's failures, kills and Steam leave the selection alone.
LEMMA EnvironsAside ==
    ASSUME IInv, Environs, ~DeploymentPending, ~ReplaceHost
    PROVE  Aside
  <1> USE DEF Aside, Committed, ActivationTookEffect, durable
  <1>0. upd \in UpdateState /\ (LockFree => txn = NoTxn)
    BY DEF IInv, TransactionTypeOK, Consistent, IdleWhenFree, LockFree
  <1>1. CASE MarkFails
    <2>1. /\ LockFree /\ UNCHANGED <<active, dir, txn>> /\ upd' \in {upd, OpenedRecord}
          /\ upd' # upd => upd.state \in Held
      BY <1>1 DEF MarkFails, AwaitsWorld, ReadyRecord, InReadiness, Held
    <2>2. upd.state \in Held =>
            /\ OpenedRecord.state # "activating"
            /\ OpenedRecord.previousRelease = upd.previousRelease
      BY <1>0, <2>1 DEF OpenedRecord, AwaitsWorld, UpdateState, Held
    <2> QED BY <1>0, <2>1, <2>2, CurrentKept DEF NoTxn
  <1>2. CASE ReadyFails
    <2>1. /\ LockFree /\ UNCHANGED <<active, dir, txn>> /\ upd' \in {upd, ReadyRecord}
          /\ upd' # upd => upd.state \in Held
      BY <1>2 DEF ReadyFails, AwaitsWorld, ReadyRecord, InReadiness, Held
    <2>2. upd.state \in Held =>
            /\ ReadyRecord.state # "activating"
            /\ ReadyRecord.previousRelease = upd.previousRelease
      BY <1>0, <2>1 DEF ReadyRecord, Accepted, InReadiness, UpdateState, Held
    <2> QED BY <1>0, <2>1, <2>2, CurrentKept DEF NoTxn
  <1>3. CASE ReadinessFails
    BY <1>0, <1>3, CurrentKept DEF ReadinessFails, RecordReadinessFailure, FailedRecord,
       InReadiness, UpdateState, Held, NoTxn
  <1>4. CASE KillContainer
    BY <1>4, CurrentKept, CutShortSpares, CommittedCut DEF KillContainer, ContainerEnds,
       NoTxn
  <1>5. CASE KillUpdate
    BY <1>5, CurrentKept, CutShortSpares, CommittedCut DEF KillUpdate, NoTxn
  <1>6. CASE Publish
    BY <1>0, <1>6, CurrentKept DEF Publish
  <1> QED
    BY <1>1, <1>2, <1>3, <1>4, <1>5, <1>6 DEF Environs

\* Starts, stops and exits leave the selection alone.
LEMMA OrdinaryAside ==
    ASSUME IInv, StartContainer \/ RequestStop \/ ServerExits
    PROVE  Aside
  <1> USE DEF Aside, Committed, ActivationTookEffect, durable
  <1>0. upd \in UpdateState /\ (LockFree => txn = NoTxn)
    BY DEF IInv, TransactionTypeOK, Consistent, IdleWhenFree, LockFree
  <1>1. CASE StartContainer
    BY <1>0, <1>1, CurrentKept DEF StartContainer
  <1>2. CASE RequestStop
    BY <1>0, <1>2, CurrentKept DEF RequestStop
  <1>3. CASE ServerExits
    BY <1>0, <1>3, CurrentKept DEF ServerExits
  <1> QED
    BY <1>1, <1>2, <1>3 DEF durable

\* Every step is one of a command, the loss of the host, or leaves the selection alone.
LEMMA NextMoves ==
    ASSUME IInv, Next
    PROVE  \/ (Transact \/ InputOutputFault \/ DeploymentPending) /\ CommandMoves
           \/ ReplaceHost
           \/ (Entrypoint \/ Operator \/ Environs \/ StartContainer \/ RequestStop
                \/ ServerExits) /\ Aside
  BY CommandsMove, EntrypointAside, OperatorAside, EnvironsAside, OrdinaryAside DEF Next

\* Before the pointer is written nothing is committed, and what it will select is not
\* older than what it selects.
LEMMA Selection ==
    ASSUME IInv, AimsForward, Selects
    PROVE  /\ ~Committed /\ upd.state = "activating" /\ active' = txn.final
           /\ ActivationTookEffect' /\ upd'.previousRelease = active /\ txn.final # None
           /\ CurrentBuild <= CurrentBuild' /\ CurrentBuild' \in Build \ Incompatible
  <1>1. /\ upd.state = "activating" /\ upd.candidateRelease = txn.final
        /\ txn.final \in Release /\ txn.final # active
        /\ Launchable(dir[txn.final]) /\ dir[txn.final] = txn.latest
    BY DEF Selects, IInv, Consistent, RecordAtStep, StagedApart, ValidatedContent, At,
       Activating, HasFinal
  <1>2. txn.final # None
    BY <1>1, ReleaseAssumption
  <1>3. ~Committed /\ ActivationTookEffect'
    BY <1>1, <1>2 DEF Committed, Held, ActivationTookEffect, Selects
  <1>4. CurrentBuild' = txn.latest
    BY <1>1, <1>2 DEF CurrentBuild, BuildOf, Selects
  <1> QED
    BY <1>1, <1>2, <1>3, <1>4 DEF AimsForward, Aiming, HasFinal, Activating, Selects, At,
       Launchable

\* No command aims at a build that is older than the selected one.
LEMMA AimsKept ==
    ASSUME IInv, AimsForward, [Next]_vars
    PROVE  AimsForward'
  <1> USE DEF AimsForward
  <1>1. CASE CommandMoves /\ Selects
    BY <1>1 DEF Selects, Aiming, HasFinal, Downloading, Promoting, Activating
  <1>2. CASE CommandMoves /\ KeepsSelection
    BY <1>2 DEF CommandMoves, CommandAims, KeepsSelection
  <1>3. CASE ReplaceHost
    BY <1>3 DEF ReplaceHost, NoTxn, Aiming, HasFinal, Downloading, Promoting, Activating
  <1>4. CASE Aside
    BY <1>4 DEF Aside, Aiming, HasFinal, Downloading, Promoting, Activating
  <1>5. CASE UNCHANGED vars
    BY <1>5 DEF vars, CurrentBuild, BuildOf
  <1> QED BY <1>1, <1>2, <1>3, <1>4, <1>5, NextMoves DEF CommandMoves

-----------------------------------------------------------------------------
(* The world is never opened by an older build *)

\* A server starts only where the entrypoint launches it.
LEMMA OnlyLaunchStarts ==
    ASSUME IInv, [Next]_vars, sess'.server # None, sess.server = None
    PROVE  Launch
  <1>0. sess \in Session
    BY DEF IInv, TransactionTypeOK
  <1>1. CASE Transact \/ InputOutputFault \/ DeploymentPending
    BY <1>0, <1>1, Commands DEF CommandStep, Succeed, Fail, Down, Session
  <1>2. CASE Entrypoint
    <2>1. CASE RuntimeReady \/ ReadinessContended
      BY <1>0, <2>1 DEF RuntimeReady, ReadinessContended, PollerEnded, Session
    <2>2. CASE PrepareStart \/ SelectRelease
      BY <1>0, <2>2 DEF PrepareStart, SelectRelease, Session
    <2>4. CASE MarkWorldOpened
      <3>1. sess' = Down \/ sess' = [sess EXCEPT !.pc = "marked"]
        BY <2>4 DEF MarkWorldOpened
      <3> QED BY <1>0, <3>1 DEF Session, Down
    <2>3. CASE LockContended \/ RecordExit \/ EntrypointReturns
      BY <2>3 DEF LockContended, RecordExit, EntrypointReturns, ContainerEnds, Down
    <2> QED BY <1>2, <2>1, <2>2, <2>3, <2>4 DEF Entrypoint
  <1>3. CASE Operator
    BY <1>3 DEF Operator, Quiesce, ExplicitUpdate, Resume, Accept
  <1>4. CASE Environs
    BY <1>0, <1>1, <1>4 DEF Environs, MarkFails, ReadyFails, ReadinessFails,
       KillContainer, KillUpdate, Publish, ReplaceHost, ContainerEnds, PollerEnded,
       Session, Down
  <1>5. CASE StartContainer \/ RequestStop \/ ServerExits
    BY <1>0, <1>5 DEF StartContainer, RequestStop, ServerExits, Session, Down
  <1>6. CASE UNCHANGED vars
    BY <1>6 DEF vars
  <1> QED
    BY <1>1, <1>2, <1>3, <1>4, <1>5, <1>6 DEF Next

\* What the entrypoint launches is a build, no older than what opened the world and
\* no newer than the selection.
LEMMA LaunchedBuild ==
    ASSUME IInv, NotAhead, ReadStands, Launch
    PROVE  /\ world' \in Build /\ world <= world' /\ world' <= CurrentBuild
           /\ sess.selected # None
  <1>1. active # None /\ world' = dir[sess.selected]
    BY DEF Launch, ReadStands
  <1>2. CASE sess.selected = active
    <2>1. world' = CurrentBuild /\ CurrentBuild \in Build
      BY <1>1, <1>2, CurrentIsBuild DEF CurrentBuild, BuildOf
    <2> QED BY <1>1, <1>2, <2>1, BuildAssumption DEF NotAhead
  <1>3. CASE Overtaken
    BY <1>1, <1>3, ReleaseAssumption DEF Overtaken, NotAhead
  <1> QED BY <1>2, <1>3 DEF ReadStands, Launch

\* Neither the selection nor the launch puts the world ahead of the selection.
LEMMA NotAheadKept ==
    ASSUME ~HostReplacement, IInv, AimsForward, NotAhead, ReadStands, [Next]_vars
    PROVE  NotAhead'
  <1>0. CurrentBuild \in MaybeBuild /\ CurrentBuild' \in MaybeBuild /\ world \in MaybeBuild
    <2>1. IInv'
      BY NextTypes, NextConsistent DEF IInv
    <2> QED BY <2>1 DEF NotAhead, IInv, CurrentBuild, BuildOf, Consistent,
               ActiveLaunchable, Launchable, MaybeBuild
  <1>1. CASE CommandMoves /\ Selects
    <2>1. world' = world /\ dir' = dir
      BY <1>1 DEF CommandMoves, CommandAims, Selects
    <2>2. world' <= CurrentBuild'
      BY <1>0, <2>1, Selection, <1>1, BuildAssumption DEF NotAhead, MaybeBuild
    <2>3. active # None => dir'[active] = CurrentBuild /\ CurrentBuild \in Build
      BY <2>1, CurrentIsBuild DEF CurrentBuild, BuildOf
    <2>4. upd'.previousRelease = active /\ CurrentBuild <= CurrentBuild'
      BY <1>1, Selection
    <2> QED BY <1>0, <2>1, <2>2, <2>3, <2>4 DEF NotAhead
  <1>2. CASE CommandMoves /\ KeepsSelection
    <2>1. Committed' => Committed /\ dir' = dir /\ upd'.previousRelease = upd.previousRelease
      BY <1>2 DEF KeepsSelection, PendingRecord, IInv, TransactionTypeOK, UpdateState
    <2> QED BY <1>2, <2>1 DEF CommandMoves, CommandAims, KeepsSelection, NotAhead
  <1>3. CASE Aside /\ world' = world
    BY <1>3 DEF Aside, NotAhead
  <1>4. CASE Aside /\ Launch
    BY <1>4, LaunchedBuild DEF Aside, NotAhead, MaybeBuild
  <1>5. CASE UNCHANGED vars
    BY <1>5 DEF vars, NotAhead, CurrentBuild, BuildOf, Committed, ActivationTookEffect
  <1>6. Aside /\ (Entrypoint \/ Operator \/ Environs \/ StartContainer \/ RequestStop
          \/ ServerExits) => world' = world \/ Launch \/ CommandMoves
    BY CommandsMove DEF Entrypoint, PrepareStart, LockContended, SelectRelease,
       MarkWorldOpened, RuntimeReady, ReadinessContended, RecordExit, EntrypointReturns,
       Operator, Quiesce, ExplicitUpdate, Resume, Accept, Environs, MarkFails, ReadyFails,
       ReadinessFails, KillContainer, KillUpdate, Publish, ReplaceHost, StartContainer,
       RequestStop, ServerExits
  <1>7. ~ReplaceHost
    BY DEF ReplaceHost
  <1> QED BY <1>1, <1>2, <1>3, <1>4, <1>5, <1>6, <1>7, NextMoves DEF CommandMoves

\* A step that leaves the session where it is, or moves it out of the way, and that
\* selects or sets nothing free, keeps what the entrypoint read.
LEMMA ReadKeptAside ==
    ASSUME IInv, ReadStands, Aside, world' = world,
           \/ UNCHANGED <<sess, upd>>
           \/ sess' = Down
           \/ sess'.pc \notin {"prepared", "selected", "marked"}
           \/ sess'.pc = sess.pc /\ sess'.selected = sess.selected /\ upd' = upd
    PROVE  ReadStands'
  BY DEF ReadStands, Overtaken, Aside, Down, Committed, ActivationTookEffect

\* What the entrypoint read stays selected, or its successor stays untried.
LEMMA ReadKept ==
    ASSUME ~HostReplacement, IInv, AimsForward, NotAhead, ReadStands, [Next]_vars
    PROVE  ReadStands'
  <1>0. sess \in Session /\ upd \in UpdateState
    BY DEF IInv, TransactionTypeOK
  <1>1. CASE (Transact \/ InputOutputFault \/ DeploymentPending) /\ CommandMoves
    <2>1. CommandStep /\ world' = world
      BY <1>1, Commands DEF CommandMoves, CommandAims
    <2>2. CASE sess'.pc \notin {"selected", "marked"}
      BY <1>1, <2>1, <2>2, Selection DEF ReadStands, CommandStep, CommandMoves,
         KeepsSelection, Fail, Down
    <2>3. CASE sess'.pc \in {"selected", "marked"}
      <3>1. sess' = sess
        BY <1>0, <2>1, <2>3 DEF CommandStep, Succeed, Fail, Down, Session
      <3>2. CASE Selects
        <4>1. sess.selected = active /\ active # None
          BY <2>3, <3>1, <3>2, Selection DEF ReadStands, Overtaken
        <4>2. dir' = dir /\ upd' = upd /\ dir[active] = CurrentBuild
          BY <3>2, <4>1 DEF Selects, CurrentBuild, BuildOf
        <4>3. Overtaken' /\ active' # None
          BY <2>1, <3>1, <3>2, <4>1, <4>2, Selection DEF Overtaken, Committed, NotAhead
        <4> QED BY <4>3 DEF ReadStands
      <3>3. CASE KeepsSelection
        <4>1. CASE sess.selected = active
          BY <2>3, <3>1, <3>3, <4>1 DEF ReadStands, KeepsSelection
        <4>2. CASE Overtaken
          <5>1. /\ dir' = dir /\ active' = active
                /\ upd' = upd \/ (ActivationTookEffect /\ upd' = PendingRecord)
            BY <3>3, <4>2 DEF KeepsSelection, Overtaken
          <5>2. /\ upd'.previousRelease = upd.previousRelease /\ Committed'
                /\ upd'.state \in {"activating", "pending-readiness", "starting-candidate"}
            BY <1>0, <4>2, <5>1 DEF Overtaken, Committed, ActivationTookEffect,
               PendingRecord, UpdateState, Held
          <5> QED BY <2>1, <3>1, <5>1, <5>2 DEF ReadStands, Overtaken
        <4> QED BY <2>3, <3>1, <4>1, <4>2 DEF ReadStands
      <3> QED BY <1>1, <3>2, <3>3 DEF CommandMoves
    <2> QED BY <2>2, <2>3
  <1>2. CASE Entrypoint /\ Aside
    <2>1. CASE PrepareStart
      BY <1>2, <2>1, ReadKeptAside DEF PrepareStart, durable
    <2>7. CASE ReadinessContended
      <3>1. PICK pc \in {"exited", "stopping"} : sess' = [sess EXCEPT !.pc = pc]
        BY <2>7 DEF ReadinessContended, PollerEnded
      <3> QED BY <1>0, <1>2, <2>7, <3>1, ReadKeptAside DEF ReadinessContended, Session
    <2>2. CASE LockContended \/ RecordExit \/ EntrypointReturns
      BY <1>2, <2>2, ReadKeptAside DEF LockContended, RecordExit, EntrypointReturns,
         ContainerEnds
    <2>3. CASE SelectRelease
      BY <1>0, <2>3 DEF SelectRelease, ReadStands, Session, durable
    <2>4. CASE MarkWorldOpened
      <3>1. /\ active' = active /\ dir' = dir /\ world' = world
            /\ upd' = upd \/ (AwaitsWorld /\ upd' = OpenedRecord)
            /\ sess' = Down \/ sess' = [sess EXCEPT !.pc = "marked"]
            /\ sess.pc = "selected"
        BY <2>4 DEF MarkWorldOpened
      <3>2. Overtaken => Overtaken' \/ sess' = Down
        BY <1>0, <3>1 DEF Overtaken, Committed, ActivationTookEffect, OpenedRecord,
           UpdateState, Held, Session
      <3> QED BY <1>0, <3>1, <3>2 DEF ReadStands, Session, Down
    <2>5. CASE Launch
      BY <1>0, <2>5 DEF Launch, ReadStands, Session
    <2>6. CASE RuntimeReady
      BY <1>0, <1>2, <2>6, ReadKeptAside DEF RuntimeReady, PollerEnded, Session
    <2> QED BY <1>2, <2>1, <2>2, <2>3, <2>4, <2>5, <2>6, <2>7 DEF Entrypoint
  <1>3. CASE Operator /\ Aside
    <2>1. CASE Quiesce \/ ExplicitUpdate \/ Resume
      BY <1>3, <2>1, ReadKeptAside DEF Quiesce, ExplicitUpdate, Resume, durable
    <2>2. CASE Accept
      BY <1>3, <2>2 DEF Accept, ReadStands, Overtaken
    <2> QED BY <1>3, <2>1, <2>2 DEF Operator
  <1>4. CASE Environs /\ ~DeploymentPending /\ Aside
    <2>1. CASE MarkFails \/ KillContainer
      BY <1>4, <2>1, ReadKeptAside DEF MarkFails, KillContainer, ContainerEnds
    <2>2. CASE ReadyFails \/ ReadinessFails
      BY <1>0, <1>4, <2>2, ReadKeptAside DEF ReadyFails, ReadinessFails, PollerEnded,
         Session
    <2>3. CASE KillUpdate \/ Publish
      BY <1>4, <2>3, ReadKeptAside DEF KillUpdate, Publish, durable
    <2> QED BY <1>4, <2>1, <2>2, <2>3 DEF Environs, ReplaceHost
  <1>5. CASE (StartContainer \/ RequestStop \/ ServerExits) /\ Aside
    <2>1. CASE StartContainer \/ RequestStop
      BY <1>0, <1>5, <2>1, ReadKeptAside DEF StartContainer, RequestStop, Session, Down
    <2>2. CASE ServerExits
      BY <1>0, <1>5, <2>2, ReadKeptAside DEF ServerExits, Session, durable
    <2> QED BY <1>5, <2>1, <2>2
  <1>6. CASE UNCHANGED vars
    BY <1>6 DEF vars, ReadStands, Overtaken, Committed, ActivationTookEffect
  <1> QED
    BY <1>1, <1>2, <1>3, <1>4, <1>5, <1>6, NextMoves, CommandsMove DEF ReplaceHost

\* While the host keeps its disk, the world is never ahead of the selection, with
\* commands executed in the game container included.
THEOREM WorldInvariance ==
    ASSUME ~HostReplacement
    PROVE  Spec => [](IInv /\ WInv)
  <1>1. Init => IInv /\ WInv
    BY InitInvariant DEF Init, WInv, AimsForward, NotAhead, ReadStands, Aiming,
       Downloading, Promoting, Activating, NoTxn, Down, Uninitialized, MaybeBuild,
       CurrentBuild, BuildOf
  <1>2. IInv /\ WInv /\ [Next]_vars => WInv'
    BY AimsKept, NotAheadKept, ReadKept DEF WInv
  <1>3. IInv /\ [Next]_vars => IInv'
    BY NextTypes, NextConsistent DEF IInv
  <1> QED
    BY <1>1, <1>2, <1>3, PTL DEF Spec

\* No server opens the world with an older build than one that opened it before.
THEOREM WorldNeverDowngraded ==
    ASSUME ~HostReplacement
    PROVE  Spec => NoWorldDowngrade
  <1>1. IInv /\ WInv /\ [Next]_vars =>
           [sess'.server # None /\ sess.server = None => world' >= world]_vars
    <2> SUFFICES ASSUME IInv, WInv, [Next]_vars, sess'.server # None, sess.server = None
                 PROVE  world' >= world
      OBVIOUS
    <2>1. world' \in Build /\ world <= world' /\ world \in MaybeBuild
      BY OnlyLaunchStarts, LaunchedBuild DEF WInv, NotAhead
    <2> QED BY <2>1, BuildAssumption DEF MaybeBuild
  <1> QED
    BY <1>1, WorldInvariance, PTL DEF Spec, NoWorldDowngrade

-----------------------------------------------------------------------------
(* The world is archived before a newer build opens it *)

\* Where the session is past its start, nobody holds the lock.
LEMMA AloneOnceChosen ==
    IInv /\ SInv /\ sess.pc \in {"prepared"} \cup Chosen => LockFree /\ txn = NoTxn
  BY Uncontended DEF Chosen, Marked, IInv, Consistent, IdleWhenFree, LockFree

\* A launch opens the world with the selected build.
LEMMA LaunchesSelected ==
    ASSUME IInv, SInv, Launch
    PROVE  active # None /\ world' = CurrentBuild /\ CurrentBuild \in Build
  <1>1. sess.selected = active /\ active # None
    BY DEF Launch, SInv, SelectionStands, Chosen, Marked
  <1> QED BY <1>1, CurrentIsBuild DEF Launch, CurrentBuild, BuildOf

\* Only a launch, of a session that nobody contends, takes the archive's worth away.
LEMMA ArchiveStays ==
    ASSUME IInv, Next, Aside \/ ReplaceHost, ~CommandMoves
    PROVE  Launch \/ UNCHANGED <<world, archived>>
  <1>1. ~(Transact \/ InputOutputFault \/ DeploymentPending)
    BY CommandsMove
  <1>2. CASE Entrypoint
    BY <1>2 DEF Entrypoint, PrepareStart, LockContended, SelectRelease, MarkWorldOpened,
       RuntimeReady, ReadinessContended, RecordExit, EntrypointReturns
  <1>3. CASE Operator
    BY <1>3 DEF Operator, Quiesce, ExplicitUpdate, Resume, Accept
  <1>4. CASE Environs
    BY <1>1, <1>4 DEF Environs, MarkFails, ReadyFails, ReadinessFails, KillContainer,
       KillUpdate, Publish, ReplaceHost
  <1>5. CASE StartContainer \/ RequestStop \/ ServerExits
    BY <1>5 DEF StartContainer, RequestStop, ServerExits
  <1> QED BY <1>1, <1>2, <1>3, <1>4, <1>5 DEF Next

\* What is archived before the selection stays so until the launch.
LEMMA ArchivedKept ==
    ASSUME IInv, SInv, Archived, [Next]_vars
    PROVE  Archived'
  <1> USE DEF Archived
  <1>1. CASE CommandMoves /\ Selects
    <2>1. txn.pc \in BackedUp /\ world' = world /\ archived' = archived
      BY <1>1 DEF CommandMoves, CommandAims, Selects, At, BackedUp, Activating
    <2> QED BY <2>1
  <1>2. CASE CommandMoves /\ KeepsSelection
    BY <1>2 DEF CommandMoves, CommandAims, KeepsSelection
  <1>3. CASE Next /\ ReplaceHost
    BY <1>3 DEF ReplaceHost, NoTxn, BackedUp, Promoting, Activating
  <1>4. CASE Aside /\ Launch
    <2>1. active' # None => world' = CurrentBuild'
      BY <1>4, LaunchesSelected DEF Aside
    <2>2. txn'.pc \notin BackedUp
      <3>1. txn = NoTxn /\ txn' = txn
        BY <1>4, AloneOnceChosen DEF Launch, Chosen, Marked
      <3> QED BY <3>1 DEF NoTxn, BackedUp, Promoting, Activating
    <2> QED BY <2>1, <2>2
  <1>5. CASE Aside /\ UNCHANGED <<world, archived>>
    BY <1>5 DEF Aside, BackedUp, Promoting, Activating
  <1>6. CASE UNCHANGED vars
    BY <1>6 DEF vars, CurrentBuild, BuildOf
  <1> QED BY <1>1, <1>2, <1>3, <1>4, <1>5, <1>6, NextMoves, ArchiveStays DEF CommandMoves

\* No session is started over an unresolved activation, nor meets one later.
LEMMA ResolvedKept ==
    ASSUME IInv, SInv, Resolved, [Next]_vars
    PROVE  Resolved'
  <1> USE DEF Resolved
  <1>0. sess \in Session
    BY DEF IInv, TransactionTypeOK
  <1>1. CASE (Transact \/ InputOutputFault \/ DeploymentPending) /\ CommandMoves
    <2>1. ~LockFree
      BY <1>1, Commands DEF CommandStep
    <2> QED BY <1>1, <2>1, AloneOnceChosen DEF CommandMoves, CommandResolves
  <1>2. CASE ReplaceHost
    BY <1>2 DEF ReplaceHost, Uninitialized
  <1>3. CASE /\ Aside
             /\ sess'.pc \in {"prepared"} \cup Chosen => sess.pc \in {"prepared"} \cup Chosen
    BY <1>3 DEF Aside
  <1>4. CASE UNCHANGED vars
    BY <1>4 DEF vars
  <1>5. ASSUME \/ Entrypoint \/ Operator \/ Environs
               \/ StartContainer \/ RequestStop \/ ServerExits,
               ~(Transact \/ InputOutputFault \/ DeploymentPending), ~ReplaceHost,
               sess'.pc \in {"prepared"} \cup Chosen
        PROVE  sess.pc \in {"prepared"} \cup Chosen
    <2> USE DEF Chosen, Marked
    <2>1. CASE Entrypoint
      <3>1. CASE PrepareStart
        BY <1>5, <3>1 DEF PrepareStart
      <3>2. CASE LockContended \/ RecordExit \/ EntrypointReturns
        BY <1>5, <3>2 DEF LockContended, RecordExit, EntrypointReturns, ContainerEnds,
           Down
      <3>3. CASE SelectRelease \/ MarkWorldOpened \/ Launch
        BY <3>3 DEF SelectRelease, MarkWorldOpened, Launch
      <3>4. CASE RuntimeReady \/ ReadinessContended
        BY <3>4 DEF RuntimeReady, ReadinessContended, Polling
      <3> QED BY <2>1, <3>1, <3>2, <3>3, <3>4 DEF Entrypoint
    <2>2. CASE Operator
      BY <1>5, <2>2 DEF Operator, Quiesce, ExplicitUpdate, Resume, Accept
    <2>3. CASE Environs
      <3>1. CASE MarkFails \/ KillContainer
        BY <1>5, <3>1 DEF MarkFails, KillContainer, ContainerEnds, Down
      <3>2. CASE ReadyFails \/ ReadinessFails
        BY <3>2 DEF ReadyFails, ReadinessFails, Polling
      <3>3. CASE KillUpdate \/ Publish
        BY <1>5, <3>3 DEF KillUpdate, Publish
      <3> QED BY <1>5, <2>3, <3>1, <3>2, <3>3 DEF Environs
    <2>4. CASE StartContainer \/ RequestStop
      BY <1>5, <2>4 DEF StartContainer, RequestStop, Down
    <2>5. CASE ServerExits
      BY <1>0, <1>5, <2>5 DEF ServerExits, Session
    <2> QED BY <1>5, <2>1, <2>2, <2>3, <2>4, <2>5
  <1> QED BY <1>1, <1>2, <1>3, <1>4, <1>5, NextMoves, CommandsMove

\* Without executed updates, the invariant of what is aimed at and what is archived,
\* beside that of the session, whether or not the host may be lost.
THEOREM PromiseInvariance ==
    ASSUME ~ExecUpdate
    PROVE  Spec => [](IInv /\ SInv /\ AimsForward /\ Archived /\ Resolved)
  <1>1. Init => AimsForward /\ Archived /\ Resolved
    BY DEF Init, AimsForward, Archived, Resolved, Aiming, HasFinal, Downloading,
       Promoting, Activating, Chosen, Marked, NoTxn, Down
  <1>2. IInv /\ SInv /\ AimsForward /\ Archived /\ Resolved /\ [Next]_vars =>
           (AimsForward /\ Archived /\ Resolved)'
    BY AimsKept, ArchivedKept, ResolvedKept
  <1> QED
    BY <1>1, <1>2, SessionInvariance, PTL DEF Spec

\* The first launch of another build finds the world archived as it is, also when the
\* world outlived the host it was last played on.
THEOREM MigrationsArchived ==
    ASSUME ~ExecUpdate
    PROVE  Spec => ArchivedBeforeMigration
  <1>1. IInv /\ SInv /\ Archived /\ [Next]_vars =>
           [/\ sess'.server # None /\ sess.server = None
            /\ world # 0 /\ world' # world
            => archived]_vars
    BY OnlyLaunchStarts, LaunchesSelected DEF Archived
  <1> QED
    BY <1>1, PromiseInvariance, PTL DEF Spec, ArchivedBeforeMigration

-----------------------------------------------------------------------------
(* GameUpdater implements ReleaseSelection *)

\* The phase that record and pointer stand for.
LEMMA PhaseIs ==
    /\ ~Committed => Phase = "settled"
    /\ ActivationTookEffect \/ upd.state = "pending-readiness" => Phase = "candidate"
    /\ upd.state \in {"starting-candidate", "runtime-ready"} => Phase = "opened"
    /\ upd.state = "failed-after-world-open" => Phase = "failed"
  BY DEF Phase, Committed, Held, ActivationTookEffect

\* What is selected, the phase and the world are those of the abstract specification.
LEMMA PhaseStays ==
    ASSUME UNCHANGED <<upd, active>> PROVE Phase' = Phase
  BY DEF Phase, ActivationTookEffect

\* The steps of a command: the selection of a build, or nothing.
LEMMA CommandsImplement ==
    ASSUME IInv, AimsForward, CommandMoves
    PROVE  [Promise!Next]_(Promise!vars)
  <1>1. CASE Selects
    <2>1. Phase = "settled" /\ Phase' = "candidate"
      <3>1. ~Committed /\ ActivationTookEffect'
        BY <1>1, Selection
      <3> QED BY <3>1, PhaseIs DEF Phase, ActivationTookEffect
    <2>2. CurrentBuild' \in Build \ Incompatible /\ CurrentBuild' >= CurrentBuild
      BY <1>1, Selection, CurrentIsBuild, BuildAssumption DEF MaybeBuild
    <2> QED BY <1>1, <2>1, <2>2 DEF Selects, Promise!Select, Promise!Next
  <1>2. CASE KeepsSelection
    <2>1. Phase' = Phase
      <3>1. CASE Committed /\ upd' = upd
        BY <1>2, <3>1, PhaseStays DEF KeepsSelection
      <3>2. CASE ActivationTookEffect /\ upd' = PendingRecord
        BY <3>2 DEF Phase, PendingRecord, IInv, TransactionTypeOK, UpdateState,
           ActivationTookEffect
      <3>3. CASE ~Committed
        <4>1. ~Committed'
          BY <1>2, <3>3 DEF KeepsSelection
        <4> QED BY <3>3, <4>1 DEF Phase, Committed, Held, ActivationTookEffect
      <3> QED BY <1>2, <3>1, <3>2, <3>3 DEF KeepsSelection
    <2> QED BY <1>2, <2>1 DEF CommandMoves, CommandAims, KeepsSelection, Promise!vars
  <1> QED BY <1>1, <1>2 DEF CommandMoves

\* mark_world_opened crosses the boundary, or finds it crossed.
LEMMA MarkImplements ==
    ASSUME IInv, Aside, world' = world,
           upd.state \in {"pending-readiness", "starting-candidate"},
           upd' = OpenedRecord
    PROVE  [Promise!Next]_(Promise!vars)
  <1>1. Phase' = "opened" /\ Phase \in {"candidate", "opened"}
    BY DEF OpenedRecord, IInv, TransactionTypeOK, UpdateState, Phase, ActivationTookEffect
  <1> QED BY <1>1 DEF Aside, Promise!Cross, Promise!Next, Promise!vars

\* The readiness of an opened candidate accepts it or awaits acceptance; its failure
\* rejects it.
LEMMA ReadyImplements ==
    ASSUME IInv, Aside, world' = world, upd.state # "pending-readiness", InReadiness,
           upd' \in {ReadyRecord, FailedRecord, Accepted(upd)}
    PROVE  [Promise!Next]_(Promise!vars)
  <1>1. Phase = "opened" /\ upd \in UpdateState
    BY DEF InReadiness, Phase, ActivationTookEffect, IInv, TransactionTypeOK
  <1>2. upd'.state \in {"current", "runtime-ready", "failed-after-world-open"}
    BY <1>1 DEF ReadyRecord, FailedRecord, Accepted, UpdateState
  <1>3. Phase' \in {"settled", "opened", "failed"}
    BY <1>2 DEF Phase, ActivationTookEffect
  <1> QED BY <1>1, <1>3 DEF Aside, Promise!Accept, Promise!Reject, Promise!Next,
             Promise!vars

\* A session's launch plays what is selected.
LEMMA LaunchImplements ==
    ASSUME IInv, SInv, Resolved, Aside, Launch
    PROVE  Promise!Next
  <1>1. upd' = upd /\ active' = active /\ Phase # "candidate"
    BY DEF Launch, durable, Resolved, SInv, SelectionStands, Chosen, Marked, Phase,
       ActivationTookEffect
  <1>2. CurrentBuild' = CurrentBuild /\ world' = CurrentBuild' /\ CurrentBuild # 0
    BY LaunchesSelected, BuildAssumption DEF Aside
  <1> QED BY <1>1, <1>2, PhaseStays DEF Promise!Play, Promise!Next

\* What the poller finds is reported of a session whose candidate is opened.
LEMMA PollingOpened == SInv /\ Polling => upd.state # "pending-readiness"
  BY DEF SInv, SelectionStands, Marked, Polling

\* A step that leaves record and world alone is none of the abstract specification.
LEMMA StutterImplements ==
    ASSUME Aside, upd' = upd, world' = world
    PROVE  UNCHANGED Promise!vars
  BY PhaseStays DEF Aside, Promise!vars

\* The steps of the entrypoint.
LEMMA EntrypointImplements ==
    ASSUME IInv, SInv, Resolved, Aside, Entrypoint
    PROVE  [Promise!Next]_(Promise!vars)
  <1>1. CASE PrepareStart \/ LockContended \/ SelectRelease \/ ReadinessContended
              \/ EntrypointReturns
    BY <1>1, StutterImplements DEF PrepareStart, LockContended, SelectRelease,
       ReadinessContended, EntrypointReturns, durable
  <1>2. CASE MarkWorldOpened
    BY <1>2, MarkImplements, StutterImplements DEF MarkWorldOpened, AwaitsWorld
  <1>3. CASE Launch
    BY <1>3, LaunchImplements
  <1>4. CASE RuntimeReady
    BY <1>4, ReadyImplements, StutterImplements, PollingOpened DEF RuntimeReady,
       ReadyRecord
  <1>5. CASE RecordExit
    <2>1. upd.state # "pending-readiness" /\ world' = world
      BY <1>5 DEF RecordExit, SInv, SelectionStands, Marked
    <2> QED BY <1>5, <2>1, ReadyImplements, StutterImplements DEF RecordExit,
               RecordReadinessFailure
  <1> QED BY <1>1, <1>2, <1>3, <1>4, <1>5 DEF Entrypoint

\* The steps of the operator and of the surroundings.
LEMMA OthersImplement ==
    ASSUME IInv, SInv, Aside, ~DeploymentPending, ~ReplaceHost,
           Operator \/ Environs \/ StartContainer \/ RequestStop \/ ServerExits
    PROVE  [Promise!Next]_(Promise!vars)
  <1>1. CASE Accept
    BY <1>1, ReadyImplements DEF Accept, InReadiness
  <1>2. CASE MarkFails
    BY <1>2, MarkImplements, StutterImplements DEF MarkFails, AwaitsWorld
  <1>3. CASE ReadyFails
    BY <1>3, ReadyImplements, StutterImplements, PollingOpened DEF ReadyFails, ReadyRecord
  <1>4. CASE ReadinessFails
    BY <1>4, ReadyImplements, StutterImplements, PollingOpened DEF ReadinessFails,
       RecordReadinessFailure
  <1>5. CASE Quiesce \/ ExplicitUpdate \/ Resume \/ KillContainer \/ KillUpdate \/ Publish
             \/ StartContainer \/ RequestStop \/ ServerExits
    BY <1>5, StutterImplements DEF Quiesce, ExplicitUpdate, Resume, KillContainer,
       KillUpdate, Publish, StartContainer, RequestStop, ServerExits, durable
  <1> QED BY <1>1, <1>2, <1>3, <1>4, <1>5 DEF Operator, Environs

\* The loss of the host is the one step that takes a selection back.
LEMMA LossImplements == ReplaceHost => Promise!Next
  BY DEF ReplaceHost, Uninitialized, Promise!Replace, Promise!Next, CurrentBuild, BuildOf,
     Phase, ActivationTookEffect

\* Without executed updates, every step of the transaction, of its recovery, of the
\* entrypoint and of the operator is a step of ReleaseSelection or leaves it alone.
THEOREM ImplementsReleaseSelection ==
    ASSUME ~ExecUpdate
    PROVE  Spec => KeepsPromise
  <1>1. Init => Promise!Init
    BY DEF Init, Promise!Init, Uninitialized, CurrentBuild, BuildOf, Phase,
       ActivationTookEffect
  <1>2. IInv /\ SInv /\ AimsForward /\ Resolved /\ [Next]_vars =>
           [Promise!Next]_(Promise!vars)
    <2> SUFFICES ASSUME IInv, SInv, AimsForward, Resolved, [Next]_vars
                 PROVE  [Promise!Next]_(Promise!vars)
      OBVIOUS
    <2>1. CASE UNCHANGED vars
      BY <2>1, PhaseStays DEF vars, Promise!vars, CurrentBuild, BuildOf
    <2>2. CASE CommandMoves
      BY <2>2, CommandsImplement
    <2>3. CASE Next /\ ~CommandMoves
      BY <2>3, NextMoves, CommandsMove, EntrypointImplements, OthersImplement,
         LossImplements
    <2> QED BY <2>1, <2>2, <2>3
  <1> QED
    BY <1>1, <1>2, PromiseInvariance, PTL DEF Spec, KeepsPromise, Promise!Spec

=============================================================================
