------------------------- MODULE GameUpdaterProofs -------------------------
(***************************************************************************)
(* Proofs about GameUpdater for every set of releases and builds, every    *)
(* policy, and with or without commands executed in the game container:    *)
(* the records agree with the releases whenever the host stops, and, the   *)
(* loss of the host included, the fallback stays complete, no directory    *)
(* with data is forgotten, and no more than two hold data.                 *)
(***************************************************************************)
EXTENDS GameUpdater, FiniteSetTheorems, TLAPS

-----------------------------------------------------------------------------
(* The inductive invariant *)

\* What update-state.json says at each step of the transaction.
BeforeDownload == {"query", "stage", "unlink-previous", "mkdir", "write-downloading"}
Downloading == {"install", "validate", "backup", "write-promoting"}
Promoting == {"rename", "write-activating"}
Activating == {"write-previous", "write-active"}

\* Steps at which the candidate directory, and the promoted one, are chosen.
HasCandidate ==
    {"write-downloading", "cleanup"} \cup Downloading \cup Promoting \cup Activating
HasFinal == Promoting \cup Activating
BeforePromotion == {"recover", "recover-write", "decide"} \cup BeforeDownload \cup
  Downloading

\* A free lock is held by nobody: no program counter, no locals.
IdleWhenFree == txn.by = "none" => txn = NoTxn

RecordAtStep ==
    /\ At("recover-write") =>
          upd.state \in Interrupted \cup {"activating"} /\ ~ActivationTookEffect
    /\ At("decide") => upd.state \notin Interrupted \cup {"activating"}
    /\ txn.pc \in BeforeDownload => upd.state \notin CandidateStates
    /\ txn.pc \in Downloading =>
          upd.state = "downloading-candidate" /\ upd.candidateRelease = txn.candidate
    /\ txn.pc \in Promoting =>
          /\ upd.state = "promoting-candidate" /\ upd.candidate = txn.latest
          /\ upd.candidateRelease = txn.candidate /\ upd.promotedRelease = txn.final
    /\ txn.pc \in Activating =>
          /\ upd.state = "activating" /\ upd.candidate = txn.latest
          /\ upd.candidateRelease = txn.final /\ upd.promotedRelease = None
    /\ At("write-pending") => ActivationTookEffect
    /\ txn.pc \in {"undo-activation", "write-undone"} =>
          upd.state = "activating" /\ ~ActivationTookEffect
    /\ txn.pc \in {"cleanup", "write-failure"} =>
          upd.state \notin Held /\ ~ActivationTookEffect

\* The staged directories are never the selected release.
StagedApart ==
    /\ txn.pc \in HasCandidate => txn.candidate \in Release /\ txn.candidate # active
    /\ txn.pc \in HasFinal =>
          txn.final \in Release /\ txn.final # active /\ txn.final # txn.candidate
    /\ txn.pc \in BeforePromotion => txn.final = None
    /\ At("cleanup") => txn.final = None \/ txn.final # active
    /\ upd.state \in Interrupted => active = None \/
          active \notin {upd.candidateRelease, upd.promotedRelease}

\* A promoted path is only recorded while it is being promoted.
PromotedOnlyPromoting ==
    /\ upd.state # "promoting-candidate" => upd.promotedRelease = None
    /\ txn.base.promotedRelease = None

\* What validation established stays true until the pointer is written.
ValidatedContent ==
    /\ txn.pc \in {"backup", "write-promoting", "rename"} =>
          Launchable(dir[txn.candidate]) /\ dir[txn.candidate] = txn.latest
    /\ txn.pc \in {"write-activating"} \cup Activating =>
          Launchable(dir[txn.final]) /\ dir[txn.final] = txn.latest
    /\ ActivationTookEffect => dir[active] = upd.candidate

TransactionTypeOK ==
    /\ upd \in UpdateState
    /\ active \in MaybeRelease /\ previous \in MaybeRelease
    /\ dir \in [Release -> Content]
    /\ txn \in Transaction
    /\ sess \in Session
    /\ op \in {"idle", "quiesced"}
    /\ branch \in Build
    /\ archived \in BOOLEAN

Consistent ==
    /\ IdleWhenFree /\ RecordAtStep /\ StagedApart /\ PromotedOnlyPromoting
    /\ ValidatedContent /\ ActiveLaunchable /\ CandidateSelected

IInv == TransactionTypeOK /\ Consistent

-----------------------------------------------------------------------------
(* Types of the operators the actions are made of *)

\* The values the actions write belong to the types they are written to.
LEMMA Members ==
    /\ \A step \in Steps : step \in Steps \cup {"idle"}
    /\ None \in MaybeRelease /\ Release \subseteq MaybeRelease
    /\ 0 \in MaybeBuild /\ Build \subseteq MaybeBuild
    /\ {Left, Absent, Empty, Partial} \subseteq Content /\ Build \subseteq Content
  BY DEF MaybeRelease, MaybeBuild, Content

LEMMA RecordTypes ==
    /\ Uninitialized \in UpdateState
    /\ NoTxn \in Transaction
    /\ Down \in Session
  BY DEF Uninitialized, UpdateState, States, NoTxn, Transaction, Down, Session,
     MaybeRelease,
         MaybeBuild

\* The records written to update-state.json are update states.
LEMMA UpdateTypes ==
    ASSUME NEW s \in UpdateState
    PROVE  /\ Observation(s) \in UpdateState
           /\ Accepted(s) \in UpdateState
  <1>1. Observation(s) \in UpdateState
    BY DEF Observation, UpdateState, States, MaybeBuild
  <1>2. Accepted(s) \in UpdateState
    BY DEF Accepted, UpdateState, States, MaybeBuild, MaybeRelease
  <1> QED BY <1>1, <1>2

\* The record recovery writes is an update state.
LEMMA RecoveredType ==
    TransactionTypeOK => NoLongerInterrupted \in UpdateState
  BY DEF TransactionTypeOK, NoLongerInterrupted, UpdateState, States, MaybeBuild,
     MaybeRelease

\* Going on to another step keeps the type of the transaction.
LEMMA GoToType ==
    ASSUME NEW step \in Steps, TransactionTypeOK, GoTo(step)
    PROVE  txn' \in Transaction
  BY DEF TransactionTypeOK, GoTo, Transaction

\* The end of a command keeps the types of the transaction and of the session.
LEMMA EndTypes ==
    TransactionTypeOK /\ (Succeed \/ Fail) => txn' \in Transaction /\ sess' \in Session
  BY RecordTypes DEF TransactionTypeOK, Succeed, Fail, Session

\* Deleting directories keeps the type of the directories.
LEMMA RemoveType ==
    ASSUME TransactionTypeOK, NEW R, Remove(R)
    PROVE  dir' \in [Release -> Content]
  BY Members DEF TransactionTypeOK, Remove

\* A deletion that fails in silence keeps it too, and touches only what it was
\* asked to delete.
LEMMA LeftBehind ==
    ASSUME TransactionTypeOK, NEW R, LeaveBehind(R)
    PROVE  /\ dir' \in [Release -> Content]
           /\ \A r \in Release \cap R : dir'[r] \in {Left, Absent}
           /\ \A r \in Release \ R : dir'[r] = dir[r]
  <1>1. PICK stuck \in SUBSET (R \ {None}) :
            dir' = [r \in Release |-> IF r \in stuck THEN Left
                                     ELSE IF r \in R THEN Absent ELSE dir[r]]
    BY DEF LeaveBehind
  <1> QED BY <1>1, Members DEF TransactionTypeOK

\* What a kill leaves of the directories has their type.
LEMMA CutShortType ==
    TransactionTypeOK /\ CutShort => dir' \in [Release -> Content]
  BY Members DEF TransactionTypeOK, CutShort

\* The end of the container keeps the types of what it changes.
LEMMA ContainerEndsType ==
    TransactionTypeOK /\ ContainerEnds =>
        sess' \in Session /\ txn' \in Transaction /\ dir' \in [Release -> Content]
  BY RecordTypes, CutShortType DEF TransactionTypeOK, ContainerEnds

\* The record of a failure before the world boundary is an update state.
LEMMA FailureType ==
    ASSUME NEW s \in UpdateState, NEW b \in MaybeBuild, NEW block \in BOOLEAN
    PROVE  PreWorldFailure(s, b, block) \in UpdateState
  BY DEF PreWorldFailure, UpdateState, States, MaybeBuild, MaybeRelease

\* Replacing the state of an update state gives one.
LEMMA StateType ==
    ASSUME NEW s \in UpdateState, NEW v \in States
    PROVE  [s EXCEPT !.state = v] \in UpdateState
  BY DEF UpdateState

\* The records written to update-state.json on the way are update states.
LEMMA RecordsType ==
    ASSUME TransactionTypeOK
    PROVE  /\ UpToDateRecord \in UpdateState
           /\ DownloadingRecord \in UpdateState
           /\ \A r \in Release : PromotingRecord(r) \in UpdateState
           /\ ActivatingRecord \in UpdateState
           /\ PendingRecord \in UpdateState
           /\ FailureRecord \in UpdateState
           /\ OpenedRecord \in UpdateState
           /\ ReadyRecord \in UpdateState
           /\ FailedRecord \in UpdateState
  <1> USE DEF States, CandidateStates, Held, Interrupted
  <1>1. upd \in UpdateState /\ txn.base \in UpdateState /\ txn.latest \in MaybeBuild
        /\ txn.candidate \in MaybeRelease /\ txn.final \in MaybeRelease
        /\ active \in MaybeRelease /\ txn.block \in BOOLEAN
    BY DEF TransactionTypeOK, Transaction
  <1>2. UpToDateRecord \in UpdateState /\ DownloadingRecord \in UpdateState
    BY <1>1, Members DEF UpToDateRecord, DownloadingRecord, UpdateState
  <1>3. \A r \in Release : PromotingRecord(r) \in UpdateState
    BY <1>1, Members DEF PromotingRecord, UpdateState
  <1>4. ActivatingRecord \in UpdateState
    BY <1>1, Members DEF ActivatingRecord, UpdateState
  <1>5. PendingRecord \in UpdateState /\ FailedRecord \in UpdateState
    BY <1>1 DEF PendingRecord, FailedRecord, UpdateState
  <1>6. FailureRecord \in UpdateState
    BY <1>1, FailureType DEF FailureRecord
  <1>7. OpenedRecord \in UpdateState
    BY <1>1 DEF OpenedRecord, UpdateState
  <1>8. ReadyRecord \in UpdateState
    <2>1. [upd EXCEPT !.state = "runtime-ready"] \in UpdateState
      BY <1>1 DEF UpdateState
    <2> QED BY <1>1, <2>1, UpdateTypes DEF ReadyRecord
  <1> QED BY <1>2, <1>3, <1>4, <1>5, <1>6, <1>7, <1>8

\* The steps of the recovery of an interrupted transaction keep the types.
LEMMA RecoveryTypes ==
    TransactionTypeOK /\ StagedApart /\ Recovery => TransactionTypeOK'
  <1> SUFFICES ASSUME TransactionTypeOK, StagedApart, Recovery PROVE TransactionTypeOK'
    OBVIOUS
  <1>1. CASE RecoverNothing
    <2>1. txn' \in Transaction
      BY <1>1, GoToType DEF TransactionTypeOK, RecoverNothing, Steps
    <2> QED BY <1>1, <2>1 DEF TransactionTypeOK, durable, RecoverNothing
  <1>2. CASE RecoverClean
    <2>1. dir' \in [Release -> Content]
      BY <1>2, RemoveType DEF TransactionTypeOK, RecoverClean
    <2>2. txn' \in Transaction
      BY <1>2, GoToType DEF TransactionTypeOK, RecoverClean, Steps
    <2> QED BY <1>2, <2>1, <2>2 DEF TransactionTypeOK, durable, RecoverClean
  <1>3. CASE RecoverWrite
    <2>1. upd' \in UpdateState
      BY <1>3, RecoveredType DEF TransactionTypeOK, RecoverWrite
    <2>2. txn' \in Transaction
      BY <1>3, GoToType DEF TransactionTypeOK, RecoverWrite, Steps
    <2> QED BY <1>3, <2>1, <2>2 DEF TransactionTypeOK, durable, RecoverWrite
  <1>4. CASE RecoverActivated
    <2>1. upd' \in UpdateState
      BY <1>4, RecordsType DEF RecoverActivated
    <2>2. txn' \in Transaction
      BY <1>4, GoToType DEF TransactionTypeOK, RecoverActivated, Steps
    <2> QED BY <1>4, <2>1, <2>2 DEF TransactionTypeOK, durable, RecoverActivated
  <1> QED
    BY <1>1, <1>2, <1>3, <1>4 DEF Recovery

\* The steps of prepare_start and explicit_update keep the types.
LEMMA DecisionTypes ==
    TransactionTypeOK /\ StagedApart /\ Decision => TransactionTypeOK'
  <1> SUFFICES ASSUME TransactionTypeOK, StagedApart, Decision PROVE TransactionTypeOK'
    OBVIOUS
  <1>1. CASE ResumeCandidate
    <2>1. txn' \in Transaction /\ sess' \in Session
      BY <1>1, EndTypes DEF TransactionTypeOK, ResumeCandidate
    <2> QED BY <1>1, <2>1 DEF TransactionTypeOK, durable, ResumeCandidate
  <1>2. CASE SkipCheck
    <2>1. upd' \in UpdateState
      BY <1>2, UpdateTypes DEF TransactionTypeOK, SkipCheck
    <2>2. txn' \in Transaction /\ sess' \in Session
      BY <1>2, EndTypes DEF TransactionTypeOK, SkipCheck
    <2> QED BY <1>2, <2>1, <2>2 DEF TransactionTypeOK, durable, SkipCheck
  <1>3. CASE DecideCheck
    <2>1. txn' \in Transaction
      BY <1>3 DEF TransactionTypeOK, DecideCheck, Transaction, Steps, MaybeBuild,
         MaybeRelease
    <2> QED BY <1>3, <2>1 DEF TransactionTypeOK, durable, DecideCheck
  <1>4. CASE UpdateRefused
    <2>1. txn' \in Transaction /\ sess' \in Session
      BY <1>4, EndTypes DEF TransactionTypeOK, UpdateRefused
    <2> QED BY <1>4, <2>1 DEF TransactionTypeOK, durable, UpdateRefused
  <1> QED
    BY <1>1, <1>2, <1>3, <1>4 DEF Decision

\* The steps of _check_and_update keep the types.
LEMMA CheckTypes ==
    TransactionTypeOK /\ StagedApart /\ Check => TransactionTypeOK'
  <1> SUFFICES ASSUME TransactionTypeOK, StagedApart, Check PROVE TransactionTypeOK'
    OBVIOUS
  <1>1. CASE NoUpdate
    <2>1. upd' \in UpdateState
      BY <1>1, RecordsType DEF NoUpdate
    <2>2. txn' \in Transaction /\ sess' \in Session
      BY <1>1, EndTypes DEF TransactionTypeOK, NoUpdate
    <2> QED BY <1>1, <2>1, <2>2 DEF TransactionTypeOK, durable, NoUpdate
  <1>2. CASE DowngradeRefused
    <2>1. txn' \in Transaction
      BY <1>2 DEF TransactionTypeOK, DowngradeRefused, Transaction, Steps, MaybeBuild,
         MaybeRelease
    <2> QED BY <1>2, <2>1 DEF TransactionTypeOK, durable, DowngradeRefused
  <1>3. CASE BlockedRefused
    <2>1. txn' \in Transaction
      BY <1>3, GoToType DEF TransactionTypeOK, BlockedRefused, Steps
    <2> QED BY <1>3, <2>1 DEF TransactionTypeOK, durable, BlockedRefused
  <1>4. CASE NewBuildFound
    <2>1. txn' \in Transaction
      BY <1>4 DEF TransactionTypeOK, NewBuildFound, Transaction, Steps, MaybeBuild,
         MaybeRelease
    <2> QED BY <1>4, <2>1 DEF TransactionTypeOK, durable, NewBuildFound
  <1> QED
    BY <1>1, <1>2, <1>3, <1>4 DEF Check

\* The steps of the staging of a candidate keep the types.
LEMMA StagingTypes ==
    TransactionTypeOK /\ StagedApart /\ Staging => TransactionTypeOK'
  <1> SUFFICES ASSUME TransactionTypeOK, StagedApart, Staging PROVE TransactionTypeOK'
    OBVIOUS
  <1>1. CASE StageRefused
    <2>1. txn' \in Transaction
      BY <1>1, GoToType DEF TransactionTypeOK, StageRefused, Steps
    <2> QED BY <1>1, <2>1 DEF TransactionTypeOK, durable, StageRefused
  <1>2. CASE DiscardPrevious
    <2>1. dir' \in [Release -> Content]
      BY <1>2, RemoveType DEF TransactionTypeOK, DiscardPrevious
    <2>2. txn' \in Transaction
      BY <1>2, GoToType DEF TransactionTypeOK, DiscardPrevious, Steps
    <2> QED BY <1>2, <2>1, <2>2 DEF TransactionTypeOK, durable, DiscardPrevious
  <1>3. CASE UnlinkPrevious
    <2>1. txn' \in Transaction
      BY <1>3, GoToType DEF TransactionTypeOK, UnlinkPrevious, Steps
    <2> QED BY <1>3, <2>1 DEF TransactionTypeOK, durable, MaybeRelease, UnlinkPrevious
  <1>4. CASE StageFirst
    <2>1. txn' \in Transaction
      BY <1>4, GoToType DEF TransactionTypeOK, StageFirst, Steps
    <2> QED BY <1>4, <2>1 DEF TransactionTypeOK, durable, StageFirst
  <1>5. CASE MakeCandidate
    <2>1. dir' \in [Release -> Content]
      BY <1>5, Members DEF TransactionTypeOK, MakeCandidate, Transaction, Content
    <2>2. txn' \in Transaction
      BY <1>5 DEF TransactionTypeOK, MakeCandidate, Transaction, Steps, MaybeBuild,
         MaybeRelease
    <2> QED BY <1>5, <2>1, <2>2 DEF TransactionTypeOK, durable, MakeCandidate
  <1>6. CASE WriteDownloading
    <2>1. upd' \in UpdateState
      BY <1>6, RecordsType DEF WriteDownloading
    <2>2. txn' \in Transaction
      BY <1>6, GoToType DEF WriteDownloading, Steps
    <2> QED BY <1>6, <2>1, <2>2 DEF TransactionTypeOK, durable, WriteDownloading
  <1>7. CASE Install
    <2>1. dir' \in [Release -> Content]
      BY <1>7, Members DEF TransactionTypeOK, Install, Transaction, Content
    <2>2. txn' \in Transaction
      BY <1>7, GoToType DEF TransactionTypeOK, Install, Steps
    <2> QED BY <1>7, <2>1, <2>2 DEF TransactionTypeOK, durable, Install
  <1>8. CASE Validate
    <2>1. txn' \in Transaction
      BY <1>8, GoToType DEF TransactionTypeOK, Validate, Steps
    <2> QED BY <1>8, <2>1 DEF TransactionTypeOK, durable, Validate
  <1>9. CASE ValidateRejects
    <2>1. txn' \in Transaction
      BY <1>9 DEF TransactionTypeOK, ValidateRejects, Transaction, Steps, MaybeBuild,
         MaybeRelease
    <2> QED BY <1>9, <2>1 DEF TransactionTypeOK, durable, ValidateRejects
  <1>10. CASE Backup
    <2>1. txn' \in Transaction
      BY <1>10, GoToType DEF TransactionTypeOK, Backup, Steps
    <2> QED BY <1>10, <2>1 DEF TransactionTypeOK, durable, Backup
  <1> QED
    BY <1>1, <1>2, <1>3, <1>4, <1>5, <1>6, <1>7, <1>8, <1>9, <1>10 DEF Staging

\* The steps of the promotion and activation of a candidate keep the types.
LEMMA ActivationTypes ==
    TransactionTypeOK /\ StagedApart /\ Activation => TransactionTypeOK'
  <1> SUFFICES ASSUME TransactionTypeOK, StagedApart, Activation PROVE TransactionTypeOK'
    OBVIOUS
  <1>1. CASE WritePromoting
    <2>1. upd' \in UpdateState
      BY <1>1, RecordsType DEF WritePromoting
    <2>2. txn' \in Transaction
      BY <1>1 DEF TransactionTypeOK, WritePromoting, Transaction, Steps, MaybeBuild,
         MaybeRelease
    <2> QED BY <1>1, <2>1, <2>2 DEF TransactionTypeOK, durable, WritePromoting
  <1>2. CASE Rename
    <2>1. dir' \in [Release -> Content]
      BY <1>2, Members DEF TransactionTypeOK, Rename, Renamed, Transaction, Content,
          StagedApart,
         HasCandidate, HasFinal, Downloading, Promoting, Activating, At
    <2>2. txn' \in Transaction
      BY <1>2, GoToType DEF TransactionTypeOK, Rename, Steps
    <2> QED BY <1>2, <2>1, <2>2 DEF TransactionTypeOK, durable, Rename
  <1>3. CASE WriteActivating
    <2>1. upd' \in UpdateState
      BY <1>3, RecordsType DEF WriteActivating
    <2>2. txn' \in Transaction
      BY <1>3, GoToType DEF WriteActivating, Steps
    <2> QED BY <1>3, <2>1, <2>2 DEF TransactionTypeOK, durable, WriteActivating
  <1>4. CASE WritePrevious
    <2>1. txn' \in Transaction
      BY <1>4, GoToType DEF TransactionTypeOK, WritePrevious, Steps
    <2> QED BY <1>4, <2>1 DEF TransactionTypeOK, durable, MaybeRelease, WritePrevious
  <1>5. CASE WriteActive
    <2>1. active' \in MaybeRelease
      BY <1>5 DEF TransactionTypeOK, WriteActive, Transaction
    <2>2. txn' \in Transaction
      BY <1>5, GoToType DEF TransactionTypeOK, WriteActive, Steps
    <2> QED BY <1>5, <2>1, <2>2 DEF TransactionTypeOK, durable, WriteActive
  <1>6. CASE WritePending
    <2>1. upd' \in UpdateState
      BY <1>6, RecordsType DEF WritePending
    <2>2. txn' \in Transaction /\ sess' \in Session
      BY <1>6, EndTypes DEF WritePending
    <2> QED BY <1>6, <2>1, <2>2 DEF TransactionTypeOK, durable, WritePending
  <1> QED
    BY <1>1, <1>2, <1>3, <1>4, <1>5, <1>6 DEF Activation

\* The steps of the end of a failed check keep the types.
LEMMA FailureTypes ==
    TransactionTypeOK /\ StagedApart /\ Failure => TransactionTypeOK'
  <1> SUFFICES ASSUME TransactionTypeOK, StagedApart, Failure PROVE TransactionTypeOK'
    OBVIOUS
  <1>1. CASE UndoActivation
    <2>1. dir' \in [Release -> Content]
      BY <1>1, RemoveType DEF TransactionTypeOK, UndoActivation
    <2>2. txn' \in Transaction
      BY <1>1, GoToType DEF TransactionTypeOK, UndoActivation, Steps
    <2> QED BY <1>1, <2>1, <2>2 DEF TransactionTypeOK, durable, UndoActivation
  <1>2. CASE WriteUndone
    <2>1. upd' \in UpdateState
      BY <1>2, RecoveredType DEF TransactionTypeOK, WriteUndone
    <2>2. txn' \in Transaction
      BY <1>2, GoToType DEF TransactionTypeOK, WriteUndone, Steps
    <2> QED BY <1>2, <2>1, <2>2 DEF TransactionTypeOK, durable, WriteUndone
  <1>3. CASE Cleanup
    <2>1. dir' \in [Release -> Content]
      BY <1>3, RemoveType DEF TransactionTypeOK, Cleanup
    <2>2. txn' \in Transaction
      BY <1>3, GoToType DEF TransactionTypeOK, Cleanup, Steps
    <2> QED BY <1>3, <2>1, <2>2 DEF TransactionTypeOK, durable, Cleanup
  <1>4. CASE WriteFailure
    <2>1. upd' \in UpdateState
      BY <1>4, RecordsType DEF WriteFailure
    <2>2. txn' \in Transaction
      BY <1>4, GoToType DEF WriteFailure, Steps
    <2> QED BY <1>4, <2>1, <2>2 DEF TransactionTypeOK, durable, WriteFailure
  <1>5. CASE HandlerRecovers
    <2>1. dir' \in [Release -> Content]
      BY <1>5, RemoveType DEF TransactionTypeOK, HandlerRecovers
    <2>2. upd' \in UpdateState
      BY <1>5, RecoveredType DEF TransactionTypeOK, HandlerRecovers
    <2> QED BY <1>5, <2>1, <2>2 DEF TransactionTypeOK, durable, HandlerRecovers
  <1>6. CASE StartKnownGood
    <2>1. txn' \in Transaction /\ sess' \in Session
      BY <1>6, EndTypes DEF TransactionTypeOK, StartKnownGood
    <2> QED BY <1>6, <2>1 DEF TransactionTypeOK, durable, StartKnownGood
  <1>7. CASE RaiseFailure
    <2>1. txn' \in Transaction /\ sess' \in Session
      BY <1>7, EndTypes DEF TransactionTypeOK, RaiseFailure
    <2> QED BY <1>7, <2>1 DEF TransactionTypeOK, durable, RaiseFailure
  <1> QED
    BY <1>1, <1>2, <1>3, <1>4, <1>5, <1>6, <1>7 DEF Failure

\* The steps of an input/output error keep the types.
LEMMA InputOutputFaultTypes ==
    TransactionTypeOK /\ StagedApart /\ InputOutputFault => TransactionTypeOK'
  <1> SUFFICES ASSUME TransactionTypeOK, StagedApart, InputOutputFault
               PROVE  TransactionTypeOK'
    OBVIOUS
  <1>1. CASE RecoverFails
    <2>1. upd' \in UpdateState
      BY <1>1, RecordsType, RecoveredType DEF TransactionTypeOK, RecoverFails
    <2>2. txn' \in Transaction /\ sess' \in Session
      BY <1>1, EndTypes DEF RecoverFails
    <2>3. dir' \in [Release -> Content]
      BY <1>1, CutShortType DEF TransactionTypeOK, RecoverFails
    <2> QED BY <1>1, <2>1, <2>2, <2>3 DEF TransactionTypeOK, durable, RecoverFails
  <1>2. CASE PrepareActiveFails
    <2>1. upd' \in UpdateState
      BY <1>2, UpdateTypes DEF TransactionTypeOK, PrepareActiveFails
    <2>2. txn' \in Transaction /\ sess' \in Session
      BY <1>2, EndTypes DEF PrepareActiveFails
    <2> QED BY <1>2, <2>1, <2>2 DEF TransactionTypeOK, durable, PrepareActiveFails
  <1>3. CASE QueryFails
    <2>1. txn' \in Transaction
      BY <1>3, GoToType DEF TransactionTypeOK, QueryFails, Steps
    <2> QED BY <1>3, <2>1 DEF TransactionTypeOK, durable, QueryFails
  <1>4. CASE PreconditionFails
    <2>1. txn' \in Transaction
      BY <1>4, GoToType DEF TransactionTypeOK, PreconditionFails, Steps
    <2>2. dir' \in [Release -> Content]
      BY <1>4, CutShortType DEF TransactionTypeOK, PreconditionFails
    <2> QED BY <1>4, <2>1, <2>2 DEF TransactionTypeOK, durable, PreconditionFails
  <1>5. CASE StagingFails
    <2>1. dir' \in [Release -> Content]
      BY <1>5, Members DEF TransactionTypeOK, StagingFails, Transaction, Content,
         StagedApart, HasCandidate, HasFinal, Downloading, Promoting, Activating, At
    <2>2. txn' \in Transaction
      BY <1>5, GoToType DEF TransactionTypeOK, StagingFails, Steps
    <2> QED BY <1>5, <2>1, <2>2 DEF TransactionTypeOK, durable, StagingFails
  <1>6. CASE PromotionFails
    <2>1. upd' \in UpdateState
      BY <1>6, RecordsType DEF TransactionTypeOK, PromotionFails
    <2>2. txn' \in Transaction
      BY <1>6, GoToType DEF PromotionFails, Steps
    <2>3. dir' \in [Release -> Content]
      BY <1>6, Members DEF TransactionTypeOK, PromotionFails, Renamed, Transaction, Content,
         StagedApart, HasCandidate, HasFinal, Downloading, Promoting, Activating, At
    <2> QED BY <1>6, <2>1, <2>2, <2>3 DEF TransactionTypeOK, durable, PromotionFails
  <1>7. CASE ActivationFails
    <2>1. active' \in MaybeRelease
      BY <1>7 DEF TransactionTypeOK, ActivationFails, Transaction
    <2>2. txn' \in Transaction
      BY <1>7, GoToType DEF TransactionTypeOK, ActivationFails, Steps
    <2> QED BY <1>7, <2>1, <2>2 DEF TransactionTypeOK, durable, ActivationFails
  <1>8. CASE StateWriteFails
    <2>1. dir' \in [Release -> Content]
      BY <1>8, RemoveType, LeftBehind, CutShortType DEF TransactionTypeOK, StateWriteFails
    <2>2. txn' \in Transaction
      BY <1>8, GoToType DEF TransactionTypeOK, StateWriteFails, Steps
    <2>3. upd' \in UpdateState
      BY <1>8, RecordsType, RecoveredType DEF TransactionTypeOK, StateWriteFails
    <2> QED BY <1>8, <2>1, <2>2, <2>3 DEF TransactionTypeOK, durable, StateWriteFails
  <1>9. CASE HandlerFails
    <2>1. txn' \in Transaction /\ sess' \in Session
      BY <1>9, EndTypes DEF HandlerFails
    <2>2. dir' \in [Release -> Content]
      BY <1>9, CutShortType DEF HandlerFails
    <2> QED BY <1>9, <2>1, <2>2 DEF TransactionTypeOK, durable, HandlerFails
  <1>10. CASE CleanupFails
    <2>1. txn' \in Transaction
      BY <1>10, GoToType DEF CleanupFails, Steps
    <2>2. dir' \in [Release -> Content]
      BY <1>10, LeftBehind DEF CleanupFails
    <2> QED BY <1>10, <2>1, <2>2 DEF TransactionTypeOK, durable, CleanupFails
  <1> QED
    BY <1>1, <1>2, <1>3, <1>4, <1>5, <1>6, <1>7, <1>8, <1>9, <1>10 DEF InputOutputFault

\* The end of the readiness poller keeps the type of the session.
LEMMA PollerType ==
    ASSUME TransactionTypeOK, NEW well \in BOOLEAN, PollerEnded(well)
    PROVE  sess' \in Session
  <1>1. PICK pc \in {"exited", "stopping", "ready"} : sess' = [sess EXCEPT !.pc = pc]
    BY DEF PollerEnded
  <1> QED BY <1>1 DEF TransactionTypeOK, Session

\* The steps of the entrypoint keep the types.
LEMMA EntrypointTypes ==
    TransactionTypeOK /\ StagedApart /\ Entrypoint => TransactionTypeOK'
  <1> SUFFICES ASSUME TransactionTypeOK, StagedApart, Entrypoint PROVE TransactionTypeOK'
    OBVIOUS
  <1>1. CASE PrepareStart
    <2>1. txn' \in Transaction
      BY <1>1, RecordTypes DEF TransactionTypeOK, PrepareStart, Begin, Transaction, Steps
    <2> QED BY <1>1, <2>1 DEF TransactionTypeOK, durable, PrepareStart
  <1>2. CASE LockContended
    <2>1. sess' \in Session /\ txn' \in Transaction /\ dir' \in [Release -> Content]
      BY <1>2, ContainerEndsType DEF TransactionTypeOK, LockContended
    <2> QED BY <1>2, <2>1 DEF TransactionTypeOK, durable, LockContended
  <1>3. CASE SelectRelease
    <2>1. sess' \in Session
      BY <1>3 DEF TransactionTypeOK, SelectRelease, Session, MaybeRelease
    <2> QED BY <1>3, <2>1 DEF TransactionTypeOK, durable, SelectRelease
  <1>4. CASE MarkWorldOpened
    <2>1. upd' \in UpdateState
      BY <1>4, RecordsType DEF TransactionTypeOK, MarkWorldOpened
    <2>2. sess' \in Session
      BY <1>4, RecordTypes DEF TransactionTypeOK, MarkWorldOpened, Session
    <2> QED BY <1>4, <2>1, <2>2 DEF TransactionTypeOK, durable, MarkWorldOpened
  <1>5. CASE Launch
    <2>1. sess' \in Session
      BY <1>5 DEF TransactionTypeOK, Launch, Session, MaybeRelease
    <2> QED BY <1>5, <2>1 DEF TransactionTypeOK, durable, Launch
  <1>6. CASE RuntimeReady
    <2>1. upd' \in UpdateState
      BY <1>6, RecordsType DEF TransactionTypeOK, RuntimeReady
    <2>2. sess' \in Session
      BY <1>6, PollerType DEF RuntimeReady
    <2> QED BY <1>6, <2>1, <2>2 DEF TransactionTypeOK, durable, RuntimeReady
  <1>7. CASE ReadinessContended
    <2>1. sess' \in Session
      BY <1>7, PollerType DEF ReadinessContended
    <2> QED BY <1>7, <2>1 DEF TransactionTypeOK, durable, ReadinessContended
  <1>8. CASE RecordExit
    <2>1. upd' \in UpdateState
      BY <1>8, RecordsType DEF TransactionTypeOK, RecordExit, RecordReadinessFailure
    <2>2. sess' \in Session /\ txn' \in Transaction /\ dir' \in [Release -> Content]
      BY <1>8, ContainerEndsType DEF RecordExit
    <2> QED BY <1>8, <2>1, <2>2 DEF TransactionTypeOK, durable, RecordExit
  <1>9. CASE EntrypointReturns
    <2>1. sess' \in Session /\ txn' \in Transaction /\ dir' \in [Release -> Content]
      BY <1>9, ContainerEndsType DEF TransactionTypeOK, EntrypointReturns
    <2> QED BY <1>9, <2>1 DEF TransactionTypeOK, durable, EntrypointReturns
  <1> QED
    BY <1>1, <1>2, <1>3, <1>4, <1>5, <1>6, <1>7, <1>8, <1>9 DEF Entrypoint

\* The steps of the operator keep the types.
LEMMA OperatorTypes ==
    TransactionTypeOK /\ StagedApart /\ Operator => TransactionTypeOK'
  <1> SUFFICES ASSUME TransactionTypeOK, StagedApart, Operator PROVE TransactionTypeOK'
    OBVIOUS
  <1>1. CASE Quiesce
    <2> QED BY <1>1 DEF TransactionTypeOK, durable, Quiesce
  <1>2. CASE ExplicitUpdate
    <2>1. txn' \in Transaction
      BY <1>2, RecordTypes DEF TransactionTypeOK, ExplicitUpdate, Begin, Transaction, Steps
    <2> QED BY <1>2, <2>1 DEF TransactionTypeOK, durable, ExplicitUpdate
  <1>3. CASE Resume
    <2> QED BY <1>3 DEF TransactionTypeOK, durable, Resume
  <1>4. CASE Accept
    <2>1. upd' \in UpdateState
      BY <1>4, UpdateTypes DEF TransactionTypeOK, Accept
    <2> QED BY <1>4, <2>1 DEF TransactionTypeOK, durable, Accept
  <1> QED
    BY <1>1, <1>2, <1>3, <1>4 DEF Operator

\* The steps of the environment keep the types.
LEMMA EnvironsTypes ==
    TransactionTypeOK /\ StagedApart /\ Environs => TransactionTypeOK'
  <1> SUFFICES ASSUME TransactionTypeOK, StagedApart, Environs PROVE TransactionTypeOK'
    OBVIOUS
  <1>1. CASE DeploymentPending
    <2>1. upd' \in UpdateState
      BY <1>1, UpdateTypes DEF TransactionTypeOK, DeploymentPending
    <2>2. txn' \in Transaction /\ sess' \in Session
      BY <1>1, EndTypes DEF TransactionTypeOK, DeploymentPending
    <2> QED BY <1>1, <2>1, <2>2 DEF TransactionTypeOK, durable, DeploymentPending
  <1>2. CASE ReadinessFails
    <2>1. upd' \in UpdateState
      BY <1>2, RecordsType DEF TransactionTypeOK, ReadinessFails, RecordReadinessFailure
    <2>2. sess' \in Session
      BY <1>2, PollerType DEF ReadinessFails
    <2> QED BY <1>2, <2>1, <2>2 DEF TransactionTypeOK, durable, ReadinessFails
  <1>3. CASE KillContainer
    <2>1. sess' \in Session /\ txn' \in Transaction /\ dir' \in [Release -> Content]
      BY <1>3, ContainerEndsType DEF TransactionTypeOK, KillContainer
    <2> QED BY <1>3, <2>1 DEF TransactionTypeOK, durable, KillContainer
  <1>4. CASE KillUpdate
    <2>1. txn' \in Transaction
      BY <1>4, RecordTypes DEF TransactionTypeOK, KillUpdate
    <2>2. dir' \in [Release -> Content]
      BY <1>4, CutShortType DEF TransactionTypeOK, KillUpdate
    <2> QED BY <1>4, <2>1, <2>2 DEF TransactionTypeOK, durable, KillUpdate
  <1>5. CASE Publish
    <2> QED BY <1>5 DEF TransactionTypeOK, durable, Publish
  <1>6. CASE ReplaceHost
    <2>1. upd' \in UpdateState /\ txn' \in Transaction /\ sess' \in Session
      BY <1>6, RecordTypes DEF TransactionTypeOK, ReplaceHost
    <2>2. dir' \in [Release -> Content]
      BY <1>6, Members DEF TransactionTypeOK, ReplaceHost
    <2> QED BY <1>6, <2>1, <2>2 DEF TransactionTypeOK, durable, MaybeRelease, ReplaceHost
  <1>7. CASE MarkFails
    <2>1. upd' \in UpdateState
      BY <1>7, RecordsType DEF TransactionTypeOK, MarkFails
    <2>2. sess' \in Session
      BY <1>7, RecordTypes DEF MarkFails
    <2> QED BY <1>7, <2>1, <2>2 DEF TransactionTypeOK, durable, MarkFails
  <1>8. CASE ReadyFails
    <2>1. upd' \in UpdateState
      BY <1>8, RecordsType DEF TransactionTypeOK, ReadyFails
    <2>2. sess' \in Session
      BY <1>8, PollerType DEF ReadyFails
    <2> QED BY <1>8, <2>1, <2>2 DEF TransactionTypeOK, durable, ReadyFails
  <1> QED
    BY <1>1, <1>2, <1>3, <1>4, <1>5, <1>6, <1>7, <1>8 DEF Environs

\* The steps of a start, a stop or an exit keep the types.
LEMMA OrdinaryTypes ==
    TransactionTypeOK /\ StagedApart /\ (StartContainer \/ RequestStop \/ ServerExits) =>
      TransactionTypeOK'
  <1> SUFFICES ASSUME TransactionTypeOK, StagedApart, (StartContainer \/ RequestStop \/
                      ServerExits)
               PROVE  TransactionTypeOK'
    OBVIOUS
  <1>1. CASE StartContainer
    <2>1. sess' \in Session
      BY <1>1 DEF TransactionTypeOK, StartContainer, Session, Down, MaybeRelease
    <2> QED BY <1>1, <2>1 DEF TransactionTypeOK, durable, StartContainer
  <1>2. CASE RequestStop
    <2>1. sess' \in Session
      BY <1>2 DEF TransactionTypeOK, RequestStop, Session
    <2> QED BY <1>2, <2>1 DEF TransactionTypeOK, durable, RequestStop
  <1>3. CASE ServerExits
    <2>1. sess' \in Session
      BY <1>3 DEF TransactionTypeOK, ServerExits, Session, MaybeRelease
    <2> QED BY <1>3, <2>1 DEF TransactionTypeOK, durable, ServerExits
  <1> QED
    BY <1>1, <1>2, <1>3

-----------------------------------------------------------------------------
(* Each step keeps the records consistent with the releases *)

\* A step that leaves the records, the selection, the directories and the
\* transaction alone preserves the invariant.
LEMMA Frame == IInv /\ UNCHANGED <<upd, active, dir, txn>> => Consistent'
  BY DEF IInv, TransactionTypeOK, Consistent, IdleWhenFree, RecordAtStep, StagedApart,
     PromotedOnlyPromoting, ValidatedContent, ActiveLaunchable, CandidateSelected,
     CandidateActive, ActivationTookEffect, Held, Interrupted, CandidateStates,
     BeforeDownload, Downloading, Promoting, Activating, HasCandidate, HasFinal,
     BeforePromotion, Launchable, At

\* A command that ends without a last write, and has spared the selected release,
\* leaves the invariant true.
LEMMA Ended ==
    ASSUME IInv, txn' = NoTxn, UNCHANGED <<upd, active>>,
           active # None => dir'[active] = dir[active]
    PROVE  Consistent'
  BY ReleaseAssumption DEF IInv, TransactionTypeOK, Consistent, IdleWhenFree, RecordAtStep,
     StagedApart, PromotedOnlyPromoting, ValidatedContent, ActiveLaunchable,
     CandidateSelected, CandidateActive, ActivationTookEffect, Held, Interrupted,
     CandidateStates, BeforeDownload, Downloading, Promoting, Activating, HasCandidate,
     HasFinal, BeforePromotion, Launchable, At, NoTxn, Uninitialized,
     UpdateState

\* No deletion, complete or cut short by a kill, concerns the selected release.
LEMMA DoomedNotActive == IInv => active \notin Doomed \cup (Debris \ {None})
  BY ReleaseAssumption DEF IInv, TransactionTypeOK, Consistent, IdleWhenFree, RecordAtStep,
     StagedApart, PromotedOnlyPromoting, ValidatedContent, ActiveLaunchable,
     CandidateSelected, CandidateActive, ActivationTookEffect, Held, Interrupted,
     CandidateStates, BeforeDownload, Downloading, Promoting, Activating, HasCandidate,
     HasFinal, BeforePromotion, Launchable, At, Doomed, Debris, ActivationLost,
     MaybeRelease, UpdateState, Transaction

\* A deletion or a download cut short leaves the selected release as it is.
LEMMA CutShortSpares ==
    ASSUME IInv, CutShort
    PROVE  active # None => dir'[active] = dir[active]
  BY DoomedNotActive DEF CutShort, IInv, TransactionTypeOK, MaybeRelease

\* A fresh name is neither the selected release nor the candidate.
LEMMA FreshApart ==
    ASSUME NEW r \in Release, Fresh(r)
    PROVE  r # active /\ r # txn.candidate
  BY DEF Fresh, Referenced

\* A command that ends, well or badly, releases the lock.
LEMMA EndsFree == Succeed \/ Fail => txn' = NoTxn
  BY DEF Succeed, Fail

\* A kill of the command that holds the lock leaves the invariant true.
LEMMA Killed == IInv /\ txn' = NoTxn /\ CutShort /\ UNCHANGED <<upd, active>> => Consistent'
  BY Ended, CutShortSpares

\* So does the end of the container, which may kill a command with it.
LEMMA ContainerEnded == IInv /\ ContainerEnds /\ UNCHANGED <<upd, active>> => Consistent'
  BY Frame, Killed DEF ContainerEnds

\* The records of a session keep the candidate that is selected.
LEMMA SessionRecords ==
    ASSUME IInv, LockFree, CandidateActive, UNCHANGED <<active, dir, txn>>,
           upd' \in {OpenedRecord, ReadyRecord, FailedRecord},
           upd.state \in Held
    PROVE  Consistent'
  <1> USE ReleaseAssumption DEF IInv, TransactionTypeOK, Consistent, IdleWhenFree, RecordAtStep,
     StagedApart, PromotedOnlyPromoting, ValidatedContent, ActiveLaunchable,
     CandidateSelected, CandidateActive, ActivationTookEffect, Held, Interrupted,
     CandidateStates, BeforeDownload, Downloading, Promoting, Activating, HasCandidate,
     HasFinal, Launchable, At, BeforePromotion
  <1>1. txn = NoTxn
    BY DEF LockFree
  <1>2. CASE upd' \in {OpenedRecord, FailedRecord}
    BY <1>1, <1>2 DEF OpenedRecord, FailedRecord, NoTxn, Uninitialized, UpdateState
  <1>3. CASE upd' = ReadyRecord
    BY <1>1, <1>3 DEF ReadyRecord, Accepted, NoTxn, Uninitialized, UpdateState
  <1> QED BY <1>2, <1>3

\* fail_readiness preserves the invariant.
LEMMA ReadinessFailureConsistent ==
    IInv /\ LockFree /\ RecordReadinessFailure /\ UNCHANGED <<active, dir, txn>> =>
      Consistent'
  BY Frame, SessionRecords DEF RecordReadinessFailure, InReadiness, CrossedAsRecorded, Held

\* So does mark_runtime_ready.
LEMMA ReadyConsistent ==
    ASSUME IInv, LockFree, InReadiness => CrossedAsRecorded, upd' = ReadyRecord,
           UNCHANGED <<active, dir, txn>>
    PROVE  Consistent'
  <1>1. CASE InReadiness
    BY <1>1, SessionRecords DEF InReadiness, CrossedAsRecorded, Held
  <1>2. CASE ~InReadiness
    BY <1>2, Frame DEF ReadyRecord
  <1> QED BY <1>1, <1>2

\* A command that takes the lock preserves the invariant.
LEMMA BegunConsistent ==
    ASSUME IInv, LockFree, NEW who \in {"session", "run", "exec"}, Begin(who), UNCHANGED
      <<upd, active, dir>>
    PROVE  Consistent'
  BY DEF IInv, TransactionTypeOK, Consistent, IdleWhenFree, RecordAtStep, StagedApart,
     PromotedOnlyPromoting, ValidatedContent, ActiveLaunchable, CandidateSelected,
     CandidateActive, ActivationTookEffect, Held, Interrupted, CandidateStates,
     BeforeDownload, Downloading, Promoting, Activating, HasCandidate, HasFinal, Launchable,
     At, BeforePromotion, LockFree, Begin, NoTxn, Uninitialized, UpdateState

\* _write_observation at the end of a start preserves the invariant.
LEMMA ObservedConsistent ==
    IInv /\ At("decide") /\ upd.state \notin Held /\ upd' = Observation(upd)
      /\ txn' = NoTxn /\ UNCHANGED <<active, dir>> => Consistent'
  <1> SUFFICES ASSUME IInv, At("decide"), upd.state \notin Held, upd' = Observation(upd),
     txn' = NoTxn, UNCHANGED <<active, dir>>
               PROVE  Consistent'
    OBVIOUS
  <1> QED BY DEF IInv, TransactionTypeOK, Consistent, IdleWhenFree, RecordAtStep,
     StagedApart, PromotedOnlyPromoting, ValidatedContent, ActiveLaunchable,
     CandidateSelected, CandidateActive, ActivationTookEffect, Held, Interrupted,
     CandidateStates, BeforeDownload, Downloading, Promoting, Activating, HasCandidate,
     HasFinal, Launchable, At, BeforePromotion, Observation, NoTxn, Uninitialized,
     UpdateState

\* A record that an activation reached the pointer, whatever the command that
\* wrote it does next, preserves the invariant.
LEMMA PendingConsistent ==
    ASSUME IInv, ActivationTookEffect, upd' = PendingRecord, UNCHANGED active,
           dir'[active] = dir[active],
           txn' = NoTxn \/ (txn.by # "none" /\ GoTo("handler"))
    PROVE  Consistent'
  <1> USE ReleaseAssumption, BuildAssumption
     DEF IInv, TransactionTypeOK, Consistent, IdleWhenFree, RecordAtStep,
     StagedApart, PromotedOnlyPromoting, ValidatedContent, ActiveLaunchable,
     CandidateSelected, CandidateActive, ActivationTookEffect, Held, Interrupted,
     CandidateStates, BeforeDownload, Downloading, Promoting, Activating, HasCandidate,
     HasFinal, Launchable, At, BeforePromotion
  <1>1. upd' = [upd EXCEPT !.state = "pending-readiness"]
    BY DEF PendingRecord
  <1>2. IdleWhenFree' /\ PromotedOnlyPromoting'
    BY <1>1 DEF GoTo, NoTxn, Uninitialized, Transaction, UpdateState
  <1>3. RecordAtStep'
    BY <1>1 DEF GoTo, NoTxn, Transaction, UpdateState
  <1>4. StagedApart'
    BY <1>1 DEF GoTo, NoTxn, Transaction, UpdateState
  <1>5. ValidatedContent' /\ ActiveLaunchable' /\ CandidateSelected'
    BY <1>1 DEF GoTo, NoTxn, Transaction, UpdateState
  <1> QED BY <1>2, <1>3, <1>4, <1>5

\* So does a record that nothing is interrupted any more.
LEMMA RecoveredConsistent ==
    ASSUME IInv, upd.state \in Interrupted \cup {"activating"}, ~ActivationTookEffect,
           upd' = NoLongerInterrupted, UNCHANGED <<active, dir>>,
           txn' = NoTxn \/ (txn.by # "none" /\ GoTo("handler"))
    PROVE  Consistent'
  <1> USE ReleaseAssumption DEF IInv, TransactionTypeOK, Consistent, IdleWhenFree, RecordAtStep,
     StagedApart, PromotedOnlyPromoting, ValidatedContent, ActiveLaunchable,
     CandidateSelected, CandidateActive, ActivationTookEffect, Held, Interrupted,
     CandidateStates, BeforeDownload, Downloading, Promoting, Activating, HasCandidate,
     HasFinal, Launchable, At, BeforePromotion
  <1>1. IdleWhenFree' /\ PromotedOnlyPromoting'
    BY DEF NoLongerInterrupted, GoTo, NoTxn, Uninitialized, Transaction, UpdateState
  <1>2. RecordAtStep'
    BY DEF NoLongerInterrupted, GoTo, NoTxn, Transaction, UpdateState
  <1>3. StagedApart'
    BY DEF NoLongerInterrupted, GoTo, NoTxn, Transaction, UpdateState
  <1>4. ValidatedContent' /\ ActiveLaunchable' /\ CandidateSelected'
    BY DEF NoLongerInterrupted, GoTo, NoTxn, Transaction, UpdateState
  <1> QED BY <1>1, <1>2, <1>3, <1>4

\* Going on to the handler is safe as long as the selected release stays as it is.
LEMMA HandlerReached ==
    ASSUME IInv, txn.by # "none", GoTo("handler"), UNCHANGED <<upd, active>>,
           active # None => dir'[active] = dir[active]
    PROVE  Consistent'
  <1> USE ReleaseAssumption DEF IInv, TransactionTypeOK, Consistent, IdleWhenFree, RecordAtStep,
     StagedApart, PromotedOnlyPromoting, ValidatedContent, ActiveLaunchable,
     CandidateSelected, CandidateActive, ActivationTookEffect, Held, Interrupted,
     CandidateStates, BeforeDownload, Downloading, Promoting, Activating, HasCandidate,
     HasFinal, Launchable, At, BeforePromotion
  <1>1. IdleWhenFree' /\ PromotedOnlyPromoting'
    BY DEF GoTo, NoTxn, Transaction
  <1>2. RecordAtStep' /\ StagedApart'
    BY DEF GoTo, Transaction
  <1>3. ValidatedContent' /\ ActiveLaunchable' /\ CandidateSelected'
    BY DEF GoTo, Transaction, UpdateState
  <1> QED BY <1>1, <1>2, <1>3

\* The steps of the recovery of an interrupted transaction keep the records consistent.
LEMMA RecoveryConsistent ==
    IInv /\ Recovery => Consistent'
  <1> SUFFICES ASSUME IInv, Recovery PROVE Consistent'
    OBVIOUS
  <1> USE ReleaseAssumption DEF IInv, TransactionTypeOK, Consistent, IdleWhenFree,
     RecordAtStep, StagedApart, PromotedOnlyPromoting, ValidatedContent, ActiveLaunchable,
     CandidateSelected, CandidateActive, ActivationTookEffect, Held, Interrupted,
     CandidateStates, BeforeDownload, Downloading, Promoting, Activating, HasCandidate,
     HasFinal, Launchable, At, BeforePromotion
  <1>1. CASE RecoverNothing
    <2>1. IdleWhenFree'
      BY <1>1 DEF RecoverNothing, GoTo, durable, Transaction, UpdateState, NoTxn
    <2>2. RecordAtStep'
      BY <1>1 DEF RecoverNothing, GoTo, durable, Transaction, UpdateState
    <2>3. StagedApart'
      BY <1>1 DEF RecoverNothing, GoTo, durable, Transaction, UpdateState
    <2>4. ValidatedContent'
      BY <1>1 DEF RecoverNothing, GoTo, durable, Transaction, UpdateState
    <2>5. PromotedOnlyPromoting' /\ ActiveLaunchable' /\ CandidateSelected'
      BY <1>1 DEF RecoverNothing, GoTo, durable, Transaction, UpdateState
    <2> QED BY <1>1, <2>1, <2>2, <2>3, <2>4, <2>5
  <1>2. CASE RecoverClean
    <2>1. IdleWhenFree'
      BY <1>2 DEF RecoverClean, GoTo, Remove, Debris, ActivationLost, Transaction,
         UpdateState, NoTxn
    <2>2. RecordAtStep'
      BY <1>2 DEF RecoverClean, GoTo, Remove, Debris, ActivationLost, Transaction,
         UpdateState
    <2>3. StagedApart'
      BY <1>2 DEF RecoverClean, GoTo, Remove, Debris, ActivationLost, Transaction,
         UpdateState
    <2>4. ValidatedContent'
      BY <1>2 DEF RecoverClean, GoTo, Remove, Debris, ActivationLost, Transaction,
         UpdateState
    <2>5. ActiveLaunchable'
      BY <1>2 DEF RecoverClean, GoTo, Remove, Debris, ActivationLost, Transaction,
         UpdateState, MaybeRelease
    <2>6. PromotedOnlyPromoting' /\ CandidateSelected'
      BY <1>2 DEF RecoverClean, GoTo, Remove, Debris, ActivationLost, Transaction,
         UpdateState
    <2> QED BY <1>2, <2>1, <2>2, <2>3, <2>4, <2>5, <2>6
  <1>3. CASE RecoverWrite
    <2>1. IdleWhenFree'
      BY <1>3 DEF RecoverWrite, NoLongerInterrupted, GoTo, Transaction, UpdateState, NoTxn
    <2>2. RecordAtStep'
      BY <1>3 DEF RecoverWrite, NoLongerInterrupted, GoTo, Transaction, UpdateState
    <2>3. StagedApart'
      BY <1>3 DEF RecoverWrite, NoLongerInterrupted, GoTo, Transaction, UpdateState
    <2>4. ValidatedContent'
      BY <1>3 DEF RecoverWrite, NoLongerInterrupted, GoTo, Transaction, UpdateState
    <2>5. PromotedOnlyPromoting' /\ ActiveLaunchable' /\ CandidateSelected'
      BY <1>3 DEF RecoverWrite, NoLongerInterrupted, GoTo, Transaction, UpdateState
    <2> QED BY <1>3, <2>1, <2>2, <2>3, <2>4, <2>5
  <1>4. CASE RecoverActivated
    <2>1. IdleWhenFree'
      BY <1>4, BuildAssumption DEF RecoverActivated, PendingRecord, GoTo, Transaction,
         UpdateState, NoTxn
    <2>2. RecordAtStep'
      BY <1>4, BuildAssumption DEF RecoverActivated, PendingRecord, GoTo, Transaction,
         UpdateState
    <2>3. StagedApart'
      BY <1>4, BuildAssumption DEF RecoverActivated, PendingRecord, GoTo, Transaction,
         UpdateState
    <2>4. ValidatedContent'
      BY <1>4, BuildAssumption DEF RecoverActivated, PendingRecord, GoTo, Transaction,
         UpdateState
    <2>5. PromotedOnlyPromoting' /\ ActiveLaunchable' /\ CandidateSelected'
      BY <1>4, BuildAssumption DEF RecoverActivated, PendingRecord, GoTo, Transaction,
         UpdateState
    <2> QED BY <1>4, <2>1, <2>2, <2>3, <2>4, <2>5
  <1> QED
    BY <1>1, <1>2, <1>3, <1>4 DEF Recovery

\* The steps of prepare_start and explicit_update keep the records consistent.
LEMMA DecisionConsistent ==
    IInv /\ Decision => Consistent'
  <1> SUFFICES ASSUME IInv, Decision PROVE Consistent'
    OBVIOUS
  <1> USE ReleaseAssumption DEF IInv, TransactionTypeOK, Consistent, IdleWhenFree,
     RecordAtStep, StagedApart, PromotedOnlyPromoting, ValidatedContent, ActiveLaunchable,
     CandidateSelected, CandidateActive, ActivationTookEffect, Held, Interrupted,
     CandidateStates, BeforeDownload, Downloading, Promoting, Activating, HasCandidate,
     HasFinal, Launchable, At, BeforePromotion
  <1>1. CASE ResumeCandidate
    BY <1>1, Ended DEF ResumeCandidate, durable, Succeed, Fail
  <1>2. CASE SkipCheck
    <2>1. IdleWhenFree'
      BY <1>2, EndsFree DEF SkipCheck, Observation, Succeed, NoTxn, Uninitialized,
         Transaction, UpdateState
    <2>2. RecordAtStep'
      BY <1>2, EndsFree DEF SkipCheck, Observation, Succeed, NoTxn, Uninitialized,
         Transaction, UpdateState
    <2>3. StagedApart'
      BY <1>2, EndsFree DEF SkipCheck, Observation, Succeed, NoTxn, Uninitialized,
         Transaction, UpdateState
    <2>4. ValidatedContent'
      BY <1>2, EndsFree DEF SkipCheck, Observation, Succeed, NoTxn, Uninitialized,
         Transaction, UpdateState
    <2>5. PromotedOnlyPromoting' /\ ActiveLaunchable' /\ CandidateSelected'
      BY <1>2, EndsFree DEF SkipCheck, Observation, Succeed, NoTxn, Uninitialized,
         Transaction, UpdateState
    <2> QED BY <1>2, <2>1, <2>2, <2>3, <2>4, <2>5
  <1>3. CASE DecideCheck
    <2>1. IdleWhenFree'
      BY <1>3 DEF DecideCheck, durable, Transaction, UpdateState, NoTxn
    <2>2. RecordAtStep'
      BY <1>3 DEF DecideCheck, durable, Transaction, UpdateState
    <2>3. StagedApart'
      BY <1>3 DEF DecideCheck, durable, Transaction, UpdateState
    <2>4. ValidatedContent'
      BY <1>3 DEF DecideCheck, durable, Transaction, UpdateState
    <2>5. PromotedOnlyPromoting' /\ ActiveLaunchable' /\ CandidateSelected'
      BY <1>3 DEF DecideCheck, durable, Transaction, UpdateState
    <2> QED BY <1>3, <2>1, <2>2, <2>3, <2>4, <2>5
  <1>4. CASE UpdateRefused
    BY <1>4, Ended DEF UpdateRefused, durable, Succeed, Fail
  <1> QED
    BY <1>1, <1>2, <1>3, <1>4 DEF Decision

\* The steps of _check_and_update keep the records consistent.
LEMMA CheckConsistent ==
    IInv /\ Check => Consistent'
  <1> SUFFICES ASSUME IInv, Check PROVE Consistent'
    OBVIOUS
  <1> USE ReleaseAssumption DEF IInv, TransactionTypeOK, Consistent, IdleWhenFree,
     RecordAtStep, StagedApart, PromotedOnlyPromoting, ValidatedContent, ActiveLaunchable,
     CandidateSelected, CandidateActive, ActivationTookEffect, Held, Interrupted,
     CandidateStates, BeforeDownload, Downloading, Promoting, Activating, HasCandidate,
     HasFinal, Launchable, At, BeforePromotion
  <1>1. CASE NoUpdate
    <2>1. IdleWhenFree'
      BY <1>1 DEF NoUpdate, UpToDateRecord, Succeed, NoTxn, Uninitialized, Transaction,
          UpdateState
    <2>2. RecordAtStep'
      BY <1>1 DEF NoUpdate, UpToDateRecord, Succeed, NoTxn, Uninitialized, Transaction,
          UpdateState
    <2>3. StagedApart'
      BY <1>1 DEF NoUpdate, UpToDateRecord, Succeed, NoTxn, Uninitialized, Transaction,
          UpdateState
    <2>4. ValidatedContent'
      BY <1>1 DEF NoUpdate, UpToDateRecord, Succeed, NoTxn, Uninitialized, Transaction,
          UpdateState
    <2>5. PromotedOnlyPromoting' /\ ActiveLaunchable' /\ CandidateSelected'
      BY <1>1 DEF NoUpdate, UpToDateRecord, Succeed, NoTxn, Uninitialized, Transaction,
          UpdateState
    <2> QED BY <1>1, <2>1, <2>2, <2>3, <2>4, <2>5
  <1>2. CASE DowngradeRefused
    <2>1. IdleWhenFree'
      BY <1>2 DEF DowngradeRefused, durable, Transaction, UpdateState, NoTxn
    <2>2. RecordAtStep'
      BY <1>2 DEF DowngradeRefused, durable, Transaction, UpdateState
    <2>3. StagedApart'
      BY <1>2 DEF DowngradeRefused, durable, Transaction, UpdateState
    <2>4. ValidatedContent'
      BY <1>2 DEF DowngradeRefused, durable, Transaction, UpdateState
    <2>5. PromotedOnlyPromoting' /\ ActiveLaunchable' /\ CandidateSelected'
      BY <1>2 DEF DowngradeRefused, durable, Transaction, UpdateState
    <2> QED BY <1>2, <2>1, <2>2, <2>3, <2>4, <2>5
  <1>3. CASE BlockedRefused
    <2>1. IdleWhenFree'
      BY <1>3 DEF BlockedRefused, GoTo, durable, Transaction, UpdateState, NoTxn
    <2>2. RecordAtStep'
      BY <1>3 DEF BlockedRefused, GoTo, durable, Transaction, UpdateState
    <2>3. StagedApart'
      BY <1>3 DEF BlockedRefused, GoTo, durable, Transaction, UpdateState
    <2>4. ValidatedContent'
      BY <1>3 DEF BlockedRefused, GoTo, durable, Transaction, UpdateState
    <2>5. PromotedOnlyPromoting' /\ ActiveLaunchable' /\ CandidateSelected'
      BY <1>3 DEF BlockedRefused, GoTo, durable, Transaction, UpdateState
    <2> QED BY <1>3, <2>1, <2>2, <2>3, <2>4, <2>5
  <1>4. CASE NewBuildFound
    <2>1. IdleWhenFree'
      BY <1>4 DEF NewBuildFound, durable, Transaction, UpdateState, NoTxn
    <2>2. RecordAtStep'
      BY <1>4 DEF NewBuildFound, durable, Transaction, UpdateState
    <2>3. StagedApart'
      BY <1>4 DEF NewBuildFound, durable, Transaction, UpdateState
    <2>4. ValidatedContent'
      BY <1>4 DEF NewBuildFound, durable, Transaction, UpdateState
    <2>5. PromotedOnlyPromoting' /\ ActiveLaunchable' /\ CandidateSelected'
      BY <1>4 DEF NewBuildFound, durable, Transaction, UpdateState
    <2> QED BY <1>4, <2>1, <2>2, <2>3, <2>4, <2>5
  <1> QED
    BY <1>1, <1>2, <1>3, <1>4 DEF Check

\* The steps of the staging of a candidate keep the records consistent.
LEMMA StagingConsistent ==
    IInv /\ Staging => Consistent'
  <1> SUFFICES ASSUME IInv, Staging PROVE Consistent'
    OBVIOUS
  <1> USE ReleaseAssumption DEF IInv, TransactionTypeOK, Consistent, IdleWhenFree,
     RecordAtStep, StagedApart, PromotedOnlyPromoting, ValidatedContent, ActiveLaunchable,
     CandidateSelected, CandidateActive, ActivationTookEffect, Held, Interrupted,
     CandidateStates, BeforeDownload, Downloading, Promoting, Activating, HasCandidate,
     HasFinal, Launchable, At, BeforePromotion
  <1>1. CASE StageRefused
    <2>1. IdleWhenFree'
      BY <1>1 DEF StageRefused, GoTo, durable, Transaction, UpdateState, NoTxn
    <2>2. RecordAtStep'
      BY <1>1 DEF StageRefused, GoTo, durable, Transaction, UpdateState
    <2>3. StagedApart'
      BY <1>1 DEF StageRefused, GoTo, durable, Transaction, UpdateState
    <2>4. ValidatedContent'
      BY <1>1 DEF StageRefused, GoTo, durable, Transaction, UpdateState
    <2>5. PromotedOnlyPromoting' /\ ActiveLaunchable' /\ CandidateSelected'
      BY <1>1 DEF StageRefused, GoTo, durable, Transaction, UpdateState
    <2> QED BY <1>1, <2>1, <2>2, <2>3, <2>4, <2>5
  <1>2. CASE DiscardPrevious
    <2>1. IdleWhenFree'
      BY <1>2 DEF DiscardPrevious, GoTo, Remove, Transaction, UpdateState, NoTxn
    <2>2. RecordAtStep'
      BY <1>2 DEF DiscardPrevious, GoTo, Remove, Transaction, UpdateState
    <2>3. StagedApart'
      BY <1>2 DEF DiscardPrevious, GoTo, Remove, Transaction, UpdateState
    <2>4. ValidatedContent'
      BY <1>2 DEF DiscardPrevious, GoTo, Remove, Transaction, UpdateState
    <2>5. ActiveLaunchable'
      BY <1>2 DEF DiscardPrevious, GoTo, Remove, Transaction, UpdateState, MaybeRelease
    <2>6. PromotedOnlyPromoting' /\ CandidateSelected'
      BY <1>2 DEF DiscardPrevious, GoTo, Remove, Transaction, UpdateState
    <2> QED BY <1>2, <2>1, <2>2, <2>3, <2>4, <2>5, <2>6
  <1>3. CASE UnlinkPrevious
    <2>1. IdleWhenFree'
      BY <1>3 DEF UnlinkPrevious, GoTo, Transaction, UpdateState, NoTxn
    <2>2. RecordAtStep'
      BY <1>3 DEF UnlinkPrevious, GoTo, Transaction, UpdateState
    <2>3. StagedApart'
      BY <1>3 DEF UnlinkPrevious, GoTo, Transaction, UpdateState
    <2>4. ValidatedContent'
      BY <1>3 DEF UnlinkPrevious, GoTo, Transaction, UpdateState
    <2>5. PromotedOnlyPromoting' /\ ActiveLaunchable' /\ CandidateSelected'
      BY <1>3 DEF UnlinkPrevious, GoTo, Transaction, UpdateState
    <2> QED BY <1>3, <2>1, <2>2, <2>3, <2>4, <2>5
  <1>4. CASE StageFirst
    <2>1. IdleWhenFree'
      BY <1>4 DEF StageFirst, GoTo, durable, Transaction, UpdateState, NoTxn
    <2>2. RecordAtStep'
      BY <1>4 DEF StageFirst, GoTo, durable, Transaction, UpdateState
    <2>3. StagedApart'
      BY <1>4 DEF StageFirst, GoTo, durable, Transaction, UpdateState
    <2>4. ValidatedContent'
      BY <1>4 DEF StageFirst, GoTo, durable, Transaction, UpdateState
    <2>5. PromotedOnlyPromoting' /\ ActiveLaunchable' /\ CandidateSelected'
      BY <1>4 DEF StageFirst, GoTo, durable, Transaction, UpdateState
    <2> QED BY <1>4, <2>1, <2>2, <2>3, <2>4, <2>5
  <1>5. CASE MakeCandidate
    <2>1. IdleWhenFree'
      BY <1>5, FreshApart DEF MakeCandidate, Transaction, UpdateState, NoTxn
    <2>2. RecordAtStep'
      BY <1>5, FreshApart DEF MakeCandidate, Transaction, UpdateState
    <2>3. StagedApart'
      BY <1>5, FreshApart DEF MakeCandidate, Transaction, UpdateState
    <2>4. ValidatedContent'
      BY <1>5, FreshApart DEF MakeCandidate, Transaction, UpdateState
    <2>5. PromotedOnlyPromoting' /\ ActiveLaunchable' /\ CandidateSelected'
      BY <1>5, FreshApart DEF MakeCandidate, Transaction, UpdateState
    <2> QED BY <1>5, <2>1, <2>2, <2>3, <2>4, <2>5
  <1>6. CASE WriteDownloading
    <2>1. IdleWhenFree'
      BY <1>6 DEF WriteDownloading, DownloadingRecord, GoTo, Transaction, UpdateState, NoTxn
    <2>2. RecordAtStep'
      BY <1>6 DEF WriteDownloading, DownloadingRecord, GoTo, Transaction, UpdateState
    <2>3. StagedApart'
      BY <1>6 DEF WriteDownloading, DownloadingRecord, GoTo, Transaction, UpdateState
    <2>4. ValidatedContent'
      BY <1>6 DEF WriteDownloading, DownloadingRecord, GoTo, Transaction, UpdateState
    <2>5. PromotedOnlyPromoting' /\ ActiveLaunchable' /\ CandidateSelected'
      BY <1>6 DEF WriteDownloading, DownloadingRecord, GoTo, Transaction, UpdateState
    <2> QED BY <1>6, <2>1, <2>2, <2>3, <2>4, <2>5
  <1>7. CASE Install
    <2>1. IdleWhenFree'
      BY <1>7 DEF Install, GoTo, Transaction, UpdateState, NoTxn
    <2>2. RecordAtStep'
      BY <1>7 DEF Install, GoTo, Transaction, UpdateState
    <2>3. StagedApart'
      BY <1>7 DEF Install, GoTo, Transaction, UpdateState
    <2>4. ValidatedContent'
      BY <1>7 DEF Install, GoTo, Transaction, UpdateState
    <2>5. PromotedOnlyPromoting' /\ ActiveLaunchable' /\ CandidateSelected'
      BY <1>7 DEF Install, GoTo, Transaction, UpdateState
    <2> QED BY <1>7, <2>1, <2>2, <2>3, <2>4, <2>5
  <1>8. CASE Validate
    <2>1. IdleWhenFree'
      BY <1>8 DEF Validate, GoTo, durable, Transaction, UpdateState, NoTxn
    <2>2. RecordAtStep'
      BY <1>8 DEF Validate, GoTo, durable, Transaction, UpdateState
    <2>3. StagedApart'
      BY <1>8 DEF Validate, GoTo, durable, Transaction, UpdateState
    <2>4. ValidatedContent'
      BY <1>8 DEF Validate, GoTo, durable, Transaction, UpdateState
    <2>5. PromotedOnlyPromoting' /\ ActiveLaunchable' /\ CandidateSelected'
      BY <1>8 DEF Validate, GoTo, durable, Transaction, UpdateState
    <2> QED BY <1>8, <2>1, <2>2, <2>3, <2>4, <2>5
  <1>9. CASE ValidateRejects
    <2>1. IdleWhenFree'
      BY <1>9 DEF ValidateRejects, durable, Transaction, UpdateState, NoTxn
    <2>2. RecordAtStep'
      BY <1>9 DEF ValidateRejects, durable, Transaction, UpdateState
    <2>3. StagedApart'
      BY <1>9 DEF ValidateRejects, durable, Transaction, UpdateState
    <2>4. ValidatedContent'
      BY <1>9 DEF ValidateRejects, durable, Transaction, UpdateState
    <2>5. PromotedOnlyPromoting' /\ ActiveLaunchable' /\ CandidateSelected'
      BY <1>9 DEF ValidateRejects, durable, Transaction, UpdateState
    <2> QED BY <1>9, <2>1, <2>2, <2>3, <2>4, <2>5
  <1>10. CASE Backup
    <2>1. IdleWhenFree'
      BY <1>10 DEF Backup, GoTo, durable, Transaction, UpdateState, NoTxn
    <2>2. RecordAtStep'
      BY <1>10 DEF Backup, GoTo, durable, Transaction, UpdateState
    <2>3. StagedApart'
      BY <1>10 DEF Backup, GoTo, durable, Transaction, UpdateState
    <2>4. ValidatedContent'
      BY <1>10 DEF Backup, GoTo, durable, Transaction, UpdateState
    <2>5. PromotedOnlyPromoting' /\ ActiveLaunchable' /\ CandidateSelected'
      BY <1>10 DEF Backup, GoTo, durable, Transaction, UpdateState
    <2> QED BY <1>10, <2>1, <2>2, <2>3, <2>4, <2>5
  <1> QED
    BY <1>1, <1>2, <1>3, <1>4, <1>5, <1>6, <1>7, <1>8, <1>9, <1>10 DEF Staging

\* The steps of the promotion and activation of a candidate keep the records consistent.
LEMMA ActivationConsistent ==
    IInv /\ Activation => Consistent'
  <1> SUFFICES ASSUME IInv, Activation PROVE Consistent'
    OBVIOUS
  <1> USE ReleaseAssumption DEF IInv, TransactionTypeOK, Consistent, IdleWhenFree,
     RecordAtStep, StagedApart, PromotedOnlyPromoting, ValidatedContent, ActiveLaunchable,
     CandidateSelected, CandidateActive, ActivationTookEffect, Held, Interrupted,
     CandidateStates, BeforeDownload, Downloading, Promoting, Activating, HasCandidate,
     HasFinal, Launchable, At, BeforePromotion
  <1>1. CASE WritePromoting
    <2>1. IdleWhenFree'
      BY <1>1, FreshApart DEF WritePromoting, PromotingRecord, Transaction, UpdateState,
         NoTxn
    <2>2. RecordAtStep'
      BY <1>1, FreshApart DEF WritePromoting, PromotingRecord, Transaction, UpdateState
    <2>3. StagedApart'
      BY <1>1, FreshApart DEF WritePromoting, PromotingRecord, Transaction, UpdateState
    <2>4. ValidatedContent'
      BY <1>1, FreshApart DEF WritePromoting, PromotingRecord, Transaction, UpdateState
    <2>5. PromotedOnlyPromoting' /\ ActiveLaunchable' /\ CandidateSelected'
      BY <1>1, FreshApart DEF WritePromoting, PromotingRecord, Transaction, UpdateState
    <2> QED BY <1>1, <2>1, <2>2, <2>3, <2>4, <2>5
  <1>2. CASE Rename
    <2>1. IdleWhenFree'
      BY <1>2 DEF Rename, Renamed, GoTo, Transaction, UpdateState, NoTxn
    <2>2. RecordAtStep'
      BY <1>2 DEF Rename, Renamed, GoTo, Transaction, UpdateState
    <2>3. StagedApart'
      BY <1>2 DEF Rename, Renamed, GoTo, Transaction, UpdateState
    <2>4. ValidatedContent'
      BY <1>2 DEF Rename, Renamed, GoTo, Transaction, UpdateState
    <2>5. ActiveLaunchable'
      BY <1>2 DEF Rename, Renamed, GoTo, Transaction, UpdateState, MaybeRelease
    <2>6. PromotedOnlyPromoting' /\ CandidateSelected'
      BY <1>2 DEF Rename, Renamed, GoTo, Transaction, UpdateState
    <2> QED BY <1>2, <2>1, <2>2, <2>3, <2>4, <2>5, <2>6
  <1>3. CASE WriteActivating
    <2>1. IdleWhenFree'
      BY <1>3 DEF WriteActivating, ActivatingRecord, GoTo, Transaction, UpdateState, NoTxn
    <2>2. RecordAtStep'
      BY <1>3 DEF WriteActivating, ActivatingRecord, GoTo, Transaction, UpdateState
    <2>3. StagedApart'
      BY <1>3 DEF WriteActivating, ActivatingRecord, GoTo, Transaction, UpdateState
    <2>4. ValidatedContent'
      BY <1>3 DEF WriteActivating, ActivatingRecord, GoTo, Transaction, UpdateState
    <2>5. PromotedOnlyPromoting' /\ ActiveLaunchable' /\ CandidateSelected'
      BY <1>3 DEF WriteActivating, ActivatingRecord, GoTo, Transaction, UpdateState
    <2> QED BY <1>3, <2>1, <2>2, <2>3, <2>4, <2>5
  <1>4. CASE WritePrevious
    <2>1. IdleWhenFree'
      BY <1>4 DEF WritePrevious, GoTo, Transaction, UpdateState, NoTxn
    <2>2. RecordAtStep'
      BY <1>4 DEF WritePrevious, GoTo, Transaction, UpdateState
    <2>3. StagedApart'
      BY <1>4 DEF WritePrevious, GoTo, Transaction, UpdateState
    <2>4. ValidatedContent'
      BY <1>4 DEF WritePrevious, GoTo, Transaction, UpdateState
    <2>5. PromotedOnlyPromoting' /\ ActiveLaunchable' /\ CandidateSelected'
      BY <1>4 DEF WritePrevious, GoTo, Transaction, UpdateState
    <2> QED BY <1>4, <2>1, <2>2, <2>3, <2>4, <2>5
  <1>5. CASE WriteActive
    <2>1. IdleWhenFree'
      BY <1>5 DEF WriteActive, GoTo, Transaction, UpdateState, NoTxn
    <2>2. RecordAtStep'
      BY <1>5 DEF WriteActive, GoTo, Transaction, UpdateState
    <2>3. StagedApart'
      BY <1>5 DEF WriteActive, GoTo, Transaction, UpdateState
    <2>4. ValidatedContent'
      BY <1>5 DEF WriteActive, GoTo, Transaction, UpdateState
    <2>5. PromotedOnlyPromoting' /\ ActiveLaunchable' /\ CandidateSelected'
      BY <1>5 DEF WriteActive, GoTo, Transaction, UpdateState
    <2> QED BY <1>5, <2>1, <2>2, <2>3, <2>4, <2>5
  <1>6. CASE WritePending
    BY <1>6, EndsFree, PendingConsistent DEF WritePending
  <1> QED
    BY <1>1, <1>2, <1>3, <1>4, <1>5, <1>6 DEF Activation

\* The steps of the end of a failed check keep the records consistent.
LEMMA FailureConsistent ==
    IInv /\ Failure => Consistent'
  <1> SUFFICES ASSUME IInv, Failure PROVE Consistent'
    OBVIOUS
  <1> USE ReleaseAssumption DEF IInv, TransactionTypeOK, Consistent, IdleWhenFree,
     RecordAtStep, StagedApart, PromotedOnlyPromoting, ValidatedContent, ActiveLaunchable,
     CandidateSelected, CandidateActive, ActivationTookEffect, Held, Interrupted,
     CandidateStates, BeforeDownload, Downloading, Promoting, Activating, HasCandidate,
     HasFinal, Launchable, At, BeforePromotion
  <1>1. CASE UndoActivation
    <2>1. IdleWhenFree'
      BY <1>1 DEF UndoActivation, GoTo, Remove, Debris, ActivationLost, Transaction,
         UpdateState, NoTxn
    <2>2. RecordAtStep'
      BY <1>1 DEF UndoActivation, GoTo, Remove, Debris, ActivationLost, Transaction,
         UpdateState
    <2>3. StagedApart'
      BY <1>1 DEF UndoActivation, GoTo, Remove, Debris, ActivationLost, Transaction,
         UpdateState
    <2>4. ValidatedContent'
      BY <1>1 DEF UndoActivation, GoTo, Remove, Debris, ActivationLost, Transaction,
         UpdateState
    <2>5. ActiveLaunchable'
      BY <1>1 DEF UndoActivation, GoTo, Remove, Debris, ActivationLost, Transaction,
         UpdateState, MaybeRelease
    <2>6. PromotedOnlyPromoting' /\ CandidateSelected'
      BY <1>1 DEF UndoActivation, GoTo, Remove, Debris, ActivationLost, Transaction,
         UpdateState
    <2> QED BY <1>1, <2>1, <2>2, <2>3, <2>4, <2>5, <2>6
  <1>2. CASE WriteUndone
    <2>1. IdleWhenFree'
      BY <1>2 DEF WriteUndone, NoLongerInterrupted, GoTo, Transaction, UpdateState, NoTxn
    <2>2. RecordAtStep'
      BY <1>2 DEF WriteUndone, NoLongerInterrupted, GoTo, Transaction, UpdateState
    <2>3. StagedApart'
      BY <1>2 DEF WriteUndone, NoLongerInterrupted, GoTo, Transaction, UpdateState
    <2>4. ValidatedContent'
      BY <1>2 DEF WriteUndone, NoLongerInterrupted, GoTo, Transaction, UpdateState
    <2>5. PromotedOnlyPromoting' /\ ActiveLaunchable' /\ CandidateSelected'
      BY <1>2 DEF WriteUndone, NoLongerInterrupted, GoTo, Transaction, UpdateState
    <2> QED BY <1>2, <2>1, <2>2, <2>3, <2>4, <2>5
  <1>3. CASE Cleanup
    <2>1. IdleWhenFree'
      BY <1>3 DEF Cleanup, GoTo, Remove, Transaction, UpdateState, NoTxn
    <2>2. RecordAtStep'
      BY <1>3 DEF Cleanup, GoTo, Remove, Transaction, UpdateState
    <2>3. StagedApart'
      BY <1>3 DEF Cleanup, GoTo, Remove, Transaction, UpdateState
    <2>4. ValidatedContent'
      BY <1>3 DEF Cleanup, GoTo, Remove, Transaction, UpdateState
    <2>5. ActiveLaunchable'
      BY <1>3 DEF Cleanup, GoTo, Remove, Transaction, UpdateState, MaybeRelease
    <2>6. PromotedOnlyPromoting' /\ CandidateSelected'
      BY <1>3 DEF Cleanup, GoTo, Remove, Transaction, UpdateState
    <2> QED BY <1>3, <2>1, <2>2, <2>3, <2>4, <2>5, <2>6
  <1>4. CASE WriteFailure
    <2>1. IdleWhenFree'
      BY <1>4 DEF WriteFailure, FailureRecord, PreWorldFailure, GoTo, NoTxn, Uninitialized,
         Transaction,
         UpdateState
    <2>2. RecordAtStep'
      BY <1>4 DEF WriteFailure, FailureRecord, PreWorldFailure, GoTo, NoTxn, Uninitialized,
         Transaction,
         UpdateState
    <2>3. StagedApart'
      BY <1>4 DEF WriteFailure, FailureRecord, PreWorldFailure, GoTo, NoTxn, Uninitialized,
         Transaction,
         UpdateState
    <2>4. ValidatedContent'
      BY <1>4 DEF WriteFailure, FailureRecord, PreWorldFailure, GoTo, NoTxn, Uninitialized,
         Transaction,
         UpdateState
    <2>5. PromotedOnlyPromoting' /\ ActiveLaunchable' /\ CandidateSelected'
      BY <1>4 DEF WriteFailure, FailureRecord, PreWorldFailure, GoTo, NoTxn, Uninitialized,
         Transaction,
         UpdateState
    <2> QED BY <1>4, <2>1, <2>2, <2>3, <2>4, <2>5
  <1>5. CASE HandlerRecovers
    <2>1. IdleWhenFree'
      BY <1>5 DEF HandlerRecovers, NoLongerInterrupted, Remove, Debris, ActivationLost,
         Transaction, UpdateState, NoTxn
    <2>2. RecordAtStep'
      BY <1>5 DEF HandlerRecovers, NoLongerInterrupted, Remove, Debris, ActivationLost,
         Transaction, UpdateState
    <2>3. StagedApart'
      BY <1>5 DEF HandlerRecovers, NoLongerInterrupted, Remove, Debris, ActivationLost,
         Transaction, UpdateState
    <2>4. ValidatedContent'
      BY <1>5 DEF HandlerRecovers, NoLongerInterrupted, Remove, Debris, ActivationLost,
         Transaction, UpdateState
    <2>5. ActiveLaunchable'
      BY <1>5 DEF HandlerRecovers, NoLongerInterrupted, Remove, Debris, ActivationLost,
         Transaction, UpdateState, MaybeRelease
    <2>6. PromotedOnlyPromoting' /\ CandidateSelected'
      BY <1>5 DEF HandlerRecovers, NoLongerInterrupted, Remove, Debris, ActivationLost,
         Transaction, UpdateState
    <2> QED BY <1>5, <2>1, <2>2, <2>3, <2>4, <2>5, <2>6
  <1>6. CASE StartKnownGood
    BY <1>6, Ended DEF StartKnownGood, durable, Succeed, Fail
  <1>7. CASE RaiseFailure
    BY <1>7, Ended DEF RaiseFailure, durable, Succeed, Fail
  <1> QED
    BY <1>1, <1>2, <1>3, <1>4, <1>5, <1>6, <1>7 DEF Failure

\* The steps of an input/output error keep the records consistent.
LEMMA InputOutputFaultConsistent ==
    IInv /\ InputOutputFault => Consistent'
  <1> SUFFICES ASSUME IInv, InputOutputFault PROVE Consistent'
    OBVIOUS
  <1> USE ReleaseAssumption DEF IInv, TransactionTypeOK, Consistent, IdleWhenFree,
     RecordAtStep, StagedApart, PromotedOnlyPromoting, ValidatedContent, ActiveLaunchable,
     CandidateSelected, CandidateActive, ActivationTookEffect, Held, Interrupted,
     CandidateStates, BeforeDownload, Downloading, Promoting, Activating, HasCandidate,
     HasFinal, Launchable, At, BeforePromotion
  <1>1. CASE RecoverFails
    <2>1. txn' = NoTxn /\ UNCHANGED active /\ (active # None => dir'[active] = dir[active])
      BY <1>1, EndsFree, CutShortSpares DEF RecoverFails
    <2>2. CASE UNCHANGED upd
      BY <2>1, <2>2, Ended
    <2>3. CASE ActivationTookEffect /\ upd' = PendingRecord
      BY <2>1, <2>3, PendingConsistent
    <2>4. CASE At("recover-write") /\ upd' = NoLongerInterrupted /\ UNCHANGED dir
      BY <2>1, <2>4, RecoveredConsistent
    <2> QED BY <1>1, <2>2, <2>3, <2>4 DEF RecoverFails
  <1>2. CASE PrepareActiveFails
    <2>1. txn' = NoTxn /\ UNCHANGED <<active, dir>>
      BY <1>2, EndsFree DEF PrepareActiveFails
    <2>2. CASE UNCHANGED upd
      BY <2>1, <2>2, Ended
    <2>3. CASE upd.state \notin Held /\ upd' = Observation(upd)
      BY <1>2, <2>1, <2>3, ObservedConsistent DEF PrepareActiveFails
    <2> QED BY <1>2, <2>2, <2>3 DEF PrepareActiveFails
  <1>3. CASE QueryFails
    <2>1. IdleWhenFree'
      BY <1>3 DEF QueryFails, GoTo, durable, Transaction, UpdateState, NoTxn
    <2>2. RecordAtStep'
      BY <1>3 DEF QueryFails, GoTo, durable, Transaction, UpdateState
    <2>3. StagedApart'
      BY <1>3 DEF QueryFails, GoTo, durable, Transaction, UpdateState
    <2>4. ValidatedContent'
      BY <1>3 DEF QueryFails, GoTo, durable, Transaction, UpdateState
    <2>5. PromotedOnlyPromoting' /\ ActiveLaunchable' /\ CandidateSelected'
      BY <1>3 DEF QueryFails, GoTo, durable, Transaction, UpdateState
    <2> QED BY <1>3, <2>1, <2>2, <2>3, <2>4, <2>5
  <1>4. CASE PreconditionFails
    <2>1. /\ UNCHANGED <<upd, active>> /\ GoTo("write-failure") /\ txn.pc \in BeforeDownload
          /\ active # None => dir'[active] = dir[active]
      BY <1>4, CutShortSpares DEF PreconditionFails
    <2>2. IdleWhenFree' /\ PromotedOnlyPromoting'
      BY <2>1 DEF GoTo, Transaction, UpdateState, NoTxn
    <2>3. RecordAtStep' /\ StagedApart'
      BY <2>1 DEF GoTo, Transaction, UpdateState
    <2>4. ValidatedContent' /\ ActiveLaunchable' /\ CandidateSelected'
      BY <2>1 DEF GoTo, Transaction, UpdateState
    <2> QED BY <2>2, <2>3, <2>4
  <1>5. CASE StagingFails
    <2>1. IdleWhenFree'
      BY <1>5 DEF StagingFails, GoTo, Transaction, UpdateState, NoTxn
    <2>2. RecordAtStep'
      BY <1>5 DEF StagingFails, GoTo, Transaction, UpdateState
    <2>3. StagedApart'
      BY <1>5 DEF StagingFails, GoTo, Transaction, UpdateState
    <2>4. ValidatedContent'
      BY <1>5 DEF StagingFails, GoTo, Transaction, UpdateState
    <2>5. PromotedOnlyPromoting' /\ ActiveLaunchable' /\ CandidateSelected'
      BY <1>5 DEF StagingFails, GoTo, Transaction, UpdateState
    <2> QED BY <1>5, <2>1, <2>2, <2>3, <2>4, <2>5
  <1>6. CASE PromotionFails
    <2>1. /\ UNCHANGED active /\ GoTo("cleanup") /\ txn.pc \in Promoting
          /\ txn.final # active /\ txn.candidate # active
      BY <1>6 DEF PromotionFails
    <2>2. active # None => dir'[active] = dir[active]
      BY <1>6, <2>1 DEF PromotionFails, Renamed, MaybeRelease
    <2>3. CASE UNCHANGED upd
      <3>1. IdleWhenFree' /\ PromotedOnlyPromoting'
        BY <2>1, <2>3 DEF GoTo, Transaction, UpdateState, NoTxn
      <3>2. RecordAtStep' /\ StagedApart'
        BY <2>1, <2>3 DEF GoTo, Transaction, UpdateState
      <3>3. ValidatedContent' /\ ActiveLaunchable' /\ CandidateSelected'
        BY <2>1, <2>2, <2>3 DEF GoTo, Transaction, UpdateState
      <3> QED BY <3>1, <3>2, <3>3
    <2>4. CASE upd' = ActivatingRecord
      <3>1. upd'.state = "activating" /\ upd'.candidateRelease = txn.final
            /\ upd'.promotedRelease = None
        BY <2>4 DEF ActivatingRecord, UpdateState
      <3>2. IdleWhenFree' /\ PromotedOnlyPromoting'
        BY <2>1, <3>1 DEF GoTo, Transaction, NoTxn
      <3>3. RecordAtStep' /\ StagedApart'
        BY <2>1, <3>1 DEF GoTo, Transaction
      <3>4. ValidatedContent' /\ ActiveLaunchable' /\ CandidateSelected'
        BY <2>1, <2>2, <3>1 DEF GoTo, Transaction
      <3> QED BY <3>2, <3>3, <3>4
    <2> QED BY <1>6, <2>3, <2>4 DEF PromotionFails
  <1>7. CASE ActivationFails
    <2>1. IdleWhenFree'
      BY <1>7 DEF ActivationFails, GoTo, Transaction, UpdateState, NoTxn
    <2>2. RecordAtStep'
      BY <1>7 DEF ActivationFails, GoTo, Transaction, UpdateState
    <2>3. StagedApart'
      BY <1>7 DEF ActivationFails, GoTo, Transaction, UpdateState
    <2>4. ValidatedContent'
      BY <1>7 DEF ActivationFails, GoTo, Transaction, UpdateState
    <2>5. PromotedOnlyPromoting' /\ ActiveLaunchable' /\ CandidateSelected'
      BY <1>7 DEF ActivationFails, GoTo, Transaction, UpdateState
    <2> QED BY <1>7, <2>1, <2>2, <2>3, <2>4, <2>5
  <1>8. CASE StateWriteFails
    <2>1. UNCHANGED active /\ GoTo("handler") /\ txn.by # "none"
      BY <1>8 DEF StateWriteFails, NoTxn
    <2>2. CASE UNCHANGED upd /\ UNCHANGED dir
      BY <2>1, <2>2, HandlerReached
    <2>11. At("write-downloading") /\ active # None => dir'[active] = dir[active]
      BY <1>8, LeftBehind DEF StateWriteFails, Remove, MaybeRelease
    <2>3. CASE UNCHANGED upd /\ At("write-downloading")
      BY <2>1, <2>3, <2>11, HandlerReached
    <2>4. CASE UNCHANGED upd /\ CutShort
      BY <2>1, <2>4, CutShortSpares, HandlerReached
    <2>5. CASE At("write-downloading") /\ upd' = DownloadingRecord
      <3>1. active # None => dir'[active] = dir[active]
        BY <2>5, <2>11
      <3>2. IdleWhenFree' /\ PromotedOnlyPromoting'
        BY <2>1, <2>5 DEF DownloadingRecord, GoTo, NoTxn, Transaction, UpdateState
      <3>3. RecordAtStep' /\ StagedApart'
        BY <2>1, <2>5 DEF DownloadingRecord, GoTo, Transaction, UpdateState
      <3>4. ValidatedContent' /\ ActiveLaunchable' /\ CandidateSelected'
        BY <2>1, <2>5, <3>1 DEF DownloadingRecord, GoTo, Transaction, UpdateState
      <3> QED BY <3>2, <3>3, <3>4
    <2>6. CASE /\ At("write-promoting") /\ UNCHANGED dir
               /\ \E r \in Release : Fresh(r) /\ upd' = PromotingRecord(r)
      <3>1. PICK r \in Release : Fresh(r) /\ upd' = PromotingRecord(r)
        BY <2>6
      <3>2. r # active /\ r # txn.candidate
        BY <3>1, FreshApart
      <3>3. IdleWhenFree' /\ PromotedOnlyPromoting'
        BY <2>1, <2>6, <3>1 DEF PromotingRecord, GoTo, NoTxn, Transaction, UpdateState
      <3>4. RecordAtStep' /\ StagedApart'
        BY <2>1, <2>6, <3>1, <3>2 DEF PromotingRecord, GoTo, Transaction, UpdateState
      <3>5. ValidatedContent' /\ ActiveLaunchable' /\ CandidateSelected'
        BY <2>1, <2>6, <3>1 DEF PromotingRecord, GoTo, Transaction, UpdateState
      <3> QED BY <3>3, <3>4, <3>5
    <2>7. CASE At("write-pending") /\ upd' = PendingRecord /\ UNCHANGED dir
      BY <2>1, <2>7, PendingConsistent
    <2>8. CASE At("write-undone") /\ upd' = NoLongerInterrupted /\ UNCHANGED dir
      BY <2>1, <2>8, RecoveredConsistent
    <2>9. CASE At("write-failure") /\ upd' = FailureRecord /\ UNCHANGED dir
      <3>1. IdleWhenFree' /\ PromotedOnlyPromoting'
        BY <2>1, <2>9 DEF FailureRecord, PreWorldFailure, GoTo, NoTxn, Transaction,
           UpdateState
      <3>2. RecordAtStep' /\ StagedApart'
        BY <2>1, <2>9 DEF FailureRecord, PreWorldFailure, GoTo, Transaction, UpdateState
      <3>3. ValidatedContent' /\ ActiveLaunchable' /\ CandidateSelected'
        BY <2>1, <2>9 DEF FailureRecord, PreWorldFailure, GoTo, Transaction, UpdateState
      <3> QED BY <3>1, <3>2, <3>3
    <2>10. CASE At("query") /\ upd' = UpToDateRecord /\ UNCHANGED dir
      <3>1. IdleWhenFree' /\ PromotedOnlyPromoting'
        BY <2>1, <2>10 DEF UpToDateRecord, GoTo, NoTxn, Transaction, UpdateState
      <3>2. RecordAtStep' /\ StagedApart'
        BY <2>1, <2>10 DEF UpToDateRecord, GoTo, Transaction, UpdateState
      <3>3. ValidatedContent' /\ ActiveLaunchable' /\ CandidateSelected'
        BY <2>1, <2>10 DEF UpToDateRecord, GoTo, Transaction, UpdateState
      <3> QED BY <3>1, <3>2, <3>3
    <2> QED
      BY <1>8, <2>2, <2>3, <2>4, <2>5, <2>6, <2>7, <2>8, <2>9, <2>10 DEF StateWriteFails
  <1>9. CASE HandlerFails
    BY <1>9, EndsFree, CutShortSpares, Ended DEF HandlerFails
  <1>10. CASE CleanupFails
    <2>1. active # None => dir'[active] = dir[active]
      BY <1>10, LeftBehind DEF CleanupFails, MaybeRelease
    <2>2. IdleWhenFree'
      BY <1>10 DEF CleanupFails, GoTo, Transaction, UpdateState, NoTxn
    <2>3. RecordAtStep'
      BY <1>10 DEF CleanupFails, GoTo, Transaction, UpdateState
    <2>4. StagedApart'
      BY <1>10 DEF CleanupFails, GoTo, Transaction, UpdateState
    <2>5. ValidatedContent'
      BY <1>10 DEF CleanupFails, GoTo, Transaction, UpdateState
    <2>6. ActiveLaunchable' /\ PromotedOnlyPromoting' /\ CandidateSelected'
      BY <1>10, <2>1 DEF CleanupFails, GoTo, Transaction, UpdateState
    <2> QED BY <1>10, <2>2, <2>3, <2>4, <2>5, <2>6
  <1> QED
    BY <1>1, <1>2, <1>3, <1>4, <1>5, <1>6, <1>7, <1>8, <1>9, <1>10 DEF InputOutputFault

\* The steps of the entrypoint keep the records consistent.
LEMMA EntrypointConsistent ==
    IInv /\ Entrypoint => Consistent'
  <1> SUFFICES ASSUME IInv, Entrypoint PROVE Consistent'
    OBVIOUS
  <1> USE ReleaseAssumption DEF IInv, TransactionTypeOK, Consistent, IdleWhenFree,
     RecordAtStep, StagedApart, PromotedOnlyPromoting, ValidatedContent, ActiveLaunchable,
     CandidateSelected, CandidateActive, ActivationTookEffect, Held, Interrupted,
     CandidateStates, BeforeDownload, Downloading, Promoting, Activating, HasCandidate,
     HasFinal, Launchable, At, BeforePromotion
  <1>1. CASE PrepareStart
    BY <1>1, BegunConsistent DEF PrepareStart, durable
  <1>2. CASE LockContended
    BY <1>2, ContainerEnded DEF LockContended
  <1>3. CASE SelectRelease
    BY <1>3, Frame DEF SelectRelease, durable
  <1>4. CASE MarkWorldOpened
    BY <1>4, Frame, SessionRecords DEF MarkWorldOpened, AwaitsWorld
  <1>5. CASE Launch
    BY <1>5, Frame DEF Launch, durable
  <1>6. CASE RuntimeReady
    BY <1>6, Frame, ReadyConsistent DEF RuntimeReady
  <1>7. CASE ReadinessContended
    BY <1>7, Frame DEF ReadinessContended, durable
  <1>8. CASE RecordExit
    <2>1. CASE UNCHANGED upd
      BY <1>8, <2>1, ContainerEnded DEF RecordExit
    <2>2. CASE LockFree /\ RecordReadinessFailure
      <3>1. UNCHANGED <<active, dir, txn>>
        BY <1>8, <2>2 DEF RecordExit, ContainerEnds, NoContainerTxn, LockFree
      <3> QED BY <2>2, <3>1, ReadinessFailureConsistent
    <2> QED BY <1>8, <2>1, <2>2 DEF RecordExit
  <1>9. CASE EntrypointReturns
    BY <1>9, ContainerEnded DEF EntrypointReturns
  <1> QED
    BY <1>1, <1>2, <1>3, <1>4, <1>5, <1>6, <1>7, <1>8, <1>9 DEF Entrypoint

\* The steps of the operator keep the records consistent.
LEMMA OperatorConsistent ==
    IInv /\ Operator => Consistent'
  <1> SUFFICES ASSUME IInv, Operator PROVE Consistent'
    OBVIOUS
  <1> USE ReleaseAssumption DEF IInv, TransactionTypeOK, Consistent, IdleWhenFree,
     RecordAtStep, StagedApart, PromotedOnlyPromoting, ValidatedContent, ActiveLaunchable,
     CandidateSelected, CandidateActive, ActivationTookEffect, Held, Interrupted,
     CandidateStates, BeforeDownload, Downloading, Promoting, Activating, HasCandidate,
     HasFinal, Launchable, At, BeforePromotion
  <1>1. CASE Quiesce
    BY <1>1, Frame DEF Quiesce, durable
  <1>2. CASE ExplicitUpdate
    BY <1>2, BegunConsistent DEF ExplicitUpdate, durable
  <1>3. CASE Resume
    BY <1>3, Frame DEF Resume, durable
  <1>4. CASE Accept
    <2>1. IdleWhenFree'
      BY <1>4 DEF Accept, Accepted, Transaction, UpdateState, NoTxn
    <2>2. RecordAtStep'
      BY <1>4 DEF Accept, Accepted, Transaction, UpdateState
    <2>3. StagedApart'
      BY <1>4 DEF Accept, Accepted, Transaction, UpdateState
    <2>4. ValidatedContent'
      BY <1>4 DEF Accept, Accepted, Transaction, UpdateState
    <2>5. PromotedOnlyPromoting' /\ ActiveLaunchable' /\ CandidateSelected'
      BY <1>4 DEF Accept, Accepted, Transaction, UpdateState
    <2> QED BY <1>4, <2>1, <2>2, <2>3, <2>4, <2>5
  <1> QED
    BY <1>1, <1>2, <1>3, <1>4 DEF Operator

\* The steps of the environment keep the records consistent.
LEMMA EnvironsConsistent ==
    IInv /\ Environs => Consistent'
  <1> SUFFICES ASSUME IInv, Environs PROVE Consistent'
    OBVIOUS
  <1> USE ReleaseAssumption DEF IInv, TransactionTypeOK, Consistent, IdleWhenFree,
     RecordAtStep, StagedApart, PromotedOnlyPromoting, ValidatedContent, ActiveLaunchable,
     CandidateSelected, CandidateActive, ActivationTookEffect, Held, Interrupted,
     CandidateStates, BeforeDownload, Downloading, Promoting, Activating, HasCandidate,
     HasFinal, Launchable, At, BeforePromotion
  <1>1. CASE DeploymentPending
    <2>1. CASE UNCHANGED upd
      BY <1>1, <2>1, EndsFree, Ended DEF DeploymentPending
    <2>2. CASE upd.state \notin Held /\ upd' = Observation(upd)
      BY <1>1, <2>2, EndsFree, ObservedConsistent DEF DeploymentPending
    <2> QED BY <1>1, <2>1, <2>2 DEF DeploymentPending
  <1>2. CASE ReadinessFails
    BY <1>2, Frame, ReadinessFailureConsistent DEF ReadinessFails
  <1>3. CASE KillContainer
    BY <1>3, ContainerEnded DEF KillContainer
  <1>4. CASE KillUpdate
    BY <1>4, Killed DEF KillUpdate
  <1>5. CASE Publish
    BY <1>5, Frame DEF Publish, durable
  <1>6. CASE ReplaceHost
    <2>1. IdleWhenFree'
      BY <1>6 DEF ReplaceHost, Transaction, UpdateState, NoTxn, Uninitialized
    <2>2. RecordAtStep'
      BY <1>6 DEF ReplaceHost, Transaction, UpdateState, NoTxn, Uninitialized
    <2>3. StagedApart'
      BY <1>6 DEF ReplaceHost, Transaction, UpdateState, NoTxn, Uninitialized
    <2>4. ValidatedContent'
      BY <1>6 DEF ReplaceHost, Transaction, UpdateState, NoTxn, Uninitialized
    <2>5. PromotedOnlyPromoting' /\ ActiveLaunchable' /\ CandidateSelected'
      BY <1>6 DEF ReplaceHost, Transaction, UpdateState, NoTxn, Uninitialized
    <2> QED BY <1>6, <2>1, <2>2, <2>3, <2>4, <2>5
  <1>7. CASE MarkFails
    BY <1>7, Frame, SessionRecords DEF MarkFails, AwaitsWorld
  <1>8. CASE ReadyFails
    BY <1>8, Frame, ReadyConsistent DEF ReadyFails
  <1> QED
    BY <1>1, <1>2, <1>3, <1>4, <1>5, <1>6, <1>7, <1>8 DEF Environs

\* The steps of a start, a stop or an exit keep the records consistent.
LEMMA OrdinaryConsistent ==
    IInv /\ (StartContainer \/ RequestStop \/ ServerExits) => Consistent'
  <1> SUFFICES ASSUME IInv, StartContainer \/ RequestStop \/ ServerExits PROVE Consistent'
    OBVIOUS
  <1> USE ReleaseAssumption DEF IInv, TransactionTypeOK, Consistent, IdleWhenFree,
     RecordAtStep, StagedApart, PromotedOnlyPromoting, ValidatedContent, ActiveLaunchable,
     CandidateSelected, CandidateActive, ActivationTookEffect, Held, Interrupted,
     CandidateStates, BeforeDownload, Downloading, Promoting, Activating, HasCandidate,
     HasFinal, Launchable, At, BeforePromotion
  <1>1. CASE StartContainer
    BY <1>1, Frame DEF StartContainer, durable
  <1>2. CASE RequestStop
    BY <1>2, Frame DEF RequestStop, durable
  <1>3. CASE ServerExits
    BY <1>3, Frame DEF ServerExits, durable
  <1> QED
    BY <1>1, <1>2, <1>3

\* Every step preserves the consistency of the records with the releases.
LEMMA NextConsistent ==
    IInv /\ [Next]_vars => Consistent'
  <1> SUFFICES ASSUME IInv, [Next]_vars PROVE Consistent'
    OBVIOUS
  <1>1. CASE Transact
    BY <1>1, RecoveryConsistent, DecisionConsistent, CheckConsistent, StagingConsistent,
       ActivationConsistent, FailureConsistent DEF Transact
  <1>2. CASE UNCHANGED vars
    BY <1>2, Frame DEF vars
  <1> QED
    BY <1>1, <1>2, InputOutputFaultConsistent, EntrypointConsistent, OperatorConsistent,
       EnvironsConsistent, OrdinaryConsistent DEF Next

\* A fresh installation is consistent.
LEMMA InitConsistent == Init => Consistent
  BY DEF Init, Uninitialized, NoTxn, IInv, TransactionTypeOK, Consistent, IdleWhenFree,
     RecordAtStep, StagedApart, PromotedOnlyPromoting, ValidatedContent, ActiveLaunchable,
     CandidateSelected, CandidateActive, ActivationTookEffect, Held, Interrupted,
     CandidateStates, BeforeDownload, Downloading, Promoting, Activating, HasCandidate,
     HasFinal, Launchable, At, BeforePromotion

-----------------------------------------------------------------------------
(* The theorems *)

\* A fresh installation satisfies the invariant.
LEMMA InitInvariant == Init => IInv
  <1>1. Init => TransactionTypeOK
    BY RecordTypes, Members DEF Init, TransactionTypeOK
  <1> QED
    BY <1>1, InitConsistent DEF IInv

\* Every step keeps the types.
LEMMA NextTypes ==
    IInv /\ [Next]_vars => TransactionTypeOK'
  <1> SUFFICES ASSUME IInv, [Next]_vars PROVE TransactionTypeOK'
    OBVIOUS
  <1>1. TransactionTypeOK /\ StagedApart
    BY DEF IInv, Consistent
  <1>2. CASE Transact
    BY <1>1, <1>2, RecoveryTypes, DecisionTypes, CheckTypes, StagingTypes, ActivationTypes,
       FailureTypes DEF Transact
  <1>3. CASE UNCHANGED vars
    BY <1>1, <1>3 DEF TransactionTypeOK, vars, durable
  <1> QED
    BY <1>1, <1>2, <1>3, InputOutputFaultTypes, EntrypointTypes, OperatorTypes,
       EnvironsTypes,
       OrdinaryTypes DEF Next

\* At every moment update-state.json, the pointers, the release directories and
\* the command that holds the lock agree with each other.
THEOREM Invariance == Spec => []IInv
  <1>1. IInv /\ [Next]_vars => IInv'
    BY NextTypes, NextConsistent DEF IInv
  <1> QED
    BY InitInvariant, <1>1, PTL DEF Spec

\* Whatever fails or is killed, active-release selects nothing or a complete
\* installation whose launcher is supported.
THEOREM SelectionLaunchable == Spec => []ActiveLaunchable
  <1>1. IInv => ActiveLaunchable
    BY DEF IInv, Consistent
  <1> QED
    BY <1>1, Invariance, PTL

\* A candidate that awaits or has crossed the world boundary is the selected
\* release, with the recorded build.
THEOREM CandidateIsSelected == Spec => []CandidateSelected
  <1>1. IInv => CandidateSelected
    BY DEF IInv, Consistent
  <1> QED
    BY <1>1, Invariance, PTL

\* Automation never leaves failed-after-world-open, and selects no other release
\* while a candidate awaits or has crossed the world boundary.
LEMMA HeldStays ==
    ASSUME ~HostReplacement, IInv, Next
    PROVE  /\ upd.state \in Held => active' = active
           /\ upd.state = "failed-after-world-open" => UNCHANGED <<upd, active>>
  <1> USE DEF IInv, Consistent, RecordAtStep, At, durable
  <1>1. CASE Recovery
    BY <1>1 DEF Recovery, RecoverNothing, RecoverClean, RecoverWrite, RecoverActivated,
       Interrupted, Held, ActivationTookEffect
  <1>2. CASE Decision
    BY <1>2 DEF Decision, ResumeCandidate, SkipCheck, DecideCheck, UpdateRefused, Held
  <1>3. CASE Check
    BY <1>3 DEF Check, NoUpdate, DowngradeRefused, BlockedRefused, NewBuildFound,
       BeforeDownload, CandidateStates, Held
  <1>4. CASE Staging
    BY <1>4 DEF Staging, StageRefused, DiscardPrevious, UnlinkPrevious, StageFirst,
       MakeCandidate, WriteDownloading, Install, Validate, ValidateRejects, Backup,
       BeforeDownload, CandidateStates, Held
  <1>5. CASE Activation
    BY <1>5 DEF Activation, WritePromoting, Rename, WriteActivating, WritePrevious,
       WriteActive, WritePending, Downloading, Promoting, Activating, Held,
       ActivationTookEffect
  <1>6. CASE Failure
    BY <1>6 DEF Failure, UndoActivation, WriteUndone, Cleanup, WriteFailure,
       HandlerRecovers, Uncleaned, StartKnownGood, RaiseFailure, Held, Interrupted
  <1>7. CASE InputOutputFault
    BY <1>7 DEF InputOutputFault, RecoverFails, PrepareActiveFails, QueryFails,
       PreconditionFails, StagingFails, PromotionFails, ActivationFails, StateWriteFails,
       CleanupFails, HandlerFails, Uncleaned,
       BeforeDownload, Downloading, Promoting, Activating, Held, Interrupted,
       CandidateStates, ActivationTookEffect
  <1>8. CASE Entrypoint
    BY <1>8 DEF Entrypoint, PrepareStart, LockContended, SelectRelease, MarkWorldOpened,
       Launch, RuntimeReady, ReadinessContended, RecordExit, EntrypointReturns,
       AwaitsWorld, InReadiness, ReadyRecord, RecordReadinessFailure
  <1>9. CASE Operator
    BY <1>9 DEF Operator, Quiesce, ExplicitUpdate, Resume, Accept
  <1>10. CASE Environs
    BY <1>10 DEF Environs, DeploymentPending, ReadinessFails, KillContainer, KillUpdate,
       Publish, ReplaceHost, MarkFails, ReadyFails, Held, AwaitsWorld, InReadiness,
       ReadyRecord, RecordReadinessFailure
  <1>11. CASE StartContainer \/ RequestStop \/ ServerExits
    BY <1>11 DEF StartContainer, RequestStop, ServerExits
  <1> QED
    BY <1>1, <1>2, <1>3, <1>4, <1>5, <1>6, <1>7, <1>8, <1>9, <1>10, <1>11
       DEF Next, Transact

\* While a candidate awaits or has crossed the world boundary, no step selects
\* another release, unless the disk that holds the selection is lost.
THEOREM SelectionIsSettled ==
    ASSUME ~HostReplacement
    PROVE  Spec => SelectionSettled
  <1>1. IInv /\ [Next]_vars => [upd.state \in Held => active' = active]_vars
    BY HeldStays DEF vars
  <1> QED
    BY <1>1, Invariance, PTL DEF Spec, SelectionSettled

\* Nor does any command leave failed-after-world-open.
THEOREM FailureIsFinal ==
    ASSUME ~HostReplacement
    PROVE  Spec => FailedStaysSelected
  <1>1. IInv /\ [Next]_vars =>
           [upd.state = "failed-after-world-open" => UNCHANGED <<upd, active>>]_vars
    BY HeldStays DEF vars
  <1> QED
    BY <1>1, Invariance, PTL DEF Spec, FailedStaysSelected

-----------------------------------------------------------------------------
(* What an update keeps and what it forgets: the strengthened invariant *)

\* The releases that hold data and that no failed cleanup left behind.
Holding == {r \in Release : Populated(r)}

\* From the moment the pointer selects the candidate.
Committed == upd.state \in Held \/ ActivationTookEffect

\* The fallback is complete and named from then on, not only once it is recorded.
FallbackReady ==
    Committed /\ upd.previousRelease # None =>
        previous = upd.previousRelease /\ Launchable(dir[previous])

\* Steps between the removal of the old fallback and the writing of the new one.
WithoutPrevious ==
    {"mkdir", "write-downloading", "write-previous"} \cup Downloading \cup Promoting

\* What previous-release says at each step, and in each state left behind.
PreviousAtStep ==
    /\ txn.pc \in HasFinal \cup {"undo-activation"} => upd.previousRelease = active
    /\ At("write-active") => previous = active
    /\ At("unlink-previous") => previous \in {active} \/ previous \notin Holding
    /\ txn.pc \in WithoutPrevious => previous = None
    /\ active = None => previous = None
    /\ upd.state \in Interrupted => previous = None
    /\ upd.state = "activating" /\ ~ActivationTookEffect => previous \in {None, active}

\* A candidate is only recorded while there is one.
CandidateOnlyPending ==
    /\ upd.state \notin CandidateStates => upd.candidateRelease = None
    /\ txn.base.candidateRelease = None

\* Everything that holds data is still spoken of.
Accounted ==
    Holding \subseteq {active, previous, upd.candidateRelease, upd.promotedRelease}

Staged == {upd.candidateRelease, upd.promotedRelease}

\* What a step is about to forget holds no data.
Forgettable ==
    /\ txn.pc \in {"recover-write", "write-undone", "write-failure"} =>
          Staged \cap Holding = {}
    /\ At("write-activating") => txn.candidate \notin Holding
    /\ At("cleanup") => Staged \subseteq {None, txn.candidate, txn.final}

\* The data of a promotion is in one of its two places.
OnePlace ==
    upd.state = "promoting-candidate" =>
        upd.candidateRelease \notin Holding \/ upd.promotedRelease \notin Holding

FInv ==
    /\ FallbackReady /\ PreviousAtStep /\ CandidateOnlyPending
    /\ Accounted /\ Forgettable /\ OnePlace

-----------------------------------------------------------------------------
(* What a step does to the directories that hold data *)

\* A step that leaves the directories alone leaves their data alone.
LEMMA HoldingKept == UNCHANGED dir => Holding' = Holding
  BY DEF Holding, Populated

\* A deletion takes exactly the data of what it deletes.
LEMMA HoldingRemoved ==
    ASSUME IInv, NEW R, Remove(R)
    PROVE  Holding' = Holding \ R
  BY DEF Holding, Populated, Remove, IInv, TransactionTypeOK, Content

\* So does one that fails in silence: what it leaves is not counted any more.
LEMMA HoldingLeft ==
    ASSUME IInv, NEW R, LeaveBehind(R)
    PROVE  Holding' = Holding \ R
  BY LeftBehind DEF Holding, Populated, IInv

\* A deletion cut short may leave any data, and only a download brings some.
LEMMA HoldingCut ==
    ASSUME IInv, CutShort
    PROVE  Holding' \subseteq Holding \cup {r \in {txn.candidate} : At("install")}
  <1>1. PICK gone \in SUBSET Doomed,
             half \in SUBSET {r \in Doomed : Divisible(r)} :
             dir' = [r \in Release |-> IF r \in half THEN Partial
                                       ELSE IF r \in gone THEN Absent ELSE dir[r]]
    BY DEF CutShort
  <1>2. At("install") => Doomed = {txn.candidate}
    BY DEF Doomed, At
  <1> SUFFICES ASSUME NEW r \in Holding'
               PROVE  r \in Holding \cup {c \in {txn.candidate} : At("install")}
    OBVIOUS
  <1>3. r \in Release /\ dir'[r] \notin {Left, Absent, Empty}
    BY DEF Holding, Populated
  <1>4. CASE r \in half
    BY <1>1, <1>2, <1>3, <1>4 DEF Holding, Populated, Divisible
  <1>5. CASE r \notin half
    BY <1>1, <1>3, <1>5 DEF Holding, Populated
  <1> QED BY <1>4, <1>5

\* Only releases hold data, and none of the names that are taken for new ones.
LEMMA HoldingType == Holding \subseteq Release /\ None \notin Holding
  BY ReleaseAssumption DEF Holding

\* A directory that is fresh holds nothing.
LEMMA FreshEmpty ==
    ASSUME NEW r \in Release, Fresh(r)
    PROVE  r \notin Holding
  BY DEF Fresh, Holding, Populated

\* A new directory is empty, a download fills the candidate's, and a promotion
\* moves the data of the one to the other.
LEMMA HoldingStaged ==
    ASSUME IInv
    PROVE  /\ MakeCandidate => Holding' \subseteq Holding
           /\ Install \/ StagingFails => Holding' \subseteq Holding \cup {txn.candidate}
           /\ dir' = Renamed /\ txn.candidate \in Release =>
                Holding' \subseteq (Holding \ {txn.candidate}) \cup {txn.final}
  <1> USE DEF IInv, TransactionTypeOK, Holding, Populated
  <1>1. ASSUME MakeCandidate, NEW r \in Holding' PROVE r \in Holding
    BY <1>1 DEF MakeCandidate, Fresh
  <1>2. ASSUME Install \/ StagingFails, NEW r \in Holding' PROVE r \in Holding \cup {txn.candidate}
    BY <1>2 DEF Install, StagingFails
  <1>3. ASSUME dir' = Renamed, txn.candidate \in Release, NEW r \in Holding'
        PROVE  r \in (Holding \ {txn.candidate}) \cup {txn.final}
    BY <1>3 DEF Renamed
  <1> QED BY <1>1, <1>2, <1>3

\* Once the pointer selects the candidate, nothing is deleted.
LEMMA CommittedKeeps == IInv /\ Committed => Doomed = {} /\ Debris = {}
  BY DEF IInv, Consistent, RecordAtStep, Committed, Doomed, Debris, ActivationLost,
     ActivationTookEffect, Held, Interrupted, CandidateStates, BeforeDownload, Downloading,
     At

\* So a kill changes no directory then.
LEMMA CommittedCut == IInv /\ Committed /\ CutShort => UNCHANGED dir
  <1> SUFFICES ASSUME IInv, Committed, CutShort PROVE UNCHANGED dir
    OBVIOUS
  <1>1. dir' = [r \in Release |-> dir[r]]
    BY CommittedKeeps DEF CutShort
  <1> QED BY <1>1 DEF IInv, TransactionTypeOK

-----------------------------------------------------------------------------
(* Each step preserves the invariant *)

\* A step that leaves records, pointers, directories and transaction alone preserves the
\* invariant.
LEMMA QuietKept ==
    ASSUME IInv, FInv, UNCHANGED <<upd, active, previous, dir, txn>>
    PROVE  FInv'
  <1> USE ReleaseAssumption, HoldingType DEF IInv, TransactionTypeOK, Consistent, IdleWhenFree,
     RecordAtStep, StagedApart, PromotedOnlyPromoting, FInv, FallbackReady, PreviousAtStep,
     CandidateOnlyPending, Accounted, Staged, Forgettable, OnePlace, Committed,
     ActivationTookEffect, Held, Interrupted, CandidateStates, BeforeDownload, Downloading,
     Promoting, Activating, HasCandidate, HasFinal, BeforePromotion, WithoutPrevious, At
  <1>1. Holding' = Holding
    BY HoldingKept
  <1>10. FallbackReady'
    BY <1>1 DEF UpdateState
  <1>11. PreviousAtStep'
    BY <1>1 DEF UpdateState
  <1>12. CandidateOnlyPending'
    BY <1>1 DEF UpdateState
  <1>13. Accounted'
    BY <1>1 DEF UpdateState
  <1>14. Forgettable' /\ OnePlace'
    BY <1>1 DEF UpdateState
  <1> QED BY <1>10, <1>11, <1>12, <1>13, <1>14

\* So does the end of a command.
LEMMA EndsKept ==
    ASSUME IInv, FInv, txn' = NoTxn, UNCHANGED <<upd, active, previous, dir>>
    PROVE  FInv'
  <1> USE ReleaseAssumption, HoldingType DEF IInv, TransactionTypeOK, Consistent, IdleWhenFree,
     RecordAtStep, StagedApart, PromotedOnlyPromoting, FInv, FallbackReady, PreviousAtStep,
     CandidateOnlyPending, Accounted, Staged, Forgettable, OnePlace, Committed,
     ActivationTookEffect, Held, Interrupted, CandidateStates, BeforeDownload, Downloading,
     Promoting, Activating, HasCandidate, HasFinal, BeforePromotion, WithoutPrevious, At
  <1>1. Holding' = Holding
    BY HoldingKept
  <1>10. FallbackReady'
    BY <1>1 DEF NoTxn, Uninitialized, UpdateState
  <1>11. PreviousAtStep'
    BY <1>1 DEF NoTxn, Uninitialized, UpdateState
  <1>12. CandidateOnlyPending'
    BY <1>1 DEF NoTxn, Uninitialized, UpdateState
  <1>13. Accounted'
    BY <1>1 DEF NoTxn, Uninitialized, UpdateState
  <1>14. Forgettable' /\ OnePlace'
    BY <1>1 DEF NoTxn, Uninitialized, UpdateState
  <1> QED BY <1>10, <1>11, <1>12, <1>13, <1>14

\* Also when it is killed, and a deletion or a download with it.
LEMMA CutEnds ==
    ASSUME IInv, FInv, txn' = NoTxn, CutShort, UNCHANGED <<upd, active, previous>>
    PROVE  FInv'
  <1> USE ReleaseAssumption, HoldingType DEF IInv, TransactionTypeOK, Consistent, IdleWhenFree,
     RecordAtStep, StagedApart, PromotedOnlyPromoting, FInv, FallbackReady, PreviousAtStep,
     CandidateOnlyPending, Accounted, Staged, Forgettable, OnePlace, Committed,
     ActivationTookEffect, Held, Interrupted, CandidateStates, BeforeDownload, Downloading,
     Promoting, Activating, HasCandidate, HasFinal, BeforePromotion, WithoutPrevious, At
  <1>1. Holding' \subseteq Holding \cup {r \in {txn.candidate} : At("install")}
    BY HoldingCut
  <1>2. Committed => UNCHANGED dir
    BY CommittedCut
  <1>10. FallbackReady'
    BY <1>1, <1>2 DEF NoTxn, Uninitialized, UpdateState
  <1>11. PreviousAtStep'
    BY <1>1, <1>2 DEF NoTxn, Uninitialized, UpdateState
  <1>12. CandidateOnlyPending'
    BY <1>1, <1>2 DEF NoTxn, Uninitialized, UpdateState
  <1>13. Accounted'
    BY <1>1, <1>2 DEF NoTxn, Uninitialized, UpdateState
  <1>14. Forgettable' /\ OnePlace'
    BY <1>1, <1>2 DEF NoTxn, Uninitialized, UpdateState
  <1> QED BY <1>10, <1>11, <1>12, <1>13, <1>14

\* So does the end of the container, which may kill a command with it.
LEMMA ContainerKept ==
    IInv /\ FInv /\ ContainerEnds /\ UNCHANGED <<upd, active, previous>> => FInv'
  BY QuietKept, CutEnds DEF ContainerEnds

\* Going on to the handler forgets nothing.
LEMMA HandlerKept ==
    ASSUME IInv, FInv, GoTo("handler"), UNCHANGED <<upd, active, previous, dir>>
    PROVE  FInv'
  <1> USE ReleaseAssumption, HoldingType DEF IInv, TransactionTypeOK, Consistent, IdleWhenFree,
     RecordAtStep, StagedApart, PromotedOnlyPromoting, FInv, FallbackReady, PreviousAtStep,
     CandidateOnlyPending, Accounted, Staged, Forgettable, OnePlace, Committed,
     ActivationTookEffect, Held, Interrupted, CandidateStates, BeforeDownload, Downloading,
     Promoting, Activating, HasCandidate, HasFinal, BeforePromotion, WithoutPrevious, At
  <1>1. Holding' = Holding
    BY HoldingKept
  <1>10. FallbackReady'
    BY <1>1 DEF GoTo, Transaction, UpdateState
  <1>11. PreviousAtStep'
    BY <1>1 DEF GoTo, Transaction, UpdateState
  <1>12. CandidateOnlyPending'
    BY <1>1 DEF GoTo, Transaction, UpdateState
  <1>13. Accounted'
    BY <1>1 DEF GoTo, Transaction, UpdateState
  <1>14. Forgettable' /\ OnePlace'
    BY <1>1 DEF GoTo, Transaction, UpdateState
  <1> QED BY <1>10, <1>11, <1>12, <1>13, <1>14

\* Nor does the record that an activation reached the pointer.
LEMMA PendingKept ==
    ASSUME IInv, FInv, ActivationTookEffect, upd' = PendingRecord,
           txn' = NoTxn \/ GoTo("handler"), UNCHANGED <<active, previous, dir>>
    PROVE  FInv'
  <1> USE ReleaseAssumption, HoldingType DEF IInv, TransactionTypeOK, Consistent, IdleWhenFree,
     RecordAtStep, StagedApart, PromotedOnlyPromoting, FInv, FallbackReady, PreviousAtStep,
     CandidateOnlyPending, Accounted, Staged, Forgettable, OnePlace, Committed,
     ActivationTookEffect, Held, Interrupted, CandidateStates, BeforeDownload, Downloading,
     Promoting, Activating, HasCandidate, HasFinal, BeforePromotion, WithoutPrevious, At
  <1>1. Holding' = Holding
    BY HoldingKept
  <1>10. FallbackReady'
    BY <1>1 DEF PendingRecord, GoTo, Transaction, NoTxn, Uninitialized, UpdateState
  <1>11. PreviousAtStep'
    BY <1>1 DEF PendingRecord, GoTo, Transaction, NoTxn, Uninitialized, UpdateState
  <1>12. CandidateOnlyPending'
    BY <1>1 DEF PendingRecord, GoTo, Transaction, NoTxn, Uninitialized, UpdateState
  <1>13. Accounted'
    BY <1>1 DEF PendingRecord, GoTo, Transaction, NoTxn, Uninitialized, UpdateState
  <1>14. Forgettable' /\ OnePlace'
    BY <1>1 DEF PendingRecord, GoTo, Transaction, NoTxn, Uninitialized, UpdateState
  <1> QED BY <1>10, <1>11, <1>12, <1>13, <1>14

\* Nor does the record that nothing is interrupted any more, after what was staged
\* has been deleted.
LEMMA RecoveredKept ==
    ASSUME IInv, FInv, At("recover-write") \/ At("write-undone"), upd' = NoLongerInterrupted,
           txn' = NoTxn \/ GoTo("handler"), UNCHANGED <<active, previous, dir>>
    PROVE  FInv'
  <1> USE ReleaseAssumption, HoldingType DEF IInv, TransactionTypeOK, Consistent, IdleWhenFree,
     RecordAtStep, StagedApart, PromotedOnlyPromoting, FInv, FallbackReady, PreviousAtStep,
     CandidateOnlyPending, Accounted, Staged, Forgettable, OnePlace, Committed,
     ActivationTookEffect, Held, Interrupted, CandidateStates, BeforeDownload, Downloading,
     Promoting, Activating, HasCandidate, HasFinal, BeforePromotion, WithoutPrevious, At
  <1>1. Holding' = Holding
    BY HoldingKept
  <1>10. FallbackReady'
    BY <1>1 DEF NoLongerInterrupted, GoTo, Transaction, NoTxn, Uninitialized, UpdateState
  <1>11. PreviousAtStep'
    BY <1>1 DEF NoLongerInterrupted, GoTo, Transaction, NoTxn, Uninitialized, UpdateState
  <1>12. CandidateOnlyPending'
    BY <1>1 DEF NoLongerInterrupted, GoTo, Transaction, NoTxn, Uninitialized, UpdateState
  <1>13. Accounted'
    BY <1>1 DEF NoLongerInterrupted, GoTo, Transaction, NoTxn, Uninitialized, UpdateState
  <1>14. Forgettable' /\ OnePlace'
    BY <1>1 DEF NoLongerInterrupted, GoTo, Transaction, NoTxn, Uninitialized, UpdateState
  <1> QED BY <1>10, <1>11, <1>12, <1>13, <1>14

\* Nor does _write_observation at the end of a start.
LEMMA ObservedKept ==
    ASSUME IInv, FInv, At("decide"), upd.state \notin Held, upd' = Observation(upd),
           txn' = NoTxn, UNCHANGED <<active, previous, dir>>
    PROVE  FInv'
  <1> USE ReleaseAssumption, HoldingType DEF IInv, TransactionTypeOK, Consistent, IdleWhenFree,
     RecordAtStep, StagedApart, PromotedOnlyPromoting, FInv, FallbackReady, PreviousAtStep,
     CandidateOnlyPending, Accounted, Staged, Forgettable, OnePlace, Committed,
     ActivationTookEffect, Held, Interrupted, CandidateStates, BeforeDownload, Downloading,
     Promoting, Activating, HasCandidate, HasFinal, BeforePromotion, WithoutPrevious, At
  <1>1. Holding' = Holding
    BY HoldingKept
  <1>10. FallbackReady'
    BY <1>1 DEF Observation, NoTxn, Uninitialized, UpdateState
  <1>11. PreviousAtStep'
    BY <1>1 DEF Observation, NoTxn, Uninitialized, UpdateState
  <1>12. CandidateOnlyPending'
    BY <1>1 DEF Observation, NoTxn, Uninitialized, UpdateState
  <1>13. Accounted'
    BY <1>1 DEF Observation, NoTxn, Uninitialized, UpdateState
  <1>14. Forgettable' /\ OnePlace'
    BY <1>1 DEF Observation, NoTxn, Uninitialized, UpdateState
  <1> QED BY <1>10, <1>11, <1>12, <1>13, <1>14


\* No record of a session changes the fallback it names.
LEMMA RecordsKeepPrevious ==
    ASSUME upd \in UpdateState,
           upd' \in {OpenedRecord, FailedRecord, [upd EXCEPT !.state = "runtime-ready"]}
    PROVE  upd'.previousRelease = upd.previousRelease
  BY DEF OpenedRecord, FailedRecord, UpdateState

\* Nor does the acceptance of the candidate.
LEMMA AcceptedKeepsPrevious ==
    ASSUME upd \in UpdateState,
           upd' \in {Accepted(upd), Accepted([upd EXCEPT !.state = "runtime-ready"])}
    PROVE  upd'.previousRelease = upd.previousRelease
  BY DEF Accepted, UpdateState

\* None of them says that an update was interrupted.
LEMMA RecordsSettled ==
    ASSUME upd \in UpdateState,
           upd' \in {OpenedRecord, FailedRecord, [upd EXCEPT !.state = "runtime-ready"],
                    Accepted(upd), Accepted([upd EXCEPT !.state = "runtime-ready"])}
    PROVE  upd'.state \notin Interrupted /\ upd'.state # "activating"
  <1>1. CASE upd' \in {OpenedRecord, FailedRecord, [upd EXCEPT !.state = "runtime-ready"]}
    BY <1>1 DEF OpenedRecord, FailedRecord, Interrupted, UpdateState
  <1>2. CASE upd' \in {Accepted(upd), Accepted([upd EXCEPT !.state = "runtime-ready"])}
    BY <1>2 DEF Accepted, Interrupted, UpdateState
  <1> QED BY <1>1, <1>2

\* The records of a session keep the fallback until acceptance gives it up.
LEMMA SessionKept ==
    ASSUME IInv, FInv, upd.state \in Held, CandidateActive,
           upd' \in {OpenedRecord, FailedRecord, [upd EXCEPT !.state = "runtime-ready"],
                    Accepted(upd), Accepted([upd EXCEPT !.state = "runtime-ready"])},
           UNCHANGED <<active, previous, dir, txn>>, txn = NoTxn
    PROVE  FInv'
  <1> USE ReleaseAssumption, HoldingType DEF IInv, TransactionTypeOK, Consistent, IdleWhenFree,
     RecordAtStep, StagedApart, PromotedOnlyPromoting, FInv, FallbackReady, PreviousAtStep,
     CandidateOnlyPending, Accounted, Staged, Forgettable, OnePlace, Committed,
     ActivationTookEffect, Held, Interrupted, CandidateStates, BeforeDownload, Downloading,
     Promoting, Activating, HasCandidate, HasFinal, BeforePromotion, WithoutPrevious, At
  <1>1. Holding' = Holding
    BY HoldingKept
  <1>2. upd'.previousRelease = upd.previousRelease
    <2>1. upd \in UpdateState
      OBVIOUS
    <2>2. CASE upd' \in {OpenedRecord, FailedRecord, [upd EXCEPT !.state = "runtime-ready"]}
      BY <2>1, <2>2, RecordsKeepPrevious
    <2>3. CASE upd' \in {Accepted(upd), Accepted([upd EXCEPT !.state = "runtime-ready"])}
      BY <2>1, <2>3, AcceptedKeepsPrevious
    <2> QED BY <2>2, <2>3
  <1>10. FallbackReady'
    BY <1>2 DEF Launchable
  <1>3. upd'.state \notin Interrupted /\ upd'.state # "activating"
    BY RecordsSettled DEF TransactionTypeOK
  <1>11. PreviousAtStep'
    BY <1>1, <1>3 DEF NoTxn
  <1>12. CandidateOnlyPending'
    BY <1>1 DEF OpenedRecord, FailedRecord, Accepted, CandidateActive, NoTxn, Uninitialized,
         UpdateState
  <1>13. Accounted'
    BY <1>1 DEF OpenedRecord, FailedRecord, Accepted, CandidateActive, NoTxn, Uninitialized,
         UpdateState
  <1>14. Forgettable' /\ OnePlace'
    BY <1>1 DEF OpenedRecord, FailedRecord, Accepted, CandidateActive, NoTxn, Uninitialized,
         UpdateState
  <1> QED BY <1>10, <1>11, <1>12, <1>13, <1>14

\* fail_readiness, mark_runtime_ready and a new command preserve the invariant.
LEMMA ReadinessFailureKept ==
    ASSUME IInv, FInv, LockFree, RecordReadinessFailure, UNCHANGED <<active, previous, dir, txn>>
    PROVE  FInv'
  <1>1. txn = NoTxn
    BY DEF LockFree, IInv, Consistent, IdleWhenFree
  <1> QED BY <1>1, QuietKept, SessionKept DEF RecordReadinessFailure, InReadiness,
       CrossedAsRecorded, Held

\* So does the record of an exact answer.
LEMMA ReadyKept ==
    ASSUME IInv, FInv, LockFree, InReadiness => CrossedAsRecorded, upd' = ReadyRecord,
           UNCHANGED <<active, previous, dir, txn>>
    PROVE  FInv'
  <1>1. txn = NoTxn
    BY DEF LockFree, IInv, Consistent, IdleWhenFree
  <1>2. CASE InReadiness
    BY <1>1, <1>2, SessionKept DEF InReadiness, CrossedAsRecorded, Held, ReadyRecord
  <1>3. CASE ~InReadiness
    BY <1>3, QuietKept DEF ReadyRecord
  <1> QED BY <1>2, <1>3

\* A command that takes the lock forgets nothing.
LEMMA BegunKept ==
    ASSUME IInv, FInv, NEW who \in {"session", "run", "exec"}, Begin(who),
           UNCHANGED <<upd, active, previous, dir>>
    PROVE  FInv'
  <1> USE ReleaseAssumption, HoldingType DEF IInv, TransactionTypeOK, Consistent, IdleWhenFree,
     RecordAtStep, StagedApart, PromotedOnlyPromoting, FInv, FallbackReady, PreviousAtStep,
     CandidateOnlyPending, Accounted, Staged, Forgettable, OnePlace, Committed,
     ActivationTookEffect, Held, Interrupted, CandidateStates, BeforeDownload, Downloading,
     Promoting, Activating, HasCandidate, HasFinal, BeforePromotion, WithoutPrevious, At
  <1>1. Holding' = Holding
    BY HoldingKept
  <1>10. FallbackReady'
    BY <1>1 DEF Begin, NoTxn, Uninitialized, UpdateState
  <1>11. PreviousAtStep'
    BY <1>1 DEF Begin, NoTxn, Uninitialized, UpdateState
  <1>12. CandidateOnlyPending'
    BY <1>1 DEF Begin, NoTxn, Uninitialized, UpdateState
  <1>13. Accounted'
    BY <1>1 DEF Begin, NoTxn, Uninitialized, UpdateState
  <1>14. Forgettable' /\ OnePlace'
    BY <1>1 DEF Begin, NoTxn, Uninitialized, UpdateState
  <1> QED BY <1>10, <1>11, <1>12, <1>13, <1>14


\* The recovery of an interrupted transaction forgets nothing that holds data.
LEMMA RecoveryKept ==
    IInv /\ FInv /\ Recovery => FInv'
  <1> SUFFICES ASSUME IInv, FInv, Recovery PROVE FInv'
    OBVIOUS
  <1> USE ReleaseAssumption, HoldingType DEF IInv, TransactionTypeOK, Consistent, IdleWhenFree,
     RecordAtStep, StagedApart, PromotedOnlyPromoting, FInv, FallbackReady, PreviousAtStep,
     CandidateOnlyPending, Accounted, Staged, Forgettable, OnePlace, Committed,
     ActivationTookEffect, Held, Interrupted, CandidateStates, BeforeDownload, Downloading,
     Promoting, Activating, HasCandidate, HasFinal, BeforePromotion, WithoutPrevious, At
  <1>1. CASE RecoverNothing
    <2>1. Holding' = Holding
      BY <1>1, HoldingKept DEF RecoverNothing, GoTo, durable
    <2>2. FallbackReady'
      BY <1>1, <2>1 DEF RecoverNothing, GoTo, durable, Transaction, UpdateState
    <2>3. PreviousAtStep'
      BY <1>1, <2>1 DEF RecoverNothing, GoTo, durable, Transaction, UpdateState
    <2>4. CandidateOnlyPending'
      BY <1>1, <2>1 DEF RecoverNothing, GoTo, durable, Transaction, UpdateState
    <2>5. Accounted'
      BY <1>1, <2>1 DEF RecoverNothing, GoTo, durable, Transaction, UpdateState
    <2>6. Forgettable' /\ OnePlace'
      BY <1>1, <2>1 DEF RecoverNothing, GoTo, durable, Transaction, UpdateState
    <2> QED BY <2>2, <2>3, <2>4, <2>5, <2>6
  <1>2. CASE RecoverClean
    <2>1. Holding' = Holding \ Debris
      BY <1>2, HoldingRemoved DEF RecoverClean, GoTo, Debris, ActivationLost
    <2>2. FallbackReady'
      BY <1>2, <2>1, CommittedKeeps DEF RecoverClean, GoTo, Debris, ActivationLost,
         Transaction, UpdateState
    <2>3. PreviousAtStep'
      BY <1>2, <2>1, CommittedKeeps DEF RecoverClean, GoTo, Debris, ActivationLost,
         Transaction, UpdateState
    <2>4. CandidateOnlyPending'
      BY <1>2, <2>1, CommittedKeeps DEF RecoverClean, GoTo, Debris, ActivationLost,
         Transaction, UpdateState
    <2>5. Accounted'
      BY <1>2, <2>1, CommittedKeeps DEF RecoverClean, GoTo, Debris, ActivationLost,
         Transaction, UpdateState
    <2>6. Forgettable' /\ OnePlace'
      BY <1>2, <2>1, CommittedKeeps DEF RecoverClean, GoTo, Debris, ActivationLost,
         Transaction, UpdateState
    <2> QED BY <2>2, <2>3, <2>4, <2>5, <2>6
  <1>3. CASE RecoverWrite
    <2>1. Holding' = Holding
      BY <1>3, HoldingKept DEF RecoverWrite, GoTo, NoLongerInterrupted
    <2>2. FallbackReady'
      BY <1>3, <2>1 DEF RecoverWrite, GoTo, NoLongerInterrupted, Transaction, UpdateState
    <2>3. PreviousAtStep'
      BY <1>3, <2>1 DEF RecoverWrite, GoTo, NoLongerInterrupted, Transaction, UpdateState
    <2>4. CandidateOnlyPending'
      BY <1>3, <2>1 DEF RecoverWrite, GoTo, NoLongerInterrupted, Transaction, UpdateState
    <2>5. Accounted'
      BY <1>3, <2>1 DEF RecoverWrite, GoTo, NoLongerInterrupted, Transaction, UpdateState
    <2>6. Forgettable' /\ OnePlace'
      BY <1>3, <2>1 DEF RecoverWrite, GoTo, NoLongerInterrupted, Transaction, UpdateState
    <2> QED BY <2>2, <2>3, <2>4, <2>5, <2>6
  <1>4. CASE RecoverActivated
    <2>1. Holding' = Holding
      BY <1>4, HoldingKept DEF RecoverActivated, GoTo, PendingRecord
    <2>2. FallbackReady'
      BY <1>4, <2>1 DEF RecoverActivated, GoTo, PendingRecord, Transaction, UpdateState
    <2>3. PreviousAtStep'
      BY <1>4, <2>1 DEF RecoverActivated, GoTo, PendingRecord, Transaction, UpdateState
    <2>4. CandidateOnlyPending'
      BY <1>4, <2>1 DEF RecoverActivated, GoTo, PendingRecord, Transaction, UpdateState
    <2>5. Accounted'
      BY <1>4, <2>1 DEF RecoverActivated, GoTo, PendingRecord, Transaction, UpdateState
    <2>6. Forgettable' /\ OnePlace'
      BY <1>4, <2>1 DEF RecoverActivated, GoTo, PendingRecord, Transaction, UpdateState
    <2> QED BY <2>2, <2>3, <2>4, <2>5, <2>6
  <1> QED
    BY <1>1, <1>2, <1>3, <1>4 DEF Recovery

\* Nor do the decisions of prepare_start and explicit_update.
LEMMA DecisionKept ==
    IInv /\ FInv /\ Decision => FInv'
  <1> SUFFICES ASSUME IInv, FInv, Decision PROVE FInv'
    OBVIOUS
  <1> USE ReleaseAssumption, HoldingType DEF IInv, TransactionTypeOK, Consistent, IdleWhenFree,
     RecordAtStep, StagedApart, PromotedOnlyPromoting, FInv, FallbackReady, PreviousAtStep,
     CandidateOnlyPending, Accounted, Staged, Forgettable, OnePlace, Committed,
     ActivationTookEffect, Held, Interrupted, CandidateStates, BeforeDownload, Downloading,
     Promoting, Activating, HasCandidate, HasFinal, BeforePromotion, WithoutPrevious, At
  <1>1. CASE ResumeCandidate
    <2>1. Holding' = Holding
      BY <1>1, HoldingKept DEF ResumeCandidate, Succeed, durable, NoTxn, Uninitialized
    <2>2. FallbackReady'
      BY <1>1, <2>1 DEF ResumeCandidate, Succeed, durable, NoTxn, Uninitialized,
         Transaction, UpdateState
    <2>3. PreviousAtStep'
      BY <1>1, <2>1 DEF ResumeCandidate, Succeed, durable, NoTxn, Uninitialized,
         Transaction, UpdateState
    <2>4. CandidateOnlyPending'
      BY <1>1, <2>1 DEF ResumeCandidate, Succeed, durable, NoTxn, Uninitialized,
         Transaction, UpdateState
    <2>5. Accounted'
      BY <1>1, <2>1 DEF ResumeCandidate, Succeed, durable, NoTxn, Uninitialized,
         Transaction, UpdateState
    <2>6. Forgettable' /\ OnePlace'
      BY <1>1, <2>1 DEF ResumeCandidate, Succeed, durable, NoTxn, Uninitialized,
         Transaction, UpdateState
    <2> QED BY <2>2, <2>3, <2>4, <2>5, <2>6
  <1>2. CASE SkipCheck
    <2>1. Holding' = Holding
      BY <1>2, HoldingKept DEF SkipCheck, Succeed, Observation, NoTxn, Uninitialized
    <2>2. FallbackReady'
      BY <1>2, <2>1 DEF SkipCheck, Succeed, Observation, NoTxn, Uninitialized,
         Transaction, UpdateState
    <2>3. PreviousAtStep'
      BY <1>2, <2>1 DEF SkipCheck, Succeed, Observation, NoTxn, Uninitialized,
         Transaction, UpdateState
    <2>4. CandidateOnlyPending'
      BY <1>2, <2>1 DEF SkipCheck, Succeed, Observation, NoTxn, Uninitialized,
         Transaction, UpdateState
    <2>5. Accounted'
      BY <1>2, <2>1 DEF SkipCheck, Succeed, Observation, NoTxn, Uninitialized,
         Transaction, UpdateState
    <2>6. Forgettable' /\ OnePlace'
      BY <1>2, <2>1 DEF SkipCheck, Succeed, Observation, NoTxn, Uninitialized,
         Transaction, UpdateState
    <2> QED BY <2>2, <2>3, <2>4, <2>5, <2>6
  <1>3. CASE DecideCheck
    <2>1. Holding' = Holding
      BY <1>3, HoldingKept DEF DecideCheck, durable
    <2>2. FallbackReady'
      BY <1>3, <2>1 DEF DecideCheck, durable, Transaction, UpdateState
    <2>3. PreviousAtStep'
      BY <1>3, <2>1 DEF DecideCheck, durable, Transaction, UpdateState
    <2>4. CandidateOnlyPending'
      BY <1>3, <2>1 DEF DecideCheck, durable, Transaction, UpdateState
    <2>5. Accounted'
      BY <1>3, <2>1 DEF DecideCheck, durable, Transaction, UpdateState
    <2>6. Forgettable' /\ OnePlace'
      BY <1>3, <2>1 DEF DecideCheck, durable, Transaction, UpdateState
    <2> QED BY <2>2, <2>3, <2>4, <2>5, <2>6
  <1>4. CASE UpdateRefused
    <2>1. Holding' = Holding
      BY <1>4, HoldingKept DEF UpdateRefused, Fail, durable, NoTxn, Uninitialized
    <2>2. FallbackReady'
      BY <1>4, <2>1 DEF UpdateRefused, Fail, durable, NoTxn, Uninitialized, Transaction,
         UpdateState
    <2>3. PreviousAtStep'
      BY <1>4, <2>1 DEF UpdateRefused, Fail, durable, NoTxn, Uninitialized, Transaction,
         UpdateState
    <2>4. CandidateOnlyPending'
      BY <1>4, <2>1 DEF UpdateRefused, Fail, durable, NoTxn, Uninitialized, Transaction,
         UpdateState
    <2>5. Accounted'
      BY <1>4, <2>1 DEF UpdateRefused, Fail, durable, NoTxn, Uninitialized, Transaction,
         UpdateState
    <2>6. Forgettable' /\ OnePlace'
      BY <1>4, <2>1 DEF UpdateRefused, Fail, durable, NoTxn, Uninitialized, Transaction,
         UpdateState
    <2> QED BY <2>2, <2>3, <2>4, <2>5, <2>6
  <1> QED
    BY <1>1, <1>2, <1>3, <1>4 DEF Decision

\* Nor does _check_and_update.
LEMMA CheckKept ==
    IInv /\ FInv /\ Check => FInv'
  <1> SUFFICES ASSUME IInv, FInv, Check PROVE FInv'
    OBVIOUS
  <1> USE ReleaseAssumption, HoldingType DEF IInv, TransactionTypeOK, Consistent, IdleWhenFree,
     RecordAtStep, StagedApart, PromotedOnlyPromoting, FInv, FallbackReady, PreviousAtStep,
     CandidateOnlyPending, Accounted, Staged, Forgettable, OnePlace, Committed,
     ActivationTookEffect, Held, Interrupted, CandidateStates, BeforeDownload, Downloading,
     Promoting, Activating, HasCandidate, HasFinal, BeforePromotion, WithoutPrevious, At
  <1>1. CASE NoUpdate
    <2>1. Holding' = Holding
      BY <1>1, HoldingKept DEF NoUpdate, Succeed, UpToDateRecord, NoTxn, Uninitialized
    <2>2. FallbackReady'
      BY <1>1, <2>1 DEF NoUpdate, Succeed, UpToDateRecord, NoTxn, Uninitialized,
         Transaction, UpdateState
    <2>3. PreviousAtStep'
      BY <1>1, <2>1 DEF NoUpdate, Succeed, UpToDateRecord, NoTxn, Uninitialized,
         Transaction, UpdateState
    <2>4. CandidateOnlyPending'
      BY <1>1, <2>1 DEF NoUpdate, Succeed, UpToDateRecord, NoTxn, Uninitialized,
         Transaction, UpdateState
    <2>5. Accounted'
      BY <1>1, <2>1 DEF NoUpdate, Succeed, UpToDateRecord, NoTxn, Uninitialized,
         Transaction, UpdateState
    <2>6. Forgettable' /\ OnePlace'
      BY <1>1, <2>1 DEF NoUpdate, Succeed, UpToDateRecord, NoTxn, Uninitialized,
         Transaction, UpdateState
    <2> QED BY <2>2, <2>3, <2>4, <2>5, <2>6
  <1>2. CASE DowngradeRefused
    <2>1. Holding' = Holding
      BY <1>2, HoldingKept DEF DowngradeRefused, GoTo, durable
    <2>2. FallbackReady'
      BY <1>2, <2>1 DEF DowngradeRefused, GoTo, durable, Transaction, UpdateState
    <2>3. PreviousAtStep'
      BY <1>2, <2>1 DEF DowngradeRefused, GoTo, durable, Transaction, UpdateState
    <2>4. CandidateOnlyPending'
      BY <1>2, <2>1 DEF DowngradeRefused, GoTo, durable, Transaction, UpdateState
    <2>5. Accounted'
      BY <1>2, <2>1 DEF DowngradeRefused, GoTo, durable, Transaction, UpdateState
    <2>6. Forgettable' /\ OnePlace'
      BY <1>2, <2>1 DEF DowngradeRefused, GoTo, durable, Transaction, UpdateState
    <2> QED BY <2>2, <2>3, <2>4, <2>5, <2>6
  <1>3. CASE BlockedRefused
    <2>1. Holding' = Holding
      BY <1>3, HoldingKept DEF BlockedRefused, GoTo, durable
    <2>2. FallbackReady'
      BY <1>3, <2>1 DEF BlockedRefused, GoTo, durable, Transaction, UpdateState
    <2>3. PreviousAtStep'
      BY <1>3, <2>1 DEF BlockedRefused, GoTo, durable, Transaction, UpdateState
    <2>4. CandidateOnlyPending'
      BY <1>3, <2>1 DEF BlockedRefused, GoTo, durable, Transaction, UpdateState
    <2>5. Accounted'
      BY <1>3, <2>1 DEF BlockedRefused, GoTo, durable, Transaction, UpdateState
    <2>6. Forgettable' /\ OnePlace'
      BY <1>3, <2>1 DEF BlockedRefused, GoTo, durable, Transaction, UpdateState
    <2> QED BY <2>2, <2>3, <2>4, <2>5, <2>6
  <1>4. CASE NewBuildFound
    <2>1. Holding' = Holding
      BY <1>4, HoldingKept DEF NewBuildFound, GoTo, durable
    <2>2. FallbackReady'
      BY <1>4, <2>1 DEF NewBuildFound, GoTo, durable, Transaction, UpdateState
    <2>3. PreviousAtStep'
      BY <1>4, <2>1 DEF NewBuildFound, GoTo, durable, Transaction, UpdateState
    <2>4. CandidateOnlyPending'
      BY <1>4, <2>1 DEF NewBuildFound, GoTo, durable, Transaction, UpdateState
    <2>5. Accounted'
      BY <1>4, <2>1 DEF NewBuildFound, GoTo, durable, Transaction, UpdateState
    <2>6. Forgettable' /\ OnePlace'
      BY <1>4, <2>1 DEF NewBuildFound, GoTo, durable, Transaction, UpdateState
    <2> QED BY <2>2, <2>3, <2>4, <2>5, <2>6
  <1> QED
    BY <1>1, <1>2, <1>3, <1>4 DEF Check

\* Nor does the staging of a candidate, which gives up the old fallback first.
LEMMA StagingKept ==
    IInv /\ FInv /\ Staging => FInv'
  <1> SUFFICES ASSUME IInv, FInv, Staging PROVE FInv'
    OBVIOUS
  <1> USE ReleaseAssumption, HoldingType DEF IInv, TransactionTypeOK, Consistent, IdleWhenFree,
     RecordAtStep, StagedApart, PromotedOnlyPromoting, FInv, FallbackReady, PreviousAtStep,
     CandidateOnlyPending, Accounted, Staged, Forgettable, OnePlace, Committed,
     ActivationTookEffect, Held, Interrupted, CandidateStates, BeforeDownload, Downloading,
     Promoting, Activating, HasCandidate, HasFinal, BeforePromotion, WithoutPrevious, At
  <1>1. CASE StageRefused
    <2>1. Holding' = Holding
      BY <1>1, HoldingKept DEF StageRefused, GoTo, durable
    <2>2. FallbackReady'
      BY <1>1, <2>1 DEF StageRefused, GoTo, durable, Transaction, UpdateState
    <2>3. PreviousAtStep'
      BY <1>1, <2>1 DEF StageRefused, GoTo, durable, Transaction, UpdateState
    <2>4. CandidateOnlyPending'
      BY <1>1, <2>1 DEF StageRefused, GoTo, durable, Transaction, UpdateState
    <2>5. Accounted'
      BY <1>1, <2>1 DEF StageRefused, GoTo, durable, Transaction, UpdateState
    <2>6. Forgettable' /\ OnePlace'
      BY <1>1, <2>1 DEF StageRefused, GoTo, durable, Transaction, UpdateState
    <2> QED BY <2>2, <2>3, <2>4, <2>5, <2>6
  <1>2. CASE DiscardPrevious
    <2>1. Holding' = Holding \ ({previous} \ {active})
      BY <1>2, HoldingRemoved DEF DiscardPrevious, GoTo
    <2>2. FallbackReady'
      BY <1>2, <2>1 DEF DiscardPrevious, GoTo, Transaction, UpdateState
    <2>3. PreviousAtStep'
      BY <1>2, <2>1 DEF DiscardPrevious, GoTo, Transaction, UpdateState
    <2>4. CandidateOnlyPending'
      BY <1>2, <2>1 DEF DiscardPrevious, GoTo, Transaction, UpdateState
    <2>5. Accounted'
      BY <1>2, <2>1 DEF DiscardPrevious, GoTo, Transaction, UpdateState
    <2>6. Forgettable' /\ OnePlace'
      BY <1>2, <2>1 DEF DiscardPrevious, GoTo, Transaction, UpdateState
    <2> QED BY <2>2, <2>3, <2>4, <2>5, <2>6
  <1>3. CASE UnlinkPrevious
    <2>1. Holding' = Holding
      BY <1>3, HoldingKept DEF UnlinkPrevious, GoTo
    <2>2. FallbackReady'
      BY <1>3, <2>1 DEF UnlinkPrevious, GoTo, Transaction, UpdateState
    <2>3. PreviousAtStep'
      BY <1>3, <2>1 DEF UnlinkPrevious, GoTo, Transaction, UpdateState
    <2>4. CandidateOnlyPending'
      BY <1>3, <2>1 DEF UnlinkPrevious, GoTo, Transaction, UpdateState
    <2>5. Accounted'
      BY <1>3, <2>1 DEF UnlinkPrevious, GoTo, Transaction, UpdateState
    <2>6. Forgettable' /\ OnePlace'
      BY <1>3, <2>1 DEF UnlinkPrevious, GoTo, Transaction, UpdateState
    <2> QED BY <2>2, <2>3, <2>4, <2>5, <2>6
  <1>4. CASE StageFirst
    <2>1. Holding' = Holding
      BY <1>4, HoldingKept DEF StageFirst, GoTo, durable
    <2>2. FallbackReady'
      BY <1>4, <2>1 DEF StageFirst, GoTo, durable, Transaction, UpdateState
    <2>3. PreviousAtStep'
      BY <1>4, <2>1 DEF StageFirst, GoTo, durable, Transaction, UpdateState
    <2>4. CandidateOnlyPending'
      BY <1>4, <2>1 DEF StageFirst, GoTo, durable, Transaction, UpdateState
    <2>5. Accounted'
      BY <1>4, <2>1 DEF StageFirst, GoTo, durable, Transaction, UpdateState
    <2>6. Forgettable' /\ OnePlace'
      BY <1>4, <2>1 DEF StageFirst, GoTo, durable, Transaction, UpdateState
    <2> QED BY <2>2, <2>3, <2>4, <2>5, <2>6
  <1>5. CASE MakeCandidate
    <2>1. Holding' \subseteq Holding
      BY <1>5, HoldingStaged DEF MakeCandidate
    <2>2. FallbackReady'
      BY <1>5, <2>1, FreshApart DEF MakeCandidate, Transaction, UpdateState
    <2>3. PreviousAtStep'
      BY <1>5, <2>1, FreshApart DEF MakeCandidate, Transaction, UpdateState
    <2>4. CandidateOnlyPending'
      BY <1>5, <2>1, FreshApart DEF MakeCandidate, Transaction, UpdateState
    <2>5. Accounted'
      BY <1>5, <2>1, FreshApart DEF MakeCandidate, Transaction, UpdateState
    <2>6. Forgettable' /\ OnePlace'
      BY <1>5, <2>1, FreshApart DEF MakeCandidate, Transaction, UpdateState
    <2> QED BY <2>2, <2>3, <2>4, <2>5, <2>6
  <1>6. CASE WriteDownloading
    <2>1. Holding' = Holding
      BY <1>6, HoldingKept DEF WriteDownloading, GoTo, DownloadingRecord
    <2>2. FallbackReady'
      BY <1>6, <2>1 DEF WriteDownloading, GoTo, DownloadingRecord, Transaction,
         UpdateState
    <2>3. PreviousAtStep'
      BY <1>6, <2>1 DEF WriteDownloading, GoTo, DownloadingRecord, Transaction,
         UpdateState
    <2>4. CandidateOnlyPending'
      BY <1>6, <2>1 DEF WriteDownloading, GoTo, DownloadingRecord, Transaction,
         UpdateState
    <2>5. Accounted'
      BY <1>6, <2>1 DEF WriteDownloading, GoTo, DownloadingRecord, Transaction,
         UpdateState
    <2>6. Forgettable' /\ OnePlace'
      BY <1>6, <2>1 DEF WriteDownloading, GoTo, DownloadingRecord, Transaction,
         UpdateState
    <2> QED BY <2>2, <2>3, <2>4, <2>5, <2>6
  <1>7. CASE Install
    <2>1. Holding' \subseteq Holding \cup {txn.candidate}
      BY <1>7, HoldingStaged DEF Install, GoTo
    <2>2. FallbackReady'
      BY <1>7, <2>1 DEF Install, GoTo, Transaction, UpdateState
    <2>3. PreviousAtStep'
      BY <1>7, <2>1 DEF Install, GoTo, Transaction, UpdateState
    <2>4. CandidateOnlyPending'
      BY <1>7, <2>1 DEF Install, GoTo, Transaction, UpdateState
    <2>5. Accounted'
      BY <1>7, <2>1 DEF Install, GoTo, Transaction, UpdateState
    <2>6. Forgettable' /\ OnePlace'
      BY <1>7, <2>1 DEF Install, GoTo, Transaction, UpdateState
    <2> QED BY <2>2, <2>3, <2>4, <2>5, <2>6
  <1>8. CASE Validate
    <2>1. Holding' = Holding
      BY <1>8, HoldingKept DEF Validate, GoTo, durable
    <2>2. FallbackReady'
      BY <1>8, <2>1 DEF Validate, GoTo, durable, Transaction, UpdateState
    <2>3. PreviousAtStep'
      BY <1>8, <2>1 DEF Validate, GoTo, durable, Transaction, UpdateState
    <2>4. CandidateOnlyPending'
      BY <1>8, <2>1 DEF Validate, GoTo, durable, Transaction, UpdateState
    <2>5. Accounted'
      BY <1>8, <2>1 DEF Validate, GoTo, durable, Transaction, UpdateState
    <2>6. Forgettable' /\ OnePlace'
      BY <1>8, <2>1 DEF Validate, GoTo, durable, Transaction, UpdateState
    <2> QED BY <2>2, <2>3, <2>4, <2>5, <2>6
  <1>9. CASE ValidateRejects
    <2>1. Holding' = Holding
      BY <1>9, HoldingKept DEF ValidateRejects, GoTo, durable
    <2>2. FallbackReady'
      BY <1>9, <2>1 DEF ValidateRejects, GoTo, durable, Transaction, UpdateState
    <2>3. PreviousAtStep'
      BY <1>9, <2>1 DEF ValidateRejects, GoTo, durable, Transaction, UpdateState
    <2>4. CandidateOnlyPending'
      BY <1>9, <2>1 DEF ValidateRejects, GoTo, durable, Transaction, UpdateState
    <2>5. Accounted'
      BY <1>9, <2>1 DEF ValidateRejects, GoTo, durable, Transaction, UpdateState
    <2>6. Forgettable' /\ OnePlace'
      BY <1>9, <2>1 DEF ValidateRejects, GoTo, durable, Transaction, UpdateState
    <2> QED BY <2>2, <2>3, <2>4, <2>5, <2>6
  <1>10. CASE Backup
    <2>1. Holding' = Holding
      BY <1>10, HoldingKept DEF Backup, GoTo, durable
    <2>2. FallbackReady'
      BY <1>10, <2>1 DEF Backup, GoTo, durable, Transaction, UpdateState
    <2>3. PreviousAtStep'
      BY <1>10, <2>1 DEF Backup, GoTo, durable, Transaction, UpdateState
    <2>4. CandidateOnlyPending'
      BY <1>10, <2>1 DEF Backup, GoTo, durable, Transaction, UpdateState
    <2>5. Accounted'
      BY <1>10, <2>1 DEF Backup, GoTo, durable, Transaction, UpdateState
    <2>6. Forgettable' /\ OnePlace'
      BY <1>10, <2>1 DEF Backup, GoTo, durable, Transaction, UpdateState
    <2> QED BY <2>2, <2>3, <2>4, <2>5, <2>6
  <1> QED
    BY <1>1, <1>2, <1>3, <1>4, <1>5, <1>6, <1>7, <1>8, <1>9, <1>10 DEF Staging

\* Nor does an activation, which makes the selected release the fallback.
LEMMA ActivationKept ==
    IInv /\ FInv /\ Activation => FInv'
  <1> SUFFICES ASSUME IInv, FInv, Activation PROVE FInv'
    OBVIOUS
  <1> USE ReleaseAssumption, HoldingType DEF IInv, TransactionTypeOK, Consistent, IdleWhenFree,
     RecordAtStep, StagedApart, PromotedOnlyPromoting, FInv, FallbackReady, PreviousAtStep,
     CandidateOnlyPending, Accounted, Staged, Forgettable, OnePlace, Committed,
     ActivationTookEffect, Held, Interrupted, CandidateStates, BeforeDownload, Downloading,
     Promoting, Activating, HasCandidate, HasFinal, BeforePromotion, WithoutPrevious, At
  <1>1. CASE WritePromoting
    <2>1. Holding' = Holding
      BY <1>1, HoldingKept DEF WritePromoting, GoTo, PromotingRecord
    <2>2. FallbackReady'
      BY <1>1, <2>1, FreshEmpty DEF WritePromoting, GoTo, PromotingRecord, Transaction,
         UpdateState
    <2>3. PreviousAtStep'
      BY <1>1, <2>1, FreshEmpty DEF WritePromoting, GoTo, PromotingRecord, Transaction,
         UpdateState
    <2>4. CandidateOnlyPending'
      BY <1>1, <2>1, FreshEmpty DEF WritePromoting, GoTo, PromotingRecord, Transaction,
         UpdateState
    <2>5. Accounted'
      BY <1>1, <2>1, FreshEmpty DEF WritePromoting, GoTo, PromotingRecord, Transaction,
         UpdateState
    <2>6. Forgettable' /\ OnePlace'
      BY <1>1, <2>1, FreshEmpty DEF WritePromoting, GoTo, PromotingRecord, Transaction,
         UpdateState
    <2> QED BY <2>2, <2>3, <2>4, <2>5, <2>6
  <1>2. CASE Rename
    <2>1. Holding' \subseteq (Holding \ {txn.candidate}) \cup {txn.final}
      BY <1>2, HoldingStaged DEF Rename, GoTo, Renamed
    <2>2. FallbackReady'
      BY <1>2, <2>1 DEF Rename, GoTo, Renamed, Transaction, UpdateState
    <2>3. PreviousAtStep'
      BY <1>2, <2>1 DEF Rename, GoTo, Renamed, Transaction, UpdateState
    <2>4. CandidateOnlyPending'
      BY <1>2, <2>1 DEF Rename, GoTo, Renamed, Transaction, UpdateState
    <2>5. Accounted'
      BY <1>2, <2>1 DEF Rename, GoTo, Renamed, Transaction, UpdateState
    <2>6. Forgettable' /\ OnePlace'
      BY <1>2, <2>1 DEF Rename, GoTo, Renamed, Transaction, UpdateState
    <2> QED BY <2>2, <2>3, <2>4, <2>5, <2>6
  <1>3. CASE WriteActivating
    <2>1. Holding' = Holding
      BY <1>3, HoldingKept DEF WriteActivating, GoTo, ActivatingRecord
    <2>2. FallbackReady'
      BY <1>3, <2>1 DEF WriteActivating, GoTo, ActivatingRecord, Transaction, UpdateState
    <2>3. PreviousAtStep'
      BY <1>3, <2>1 DEF WriteActivating, GoTo, ActivatingRecord, Transaction, UpdateState
    <2>4. CandidateOnlyPending'
      BY <1>3, <2>1 DEF WriteActivating, GoTo, ActivatingRecord, Transaction, UpdateState
    <2>5. Accounted'
      BY <1>3, <2>1 DEF WriteActivating, GoTo, ActivatingRecord, Transaction, UpdateState
    <2>6. Forgettable' /\ OnePlace'
      BY <1>3, <2>1 DEF WriteActivating, GoTo, ActivatingRecord, Transaction, UpdateState
    <2> QED BY <2>2, <2>3, <2>4, <2>5, <2>6
  <1>4. CASE WritePrevious
    <2>1. Holding' = Holding
      BY <1>4, HoldingKept DEF WritePrevious, GoTo
    <2>2. FallbackReady'
      BY <1>4, <2>1 DEF WritePrevious, GoTo, Transaction, UpdateState
    <2>3. PreviousAtStep'
      BY <1>4, <2>1 DEF WritePrevious, GoTo, Transaction, UpdateState
    <2>4. CandidateOnlyPending'
      BY <1>4, <2>1 DEF WritePrevious, GoTo, Transaction, UpdateState
    <2>5. Accounted'
      BY <1>4, <2>1 DEF WritePrevious, GoTo, Transaction, UpdateState
    <2>6. Forgettable' /\ OnePlace'
      BY <1>4, <2>1 DEF WritePrevious, GoTo, Transaction, UpdateState
    <2> QED BY <2>2, <2>3, <2>4, <2>5, <2>6
  <1>5. CASE WriteActive
    <2>1. Holding' = Holding
      BY <1>5, HoldingKept DEF WriteActive, GoTo, ActiveLaunchable
    <2>2. FallbackReady'
      BY <1>5, <2>1 DEF WriteActive, GoTo, ActiveLaunchable, Transaction, UpdateState
    <2>3. PreviousAtStep'
      BY <1>5, <2>1 DEF WriteActive, GoTo, ActiveLaunchable, Transaction, UpdateState
    <2>4. CandidateOnlyPending'
      BY <1>5, <2>1 DEF WriteActive, GoTo, ActiveLaunchable, Transaction, UpdateState
    <2>5. Accounted'
      BY <1>5, <2>1 DEF WriteActive, GoTo, ActiveLaunchable, Transaction, UpdateState
    <2>6. Forgettable' /\ OnePlace'
      BY <1>5, <2>1 DEF WriteActive, GoTo, ActiveLaunchable, Transaction, UpdateState
    <2> QED BY <2>2, <2>3, <2>4, <2>5, <2>6
  <1>6. CASE WritePending
    <2>1. Holding' = Holding
      BY <1>6, HoldingKept DEF WritePending, Succeed, PendingRecord, NoTxn, Uninitialized
    <2>2. FallbackReady'
      BY <1>6, <2>1 DEF WritePending, Succeed, PendingRecord, NoTxn, Uninitialized,
         Transaction, UpdateState
    <2>3. PreviousAtStep'
      BY <1>6, <2>1 DEF WritePending, Succeed, PendingRecord, NoTxn, Uninitialized,
         Transaction, UpdateState
    <2>4. CandidateOnlyPending'
      BY <1>6, <2>1 DEF WritePending, Succeed, PendingRecord, NoTxn, Uninitialized,
         Transaction, UpdateState
    <2>5. Accounted'
      BY <1>6, <2>1 DEF WritePending, Succeed, PendingRecord, NoTxn, Uninitialized,
         Transaction, UpdateState
    <2>6. Forgettable' /\ OnePlace'
      BY <1>6, <2>1 DEF WritePending, Succeed, PendingRecord, NoTxn, Uninitialized,
         Transaction, UpdateState
    <2> QED BY <2>2, <2>3, <2>4, <2>5, <2>6
  <1> QED
    BY <1>1, <1>2, <1>3, <1>4, <1>5, <1>6 DEF Activation

\* Nor does the end of a failed check.
LEMMA FailureKept ==
    IInv /\ FInv /\ Failure => FInv'
  <1> SUFFICES ASSUME IInv, FInv, Failure PROVE FInv'
    OBVIOUS
  <1> USE ReleaseAssumption, HoldingType DEF IInv, TransactionTypeOK, Consistent, IdleWhenFree,
     RecordAtStep, StagedApart, PromotedOnlyPromoting, FInv, FallbackReady, PreviousAtStep,
     CandidateOnlyPending, Accounted, Staged, Forgettable, OnePlace, Committed,
     ActivationTookEffect, Held, Interrupted, CandidateStates, BeforeDownload, Downloading,
     Promoting, Activating, HasCandidate, HasFinal, BeforePromotion, WithoutPrevious, At
  <1>1. CASE UndoActivation
    <2>1. Holding' = Holding \ Debris
      BY <1>1, HoldingRemoved DEF UndoActivation, GoTo, Debris, ActivationLost
    <2>2. FallbackReady'
      BY <1>1, <2>1, CommittedKeeps DEF UndoActivation, GoTo, Debris, ActivationLost,
         Transaction, UpdateState
    <2>3. PreviousAtStep'
      BY <1>1, <2>1, CommittedKeeps DEF UndoActivation, GoTo, Debris, ActivationLost,
         Transaction, UpdateState
    <2>4. CandidateOnlyPending'
      BY <1>1, <2>1, CommittedKeeps DEF UndoActivation, GoTo, Debris, ActivationLost,
         Transaction, UpdateState
    <2>5. Accounted'
      BY <1>1, <2>1, CommittedKeeps DEF UndoActivation, GoTo, Debris, ActivationLost,
         Transaction, UpdateState
    <2>6. Forgettable' /\ OnePlace'
      BY <1>1, <2>1, CommittedKeeps DEF UndoActivation, GoTo, Debris, ActivationLost,
         Transaction, UpdateState
    <2> QED BY <2>2, <2>3, <2>4, <2>5, <2>6
  <1>2. CASE WriteUndone
    <2>1. Holding' = Holding
      BY <1>2, HoldingKept DEF WriteUndone, GoTo, NoLongerInterrupted
    <2>2. FallbackReady'
      BY <1>2, <2>1 DEF WriteUndone, GoTo, NoLongerInterrupted, Transaction, UpdateState
    <2>3. PreviousAtStep'
      BY <1>2, <2>1 DEF WriteUndone, GoTo, NoLongerInterrupted, Transaction, UpdateState
    <2>4. CandidateOnlyPending'
      BY <1>2, <2>1 DEF WriteUndone, GoTo, NoLongerInterrupted, Transaction, UpdateState
    <2>5. Accounted'
      BY <1>2, <2>1 DEF WriteUndone, GoTo, NoLongerInterrupted, Transaction, UpdateState
    <2>6. Forgettable' /\ OnePlace'
      BY <1>2, <2>1 DEF WriteUndone, GoTo, NoLongerInterrupted, Transaction, UpdateState
    <2> QED BY <2>2, <2>3, <2>4, <2>5, <2>6
  <1>3. CASE Cleanup
    <2>1. Holding' = Holding \ {txn.candidate, txn.final}
      BY <1>3, HoldingRemoved DEF Cleanup, GoTo
    <2>2. FallbackReady'
      BY <1>3, <2>1 DEF Cleanup, GoTo, Transaction, UpdateState
    <2>3. PreviousAtStep'
      BY <1>3, <2>1 DEF Cleanup, GoTo, Transaction, UpdateState
    <2>4. CandidateOnlyPending'
      BY <1>3, <2>1 DEF Cleanup, GoTo, Transaction, UpdateState
    <2>5. Accounted'
      BY <1>3, <2>1 DEF Cleanup, GoTo, Transaction, UpdateState
    <2>6. Forgettable' /\ OnePlace'
      BY <1>3, <2>1 DEF Cleanup, GoTo, Transaction, UpdateState
    <2> QED BY <2>2, <2>3, <2>4, <2>5, <2>6
  <1>4. CASE WriteFailure
    <2>1. Holding' = Holding
      BY <1>4, HoldingKept DEF WriteFailure, GoTo, FailureRecord, PreWorldFailure
    <2>2. FallbackReady'
      BY <1>4, <2>1 DEF WriteFailure, GoTo, FailureRecord, PreWorldFailure, Transaction,
         UpdateState
    <2>3. PreviousAtStep'
      BY <1>4, <2>1 DEF WriteFailure, GoTo, FailureRecord, PreWorldFailure, Transaction,
         UpdateState
    <2>4. CandidateOnlyPending'
      BY <1>4, <2>1 DEF WriteFailure, GoTo, FailureRecord, PreWorldFailure, Transaction,
         UpdateState
    <2>5. Accounted'
      BY <1>4, <2>1 DEF WriteFailure, GoTo, FailureRecord, PreWorldFailure, Transaction,
         UpdateState
    <2>6. Forgettable' /\ OnePlace'
      BY <1>4, <2>1 DEF WriteFailure, GoTo, FailureRecord, PreWorldFailure, Transaction,
         UpdateState
    <2> QED BY <2>2, <2>3, <2>4, <2>5, <2>6
  <1>5. CASE HandlerRecovers
    <2>1. Holding' = Holding \ Debris
      BY <1>5, HoldingRemoved DEF HandlerRecovers, Uncleaned, NoLongerInterrupted
    <2>7. Debris = Staged \ {None}
      BY <1>5, <2>1 DEF HandlerRecovers, Uncleaned, Debris, ActivationLost
    <2>2. FallbackReady'
      BY <1>5, <2>1, <2>7 DEF HandlerRecovers, Uncleaned, NoLongerInterrupted,
         Transaction, UpdateState
    <2>3. PreviousAtStep'
      BY <1>5, <2>1, <2>7 DEF HandlerRecovers, Uncleaned, NoLongerInterrupted,
         Transaction, UpdateState
    <2>4. CandidateOnlyPending'
      BY <1>5, <2>1, <2>7 DEF HandlerRecovers, Uncleaned, NoLongerInterrupted,
         Transaction, UpdateState
    <2>5. Accounted'
      BY <1>5, <2>1, <2>7 DEF HandlerRecovers, Uncleaned, NoLongerInterrupted,
         Transaction, UpdateState
    <2>6. Forgettable' /\ OnePlace'
      BY <1>5, <2>1, <2>7 DEF HandlerRecovers, Uncleaned, NoLongerInterrupted,
         Transaction, UpdateState
    <2> QED BY <2>2, <2>3, <2>4, <2>5, <2>6
  <1>6. CASE StartKnownGood
    <2>1. Holding' = Holding
      BY <1>6, HoldingKept DEF StartKnownGood, Succeed, durable, NoTxn, Uninitialized
    <2>2. FallbackReady'
      BY <1>6, <2>1 DEF StartKnownGood, Succeed, durable, NoTxn, Uninitialized,
         Transaction, UpdateState
    <2>3. PreviousAtStep'
      BY <1>6, <2>1 DEF StartKnownGood, Succeed, durable, NoTxn, Uninitialized,
         Transaction, UpdateState
    <2>4. CandidateOnlyPending'
      BY <1>6, <2>1 DEF StartKnownGood, Succeed, durable, NoTxn, Uninitialized,
         Transaction, UpdateState
    <2>5. Accounted'
      BY <1>6, <2>1 DEF StartKnownGood, Succeed, durable, NoTxn, Uninitialized,
         Transaction, UpdateState
    <2>6. Forgettable' /\ OnePlace'
      BY <1>6, <2>1 DEF StartKnownGood, Succeed, durable, NoTxn, Uninitialized,
         Transaction, UpdateState
    <2> QED BY <2>2, <2>3, <2>4, <2>5, <2>6
  <1>7. CASE RaiseFailure
    <2>1. Holding' = Holding
      BY <1>7, HoldingKept DEF RaiseFailure, Fail, durable, NoTxn, Uninitialized
    <2>2. FallbackReady'
      BY <1>7, <2>1 DEF RaiseFailure, Fail, durable, NoTxn, Uninitialized, Transaction,
         UpdateState
    <2>3. PreviousAtStep'
      BY <1>7, <2>1 DEF RaiseFailure, Fail, durable, NoTxn, Uninitialized, Transaction,
         UpdateState
    <2>4. CandidateOnlyPending'
      BY <1>7, <2>1 DEF RaiseFailure, Fail, durable, NoTxn, Uninitialized, Transaction,
         UpdateState
    <2>5. Accounted'
      BY <1>7, <2>1 DEF RaiseFailure, Fail, durable, NoTxn, Uninitialized, Transaction,
         UpdateState
    <2>6. Forgettable' /\ OnePlace'
      BY <1>7, <2>1 DEF RaiseFailure, Fail, durable, NoTxn, Uninitialized, Transaction,
         UpdateState
    <2> QED BY <2>2, <2>3, <2>4, <2>5, <2>6
  <1> QED
    BY <1>1, <1>2, <1>3, <1>4, <1>5, <1>6, <1>7 DEF Failure

\* Nor does anything that goes wrong inside a command without stopping it.
LEMMA InputOutputFaultKept ==
    IInv /\ FInv /\ InputOutputFault => FInv'
  <1> SUFFICES ASSUME IInv, FInv, InputOutputFault PROVE FInv'
    OBVIOUS
  <1> USE ReleaseAssumption, HoldingType DEF IInv, TransactionTypeOK, Consistent, IdleWhenFree,
     RecordAtStep, StagedApart, PromotedOnlyPromoting, FInv, FallbackReady, PreviousAtStep,
     CandidateOnlyPending, Accounted, Staged, Forgettable, OnePlace, Committed,
     ActivationTookEffect, Held, Interrupted, CandidateStates, BeforeDownload, Downloading,
     Promoting, Activating, HasCandidate, HasFinal, BeforePromotion, WithoutPrevious, At
  <1>1. CASE RecoverFails
    <2>1. txn' = NoTxn /\ UNCHANGED <<active, previous>>
      BY <1>1, EndsFree DEF RecoverFails
    <2>2. CASE CutShort /\ UNCHANGED upd
      BY <2>1, <2>2, CutEnds
    <2>3. CASE ActivationTookEffect /\ CutShort /\ upd' = PendingRecord
      <3>1. UNCHANGED dir
        BY <2>3, CommittedCut
      <3> QED BY <2>1, <2>3, <3>1, PendingKept
    <2>4. CASE UNCHANGED <<upd, dir>>
      BY <2>1, <2>4, EndsKept
    <2>5. CASE At("recover-write") /\ upd' = NoLongerInterrupted /\ UNCHANGED dir
      BY <2>1, <2>5, RecoveredKept
    <2> QED BY <1>1, <2>2, <2>3, <2>4, <2>5 DEF RecoverFails
  <1>2. CASE PrepareActiveFails
    <2>1. txn' = NoTxn /\ UNCHANGED <<active, previous, dir>>
      BY <1>2, EndsFree DEF PrepareActiveFails
    <2>2. CASE UNCHANGED upd
      BY <2>1, <2>2, EndsKept
    <2>3. CASE upd.state \notin Held /\ upd' = Observation(upd)
      BY <1>2, <2>1, <2>3, ObservedKept DEF PrepareActiveFails
    <2> QED BY <1>2, <2>2, <2>3 DEF PrepareActiveFails
  <1>3. CASE QueryFails
    <2>1. Holding' = Holding
      BY <1>3, HoldingKept DEF QueryFails, GoTo, durable
    <2>2. FallbackReady'
      BY <1>3, <2>1 DEF QueryFails, GoTo, durable, Transaction, UpdateState
    <2>3. PreviousAtStep'
      BY <1>3, <2>1 DEF QueryFails, GoTo, durable, Transaction, UpdateState
    <2>4. CandidateOnlyPending'
      BY <1>3, <2>1 DEF QueryFails, GoTo, durable, Transaction, UpdateState
    <2>5. Accounted'
      BY <1>3, <2>1 DEF QueryFails, GoTo, durable, Transaction, UpdateState
    <2>6. Forgettable' /\ OnePlace'
      BY <1>3, <2>1 DEF QueryFails, GoTo, durable, Transaction, UpdateState
    <2> QED BY <2>2, <2>3, <2>4, <2>5, <2>6
  <1>4. CASE PreconditionFails
    <2>1. Holding' \subseteq Holding
      BY <1>4, HoldingCut, HoldingKept DEF PreconditionFails, GoTo
    <2>2. FallbackReady'
      BY <1>4, <2>1 DEF PreconditionFails, GoTo, Transaction, UpdateState
    <2>3. PreviousAtStep'
      BY <1>4, <2>1 DEF PreconditionFails, GoTo, Transaction, UpdateState
    <2>4. CandidateOnlyPending'
      BY <1>4, <2>1 DEF PreconditionFails, GoTo, Transaction, UpdateState
    <2>5. Accounted'
      BY <1>4, <2>1 DEF PreconditionFails, GoTo, Transaction, UpdateState
    <2>6. Forgettable' /\ OnePlace'
      BY <1>4, <2>1 DEF PreconditionFails, GoTo, Transaction, UpdateState
    <2> QED BY <2>2, <2>3, <2>4, <2>5, <2>6
  <1>5. CASE StagingFails
    <2>1. Holding' \subseteq Holding \cup {txn.candidate}
      BY <1>5, HoldingStaged DEF StagingFails, GoTo
    <2>2. FallbackReady'
      BY <1>5, <2>1 DEF StagingFails, GoTo, Transaction, UpdateState
    <2>3. PreviousAtStep'
      BY <1>5, <2>1 DEF StagingFails, GoTo, Transaction, UpdateState
    <2>4. CandidateOnlyPending'
      BY <1>5, <2>1 DEF StagingFails, GoTo, Transaction, UpdateState
    <2>5. Accounted'
      BY <1>5, <2>1 DEF StagingFails, GoTo, Transaction, UpdateState
    <2>6. Forgettable' /\ OnePlace'
      BY <1>5, <2>1 DEF StagingFails, GoTo, Transaction, UpdateState
    <2> QED BY <2>2, <2>3, <2>4, <2>5, <2>6
  <1>6. CASE PromotionFails
    <2>1. UNCHANGED <<active, previous>> /\ GoTo("cleanup")
      BY <1>6 DEF PromotionFails
    <2>2. CASE At("rename") /\ dir' = Renamed /\ UNCHANGED upd
      <3>1. Holding' \subseteq (Holding \ {txn.candidate}) \cup {txn.final}
        BY <2>2, HoldingStaged
      <3>2. FallbackReady' /\ PreviousAtStep'
        BY <2>1, <2>2, <3>1 DEF GoTo, Transaction
      <3>3. CandidateOnlyPending' /\ Accounted'
        BY <2>1, <2>2, <3>1 DEF GoTo, Transaction
      <3>4. Forgettable' /\ OnePlace'
        BY <2>1, <2>2, <3>1 DEF GoTo, Transaction
      <3> QED BY <3>2, <3>3, <3>4
    <2>3. CASE UNCHANGED <<upd, dir>>
      <3>1. Holding' = Holding
        BY <2>3, HoldingKept
      <3>2. FallbackReady' /\ PreviousAtStep'
        BY <1>6, <2>1, <2>3, <3>1 DEF PromotionFails, GoTo, Transaction
      <3>3. CandidateOnlyPending' /\ Accounted'
        BY <1>6, <2>1, <2>3, <3>1 DEF PromotionFails, GoTo, Transaction
      <3>4. Forgettable' /\ OnePlace'
        BY <1>6, <2>1, <2>3, <3>1 DEF PromotionFails, GoTo, Transaction
      <3> QED BY <3>2, <3>3, <3>4
    <2>4. CASE At("write-activating") /\ upd' = ActivatingRecord /\ UNCHANGED dir
      <3>1. Holding' = Holding
        BY <2>4, HoldingKept
      <3>2. FallbackReady' /\ PreviousAtStep'
        BY <2>1, <2>4, <3>1 DEF ActivatingRecord, GoTo, Transaction, UpdateState
      <3>3. CandidateOnlyPending' /\ Accounted'
        BY <2>1, <2>4, <3>1 DEF ActivatingRecord, GoTo, Transaction, UpdateState
      <3>4. Forgettable' /\ OnePlace'
        BY <2>1, <2>4, <3>1 DEF ActivatingRecord, GoTo, Transaction, UpdateState
      <3> QED BY <3>2, <3>3, <3>4
    <2> QED BY <1>6, <2>2, <2>3, <2>4 DEF PromotionFails
  <1>7. CASE ActivationFails
    <2>1. Holding' = Holding
      BY <1>7, HoldingKept DEF ActivationFails, GoTo, ActiveLaunchable
    <2>2. FallbackReady'
      BY <1>7, <2>1 DEF ActivationFails, GoTo, ActiveLaunchable, Transaction, UpdateState
    <2>3. PreviousAtStep'
      BY <1>7, <2>1 DEF ActivationFails, GoTo, ActiveLaunchable, Transaction, UpdateState
    <2>4. CandidateOnlyPending'
      BY <1>7, <2>1 DEF ActivationFails, GoTo, ActiveLaunchable, Transaction, UpdateState
    <2>5. Accounted'
      BY <1>7, <2>1 DEF ActivationFails, GoTo, ActiveLaunchable, Transaction, UpdateState
    <2>6. Forgettable' /\ OnePlace'
      BY <1>7, <2>1 DEF ActivationFails, GoTo, ActiveLaunchable, Transaction, UpdateState
    <2> QED BY <2>2, <2>3, <2>4, <2>5, <2>6
  <1>8. CASE StateWriteFails
    <2>1. UNCHANGED <<active, previous>> /\ GoTo("handler")
      BY <1>8 DEF StateWriteFails
    <2>2. CASE UNCHANGED <<upd, dir>>
      BY <2>1, <2>2, HandlerKept
    <2>3. CASE At("query") /\ upd' = UpToDateRecord /\ UNCHANGED dir
      <3>1. Holding' = Holding
        BY <2>3, HoldingKept
      <3>2. FallbackReady' /\ PreviousAtStep' /\ CandidateOnlyPending'
        BY <2>1, <2>3, <3>1 DEF UpToDateRecord, GoTo, Transaction, UpdateState
      <3>3. Accounted' /\ Forgettable' /\ OnePlace'
        BY <2>1, <2>3, <3>1 DEF UpToDateRecord, GoTo, Transaction, UpdateState
      <3> QED BY <3>2, <3>3
    <2>4. CASE At("write-downloading") /\ upd' \in {upd, DownloadingRecord}
      <3>1. Holding' = Holding \ {txn.candidate}
        BY <1>8, <2>4, HoldingRemoved, HoldingLeft DEF StateWriteFails
      <3>2. FallbackReady' /\ PreviousAtStep' /\ CandidateOnlyPending'
        BY <2>1, <2>4, <3>1 DEF DownloadingRecord, GoTo, Transaction, UpdateState
      <3>3. Accounted' /\ Forgettable' /\ OnePlace'
        BY <2>1, <2>4, <3>1 DEF DownloadingRecord, GoTo, Transaction, UpdateState
      <3> QED BY <3>2, <3>3
    <2>5. CASE /\ At("write-promoting") /\ UNCHANGED dir
               /\ \E r \in Release : Fresh(r) /\ upd' = PromotingRecord(r)
      <3>1. PICK r \in Release : Fresh(r) /\ upd' = PromotingRecord(r)
        BY <2>5
      <3>2. Holding' = Holding /\ r \notin Holding
        BY <2>5, <3>1, HoldingKept, FreshEmpty
      <3>3. FallbackReady' /\ PreviousAtStep' /\ CandidateOnlyPending'
        BY <2>1, <2>5, <3>1, <3>2 DEF PromotingRecord, GoTo, Transaction, UpdateState
      <3>4. Accounted'
        BY <2>1, <2>5, <3>1, <3>2 DEF PromotingRecord, GoTo, Transaction, UpdateState
      <3>5. Forgettable'
        BY <2>1, <2>5, <3>1, <3>2 DEF PromotingRecord, GoTo, Transaction, UpdateState
      <3>6. OnePlace'
        BY <2>1, <2>5, <3>1, <3>2 DEF PromotingRecord, GoTo, Transaction, UpdateState
      <3> QED BY <3>3, <3>4, <3>5, <3>6
    <2>6. CASE At("write-pending") /\ upd' = PendingRecord /\ UNCHANGED dir
      BY <2>1, <2>6, PendingKept
    <2>7. CASE At("undo-activation") /\ CutShort /\ UNCHANGED upd
      <3>1. Holding' \subseteq Holding
        BY <2>7, HoldingCut
      <3>2. FallbackReady' /\ PreviousAtStep' /\ CandidateOnlyPending'
        BY <2>1, <2>7, <3>1 DEF GoTo, Transaction
      <3>3. Accounted' /\ Forgettable' /\ OnePlace'
        BY <2>1, <2>7, <3>1 DEF GoTo, Transaction
      <3> QED BY <3>2, <3>3
    <2>8. CASE At("write-undone") /\ upd' = NoLongerInterrupted /\ UNCHANGED dir
      BY <2>1, <2>8, RecoveredKept
    <2>9. CASE At("write-failure") /\ upd' = FailureRecord /\ UNCHANGED dir
      <3>1. Holding' = Holding
        BY <2>9, HoldingKept
      <3>2. FallbackReady' /\ PreviousAtStep' /\ CandidateOnlyPending'
        BY <2>1, <2>9, <3>1 DEF FailureRecord, PreWorldFailure, GoTo, Transaction, UpdateState
      <3>3. Accounted' /\ Forgettable' /\ OnePlace'
        BY <2>1, <2>9, <3>1 DEF FailureRecord, PreWorldFailure, GoTo, Transaction, UpdateState
      <3> QED BY <3>2, <3>3
    <2> QED
      BY <1>8, <2>2, <2>3, <2>4, <2>5, <2>6, <2>7, <2>8, <2>9 DEF StateWriteFails
  <1>9. CASE HandlerFails
    BY <1>9, EndsFree, CutEnds DEF HandlerFails
  <1>10. CASE CleanupFails
    <2>1. Holding' = Holding \ {txn.candidate, txn.final}
      BY <1>10, HoldingLeft DEF CleanupFails
    <2>2. FallbackReady' /\ PreviousAtStep' /\ CandidateOnlyPending'
      BY <1>10, <2>1 DEF CleanupFails, GoTo, Transaction, UpdateState
    <2>3. Accounted'
      BY <1>10, <2>1 DEF CleanupFails, GoTo, Transaction, UpdateState
    <2>4. Forgettable' /\ OnePlace'
      BY <1>10, <2>1 DEF CleanupFails, GoTo, Transaction, UpdateState
    <2> QED BY <2>2, <2>3, <2>4
  <1> QED
    BY <1>1, <1>2, <1>3, <1>4, <1>5, <1>6, <1>7, <1>8, <1>9, <1>10 DEF InputOutputFault

\* Nor do the steps of the entrypoint.
LEMMA EntrypointKept ==
    IInv /\ FInv /\ Entrypoint => FInv'
  <1> SUFFICES ASSUME IInv, FInv, Entrypoint PROVE FInv'
    OBVIOUS
  <1>1. CASE PrepareStart
    BY <1>1, BegunKept DEF PrepareStart, durable
  <1>2. CASE LockContended
    BY <1>2, ContainerKept DEF LockContended
  <1>3. CASE SelectRelease
    BY <1>3, QuietKept DEF SelectRelease, durable
  <1>4. CASE MarkWorldOpened
    <2>1. txn = NoTxn
      BY <1>4 DEF MarkWorldOpened, LockFree, IInv, Consistent, IdleWhenFree
    <2> QED BY <1>4, <2>1, QuietKept, SessionKept DEF MarkWorldOpened, AwaitsWorld, Held
  <1>5. CASE Launch
    BY <1>5, QuietKept DEF Launch, durable
  <1>6. CASE RuntimeReady
    BY <1>6, QuietKept, ReadyKept DEF RuntimeReady
  <1>7. CASE ReadinessContended
    BY <1>7, QuietKept DEF ReadinessContended, durable
  <1>8. CASE RecordExit
    <2>1. CASE UNCHANGED upd
      BY <1>8, <2>1, ContainerKept DEF RecordExit
    <2>2. CASE LockFree /\ RecordReadinessFailure
      <3>1. UNCHANGED <<active, previous, dir, txn>>
        BY <1>8, <2>2 DEF RecordExit, ContainerEnds, NoContainerTxn, LockFree
      <3> QED BY <2>2, <3>1, ReadinessFailureKept
    <2> QED BY <1>8, <2>1, <2>2 DEF RecordExit
  <1>9. CASE EntrypointReturns
    BY <1>9, ContainerKept DEF EntrypointReturns
  <1> QED
    BY <1>1, <1>2, <1>3, <1>4, <1>5, <1>6, <1>7, <1>8, <1>9 DEF Entrypoint

\* Nor do the operator's.
LEMMA OperatorKept ==
    IInv /\ FInv /\ Operator => FInv'
  <1> SUFFICES ASSUME IInv, FInv, Operator PROVE FInv'
    OBVIOUS
  <1>1. CASE Quiesce
    BY <1>1, QuietKept DEF Quiesce, durable
  <1>2. CASE ExplicitUpdate
    BY <1>2, BegunKept DEF ExplicitUpdate, durable
  <1>3. CASE Resume
    BY <1>3, QuietKept DEF Resume, durable
  <1>4. CASE Accept
    <2>1. txn = NoTxn
      BY <1>4 DEF Accept, LockFree, IInv, Consistent, IdleWhenFree
    <2> QED BY <1>4, <2>1, SessionKept DEF Accept, Held
  <1> QED
    BY <1>1, <1>2, <1>3, <1>4 DEF Operator

\* Nor do a pending deployment, kills and failed records; the loss of the host leaves
\* nothing to forget.
LEMMA EnvironsKept ==
    IInv /\ FInv /\ Environs => FInv'
  <1> SUFFICES ASSUME IInv, FInv, Environs PROVE FInv'
    OBVIOUS
  <1>1. CASE DeploymentPending
    <2>1. txn' = NoTxn /\ UNCHANGED <<active, previous, dir>> /\ At("decide")
      BY <1>1, EndsFree DEF DeploymentPending
    <2>2. CASE UNCHANGED upd
      BY <2>1, <2>2, EndsKept
    <2>3. CASE upd.state \notin Held /\ upd' = Observation(upd)
      BY <2>1, <2>3, ObservedKept
    <2> QED BY <1>1, <2>2, <2>3 DEF DeploymentPending
  <1>2. CASE MarkFails
    <2>1. txn = NoTxn
      BY <1>2 DEF MarkFails, LockFree, IInv, Consistent, IdleWhenFree
    <2> QED BY <1>2, <2>1, QuietKept, SessionKept DEF MarkFails, AwaitsWorld, Held
  <1>3. CASE ReadyFails
    BY <1>3, QuietKept, ReadyKept DEF ReadyFails
  <1>4. CASE ReadinessFails
    BY <1>4, QuietKept, ReadinessFailureKept DEF ReadinessFails
  <1>5. CASE KillContainer
    BY <1>5, ContainerKept DEF KillContainer
  <1>6. CASE KillUpdate
    BY <1>6, CutEnds DEF KillUpdate
  <1>7. CASE Publish
    BY <1>7, QuietKept DEF Publish, durable
  <1>8. CASE ReplaceHost
    <2>1. Holding' = {}
      BY <1>8 DEF ReplaceHost, Holding, Populated
    <2>2. FallbackReady' /\ CandidateOnlyPending' /\ Accounted' /\ Forgettable' /\ OnePlace'
      BY <1>8, <2>1 DEF ReplaceHost, Uninitialized, NoTxn, FallbackReady, Committed, Held,
         ActivationTookEffect, CandidateOnlyPending, Accounted, Forgettable, Staged, OnePlace, At
    <2>3. PreviousAtStep'
      BY <1>8, <2>1 DEF ReplaceHost, Uninitialized, NoTxn, PreviousAtStep, HasFinal, Promoting,
         Activating, WithoutPrevious, Downloading, Interrupted, At
    <2> QED BY <2>2, <2>3 DEF FInv
  <1> QED
    BY <1>1, <1>2, <1>3, <1>4, <1>5, <1>6, <1>7, <1>8 DEF Environs

\* Nor does a start, a stop or an exit.
LEMMA OrdinaryKept ==
    IInv /\ FInv /\ (StartContainer \/ RequestStop \/ ServerExits) => FInv'
  <1> SUFFICES ASSUME IInv, FInv, (StartContainer \/ RequestStop \/ ServerExits) PROVE FInv'
    OBVIOUS
  <1>1. CASE StartContainer
    BY <1>1, QuietKept DEF StartContainer, durable
  <1>2. CASE RequestStop
    BY <1>2, QuietKept DEF RequestStop, durable
  <1>3. CASE ServerExits
    BY <1>3, QuietKept DEF ServerExits, durable
  <1> QED
    BY <1>1, <1>2, <1>3

\* Every step preserves the invariant.
LEMMA NextKept == IInv /\ FInv /\ [Next]_vars => FInv'
  <1> SUFFICES ASSUME IInv, FInv, [Next]_vars PROVE FInv'
    OBVIOUS
  <1>1. CASE Transact
    BY <1>1, RecoveryKept, DecisionKept, CheckKept, StagingKept, ActivationKept, FailureKept
       DEF Transact
  <1>2. CASE UNCHANGED vars
    BY <1>2, QuietKept DEF vars
  <1> QED
    BY <1>1, <1>2, InputOutputFaultKept, EntrypointKept, OperatorKept, EnvironsKept,
       OrdinaryKept DEF Next

\* A fresh installation satisfies it.
LEMMA InitKept == Init => FInv
  <1> SUFFICES ASSUME Init PROVE FInv
    OBVIOUS
  <1>1. Holding = {}
    BY DEF Init, Holding, Populated
  <1>2. FallbackReady /\ CandidateOnlyPending /\ Accounted /\ Forgettable /\ OnePlace
    BY <1>1 DEF Init, Uninitialized, NoTxn, FallbackReady, Committed, Held,
       ActivationTookEffect, CandidateOnlyPending, Accounted, Forgettable, Staged, OnePlace, At
  <1>3. PreviousAtStep
    BY <1>1 DEF Init, Uninitialized, NoTxn, PreviousAtStep, HasFinal, Promoting, Activating,
       WithoutPrevious, Downloading, Interrupted, At
  <1> QED BY <1>2, <1>3 DEF FInv

-----------------------------------------------------------------------------
(* The theorems about what is kept and forgotten *)

\* At every moment, whatever is killed or fails to be written, what an update keeps
\* is complete and named, and what it forgets holds no data.
THEOREM KeepingInvariance == Spec => []FInv
  <1>1. IInv /\ FInv /\ [Next]_vars => FInv'
    BY NextKept
  <1> QED
    BY InitKept, <1>1, Invariance, PTL DEF Spec

\* Until a candidate is accepted, the release that it replaced is complete and
\* previous-release names it.
THEOREM FallbackIsKept == Spec => []FallbackKept
  <1>1. FInv => FallbackKept
    BY DEF FInv, FallbackReady, Committed, FallbackKept
  <1> QED
    BY <1>1, KeepingInvariance, PTL

\* Every directory that holds data is selected, the fallback, or on record.
THEOREM NothingLeaks == Spec => []NoLeakedRelease
  <1>1. FInv => NoLeakedRelease
    BY DEF FInv, Accounted, Holding, NoLeakedRelease
  <1> QED
    BY <1>1, KeepingInvariance, PTL

\* Two releases are enough to hold all data there is.
LEMMA HeldByTwo == IInv /\ FInv => \E a, b : Holding \subseteq {a, b}
  <1> SUFFICES ASSUME IInv, FInv PROVE \E a, b : Holding \subseteq {a, b}
    OBVIOUS
  <1> USE HoldingType DEF IInv, Consistent, PromotedOnlyPromoting, FInv, PreviousAtStep,
     CandidateOnlyPending, Accounted, OnePlace
  <1>1. CASE upd.state \notin CandidateStates
    <2>1. Holding \subseteq {active, previous}
      BY <1>1 DEF CandidateStates, Interrupted
    <2> QED BY <2>1
  <1>2. CASE upd.state \in Held \/ ActivationTookEffect
    <2>1. Holding \subseteq {active, previous}
      BY <1>2 DEF CandidateSelected, CandidateActive, ActivationTookEffect, Held
    <2> QED BY <2>1
  <1>3. CASE upd.state = "activating" /\ ~ActivationTookEffect
    <2>1. Holding \subseteq {active, upd.candidateRelease}
      BY <1>3
    <2> QED BY <2>1
  <1>4. CASE upd.state = "downloading-candidate"
    <2>1. Holding \subseteq {active, upd.candidateRelease}
      BY <1>4 DEF Interrupted
    <2> QED BY <2>1
  <1>5. CASE upd.state = "promoting-candidate"
    <2>1. \/ Holding \subseteq {active, upd.candidateRelease}
          \/ Holding \subseteq {active, upd.promotedRelease}
      BY <1>5 DEF Interrupted
    <2> QED BY <2>1
  <1> QED
    BY <1>1, <1>2, <1>3, <1>4, <1>5 DEF CandidateStates, Interrupted

\* So the root volume never has to hold three.
THEOREM SpaceForTwo == Spec => []TwoReleases
  <1>1. ASSUME IInv, FInv PROVE TwoReleases
    <2>1. PICK a, b : Holding \subseteq {a, b}
      BY <1>1, HeldByTwo
    <2>2. IsFiniteSet({a}) /\ Cardinality({a}) = 1
      BY FS_Singleton
    <2>3. IsFiniteSet({a} \cup {b}) /\ Cardinality({a} \cup {b}) <= 2
      BY <2>2, FS_AddElement
    <2>4. {a, b} = {a} \cup {b}
      OBVIOUS
    <2>5. Cardinality(Holding) <= Cardinality({a} \cup {b}) /\ IsFiniteSet(Holding)
      BY <2>1, <2>3, <2>4, FS_Subset
    <2>6. Cardinality(Holding) \in Nat /\ Cardinality({a} \cup {b}) \in Nat
      BY <2>3, <2>5, FS_CardinalityType
    <2> QED BY <2>3, <2>5, <2>6 DEF TwoReleases, Holding
  <1> QED
    BY <1>1, Invariance, KeepingInvariance, PTL

=============================================================================
