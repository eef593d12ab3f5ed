---------------------------- MODULE WorldBackup ----------------------------
(***************************************************************************)
(* BackupManager.create, which GameUpdater takes as one step: the archive  *)
(* of the world made before an update, its two sidecars, and the pruning   *)
(* of older archives.  Every write, rename and deletion is a step of its   *)
(* own, may fail, and may be the last one before a kill or a power loss.   *)
(* Creates follow one another, since each runs under the transaction lock. *)
(***************************************************************************)
EXTENDS Sequences, Naturals, FiniteSets

CONSTANTS
    Retention,  \* backup_retention
    MaxShelf    \* bound: a create begins only over fewer archives

ASSUME RetentionAssumption == Retention \in Nat /\ Retention >= 2
ASSUME ShelfAssumption == MaxShelf \in Nat

VARIABLES
    shelf,      \* the archives pz-pre-update-*.tar.gz with their sidecars, by
                \* st_mtime, the latest first
    mine,       \* the place of the archive being made among them, 0 if not there
    partial,    \* is there a partial file of this create?
    pc,         \* where create is, or how it ended
    ok,         \* its local "succeeded"
    full,       \* history: have there ever been Retention archives?
    behind      \* history: had the clock been set back when this one was written?

vars == <<shelf, mine, partial, pc, ok, full, behind>>

-----------------------------------------------------------------------------
Sidecars == [sum : BOOLEAN, meta : BOOLEAN]
Bare == [sum |-> FALSE, meta |-> FALSE]
Complete == [sum |-> TRUE, meta |-> TRUE]

Ended == {"idle", "returned", "failed", "littered", "killed"}

Without(k) == SubSeq(shelf, 1, k - 1) \o SubSeq(shelf, k + 1, Len(shelf))
WithBareAt(k) == SubSeq(shelf, 1, k - 1) \o <<Bare>> \o SubSeq(shelf, k, Len(shelf))

\* The archive at k is deleted.
Remove(k) ==
    /\ shelf' = Without(k)
    /\ mine' = IF mine = k THEN 0 ELSE IF mine > k THEN mine - 1 ELSE mine

\* The next step, the finally clause after an error included.
Go(to) == pc' = to /\ UNCHANGED <<ok, full, behind>>

-----------------------------------------------------------------------------
(* The archive *)

Begin ==
    /\ pc \in Ended /\ Len(shelf) < MaxShelf
    /\ pc' = "write" /\ mine' = 0 /\ partial' = FALSE /\ ok' = FALSE
    /\ behind' \in BOOLEAN
    /\ UNCHANGED <<shelf, full>>

\* The data directory is missing, or an archive of this second exists.
Refuse ==
    /\ pc = "write" /\ Go("failed")
    /\ UNCHANGED <<shelf, mine, partial>>

\* tarfile.add into the partial file, and fsync
Write ==
    /\ pc = "write" /\ Go("verify")
    /\ partial' = TRUE
    /\ UNCHANGED <<shelf, mine>>

WriteFails ==
    /\ pc = "write" /\ Go("unlink-partial")
    /\ partial' \in BOOLEAN
    /\ UNCHANGED <<shelf, mine>>

\* The partial file is read back and has a data tree; its digest is taken.
Verify ==
    /\ pc = "verify" /\ Go("rename")
    /\ UNCHANGED <<shelf, mine, partial>>

\* os.replace: the archive has the time its data was written.
Rename ==
    /\ pc = "rename"
    /\ \E k \in 1..Len(shelf) + 1 :
         /\ k > 1 => behind
         /\ shelf' = WithBareAt(k) /\ mine' = k
    /\ partial' = FALSE
    /\ full' = (full \/ Len(shelf) + 1 >= Retention)
    /\ pc' = "sync" /\ UNCHANGED <<ok, behind>>

Sync ==
    /\ pc = "sync" /\ Go("sum")
    /\ UNCHANGED <<shelf, mine, partial>>

\* Mutation of Recheck: the archive it has just renamed is taken as read.
RecheckNone == pc = "sum" /\ Go("prune") /\ UNCHANGED <<shelf, mine, partial>>

\* The archive in place is read once more and has the same digest.
Recheck ==
    /\ pc = "recheck" /\ Go("prune")
    /\ UNCHANGED <<shelf, mine, partial>>

\* A verification, the rename or the directory sync fails.
StepFails ==
    /\ pc \in {"verify", "rename", "sync", "recheck"} /\ Go("unlink-partial")
    /\ UNCHANGED <<shelf, mine, partial>>

-----------------------------------------------------------------------------
(* The sidecars *)

WriteSum ==
    /\ pc = "sum" /\ Go("meta")
    /\ shelf' = [shelf EXCEPT ![mine].sum = TRUE]
    /\ UNCHANGED <<mine, partial>>

WriteMeta ==
    /\ pc = "meta" /\ Go("recheck")
    /\ shelf' = [shelf EXCEPT ![mine].meta = TRUE]
    /\ UNCHANGED <<mine, partial>>

\* atomic_write fails before, or after, the file is in place.
SumFails ==
    /\ pc = "sum" /\ Go("unlink-partial")
    /\ shelf' \in {shelf, [shelf EXCEPT ![mine].sum = TRUE]}
    /\ UNCHANGED <<mine, partial>>

MetaFails ==
    /\ pc = "meta" /\ Go("unlink-partial")
    /\ shelf' \in {shelf, [shelf EXCEPT ![mine].meta = TRUE]}
    /\ UNCHANGED <<mine, partial>>

-----------------------------------------------------------------------------
(* _prune *)

\* Mutation of Beyond: one archive fewer is kept.
BeyondOneLess == Retention

\* archives[self.retention:]
Beyond == Retention + 1
Excess == Len(shelf) >= Beyond

\* An archive is deleted, and then its sidecars; those of an archive that is
\* gone matter to nobody.
PruneArchive ==
    /\ pc = "prune" /\ Excess /\ Go("prune-sidecars")
    /\ Remove(Beyond)
    /\ UNCHANGED partial

PruneSidecars ==
    /\ pc = "prune-sidecars" /\ Go("prune")
    /\ UNCHANGED <<shelf, mine, partial>>

PruneFails ==
    /\ pc \in {"prune", "prune-sidecars"} /\ Go("unlink-partial")
    /\ UNCHANGED <<shelf, mine, partial>>

Succeed ==
    /\ pc = "prune" /\ ~Excess
    /\ ok' = TRUE /\ pc' = "unlink-partial"
    /\ UNCHANGED <<shelf, mine, partial, full, behind>>

-----------------------------------------------------------------------------
(* The finally clause *)

UnlinkPartial ==
    /\ pc = "unlink-partial" /\ Go(IF ok THEN "returned" ELSE "unlink-archive")
    /\ partial' = FALSE
    /\ UNCHANGED <<shelf, mine>>

\* Mutation of UnlinkArchive: only the partial file is cleaned up.
UnlinkNothing == pc = "unlink-archive" /\ Go("failed") /\ UNCHANGED <<shelf, mine, partial>>

\* The archive goes first, then its sidecars.
UnlinkArchive ==
    /\ pc = "unlink-archive" /\ Go("failed")
    /\ IF mine = 0 THEN UNCHANGED <<shelf, mine>> ELSE Remove(mine)
    /\ UNCHANGED partial

\* A deletion fails, and what was still to be deleted stays: the archive, or only
\* its sidecars.
UnlinkFails ==
    /\ \/ pc = "unlink-partial" /\ partial /\ UNCHANGED <<shelf, mine>>
       \/ pc = "unlink-archive" /\ UNCHANGED <<shelf, mine>>
       \/ pc = "unlink-archive" /\ mine # 0 /\ Remove(mine)
    /\ Go("littered")
    /\ UNCHANGED partial

\* The process is killed, or the power lost: a rename not yet synced is undone.
Kill ==
    /\ pc \notin Ended /\ Go("killed")
    /\ \/ UNCHANGED <<shelf, mine, partial>>
       \/ pc = "write" /\ partial' = TRUE /\ UNCHANGED <<shelf, mine>>
       \/ pc = "sync" /\ Remove(mine) /\ partial' = TRUE

-----------------------------------------------------------------------------
Init ==
    /\ shelf = <<>> /\ mine = 0 /\ partial = FALSE /\ pc = "idle"
    /\ ok = FALSE /\ full = FALSE /\ behind = FALSE

Next ==
    \/ Begin \/ Refuse \/ Write \/ Verify \/ Rename \/ Sync
    \/ WriteSum \/ WriteMeta \/ Recheck
    \/ PruneArchive \/ PruneSidecars \/ Succeed
    \/ UnlinkPartial \/ UnlinkArchive
    \/ WriteFails \/ StepFails \/ SumFails \/ MetaFails \/ PruneFails \/ UnlinkFails
    \/ Kill

Spec == Init /\ [][Next]_vars

-----------------------------------------------------------------------------
(* Properties *)

Pcs == Ended \cup
    {"write", "verify", "rename", "sync", "sum", "meta", "recheck", "prune",
     "prune-sidecars", "unlink-partial", "unlink-archive"}

\* Every variable has its type; the archive being made is one of the archives, and
\* is there while its sidecars are written.
BackupTypeOK ==
    /\ shelf \in Seq(Sidecars) /\ mine \in 0..Len(shelf)
    /\ partial \in BOOLEAN /\ pc \in Pcs
    /\ ok \in BOOLEAN /\ full \in BOOLEAN /\ behind \in BOOLEAN
    /\ pc \in {"sync", "sum", "meta", "recheck"} => mine # 0

\* The completed recovery points, and what earlier creates that were killed, or could
\* not delete their archive, left without one of its sidecars: _prune counts them alike.
Completed == Cardinality({k \in 1..Len(shelf) : shelf[k] = Complete})
Torn == Cardinality({k \in 1..Len(shelf) \ {mine} : shelf[k] # Complete})

\* Once there were Retention archives, every create that returns leaves Retention
\* completed recovery points less one for each torn archive in their places; and
\* whatever fails or is killed there is at most one less: a create that fails after it
\* has begun to prune deletes its own archive as well.  (docs/architecture.md:51 promises
\* two completed ones: see the observations in README.md.)
Retained ==
    full => Completed + Torn >= IF pc = "returned" THEN Retention ELSE Retention - 1

Others == IF mine = 0 THEN Len(shelf) ELSE Len(shelf) - 1

\* An older archive is given up only for one that is in place with both its
\* sidecars (unless the clock was set back, and the new one counts as old).
PrunedForComplete ==
    [][Others' < Others => behind \/ (mine # 0 /\ shelf[mine] = Complete)]_vars

\* A path that is returned names the latest archive, with its checksum and its
\* metadata, unless the clock was set back; an error leaves nothing behind, unless
\* a deletion fails too.
OutcomeHonest ==
    /\ pc = "returned" /\ ~behind => mine = 1 /\ shelf[1] = Complete
    /\ pc = "failed" => mine = 0 /\ ~partial

=============================================================================
