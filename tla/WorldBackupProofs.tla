------------------------- MODULE WorldBackupProofs -------------------------
(***************************************************************************)
(* Proofs about WorldBackup, for every retention of at least two.          *)
(*                                                                         *)
(* The number of archives alone is not inductive: a create that fails      *)
(* takes its own archive along.  What is kept is a bound on the others     *)
(* (OthersKept), and what each phase knows of the archive being made.      *)
(***************************************************************************)
EXTENDS WorldBackup, SequenceTheorems, FiniteSetTheorems, TLAPS

Naming == {"sync", "sum", "meta", "recheck"}
Pruning == {"prune", "prune-sidecars"}

\* A failing create may still give back its own archive: the others must suffice.
OthersKept == full => Others >= Retention - 1

\* What is known of the archive being made, phase by phase.
Making ==
    /\ pc \in {"write", "verify", "rename"} => mine = 0
    /\ pc \in {"write", "unlink-archive"} \cup Naming \cup Pruning => ~partial
    /\ pc \in Naming \cup Pruning /\ ~behind => mine = 1
    /\ pc \in {"meta", "recheck"} => shelf[mine].sum
    /\ pc = "recheck" \/ (pc \in Pruning /\ mine # 0) => shelf[mine] = Complete
    /\ pc \in Pruning /\ mine = 0 => Len(shelf) >= Retention

\* What is known once create has succeeded or failed.
Finished ==
    /\ ok => /\ pc \in Ended \cup {"unlink-partial"} /\ ~partial
             /\ full => Len(shelf) >= Retention
             /\ mine # 0 => shelf[mine] = Complete
             /\ ~behind => mine = 1
    /\ pc = "returned" => ok
    /\ pc = "failed" => mine = 0 /\ ~partial

BInv == BackupTypeOK /\ OthersKept /\ Making /\ Finished

-----------------------------------------------------------------------------
(* The shelf as a sequence *)

\* Deleting the archive at k moves those behind it up by one.
LEMMA DeleteAt ==
    ASSUME shelf \in Seq(Sidecars), NEW k \in 1..Len(shelf)
    PROVE  /\ Without(k) \in Seq(Sidecars)
           /\ Len(Without(k)) = Len(shelf) - 1
           /\ \A i \in 1..Len(shelf) - 1 :
                Without(k)[i] = IF i < k THEN shelf[i] ELSE shelf[i + 1]
<1>0. Len(shelf) \in Nat /\ \A i \in 1..Len(shelf) : shelf[i] \in Sidecars
  BY ElementOfSeq, LenProperties
<1>. DEFINE front == SubSeq(shelf, 1, k - 1)
            back == SubSeq(shelf, k + 1, Len(shelf))
<1>1. /\ front \in Seq(Sidecars) /\ Len(front) = k - 1
      /\ \A i \in 1..k - 1 : front[i] = shelf[i]
  <2>1. \A i \in 1..k - 1 : shelf[i] \in Sidecars
    BY <1>0
  <2>2. /\ front \in Seq(Sidecars)
        /\ Len(front) = IF 1 <= k - 1 THEN k - 1 - 1 + 1 ELSE 0
        /\ \A i \in 1..k - 1 - 1 + 1 : front[i] = shelf[1 + i - 1]
    BY <1>0, <2>1, SubSeqProperties
  <2>. QED
    BY <1>0, <2>2
<1>2. /\ back \in Seq(Sidecars) /\ Len(back) = Len(shelf) - k
      /\ \A i \in 1..Len(shelf) - k : back[i] = shelf[k + i]
  <2>1. \A i \in k + 1..Len(shelf) : shelf[i] \in Sidecars
    BY <1>0
  <2>2. /\ back \in Seq(Sidecars)
        /\ Len(back) = IF k + 1 <= Len(shelf) THEN Len(shelf) - (k + 1) + 1 ELSE 0
        /\ \A i \in 1..Len(shelf) - (k + 1) + 1 : back[i] = shelf[k + 1 + i - 1]
    BY <1>0, <2>1, SubSeqProperties
  <2>. QED
    BY <1>0, <2>2
<1>3. /\ front \o back \in Seq(Sidecars)
      /\ Len(front \o back) = Len(front) + Len(back)
      /\ \A i \in 1..Len(front) + Len(back) :
           (front \o back)[i] = IF i <= Len(front) THEN front[i] ELSE back[i - Len(front)]
  BY <1>1, <1>2, ConcatProperties
<1>4. Without(k) = front \o back
  BY DEF Without
<1>. HIDE DEF front, back
<1>5. k \in Nat /\ k <= Len(shelf) /\ Len(Without(k)) = Len(shelf) - 1
  <2>1. k \in Nat /\ k <= Len(shelf)
    BY <1>0
  <2>2. Len(Without(k)) = Len(front) + Len(back)
    BY <1>3, <1>4
  <2>. QED
    BY <1>0, <1>1, <1>2, <2>1, <2>2
<1>6. ASSUME NEW i \in 1..Len(shelf) - 1
      PROVE  Without(k)[i] = IF i < k THEN shelf[i] ELSE shelf[i + 1]
  <2>1. CASE i < k
    BY <1>0, <1>1, <1>2, <1>3, <1>4, <1>5, <2>1
  <2>2. CASE i >= k
    <3>1. /\ i \in 1..Len(front) + Len(back) /\ ~(i <= Len(front))
          /\ i - Len(front) \in 1..Len(shelf) - k /\ k + (i - Len(front)) = i + 1
      BY <1>0, <1>1, <1>2, <1>5, <2>2
    <3>2. (front \o back)[i] = back[i - Len(front)]
      BY <1>3, <3>1
    <3>3. back[i - Len(front)] = shelf[i + 1]
      BY <1>2, <3>1
    <3>. QED
      BY <1>0, <1>4, <1>5, <2>2, <3>2, <3>3
  <2>. QED
    BY <1>0, <1>5, <2>1, <2>2
<1>. QED
  BY <1>3, <1>4, <1>5, <1>6

\* The new archive at k moves those from k on down by one.
LEMMA InsertAt ==
    ASSUME shelf \in Seq(Sidecars), NEW k \in 1..Len(shelf) + 1
    PROVE  /\ WithBareAt(k) \in Seq(Sidecars)
           /\ Len(WithBareAt(k)) = Len(shelf) + 1
<1>0. Len(shelf) \in Nat /\ \A i \in 1..Len(shelf) : shelf[i] \in Sidecars
  BY ElementOfSeq, LenProperties
<1>. DEFINE front == SubSeq(shelf, 1, k - 1)
            back == SubSeq(shelf, k, Len(shelf))
<1>1. front \in Seq(Sidecars) /\ Len(front) = k - 1
  <2>1. \A i \in 1..k - 1 : shelf[i] \in Sidecars
    BY <1>0
  <2>2. /\ front \in Seq(Sidecars)
        /\ Len(front) = IF 1 <= k - 1 THEN k - 1 - 1 + 1 ELSE 0
    BY <1>0, <2>1, SubSeqProperties
  <2>. QED
    BY <1>0, <2>2
<1>2. back \in Seq(Sidecars) /\ Len(back) = Len(shelf) - k + 1
  <2>1. \A i \in k..Len(shelf) : shelf[i] \in Sidecars
    BY <1>0
  <2>2. /\ back \in Seq(Sidecars)
        /\ Len(back) = IF k <= Len(shelf) THEN Len(shelf) - k + 1 ELSE 0
    BY <1>0, <2>1, SubSeqProperties
  <2>. QED
    BY <1>0, <2>2
<1>3. <<Bare>> \in Seq(Sidecars) /\ Len(<<Bare>>) = 1
  BY DEF Bare, Sidecars
<1>4. WithBareAt(k) = (front \o <<Bare>>) \o back
  BY DEF WithBareAt
<1>. HIDE DEF front, back
<1>5. front \o <<Bare>> \in Seq(Sidecars) /\ Len(front \o <<Bare>>) = k
  BY <1>0, <1>1, <1>3, ConcatProperties
<1>6. /\ (front \o <<Bare>>) \o back \in Seq(Sidecars)
      /\ Len((front \o <<Bare>>) \o back) = k + Len(back)
  BY <1>2, <1>5, ConcatProperties
<1>. QED
  BY <1>0, <1>2, <1>4, <1>6

-----------------------------------------------------------------------------
(* The steps *)

\* A step that leaves the archives alone.
Quiet == UNCHANGED <<shelf, mine>>

\* Deleting an archive leaves the one being made in its new place, or nowhere.
LEMMA Removal ==
    ASSUME BackupTypeOK, NEW k \in 1..Len(shelf), Remove(k)
    PROVE  /\ shelf' \in Seq(Sidecars) /\ Len(shelf') = Len(shelf) - 1
           /\ mine' \in 0..Len(shelf')
           /\ mine = k => mine' = 0
           /\ mine # k /\ mine # 0 => mine' # 0 /\ shelf'[mine'] = shelf[mine]
           /\ mine < k => mine' = mine
<1>0. /\ shelf \in Seq(Sidecars) /\ Len(shelf) \in Nat /\ mine \in 0..Len(shelf)
      /\ k \in Nat /\ k >= 1 /\ k <= Len(shelf) /\ mine \in Nat /\ mine <= Len(shelf)
  BY LenProperties DEF BackupTypeOK
<1>1. /\ shelf' = Without(k)
      /\ mine' = IF mine = k THEN 0 ELSE IF mine > k THEN mine - 1 ELSE mine
  BY DEF Remove
<1>2. /\ shelf' \in Seq(Sidecars) /\ Len(shelf') = Len(shelf) - 1
      /\ \A i \in 1..Len(shelf) - 1 : shelf'[i] = IF i < k THEN shelf[i] ELSE shelf[i + 1]
  BY <1>0, <1>1, DeleteAt
<1>3. mine' \in 0..Len(shelf')
  BY <1>0, <1>1, <1>2
<1>4. ASSUME mine # k, mine # 0
      PROVE  mine' # 0 /\ shelf'[mine'] = shelf[mine]
  <2>1. CASE mine < k
    BY <1>0, <1>1, <1>2, <1>4, <2>1
  <2>2. CASE mine > k
    <3>1. mine' = mine - 1 /\ mine' \in 1..Len(shelf) - 1 /\ ~(mine' < k) /\ mine' + 1 = mine
      BY <1>0, <1>1, <1>4, <2>2
    <3>. QED
      BY <1>0, <1>2, <3>1
  <2>. QED
    BY <1>0, <1>4, <2>1, <2>2
<1>5. mine < k => mine' = mine
  BY <1>0, <1>1
<1>. QED
  BY <1>1, <1>2, <1>3, <1>4, <1>5

\* Writing a sidecar adds no archive; once both are written the entry is complete.
LEMMA Marking ==
    ASSUME BackupTypeOK, mine # 0,
           NEW t \in {[shelf EXCEPT ![mine].sum = TRUE], [shelf EXCEPT ![mine].meta = TRUE]}
    PROVE  /\ t \in Seq(Sidecars) /\ Len(t) = Len(shelf)
           /\ t = [shelf EXCEPT ![mine].sum = TRUE] => t[mine].sum
           /\ t = [shelf EXCEPT ![mine].meta = TRUE] /\ shelf[mine].sum => t[mine] = Complete
<1>1. /\ shelf \in Seq(Sidecars) /\ mine \in 1..Len(shelf) /\ shelf[mine] \in Sidecars
  <2>1. shelf \in Seq(Sidecars) /\ Len(shelf) \in Nat /\ mine \in 1..Len(shelf)
    BY LenProperties DEF BackupTypeOK
  <2>. QED
    BY <2>1, ElementOfSeq
<1>2. \A e \in Sidecars : e.sum /\ e.meta => e = Complete
  BY DEF Sidecars, Complete
<1>. DEFINE summed == [shelf[mine] EXCEPT !.sum = TRUE]
            described == [shelf[mine] EXCEPT !.meta = TRUE]
<1>3. /\ summed \in Sidecars /\ summed.sum
      /\ described \in Sidecars /\ described.meta /\ described.sum = shelf[mine].sum
  BY <1>1 DEF Sidecars
<1>4. /\ [shelf EXCEPT ![mine].sum = TRUE] = [shelf EXCEPT ![mine] = summed]
      /\ [shelf EXCEPT ![mine].meta = TRUE] = [shelf EXCEPT ![mine] = described]
  OBVIOUS
<1>. HIDE DEF summed, described
<1>5. \A e \in Sidecars : LET u == [shelf EXCEPT ![mine] = e]
                          IN  u \in Seq(Sidecars) /\ Len(u) = Len(shelf) /\ u[mine] = e
  BY <1>1, ExceptSeq
<1>6. t \in Seq(Sidecars) /\ Len(t) = Len(shelf)
  <2>1. CASE t = [shelf EXCEPT ![mine] = summed]
    BY <1>3, <1>5, <2>1
  <2>2. CASE t = [shelf EXCEPT ![mine] = described]
    BY <1>3, <1>5, <2>2
  <2>. QED
    BY <1>4, <2>1, <2>2
<1>7. ASSUME t = [shelf EXCEPT ![mine].sum = TRUE]
      PROVE  t[mine].sum
  BY <1>3, <1>4, <1>5, <1>7
<1>8. ASSUME t = [shelf EXCEPT ![mine].meta = TRUE], shelf[mine].sum
      PROVE  t[mine] = Complete
  BY <1>2, <1>3, <1>4, <1>5, <1>8
<1>. QED
  BY <1>6, <1>7, <1>8

\* The invariant is inductive: what an error or a kill leaves behind is as much
\* bounded by OthersKept as what success does.
LEMMA Inductive == BInv /\ [Next]_vars => BInv'
<1>. SUFFICES ASSUME BInv, [Next]_vars
              PROVE  BInv'
  OBVIOUS
<1>. USE RetentionAssumption, ShelfAssumption
<1>0. /\ BackupTypeOK /\ OthersKept /\ Making /\ Finished
      /\ shelf \in Seq(Sidecars) /\ Len(shelf) \in Nat /\ mine \in 0..Len(shelf)
      /\ mine \in Nat /\ mine <= Len(shelf)
  BY LenProperties DEF BInv, BackupTypeOK
<1>1. CASE Begin
  <2>1. /\ shelf' = shelf /\ full' = full /\ pc' = "write" /\ mine' = 0 /\ partial' = FALSE
        /\ ok' = FALSE /\ behind' \in BOOLEAN
    BY <1>1 DEF Begin
  <2>2. BackupTypeOK'
    <3>1. mine' \in 0..Len(shelf')
      BY <1>0, <2>1
    <3>. QED
      BY <1>0, <2>1, <3>1 DEF BackupTypeOK, Pcs, Ended
  <2>3. OthersKept'
    BY <1>0, <2>1 DEF OthersKept, Others, BackupTypeOK
  <2>4. Making' /\ Finished'
    BY <2>1 DEF Making, Finished, Naming, Pruning, Ended
  <2>. QED
    BY <2>2, <2>3, <2>4 DEF BInv
<1>2. CASE Refuse
  BY <1>0, <1>2
  DEF Refuse, Go, BInv, BackupTypeOK, OthersKept, Others, Making,
      Finished, Naming, Pruning, Ended, Pcs
<1>3. CASE Write
  BY <1>0, <1>3
  DEF Write, Go, BInv, BackupTypeOK, OthersKept, Others, Making,
      Finished, Naming, Pruning, Ended, Pcs
<1>4. CASE WriteFails
  BY <1>0, <1>4
  DEF WriteFails, Go, BInv, BackupTypeOK, OthersKept, Others, Making,
      Finished, Naming, Pruning, Ended, Pcs
<1>5. CASE Verify
  BY <1>0, <1>5
  DEF Verify, Go, BInv, BackupTypeOK, OthersKept, Others, Making,
      Finished, Naming, Pruning, Ended, Pcs
<1>6. CASE Sync
  BY <1>0, <1>6
  DEF Sync, Go, BInv, BackupTypeOK, OthersKept, Others, Making,
      Finished, Naming, Pruning, Ended, Pcs
<1>7. CASE Recheck
  BY <1>0, <1>7
  DEF Recheck, Go, BInv, BackupTypeOK, OthersKept, Others, Making,
      Finished, Naming, Pruning, Ended, Pcs
<1>8. CASE StepFails
  BY <1>0, <1>8
  DEF StepFails, Go, BInv, BackupTypeOK, OthersKept, Others, Making,
      Finished, Naming, Pruning, Ended, Pcs
<1>9. CASE PruneSidecars
  BY <1>0, <1>9
  DEF PruneSidecars, Go, BInv, BackupTypeOK, OthersKept, Others, Making,
      Finished, Naming, Pruning, Ended, Pcs
<1>10. CASE PruneFails
  BY <1>0, <1>10
  DEF PruneFails, Go, BInv, BackupTypeOK, OthersKept, Others, Making,
      Finished, Naming, Pruning, Ended, Pcs
<1>11. CASE Succeed
  BY <1>0, <1>11
  DEF Succeed, Excess, Beyond, Go, BInv, BackupTypeOK, OthersKept, Others, Making,
      Finished, Naming, Pruning, Ended, Pcs
<1>12. CASE UnlinkPartial
  BY <1>0, <1>12
  DEF UnlinkPartial, Go, BInv, BackupTypeOK, OthersKept, Others, Making,
      Finished, Naming, Pruning, Ended, Pcs
<1>13. CASE UnlinkFails
  <2>1. CASE Quiet
    BY <1>0, <1>13, <2>1
    DEF UnlinkFails, Quiet, Go, BInv, BackupTypeOK, OthersKept, Others, Making,
        Finished, Naming, Pruning, Ended, Pcs
  <2>2. CASE pc = "unlink-archive" /\ mine # 0 /\ Remove(mine)
    <3>1. mine \in 1..Len(shelf)
      BY <1>0, <2>2
    <3>2. /\ shelf' \in Seq(Sidecars) /\ Len(shelf') = Len(shelf) - 1 /\ mine' = 0
      BY <1>0, <2>2, <3>1, Removal
    <3>. QED
      BY <1>0, <1>13, <2>2, <3>2
      DEF UnlinkFails, Go, BInv, BackupTypeOK, OthersKept, Others, Making,
          Finished, Naming, Pruning, Ended, Pcs
  <2>. QED
    BY <1>13, <2>1, <2>2 DEF UnlinkFails, Quiet
<1>14. CASE Rename
  <2>1. PICK k \in 1..Len(shelf) + 1 :
          (k > 1 => behind) /\ shelf' = WithBareAt(k) /\ mine' = k
    BY <1>14 DEF Rename
  <2>2. /\ pc = "rename" /\ pc' = "sync" /\ ~partial' /\ partial' \in BOOLEAN
        /\ full' = (full \/ Len(shelf) + 1 >= Retention) /\ ok' = ok /\ behind' = behind
    BY <1>14 DEF Rename
  <2>3. shelf' \in Seq(Sidecars) /\ Len(shelf') = Len(shelf) + 1
    BY <1>0, <2>1, InsertAt
  <2>4. mine' # 0 /\ mine' \in 0..Len(shelf') /\ (~behind => mine' = 1)
    BY <1>0, <2>1, <2>3
  <2>5. mine = 0 /\ ~ok
    BY <1>0, <2>2 DEF Making, Finished, Ended
  <2>6. BackupTypeOK'
    BY <1>0, <2>2, <2>3, <2>4 DEF BackupTypeOK, Pcs, Ended
  <2>7. OthersKept'
    BY <1>0, <2>2, <2>3, <2>4, <2>5 DEF OthersKept, Others
  <2>8. Making' /\ Finished'
    BY <2>2, <2>4, <2>5 DEF Making, Finished, Naming, Pruning, Ended
  <2>. QED
    BY <2>6, <2>7, <2>8 DEF BInv
<1>15. CASE WriteSum
  <2>. DEFINE marked == [shelf EXCEPT ![mine].sum = TRUE]
  <2>1. mine # 0 /\ pc = "sum" /\ mine' = mine /\ shelf' = marked
    BY <1>0, <1>15 DEF WriteSum, BackupTypeOK
  <2>2. /\ marked \in Seq(Sidecars) /\ Len(marked) = Len(shelf)
        /\ marked[mine].sum
    BY <1>0, <2>1, Marking
  <2>. HIDE DEF marked
  <2>3. shelf' \in Seq(Sidecars) /\ Len(shelf') = Len(shelf)
    BY <1>0, <2>1, <2>2
  <2>. QED
    BY <1>0, <1>15, <2>1, <2>2, <2>3
    DEF WriteSum, Go, BInv, BackupTypeOK, OthersKept, Others, Making,
      Finished, Naming, Pruning, Ended, Pcs
<1>16. CASE WriteMeta
  <2>. DEFINE marked == [shelf EXCEPT ![mine].meta = TRUE]
  <2>1. mine # 0 /\ pc = "meta" /\ mine' = mine /\ shelf' = marked
    BY <1>0, <1>16 DEF WriteMeta, BackupTypeOK
  <2>2. /\ marked \in Seq(Sidecars) /\ Len(marked) = Len(shelf)
        /\ (shelf[mine].sum => marked[mine] = Complete)
    BY <1>0, <2>1, Marking
  <2>. HIDE DEF marked
  <2>3. shelf' \in Seq(Sidecars) /\ Len(shelf') = Len(shelf)
    BY <1>0, <2>1, <2>2
  <2>. QED
    BY <1>0, <1>16, <2>1, <2>2, <2>3
    DEF WriteMeta, Go, BInv, BackupTypeOK, OthersKept, Others, Making,
      Finished, Naming, Pruning, Ended, Pcs
<1>17. CASE SumFails
  <2>. DEFINE marked == [shelf EXCEPT ![mine].sum = TRUE]
  <2>1. mine # 0 /\ pc = "sum" /\ mine' = mine /\ shelf' \in {shelf, marked}
    BY <1>0, <1>17 DEF SumFails, BackupTypeOK
  <2>2. /\ marked \in Seq(Sidecars) /\ Len(marked) = Len(shelf)
        /\ marked[mine].sum
    BY <1>0, <2>1, Marking
  <2>. HIDE DEF marked
  <2>3. shelf' \in Seq(Sidecars) /\ Len(shelf') = Len(shelf)
    BY <1>0, <2>1, <2>2
  <2>. QED
    BY <1>0, <1>17, <2>1, <2>2, <2>3
    DEF SumFails, Go, BInv, BackupTypeOK, OthersKept, Others, Making,
      Finished, Naming, Pruning, Ended, Pcs
<1>18. CASE MetaFails
  <2>. DEFINE marked == [shelf EXCEPT ![mine].meta = TRUE]
  <2>1. mine # 0 /\ pc = "meta" /\ mine' = mine /\ shelf' \in {shelf, marked}
    BY <1>0, <1>18 DEF MetaFails, BackupTypeOK
  <2>2. /\ marked \in Seq(Sidecars) /\ Len(marked) = Len(shelf)
        /\ (shelf[mine].sum => marked[mine] = Complete)
    BY <1>0, <2>1, Marking
  <2>. HIDE DEF marked
  <2>3. shelf' \in Seq(Sidecars) /\ Len(shelf') = Len(shelf)
    BY <1>0, <2>1, <2>2
  <2>. QED
    BY <1>0, <1>18, <2>1, <2>2, <2>3
    DEF MetaFails, Go, BInv, BackupTypeOK, OthersKept, Others, Making,
      Finished, Naming, Pruning, Ended, Pcs
<1>19. CASE PruneArchive
  <2>1. /\ Beyond \in 1..Len(shelf) /\ Remove(Beyond) /\ Beyond = Retention + 1
        /\ Len(shelf) > Retention
    BY <1>0, <1>19 DEF PruneArchive, Excess, Beyond
  <2>2. /\ shelf' \in Seq(Sidecars) /\ Len(shelf') = Len(shelf) - 1
        /\ mine' \in 0..Len(shelf')
        /\ mine = Beyond => mine' = 0
        /\ mine # Beyond /\ mine # 0 => mine' # 0 /\ shelf'[mine'] = shelf[mine]
        /\ mine < Beyond => mine' = mine
    BY <1>0, <2>1, Removal
  <2>3. /\ pc = "prune" /\ pc' = "prune-sidecars" /\ UNCHANGED <<partial, ok, full, behind>>
    BY <1>19 DEF PruneArchive, Go
  <2>4. ~ok /\ ~partial
    BY <1>0, <2>3 DEF Finished, Making, Ended, Pruning
  <2>5. BackupTypeOK'
    BY <1>0, <2>2, <2>3 DEF BackupTypeOK, Pcs, Ended
  <2>6. OthersKept'
    BY <1>0, <2>1, <2>2, <2>3 DEF OthersKept, Others
  <2>7. Making'
    <3>1. mine' = 0 => Len(shelf') >= Retention
      BY <1>0, <2>1, <2>2
    <3>2. mine' # 0 => shelf'[mine'] = Complete
      <4>1. ASSUME mine' # 0 PROVE mine # 0 /\ mine # Beyond
        BY <1>0, <2>1, <2>2, <4>1
      <4>. QED
        BY <1>0, <2>2, <2>3, <4>1 DEF Making, Pruning
    <3>3. ~behind => mine' = 1
      BY <1>0, <2>1, <2>2, <2>3 DEF Making, Pruning
    <3>. QED
      BY <2>3, <2>4, <3>1, <3>2, <3>3 DEF Making, Naming, Pruning
  <2>8. Finished'
    BY <2>3, <2>4 DEF Finished, Ended
  <2>. QED
    BY <2>5, <2>6, <2>7, <2>8 DEF BInv
<1>20. CASE UnlinkArchive
  <2>1. CASE mine = 0
    BY <1>0, <1>20, <2>1
    DEF UnlinkArchive, Go, BInv, BackupTypeOK, OthersKept, Others, Making,
      Finished, Naming, Pruning, Ended, Pcs
  <2>2. CASE mine # 0
    <3>1. Remove(mine) /\ mine \in 1..Len(shelf)
      BY <1>0, <1>20, <2>2 DEF UnlinkArchive
    <3>2. /\ shelf' \in Seq(Sidecars) /\ Len(shelf') = Len(shelf) - 1 /\ mine' = 0
      BY <1>0, <3>1, Removal
    <3>. QED
      BY <1>0, <1>20, <2>2, <3>2
      DEF UnlinkArchive, Go, BInv, BackupTypeOK, OthersKept, Others, Making,
      Finished, Naming, Pruning, Ended, Pcs
  <2>. QED
    BY <2>1, <2>2
<1>21. CASE Kill
  <2>1. CASE Quiet
    <3>1. /\ UNCHANGED <<shelf, mine, ok, full, behind>> /\ pc' = "killed" /\ pc \notin Ended
          /\ partial' = partial \/ (partial' = TRUE /\ pc \in {"write", "sync"})
      BY <1>21, <2>1 DEF Kill, Quiet, Go
    <3>2. BackupTypeOK' /\ OthersKept'
      BY <1>0, <3>1 DEF BackupTypeOK, OthersKept, Others, Pcs, Ended
    <3>3. Making' /\ Finished'
      BY <1>0, <3>1 DEF Making, Finished, Naming, Pruning, Ended
    <3>. QED
      BY <3>2, <3>3 DEF BInv
  <2>2. CASE pc = "sync" /\ Remove(mine) /\ partial' = TRUE
    <3>1. mine \in 1..Len(shelf)
      BY <1>0, <2>2 DEF BackupTypeOK
    <3>2. /\ shelf' \in Seq(Sidecars) /\ Len(shelf') = Len(shelf) - 1 /\ mine' = 0
      BY <1>0, <2>2, <3>1, Removal
    <3>. QED
      BY <1>0, <1>21, <2>2, <3>1, <3>2
      DEF Kill, Go, BInv, BackupTypeOK, OthersKept, Others, Making,
      Finished, Naming, Pruning, Ended, Pcs
  <2>. QED
    BY <1>21, <2>1, <2>2 DEF Kill, Quiet
<1>22. CASE UNCHANGED vars
  BY <1>0, <1>22
  DEF vars, Go, BInv, BackupTypeOK, OthersKept, Others, Making,
      Finished, Naming, Pruning, Ended, Pcs
<1>. QED
  BY <1>1, <1>2, <1>3, <1>4, <1>5, <1>6, <1>7, <1>8, <1>9, <1>10, <1>11, <1>12, <1>13, <1>14, <1>15, <1>16, <1>17, <1>18, <1>19, <1>20, <1>21, <1>22
  DEF Next

-----------------------------------------------------------------------------
LEMMA Initially == Init => BInv
<1>1. <<>> \in Seq(Sidecars) /\ Len(<<>>) = 0
  BY EmptySeq
<1>2. Init => BackupTypeOK
  <2>. SUFFICES ASSUME Init
                PROVE  BackupTypeOK
    OBVIOUS
  <2>1. shelf \in Seq(Sidecars) /\ mine \in 0..Len(shelf)
    BY <1>1 DEF Init
  <2>. QED
    BY <2>1 DEF Init, BackupTypeOK, Pcs, Ended
<1>. QED
  BY <1>2 DEF Init, BInv, OthersKept, Making, Finished, Naming, Pruning, Ended

\* The invariant the other theorems rest on: what every phase of create knows of the
\* archive it makes, and that the others are never fewer than Retention - 1.
THEOREM BackupInvariance == Spec => []BInv
BY Initially, Inductive, PTL DEF Spec

\* Every variable of create and of the shelf keeps its type.
THEOREM BackupTypes == Spec => []BackupTypeOK
<1>1. BInv => BackupTypeOK
  BY DEF BInv
<1>. QED
  BY BackupInvariance, <1>1, PTL

\* An archive but the one being made is completed or torn, and not both.
LEMMA CompletedAndTorn ==
    ASSUME BackupTypeOK
    PROVE  /\ Completed \in Nat /\ Torn \in Nat
           /\ Completed + Torn >= Others
           /\ (mine # 0 => shelf[mine] = Complete) => Completed + Torn >= Len(shelf)
<1>. DEFINE places == 1..Len(shelf)
            C == {k \in places : shelf[k] = Complete}
            T == {k \in places \ {mine} : shelf[k] # Complete}
<1>0. Len(shelf) \in Nat /\ mine \in 0..Len(shelf)
  BY LenProperties DEF BackupTypeOK
<1>1. IsFiniteSet(places) /\ Cardinality(places) = Len(shelf)
  <2>1. ASSUME NEW n \in Int
        PROVE  IsFiniteSet(1..n) /\ Cardinality(1..n) = IF 1 > n THEN 0 ELSE n - 1 + 1
    <3>1. 1 \in Int
      OBVIOUS
    <3>. QED
      BY <3>1, FS_Interval
  <2>2. PICK n \in Nat : n = Len(shelf)
    BY <1>0
  <2>3. IsFiniteSet(1..n) /\ Cardinality(1..n) = IF 1 > n THEN 0 ELSE n - 1 + 1
    BY <2>1, <2>2
  <2>4. Cardinality(1..n) = n
    BY <2>2, <2>3
  <2>. QED
    BY <2>2, <2>3, <2>4
<1>2. /\ IsFiniteSet(places \ {mine})
      /\ Cardinality(places \ {mine}) = Others
  <2>1. mine \in places <=> mine # 0
    BY <1>0
  <2>. QED
    BY <1>1, <2>1, FS_RemoveElement DEF Others
<1>3. IsFiniteSet(C) /\ IsFiniteSet(T) /\ IsFiniteSet(C \cup T)
  BY <1>1, FS_Subset
<1>4. Cardinality(C \cup T) = Cardinality(C) + Cardinality(T)
  <2>1. C \cap T = {} /\ Cardinality({}) = 0
    BY FS_EmptySet
  <2>2. Cardinality(C \cup T) = Cardinality(C) + Cardinality(T) - Cardinality(C \cap T)
    BY <1>3, FS_Union
  <2>3. Cardinality(C) \in Nat /\ Cardinality(T) \in Nat
    BY <1>3, FS_CardinalityType
  <2>4. Cardinality(C \cap T) = 0
    BY <2>1
  <2>. HIDE DEF C, T
  <2>. QED
    BY <2>2, <2>3, <2>4
<1>5. Cardinality(C \cup T) >= Others
  <2>1. places \ {mine} \in SUBSET (C \cup T)
    OBVIOUS
  <2>2. Cardinality(places \ {mine}) <= Cardinality(C \cup T)
    BY <1>3, <2>1, FS_Subset
  <2>3. Cardinality(C \cup T) \in Nat /\ Others \in Int
    BY <1>0, <1>3, FS_CardinalityType DEF Others
  <2>. QED
    BY <1>2, <2>2, <2>3
<1>6. ASSUME mine # 0 => shelf[mine] = Complete
      PROVE  Cardinality(C \cup T) >= Len(shelf)
  <2>1. places \in SUBSET (C \cup T)
    BY <1>0, <1>6
  <2>2. Cardinality(places) <= Cardinality(C \cup T)
    BY <1>3, <2>1, FS_Subset
  <2>3. Cardinality(C \cup T) \in Nat
    BY <1>3, FS_CardinalityType
  <2>. QED
    BY <1>0, <1>1, <2>2, <2>3
<1>7. /\ Completed = Cardinality(C) /\ Completed \in Nat
      /\ Torn = Cardinality(T) /\ Torn \in Nat
  BY <1>3, FS_CardinalityType DEF Completed, Torn
<1>. QED
  BY <1>4, <1>5, <1>6, <1>7

\* For every retention, however often creates fail or are killed: once there were
\* Retention archives, completed recovery points are missing only in the places of torn
\* archives, and one more after a create that failed.
THEOREM ArchivesRetained == Spec => []Retained
<1>1. BInv => Retained
  <2>. SUFFICES ASSUME BInv, full
                PROVE  Completed + Torn >= IF pc = "returned" THEN Retention ELSE Retention - 1
    BY DEF Retained
  <2>1. /\ Completed \in Nat /\ Torn \in Nat /\ Completed + Torn >= Others
        /\ Others \in Int /\ Others >= Retention - 1
    BY CompletedAndTorn, LenProperties DEF BInv, BackupTypeOK, OthersKept, Others
  <2>2. ASSUME pc = "returned"
        PROVE  Completed + Torn >= Retention
    <3>1. Len(shelf) \in Nat /\ Len(shelf) >= Retention /\ (mine # 0 => shelf[mine] = Complete)
      BY <2>2, LenProperties DEF BInv, BackupTypeOK, Finished
    <3>2. Completed + Torn >= Len(shelf)
      BY <3>1, CompletedAndTorn DEF BInv
    <3>. QED
      BY <2>1, <3>1, <3>2, RetentionAssumption
  <2>. QED
    BY <2>1, <2>2, RetentionAssumption
<1>. QED
  BY BackupInvariance, <1>1, PTL

\* For every retention: an older archive is given up only for a complete new one.
THEOREM PruningJustified == Spec => PrunedForComplete
<1>1. BInv /\ [Next]_vars =>
        [Others' < Others => behind \/ (mine # 0 /\ shelf[mine] = Complete)]_vars
  <2>. SUFFICES ASSUME BInv, Next, Others' < Others, ~behind
                PROVE  mine # 0 /\ shelf[mine] = Complete
    OBVIOUS
  <2>0. /\ BackupTypeOK /\ shelf \in Seq(Sidecars) /\ Len(shelf) \in Nat
        /\ mine \in Nat /\ mine <= Len(shelf)
    BY LenProperties DEF BInv, BackupTypeOK
  <2>1. ~UNCHANGED <<shelf, mine>>
    BY DEF Others
  <2>2. CASE PruneArchive
    BY <2>2 DEF PruneArchive, BInv, Making, Pruning
  <2>3. CASE Begin
    BY <2>0, <2>3 DEF Begin, Others
  <2>4. CASE Rename
    <3>1. PICK k \in 1..Len(shelf) + 1 : shelf' = WithBareAt(k) /\ mine' = k
      BY <2>4 DEF Rename
    <3>2. Len(shelf') = Len(shelf) + 1 /\ mine' # 0
      BY <2>0, <3>1, InsertAt
    <3>. QED
      BY <2>0, <3>2 DEF Others
  <2>5. ASSUME Remove(mine), mine # 0
        PROVE  FALSE
    <3>1. Len(shelf') = Len(shelf) - 1 /\ mine' = 0
      BY <2>0, <2>5, Removal
    <3>. QED
      BY <2>0, <2>5, <3>1 DEF Others
  <2>6. CASE UnlinkArchive \/ UnlinkFails
    BY <2>1, <2>5, <2>6 DEF UnlinkArchive, UnlinkFails
  <2>7. CASE Kill
    BY <2>0, <2>1, <2>5, <2>7 DEF Kill, BackupTypeOK
  <2>8. ASSUME mine' = mine, Len(shelf') = Len(shelf)
        PROVE  FALSE
    BY <2>8 DEF Others
  <2>9. CASE WriteSum \/ WriteMeta \/ SumFails \/ MetaFails
    <3>1. /\ mine' = mine /\ mine # 0 /\ mine \in Nat
          /\ shelf' \in {shelf, [shelf EXCEPT ![mine].sum = TRUE],
                                [shelf EXCEPT ![mine].meta = TRUE]}
      BY <2>0, <2>9 DEF WriteSum, WriteMeta, SumFails, MetaFails, BInv, Making, BackupTypeOK
    <3>2. Len(shelf') = Len(shelf)
      BY <2>0, <3>1, Marking
    <3>. QED
      BY <2>8, <3>1, <3>2
  <2>. QED
    BY <2>1, <2>2, <2>3, <2>4, <2>6, <2>7, <2>9
    DEF Next, Refuse, Write, WriteFails, Verify, Sync, Recheck, StepFails, PruneSidecars,
        PruneFails, Succeed, UnlinkPartial
<1>. QED
  BY BackupInvariance, <1>1, PTL DEF Spec, PrunedForComplete

\* For every retention: what create says it did is what is on disk.
THEOREM OutcomesHonest == Spec => []OutcomeHonest
<1>1. BInv => OutcomeHonest
  BY DEF BInv, Finished, OutcomeHonest
<1>. QED
  BY BackupInvariance, <1>1, PTL

=============================================================================
