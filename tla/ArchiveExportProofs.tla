------------------------- MODULE ArchiveExportProofs -------------------------
(***************************************************************************)
(* The exporter, for any number of runs, partitions and rows.  First, that *)
(* every variable keeps its kind, one step per action.  Then its safety,   *)
(* under any number of faults of the tolerated kinds: the inductive        *)
(* invariant is IInv, and a step of a run is one of three shapes, each     *)
(* with a lemma that frames the other runs: it moves the run alone         *)
(* (LocalStep), it marks the partition it works on (MarkStep), or it       *)
(* writes a claim (ClaimStep); only Copy and DeleteBatch touch rows or     *)
(* objects.  Then what the free path prunes (TierInv), what a query finds  *)
(* of a day nobody is at work on (VisInv), and that the archive keeps the  *)
(* promise of LogRetention.  Last, a chart and a search that read both     *)
(* tiers while the exporter moves days between them, and the sums of the   *)
(* retention panel over the ledger.                                        *)
(***************************************************************************)
EXTENDS ArchiveRetention, ArchiveQuery, FiniteSetTheorems, TLAPS

\* Every set of entries is finite, so its size is a number.
LEMMA EntrySets ==
  \A S \in SUBSET Entry : IsFiniteSet(S) /\ Cardinality(S) \in Nat
  BY DataAssumption, FS_Subset, FS_CardinalityType DEF DataAssumption

LEMMA UnsetType == Unset \in Partition
  BY DataAssumption DEF Unset, DataAssumption

LEMMA TypeInit == Init => TypeOK
  BY UnsetType, BoundAssumption, DataAssumption
  DEF Init, TypeOK, WorldType, DataType, LedgerType, PlanType, WorkType, NoPlans, Pc, Status,
      BoundAssumption, DataAssumption

\* Every action leaves every variable a value of its kind.
LEMMA TypeStep == TypeOK /\ [Next]_vars => TypeOK'
<1> SUFFICES ASSUME TypeOK, [Next]_vars PROVE TypeOK'
  OBVIOUS
<1> USE DEF TypeOK
<1>1. CASE Tick
  BY SMTT(30), <1>1
  DEF Tick, WorldType, DataType, LedgerType, PlanType, WorkType, Pc, Status,
      envVars, storeVars, ledgerVars, dataVars, runVars, planVars, workVars
<1>2. CASE EnableDeletion
  BY SMTT(30), <1>2
  DEF EnableDeletion, WorldType, DataType, LedgerType, PlanType, WorkType, Pc, Status,
      envVars, storeVars, ledgerVars, dataVars, runVars, planVars, workVars
<1>3. ASSUME NEW j \in Project, ChangePlan(j) PROVE TypeOK'
  BY SMTT(30), <1>3
  DEF ChangePlan, WorldType, DataType, LedgerType, PlanType, WorkType, Pc, Status,
      envVars, storeVars, ledgerVars, dataVars, runVars, planVars, workVars
<1>4. ASSUME NEW e \in Entry, Ingest(e) PROVE TypeOK'
  BY SMTT(30), <1>4
  DEF Ingest, WorldType, DataType, LedgerType, PlanType, WorkType, Pc, Status,
      envVars, storeVars, ledgerVars, dataVars, runVars, planVars, workVars
<1>5. ASSUME NEW p \in Partition, ClaimAges(p) PROVE TypeOK'
  BY SMTT(30), <1>5
  DEF ClaimAges, WorldType, DataType, LedgerType, PlanType, WorkType, Pc, Status,
      envVars, storeVars, ledgerVars, dataVars, runVars, planVars, workVars
<1>6. ASSUME NEW r \in Run, ListAged(r) PROVE TypeOK'
  <2>1. WorldType'
    BY <1>6 DEF ListAged, WorldType, envVars
  <2>2. DataType'
    BY <1>6 DEF ListAged, DataType, storeVars, dataVars
  <2>3. LedgerType'
    BY <1>6 DEF ListAged, LedgerType, WorkType, Status, storeVars, ledgerVars
  <2>4. PlanType'
    BY <1>6, DataAssumption DEF ListAged, DataAssumption, PlanType, WorldType, planVars
  <2>5. WorkType'
    BY <1>6 DEF ListAged, WorkType, DataType, Pc, workVars
  <2>. QED
    BY <2>1, <2>2, <2>3, <2>4, <2>5 DEF TypeOK
<1>7. ASSUME NEW r \in Run, ListLedger(r) PROVE TypeOK'
  BY SMTT(30), <1>7
  DEF ListLedger, WorldType, DataType, LedgerType, PlanType, WorkType, Pc, Status,
      envVars, storeVars, ledgerVars, dataVars, runVars, planVars, workVars
<1>8. ASSUME NEW r \in Run, LookUpPlans(r) PROVE TypeOK'
  <2>1. WorldType'
    BY <1>8 DEF LookUpPlans, Fault, WorldType, envVars
  <2>2. DataType'
    BY <1>8 DEF LookUpPlans, DataType, storeVars, dataVars
  <2>3. LedgerType'
    BY <1>8 DEF LookUpPlans, LedgerType, WorkType, Status, storeVars, ledgerVars
  <2>4. PlanType'
    BY <1>8 DEF LookUpPlans, PlanType, WorldType, planVars
  <2>5. WorkType'
    BY <1>8 DEF LookUpPlans, WorkType, DataType, Pc, workVars
  <2>. QED
    BY <2>1, <2>2, <2>3, <2>4, <2>5 DEF TypeOK
<1>9. ASSUME NEW r \in Run, Finish(r) PROVE TypeOK'
  BY SMTT(30), <1>9, UnsetType, BoundAssumption
  DEF Finish, Forget, NoPlans, BoundAssumption, WorldType, DataType, LedgerType,
      PlanType, WorkType, Pc, Status,
      envVars, storeVars, ledgerVars, dataVars, runVars, planVars, workVars
<1>10. ASSUME NEW r \in Run, NEW p \in Partition, SkipInGrace(r, p) PROVE TypeOK'
  BY SMTT(30), <1>10
  DEF SkipInGrace, TakeNext, WorldType, DataType, LedgerType, PlanType, WorkType, Pc,
      Status,
      envVars, storeVars, ledgerVars, dataVars, runVars, planVars, workVars
<1>11. ASSUME NEW r \in Run, NEW p \in Partition, ClaimInsert(r, p) PROVE TypeOK'
  BY SMTT(30), <1>11
  DEF ClaimInsert, TakeNext, WorldType, DataType, LedgerType, PlanType, WorkType, Pc,
      Status,
      envVars, storeVars, ledgerVars, dataVars, runVars, planVars, workVars
<1>12. ASSUME NEW r \in Run, NEW p \in Partition, ClaimConflict(r, p) PROVE TypeOK'
  BY SMTT(30), <1>12
  DEF ClaimConflict, TakeNext, Fault, WorldType, DataType, LedgerType, PlanType,
      WorkType, Pc, Status,
      envVars, storeVars, ledgerVars, dataVars, runVars, planVars, workVars
<1>13. ASSUME NEW r \in Run, Reclaim(r) PROVE TypeOK'
  <2>1. WorldType'
    BY <1>13 DEF Reclaim, WorldType, envVars
  <2>2. DataType'
    BY <1>13 DEF Reclaim, DataType, storeVars, dataVars
  <2>3. LedgerType'
    BY <1>13 DEF Reclaim, LedgerType, WorkType, Status, storeVars, ledgerVars
  <2>4. PlanType'
    BY <1>13 DEF Reclaim, PlanType, WorldType, planVars
  <2>5. WorkType'
    BY <1>13 DEF Reclaim, WorkType, DataType, Pc, workVars
  <2>. QED
    BY <2>1, <2>2, <2>3, <2>4, <2>5 DEF TypeOK
<1>14. ASSUME NEW r \in Run, ReadBack(r) PROVE TypeOK'
  <2>1. WorldType'
    BY <1>14 DEF ReadBack, WorldType, envVars
  <2>2. DataType'
    BY <1>14 DEF ReadBack, Goto, DataType, storeVars, dataVars
  <2>3. LedgerType'
    BY <1>14 DEF ReadBack, LedgerType, WorkType, Status, storeVars, ledgerVars
  <2>4. PlanType'
    BY <1>14 DEF ReadBack, Goto, Return, PlanType, WorldType, planVars
  <2>5. WorkType'
    BY <1>14, UnsetType DEF ReadBack, Goto, Return, WorkType, DataType, Pc, workVars
  <2>. QED
    BY <2>1, <2>2, <2>3, <2>4, <2>5 DEF TypeOK
<1>15. ASSUME NEW r \in Run, AssertClaimed(r) PROVE TypeOK'
  <2>1. WorldType'
    BY <1>15 DEF AssertClaimed, WorldType, envVars
  <2>2. DataType'
    BY <1>15 DEF AssertClaimed, Goto, DataType, storeVars, dataVars
  <2>3. LedgerType'
    BY <1>15 DEF AssertClaimed, LedgerType, WorkType, Status, storeVars, ledgerVars
  <2>4. PlanType'
    BY <1>15 DEF AssertClaimed, Goto, Return, PlanType, WorldType, planVars
  <2>5. WorkType'
    BY <1>15, UnsetType DEF AssertClaimed, Goto, Return, WorkType, DataType, Pc, workVars
  <2>. QED
    BY <2>1, <2>2, <2>3, <2>4, <2>5 DEF TypeOK
<1>16. ASSUME NEW r \in Run, StagePage(r) PROVE TypeOK'
  BY SMTT(30), <1>16
  DEF StagePage, Goto, Unstaged, HotOf, WorldType, DataType, LedgerType, PlanType,
      WorkType, Pc, Status,
      envVars, storeVars, ledgerVars, dataVars, runVars, planVars, workVars
<1>17. ASSUME NEW r \in Run, MarkEmpty(r) PROVE TypeOK'
  <2>1. WorldType'
    BY <1>17 DEF MarkEmpty, WorldType, envVars
  <2>2. DataType'
    BY <1>17 DEF MarkEmpty, Mark, DataType, storeVars, dataVars
  <2>3. LedgerType'
    BY <1>17 DEF MarkEmpty, Mark, LedgerType, WorkType, Status, storeVars, ledgerVars
  <2>4. PlanType'
    BY <1>17 DEF MarkEmpty, Return, PlanType, WorldType, planVars
  <2>5. WorkType'
    BY <1>17, UnsetType DEF MarkEmpty, Return, WorkType, DataType, Pc, workVars
  <2>. QED
    BY <2>1, <2>2, <2>3, <2>4, <2>5 DEF TypeOK
<1>18. ASSUME NEW r \in Run, Copy(r) PROVE TypeOK'
  <2>1. WorldType'
    BY <1>18 DEF Copy, Fault, WorldType, envVars
  <2>2. DataType'
    BY <1>18 DEF Copy, Goto, DataType, storeVars, dataVars, WorkType
  <2>3. LedgerType'
    BY <1>18 DEF Copy, LedgerType, WorkType, Status, storeVars, ledgerVars
  <2>4. PlanType'
    BY <1>18 DEF Copy, Goto, PlanType, WorldType, planVars
  <2>5. WorkType'
    BY <1>18 DEF Copy, Goto, WorkType, DataType, Pc, workVars
  <2>. QED
    BY <2>1, <2>2, <2>3, <2>4, <2>5 DEF TypeOK
<1>19. ASSUME NEW r \in Run, Verify(r) PROVE TypeOK'
  <2>1. WorldType'
    BY <1>19 DEF Verify, Fault, WorldType, envVars
  <2>2. DataType'
    BY <1>19 DEF Verify, Goto, DataType, storeVars, dataVars
  <2>3. LedgerType'
    BY <1>19 DEF Verify, LedgerType, WorkType, Status, storeVars, ledgerVars
  <2>4. PlanType'
    BY <1>19 DEF Verify, Goto, PlanType, WorldType, planVars
  <2>5. WorkType'
    BY <1>19 DEF Verify, Goto, WorkType, DataType, Pc, workVars
  <2>. QED
    BY <2>1, <2>2, <2>3, <2>4, <2>5 DEF TypeOK
<1>20. ASSUME NEW r \in Run, MarkVerified(r) PROVE TypeOK'
  <2>1. WorldType'
    BY <1>20 DEF MarkVerified, WorldType, envVars
  <2>2. DataType'
    BY <1>20 DEF MarkVerified, Mark, Goto, DataType, storeVars, dataVars
  <2>3. LedgerType'
    BY <1>20, EntrySets DEF MarkVerified, Mark, LedgerType, WorkType, Status,
       storeVars, ledgerVars
  <2>4. PlanType'
    BY <1>20 DEF MarkVerified, Goto, PlanType, WorldType, planVars
  <2>5. WorkType'
    BY <1>20, EntrySets DEF MarkVerified, Goto, WorkType, DataType, Pc, workVars
  <2>. QED
    BY <2>1, <2>2, <2>3, <2>4, <2>5 DEF TypeOK
<1>21. ASSUME NEW r \in Run, Release(r) PROVE TypeOK'
  <2>1. WorldType'
    BY <1>21 DEF Release, WorldType, envVars
  <2>2. DataType'
    BY <1>21 DEF Release, Mark, DataType, storeVars, dataVars
  <2>3. LedgerType'
    BY <1>21 DEF Release, Mark, LedgerType, WorkType, Status, storeVars, ledgerVars
  <2>4. PlanType'
    BY <1>21 DEF Release, Return, PlanType, WorldType, planVars
  <2>5. WorkType'
    BY <1>21, UnsetType DEF Release, Return, WorkType, DataType, Pc, workVars
  <2>. QED
    BY <2>1, <2>2, <2>3, <2>4, <2>5 DEF TypeOK
<1>22. ASSUME NEW r \in Run, CountDay(r) PROVE TypeOK'
  <2>1. WorldType'
    BY <1>22 DEF CountDay, WorldType, envVars
  <2>2. DataType'
    BY <1>22 DEF CountDay, Goto, HotOf, DataType, storeVars, dataVars
  <2>3. LedgerType'
    BY <1>22 DEF CountDay, LedgerType, WorkType, Status, storeVars, ledgerVars
  <2>4. PlanType'
    BY <1>22 DEF CountDay, Goto, PlanType, WorldType, planVars
  <2>5. WorkType'
    BY <1>22, EntrySets DEF CountDay, Goto, HotOf, WorkType, DataType, Pc, workVars
  <2>. QED
    BY <2>1, <2>2, <2>3, <2>4, <2>5 DEF TypeOK
<1>23. ASSUME NEW r \in Run, DeleteBatch(r) PROVE TypeOK'
  BY SMTT(30), <1>23
  DEF DeleteBatch, Goto, HotOf, WorldType, DataType, LedgerType, PlanType, WorkType,
      Pc, Status,
      envVars, storeVars, ledgerVars, dataVars, runVars, planVars, workVars
<1>24. ASSUME NEW r \in Run, More(r) PROVE TypeOK'
  BY SMTT(30), <1>24
  DEF More, Goto, WorldType, DataType, LedgerType, PlanType, WorkType, Pc, Status,
      envVars, storeVars, ledgerVars, dataVars, runVars, planVars, workVars
<1>25. ASSUME NEW r \in Run, MarkDone(r) PROVE TypeOK'
  <2>1. WorldType'
    BY <1>25 DEF MarkDone, WorldType, envVars
  <2>2. DataType'
    BY <1>25 DEF MarkDone, Mark, DataType, storeVars, dataVars
  <2>3. LedgerType'
    BY <1>25 DEF MarkDone, Mark, LedgerType, WorkType, Status, storeVars, ledgerVars
  <2>4. PlanType'
    BY <1>25 DEF MarkDone, Return, PlanType, WorldType, planVars
  <2>5. WorkType'
    BY <1>25, UnsetType DEF MarkDone, Return, WorkType, DataType, Pc, workVars
  <2>. QED
    BY <2>1, <2>2, <2>3, <2>4, <2>5 DEF TypeOK
<1>26. ASSUME NEW r \in Run, MarkFailed(r) PROVE TypeOK'
  <2>1. WorldType'
    BY <1>26 DEF MarkFailed, WorldType, envVars
  <2>2. DataType'
    BY <1>26 DEF MarkFailed, Mark, DataType, storeVars, dataVars
  <2>3. LedgerType'
    BY <1>26 DEF MarkFailed, Mark, LedgerType, WorkType, Status, storeVars, ledgerVars
  <2>4. PlanType'
    BY <1>26 DEF MarkFailed, Return, PlanType, WorldType, planVars
  <2>5. WorkType'
    BY <1>26, UnsetType DEF MarkFailed, Return, WorkType, DataType, Pc, workVars
  <2>. QED
    BY <2>1, <2>2, <2>3, <2>4, <2>5 DEF TypeOK
<1>27. ASSUME NEW r \in Run, ThrowInside(r) PROVE TypeOK'
  BY SMTT(30), <1>27
  DEF ThrowInside, Fault, Goto, WorldType, DataType, LedgerType, PlanType, WorkType,
      Pc, Status,
      envVars, storeVars, ledgerVars, dataVars, runVars, planVars, workVars
<1>28. ASSUME NEW r \in Run, ThrowOutside(r) PROVE TypeOK'
  BY SMTT(30), <1>28, UnsetType, BoundAssumption
  DEF ThrowOutside, Fault, Forget, NoPlans, BoundAssumption, WorldType, DataType,
      LedgerType, PlanType, WorkType, Pc, Status,
      envVars, storeVars, ledgerVars, dataVars, runVars, planVars, workVars
<1>29. ASSUME NEW r \in Run, Crash(r) PROVE TypeOK'
  BY SMTT(30), <1>29, UnsetType, BoundAssumption
  DEF Crash, Fault, Forget, NoPlans, BoundAssumption, WorldType, DataType, LedgerType,
      PlanType, WorkType, Pc, Status,
      envVars, storeVars, ledgerVars, dataVars, runVars, planVars, workVars
<1>30. CASE UNCHANGED vars
  BY <1>30 DEF vars, WorldType, DataType, LedgerType, PlanType, WorkType, Pc, Status,
      envVars, storeVars, ledgerVars, dataVars, runVars, planVars, workVars
<1>. QED
  BY <1>1, <1>2, <1>3, <1>4, <1>5, <1>6, <1>7, <1>8, <1>9, <1>10, <1>11, <1>12, <1>13,
     <1>14, <1>15, <1>16, <1>17, <1>18, <1>19, <1>20, <1>21, <1>22, <1>23, <1>24,
        <1>25, <1>26, <1>27, <1>28, <1>29, <1>30 DEF Next, Environment, Step

\* Every variable keeps its kind (TypeOK).
THEOREM TypeCorrect == Spec => []TypeOK
  BY TypeInit, TypeStep, PTL DEF Spec

-----------------------------------------------------------------------------
(* The inductive invariant.                                                  *)


\* Only run r moves.
OthersKeep(r) ==
  \A q \in Run \ {r} :
    /\ pc'[q] = pc[q] /\ cur'[q] = cur[q]
    /\ now'[q] = now[q] /\ todo'[q] = todo[q] /\ tier'[q] = tier[q]
    /\ staged'[q] = staged[q] /\ left'[q] = left[q]

\* A run whose locals and whose partition's rows are left alone keeps its place.
LEMMA ProgressFrame ==
  ASSUME NEW q \in Run, ProgressOf(q),
         UNCHANGED <<pc[q], cur[q], staged[q], left[q], tier[q]>>,
         hot' \cap Rows(cur[q]) = hot \cap Rows(cur[q]),
         object'[cur[q]] = object[cur[q]],
         Whole(cur[q]) => (accepted' \cap Rows(cur[q])) \ pruned' \subseteq hot'
  PROVE ProgressOf(q)'
  BY DEF ProgressOf, Whole, HotOf, Rows, Trimming, Free

LEMMA ClaimFrame ==
  ASSUME NEW q \in Run, ClaimOf(q),
         UNCHANGED <<pc[q], cur[q], tier[q], status[cur[q]], token[cur[q]]>>,
         cur[q] \in stale' => cur[q] \in stale
  PROVE ClaimOf(q)'
  BY DEF ClaimOf, ClaimWon, Trimming, Free

\* A step of r that leaves the ledger and the rows alone.
LEMMA LocalStep ==
  ASSUME IInv, NEW r \in Run, OthersKeep(r), UNCHANGED <<storeVars, today>>,
         RunAged(r)', ClaimOf(r)', ProgressOf(r)'
  PROVE AgedInv' /\ ClaimInv' /\ StoreInv' /\ ProgressInv'
<1>1. ASSUME NEW q \in Run \ {r} PROVE ProgressOf(q)'
  <2>1. ProgressOf(q)
    BY DEF IInv, ProgressInv
  <2> QED
    BY <2>1, ProgressFrame DEF OthersKeep, storeVars, dataVars, Whole, Rows
<1>2. ASSUME NEW q \in Run \ {r} PROVE ClaimOf(q)'
  <2>1. ClaimOf(q)
    BY DEF IInv, ClaimInv
  <2> QED
    BY <2>1, ClaimFrame DEF OthersKeep, storeVars, ledgerVars
<1>3. AgedInv'
  BY DEF AgedInv, RunAged, Aged, IInv, OthersKeep, storeVars, ledgerVars
<1>4. StoreInv'
  BY DEF StoreInv, StoreOf, Whole, HotOf, Rows, IInv, storeVars, ledgerVars, dataVars
<1>5. QED
  BY <1>1, <1>2, <1>3, <1>4 DEF ClaimInv, ProgressInv

\* The claim is exclusive: no other run works on a working run's partition.
LEMMA Exclusive ==
  ASSUME ClaimInv, NEW r \in Run, pc[r] \in WorkPc, NEW q \in Run \ {r}, cur[q] = cur[r]
  PROVE pc[q] \notin WorkPc /\ ~ClaimWon(q)
  BY DEF ClaimInv, ClaimOf, ClaimWon

\* A mark made by a working run r on its partition.
LEMMA MarkStep ==
  ASSUME IInv, NEW r \in Run, OthersKeep(r), pc[r] \in WorkPc,
         NEW st \in Status \ {"none"}, NEW tok \in {r, NoRun}, NEW ps, NEW n,
         Mark(cur[r], st, tok, ps, n), today' = today, NoRun \notin Run,
         st \notin {"verified", "deleted"} => Whole(cur[r]),
         st = "deleted" => HotOf(cur[r]) = {},
         RunAged(r)', ClaimOf(r)', ProgressOf(r)'
  PROVE AgedInv' /\ ClaimInv' /\ StoreInv' /\ ProgressInv'
<1>1. status[cur[r]] # "none"
  BY DEF IInv, ClaimInv, ClaimOf
<1>2. /\ status' = [status EXCEPT ![cur[r]] = st]
      /\ token' = [token EXCEPT ![cur[r]] = tok]
      /\ stale' = stale \ {cur[r]}
      /\ UNCHANGED dataVars
  BY <1>1 DEF Mark
<1>3. ASSUME NEW q \in Run \ {r} PROVE ProgressOf(q)'
  <2>1. ProgressOf(q)
    BY DEF IInv, ProgressInv
  <2> QED
    BY <1>2, <2>1, ProgressFrame DEF OthersKeep, dataVars, Whole, Rows
<1>4. ASSUME NEW q \in Run \ {r} PROVE ClaimOf(q)'
  <2>1. ClaimOf(q) /\ cur[q] \in Partition /\ cur[r] \in Partition
    BY DEF IInv, ClaimInv, TypeOK, WorkType
  <2>2. CASE cur[q] = cur[r]
    <3>1. pc[q] \notin WorkPc /\ pc'[q] = pc[q] /\ cur'[q] = cur[r]
      BY <2>2, Exclusive DEF IInv, OthersKeep
    <3>2. token'[cur[r]] # q
      BY <1>2, <2>1 DEF IInv, TypeOK, LedgerType
    <3> QED
      BY <3>1, <3>2 DEF ClaimOf, ClaimWon, Trimming, WorkPc, DeletePc
  <2>3. CASE cur[q] # cur[r]
    <3>1. status'[cur[q]] = status[cur[q]] /\ token'[cur[q]] = token[cur[q]]
      BY <1>2, <2>1, <2>3 DEF IInv, TypeOK, LedgerType
    <3> QED
      BY <1>2, <2>1, <3>1, ClaimFrame DEF OthersKeep
  <2> QED
    BY <2>2, <2>3
<1>5. AgedInv'
  <2>1. Aged(cur[r])
    BY DEF IInv, AgedInv, RunAged, BusyPc
  <2>2. \A p \in Partition : status'[p] # "none" => Aged(p)
    BY <1>2, <2>1 DEF IInv, AgedInv, TypeOK, LedgerType
  <2> QED
    BY <2>2 DEF AgedInv, RunAged, Aged, IInv, OthersKeep
<1>6. StoreInv'
  <2>1. cur[r] \in Partition /\ status \in [Partition -> Status]
    BY DEF IInv, TypeOK, WorkType, LedgerType
  <2>2. ASSUME NEW p \in Partition PROVE StoreOf(p)'
    <3>1. CASE p = cur[r]
      BY <1>2, <2>1, <3>1 DEF IInv, StoreInv, StoreOf, Whole, HotOf, Rows, dataVars
    <3>2. CASE p # cur[r]
      BY <1>2, <2>1, <3>2 DEF IInv, StoreInv, StoreOf, Whole, HotOf, Rows, dataVars
    <3> QED
      BY <3>1, <3>2
  <2> QED
    BY <1>2, <2>2 DEF IInv, StoreInv, dataVars
<1> QED
  BY <1>3, <1>4, <1>5, <1>6 DEF ClaimInv, ProgressInv

\* A run between partitions has nothing staged.
LEMMA NothingStaged ==
  ASSUME NEW r \in Run, pc'[r] \notin WorkPc \/ pc'[r] = "assert", staged'[r] = {}
  PROVE ProgressOf(r)'
  BY DEF ProgressOf, Trimming, DeletePc, WorkPc

LEMMA ListAgedStep ==
  ASSUME Tolerated, IInv, TypeOK', NEW r \in Run, ListAged(r)
  PROVE AgedInv' /\ ClaimInv' /\ StoreInv' /\ ProgressInv'
<1>1. OthersKeep(r) /\ UNCHANGED <<storeVars, today>>
  BY DEF ListAged, workVars, OthersKeep, IInv, TypeOK, WorkType, PlanType, WorldType, envVars
<1>2. RunAged(r)'
  BY BoundAssumption DEF BoundAssumption, ListAged, workVars, IInv, AgedInv, RunAged, Aged, BusyPc, WorkPc, TypeOK, WorkType, PlanType, WorldType, envVars, Tolerated
<1>3. ClaimOf(r)'
  BY UnsetType DEF ListAged, workVars, IInv, ClaimInv, ClaimOf, ClaimWon, Trimming, WorkPc, DeletePc, Free, TypeOK, WorkType, PlanType, WorldType, storeVars, ledgerVars, Tolerated
<1>4. ProgressOf(r)'
  <2>1. staged[r] = {}
    BY DEF ListAged, IInv, ProgressInv, ProgressOf, WorkPc
  <2>2. staged'[r] = {} /\ pc'[r] = "ledger"
    BY <2>1 DEF ListAged, workVars, IInv, TypeOK, WorkType
  <2> QED
    BY <2>2, NothingStaged DEF WorkPc
<1> QED
  BY <1>1, <1>2, <1>3, <1>4, LocalStep

LEMMA ListLedgerStep ==
  ASSUME Tolerated, IInv, TypeOK', NEW r \in Run, ListLedger(r)
  PROVE AgedInv' /\ ClaimInv' /\ StoreInv' /\ ProgressInv'
<1>1. OthersKeep(r) /\ UNCHANGED <<storeVars, today>>
  BY DEF ListLedger, workVars, OthersKeep, IInv, TypeOK, WorkType, PlanType, WorldType, envVars
<1>2. RunAged(r)'
  BY BoundAssumption DEF BoundAssumption, ListLedger, workVars, IInv, AgedInv, RunAged, Aged, BusyPc, WorkPc, TypeOK, WorkType, PlanType, WorldType, envVars, Tolerated
<1>3. ClaimOf(r)'
  BY UnsetType DEF ListLedger, workVars, IInv, ClaimInv, ClaimOf, ClaimWon, Trimming, WorkPc, DeletePc, Free, TypeOK, WorkType, PlanType, WorldType, storeVars, ledgerVars, Tolerated
<1>4. ProgressOf(r)'
  <2>1. staged[r] = {}
    BY DEF ListLedger, IInv, ProgressInv, ProgressOf, WorkPc
  <2>2. staged'[r] = {} /\ pc'[r] = "plans"
    BY <2>1 DEF ListLedger, workVars, IInv, TypeOK, WorkType
  <2> QED
    BY <2>2, NothingStaged DEF WorkPc
<1> QED
  BY <1>1, <1>2, <1>3, <1>4, LocalStep

LEMMA LookUpPlansStep ==
  ASSUME Tolerated, IInv, TypeOK', NEW r \in Run, LookUpPlans(r)
  PROVE AgedInv' /\ ClaimInv' /\ StoreInv' /\ ProgressInv'
<1>1. OthersKeep(r) /\ UNCHANGED <<storeVars, today>>
  BY DEF LookUpPlans, Fault, workVars, OthersKeep, IInv, TypeOK, WorkType, PlanType, WorldType, envVars
<1>2. RunAged(r)'
  BY BoundAssumption DEF BoundAssumption, LookUpPlans, Fault, workVars, IInv, AgedInv, RunAged, Aged, BusyPc, WorkPc, TypeOK, WorkType, PlanType, WorldType, envVars, Tolerated
<1>3. ClaimOf(r)'
  BY UnsetType DEF LookUpPlans, Fault, workVars, IInv, ClaimInv, ClaimOf, ClaimWon, Trimming, WorkPc, DeletePc, Free, TypeOK, WorkType, PlanType, WorldType, storeVars, ledgerVars, Tolerated
<1>4. ProgressOf(r)'
  <2>1. staged[r] = {}
    BY DEF LookUpPlans, IInv, ProgressInv, ProgressOf, WorkPc
  <2>2. staged'[r] = {} /\ pc'[r] = "next"
    BY <2>1 DEF LookUpPlans, workVars, IInv, TypeOK, WorkType
  <2> QED
    BY <2>2, NothingStaged DEF WorkPc
<1> QED
  BY <1>1, <1>2, <1>3, <1>4, LocalStep

LEMMA FinishStep ==
  ASSUME Tolerated, IInv, TypeOK', NEW r \in Run, Finish(r)
  PROVE AgedInv' /\ ClaimInv' /\ StoreInv' /\ ProgressInv'
<1>1. OthersKeep(r) /\ UNCHANGED <<storeVars, today>>
  BY DEF Finish, Forget, OthersKeep, IInv, TypeOK, WorkType, PlanType, WorldType, envVars
<1>2. RunAged(r)'
  BY BoundAssumption DEF BoundAssumption, Finish, Forget, IInv, AgedInv, RunAged, Aged, BusyPc, WorkPc, TypeOK, WorkType, PlanType, WorldType, envVars, Tolerated
<1>3. ClaimOf(r)'
  BY UnsetType DEF Finish, Forget, IInv, ClaimInv, ClaimOf, ClaimWon, Trimming, WorkPc, DeletePc, Free, TypeOK, WorkType, PlanType, WorldType, storeVars, ledgerVars, Tolerated
<1>4. ProgressOf(r)'
  BY UnsetType DEF Finish, Forget, IInv, ProgressInv, ProgressOf, Trimming, DeletePc, WorkPc, Free, HotOf, Rows, Whole, TypeOK, WorkType, PlanType, WorldType, storeVars, dataVars, Tolerated
<1> QED
  BY <1>1, <1>2, <1>3, <1>4, LocalStep

LEMMA SkipInGraceStep ==
  ASSUME Tolerated, IInv, TypeOK', NEW r \in Run, NEW p \in Partition, SkipInGrace(r, p)
  PROVE AgedInv' /\ ClaimInv' /\ StoreInv' /\ ProgressInv'
<1>1. OthersKeep(r) /\ UNCHANGED <<storeVars, today>>
  BY DEF SkipInGrace, IsNext, TakeNext, workVars, OthersKeep, IInv, TypeOK, WorkType, PlanType, WorldType, envVars
<1>2. RunAged(r)'
  BY BoundAssumption DEF BoundAssumption, SkipInGrace, IsNext, TakeNext, workVars, IInv, AgedInv, RunAged, Aged, BusyPc, WorkPc, TypeOK, WorkType, PlanType, WorldType, envVars, Tolerated
<1>3. ClaimOf(r)'
  BY UnsetType DEF SkipInGrace, IsNext, TakeNext, workVars, IInv, ClaimInv, ClaimOf, ClaimWon, Trimming, WorkPc, DeletePc, Free, TypeOK, WorkType, PlanType, WorldType, storeVars, ledgerVars, Tolerated
<1>4. ProgressOf(r)'
  BY UnsetType DEF SkipInGrace, IsNext, TakeNext, workVars, IInv, ProgressInv, ProgressOf, Trimming, DeletePc, WorkPc, Free, HotOf, Rows, Whole, TypeOK, WorkType, PlanType, WorldType, storeVars, dataVars, Tolerated
<1> QED
  BY <1>1, <1>2, <1>3, <1>4, LocalStep

LEMMA ClaimConflictStep ==
  ASSUME Tolerated, IInv, TypeOK', NEW r \in Run, NEW p \in Partition, ClaimConflict(r, p)
  PROVE AgedInv' /\ ClaimInv' /\ StoreInv' /\ ProgressInv'
<1>1. OthersKeep(r) /\ UNCHANGED <<storeVars, today>>
  BY DEF ClaimConflict, IsNext, TakeNext, workVars, Fault, OthersKeep, IInv, TypeOK, WorkType, PlanType, WorldType, envVars
<1>2. RunAged(r)'
  BY BoundAssumption DEF BoundAssumption, ClaimConflict, IsNext, TakeNext, workVars, Fault, IInv, AgedInv, RunAged, Aged, BusyPc, WorkPc, TypeOK, WorkType, PlanType, WorldType, envVars, Tolerated
<1>3. ClaimOf(r)'
  BY UnsetType DEF ClaimConflict, IsNext, TakeNext, workVars, Fault, IInv, ClaimInv, ClaimOf, ClaimWon, Trimming, WorkPc, DeletePc, Free, TypeOK, WorkType, PlanType, WorldType, storeVars, ledgerVars, Tolerated
<1>4. ProgressOf(r)'
  <2>1. staged[r] = {}
    BY DEF ClaimConflict, IsNext, IInv, ProgressInv, ProgressOf, WorkPc
  <2>2. staged'[r] = {} /\ pc'[r] = "reclaim"
    BY <2>1 DEF ClaimConflict, TakeNext, workVars, IInv, TypeOK, WorkType
  <2> QED
    BY <2>2, NothingStaged DEF WorkPc
<1> QED
  BY <1>1, <1>2, <1>3, <1>4, LocalStep

LEMMA ReadBackStep ==
  ASSUME Tolerated, IInv, TypeOK', NEW r \in Run, ReadBack(r)
  PROVE AgedInv' /\ ClaimInv' /\ StoreInv' /\ ProgressInv'
<1>1. OthersKeep(r) /\ UNCHANGED <<storeVars, today>>
  BY DEF ReadBack, Goto, Return, workVars, planVars, OthersKeep, IInv, TypeOK, WorkType, PlanType, WorldType, envVars
<1>2. RunAged(r)'
  BY BoundAssumption DEF BoundAssumption, ReadBack, Goto, Return, workVars, planVars, IInv, AgedInv, RunAged, Aged, BusyPc, WorkPc, TypeOK, WorkType, PlanType, WorldType, envVars, Tolerated
<1>3. ClaimOf(r)'
  BY UnsetType DEF ReadBack, Goto, Return, workVars, planVars, IInv, ClaimInv, ClaimOf, ClaimWon, Trimming, WorkPc, DeletePc, Free, TypeOK, WorkType, PlanType, WorldType, storeVars, ledgerVars, Tolerated
<1>4. ProgressOf(r)'
  <2>1. staged[r] = {}
    BY DEF ReadBack, IInv, ProgressInv, ProgressOf, WorkPc
  <2>2. staged'[r] = {} /\ pc'[r] \in {"assert", "next"}
    BY <2>1 DEF ReadBack, Goto, Return, workVars, IInv, TypeOK, WorkType
  <2> QED
    BY <2>2, NothingStaged DEF WorkPc
<1> QED
  BY <1>1, <1>2, <1>3, <1>4, LocalStep

LEMMA AssertClaimedStep ==
  ASSUME Tolerated, IInv, TypeOK', NEW r \in Run, AssertClaimed(r)
  PROVE AgedInv' /\ ClaimInv' /\ StoreInv' /\ ProgressInv'
<1>1. OthersKeep(r) /\ UNCHANGED <<storeVars, today>>
  BY DEF AssertClaimed, Goto, Return, workVars, planVars, OthersKeep, IInv, TypeOK, WorkType, PlanType, WorldType, envVars
<1>2. RunAged(r)'
  BY BoundAssumption DEF BoundAssumption, AssertClaimed, Goto, Return, workVars, planVars, IInv, AgedInv, RunAged, Aged, BusyPc, WorkPc, TypeOK, WorkType, PlanType, WorldType, envVars, Tolerated
<1>3. ClaimOf(r)'
  BY UnsetType DEF AssertClaimed, Goto, Return, workVars, planVars, IInv, ClaimInv, ClaimOf, ClaimWon, Trimming, WorkPc, DeletePc, Free, TypeOK, WorkType, PlanType, WorldType, storeVars, ledgerVars, Tolerated
<1>4. ProgressOf(r)'
  <2>1. /\ staged[r] = {} /\ pc[r] = "assert" /\ cur[r] \in Partition
        /\ pc \in [Run -> Pc] /\ staged \in [Run -> SUBSET Entry]
    BY DEF AssertClaimed, IInv, TypeOK, WorkType, ProgressInv, ProgressOf
  <2>2. CASE Return(r)
    BY <2>1, <2>2, NothingStaged DEF Return, WorkPc
  <2>3. CASE Goto(r, IF Free(r, cur[r]) THEN "count" ELSE "stage") /\ UNCHANGED workVars
    <3>1. /\ staged'[r] = {} /\ cur'[r] = cur[r]
          /\ pc'[r] = IF Free(r, cur[r]) THEN "count" ELSE "stage"
          /\ Free(r, cur[r])' <=> Free(r, cur[r])
      BY <2>1, <2>3 DEF Goto, workVars, planVars, Free
    <3> QED
      BY <3>1 DEF ProgressOf, Trimming, DeletePc, WorkPc
  <2> QED
    BY <2>2, <2>3 DEF AssertClaimed
<1> QED
  BY <1>1, <1>2, <1>3, <1>4, LocalStep

LEMMA StagePageStep ==
  ASSUME Tolerated, IInv, TypeOK', NEW r \in Run, StagePage(r)
  PROVE AgedInv' /\ ClaimInv' /\ StoreInv' /\ ProgressInv'
<1>1. OthersKeep(r) /\ UNCHANGED <<storeVars, today>>
  BY DEF StagePage, Goto, planVars, OthersKeep, IInv, TypeOK, WorkType, PlanType, WorldType, envVars
<1>2. RunAged(r)'
  BY BoundAssumption DEF BoundAssumption, StagePage, Goto, planVars, IInv, AgedInv, RunAged, Aged, BusyPc, WorkPc, TypeOK, WorkType, PlanType, WorldType, envVars, Tolerated
<1>3. ClaimOf(r)'
  BY UnsetType DEF StagePage, Goto, planVars, IInv, ClaimInv, ClaimOf, ClaimWon, Trimming, WorkPc, DeletePc, Free, TypeOK, WorkType, PlanType, WorldType, storeVars, ledgerVars, Tolerated
<1>4. ProgressOf(r)'
  <2> DEFINE p == cur[r]
  <2>1. PICK page \in SUBSET Unstaged(r) :
          /\ \A e \in page, f \in Unstaged(r) \ page : e < f
          /\ Cardinality(page) < PageSize => page = Unstaged(r)
          /\ Cardinality(page) <= PageSize
          /\ staged' = [staged EXCEPT ![r] = @ \cup page]
          /\ Goto(r, IF Cardinality(page) = PageSize THEN "stage"
                     ELSE IF staged[r] \cup page = {} THEN "markEmpty" ELSE "copy")
    BY DEF StagePage
  <2>2. /\ p \in Partition /\ cur'[r] = p
        /\ staged'[r] = staged[r] \cup page
        /\ HotOf(p)' = HotOf(p) /\ HotOf(p) \subseteq Nat
    BY <1>1, <2>1, DataAssumption
    DEF Goto, IInv, TypeOK, WorkType, HotOf, Rows, storeVars, dataVars, DataAssumption
  <2>3. /\ staged[r] \subseteq HotOf(p)
        /\ \A s \in staged[r], e \in HotOf(p) \ staged[r] : s < e
    BY DEF IInv, ProgressInv, ProgressOf, StagePage
  <2>4. Unstaged(r) = HotOf(p) \ staged[r]
    <3>1. \A s \in staged[r] : ~(s < s)
      BY <2>2, <2>3
    <3> QED
      BY <2>3, <3>1 DEF Unstaged
  <2>5. /\ staged'[r] \subseteq HotOf(p)
        /\ \A s \in staged'[r], e \in HotOf(p) \ staged'[r] : s < e
    BY <2>1, <2>2, <2>3, <2>4
  <2>6. ~Free(r, p)'
    BY <2>3 DEF Goto, StagePage, planVars, Free, IInv, ProgressInv, ProgressOf
  <2>7. CASE Cardinality(page) = PageSize
    <3>1. pc'[r] = "stage"
      BY <2>1, <2>7 DEF Goto, IInv, TypeOK, WorkType
    <3> QED
      BY <2>2, <2>5, <2>6, <3>1 DEF ProgressOf, Trimming, DeletePc, WorkPc
  <2>8. CASE Cardinality(page) # PageSize
    <3>1. page = Unstaged(r)
      <4>1. Cardinality(page) \in Nat
        BY EntrySets DEF Unstaged, HotOf, Rows
      <4> QED
        BY <2>1, <2>8, <4>1, BoundAssumption DEF BoundAssumption
    <3>2. staged'[r] = HotOf(p)
      BY <2>2, <2>3, <2>4, <3>1
    <3>3. pc'[r] = IF staged'[r] = {} THEN "markEmpty" ELSE "copy"
      BY <2>1, <2>2, <2>8 DEF Goto, IInv, TypeOK, WorkType
    <3> QED
      BY <2>2, <2>6, <3>2, <3>3 DEF ProgressOf, Trimming, DeletePc, WorkPc
  <2> QED
    BY <2>7, <2>8
<1> QED
  BY <1>1, <1>2, <1>3, <1>4, LocalStep

LEMMA VerifyStep ==
  ASSUME Tolerated, IInv, TypeOK', NEW r \in Run, Verify(r)
  PROVE AgedInv' /\ ClaimInv' /\ StoreInv' /\ ProgressInv'
<1>1. OthersKeep(r) /\ UNCHANGED <<storeVars, today>>
  BY DEF Verify, Goto, workVars, planVars, Fault, OthersKeep, IInv, TypeOK, WorkType, PlanType, WorldType, envVars
<1>2. RunAged(r)'
  BY BoundAssumption DEF BoundAssumption, Verify, Goto, workVars, planVars, Fault, IInv, AgedInv, RunAged, Aged, BusyPc, WorkPc, TypeOK, WorkType, PlanType, WorldType, envVars, Tolerated
<1>3. ClaimOf(r)'
  BY UnsetType DEF Verify, Goto, workVars, planVars, Fault, IInv, ClaimInv, ClaimOf, ClaimWon, Trimming, WorkPc, DeletePc, Free, TypeOK, WorkType, PlanType, WorldType, storeVars, ledgerVars, Tolerated
<1>4. ProgressOf(r)'
  <2> DEFINE p == cur[r]
  <2>1. /\ p \in Partition /\ cur'[r] = p /\ pc[r] = "verify"
        /\ staged' = staged /\ object' = object /\ HotOf(p)' = HotOf(p)
        /\ Whole(p)' <=> Whole(p)
        /\ Free(r, p)' <=> Free(r, p)
    BY <1>1 DEF Verify, Goto, workVars, planVars, IInv, TypeOK, WorkType, HotOf, Whole, Rows,
                Free, storeVars, dataVars
  <2>2. staged[r] = HotOf(p) /\ object[p] \subseteq staged[r] /\ ~Free(r, p)
    BY <2>1 DEF IInv, ProgressInv, ProgressOf
  <2>3. CASE pc'[r] = "markVerified" /\ Cardinality(object[p]) = Cardinality(staged[r])
    <3>1. object[p] = staged[r]
      <4>1. IsFiniteSet(staged[r]) /\ object[p] \in SUBSET staged[r]
        BY <2>2, EntrySets DEF HotOf, Rows
      <4> QED
        BY <2>3, <4>1, FS_Subset
    <3> QED
      BY <2>1, <2>2, <2>3, <3>1 DEF ProgressOf, Trimming, DeletePc, WorkPc
  <2>4. CASE pc'[r] = "markFailed"
    <3>1. Whole(p)
      BY <2>1 DEF IInv, ClaimInv, ClaimOf, StoreInv, StoreOf, WorkPc, DeletePc, Trimming
    <3> QED
      BY <2>1, <2>4, <3>1 DEF ProgressOf, Trimming, DeletePc, WorkPc
  <2> QED
    BY <2>3, <2>4 DEF Verify, Goto, IInv, TypeOK, WorkType
<1> QED
  BY <1>1, <1>2, <1>3, <1>4, LocalStep

LEMMA CountDayStep ==
  ASSUME Tolerated, IInv, TypeOK', NEW r \in Run, CountDay(r)
  PROVE AgedInv' /\ ClaimInv' /\ StoreInv' /\ ProgressInv'
<1>1. OthersKeep(r) /\ UNCHANGED <<storeVars, today>>
  BY DEF CountDay, Goto, planVars, OthersKeep, IInv, TypeOK, WorkType, PlanType, WorldType, envVars
<1>2. RunAged(r)'
  BY BoundAssumption DEF BoundAssumption, CountDay, Goto, planVars, IInv, AgedInv, RunAged, Aged, BusyPc, WorkPc, TypeOK, WorkType, PlanType, WorldType, envVars, Tolerated
<1>3. ClaimOf(r)'
  BY UnsetType DEF CountDay, Goto, planVars, IInv, ClaimInv, ClaimOf, ClaimWon, Trimming, WorkPc, DeletePc, Free, TypeOK, WorkType, PlanType, WorldType, storeVars, ledgerVars, Tolerated
<1>4. ProgressOf(r)'
  <2> DEFINE p == cur[r]
  <2>1. /\ p \in Partition /\ cur'[r] = p /\ pc[r] = "count" /\ tier' = tier
        /\ HotOf(p)' = HotOf(p) /\ object' = object
        /\ Trimming(r)' => Trimming(r)
    BY <1>1 DEF CountDay, Goto, planVars, IInv, TypeOK, WorkType, HotOf, Rows, storeVars,
                dataVars, Trimming, DeletePc, Free
  <2>2. Trimming(r) => HotOf(p) \subseteq object[p]
    BY DEF IInv, ProgressInv, ProgressOf
  <2>3. IsFiniteSet(HotOf(p)) /\ Cardinality(HotOf(p)) \in Nat
    BY EntrySets DEF HotOf, Rows
  <2>4. CASE Cardinality(HotOf(p)) = 0 /\ pc'[r] = "markDone"
    <3>1. HotOf(p) = {}
      BY <2>3, <2>4, FS_EmptySet
    <3> QED
      BY <2>1, <2>2, <2>4, <3>1 DEF ProgressOf, WorkPc
  <2>5. CASE Cardinality(HotOf(p)) > 0 /\ pc'[r] = "batch"
    <3>1. PICK b \in 1 .. Cardinality(HotOf(p)) :
            /\ Cardinality(HotOf(p)) <= b * BatchSize
            /\ left' = [left EXCEPT ![r] = b + 1]
      BY <2>3, <2>5 DEF CountDay
    <3>2. left'[r] = b + 1 /\ left'[r] >= 1 /\ left'[r] - 1 = b
      BY <2>3, <3>1 DEF IInv, TypeOK, WorkType
    <3>3. Cardinality(HotOf(p)) <= BatchSize * (left'[r] - 1)
      BY <2>3, <3>1, <3>2, BoundAssumption DEF BoundAssumption
    <3>4. HotOf(p) # {}
      BY <2>5, FS_EmptySet
    <3> QED
      BY <2>1, <2>2, <2>5, <3>2, <3>3, <3>4 DEF ProgressOf, WorkPc
  <2> QED
    BY <2>4, <2>5 DEF CountDay, Goto, IInv, TypeOK, WorkType
<1> QED
  BY <1>1, <1>2, <1>3, <1>4, LocalStep

LEMMA MoreStep ==
  ASSUME Tolerated, IInv, TypeOK', NEW r \in Run, More(r)
  PROVE AgedInv' /\ ClaimInv' /\ StoreInv' /\ ProgressInv'
<1>1. OthersKeep(r) /\ UNCHANGED <<storeVars, today>>
  BY DEF More, Goto, workVars, planVars, OthersKeep, IInv, TypeOK, WorkType, PlanType, WorldType, envVars
<1>2. RunAged(r)'
  BY BoundAssumption DEF BoundAssumption, More, Goto, workVars, planVars, IInv, AgedInv, RunAged, Aged, BusyPc, WorkPc, TypeOK, WorkType, PlanType, WorldType, envVars, Tolerated
<1>3. ClaimOf(r)'
  BY UnsetType DEF More, Goto, workVars, planVars, IInv, ClaimInv, ClaimOf, ClaimWon, Trimming, WorkPc, DeletePc, Free, TypeOK, WorkType, PlanType, WorldType, storeVars, ledgerVars, Tolerated
<1>4. ProgressOf(r)'
  <2> DEFINE p == cur[r]
  <2>1. /\ p \in Partition /\ cur'[r] = p /\ pc[r] = "more" /\ tier' = tier
        /\ HotOf(p)' = HotOf(p) /\ object' = object /\ left' = left
        /\ Whole(p)' <=> Whole(p)
        /\ Trimming(r)' => Trimming(r)
    BY <1>1 DEF More, Goto, workVars, planVars, IInv, TypeOK, WorkType, HotOf, Whole, Rows,
                storeVars, dataVars, Trimming, DeletePc, Free
  <2>2. /\ Trimming(r) => HotOf(p) \subseteq object[p]
        /\ left[r] >= 1 /\ Cardinality(HotOf(p)) <= BatchSize * (left[r] - 1)
    BY <2>1 DEF IInv, ProgressInv, ProgressOf
  <2>3. CASE HotOf(p) = {} /\ pc'[r] = "markDone"
    BY <2>1, <2>2, <2>3 DEF ProgressOf, WorkPc
  \* The batches do not run out: maxBatches covers the day.
  <2>4. CASE HotOf(p) # {} /\ left[r] = 0 /\ pc'[r] = "markFailed"
    BY <2>2, <2>4
  <2>5. CASE HotOf(p) # {} /\ pc'[r] = "batch"
    BY <2>1, <2>2, <2>5 DEF ProgressOf, WorkPc
  <2> QED
    BY <2>3, <2>4, <2>5 DEF More, Goto, IInv, TypeOK, WorkType
<1> QED
  BY <1>1, <1>2, <1>3, <1>4, LocalStep

LEMMA ThrowInsideStep ==
  ASSUME Tolerated, IInv, TypeOK', NEW r \in Run, ThrowInside(r)
  PROVE AgedInv' /\ ClaimInv' /\ StoreInv' /\ ProgressInv'
<1>1. OthersKeep(r) /\ UNCHANGED <<storeVars, today>>
  BY DEF ThrowInside, Goto, workVars, planVars, Fault, OthersKeep, IInv, TypeOK, WorkType, PlanType, WorldType, envVars
<1>2. RunAged(r)'
  BY BoundAssumption DEF BoundAssumption, ThrowInside, Goto, workVars, planVars, Fault, IInv, AgedInv, RunAged, Aged, BusyPc, WorkPc, TypeOK, WorkType, PlanType, WorldType, envVars, Tolerated
<1>3. ClaimOf(r)'
  BY UnsetType DEF ThrowInside, Goto, workVars, planVars, Fault, IInv, ClaimInv, ClaimOf, ClaimWon, Trimming, WorkPc, DeletePc, Free, TypeOK, WorkType, PlanType, WorldType, storeVars, ledgerVars, Tolerated
<1>4. ProgressOf(r)'
  <2> DEFINE p == cur[r]
  <2>1. /\ p \in Partition /\ cur'[r] = p /\ pc'[r] = "markFailed"
        /\ pc[r] \in WorkPc \ {"assert", "copy", "verify", "markFailed"}
        /\ Whole(p)' <=> Whole(p)
    BY <1>1 DEF ThrowInside, Goto, IInv, TypeOK, WorkType, Whole, Rows, storeVars, dataVars
  <2>2. ~Trimming(r)
    BY DEF ThrowInside, Fault, Trimming, Tolerated
  <2>3. Whole(p)
    <3>1. CASE pc[r] = "release"
      BY <3>1 DEF IInv, ProgressInv, ProgressOf
    <3>2. CASE pc[r] # "release"
      BY <2>1, <2>2, <3>2 DEF IInv, ClaimInv, ClaimOf, StoreInv, StoreOf
    <3> QED
      BY <3>1, <3>2
  <2> QED
    BY <2>1, <2>3 DEF ProgressOf, Trimming, DeletePc, WorkPc
<1> QED
  BY <1>1, <1>2, <1>3, <1>4, LocalStep

LEMMA ThrowOutsideStep ==
  ASSUME Tolerated, IInv, TypeOK', NEW r \in Run, ThrowOutside(r)
  PROVE AgedInv' /\ ClaimInv' /\ StoreInv' /\ ProgressInv'
<1>1. OthersKeep(r) /\ UNCHANGED <<storeVars, today>>
  BY DEF ThrowOutside, Forget, Fault, OthersKeep, IInv, TypeOK, WorkType, PlanType, WorldType, envVars
<1>2. RunAged(r)'
  BY BoundAssumption DEF BoundAssumption, ThrowOutside, Forget, Fault, IInv, AgedInv, RunAged, Aged, BusyPc, WorkPc, TypeOK, WorkType, PlanType, WorldType, envVars, Tolerated
<1>3. ClaimOf(r)'
  BY UnsetType DEF ThrowOutside, Forget, Fault, IInv, ClaimInv, ClaimOf, ClaimWon, Trimming, WorkPc, DeletePc, Free, TypeOK, WorkType, PlanType, WorldType, storeVars, ledgerVars, Tolerated
<1>4. ProgressOf(r)'
  BY UnsetType DEF ThrowOutside, Forget, Fault, IInv, ProgressInv, ProgressOf, Trimming, DeletePc, WorkPc, Free, HotOf, Rows, Whole, TypeOK, WorkType, PlanType, WorldType, storeVars, dataVars, Tolerated
<1> QED
  BY <1>1, <1>2, <1>3, <1>4, LocalStep

LEMMA CrashStep ==
  ASSUME Tolerated, IInv, TypeOK', NEW r \in Run, Crash(r)
  PROVE AgedInv' /\ ClaimInv' /\ StoreInv' /\ ProgressInv'
<1>1. OthersKeep(r) /\ UNCHANGED <<storeVars, today>>
  BY DEF Crash, Forget, Fault, OthersKeep, IInv, TypeOK, WorkType, PlanType, WorldType, envVars
<1>2. RunAged(r)'
  BY BoundAssumption DEF BoundAssumption, Crash, Forget, Fault, IInv, AgedInv, RunAged, Aged, BusyPc, WorkPc, TypeOK, WorkType, PlanType, WorldType, envVars, Tolerated
<1>3. ClaimOf(r)'
  BY UnsetType DEF Crash, Forget, Fault, IInv, ClaimInv, ClaimOf, ClaimWon, Trimming, WorkPc, DeletePc, Free, TypeOK, WorkType, PlanType, WorldType, storeVars, ledgerVars, Tolerated
<1>4. ProgressOf(r)'
  BY UnsetType DEF Crash, Forget, Fault, IInv, ProgressInv, ProgressOf, Trimming, DeletePc, WorkPc, Free, HotOf, Rows, Whole, TypeOK, WorkType, PlanType, WorldType, storeVars, dataVars, Tolerated
<1> QED
  BY <1>1, <1>2, <1>3, <1>4, LocalStep

LEMMA MarkEmptyStep ==
  ASSUME Tolerated, IInv, TypeOK', NEW r \in Run, MarkEmpty(r)
  PROVE AgedInv' /\ ClaimInv' /\ StoreInv' /\ ProgressInv'
<1>1. /\ OthersKeep(r) /\ today' = today /\ pc[r] \in WorkPc /\ cur[r] \in Partition
      /\ NoRun \notin Run
  BY DataAssumption DEF MarkEmpty, Goto, Return, planVars, workVars, envVars, OthersKeep, WorkPc,
                        IInv, TypeOK, WorkType, PlanType, WorldType, LedgerType, DataAssumption
<1>2. ClaimOf(r) /\ ProgressOf(r) /\ StoreOf(cur[r]) /\ RunAged(r)
  BY <1>1 DEF IInv, ClaimInv, ProgressInv, StoreInv, AgedInv
<1>3. pc'[r] = "next" /\ staged'[r] = {}
  BY DEF MarkEmpty, Return, IInv, TypeOK, WorkType, PlanType, WorldType, LedgerType
<1>4. ProgressOf(r)'
  BY <1>3, NothingStaged DEF WorkPc
<1>5. ClaimOf(r)'
  BY <1>3 DEF ClaimOf, WorkPc, DeletePc, Trimming
<1>6. RunAged(r)'
  BY <1>1, <1>2, <1>3 DEF MarkEmpty, Return, planVars, RunAged, Aged, BusyPc, WorkPc
<1>7. HotOf(cur[r]) = {}
  BY <1>2 DEF MarkEmpty, ProgressOf
<1> QED
  BY <1>1, <1>4, <1>5, <1>6, <1>7, MarkStep DEF MarkEmpty, Status

LEMMA MarkFailedStep ==
  ASSUME Tolerated, IInv, TypeOK', NEW r \in Run, MarkFailed(r)
  PROVE AgedInv' /\ ClaimInv' /\ StoreInv' /\ ProgressInv'
<1>1. /\ OthersKeep(r) /\ today' = today /\ pc[r] \in WorkPc /\ cur[r] \in Partition
      /\ NoRun \notin Run
  BY DataAssumption DEF MarkFailed, Goto, Return, planVars, workVars, envVars, OthersKeep, WorkPc,
                        IInv, TypeOK, WorkType, PlanType, WorldType, LedgerType, DataAssumption
<1>2. ClaimOf(r) /\ ProgressOf(r) /\ StoreOf(cur[r]) /\ RunAged(r)
  BY <1>1 DEF IInv, ClaimInv, ProgressInv, StoreInv, AgedInv
<1>3. pc'[r] = "next" /\ staged'[r] = {}
  BY DEF MarkFailed, Return, IInv, TypeOK, WorkType, PlanType, WorldType, LedgerType
<1>4. ProgressOf(r)'
  BY <1>3, NothingStaged DEF WorkPc
<1>5. ClaimOf(r)'
  BY <1>3 DEF ClaimOf, WorkPc, DeletePc, Trimming
<1>6. RunAged(r)'
  BY <1>1, <1>2, <1>3 DEF MarkFailed, Return, planVars, RunAged, Aged, BusyPc, WorkPc
<1>7. Whole(cur[r])
  BY <1>2 DEF MarkFailed, ProgressOf
<1> QED
  BY <1>1, <1>4, <1>5, <1>6, <1>7, MarkStep DEF MarkFailed, Status

LEMMA ReleaseStep ==
  ASSUME Tolerated, IInv, TypeOK', NEW r \in Run, Release(r)
  PROVE AgedInv' /\ ClaimInv' /\ StoreInv' /\ ProgressInv'
<1>1. /\ OthersKeep(r) /\ today' = today /\ pc[r] \in WorkPc /\ cur[r] \in Partition
      /\ NoRun \notin Run
  BY DataAssumption DEF Release, Goto, Return, planVars, workVars, envVars, OthersKeep, WorkPc,
                        IInv, TypeOK, WorkType, PlanType, WorldType, LedgerType, DataAssumption
<1>2. ClaimOf(r) /\ ProgressOf(r) /\ StoreOf(cur[r]) /\ RunAged(r)
  BY <1>1 DEF IInv, ClaimInv, ProgressInv, StoreInv, AgedInv
<1>3. pc'[r] = "next" /\ staged'[r] = {}
  BY DEF Release, Return, IInv, TypeOK, WorkType, PlanType, WorldType, LedgerType
<1>4. ProgressOf(r)'
  BY <1>3, NothingStaged DEF WorkPc
<1>5. ClaimOf(r)'
  BY <1>3 DEF ClaimOf, WorkPc, DeletePc, Trimming
<1>6. RunAged(r)'
  BY <1>1, <1>2, <1>3 DEF Release, Return, planVars, RunAged, Aged, BusyPc, WorkPc
<1>7. status[cur[r]] = "verified"
  BY <1>2 DEF Release, ClaimOf
<1> QED
  BY <1>1, <1>4, <1>5, <1>6, <1>7, MarkStep DEF Release, Status

LEMMA MarkVerifiedStep ==
  ASSUME Tolerated, IInv, TypeOK', NEW r \in Run, MarkVerified(r)
  PROVE AgedInv' /\ ClaimInv' /\ StoreInv' /\ ProgressInv'
<1>1. /\ OthersKeep(r) /\ today' = today /\ pc[r] \in WorkPc /\ cur[r] \in Partition
      /\ NoRun \notin Run
  BY DataAssumption DEF MarkVerified, Goto, Return, planVars, workVars, envVars, OthersKeep, WorkPc,
                        IInv, TypeOK, WorkType, PlanType, WorldType, LedgerType, DataAssumption
<1>2. ClaimOf(r) /\ ProgressOf(r) /\ StoreOf(cur[r]) /\ RunAged(r)
  BY <1>1 DEF IInv, ClaimInv, ProgressInv, StoreInv, AgedInv
<1>3. /\ cur'[r] = cur[r] /\ pc'[r] \in {"count", "release"} /\ Free(r, cur[r])' = Free(r, cur[r])
      /\ now' = now /\ todo' = todo /\ pc[r] = "markVerified"
  BY DEF MarkVerified, Goto, planVars, Free, IInv, TypeOK, WorkType
<1>4. /\ token[cur[r]] = r /\ status[cur[r]] = "exporting" /\ Whole(cur[r])
      /\ object[cur[r]] = HotOf(cur[r])
  BY <1>2, <1>3 DEF ClaimOf, ProgressOf, StoreOf, WorkPc, DeletePc, Trimming
<1>5. /\ status'[cur[r]] = "verified" /\ token'[cur[r]] = r /\ cur[r] \notin stale'
      /\ UNCHANGED dataVars
  BY <1>1, <1>4 DEF MarkVerified, Mark, IInv, TypeOK, LedgerType
<1>6. ProgressOf(r)'
  BY <1>3, <1>4, <1>5 DEF ProgressOf, Whole, HotOf, Rows, Trimming, DeletePc, WorkPc, dataVars
<1>7. \/ pc'[r] = "release"
      \/ pc'[r] = "count" /\ ~Free(r, cur[r])
      \/ pc'[r] = "count" /\ Free(r, cur[r])
  BY <1>3
<1>8. ~Free(r, cur[r])
  BY <1>2, <1>3 DEF ProgressOf, WorkPc
<1>9. ClaimOf(r)'
  BY <1>3, <1>5, <1>8 DEF ClaimOf, WorkPc, DeletePc, Trimming
<1>10. RunAged(r)'
  BY <1>1, <1>2, <1>3 DEF RunAged, Aged, BusyPc, WorkPc
<1> QED
  BY <1>1, <1>4, <1>6, <1>9, <1>10, MarkStep DEF MarkVerified, Status

LEMMA MarkDoneStep ==
  ASSUME Tolerated, IInv, TypeOK', NEW r \in Run, MarkDone(r)
  PROVE AgedInv' /\ ClaimInv' /\ StoreInv' /\ ProgressInv'
<1>1. /\ OthersKeep(r) /\ today' = today /\ pc[r] \in WorkPc /\ cur[r] \in Partition
      /\ NoRun \notin Run
  BY DataAssumption DEF MarkDone, Return, planVars, workVars, envVars, OthersKeep, WorkPc,
                        IInv, TypeOK, WorkType, PlanType, DataAssumption
<1>2. ClaimOf(r) /\ ProgressOf(r) /\ StoreOf(cur[r]) /\ RunAged(r)
  BY <1>1 DEF IInv, ClaimInv, ProgressInv, StoreInv, AgedInv
<1>3. pc[r] = "markDone" /\ pc'[r] = "next" /\ staged'[r] = {}
  BY DEF MarkDone, Return, IInv, TypeOK, WorkType
<1>4. ProgressOf(r)'
  BY <1>3, NothingStaged DEF WorkPc
<1>5. ClaimOf(r)'
  BY <1>3 DEF ClaimOf, WorkPc, DeletePc, Trimming
<1>6. RunAged(r)'
  BY <1>1, <1>2, <1>3 DEF MarkDone, Return, planVars, RunAged, Aged, BusyPc, WorkPc
<1>7. HotOf(cur[r]) = {}
  BY <1>2, <1>3 DEF ProgressOf
<1>8. CASE Free(r, cur[r])
  <2>1. Whole(cur[r])
    BY <1>2, <1>3, <1>8 DEF ClaimOf, StoreOf, Trimming, WorkPc
  <2> QED
    BY <1>1, <1>4, <1>5, <1>6, <1>8, <2>1, MarkStep DEF MarkDone, Status
<1>9. CASE ~Free(r, cur[r])
  BY <1>1, <1>4, <1>5, <1>6, <1>7, <1>9, MarkStep DEF MarkDone, Status
<1> QED
  BY <1>8, <1>9

LEMMA CopyStep ==
  ASSUME Tolerated, IInv, TypeOK', NEW r \in Run, Copy(r)
  PROVE AgedInv' /\ ClaimInv' /\ StoreInv' /\ ProgressInv'
<1> DEFINE p == cur[r]
<1>1. /\ OthersKeep(r) /\ today' = today /\ pc[r] = "copy" /\ p \in Partition /\ cur'[r] = p
      /\ UNCHANGED <<ledgerVars, hot, accepted, pruned, tier, todo, now, staged>>
      /\ pc'[r] \in {"verify", "markFailed"}
      /\ \A q \in Partition \ {p} : object'[q] = object[q]
      /\ pc'[r] = "verify" => object'[p] \subseteq staged[r]
  BY DEF Copy, Fault, Goto, planVars, workVars, envVars, OthersKeep, Tolerated,
         IInv, TypeOK, WorkType, PlanType, DataType
<1>2. ClaimOf(r) /\ ProgressOf(r) /\ StoreOf(p) /\ RunAged(r)
  BY <1>1 DEF IInv, ClaimInv, ProgressInv, StoreInv, AgedInv
<1>3. status[p] = "exporting" /\ token[p] = r /\ p \notin stale /\ Whole(p)
  BY <1>1, <1>2 DEF ClaimOf, StoreOf, Trimming, WorkPc, DeletePc
<1>4. AgedInv'
  BY <1>1, <1>2 DEF AgedInv, RunAged, Aged, IInv, OthersKeep, ledgerVars, BusyPc, WorkPc
<1>5. ClaimInv'
  <2>1. ClaimOf(r)'
    BY <1>1, <1>3 DEF ClaimOf, ClaimWon, Trimming, WorkPc, DeletePc, ledgerVars
  <2>2. ASSUME NEW q \in Run \ {r} PROVE ClaimOf(q)'
    <3>1. ClaimOf(q)
      BY DEF IInv, ClaimInv
    <3> QED
      BY <1>1, <3>1, ClaimFrame DEF OthersKeep, ledgerVars
  <2> QED
    BY <2>1, <2>2 DEF ClaimInv
<1>6. StoreInv'
  BY <1>1, <1>3 DEF StoreInv, StoreOf, Whole, HotOf, Rows, IInv, ledgerVars
<1>7. ProgressInv'
  <2>1. ProgressOf(r)'
    <3>1. ~Free(r, p)' /\ staged'[r] = HotOf(p)' /\ Whole(p)'
      BY <1>1, <1>2, <1>3 DEF ProgressOf, HotOf, Whole, Rows, Free
    <3>2. object'[p] = object'[cur'[r]]
      BY <1>1
    <3> QED
      BY <1>1, <3>1, <3>2 DEF ProgressOf, Trimming, WorkPc, DeletePc
  <2>2. ASSUME NEW q \in Run \ {r} PROVE ProgressOf(q)'
    <3>1. ProgressOf(q) /\ cur[q] \in Partition
      BY DEF IInv, ProgressInv, TypeOK, WorkType
    <3>2. CASE cur[q] = p
      <4>1. pc'[q] \notin WorkPc /\ staged'[q] = {}
        BY <1>1, <3>1, <3>2, Exclusive DEF IInv, OthersKeep, WorkPc, ProgressOf
      <4> QED
        BY <4>1, NothingStaged
    <3>3. CASE cur[q] # p
      BY <1>1, <3>1, <3>3, ProgressFrame DEF OthersKeep, Whole, Rows
    <3> QED
      BY <3>2, <3>3
  <2> QED
    BY <2>1, <2>2 DEF ProgressInv
<1> QED
  BY <1>4, <1>5, <1>6, <1>7

LEMMA DeleteBatchStep ==
  ASSUME Tolerated, IInv, TypeOK', NEW r \in Run, DeleteBatch(r)
  PROVE AgedInv' /\ ClaimInv' /\ StoreInv' /\ ProgressInv'
<1> DEFINE p == cur[r]
<1>1. PICK gone \in SUBSET HotOf(p) :
        /\ Cardinality(gone) <= BatchSize
        /\ Cardinality(gone) < BatchSize => gone = HotOf(p)
        /\ hot' = hot \ gone
        /\ pruned' = IF Free(r, p) THEN pruned \cup gone ELSE pruned
  BY DEF DeleteBatch
<1>2. /\ OthersKeep(r) /\ today' = today /\ pc[r] = "batch" /\ p \in Partition /\ cur'[r] = p
      /\ UNCHANGED <<ledgerVars, object, accepted, tier, todo, now, staged>>
      /\ pc'[r] = "more" /\ left'[r] = left[r] - 1 /\ left[r] \in Int
  BY DEF DeleteBatch, Goto, planVars, envVars, OthersKeep, IInv, TypeOK, WorkType, PlanType
<1>3. ClaimOf(r) /\ ProgressOf(r) /\ StoreOf(p) /\ RunAged(r)
  BY <1>2 DEF IInv, ClaimInv, ProgressInv, StoreInv, AgedInv
<1>4. AgedInv'
  BY <1>2, <1>3 DEF AgedInv, RunAged, Aged, IInv, OthersKeep, ledgerVars, BusyPc, WorkPc
<1>5. ClaimInv'
  <2>1. ClaimOf(r)'
    BY <1>2, <1>3 DEF ClaimOf, ClaimWon, Trimming, Free, WorkPc, DeletePc, ledgerVars
  <2>2. ASSUME NEW q \in Run \ {r} PROVE ClaimOf(q)'
    <3>1. ClaimOf(q)
      BY DEF IInv, ClaimInv
    <3> QED
      BY <1>2, <3>1, ClaimFrame DEF OthersKeep, ledgerVars
  <2> QED
    BY <2>1, <2>2 DEF ClaimInv
<1>6. gone \subseteq Rows(p) /\ gone \subseteq hot
  BY <1>1 DEF HotOf
<1>7. \A q \in Partition \ {p} : Rows(q) \cap gone = {}
  BY <1>6 DEF Rows
<1>8. StoreInv'
  <2>1. hot' \subseteq accepted'
    BY <1>1, <1>2 DEF IInv, StoreInv
  <2>2. StoreOf(p)'
    <3>1. CASE Free(r, p)
      BY <1>1, <1>2, <1>3, <3>1 DEF StoreOf, Whole, HotOf, Rows, ledgerVars
    <3>2. CASE ~Free(r, p)
      <4>1. status[p] = "verified" /\ HotOf(p) \subseteq object[p]
        BY <1>2, <1>3, <3>2 DEF ClaimOf, ProgressOf, Trimming, DeletePc
      <4> QED
        BY <1>1, <1>2, <1>3, <3>2, <4>1 DEF StoreOf, Whole, HotOf, Rows, ledgerVars
    <3> QED
      BY <3>1, <3>2
  <2>3. ASSUME NEW q \in Partition \ {p} PROVE StoreOf(q)'
    <3>1. StoreOf(q)
      BY DEF IInv, StoreInv
    <3> QED
      BY <1>1, <1>2, <1>7, <3>1 DEF StoreOf, Whole, HotOf, Rows, ledgerVars
  <2> QED
    BY <1>2, <2>1, <2>2, <2>3 DEF StoreInv
<1>9. ProgressOf(r)'
  <2>1. /\ HotOf(p) # {} /\ left[r] >= 1
        /\ Cardinality(HotOf(p)) <= BatchSize * (left[r] - 1)
        /\ Trimming(r) => HotOf(p) \subseteq object[p]
    BY <1>2, <1>3 DEF ProgressOf
  <2>2. /\ IsFiniteSet(HotOf(p)) /\ Cardinality(HotOf(p)) \in Nat
        /\ Cardinality(gone) \in Nat /\ Cardinality(HotOf(p)) > 0
    <3>1. HotOf(p) \in SUBSET Entry /\ gone \in SUBSET Entry
      BY <1>1 DEF HotOf, Rows
    <3> QED
      BY <2>1, <3>1, EntrySets, FS_EmptySet
  <2>3. HotOf(p)' = HotOf(p) \ gone
    BY <1>1, <1>2 DEF HotOf, Rows
  <2>4. Cardinality(HotOf(p)') = Cardinality(HotOf(p)) - Cardinality(gone)
    <3>1. HotOf(p) \cap gone = gone
      BY <1>1
    <3> QED
      BY <2>2, <2>3, <3>1, FS_Difference
  <2>5. left'[r] >= 1 /\ BatchSize * (left'[r] - 1) = BatchSize * (left[r] - 1) - BatchSize
    BY <1>2, <2>1, <2>2, BoundAssumption DEF BoundAssumption
  <2>6. Cardinality(HotOf(p)') <= BatchSize * (left'[r] - 1)
    <3>1. CASE Cardinality(gone) = BatchSize
      BY <1>2, <2>1, <2>2, <2>4, <2>5, <3>1, BoundAssumption DEF BoundAssumption
    <3>2. CASE Cardinality(gone) # BatchSize
      <4>1. gone = HotOf(p)
        BY <1>1, <2>2, <3>2, BoundAssumption DEF BoundAssumption
      <4>2. Cardinality(HotOf(p)') = 0
        BY <2>2, <2>4, <4>1
      <4>3. left'[r] - 1 \in Nat
        BY <1>2, <2>5
      <4> QED
        BY <4>2, <4>3, BoundAssumption DEF BoundAssumption
    <3> QED
      BY <3>1, <3>2
  <2>7. Trimming(r)' => HotOf(p)' \subseteq object'[p]
    <3>1. Trimming(r)' => Trimming(r)
      BY <1>2 DEF Trimming, Free, DeletePc
    <3> QED
      BY <1>2, <2>1, <2>3, <3>1
  <2> QED
    BY <1>2, <2>5, <2>6, <2>7 DEF ProgressOf, WorkPc
<1>10. ASSUME NEW q \in Run \ {r} PROVE ProgressOf(q)'
  <2>1. ProgressOf(q) /\ cur[q] \in Partition
    BY DEF IInv, ProgressInv, TypeOK, WorkType
  <2>2. CASE cur[q] = p
    <3>1. pc'[q] \notin WorkPc /\ staged'[q] = {}
      BY <1>2, <2>1, <2>2, Exclusive DEF IInv, OthersKeep, WorkPc, ProgressOf
    <3> QED
      BY <3>1, NothingStaged
  <2>3. CASE cur[q] # p
    <3>1. hot' \cap Rows(cur[q]) = hot \cap Rows(cur[q])
      BY <1>1, <1>7, <2>1, <2>3
    <3>2. Whole(cur[q]) => (accepted' \cap Rows(cur[q])) \ pruned' \subseteq hot'
      BY <1>1, <1>2, <1>7, <2>1, <2>3 DEF Whole
    <3> QED
      BY <1>2, <2>1, <2>3, <3>1, <3>2, ProgressFrame DEF OthersKeep
  <2> QED
    BY <2>2, <2>3
<1> QED
  BY <1>4, <1>5, <1>8, <1>9, <1>10 DEF ProgressInv

\* A claim that run r writes on a partition nobody works on.
LEMMA ClaimStep ==
  ASSUME IInv, NEW r \in Run, NEW p \in Partition, OthersKeep(r),
         UNCHANGED <<dataVars, today>>,
         status' = [status EXCEPT ![p] = "exporting"],
         token' = [token EXCEPT ![p] = r],
         stale' = stale \ {p},
         Aged(p), Whole(p),
         \A q \in Run \ {r} : cur[q] = p => pc[q] \notin WorkPc,
         RunAged(r)', ClaimOf(r)', ProgressOf(r)'
  PROVE AgedInv' /\ ClaimInv' /\ StoreInv' /\ ProgressInv'
<1>1. ASSUME NEW q \in Run \ {r} PROVE ProgressOf(q)'
  <2>1. ProgressOf(q)
    BY DEF IInv, ProgressInv
  <2> QED
    BY <2>1, ProgressFrame DEF OthersKeep, dataVars, Whole, Rows
<1>2. ASSUME NEW q \in Run \ {r} PROVE ClaimOf(q)'
  <2>1. ClaimOf(q) /\ cur[q] \in Partition
    BY DEF IInv, ClaimInv, TypeOK, WorkType
  <2>2. CASE cur[q] = p
    <3>1. pc'[q] \notin WorkPc /\ cur'[q] = p
      BY <2>2 DEF OthersKeep
    <3>2. token'[p] # q
      BY DEF IInv, TypeOK, LedgerType
    <3> QED
      BY <3>1, <3>2 DEF ClaimOf, ClaimWon, Trimming, WorkPc, DeletePc
  <2>3. CASE cur[q] # p
    <3>1. status'[cur[q]] = status[cur[q]] /\ token'[cur[q]] = token[cur[q]]
      BY <2>1, <2>3 DEF IInv, TypeOK, LedgerType
    <3> QED
      BY <2>1, <3>1, ClaimFrame DEF OthersKeep
  <2> QED
    BY <2>2, <2>3
<1>3. AgedInv'
  <2>1. \A q \in Partition : status'[q] # "none" => Aged(q)
    BY DEF IInv, AgedInv, TypeOK, LedgerType
  <2> QED
    BY <2>1 DEF AgedInv, RunAged, Aged, IInv, OthersKeep
<1>4. StoreInv'
  <2>1. ASSUME NEW q \in Partition PROVE StoreOf(q)'
    <3>1. StoreOf(q) /\ status \in [Partition -> Status]
      BY DEF IInv, StoreInv, TypeOK, LedgerType
    <3>2. CASE q = p
      BY <3>1, <3>2 DEF StoreOf, Whole, HotOf, Rows, dataVars
    <3>3. CASE q # p
      BY <3>1, <3>3 DEF StoreOf, Whole, HotOf, Rows, dataVars
    <3> QED
      BY <3>2, <3>3
  <2> QED
    BY <2>1 DEF IInv, StoreInv, dataVars
<1> QED
  BY <1>1, <1>2, <1>3, <1>4 DEF ClaimInv, ProgressInv

LEMMA ClaimInsertStep ==
  ASSUME Tolerated, IInv, TypeOK', NEW r \in Run, NEW p \in Partition, ClaimInsert(r, p)
  PROVE AgedInv' /\ ClaimInv' /\ StoreInv' /\ ProgressInv'
<1>1. /\ OthersKeep(r) /\ UNCHANGED <<dataVars, today>>
      /\ pc[r] = "next" /\ p \in todo[r] /\ status[p] = "none"
      /\ pc'[r] = "assert" /\ cur'[r] = p /\ staged'[r] = staged[r]
      /\ now'[r] = now[r] /\ todo'[r] \subseteq todo[r]
      /\ token'[p] = r /\ status'[p] = "exporting" /\ p \notin stale'
  BY DEF ClaimInsert, IsNext, TakeNext, workVars, envVars, OthersKeep, IInv, TypeOK, WorkType,
         PlanType, LedgerType
<1>2. RunAged(r) /\ StoreOf(p) /\ ProgressOf(r)
  BY DEF IInv, AgedInv, StoreInv, ProgressInv
<1>3. Aged(p) /\ Whole(p)
  BY <1>1, <1>2 DEF RunAged, StoreOf
<1>4. \A q \in Run \ {r} : cur[q] = p => pc[q] \notin WorkPc
  BY <1>1 DEF IInv, ClaimInv, ClaimOf
<1>5. RunAged(r)'
  BY <1>1, <1>2, <1>3 DEF RunAged, Aged
<1>6. ClaimOf(r)'
  BY <1>1 DEF ClaimOf, Trimming, DeletePc, WorkPc
<1>7. ProgressOf(r)'
  <2>1. staged'[r] = {}
    BY <1>1, <1>2 DEF ProgressOf, WorkPc
  <2> QED
    BY <1>1, <2>1, NothingStaged
<1> QED
  BY <1>1, <1>3, <1>4, <1>5, <1>6, <1>7, ClaimStep DEF ClaimInsert

LEMMA ReclaimStep ==
  ASSUME Tolerated, IInv, TypeOK', NEW r \in Run, Reclaim(r)
  PROVE AgedInv' /\ ClaimInv' /\ StoreInv' /\ ProgressInv'
<1> DEFINE p == cur[r]
<1>1. /\ OthersKeep(r) /\ UNCHANGED <<dataVars, today>> /\ p \in Partition
      /\ pc[r] = "reclaim" /\ pc'[r] = "readBack" /\ cur'[r] = p /\ staged'[r] = staged[r]
      /\ now'[r] = now[r] /\ todo'[r] = todo[r]
  BY DEF Reclaim, workVars, planVars, envVars, OthersKeep, IInv, TypeOK, WorkType
<1>2. RunAged(r) /\ StoreOf(p) /\ ProgressOf(r) /\ ClaimOf(r)
  BY <1>1 DEF IInv, AgedInv, StoreInv, ProgressInv, ClaimInv
<1>3. RunAged(r)'
  BY <1>1, <1>2 DEF RunAged, Aged, BusyPc
<1>4. ProgressOf(r)'
  <2>1. staged'[r] = {}
    BY <1>1, <1>2 DEF ProgressOf, WorkPc
  <2> QED
    BY <1>1, <2>1, NothingStaged DEF WorkPc
<1>5. CASE Reclaimable(p)
  <2>1. /\ status' = [status EXCEPT ![p] = "exporting"]
        /\ token' = [token EXCEPT ![p] = r]
        /\ stale' = stale \ {p}
    BY <1>5 DEF Reclaim
  <2>2. Aged(p) /\ Whole(p)
    BY <1>1, <1>2, <1>5 DEF RunAged, BusyPc, StoreOf, Reclaimable
  <2>3. ASSUME NEW q \in Run \ {r}, cur[q] = p PROVE pc[q] \notin WorkPc
    BY <1>5, <2>3 DEF IInv, ClaimInv, ClaimOf, Reclaimable
  <2>4. ClaimOf(r)'
    BY <1>1, <2>1 DEF ClaimOf, Trimming, DeletePc, WorkPc
  <2> QED
    BY <1>1, <1>3, <1>4, <2>1, <2>2, <2>3, <2>4, ClaimStep
<1>6. CASE ~Reclaimable(p)
  <2>1. UNCHANGED storeVars
    BY <1>6 DEF Reclaim, storeVars, ledgerVars
  <2>2. ClaimOf(r)'
    BY <1>1, <1>6, <2>1
    DEF ClaimOf, ClaimWon, Reclaimable, Trimming, DeletePc, WorkPc, storeVars, ledgerVars
  <2> QED
    BY <1>1, <1>3, <1>4, <2>1, <2>2, LocalStep
<1> QED
  BY <1>5, <1>6

\* A new row is one of today's, so no run and no ledger row is concerned.
LEMMA IngestStep ==
  ASSUME Tolerated, IInv, TypeOK', NEW e \in Entry, Ingest(e)
  PROVE AgedInv' /\ ClaimInv' /\ StoreInv' /\ ProgressInv'
<1>1. /\ e \notin accepted /\ DayOf[PartOf[e]] = today
      /\ hot' = hot \cup {e} /\ accepted' = accepted \cup {e}
      /\ UNCHANGED <<object, pruned, ledgerVars, envVars, runVars>>
  BY DEF Ingest, Tolerated
<1>2. ASSUME NEW p \in Partition, Aged(p) PROVE e \notin Rows(p)
  BY <1>1, <1>2, BoundAssumption DEF Aged, Rows, BoundAssumption, IInv, TypeOK, WorldType
<1>3. AgedInv'
  BY <1>1 DEF AgedInv, RunAged, Aged, IInv, envVars, ledgerVars, runVars, planVars
<1>4. ClaimInv'
  BY <1>1 DEF ClaimInv, ClaimOf, ClaimWon, Trimming, Free, IInv, ledgerVars, runVars, planVars
<1>5. StoreInv'
  <2>1. ASSUME NEW p \in Partition PROVE StoreOf(p)'
    <3>1. StoreOf(p)
      BY DEF IInv, StoreInv
    <3>2. CASE e \in Rows(p)
      <4>1. status[p] = "none"
        BY <1>2, <3>2 DEF IInv, AgedInv
      <4> QED
        BY <1>1, <3>1, <4>1 DEF StoreOf, Whole, ledgerVars
    <3>3. CASE e \notin Rows(p)
      BY <1>1, <3>1, <3>3 DEF StoreOf, Whole, HotOf, Rows, ledgerVars
    <3> QED
      BY <3>2, <3>3
  <2> QED
    BY <1>1, <2>1 DEF IInv, StoreInv
<1>6. ProgressInv'
  <2>1. ASSUME NEW q \in Run PROVE ProgressOf(q)'
    <3>1. ProgressOf(q) /\ cur[q] \in Partition /\ cur'[q] = cur[q] /\ pc'[q] = pc[q]
          /\ staged'[q] = staged[q]
      BY <1>1 DEF IInv, ProgressInv, TypeOK, WorkType, runVars, workVars
    <3>2. CASE pc[q] \in WorkPc
      <4>1. e \notin Rows(cur[q])
        BY <1>2, <3>1, <3>2 DEF IInv, AgedInv, RunAged, BusyPc
      <4> QED
        BY <1>1, <3>1, <4>1, ProgressFrame DEF Whole, runVars, planVars, workVars
    <3>3. CASE pc[q] \notin WorkPc
      BY <3>1, <3>3, NothingStaged DEF ProgressOf
    <3> QED
      BY <3>2, <3>3
  <2> QED
    BY <2>1 DEF ProgressInv
<1> QED
  BY <1>3, <1>4, <1>5, <1>6

\* Only a claim nobody holds grows old.
LEMMA ClaimAgesStep ==
  ASSUME Tolerated, IInv, TypeOK', NEW p \in Partition, ClaimAges(p)
  PROVE AgedInv' /\ ClaimInv' /\ StoreInv' /\ ProgressInv'
<1>1. /\ stale' = stale \cup {p}
      /\ UNCHANGED <<status, token, path, rows, dataVars, envVars, runVars>>
      /\ \A r \in Run : ~Holds(r, p)
  BY DEF ClaimAges, Tolerated
<1>2. ASSUME NEW r \in Run PROVE ClaimOf(r)'
  <2>1. ClaimOf(r) /\ ~Holds(r, p)
    BY <1>1 DEF IInv, ClaimInv
  <2> QED
    BY <1>1, <2>1 DEF ClaimOf, ClaimWon, Holds, Trimming, Free, runVars, planVars
<1>3. ASSUME NEW r \in Run PROVE ProgressOf(r)'
  <2>1. ProgressOf(r)
    BY DEF IInv, ProgressInv
  <2> QED
    BY <1>1, <2>1, ProgressFrame DEF Whole, dataVars, runVars, planVars, workVars
<1>4. AgedInv'
  BY <1>1 DEF IInv, AgedInv, RunAged, Aged, envVars, runVars, planVars
<1>5. StoreInv'
  BY <1>1 DEF IInv, StoreInv, StoreOf, Whole, HotOf, Rows, dataVars
<1> QED
  BY <1>2, <1>3, <1>4, <1>5 DEF ClaimInv, ProgressInv

\* The clock, the rollout and the subscriptions touch neither rows nor runs.
LEMMA WorldStep ==
  ASSUME IInv, TypeOK', UNCHANGED <<storeVars, runVars>>, today <= today'
  PROVE AgedInv' /\ ClaimInv' /\ StoreInv' /\ ProgressInv'
<1>1. \A p \in Partition : Aged(p) => Aged(p)'
  BY DataAssumption, BoundAssumption
  DEF Aged, DataAssumption, BoundAssumption, IInv, TypeOK, WorldType
<1>2. \A r \in Run : now[r] <= today => now[r] <= today'
  BY DEF IInv, TypeOK, WorldType, PlanType
<1>3. AgedInv'
  <2>1. FirstDay <= today'
    BY BoundAssumption DEF BoundAssumption, IInv, AgedInv, TypeOK, WorldType
  <2> QED
    BY <1>1, <1>2, <2>1
    DEF AgedInv, RunAged, IInv, TypeOK, WorkType, PlanType, storeVars, ledgerVars, runVars, planVars
<1>4. ClaimInv'
  BY DEF IInv, ClaimInv, ClaimOf, ClaimWon, Trimming, Free, storeVars, ledgerVars, runVars, planVars
<1>5. StoreInv'
  BY DEF IInv, StoreInv, StoreOf, Whole, HotOf, Rows, storeVars, ledgerVars, dataVars
<1>6. ASSUME NEW r \in Run PROVE ProgressOf(r)'
  <2>1. ProgressOf(r)
    BY DEF IInv, ProgressInv
  <2> QED
    BY <2>1, ProgressFrame DEF Whole, storeVars, dataVars, runVars, planVars, workVars
<1> QED
  BY <1>3, <1>4, <1>5, <1>6 DEF ProgressInv

LEMMA InvInit == Init => IInv
<1> SUFFICES ASSUME Init PROVE IInv
  OBVIOUS
<1>1. TypeOK
  BY TypeInit
<1>2. AgedInv
  BY <1>1 DEF Init, AgedInv, RunAged, BusyPc, WorkPc, TypeOK, WorldType, WorkType
<1>3. ClaimInv
  BY DEF Init, ClaimInv, ClaimOf, ClaimWon, Trimming, DeletePc, WorkPc
<1>4. StoreInv
  BY DEF Init, StoreInv, StoreOf, Whole, HotOf, Rows
<1>5. ProgressInv
  BY DEF Init, ProgressInv, ProgressOf, Trimming, DeletePc, WorkPc
<1> QED
  BY <1>1, <1>2, <1>3, <1>4, <1>5 DEF IInv

LEMMA InvNext == Tolerated /\ IInv /\ [Next]_vars => IInv'
<1> SUFFICES ASSUME Tolerated, IInv, [Next]_vars PROVE IInv'
  OBVIOUS
<1>1. TypeOK'
  BY TypeStep DEF IInv
<1> SUFFICES AgedInv' /\ ClaimInv' /\ StoreInv' /\ ProgressInv'
  BY <1>1 DEF IInv
<1>2. CASE Tick
  BY <1>1, <1>2, WorldStep DEF Tick, IInv, TypeOK, WorldType
<1>3. CASE EnableDeletion
  BY <1>1, <1>3, WorldStep DEF EnableDeletion, IInv, TypeOK, WorldType
<1>4. ASSUME NEW j \in Project, ChangePlan(j) PROVE AgedInv' /\ ClaimInv' /\ StoreInv' /\ ProgressInv'
  BY <1>1, <1>4, WorldStep DEF ChangePlan, IInv, TypeOK, WorldType
<1>5. ASSUME NEW e \in Entry, Ingest(e) PROVE AgedInv' /\ ClaimInv' /\ StoreInv' /\ ProgressInv'
  BY <1>1, <1>5, IngestStep
<1>6. ASSUME NEW p \in Partition, ClaimAges(p) PROVE AgedInv' /\ ClaimInv' /\ StoreInv' /\ ProgressInv'
  BY <1>1, <1>6, ClaimAgesStep
<1>7. ASSUME NEW r \in Run,
             \/ ListAged(r) \/ Step(r) \/ ThrowInside(r) \/ ThrowOutside(r) \/ Crash(r)
      PROVE AgedInv' /\ ClaimInv' /\ StoreInv' /\ ProgressInv'
  <2>1. ASSUME NEW p \in Partition,
               SkipInGrace(r, p) \/ ClaimInsert(r, p) \/ ClaimConflict(r, p)
        PROVE AgedInv' /\ ClaimInv' /\ StoreInv' /\ ProgressInv'
    BY <1>1, <2>1, SkipInGraceStep, ClaimInsertStep, ClaimConflictStep
  <2> QED
    BY <1>1, <1>7, <2>1, ListAgedStep, ListLedgerStep, LookUpPlansStep, FinishStep,
       ReclaimStep, ReadBackStep, AssertClaimedStep, StagePageStep, MarkEmptyStep, CopyStep,
       VerifyStep, MarkVerifiedStep, ReleaseStep, CountDayStep, DeleteBatchStep, MoreStep,
       MarkDoneStep, MarkFailedStep, ThrowInsideStep, ThrowOutsideStep, CrashStep
    DEF Step
<1>8. CASE UNCHANGED vars
  BY <1>1, <1>8, WorldStep DEF vars, envVars, IInv, TypeOK, WorldType
<1> QED
  BY <1>2, <1>3, <1>4, <1>5, <1>6, <1>7, <1>8 DEF Next, Environment

\* exporter.ts:345-351 and partitions.ts:64.  Whatever crashes, throws or
\* overlaps, short of the faults Tolerated names, IInv holds.
THEOREM Inductive ==
  ASSUME Tolerated PROVE Spec => []IInv
<1>1. IInv /\ [Next]_vars => IInv'
  BY InvNext
<1> QED
  BY <1>1, InvInit, PTL DEF Spec

LEMMA InvNoLoss == IInv => NoLoss
<1> SUFFICES ASSUME IInv, NEW e \in accepted PROVE e \in hot \cup Archived \cup pruned
  BY DEF NoLoss
<1>1. e \in Entry /\ PartOf[e] \in Partition
  BY DataAssumption DEF DataAssumption, IInv, TypeOK, DataType
<1>2. StoreOf(PartOf[e])
  BY <1>1 DEF IInv, StoreInv
<1>3. e \in hot \cup object[PartOf[e]] \cup pruned
  BY <1>1, <1>2 DEF StoreOf, Rows
<1> QED
  BY <1>1, <1>3 DEF Archived

\* exporter.ts:345-351 (NoLoss).  A stored row leaves the hot database only into
\* its partition's Parquet object or down the free path.
THEOREM NothingLost ==
  ASSUME Tolerated PROVE Spec => []NoLoss
  BY Inductive, InvNoLoss, PTL

LEMMA InvClaimExclusive == IInv => ClaimExclusive
  BY DEF IInv, ClaimInv, ClaimOf, ClaimExclusive

\* migration 23 "this constraint IS the lock" (ClaimExclusive).  Two runs never
\* work on one partition at once.
THEOREM ClaimsExclude ==
  ASSUME Tolerated PROVE Spec => []ClaimExclusive
  BY Inductive, InvClaimExclusive, PTL

LEMMA InvNeverCountedTwice == IInv => NeverCountedTwice
<1> SUFFICES ASSUME IInv, NEW e \in Served PROVE e \notin hot
  BY DEF NeverCountedTwice
<1>1. e \in Entry /\ PartOf[e] \in Partition /\ status[PartOf[e]] = "deleted"
  BY DataAssumption DEF DataAssumption, Served, Archived
<1>2. HotOf(PartOf[e]) = {}
  BY <1>1 DEF IInv, StoreInv, StoreOf
<1> QED
  BY <1>1, <1>2 DEF HotOf, Rows

\* query.ts:10-18 (NeverCountedTwice).  No row is counted in both tiers.
THEOREM CountedOnce ==
  ASSUME Tolerated PROVE Spec => []NeverCountedTwice
  BY Inductive, InvNeverCountedTwice, PTL

-----------------------------------------------------------------------------
(* What the free path prunes.                                                *)

PlannedPc == {"next", "reclaim", "readBack"} \cup WorkPc

\* A project with a free plan has been free, and so has one a run took for free.
TierInv ==
  /\ \A j \in Project : plan[j] = "free" => j \in everFree
  /\ \A r \in Run, j \in Project :
       pc[r] \in PlannedPc /\ tier[r][j] = "free" => j \in everFree
  /\ ProNeverPruned

\* A step of a run that looks up no plan and prunes nothing.
LEMMA TierKept ==
  ASSUME TypeOK, TierInv, NEW r \in Run, NEW at,
         pc' = [pc EXCEPT ![r] = at], at \in PlannedPc => pc[r] \in PlannedPc,
         UNCHANGED <<tier, plan, everFree, pruned>>
  PROVE  TierInv'
<1>1. \A q \in Run : pc'[q] \in PlannedPc => pc[q] \in PlannedPc
  BY DEF TypeOK, WorkType
<1> QED
  BY <1>1 DEF TierInv, ProNeverPruned

\* A run that ends, whatever it forgets.
LEMMA TierForgotten ==
  ASSUME TypeOK, TierInv, NEW r \in Run, Forget(r), UNCHANGED <<plan, everFree, pruned>>
  PROVE  TierInv'
<1>1. \A q \in Run : pc'[q] \in PlannedPc =>
        q # r /\ pc[q] \in PlannedPc /\ tier'[q] = tier[q]
  BY DEF Forget, TypeOK, WorkType, PlanType, PlannedPc, WorkPc
<1> QED
  BY <1>1 DEF TierInv, ProNeverPruned

LEMMA TierStep ==
  ASSUME "billing" \notin Faults, TypeOK, TierInv, NEW r \in Run,
         ListAged(r) \/ Step(r) \/ ThrowInside(r) \/ ThrowOutside(r) \/ Crash(r)
  PROVE  TierInv'
<1> USE DEF envVars, storeVars, dataVars, ledgerVars, planVars
<1>1. CASE LookUpPlans(r)
  <2>1. tier' = [tier EXCEPT ![r] = plan] /\ UNCHANGED <<plan, everFree, pruned>>
    BY <1>1 DEF LookUpPlans, Fault
  <2>2. \A q \in Run : pc'[q] \in PlannedPc => q = r \/ pc[q] \in PlannedPc
    BY <1>1 DEF LookUpPlans, TypeOK, WorkType
  <2>3. \A q \in Run : tier'[q] = IF q = r THEN plan ELSE tier[q]
    BY <2>1 DEF TypeOK, PlanType
  <2> QED
    BY <2>1, <2>2, <2>3 DEF TierInv, ProNeverPruned
<1>2. CASE DeleteBatch(r)
  <2>1. PICK gone \in SUBSET HotOf(cur[r]) :
          pruned' = IF Free(r, cur[r]) THEN pruned \cup gone ELSE pruned
    BY <1>2 DEF DeleteBatch
  <2>2. \A e \in gone : PartOf[e] = cur[r]
    BY <2>1 DEF HotOf, Rows
  <2>3. ProjectOf[cur[r]] \in Project
    BY DataAssumption DEF DataAssumption, TypeOK, WorkType
  <2>4. Free(r, cur[r]) => ProjectOf[cur[r]] \in everFree
    BY <1>2, <2>3 DEF DeleteBatch, TierInv, PlannedPc, WorkPc, Free
  <2>5. UNCHANGED <<tier, plan, everFree>>
    BY <1>2 DEF DeleteBatch, Goto
  <2>6. ProNeverPruned'
    BY <2>1, <2>2, <2>4, <2>5 DEF TierInv, ProNeverPruned
  <2>7. \A q \in Run : pc'[q] \in PlannedPc => pc[q] \in PlannedPc
    BY <1>2 DEF DeleteBatch, Goto, TypeOK, WorkType, PlannedPc, WorkPc
  <2> QED
    BY <2>5, <2>6, <2>7 DEF TierInv
<1>3. CASE Finish(r) \/ ThrowOutside(r) \/ Crash(r)
  BY <1>3, TierForgotten DEF Finish, ThrowOutside, Crash
<1>4. CASE ListAged(r) \/ ListLedger(r)
  BY <1>4, TierKept DEF ListAged, ListLedger, PlannedPc, WorkPc
<1>5. ASSUME NEW p \in Partition,
             SkipInGrace(r, p) \/ ClaimInsert(r, p) \/ ClaimConflict(r, p)
      PROVE TierInv'
  <2>1. CASE SkipInGrace(r, p)
    BY <2>1 DEF SkipInGrace, TakeNext, TierInv, ProNeverPruned
  <2>2. CASE ClaimInsert(r, p)
    BY <2>2, TierKept DEF ClaimInsert, IsNext, TakeNext, PlannedPc, WorkPc
  <2>3. CASE ClaimConflict(r, p)
    BY <2>3, TierKept DEF ClaimConflict, IsNext, TakeNext, PlannedPc, WorkPc
  <2> QED
    BY <1>5, <2>1, <2>2, <2>3
<1>6. CASE Reclaim(r) \/ ReadBack(r) \/ AssertClaimed(r)
  BY <1>6, TierKept DEF Reclaim, ReadBack, AssertClaimed, Goto, Return, PlannedPc, WorkPc
<1>7. CASE StagePage(r) \/ MarkEmpty(r) \/ Copy(r) \/ Verify(r)
  <2>1. /\ pc[r] \in PlannedPc /\ UNCHANGED <<tier, plan, everFree, pruned>>
        /\ \E at \in PlannedPc : pc' = [pc EXCEPT ![r] = at]
    BY <1>7 DEF StagePage, MarkEmpty, Copy, Verify, Mark, Goto, Return, PlannedPc, WorkPc
  <2> QED
    BY <2>1, TierKept
<1>8. CASE MarkVerified(r) \/ Release(r) \/ MarkDone(r) \/ MarkFailed(r)
  <2>1. /\ pc[r] \in PlannedPc /\ UNCHANGED <<tier, plan, everFree, pruned>>
        /\ \E at \in PlannedPc : pc' = [pc EXCEPT ![r] = at]
    BY <1>8 DEF MarkVerified, Release, MarkDone, MarkFailed, Mark, Goto, Return,
       PlannedPc, WorkPc
  <2> QED
    BY <2>1, TierKept
<1>9. CASE CountDay(r) \/ More(r) \/ ThrowInside(r)
  <2>1. /\ pc[r] \in PlannedPc /\ UNCHANGED <<tier, plan, everFree, pruned>>
        /\ \E at \in PlannedPc : pc' = [pc EXCEPT ![r] = at]
    BY <1>9 DEF CountDay, More, ThrowInside, Goto, PlannedPc, WorkPc
  <2> QED
    BY <2>1, TierKept
<1> QED
  BY <1>1, <1>2, <1>3, <1>4, <1>5, <1>6, <1>7, <1>8, <1>9 DEF Step

LEMMA TierInductive ==
  "billing" \notin Faults /\ TypeOK /\ TierInv /\ [Next]_vars => TierInv'
<1> SUFFICES ASSUME "billing" \notin Faults, TypeOK, TierInv, [Next]_vars PROVE TierInv'
  OBVIOUS
<1> USE DEF runVars, planVars, storeVars, dataVars, ledgerVars
<1>1. CASE Tick \/ EnableDeletion
  BY <1>1 DEF Tick, EnableDeletion, TierInv, ProNeverPruned
<1>2. ASSUME NEW j \in Project, ChangePlan(j) PROVE TierInv'
  BY <1>2 DEF ChangePlan, TierInv, ProNeverPruned, TypeOK, WorldType
<1>3. ASSUME NEW e \in Entry, Ingest(e) PROVE TierInv'
  BY <1>3 DEF Ingest, envVars, TierInv, ProNeverPruned
<1>4. ASSUME NEW p \in Partition, ClaimAges(p) PROVE TierInv'
  BY <1>4 DEF ClaimAges, envVars, TierInv, ProNeverPruned
<1>5. CASE UNCHANGED vars
  BY <1>5 DEF vars, envVars, TierInv, ProNeverPruned
<1> QED
  BY <1>1, <1>2, <1>3, <1>4, <1>5, TierStep DEF Next, Environment

\* plan.ts:22-25 (ProNeverPruned).  Without a billing lookup that throws, and
\* with every other fault, any number of runs and changing plans, no row of a
\* project that never was free is deleted unarchived.
THEOREM ProIsNeverPruned ==
  ASSUME "billing" \notin Faults PROVE Spec => []ProNeverPruned
<1>1. Init => TierInv
  BY DEF Init, TierInv, ProNeverPruned, PlannedPc, WorkPc
<1>2. TypeOK /\ TierInv /\ [Next]_vars => TierInv'
  BY TierInductive
<1>3. TierInv => ProNeverPruned
  BY DEF TierInv
<1> QED
  BY <1>1, <1>2, <1>3, TypeCorrect, PTL DEF Spec

-----------------------------------------------------------------------------
(* What a query finds of a day nobody is at work on.                         *)

\* A verified day is whole unless its rows are just being deleted, and an
\* archived day names its object, if there is anything in it.
VisibleOf(p) ==
  /\ status[p] = "verified" =>
       /\ p \in path
       /\ Whole(p) \/ \E r \in Run : pc[r] \in WorkPc /\ cur[r] = p
  /\ status[p] = "deleted" => p \in path \/ accepted \cap Rows(p) \subseteq pruned
VisInv == \A p \in Partition : VisibleOf(p)

LEMMA VisFrame ==
  ASSUME NEW p \in Partition, VisibleOf(p),
         status'[p] = status[p], p \in path => p \in path',
         accepted' \cap Rows(p) = accepted \cap Rows(p), pruned \subseteq pruned',
         Whole(p) => Whole(p)',
         \A q \in Run : pc[q] \in WorkPc /\ cur[q] = p =>
           (pc'[q] \in WorkPc /\ cur'[q] = p) \/ status[p] # "verified" \/ Whole(p)
  PROVE  VisibleOf(p)'
  BY DEF VisibleOf, Rows

\* A step of r that leaves the rows and the ledger alone, and a partition only
\* when it is whole or not verified.
LEMMA VisQuiet ==
  ASSUME IInv, VisInv, NEW r \in Run, OthersKeep(r),
         UNCHANGED <<status, path, hot, accepted, pruned>>,
         pc[r] \in WorkPc =>
           \/ pc'[r] \in WorkPc /\ cur'[r] = cur[r]
           \/ status[cur[r]] # "verified"
           \/ Whole(cur[r])
  PROVE  VisInv'
<1> SUFFICES ASSUME NEW p \in Partition PROVE VisibleOf(p)'
  BY DEF VisInv
<1>1. VisibleOf(p) /\ (Whole(p) => Whole(p)')
  BY DEF VisInv, Whole, Rows
<1>2. \A q \in Run : pc[q] \in WorkPc /\ cur[q] = p =>
        (pc'[q] \in WorkPc /\ cur'[q] = p) \/ status[p] # "verified" \/ Whole(p)
  BY DEF OthersKeep
<1> QED
  BY <1>1, <1>2, VisFrame

\* A step of r that writes the ledger row of p, which no other run works on.
LEMMA VisWrite ==
  ASSUME IInv, VisInv, NEW r \in Run, NEW p \in Partition, OthersKeep(r),
         pc[r] \in WorkPc => cur[r] = p,
         \A q \in Partition \ {p} : status'[q] = status[q] /\ (q \in path => q \in path'),
         UNCHANGED <<hot, accepted, pruned>>, VisibleOf(p)'
  PROVE  VisInv'
<1> SUFFICES ASSUME NEW q \in Partition, q # p PROVE VisibleOf(q)'
  BY DEF VisInv
<1>1. VisibleOf(q) /\ (Whole(q) => Whole(q)')
  BY DEF VisInv, Whole, Rows
<1>2. \A n \in Run : pc[n] \in WorkPc /\ cur[n] = q => pc'[n] \in WorkPc /\ cur'[n] = q
  BY DEF OthersKeep
<1> QED
  BY <1>1, <1>2, VisFrame

LEMMA VisMarkStep ==
  ASSUME Tolerated, IInv, VisInv, NEW r \in Run,
         MarkEmpty(r) \/ MarkVerified(r) \/ Release(r) \/ MarkDone(r) \/ MarkFailed(r)
  PROVE  VisInv'
<1>0. PICK p \in Partition : p = cur[r]
  BY DEF IInv, TypeOK, WorkType
<1>1. /\ OthersKeep(r) /\ p = cur[r] /\ pc[r] \in WorkPc
      /\ status \in [Partition -> Status]
  BY <1>0 DEF MarkEmpty, MarkVerified, Release, MarkDone, MarkFailed, Goto, Return, planVars,
         workVars, OthersKeep, WorkPc, IInv, TypeOK, WorkType, PlanType, LedgerType
<1>2. ClaimOf(r) /\ ProgressOf(r) /\ StoreOf(p) /\ VisibleOf(p)
  BY <1>1 DEF IInv, ClaimInv, ProgressInv, StoreInv, VisInv
<1>3. status[p] # "none" /\ (status[p] = "exporting" => Whole(p))
  BY <1>1, <1>2 DEF ClaimOf, StoreOf
<1>4. CASE MarkEmpty(r)
  <2>1. /\ status' = [status EXCEPT ![p] = "deleted"] /\ path' = path \ {p}
        /\ UNCHANGED <<hot, accepted, pruned>>
    BY <1>1, <1>3, <1>4 DEF MarkEmpty, Mark, dataVars
  <2>2. Whole(p) /\ HotOf(p) = {}
    BY <1>1, <1>2, <1>3, <1>4 DEF MarkEmpty, ClaimOf, ProgressOf, WorkPc, Trimming, DeletePc
  <2>3. accepted \cap Rows(p) \subseteq pruned
    BY <1>1, <2>2 DEF Whole, HotOf
  <2>4. VisibleOf(p)'
    BY <1>1, <2>1, <2>3 DEF VisibleOf, Rows
  <2> QED
    BY <1>1, <2>1, <2>4, VisWrite
<1>5. CASE MarkVerified(r)
  <2>1. /\ status' = [status EXCEPT ![p] = "verified"] /\ path' = path \cup {p}
        /\ UNCHANGED <<hot, accepted, pruned>>
    BY <1>1, <1>3, <1>5 DEF MarkVerified, Mark, dataVars
  <2>2. Whole(p)
    BY <1>1, <1>2, <1>3, <1>5 DEF MarkVerified, ClaimOf, WorkPc, Trimming, DeletePc
  <2>3. VisibleOf(p)'
    BY <1>1, <2>1, <2>2 DEF VisibleOf, Whole, Rows
  <2> QED
    BY <1>1, <2>1, <2>3, VisWrite
<1>6. CASE Release(r)
  <2>1. UNCHANGED <<status, path, hot, accepted, pruned>>
    BY <1>1, <1>3, <1>6 DEF Release, Mark, dataVars
  <2>2. Whole(p)
    BY <1>1, <1>2, <1>6 DEF Release, ProgressOf
  <2> QED
    BY <1>1, <2>1, <2>2, VisQuiet
<1>7. CASE MarkDone(r)
  <2>1. CASE Free(r, p)
    <3>1. /\ status' = [status EXCEPT ![p] = "pruned"] /\ path' = path \ {p}
          /\ UNCHANGED <<hot, accepted, pruned>>
      BY <1>1, <1>3, <1>7, <2>1 DEF MarkDone, Mark, dataVars
    <3> QED
      BY <1>1, <3>1, VisWrite DEF VisibleOf
  <2>2. CASE ~Free(r, p)
    <3>1. /\ status' = [status EXCEPT ![p] = "deleted"] /\ path' = path
          /\ UNCHANGED <<hot, accepted, pruned>>
      BY <1>1, <1>3, <1>7, <2>2 DEF MarkDone, Mark, dataVars
    <3>2. p \in path
      BY <1>1, <1>2, <1>7, <2>2 DEF MarkDone, ClaimOf, Trimming, DeletePc, VisibleOf
    <3>3. VisibleOf(p)'
      BY <1>1, <3>1, <3>2 DEF VisibleOf
    <3> QED
      BY <1>1, <3>1, <3>3, VisWrite
  <2> QED
    BY <2>1, <2>2
<1>8. CASE MarkFailed(r)
  <2>1. /\ status' = [status EXCEPT ![p] = "failed"] /\ path' = path
        /\ UNCHANGED <<hot, accepted, pruned>>
    BY <1>1, <1>3, <1>8 DEF MarkFailed, Mark, dataVars
  <2>2. VisibleOf(p)'
    BY <1>1, <2>1 DEF VisibleOf
  <2> QED
    BY <1>1, <2>1, <2>2, VisWrite
<1> QED
  BY <1>4, <1>5, <1>6, <1>7, <1>8

LEMMA VisClaimStep ==
  ASSUME IInv, VisInv, NEW r \in Run,
         (\E p \in Partition : ClaimInsert(r, p)) \/ Reclaim(r)
  PROVE  VisInv'
<1>1. pc[r] \notin WorkPc /\ status \in [Partition -> Status] /\ cur[r] \in Partition
  BY DEF ClaimInsert, IsNext, Reclaim, WorkPc, IInv, TypeOK, LedgerType, WorkType
<1>2. ASSUME NEW p \in Partition, ClaimInsert(r, p) PROVE VisInv'
  <2>1. /\ status' = [status EXCEPT ![p] = "exporting"] /\ path' = path \ {p}
        /\ UNCHANGED <<hot, accepted, pruned>>
    BY <1>2 DEF ClaimInsert, dataVars
  <2>2. OthersKeep(r)
    BY <1>2 DEF ClaimInsert, TakeNext, OthersKeep, workVars, IInv, TypeOK, WorkType, PlanType
  <2>3. VisibleOf(p)'
    BY <1>1, <2>1 DEF VisibleOf
  <2> QED
    BY <1>1, <2>1, <2>2, <2>3, VisWrite
<1>3. CASE Reclaim(r)
  <2>1. OthersKeep(r) /\ UNCHANGED <<path, hot, accepted, pruned>>
    BY <1>3 DEF Reclaim, OthersKeep, planVars, workVars, dataVars, IInv, TypeOK, WorkType
  <2>2. CASE Reclaimable(cur[r])
    <3>1. PICK p \in Partition : p = cur[r]
      BY <1>1
    <3>2. status' = [status EXCEPT ![p] = "exporting"]
      BY <1>3, <2>2, <3>1 DEF Reclaim
    <3>3. VisibleOf(p)'
      BY <1>1, <3>2 DEF VisibleOf
    <3> QED
      BY <1>1, <2>1, <3>2, <3>3, VisWrite
  <2>3. CASE ~Reclaimable(cur[r])
    <3>1. UNCHANGED status
      BY <1>3, <2>3 DEF Reclaim
    <3> QED
      BY <1>1, <2>1, <3>1, VisQuiet
  <2> QED
    BY <2>2, <2>3
<1> QED
  BY <1>2, <1>3

LEMMA VisDeleteStep ==
  ASSUME IInv, VisInv, NEW r \in Run, DeleteBatch(r)
  PROVE  VisInv'
<1>1. /\ OthersKeep(r) /\ pc[r] \in WorkPc /\ pc'[r] \in WorkPc /\ cur'[r] = cur[r]
      /\ UNCHANGED <<status, path, accepted>>
  BY DEF DeleteBatch, Goto, OthersKeep, planVars, ledgerVars, WorkPc,
         IInv, TypeOK, WorkType
<1>2. PICK gone \in SUBSET HotOf(cur[r]) :
        /\ hot' = hot \ gone
        /\ pruned' = IF Free(r, cur[r]) THEN pruned \cup gone ELSE pruned
  BY DEF DeleteBatch
<1> SUFFICES ASSUME NEW p \in Partition PROVE VisibleOf(p)'
  BY DEF VisInv
<1>3. VisibleOf(p) /\ pruned \subseteq pruned'
  BY <1>2 DEF VisInv
<1>4. CASE p = cur[r]
  BY <1>1, <1>3, <1>4 DEF VisibleOf, Rows
<1>5. CASE p # cur[r]
  <2>1. hot' \cap Rows(p) = hot \cap Rows(p)
    BY <1>2, <1>5 DEF HotOf, Rows
  <2>2. Whole(p) => Whole(p)'
    BY <1>1, <1>3, <2>1 DEF Whole, Rows
  <2>3. \A q \in Run : pc[q] \in WorkPc /\ cur[q] = p => pc'[q] \in WorkPc /\ cur'[q] = p
    BY <1>1, <1>5 DEF OthersKeep
  <2>4. status'[p] = status[p] /\ path' = path /\ accepted' \cap Rows(p) = accepted \cap Rows(p)
    BY <1>1
  <2> QED
    BY <1>3, <2>2, <2>3, <2>4, VisFrame
<1> QED
  BY <1>4, <1>5

LEMMA VisRunStep ==
  ASSUME Tolerated, "crash" \notin Faults, IInv, VisInv, NEW r \in Run,
         ListAged(r) \/ Step(r) \/ ThrowInside(r) \/ ThrowOutside(r) \/ Crash(r)
  PROVE  VisInv'
<1> USE DEF storeVars, dataVars, ledgerVars, planVars, workVars
<1>1. CASE ListAged(r) \/ ListLedger(r) \/ LookUpPlans(r) \/ Finish(r)
           \/ (\E p \in Partition : SkipInGrace(r, p) \/ ClaimConflict(r, p))
  <2>1. /\ pc[r] \notin WorkPc /\ OthersKeep(r)
        /\ UNCHANGED <<status, path, hot, accepted, pruned>>
    BY <1>1 DEF ListAged, ListLedger, LookUpPlans, Finish, Forget, SkipInGrace,
       ClaimConflict, IsNext, TakeNext, OthersKeep, WorkPc, IInv, TypeOK, WorkType, PlanType
  <2> QED
    BY <2>1, VisQuiet
<1>2. CASE ReadBack(r)
  <2>1. /\ pc[r] \notin WorkPc /\ OthersKeep(r)
        /\ UNCHANGED <<status, path, hot, accepted, pruned>>
    BY <1>2 DEF ReadBack, Goto, Return, OthersKeep, WorkPc, IInv, TypeOK, WorkType, PlanType
  <2> QED
    BY <2>1, VisQuiet
<1>3. CASE AssertClaimed(r)
  <2>1. OthersKeep(r) /\ UNCHANGED <<status, path, hot, accepted, pruned>>
    BY <1>3 DEF AssertClaimed, Goto, Return, OthersKeep, IInv, TypeOK, WorkType, PlanType
  <2>2. status[cur[r]] # "verified"
    BY <1>3 DEF AssertClaimed, IInv, ClaimInv, ClaimOf, WorkPc, Trimming, DeletePc
  <2> QED
    BY <2>1, <2>2, VisQuiet
<1>4. CASE StagePage(r) \/ Copy(r) \/ Verify(r) \/ CountDay(r) \/ More(r) \/ ThrowInside(r)
  <2>1. /\ OthersKeep(r) /\ pc'[r] \in WorkPc /\ cur'[r] = cur[r]
        /\ UNCHANGED <<status, path, hot, accepted, pruned>>
    BY <1>4 DEF StagePage, Copy, Verify, CountDay, More, ThrowInside, Goto, OthersKeep,
       WorkPc, IInv, TypeOK, WorkType, PlanType
  <2> QED
    BY <2>1, VisQuiet
<1>5. CASE ThrowOutside(r)
  <2>1. OthersKeep(r) /\ UNCHANGED <<status, path, hot, accepted, pruned>>
    BY <1>5 DEF ThrowOutside, Forget, OthersKeep, IInv, TypeOK, WorkType, PlanType
  <2>2. ClaimOf(r) /\ ProgressOf(r)
    BY DEF IInv, ClaimInv, ProgressInv
  <2>3. pc[r] \in WorkPc => status[cur[r]] # "verified" \/ Whole(cur[r])
    BY <1>5, <2>2 DEF ThrowOutside, ClaimOf, ProgressOf, WorkPc, Trimming, DeletePc
  <2> QED
    BY <2>1, <2>3, VisQuiet
<1>6. CASE Crash(r)
  BY <1>6 DEF Crash, Fault
<1> QED
  BY <1>1, <1>2, <1>3, <1>4, <1>5, <1>6, VisMarkStep, VisClaimStep, VisDeleteStep DEF Step

LEMMA VisInductive ==
  Tolerated /\ "crash" \notin Faults /\ IInv /\ VisInv /\ [Next]_vars => VisInv'
<1> SUFFICES ASSUME Tolerated, "crash" \notin Faults, IInv, VisInv, [Next]_vars PROVE VisInv'
  OBVIOUS
<1> USE DEF storeVars, dataVars, ledgerVars, runVars
<1>1. CASE Tick \/ EnableDeletion \/ (\E j \in Project : ChangePlan(j))
           \/ (\E p \in Partition : ClaimAges(p)) \/ UNCHANGED vars
  <2>1. UNCHANGED <<status, path, hot, accepted, pruned, pc, cur>>
    BY <1>1 DEF Tick, EnableDeletion, ChangePlan, ClaimAges, vars
  <2> QED
    BY <2>1 DEF VisInv, VisibleOf, Whole, Rows
<1>2. ASSUME NEW e \in Entry, Ingest(e) PROVE VisInv'
  <2> SUFFICES ASSUME NEW p \in Partition PROVE VisibleOf(p)'
    BY DEF VisInv
  <2>1. /\ DayOf[PartOf[e]] = today /\ hot' = hot \cup {e} /\ accepted' = accepted \cup {e}
        /\ UNCHANGED <<status, path, pruned, pc, cur>>
    BY <1>2 DEF Ingest, Tolerated
  <2>2. VisibleOf(p)
    BY DEF VisInv
  <2>3. CASE status[p] = "none"
    BY <2>1, <2>3 DEF VisibleOf
  <2>4. CASE status[p] # "none"
    <3>1. e \notin Rows(p)
      BY <2>1, <2>4, BoundAssumption
      DEF IInv, AgedInv, Aged, Rows, BoundAssumption, TypeOK, WorldType
    <3>2. accepted' \cap Rows(p) = accepted \cap Rows(p)
      BY <2>1, <3>1
    <3> QED
      BY <2>1, <2>2, <3>2, VisFrame DEF Whole, Rows
  <2> QED
    BY <2>3, <2>4
<1> QED
  BY <1>1, <1>2, VisRunStep DEF Next, Environment

LEMMA VisSettled == IInv /\ VisInv => SettledDayVisible
<1> SUFFICES ASSUME IInv, VisInv, NEW e \in accepted \ pruned,
                    \A r \in Run : pc[r] \in WorkPc => cur[r] # PartOf[e]
             PROVE  e \in hot \cup Served
  BY DEF SettledDayVisible
<1>1. e \in Entry /\ PartOf[e] \in Partition /\ e \in Rows(PartOf[e])
  BY DataAssumption DEF DataAssumption, IInv, TypeOK, DataType, Rows
<1>2. StoreOf(PartOf[e]) /\ VisibleOf(PartOf[e])
  BY <1>1 DEF IInv, StoreInv, VisInv
<1>3. CASE status[PartOf[e]] = "deleted"
  BY <1>1, <1>2, <1>3 DEF StoreOf, VisibleOf, HotOf, Served, Archived
<1>4. CASE status[PartOf[e]] # "deleted"
  BY <1>1, <1>2, <1>4 DEF StoreOf, VisibleOf, Whole
<1> QED
  BY <1>3, <1>4

\* query.ts:4-8 (SettledDayVisible).  Short of a crash and of the faults
\* Tolerated names, every row of a day nobody is at work on is found by a query,
\* for any number of runs, days, failures and retries.
THEOREM SettledDaysAreVisible ==
  ASSUME Tolerated, "crash" \notin Faults PROVE Spec => []SettledDayVisible
<1>1. Init => VisInv
  BY DEF Init, VisInv, VisibleOf
<1>2. IInv /\ VisInv /\ [Next]_vars => VisInv'
  BY VisInductive
<1> QED
  BY <1>1, <1>2, VisSettled, Inductive, PTL DEF Spec

-----------------------------------------------------------------------------
(* The refinement: what the archive promises of an entry.                    *)

\* A run that prunes found the day past its grace when it started; what was
\* pruned is gone, and was there.
GraceOf(r) ==
  pc[r] \in BusyPc /\ Free(r, cur[r]) => DayOf[cur[r]] < now[r] - (HotWindow + Grace)
GraceInv == \A r \in Run : GraceOf(r)
PrunedInv == pruned \cap hot = {} /\ pruned \subseteq accepted

\* A step of a run that stays with its partition.
LEMMA GraceKept ==
  ASSUME TypeOK, GraceInv, NEW r \in Run, NEW at,
         pc' = [pc EXCEPT ![r] = at], at \in BusyPc => pc[r] \in BusyPc,
         UNCHANGED <<cur, tier, now>>
  PROVE  GraceInv'
<1>1. \A q \in Run : pc'[q] \in BusyPc => pc[q] \in BusyPc
  BY DEF TypeOK, WorkType
<1> QED
  BY <1>1 DEF GraceInv, GraceOf, Free

\* A step of a run that leaves its partition, or has none.
LEMMA GraceLeft ==
  ASSUME TypeOK, GraceInv, NEW r \in Run, pc'[r] \notin BusyPc,
         \A q \in Run \ {r} : /\ pc'[q] = pc[q] /\ cur'[q] = cur[q]
                              /\ tier'[q] = tier[q] /\ now'[q] = now[q]
  PROVE  GraceInv'
  BY DEF GraceInv, GraceOf, Free

LEMMA GraceStep ==
  ASSUME TypeOK, GraceInv, NEW r \in Run,
         ListAged(r) \/ Step(r) \/ ThrowInside(r) \/ ThrowOutside(r) \/ Crash(r)
  PROVE  GraceInv'
<1> USE DEF planVars
<1>1. CASE Finish(r) \/ ThrowOutside(r) \/ Crash(r)
  <2>1. Forget(r)
    BY <1>1 DEF Finish, ThrowOutside, Crash
  <2> QED
    BY <2>1, GraceLeft DEF Forget, TypeOK, WorkType, PlanType, BusyPc, WorkPc
<1>2. CASE ListAged(r) \/ ListLedger(r) \/ LookUpPlans(r)
  BY <1>2, GraceLeft DEF ListAged, ListLedger, LookUpPlans, TypeOK, WorkType, PlanType, BusyPc, WorkPc
<1>3. ASSUME NEW p \in Partition,
             SkipInGrace(r, p) \/ ClaimInsert(r, p) \/ ClaimConflict(r, p)
      PROVE GraceInv'
  <2>1. CASE SkipInGrace(r, p)
    BY <2>1 DEF SkipInGrace, TakeNext, GraceInv, GraceOf, Free
  <2>2. CASE ClaimInsert(r, p) \/ ClaimConflict(r, p)
    <3>1. /\ ~InGrace(r, p) /\ UNCHANGED <<tier, now>>
          /\ cur' = [cur EXCEPT ![r] = p] /\ \E at : pc' = [pc EXCEPT ![r] = at]
      BY <2>2 DEF ClaimInsert, ClaimConflict, TakeNext
    <3>2. cur'[r] = p /\ \A q \in Run \ {r} : cur'[q] = cur[q] /\ pc'[q] = pc[q]
      BY <3>1 DEF TypeOK, WorkType
    <3>3. Free(r, p) => DayOf[p] < now[r] - (HotWindow + Grace)
      BY <3>1, DataAssumption, BoundAssumption
      DEF InGrace, DataAssumption, BoundAssumption, TypeOK, PlanType
    <3> QED
      BY <3>1, <3>2, <3>3 DEF GraceInv, GraceOf, Free
  <2> QED
    BY <1>3, <2>1, <2>2
<1>4. CASE Reclaim(r) \/ StagePage(r) \/ Copy(r) \/ Verify(r) \/ MarkVerified(r)
  <2>1. /\ pc[r] \in BusyPc /\ UNCHANGED <<cur, tier, now>>
        /\ \E at : pc' = [pc EXCEPT ![r] = at]
    BY <1>4 DEF Reclaim, StagePage, Copy, Verify, MarkVerified, Goto, BusyPc, WorkPc
  <2> QED
    BY <2>1, GraceKept
<1>5. CASE CountDay(r) \/ DeleteBatch(r) \/ More(r) \/ ThrowInside(r)
  <2>1. /\ pc[r] \in BusyPc /\ UNCHANGED <<cur, tier, now>>
        /\ \E at : pc' = [pc EXCEPT ![r] = at]
    BY <1>5 DEF CountDay, DeleteBatch, More, ThrowInside, Goto, BusyPc, WorkPc
  <2> QED
    BY <2>1, GraceKept
<1>6. CASE ReadBack(r) \/ AssertClaimed(r)
  <2>1. CASE Return(r)
    BY <2>1, GraceLeft DEF Return, TypeOK, WorkType, BusyPc, WorkPc
  <2>2. CASE ~Return(r)
    <3>1. /\ pc[r] \in BusyPc /\ UNCHANGED <<cur, tier, now>>
          /\ \E at : pc' = [pc EXCEPT ![r] = at]
      BY <1>6, <2>2 DEF ReadBack, AssertClaimed, Goto, BusyPc, WorkPc
    <3> QED
      BY <3>1, GraceKept
  <2> QED
    BY <2>1, <2>2
<1>7. CASE MarkEmpty(r) \/ Release(r) \/ MarkDone(r) \/ MarkFailed(r)
  <2>1. Return(r)
    BY <1>7 DEF MarkEmpty, Release, MarkDone, MarkFailed
  <2> QED
    BY <2>1, GraceLeft DEF Return, TypeOK, WorkType, BusyPc, WorkPc
<1> QED
  BY <1>1, <1>2, <1>3, <1>4, <1>5, <1>6, <1>7 DEF Step

\* What no step but Ingest, Copy and DeleteBatch writes.
Contents == <<hot, accepted, pruned, object>>

\* A step that leaves the rows alone lets time pass or a plan lapse, at most.
LEMMA StillRefines ==
  ASSUME TypeOK, UNCHANGED Contents, today' \in Nat, today <= today', everFree \subseteq everFree'
  PROVE  [Retention!Next]_<<Tiers, Protected>>
<1>1. Tiers' = Tiers
  BY DEF Tiers, TierOf, Archived, Contents
<1>2. Protected' \subseteq Protected
  <2>1. SUFFICES ASSUME NEW e \in Protected' PROVE e \in Protected
    OBVIOUS
  <2>2. e \in Entry /\ DayOf[PartOf[e]] \in Nat /\ today \in Nat
    BY DataAssumption DEF DataAssumption, Protected, TypeOK, WorldType
  <2> QED
    BY <2>2, BoundAssumption DEF BoundAssumption, Protected
<1>3. Retention!Unprotect
  BY <1>1, <1>2 DEF Retention!Unprotect
<1> QED
  BY <1>3 DEF Retention!Next

\* Rows of one tier that come into another, as the promise has it.
LEMMA MoveRefines ==
  ASSUME NEW S \in SUBSET Entry, NEW from, NEW to,
         \A e \in S : TierOf(e) = from /\ TierOf(e)' = to,
         \A e \in Entry \ S : TierOf(e)' = TierOf(e),
         UNCHANGED Protected, S # {}
  PROVE  Retention!Move(S, from, to)
<1>1. Tiers' = [e \in Entry |-> IF e \in S THEN to ELSE Tiers[e]]
  BY DEF Tiers
<1>2. \A e \in S : Tiers[e] = from
  BY DEF Tiers
<1> QED
  BY <1>1, <1>2 DEF Retention!Move

LEMMA IngestRefines ==
  ASSUME IInv, PrunedInv, NEW e \in Entry, Ingest(e)
  PROVE  Retention!Accept(e) /\ PrunedInv'
<1>1. /\ hot' = hot \cup {e} /\ accepted' = accepted \cup {e} /\ e \notin accepted
      /\ UNCHANGED <<object, pruned, today, everFree>>
  BY DEF Ingest, envVars
<1>2. PrunedInv'
  BY <1>1 DEF PrunedInv
<1>3. TierOf(e) = "none" /\ TierOf(e)' = "hot"
  BY <1>1 DEF TierOf, PrunedInv, IInv, StoreInv
<1>4. \A f \in Entry \ {e} : TierOf(f)' = TierOf(f)
  BY <1>1 DEF TierOf, Archived
<1>5. UNCHANGED Protected
  BY <1>1 DEF Protected
<1>6. Retention!Move({e}, "none", "hot")
  BY <1>3, <1>4, <1>5, MoveRefines
<1> QED
  BY <1>2, <1>6 DEF Retention!Accept

\* While a day is copied all its rows are hot, but for those pruned before.
LEMMA CopyRefines ==
  ASSUME Tolerated, IInv, PrunedInv, NEW r \in Run, Copy(r)
  PROVE  Tiers' = Tiers /\ Protected' = Protected /\ PrunedInv'
<1> DEFINE p == cur[r]
<1>1. /\ pc[r] = "copy" /\ p \in Partition
      /\ UNCHANGED <<hot, accepted, pruned, today, everFree>>
      /\ \A q \in Partition \ {p} : object'[q] = object[q]
  BY DEF Copy, envVars, IInv, TypeOK, WorkType, DataType
<1>2. Whole(p)
  <2>1. ClaimOf(r) /\ StoreOf(p)
    BY <1>1 DEF IInv, ClaimInv, StoreInv
  <2> QED
    BY <1>1, <2>1 DEF ClaimOf, StoreOf, Trimming, WorkPc, DeletePc
<1>3. ASSUME NEW e \in Entry PROVE TierOf(e)' = TierOf(e)
  <2>1. PartOf[e] \in Partition
    BY DataAssumption DEF DataAssumption
  <2>2. CASE PartOf[e] = p
    BY <1>1, <1>2, <2>2 DEF TierOf, Whole, Rows
  <2>3. CASE PartOf[e] # p
    BY <1>1, <2>1, <2>3 DEF TierOf, Archived
  <2> QED
    BY <2>2, <2>3
<1>4. Tiers' = Tiers
  BY <1>3 DEF Tiers
<1> QED
  BY <1>1, <1>4 DEF Protected, PrunedInv

\* A batch is archived already, or may be dropped.
LEMMA DeleteRefines ==
  ASSUME Tolerated, IInv, TierInv, GraceInv, PrunedInv, NEW r \in Run, DeleteBatch(r)
  PROVE  [Retention!Next]_<<Tiers, Protected>> /\ PrunedInv'
<1> DEFINE p == cur[r]
<1>1. PICK gone \in SUBSET HotOf(p) :
        /\ hot' = hot \ gone
        /\ pruned' = IF Free(r, p) THEN pruned \cup gone ELSE pruned
  BY DEF DeleteBatch
<1>2. /\ pc[r] = "batch" /\ p \in Partition /\ ProjectOf[p] \in Project
      /\ UNCHANGED <<object, accepted, today, everFree>>
  BY DataAssumption DEF DataAssumption, DeleteBatch, envVars, IInv, TypeOK, WorkType
<1>3. gone \subseteq Entry /\ gone \subseteq accepted /\ \A e \in gone : PartOf[e] = p /\ e \in hot
  BY <1>1 DEF HotOf, Rows, IInv, StoreInv
<1>4. PrunedInv'
  BY <1>1, <1>2, <1>3 DEF PrunedInv
<1>5. UNCHANGED Protected
  BY <1>2 DEF Protected
<1>6. \A e \in gone : TierOf(e) = "hot"
  BY <1>3 DEF TierOf
<1>7. \A e \in Entry \ gone : TierOf(e)' = TierOf(e)
  BY <1>1, <1>2 DEF TierOf, Archived
<1>8. CASE gone = {}
  <2>1. Tiers' = Tiers
    BY <1>7, <1>8 DEF Tiers
  <2> QED
    BY <1>4, <1>5, <2>1
<1>9. CASE gone # {} /\ ~Free(r, p)
  <2>1. HotOf(p) \subseteq object[p]
    BY <1>2, <1>9 DEF IInv, ProgressInv, ProgressOf, Trimming, DeletePc
  <2>2. \A e \in gone : TierOf(e)' = "archived"
    BY <1>1, <1>2, <1>3, <1>9, <2>1 DEF TierOf, Archived, PrunedInv
  <2>3. Retention!Archive(gone)
    BY <1>3, <1>5, <1>6, <1>7, <1>9, <2>2, MoveRefines DEF Retention!Archive
  <2> QED
    BY <1>3, <1>4, <2>3 DEF Retention!Next
<1>10. CASE gone # {} /\ Free(r, p)
  <2>1. ProjectOf[p] \in everFree
    BY <1>2, <1>10 DEF TierInv, PlannedPc, WorkPc, Free
  <2>2. DayOf[p] < today - (HotWindow + Grace)
    <3>1. DayOf[p] < now[r] - (HotWindow + Grace) /\ now[r] <= today
      BY <1>2, <1>10 DEF GraceInv, GraceOf, BusyPc, WorkPc, IInv, AgedInv, RunAged
    <3>2. DayOf[p] \in Nat /\ now[r] \in Nat /\ today \in Nat
      BY <1>2, DataAssumption DEF DataAssumption, IInv, TypeOK, WorldType, PlanType
    <3> QED
      BY <3>1, <3>2, BoundAssumption DEF BoundAssumption
  <2>3. DayOf[p] \in Nat /\ today \in Nat
    BY <1>2, DataAssumption DEF DataAssumption, IInv, TypeOK, WorldType
  <2>4. gone \cap Protected = {}
    BY <1>3, <2>1, <2>2, <2>3, BoundAssumption DEF BoundAssumption, Protected
  <2>5. \A e \in gone : TierOf(e)' = "pruned"
    BY <1>1, <1>2, <1>3, <1>10 DEF TierOf
  <2>6. Retention!Drop(gone)
    BY <1>3, <1>5, <1>6, <1>7, <1>10, <2>4, <2>5, MoveRefines DEF Retention!Drop
  <2> QED
    BY <1>3, <1>4, <2>6 DEF Retention!Next
<1> QED
  BY <1>8, <1>9, <1>10

RetInv == IInv /\ TierInv /\ GraceInv /\ PrunedInv

\* What the other steps of a run leave alone.
LEMMA RestStill ==
  ASSUME NEW r \in Run, ~Copy(r), ~DeleteBatch(r),
         ListAged(r) \/ Step(r) \/ ThrowInside(r) \/ ThrowOutside(r) \/ Crash(r)
  PROVE  UNCHANGED <<Contents, today, everFree>>
<1> USE DEF Contents, envVars, storeVars, dataVars
<1>1. CASE ListAged(r) \/ ListLedger(r) \/ LookUpPlans(r) \/ Finish(r)
  BY <1>1 DEF ListAged, ListLedger, LookUpPlans, Finish
<1>2. CASE \E p \in Partition : SkipInGrace(r, p) \/ ClaimInsert(r, p) \/ ClaimConflict(r, p)
  BY <1>2 DEF SkipInGrace, ClaimInsert, ClaimConflict
<1>3. CASE Reclaim(r) \/ ReadBack(r) \/ AssertClaimed(r) \/ StagePage(r)
  BY <1>3 DEF Reclaim, ReadBack, AssertClaimed, StagePage
<1>4. CASE MarkEmpty(r) \/ Verify(r) \/ MarkVerified(r) \/ Release(r)
  BY <1>4 DEF MarkEmpty, Verify, MarkVerified, Release, Mark
<1>5. CASE CountDay(r) \/ More(r) \/ MarkDone(r) \/ MarkFailed(r)
  BY <1>5 DEF CountDay, More, MarkDone, MarkFailed, Mark
<1>6. CASE ThrowInside(r) \/ ThrowOutside(r) \/ Crash(r)
  BY <1>6 DEF ThrowInside, ThrowOutside, Crash
<1> QED
  BY <1>1, <1>2, <1>3, <1>4, <1>5, <1>6 DEF Step

\* Every step is one of the promise's, or none.
LEMMA RetentionStep ==
  ASSUME Tolerated, "billing" \notin Faults, RetInv, TypeOK', [Next]_vars
  PROVE  [Retention!Next]_<<Tiers, Protected>> /\ GraceInv' /\ PrunedInv'
<1> USE DEF RetInv
<1>1. today \in Nat /\ today' \in Nat /\ TypeOK
  BY DEF IInv, TypeOK, WorldType
<1>2. CASE Tick \/ EnableDeletion \/ (\E j \in Project : ChangePlan(j))
           \/ (\E p \in Partition : ClaimAges(p)) \/ UNCHANGED vars
  <2>1. /\ UNCHANGED <<Contents, pc, cur, tier, now>>
        /\ today <= today' /\ everFree \subseteq everFree'
    BY <1>1, <1>2 DEF Tick, EnableDeletion, ChangePlan, ClaimAges, Contents, vars, envVars,
       runVars, planVars, storeVars, dataVars
  <2>2. GraceInv' /\ PrunedInv'
    BY <2>1 DEF GraceInv, GraceOf, Free, PrunedInv, Contents
  <2> QED
    BY <1>1, <2>1, <2>2, StillRefines
<1>3. ASSUME NEW e \in Entry, Ingest(e)
      PROVE [Retention!Next]_<<Tiers, Protected>> /\ GraceInv' /\ PrunedInv'
  <2>1. GraceInv'
    BY <1>3 DEF Ingest, runVars, planVars, GraceInv, GraceOf, Free
  <2> QED
    BY <1>3, <2>1, IngestRefines DEF Retention!Next
<1>4. ASSUME NEW r \in Run,
             ListAged(r) \/ Step(r) \/ ThrowInside(r) \/ ThrowOutside(r) \/ Crash(r)
      PROVE [Retention!Next]_<<Tiers, Protected>> /\ GraceInv' /\ PrunedInv'
  <2>1. GraceInv'
    BY <1>1, <1>4, GraceStep
  <2>2. CASE Copy(r)
    BY <2>1, <2>2, CopyRefines
  <2>3. CASE DeleteBatch(r)
    BY <2>1, <2>3, DeleteRefines
  <2>4. CASE ~Copy(r) /\ ~DeleteBatch(r)
    <3>1. UNCHANGED <<Contents, today, everFree>>
      BY <1>4, <2>4, RestStill
    <3>2. PrunedInv'
      BY <3>1 DEF PrunedInv, Contents
    <3> QED
      BY <1>1, <2>1, <3>1, <3>2, StillRefines
  <2> QED
    BY <2>2, <2>3, <2>4
<1> QED
  BY <1>2, <1>3, <1>4 DEF Next, Environment

\* ARCHIVE.md:8-20 (KeepsRetention).  Short of the faults Tolerated names and a
\* billing lookup that throws, the exporter implements LogRetention, for any
\* number of runs, days, crashes and changing plans.
THEOREM RetentionKept ==
  ASSUME Tolerated, "billing" \notin Faults PROVE Spec => KeepsRetention
<1>1. Init => Retention!Init
  BY DEF Init, Retention!Init, Tiers, TierOf, Protected
<1>2. Init => TierInv /\ GraceInv /\ PrunedInv
  BY DEF Init, TierInv, ProNeverPruned, PlannedPc, WorkPc, GraceInv, GraceOf, BusyPc, PrunedInv
<1>3. RetInv /\ TypeOK' /\ [Next]_vars =>
        [Retention!Next]_<<Tiers, Protected>> /\ GraceInv' /\ PrunedInv'
  BY RetentionStep
<1>4. IInv => TypeOK
  BY DEF IInv
<1>5. TypeOK /\ TierInv /\ [Next]_vars => TierInv'
  BY TierInductive
<1>6. Spec => [][Retention!Next]_<<Tiers, Protected>>
  BY <1>2, <1>3, <1>4, <1>5, Inductive, PTL DEF Spec, RetInv
<1> QED
  BY <1>1, <1>6, PTL DEF Spec, KeepsRetention, Retention!Spec
-----------------------------------------------------------------------------
(* Reading while the exporter runs.                                          *)

\* No run works on a deleted day, and none claims it: what a query is served of
\* it stays.
LEMMA DeletedDaysStay ==
  ASSUME IInv, Next, NEW p \in Partition, status[p] = "deleted"
  PROVE  status'[p] = "deleted" /\ (p \in path => p \in path') /\ object'[p] = object[p]
<1> USE DEF storeVars, dataVars, ledgerVars
<1>0. /\ status \in [Partition -> Status] /\ object \in [Partition -> SUBSET Entry]
      /\ path \subseteq Partition
  BY DEF IInv, TypeOK, LedgerType, DataType
<1>1. CASE Environment
  BY <1>1 DEF Environment, Tick, EnableDeletion, ChangePlan, Ingest, ClaimAges
<1>2. ASSUME NEW r \in Run, pc[r] \in WorkPc PROVE cur[r] \in Partition \ {p}
  BY <1>2 DEF IInv, TypeOK, WorkType, ClaimInv, ClaimOf, WorkPc, Trimming, DeletePc
\* A step of a run writes the row and the object of the partition it works on,
\* or of one it claims, and takes none from the paths but that one.
<1>3. ASSUME NEW r \in Run, ListAged(r) \/ ListLedger(r) \/ LookUpPlans(r) \/ Finish(r)
               \/ (\E q \in Partition : SkipInGrace(r, q) \/ ClaimConflict(r, q))
               \/ ReadBack(r) \/ AssertClaimed(r) \/ StagePage(r) \/ Verify(r) \/ CountDay(r)
               \/ DeleteBatch(r) \/ More(r) \/ ThrowInside(r) \/ ThrowOutside(r) \/ Crash(r)
      PROVE  UNCHANGED <<status, path, object>>
  BY <1>3 DEF ListAged, ListLedger, LookUpPlans, Finish, SkipInGrace, ClaimConflict, ReadBack,
     AssertClaimed, StagePage, Verify, CountDay, DeleteBatch, More, ThrowInside, ThrowOutside, Crash
<1>4. ASSUME NEW r \in Run, MarkEmpty(r) \/ MarkVerified(r) \/ Release(r) \/ MarkDone(r) \/ MarkFailed(r)
      PROVE  status'[p] = "deleted" /\ (p \in path => p \in path') /\ object'[p] = object[p]
  <2>1. pc[r] \in WorkPc /\ UNCHANGED object
    BY <1>4 DEF MarkEmpty, MarkVerified, Release, MarkDone, MarkFailed, Mark, WorkPc
  <2>2. cur[r] # p
    BY <1>2, <2>1
  <2>3. /\ status'[p] = status[p]
        /\ path \ {cur[r]} \subseteq path'
    BY <1>0, <1>4, <2>2 DEF MarkEmpty, MarkVerified, Release, MarkDone, MarkFailed, Mark
  <2> QED
    BY <2>1, <2>2, <2>3
<1>5. ASSUME NEW r \in Run, Copy(r) PROVE status' = status /\ path' = path /\ object'[p] = object[p]
  <2>1. pc[r] \in WorkPc /\ UNCHANGED <<status, path>>
    BY <1>5 DEF Copy, WorkPc
  <2>2. cur[r] # p
    BY <1>2, <2>1
  <2> QED
    BY <1>0, <1>5, <2>1, <2>2 DEF Copy
<1>6. ASSUME NEW r \in Run, NEW q \in Partition, ClaimInsert(r, q)
      PROVE  status'[p] = "deleted" /\ (p \in path => p \in path') /\ object' = object
  BY <1>0, <1>6 DEF ClaimInsert
<1>7. ASSUME NEW r \in Run, Reclaim(r) PROVE status'[p] = "deleted" /\ UNCHANGED <<path, object>>
  BY <1>0, <1>7 DEF Reclaim, Reclaimable
<1>8. CASE \E r \in Run : ListAged(r) \/ Step(r) \/ ThrowInside(r) \/ ThrowOutside(r) \/ Crash(r)
  BY <1>3, <1>4, <1>5, <1>6, <1>7, <1>8 DEF Step
<1> QED
  BY <1>1, <1>8 DEF Next

\* So what a query was served it is served for ever.
LEMMA ServedStays == IInv /\ [Next]_vars => Served \subseteq Served'
<1> SUFFICES ASSUME IInv, [Next]_vars, NEW e \in Served PROVE e \in Served'
  OBVIOUS
<1>1. e \in Entry /\ PartOf[e] \in Partition
  BY DataAssumption DEF Served, Archived, DataAssumption
<1>2. CASE Next
  BY <1>1, <1>2, DeletedDaysStay DEF Served, Archived
<1>3. CASE UNCHANGED vars
  BY <1>3 DEF Served, Archived, vars, storeVars, ledgerVars, dataVars
<1> QED
  BY <1>2, <1>3

\* A row that is due and in no run's hands is in one tier and not in the other.
LEMMA InOneTier ==
  ASSUME IInv, VisInv, NEW e \in accepted \ pruned, PartOf[e] \notin DeletingNow
  PROVE  e \in hot \cup Served
<1> DEFINE p == PartOf[e]
<1>1. e \in Entry /\ p \in Partition /\ e \in Rows(p)
  BY DataAssumption DEF DataAssumption, IInv, TypeOK, DataType, Rows
<1>2. StoreOf(p) /\ VisibleOf(p)
  BY <1>1 DEF IInv, StoreInv, VisInv
<1>3. CASE status[p] = "deleted"
  BY <1>1, <1>2, <1>3 DEF StoreOf, VisibleOf, HotOf, Served, Archived
<1>4. CASE status[p] = "verified"
  <2>1. ASSUME NEW r \in Run, pc[r] \in WorkPc, cur[r] = p PROVE Whole(p)
    <3>1. ClaimOf(r) /\ ProgressOf(r)
      BY DEF IInv, ClaimInv, ProgressInv
    <3>2. pc[r] \notin DeletePc
      BY <2>1 DEF DeletingNow
    <3>3. pc[r] \in {"release", "markFailed"}
      BY <1>4, <2>1, <3>1, <3>2 DEF ClaimOf, Trimming
    <3> QED
      BY <2>1, <3>1, <3>3 DEF ProgressOf
  <2>2. Whole(p)
    BY <1>2, <1>4, <2>1 DEF VisibleOf
  <2> QED
    BY <1>1, <2>2 DEF Whole
<1>5. CASE status[p] \notin {"verified", "deleted"}
  BY <1>1, <1>2, <1>5 DEF StoreOf, Whole
<1> QED
  BY <1>3, <1>4, <1>5

\* A row leaves the hot database only while a run deletes its day.
LEMMA HotStays ==
  ASSUME IInv, [Next]_vars, NEW e \in hot, PartOf[e] \notin DeletingNow
  PROVE  e \in hot'
<1> USE DEF storeVars, dataVars
<1>1. ASSUME NEW r \in Run, DeleteBatch(r) PROVE e \in hot'
  <2>1. pc[r] \in DeletePc
    BY <1>1 DEF DeleteBatch, DeletePc
  <2>2. cur[r] # PartOf[e]
    BY <2>1 DEF DeletingNow
  <2>3. \E gone \in SUBSET HotOf(cur[r]) : hot' = hot \ gone
    BY <1>1 DEF DeleteBatch
  <2> QED
    BY <2>2, <2>3 DEF HotOf, Rows
<1>2. CASE Environment \/ UNCHANGED vars
  BY <1>2 DEF Environment, Tick, EnableDeletion, ChangePlan, Ingest, ClaimAges, vars
<1>3. ASSUME NEW r \in Run, ListAged(r) \/ Step(r) \/ ThrowInside(r) \/ ThrowOutside(r) \/ Crash(r),
             ~DeleteBatch(r)
      PROVE  e \in hot'
  <2>1. UNCHANGED hot
    BY <1>3 DEF Step, ListAged, ListLedger, LookUpPlans, Finish, SkipInGrace, ClaimConflict, ReadBack,
       AssertClaimed, StagePage, Verify, CountDay, More, ThrowInside, ThrowOutside, Crash, MarkEmpty,
       MarkVerified, Release, MarkDone, MarkFailed, Mark, Copy, ClaimInsert, Reclaim
  <2> QED
    BY <2>1
<1> QED
  BY <1>1, <1>2, <1>3 DEF Next

LEMMA LeastNumber ==
  ASSUME NEW S \in SUBSET Nat, S # {}
  PROVE  \E m \in S : \A n \in S : m <= n
<1> DEFINE R == OpToRel(<, Nat)
<1>1. IsWellFoundedOn(R, Nat)
  BY NatLessThanWellFounded, Zenon
<1>2. \A x, y \in Nat : y < x => <<y, x>> \in R
  BY DEF OpToRel
<1> HIDE DEF R
<1>3. PICK m \in S : \A n \in S : <<n, m>> \notin R
  BY <1>1, WFMin
<1>4. \A n \in S : ~(n < m)
  BY <1>2, <1>3
<1> QED
  BY <1>4

\* The archived days of a project lie between two dates, so they are finitely many.
LEMMA ArchivedDaysFinite == IsFiniteSet(ArchivedDays)
<1> DEFINE day == [p \in ArchivedDays |-> DayOf[p]]
<1>1. From \in Int /\ To \in Int
  BY QueryAssumption DEF QueryAssumption
<1>2. day \in [ArchivedDays -> From .. To]
  BY DEF ArchivedDays, InRange
<1>3. \A p, q \in ArchivedDays : day[p] = day[q] => p = q
  BY QueryAssumption DEF QueryAssumption, ArchivedDays, InRange
<1> HIDE DEF day
<1>4. day \in Injection(ArchivedDays, From .. To)
  BY <1>2, <1>3 DEF Injection, IsInjective
<1> QED
  BY <1>1, <1>4, FS_Interval, FS_Injection

\* A cap that is not exceeded leaves none out.
LEMMA NewestAll ==
  ASSUME ~(Cardinality(ArchivedDays) > MaxFiles)
  PROVE  Newest(MaxFiles, ArchivedDays) = ArchivedDays
<1>1. IsFiniteSet(ArchivedDays) /\ Cardinality(ArchivedDays) \in Nat /\ MaxFiles \in Nat
  BY ArchivedDaysFinite, FS_CardinalityType, QueryAssumption DEF QueryAssumption
<1> SUFFICES ASSUME NEW p \in ArchivedDays
             PROVE  Cardinality({ q \in ArchivedDays : DayOf[q] > DayOf[p] }) < MaxFiles
  BY DEF Newest
<1> DEFINE newer == { q \in ArchivedDays : DayOf[q] > DayOf[p] }
<1>2. DayOf[p] \in Nat
  BY DataAssumption DEF DataAssumption, ArchivedDays
<1>3. newer \subseteq ArchivedDays \ {p}
  BY <1>2
<1> HIDE DEF newer
<1>4. /\ IsFiniteSet(ArchivedDays \ {p})
      /\ Cardinality(ArchivedDays \ {p}) = Cardinality(ArchivedDays) - 1
  BY <1>1, FS_RemoveElement
<1>5. /\ IsFiniteSet(newer) /\ Cardinality(newer) <= Cardinality(ArchivedDays \ {p})
  BY <1>3, <1>4, FS_Subset
<1>6. Cardinality(newer) \in Nat
  BY <1>5, FS_CardinalityType
<1>7. Cardinality(newer) < MaxFiles
  BY <1>1, <1>4, <1>5, <1>6
<1> QED
  BY <1>7 DEF newer

\* A chart: between its reads of the hot database and of the ledger, a row of a
\* day that is left alone stays where it was; the keys are then of the days in
\* Parquet, all of them unless they were capped.
ChartInv ==
  view.kind = "chart" =>
    /\ view.at \in {"idle", "ledger", "parquet", "shown"}
    /\ view.due \subseteq Asked
    /\ view.at # "shown" => view.cold = {}
    /\ view.at = "ledger" => \A e \in view.due : PartOf[e] \notin moved =>
         IF e \in view.hot THEN e \in hot ELSE e \in Served
    /\ view.at = "parquet" => \A e \in view.due : PartOf[e] \notin moved =>
         IF e \in view.hot THEN PartOf[e] \notin view.keys
         ELSE e \in Served /\ (~view.capped => PartOf[e] \in view.keys)
    /\ ChartHonest

\* A search: what it is due is served for as long as it pages, and is on a page
\* it read or past its cursor.
SearchInv ==
  view.kind = "search" =>
    /\ view.at \in {"idle", "page", "parquet", "shown"}
    /\ view.at = "idle" => view.before = NoCursor /\ view.due = {}
    /\ view.due \subseteq Served /\ view.due \subseteq Asked
    /\ view.at \in {"page", "parquet"} /\ ~view.capped =>
         \A e \in view.due : e \in view.cold \/ view.before = NoCursor \/ e < view.before
    /\ view.at = "parquet" /\ ~view.capped => \A e \in view.due : PartOf[e] \in view.keys
    /\ SearchComplete

ViewType ==
  view \in [kind : {"chart", "search"}, at : {"idle", "ledger", "page", "parquet", "shown"},
            hot : SUBSET Entry, keys : SUBSET Partition, cold : SUBSET Entry,
            before : Entry \cup {NoCursor}, failed : BOOLEAN, capped : BOOLEAN,
            due : SUBSET Entry]
QueryInv == ViewType /\ ChartInv /\ SearchInv

LEMMA QueryInvInit == QueryInit => QueryInv
<1> SUFFICES ASSUME QueryInit PROVE QueryInv
  OBVIOUS
<1>1. PICK kind \in {"chart", "search"} : view = NoView(kind)
  BY DEF QueryInit
<1> QED
  BY <1>1 DEF NoView, QueryInv, ViewType, ChartInv, SearchInv, ChartHonest, SearchComplete

\* The exporter's steps, under the request that waits.
LEMMA QueryExport ==
  ASSUME IInv, QueryInv, Export
  PROVE  QueryInv'
<1>1. Next /\ view' = view /\ Served \subseteq Served'
  BY ServedStays DEF Export
<1>2. SearchInv' /\ ViewType'
  BY <1>1 DEF QueryInv, SearchInv, SearchComplete, ViewType, Asked, InRange
<1>3. CASE view.kind = "chart" /\ view.at = "ledger"
  <2>1. moved \cup DeletingNow \subseteq moved'
    BY <1>3 DEF Export
  <2>2. ASSUME NEW e \in view.due, PartOf[e] \notin moved'
        PROVE  IF e \in view.hot THEN e \in hot' ELSE e \in Served'
    BY <1>1, <1>3, <2>1, <2>2, HotStays DEF QueryInv, ChartInv
  <2> QED
    BY <1>1, <1>2, <1>3, <2>2 DEF QueryInv, ChartInv, ChartHonest, Asked, InRange
<1>4. CASE ~(view.kind = "chart" /\ view.at = "ledger")
  <2>1. moved' = moved
    BY <1>4 DEF Export
  <2> QED
    BY <1>1, <1>2, <1>4, <2>1 DEF QueryInv, ChartInv, ChartHonest, Asked, InRange
<1> QED
  BY <1>3, <1>4

LEMMA KeysType == ArchiveKeys \subseteq Partition /\ \A keys : InParquet(keys) \subseteq Entry
  BY DEF ArchiveKeys, Newest, ArchivedDays, InParquet

LEMMA ReadHotStep ==
  ASSUME IInv, VisInv, QueryInv, ReadHot, UNCHANGED vars
  PROVE  QueryInv'
<1>1. /\ view.kind = "chart"
      /\ view' = [view EXCEPT !.at = "ledger", !.hot = hot \cap Asked,
                              !.due = (accepted \ pruned) \cap Asked]
      /\ moved' = DeletingNow
  BY DEF ReadHot
<1>2. hot' = hot /\ Served' = Served
  BY DEF vars, storeVars, dataVars, ledgerVars, Served, Archived
<1>3. ViewType'
  <2>1. hot \cap Asked \in SUBSET Entry /\ (accepted \ pruned) \cap Asked \in SUBSET Entry
    BY DEF Asked
  <2>2. ViewType
    BY DEF QueryInv
  <2> QED
    BY ONLY <1>1, <2>1, <2>2 DEF ViewType
<1>4. view'.kind = "chart" /\ view'.at = "ledger" /\ view'.cold = {}
      /\ view'.hot = hot \cap Asked /\ view'.due = (accepted \ pruned) \cap Asked
  BY <1>1 DEF QueryInv, ViewType, ChartInv, ReadHot
<1>5. \A e \in view'.due : PartOf[e] \notin moved' =>
        IF e \in view'.hot THEN e \in hot' ELSE e \in Served'
  BY <1>1, <1>2, <1>4, InOneTier
<1> QED
  BY <1>3, <1>4, <1>5 DEF QueryInv, ChartInv, SearchInv, ChartHonest, Asked, InRange

\* The keys hold no day of a row in the hot database, and all that is served of
\* the range unless they were capped.
LEMMA KeysHold ==
  ASSUME IInv
  PROVE  /\ \A e \in hot : PartOf[e] \notin ArchiveKeys
         /\ ~(Cardinality(ArchivedDays) > MaxFiles) =>
              \A e \in Served \cap Asked : PartOf[e] \in ArchiveKeys
<1>1. ASSUME NEW e \in hot PROVE PartOf[e] \notin ArchiveKeys
  <2>1. e \in Rows(PartOf[e]) /\ PartOf[e] \in Partition
    BY DataAssumption DEF DataAssumption, IInv, TypeOK, DataType, Rows
  <2>2. status[PartOf[e]] # "deleted"
    BY <2>1 DEF IInv, StoreInv, StoreOf, HotOf
  <2> QED
    BY <2>2 DEF ArchiveKeys, Newest, ArchivedDays
<1>2. ASSUME ~(Cardinality(ArchivedDays) > MaxFiles), NEW e \in Served \cap Asked
      PROVE  PartOf[e] \in ArchiveKeys
  <2>1. PartOf[e] \in ArchivedDays /\ PartOf[e] \in path
    BY DataAssumption DEF DataAssumption, Served, Archived, Asked, ArchivedDays
  <2> QED
    BY <1>2, <2>1, NewestAll DEF ArchiveKeys
<1> QED
  BY <1>1, <1>2

LEMMA ReadLedgerStep ==
  ASSUME IInv, QueryInv, ReadLedger, UNCHANGED vars
  PROVE  QueryInv'
<1>1. /\ view.kind = "chart" /\ view.at = "ledger" /\ moved' = moved
      /\ view' = [view EXCEPT !.at = IF ArchiveKeys = {} THEN "shown" ELSE "parquet",
                              !.keys = ArchiveKeys,
                              !.capped = Cardinality(ArchivedDays) > MaxFiles]
  BY DEF ReadLedger
<1>2. hot' = hot /\ Served' = Served
  BY DEF vars, storeVars, dataVars, ledgerVars, Served, Archived
<1>3. /\ view'.kind = "chart" /\ view'.at = IF ArchiveKeys = {} THEN "shown" ELSE "parquet"
      /\ view'.keys = ArchiveKeys /\ view'.capped = (Cardinality(ArchivedDays) > MaxFiles)
      /\ view'.cold = {} /\ view'.hot = view.hot /\ view'.due = view.due
      /\ view.due \subseteq Asked
  BY <1>1 DEF QueryInv, ViewType, ChartInv
<1>4. ViewType'
  <2>1. ViewType /\ ArchiveKeys \in SUBSET Partition
    BY KeysType DEF QueryInv
  <2>2. PICK at \in {"shown", "parquet"}, capped \in BOOLEAN :
          view' = [view EXCEPT !.at = at, !.keys = ArchiveKeys, !.capped = capped]
    <3>1. (Cardinality(ArchivedDays) > MaxFiles) \in BOOLEAN
      OBVIOUS
    <3>2. (IF ArchiveKeys = {} THEN "shown" ELSE "parquet") \in {"shown", "parquet"}
      OBVIOUS
    <3> QED
      BY <1>1, <3>1, <3>2, Zenon
  <2> QED
    BY ONLY <2>1, <2>2 DEF ViewType
<1>5. \A e \in view'.due : PartOf[e] \notin moved' =>
        IF e \in view'.hot THEN PartOf[e] \notin view'.keys
        ELSE e \in Served' /\ (~view'.capped => PartOf[e] \in view'.keys)
  BY <1>1, <1>2, <1>3, KeysHold DEF QueryInv, ChartInv
<1>6. ChartHonest'
  BY <1>1, <1>3, <1>5 DEF ChartHonest
<1>7. Asked' = Asked
  BY DEF Asked, InRange
<1> QED
  BY <1>3, <1>4, <1>5, <1>6, <1>7 DEF QueryInv, ChartInv, SearchInv

LEMMA ReadParquetStep ==
  ASSUME IInv, QueryInv, ReadParquet, UNCHANGED vars
  PROVE  QueryInv'
<1>1. /\ view.kind = "chart" /\ view.at = "parquet" /\ moved' = moved
      /\ \/ view' = [view EXCEPT !.at = "shown", !.cold = InParquet(view.keys)]
         \/ view' = [view EXCEPT !.at = "shown", !.failed = TRUE]
  BY DEF ReadParquet
<1>2. ViewType'
  <2>1. InParquet(view.keys) \in SUBSET Entry
    BY KeysType
  <2>2. ViewType
    BY DEF QueryInv
  <2> QED
    BY ONLY <1>1, <2>1, <2>2 DEF ViewType
<1>3. /\ view'.kind = "chart" /\ view'.at = "shown"
      /\ view'.hot = view.hot /\ view'.due = view.due /\ view'.capped = view.capped
      /\ view'.failed \/ view'.cold = InParquet(view.keys)
  BY <1>1 DEF QueryInv, ViewType
<1>4. \A e \in Served : PartOf[e] \in view.keys => e \in InParquet(view.keys)
  BY DEF Served, Archived, InParquet
<1>5. \A e \in InParquet(view.keys) : PartOf[e] \in view.keys
  BY DEF InParquet
<1>6. ChartHonest'
  BY <1>1, <1>3, <1>4, <1>5 DEF ChartHonest, QueryInv, ChartInv
<1>7. Asked' = Asked
  BY DEF Asked, InRange
<1> QED
  BY <1>1, <1>2, <1>3, <1>6, <1>7 DEF QueryInv, ChartInv, SearchInv

LEMMA SearchLedgerStep ==
  ASSUME IInv, QueryInv, SearchLedger, UNCHANGED vars
  PROVE  QueryInv'
<1>1. view.kind = "search" /\ view.at \in {"idle", "page"} /\ ViewType /\ SearchInv
  BY DEF SearchLedger, QueryInv
<1>2. hot' = hot /\ Served' = Served /\ Asked' = Asked
  BY DEF vars, storeVars, dataVars, ledgerVars, Served, Archived, Asked, InRange
<1>3. Served \cap Asked \in SUBSET Entry /\ ArchiveKeys \in SUBSET Partition
  BY KeysType DEF Asked
<1>4. CASE plan[Viewed] = "pro"
  <2> DEFINE wide == Cardinality(ArchivedDays) > MaxFiles
             due  == IF view.at = "idle" THEN Served \cap Asked ELSE view.due
             at   == IF ArchiveKeys = {} THEN "shown" ELSE "parquet"
             capped == view.capped \/ wide
  <2>1. view' = [view EXCEPT !.at = at, !.keys = ArchiveKeys, !.capped = capped, !.due = due]
    BY <1>4 DEF SearchLedger
  <2>2. /\ at \in {"shown", "parquet"} /\ capped \in BOOLEAN /\ due \in SUBSET Entry
        /\ due \subseteq Served /\ due \subseteq Asked
    BY <1>1, <1>3 DEF SearchInv, ViewType
  <2>3. ~capped => \A e \in due : e \in view.cold \/ view.before = NoCursor \/ e < view.before
    BY <1>1 DEF SearchInv
  <2>4. ~capped => \A e \in due : PartOf[e] \in ArchiveKeys
    BY <2>2, KeysHold
  <2>5. at = "shown" => ArchiveKeys = {}
    OBVIOUS
  <2> HIDE DEF at, capped, due, wide
  <2>6. ViewType'
    BY ONLY <1>1, <1>3, <2>1, <2>2 DEF ViewType
  <2>7. /\ view'.kind = "search" /\ view'.at = at /\ view'.capped = capped
        /\ view'.due = due /\ view'.cold = view.cold /\ view'.keys = ArchiveKeys
        /\ view'.before = view.before
    BY ONLY <1>1, <2>1 DEF ViewType
  <2>8. SearchComplete'
    BY <2>4, <2>5, <2>7 DEF SearchComplete
  <2> QED
    BY <1>2, <2>2, <2>3, <2>4, <2>6, <2>7, <2>8 DEF QueryInv, SearchInv, ChartInv
<1>5. CASE plan[Viewed] # "pro"
  <2>1. view' = [view EXCEPT !.at = "shown", !.failed = TRUE]
    BY <1>5 DEF SearchLedger
  <2>2. ViewType'
    BY ONLY <1>1, <2>1 DEF ViewType
  <2>3. view'.kind = "search" /\ view'.at = "shown" /\ view'.failed /\ view'.due = view.due
    BY <1>1, <2>1 DEF ViewType
  <2> QED
    BY <1>1, <1>2, <2>2, <2>3 DEF QueryInv, SearchInv, ChartInv, SearchComplete
<1> QED
  BY <1>4, <1>5

\* A page is the newest of what is older than the cursor: whatever it leaves out
\* is older than all of it, and if it leaves anything out it is full.
LEMMA PageRest ==
  ASSUME NEW keys, NEW before \in Int,
         NEW e \in InParquet(keys) \ Page(keys, before), before = NoCursor \/ e < before
  PROVE  \A f \in Page(keys, before) : e < f
<1> DEFINE older == { f \in InParquet(keys) : before = NoCursor \/ f < before }
           newer(n) == { f \in older : f > n }
<1>0. older \subseteq Entry /\ Entry \subseteq Nat /\ Limit \in Nat
  BY KeysType, DataAssumption, QueryAssumption DEF DataAssumption, QueryAssumption
<1>1. Page(keys, before) = { f \in older : Cardinality(newer(f)) < Limit }
  BY DEF Page
<1>2. e \in older /\ ~(Cardinality(newer(e)) < Limit)
  BY <1>1
<1> SUFFICES ASSUME NEW f \in Page(keys, before), ~(e < f) PROVE FALSE
  OBVIOUS
<1>3. f \in older /\ Cardinality(newer(f)) < Limit
  BY <1>1
<1>4. newer(e) \subseteq newer(f) /\ newer(f) \subseteq Entry
  <2>0. e \in Nat /\ f \in Nat
    BY <1>0, <1>2, <1>3
  <2>1. e \in Nat /\ f \in Nat /\ f <= e
    BY <2>0
  <2>2. ASSUME NEW g \in newer(e) PROVE g \in newer(f)
    <3>1. g \in older /\ g \in Nat /\ g > e
      BY <1>0
    <3>2. g > f
      BY <2>1, <3>1
    <3> QED
      BY <3>1, <3>2
  <2> QED
    BY <1>0, <2>2
<1> HIDE DEF newer
<1>5. IsFiniteSet(newer(f)) /\ Cardinality(newer(f)) \in Nat
  BY <1>4, EntrySets
<1>6. Cardinality(newer(e)) <= Cardinality(newer(f)) /\ IsFiniteSet(newer(e))
  BY <1>4, <1>5, FS_Subset
<1>7. Cardinality(newer(e)) \in Nat
  BY <1>6, FS_CardinalityType
<1> QED
  BY <1>0, <1>2, <1>3, <1>5, <1>6, <1>7

\* The largest of some entries.
LEMMA LargestEntry ==
  ASSUME NEW S \in SUBSET Entry, S # {}
  PROVE  \E m \in S : \A n \in S : n <= m
<1> DEFINE above(m) == { n \in S : n > m }
           counts == { Cardinality(above(m)) : m \in S }
<1>0. S \subseteq Nat
  BY DataAssumption DEF DataAssumption
<1>1. \A m \in S : IsFiniteSet(above(m)) /\ Cardinality(above(m)) \in Nat
  BY EntrySets
<1>2. counts \in SUBSET Nat /\ counts # {}
  BY <1>1
<1>3. PICK c \in counts : \A d \in counts : c <= d
  <2> HIDE DEF counts
  <2> QED
    BY <1>2, LeastNumber
<1>4. PICK m \in S : c = Cardinality(above(m))
  BY <1>3
<1> SUFFICES ASSUME NEW n \in S, ~(n <= m) PROVE FALSE
  OBVIOUS
<1>5. n > m
  BY <1>0
<1>6. above(n) \subseteq above(m) \ {n} /\ n \in above(m)
  <2>1. m \in Nat /\ n \in Nat
    BY <1>0
  <2>2. ASSUME NEW g \in above(n) PROVE g \in above(m) \ {n}
    <3>1. g \in S /\ g \in Nat /\ g > n
      BY <1>0
    <3>2. g > m /\ g # n
      BY <1>5, <2>1, <3>1
    <3> QED
      BY <3>1, <3>2
  <2> QED
    BY <1>5, <2>2
<1>7. Cardinality(above(m)) <= Cardinality(above(n))
  BY <1>3, <1>4
<1> HIDE DEF above
<1>8. /\ IsFiniteSet(above(m) \ {n})
      /\ Cardinality(above(m) \ {n}) = Cardinality(above(m)) - 1
  BY <1>1, <1>6, FS_RemoveElement
<1>9. Cardinality(above(n)) <= Cardinality(above(m) \ {n})
  BY <1>6, <1>8, FS_Subset
<1> QED
  BY <1>1, <1>7, <1>8, <1>9

LEMMA PageFull ==
  ASSUME NEW keys, NEW before \in Int,
         NEW e \in InParquet(keys) \ Page(keys, before), before = NoCursor \/ e < before
  PROVE  MorePages(Page(keys, before))
<1> DEFINE older == { f \in InParquet(keys) : before = NoCursor \/ f < before }
           newer(n) == { f \in older : f > n }
           page == Page(keys, before)
<1>0. older \subseteq Entry /\ Entry \subseteq Nat /\ Limit \in Nat \ {0}
  BY KeysType, DataAssumption, QueryAssumption DEF DataAssumption, QueryAssumption
<1>1. page = { f \in older : Cardinality(newer(f)) < Limit }
  BY DEF Page
<1>2. e \in older \ page
  OBVIOUS
<1> HIDE DEF page
<1>3. older \ page \in SUBSET Entry /\ older \ page # {}
  BY <1>0, <1>2
<1>4. PICK m \in older \ page : \A n \in older \ page : n <= m
  <2> HIDE DEF older
  <2> QED
    BY <1>3, LargestEntry
<1>5. newer(m) \subseteq page
  <2> SUFFICES ASSUME NEW g \in newer(m), g \notin page PROVE FALSE
    OBVIOUS
  <2>1. g \in older /\ g > m /\ g \in Nat /\ m \in Nat
    BY <1>0, <1>4
  <2>2. g <= m
    BY <1>4, <2>1
  <2> QED
    BY <2>1, <2>2
<1>6. ~(Cardinality(newer(m)) < Limit)
  BY <1>1, <1>4
<1>7. page \in SUBSET Entry /\ IsFiniteSet(page) /\ Cardinality(page) \in Nat
  BY <1>0, <1>1, EntrySets
<1>8. newer(m) \in SUBSET Entry /\ IsFiniteSet(newer(m)) /\ Cardinality(newer(m)) \in Nat
  BY <1>0, EntrySets
<1>9. Cardinality(newer(m)) <= Cardinality(page)
  <2> HIDE DEF newer
  <2> QED
    BY <1>5, <1>7, FS_Subset
<1>10. Limit <= Cardinality(page) /\ page # {}
  <2> HIDE DEF newer
  <2>1. Limit <= Cardinality(page)
    BY <1>0, <1>6, <1>7, <1>8, <1>9
  <2> QED
    BY <1>0, <2>1, FS_EmptySet
<1>11. PICK k \in page : \A n \in page : k <= n
  BY <1>0, <1>7, <1>10, LeastNumber
<1>12. Cardinality(newer(k)) < Limit /\ newer(k) \in SUBSET Entry
  BY <1>0, <1>1
<1>13. page \subseteq newer(k) \cup {k}
  <2> SUFFICES ASSUME NEW g \in page, g # k PROVE g \in newer(k)
    OBVIOUS
  <2>1. g \in older /\ g \in Nat /\ k \in Nat /\ k <= g
    BY <1>0, <1>1, <1>11
  <2>2. g > k
    BY <2>1
  <2> QED
    BY <2>1, <2>2
<1> HIDE DEF newer
<1>14. IsFiniteSet(newer(k)) /\ Cardinality(newer(k)) \in Nat
  BY <1>12, EntrySets
<1>15. /\ IsFiniteSet(newer(k) \cup {k})
       /\ Cardinality(newer(k) \cup {k}) = IF k \in newer(k) THEN Cardinality(newer(k))
                                           ELSE Cardinality(newer(k)) + 1
  BY <1>14, FS_AddElement
<1>16. Cardinality(page) <= Cardinality(newer(k) \cup {k})
  BY <1>13, <1>15, FS_Subset
<1>17. Cardinality(page) = Limit
  BY <1>0, <1>7, <1>10, <1>12, <1>14, <1>15, <1>16
<1> QED
  BY <1>17 DEF MorePages, page

LEMMA CursorType ==
  NoCursor \in Int /\ \A cursor \in Entry \cup {NoCursor} : cursor \in Int
  BY DataAssumption DEF DataAssumption, NoCursor

LEMMA SearchParquetStep ==
  ASSUME IInv, QueryInv, SearchParquet, UNCHANGED vars
  PROVE  QueryInv'
<1>1. view.kind = "search" /\ view.at = "parquet" /\ ViewType /\ SearchInv
  BY DEF SearchParquet, QueryInv
<1>2. Served' = Served /\ Asked' = Asked
  BY DEF vars, storeVars, dataVars, ledgerVars, Served, Archived, Asked, InRange
<1>3. CASE view' = [view EXCEPT !.at = "shown", !.failed = TRUE]
  <2>1. ViewType'
    BY ONLY <1>1, <1>3 DEF ViewType
  <2>2. view'.kind = "search" /\ view'.at = "shown" /\ view'.failed /\ view'.due = view.due
    BY <1>1, <1>3 DEF ViewType
  <2> QED
    BY <1>1, <1>2, <2>1, <2>2 DEF QueryInv, SearchInv, ChartInv, SearchComplete
<1>4. CASE view' # [view EXCEPT !.at = "shown", !.failed = TRUE]
  <2> DEFINE page == Page(view.keys, view.before)
             oldest == CHOOSE e \in page : \A f \in page : e <= f
             at == IF MorePages(page) THEN "page" ELSE "shown"
             before == IF MorePages(page) THEN oldest ELSE view.before
             read == InParquet(view.keys)
  <2>1. view' = [view EXCEPT !.cold = @ \cup page, !.at = at, !.before = before]
    BY <1>4 DEF SearchParquet
  <2>2. /\ page \subseteq read /\ page \in SUBSET Entry /\ Entry \subseteq Nat
        /\ view.before \in Int /\ NoCursor \in Int
    <3>1. page \subseteq read /\ read \in SUBSET Entry
      BY KeysType DEF Page
    <3>2. Entry \subseteq Nat
      BY DataAssumption DEF DataAssumption
    <3>3. view.before \in Int /\ NoCursor \in Int
      BY <1>1, CursorType DEF ViewType
    <3> HIDE DEF page, read
    <3> QED
      BY ONLY <3>1, <3>2, <3>3
  <2>3. MorePages(page) => oldest \in page /\ \A f \in page : oldest <= f
    <3> SUFFICES ASSUME MorePages(page) PROVE oldest \in page /\ \A f \in page : oldest <= f
      OBVIOUS
    <3> HIDE DEF page
    <3>1. page # {}
      BY FS_EmptySet, QueryAssumption DEF MorePages, QueryAssumption
    <3>2. \E e \in page : \A f \in page : e <= f
      BY <2>2, <3>1, LeastNumber
    <3> QED
      BY <3>2
  <2>4. \A e \in view.due : ~view.capped => e \in read
    BY <1>1 DEF SearchInv, Served, Archived, InParquet
  \* What is due and not yet read is on this page, or older than all of it.
  <2>5. ASSUME ~view.capped, NEW e \in view.due, e \notin view.cold, e \notin page
        PROVE  MorePages(page) /\ \A f \in page : e < f
    <3>1. view.before = NoCursor \/ e < view.before
      BY <1>1, <2>5 DEF SearchInv
    <3>2. e \in read
      BY <2>4, <2>5
    <3> QED
      BY <2>2, <2>5, <3>1, <3>2, PageRest, PageFull
  <2>6. at \in {"page", "shown"} /\ before \in Entry \cup {NoCursor}
    BY <1>1, <2>2, <2>3 DEF ViewType
  <2>7. at = "page" => MorePages(page) /\ before = oldest
    OBVIOUS
  <2>8. at # "page" => ~MorePages(page)
    OBVIOUS
  <2> HIDE DEF page, oldest, at, before, read
  <2>9. ViewType'
    BY ONLY <1>1, <2>1, <2>2, <2>6 DEF ViewType
  <2>10. /\ view'.kind = "search" /\ view'.at = at /\ view'.before = before
         /\ view'.cold = view.cold \cup page /\ view'.due = view.due /\ view'.capped = view.capped
    BY ONLY <1>1, <2>1 DEF ViewType
  <2>11. at = "page" /\ ~view.capped =>
           \A e \in view.due : e \in view.cold \cup page \/ e < before
    BY <2>3, <2>5, <2>7
  <2>12. at = "shown" /\ ~view.capped => view.due \subseteq view.cold \cup page
    BY <2>5, <2>8
  <2>13. SearchComplete'
    BY <2>10, <2>12 DEF SearchComplete
  <2>14. view'.at # "idle" /\ view'.at # "parquet" /\ view'.at \in {"page", "shown"}
    BY <2>6, <2>10
  <2>15. view'.due \subseteq Served' /\ view'.due \subseteq Asked'
    BY <1>1, <1>2, <2>10 DEF SearchInv
  <2>16. SearchInv'
    BY <2>10, <2>11, <2>13, <2>14, <2>15 DEF SearchInv
  <2>17. ChartInv'
    BY <2>10 DEF ChartInv
  <2> QED
    BY <2>9, <2>16, <2>17 DEF QueryInv
<1> QED
  BY <1>3, <1>4

LEMMA QueryInvNext ==
  IInv /\ VisInv /\ QueryInv /\ [QueryNext]_<<vars, queryVars>> => QueryInv'
<1> SUFFICES ASSUME IInv, VisInv, QueryInv, [QueryNext]_<<vars, queryVars>> PROVE QueryInv'
  OBVIOUS
<1>1. CASE Export
  BY <1>1, QueryExport
<1>2. CASE View /\ UNCHANGED vars
  BY <1>2, ReadHotStep, ReadLedgerStep, ReadParquetStep, SearchLedgerStep, SearchParquetStep DEF View
<1>3. CASE UNCHANGED <<vars, queryVars>>
  <2>1. UNCHANGED <<view, moved, hot, Served, Asked>>
    BY <1>3 DEF vars, queryVars, storeVars, dataVars, ledgerVars, Served, Archived, Asked, InRange
  <2> QED
    BY <2>1 DEF QueryInv, ViewType, ChartInv, SearchInv, ChartHonest, SearchComplete
<1> QED
  BY <1>1, <1>2, <1>3 DEF QueryNext

\* The exporter goes its way, with or without a request.
LEMMA QueryIsExport == [QueryNext]_<<vars, queryVars>> => [Next]_vars
  BY DEF QueryNext, Export

LEMMA QueryInvAlways ==
  ASSUME Tolerated, "crash" \notin Faults
  PROVE  QuerySpec => [](IInv /\ VisInv /\ QueryInv)
<1>1. QueryInit => IInv /\ VisInv /\ QueryInv
  BY InvInit, QueryInvInit DEF QueryInit, Init, VisInv, VisibleOf
<1>2. IInv /\ VisInv /\ QueryInv /\ [QueryNext]_<<vars, queryVars>> => (IInv /\ VisInv /\ QueryInv)'
  BY InvNext, VisInductive, QueryInvNext, QueryIsExport
<1> QED
  BY <1>1, <1>2, PTL DEF QuerySpec

\* query.ts:10-18 (ChartHonest).  Short of a crash and of the faults Tolerated
\* names, a chart counts each row it is due once; for any number of runs,
\* projects, days and rows, and any cap on the files.
THEOREM ChartsAreHonest ==
  ASSUME Tolerated, "crash" \notin Faults
  PROVE  QuerySpec => []ChartHonest
<1>1. QueryInv => ChartHonest
  BY DEF QueryInv, ChartInv, ChartHonest
<1> QED
  BY <1>1, QueryInvAlways, PTL

\* query.ts:133-136 and sql.ts:226-230 (SearchComplete).  Under the same
\* hypotheses the pages of a search hold all it is due, for any size of a page.
THEOREM SearchesAreComplete ==
  ASSUME Tolerated, "crash" \notin Faults
  PROVE  QuerySpec => []SearchComplete
<1>1. QueryInv => SearchComplete
  BY DEF QueryInv, SearchInv, SearchComplete
<1> QED
  BY <1>1, QueryInvAlways, PTL
-----------------------------------------------------------------------------
(* What the retention panel adds up.                                         *)

PrunePc == {"batch", "more", "markDone"}
PrunedOf(p) == pruned \cap Rows(p)

\* What the free path deletes of a day, or has deleted.
FreeRows(p) == (hot \cup pruned) \cap Rows(p)

\* A row_count is the size of the object it points at, or of what a run counted
\* before it pruned; a retried prune counts only what the last attempt left.
RowOf(p) ==
  /\ object[p] \subseteq Rows(p)
  /\ status[p] \in {"verified", "deleted"} =>
       rows[p] = IF p \in path THEN Cardinality(object[p]) ELSE 0
  /\ status[p] = "pruned" =>
       /\ rows[p] <= Cardinality(PrunedOf(p))
       /\ faults = 0 => rows[p] = Cardinality(PrunedOf(p))
TotalOf(r) ==
  /\ pc[r] \notin PrunePc \cup {"markFailed"} => total[r] = 0
  /\ pc[r] \in PrunePc /\ Free(r, cur[r]) =>
       /\ total[r] <= Cardinality(FreeRows(cur[r]))
       /\ faults = 0 => total[r] = Cardinality(FreeRows(cur[r]))

\* Short of a fault every attempt is the first, and every claim somebody's.
CleanOf(p) ==
  /\ p \notin stale /\ status[p] # "failed"
  /\ status[p] = "none" => PrunedOf(p) = {}
  /\ status[p] = "exporting" => \E r \in Run : pc[r] \in WorkPc /\ cur[r] = p
CleanRun(r) ==
  /\ pc[r] # "markFailed"
  /\ pc[r] = "verify" => object[cur[r]] = staged[r]
  /\ pc[r] = "readBack" => ~ClaimWon(r)
  /\ pc[r] \in {"assert", "count"} /\ Free(r, cur[r]) => PrunedOf(cur[r]) = {}
CleanInv == faults = 0 => (\A p \in Partition : CleanOf(p)) /\ (\A r \in Run : CleanRun(r))

PanelInv ==
  /\ \A p \in Partition : RowOf(p)
  /\ \A r \in Run : TotalOf(r)
  /\ CleanInv

LEMMA PanelInvInit == Init => PanelInv
<1> SUFFICES ASSUME Init PROVE PanelInv
  OBVIOUS
<1>1. \A p \in Partition : RowOf(p) /\ CleanOf(p)
  BY DEF Init, RowOf, CleanOf, PrunedOf
<1>2. \A r \in Run : TotalOf(r) /\ CleanRun(r)
  BY DEF Init, TotalOf, CleanRun, PrunePc
<1> QED
  BY <1>1, <1>2 DEF PanelInv, CleanInv

\* The budget of faults is only spent.
LEMMA FaultsGrow ==
  ASSUME TypeOK, [Next]_vars
  PROVE  faults' = 0 => faults = 0
<1>1. faults \in Nat
  BY DEF TypeOK, WorldType
<1>2. CASE Environment
  BY <1>1, <1>2 DEF Environment, Tick, EnableDeletion, ChangePlan, Ingest, ClaimAges
<1>3. ASSUME NEW r \in Run, Step(r) PROVE faults' = 0 => faults = 0
  BY <1>1, <1>3 DEF Step, ListLedger, LookUpPlans, Finish, SkipInGrace, ClaimInsert, ClaimConflict,
     Reclaim, ReadBack, AssertClaimed, StagePage, MarkEmpty, Copy, Verify, MarkVerified, Release,
     CountDay, DeleteBatch, More, MarkDone, MarkFailed, Fault
<1>4. ASSUME NEW r \in Run, ListAged(r) \/ ThrowInside(r) \/ ThrowOutside(r) \/ Crash(r)
      PROVE  faults' = 0 => faults = 0
  BY <1>1, <1>4 DEF ListAged, ThrowInside, ThrowOutside, Crash, Fault
<1> QED
  BY <1>2, <1>3, <1>4 DEF Next, vars

LEMMA RowFrame ==
  ASSUME NEW p \in Partition, RowOf(p), UNCHANGED <<object[p], status[p], rows[p], PrunedOf(p)>>,
         p \in path' <=> p \in path, faults' = 0 => faults = 0
  PROVE  RowOf(p)'
  BY DEF RowOf, Rows

LEMMA TotalFrame ==
  ASSUME NEW r \in Run, TotalOf(r), UNCHANGED <<pc[r], cur[r], tier[r], total[r]>>,
         pc[r] \in PrunePc => FreeRows(cur[r])' = FreeRows(cur[r]), faults' = 0 => faults = 0
  PROVE  TotalOf(r)'
  BY DEF TotalOf, Free

\* The world writes no row_count and prunes nothing.
LEMMA PanelWorld ==
  ASSUME Tolerated, IInv, PanelInv, Environment \/ UNCHANGED vars, faults' = 0 => faults = 0
  PROVE  PanelInv'
<1> USE DEF envVars, storeVars, dataVars, ledgerVars, runVars, planVars, workVars
<1>1. /\ UNCHANGED <<object, status, rows, path, pruned, pc, cur, tier, total, staged, token>>
      /\ UNCHANGED stale \/ \E p \in Partition : ClaimAges(p)
  BY DEF Environment, Tick, EnableDeletion, ChangePlan, Ingest, ClaimAges, vars
<1>2. \A p \in Partition : PrunedOf(p)' = PrunedOf(p)
  BY <1>1 DEF PrunedOf, Rows
<1>3. \A p \in Partition : RowOf(p)'
  BY <1>1, <1>2, RowFrame DEF PanelInv
<1>4. ASSUME NEW r \in Run PROVE TotalOf(r)'
  <2>1. ASSUME pc[r] \in PrunePc PROVE FreeRows(cur[r])' = FreeRows(cur[r])
    <3>1. Aged(cur[r]) /\ cur[r] \in Partition
      BY <2>1 DEF IInv, AgedInv, RunAged, BusyPc, WorkPc, PrunePc, TypeOK, WorkType
    <3>2. ASSUME NEW e \in Entry, Ingest(e) PROVE PartOf[e] # cur[r]
      <4>1. DayOf[PartOf[e]] = today
        BY <3>2 DEF Ingest, Tolerated
      <4>2. today \in Nat /\ HotWindow \in Nat
        BY BoundAssumption DEF BoundAssumption, IInv, TypeOK, WorldType
      <4> QED
        BY <3>1, <4>1, <4>2 DEF Aged
    <3>3. CASE \E e \in Entry : Ingest(e)
      BY <3>2, <3>3 DEF Ingest, FreeRows, Rows
    <3>4. CASE ~ \E e \in Entry : Ingest(e)
      <4>1. UNCHANGED <<hot, pruned>>
        BY <3>4 DEF Environment, Tick, EnableDeletion, ChangePlan, ClaimAges, vars
      <4> QED
        BY <1>1, <4>1 DEF FreeRows, Rows
    <3> QED
      BY <3>3, <3>4
  <2> QED
    BY <1>1, <2>1, TotalFrame DEF PanelInv
<1>5. ASSUME faults' = 0, NEW p \in Partition, ClaimAges(p) PROVE FALSE
  <2>1. CleanOf(p) /\ status[p] = "exporting"
    BY <1>5 DEF PanelInv, CleanInv, ClaimAges
  <2>2. PICK r \in Run : pc[r] \in WorkPc /\ cur[r] = p
    BY <2>1 DEF CleanOf
  <2>3. Holds(r, p)
    BY <2>2 DEF Holds, IInv, ClaimInv, ClaimOf
  <2> QED
    BY <1>5, <2>3 DEF ClaimAges, Tolerated
<1>6. CleanInv'
  <2> SUFFICES ASSUME faults' = 0 PROVE (\A p \in Partition : CleanOf(p)') /\ (\A r \in Run : CleanRun(r)')
    BY DEF CleanInv
  <2>1. UNCHANGED stale
    BY <1>1, <1>5
  <2>2. \A p \in Partition : CleanOf(p)'
    BY <1>1, <1>2, <2>1 DEF PanelInv, CleanInv, CleanOf
  <2>3. ASSUME NEW r \in Run PROVE CleanRun(r)'
    <3>1. cur[r] \in Partition /\ CleanRun(r)
      BY DEF IInv, TypeOK, WorkType, PanelInv, CleanInv
    <3> QED
      BY <1>1, <1>2, <3>1 DEF CleanRun, ClaimWon, Free
  <2> QED
    BY <2>2, <2>3
<1> QED
  BY <1>3, <1>4, <1>6 DEF PanelInv

\* A step of run r, whatever it is.
RunStep(r) == ListAged(r) \/ Step(r) \/ ThrowInside(r) \/ ThrowOutside(r) \/ Crash(r)

LEMMA PanelElsewhere ==
  ASSUME TypeOK, NEW r \in Run, RunStep(r), NEW q \in Run \ {r}
  PROVE  UNCHANGED <<pc[q], cur[q], tier[q], total[q], staged[q]>>
<1> USE DEF planVars, workVars, TypeOK, WorkType, PlanType
<1>1. CASE ListAged(r) \/ ListLedger(r) \/ LookUpPlans(r)
  BY <1>1 DEF ListAged, ListLedger, LookUpPlans
<1>2. CASE Finish(r) \/ ThrowOutside(r) \/ Crash(r)
  BY <1>2 DEF Finish, ThrowOutside, Crash, Forget
<1>3. CASE \E p \in Partition : SkipInGrace(r, p) \/ ClaimInsert(r, p) \/ ClaimConflict(r, p)
  BY <1>3 DEF SkipInGrace, ClaimInsert, ClaimConflict, TakeNext
<1>4. CASE Reclaim(r) \/ ReadBack(r) \/ AssertClaimed(r) \/ StagePage(r)
  BY <1>4 DEF Reclaim, ReadBack, AssertClaimed, StagePage, Goto, Return
<1>5. CASE MarkEmpty(r) \/ Release(r) \/ MarkDone(r) \/ MarkFailed(r)
  BY <1>5 DEF MarkEmpty, Release, MarkDone, MarkFailed, Return
<1>6. CASE Copy(r) \/ Verify(r) \/ MarkVerified(r) \/ CountDay(r) \/ DeleteBatch(r) \/ More(r)
           \/ ThrowInside(r)
  BY <1>6 DEF Copy, Verify, MarkVerified, CountDay, DeleteBatch, More, ThrowInside, Goto
<1> QED
  BY <1>1, <1>2, <1>3, <1>4, <1>5, <1>6 DEF RunStep, Step

\* A batch of the free path moves rows from hot to pruned; one of the archived
\* path leaves the days that others prune alone.
LEMMA BatchRows ==
  ASSUME IInv, NEW r \in Run, DeleteBatch(r)
  PROVE  /\ \A p \in Partition \ {cur[r]} : PrunedOf(p)' = PrunedOf(p) /\ FreeRows(p)' = FreeRows(p)
         /\ Free(r, cur[r]) => FreeRows(cur[r])' = FreeRows(cur[r])
         /\ ~Free(r, cur[r]) => pruned' = pruned
<1>1. PICK gone \in SUBSET HotOf(cur[r]) :
        /\ hot' = hot \ gone
        /\ pruned' = IF Free(r, cur[r]) THEN pruned \cup gone ELSE pruned
  BY DEF DeleteBatch
<1>2. gone \subseteq Rows(cur[r]) /\ gone \subseteq hot
  BY <1>1 DEF HotOf
<1>3. \A p \in Partition \ {cur[r]} : Rows(p) \cap gone = {}
  BY <1>2 DEF Rows
<1>4. \A p : PrunedOf(p)' = pruned' \cap Rows(p) /\ FreeRows(p)' = (hot' \cup pruned') \cap Rows(p)
  BY DEF PrunedOf, FreeRows, Rows
<1>5. \A p : PrunedOf(p) = pruned \cap Rows(p) /\ FreeRows(p) = (hot \cup pruned) \cap Rows(p)
  BY DEF PrunedOf, FreeRows
<1> HIDE DEF PrunedOf, FreeRows
<1>6. \A p \in Partition \ {cur[r]} : PrunedOf(p)' = PrunedOf(p) /\ FreeRows(p)' = FreeRows(p)
  BY <1>1, <1>3, <1>4, <1>5
<1>7. Free(r, cur[r]) => FreeRows(cur[r])' = FreeRows(cur[r])
  <2>1. cur' = cur
    BY DEF DeleteBatch, Goto
  <2>2. Free(r, cur[r]) => (hot' \cup pruned') \cap Rows(cur[r]) = (hot \cup pruned) \cap Rows(cur[r])
    BY ONLY <1>1, <1>2
  <2> QED
    BY <1>4, <1>5, <2>1, <2>2
<1>8. ~Free(r, cur[r]) => pruned' = pruned
  BY <1>1
<1> QED
  BY <1>6, <1>7, <1>8

\* Run r's own count.
LEMMA TotalStep ==
  ASSUME IInv, PanelInv, NEW r \in Run, RunStep(r), faults' = 0 => faults = 0
  PROVE  TotalOf(r)'
<1>0. /\ TypeOK /\ TotalOf(r) /\ pc[r] \in Pc /\ total \in [Run -> Nat] /\ pc \in [Run -> Pc]
      /\ cur[r] \in Partition /\ cur \in [Run -> Partition]
  BY DEF IInv, TypeOK, WorkType, PanelInv
<1> USE DEF planVars, workVars, storeVars, dataVars, PrunePc
\* Steps that leave the count, outside of pruning, or forget it.
<1>1. CASE pc[r] \notin PrunePc \cup {"markFailed"} /\ pc'[r] \notin PrunePc /\ total'[r] = total[r]
  BY <1>0, <1>1 DEF TotalOf
<1>2. CASE total'[r] = 0 /\ pc'[r] \notin PrunePc
  BY <1>2 DEF TotalOf
<1>3. CASE pc'[r] = "markFailed"
  BY <1>3 DEF TotalOf
<1>4. CASE ListAged(r) \/ ListLedger(r) \/ LookUpPlans(r)
  BY <1>0, <1>1, <1>4 DEF ListAged, ListLedger, LookUpPlans
<1>5. CASE Finish(r) \/ ThrowOutside(r) \/ Crash(r)
  BY <1>0, <1>2, <1>5 DEF Finish, ThrowOutside, Crash, Forget
<1>6. CASE \E p \in Partition : SkipInGrace(r, p) \/ ClaimInsert(r, p) \/ ClaimConflict(r, p)
  BY <1>0, <1>1, <1>6 DEF SkipInGrace, ClaimInsert, ClaimConflict, TakeNext, IsNext
<1>7. CASE Reclaim(r) \/ ReadBack(r) \/ AssertClaimed(r) \/ StagePage(r)
  BY <1>0, <1>1, <1>2, <1>7 DEF Reclaim, ReadBack, AssertClaimed, StagePage, Goto, Return
<1>8. CASE MarkEmpty(r) \/ Release(r) \/ MarkDone(r) \/ MarkFailed(r)
  BY <1>0, <1>2, <1>8 DEF MarkEmpty, Release, MarkDone, MarkFailed, Return
<1>9. CASE Copy(r) \/ Verify(r) \/ MarkVerified(r) \/ ThrowInside(r)
  BY <1>0, <1>1, <1>3, <1>9 DEF Copy, Verify, MarkVerified, ThrowInside, Goto
<1>10. CASE CountDay(r)
  <2>1. /\ pc[r] = "count" /\ cur' = cur /\ tier' = tier /\ UNCHANGED <<hot, pruned>>
        /\ \A p : FreeRows(p)' = FreeRows(p) /\ Free(r, p)' = Free(r, p)
    BY <1>10 DEF CountDay, Goto, FreeRows, Rows, Free
  <2>2. /\ HotOf(cur[r]) \subseteq FreeRows(cur[r]) /\ FreeRows(cur[r]) \in SUBSET Entry
        /\ HotOf(cur[r]) \in SUBSET Entry
    BY <1>0 DEF HotOf, FreeRows, Rows
  <2>3. faults = 0 /\ Free(r, cur[r]) => FreeRows(cur[r]) = HotOf(cur[r])
    <3>1. faults = 0 /\ Free(r, cur[r]) => PrunedOf(cur[r]) = {}
      BY <2>1 DEF PanelInv, CleanInv, CleanRun
    <3> QED
      BY <3>1 DEF FreeRows, PrunedOf, HotOf
  <2>4. /\ Cardinality(HotOf(cur[r])) <= Cardinality(FreeRows(cur[r]))
        /\ Cardinality(HotOf(cur[r])) \in Nat
    BY <2>2, EntrySets, FS_Subset
  <2>5. total[r] = 0
    BY <1>0, <2>1 DEF TotalOf
  <2>6. /\ total'[r] = Cardinality(HotOf(cur[r]))
        /\ pc'[r] \in {"batch", "markDone"}
    BY <1>0, <1>10, <2>4, <2>5 DEF CountDay, Goto
  <2> QED
    BY <2>1, <2>3, <2>4, <2>6 DEF TotalOf
<1>11. CASE DeleteBatch(r)
  <2>1. pc[r] = "batch" /\ pc'[r] = "more" /\ UNCHANGED <<cur, tier, total>>
    BY <1>0, <1>11 DEF DeleteBatch, Goto
  <2>2. Free(r, cur[r]) => FreeRows(cur[r])' = FreeRows(cur[r])
    BY <1>11, BatchRows
  <2> QED
    BY <1>0, <2>1, <2>2 DEF TotalOf, Free
<1>12. CASE More(r)
  <2>1. /\ pc[r] = "more" /\ pc'[r] \in {"markDone", "markFailed", "batch"}
        /\ UNCHANGED <<cur, tier, total, hot, pruned>>
    BY <1>0, <1>12 DEF More, Goto
  <2>2. FreeRows(cur[r])' = FreeRows(cur[r])
    BY <2>1 DEF FreeRows, Rows
  <2> QED
    BY <1>0, <2>1, <2>2 DEF TotalOf, Free
<1> QED
  BY <1>4, <1>5, <1>6, <1>7, <1>8, <1>9, <1>10, <1>11, <1>12 DEF RunStep, Step

\* The ledger row and the object of each partition.
LEMMA RowStep ==
  ASSUME IInv, PanelInv, NEW r \in Run, RunStep(r), faults' = 0 => faults = 0,
         NEW p \in Partition
  PROVE  RowOf(p)'
<1>0. /\ RowOf(p) /\ ProgressOf(r) /\ ClaimOf(r) /\ TotalOf(r)
      /\ cur[r] \in Partition /\ staged[r] \in SUBSET Entry /\ path \subseteq Partition
      /\ status \in [Partition -> Status] /\ rows \in [Partition -> Nat]
      /\ object \in [Partition -> SUBSET Entry]
  BY DEF IInv, TypeOK, WorkType, LedgerType, DataType, PanelInv, ProgressInv, ClaimInv
<1> USE DEF planVars, workVars, storeVars, dataVars, ledgerVars
<1>1. CASE UNCHANGED <<object, status, rows, path, pruned>>
  <2>1. PrunedOf(p)' = PrunedOf(p)
    BY <1>1 DEF PrunedOf, Rows
  <2> QED
    BY <1>0, <1>1, <2>1, RowFrame
<1>2. CASE ListAged(r) \/ ListLedger(r) \/ LookUpPlans(r) \/ Finish(r)
             \/ (\E q \in Partition : SkipInGrace(r, q) \/ ClaimConflict(r, q))
             \/ ReadBack(r) \/ AssertClaimed(r) \/ StagePage(r) \/ Verify(r) \/ CountDay(r)
             \/ More(r) \/ ThrowInside(r) \/ ThrowOutside(r) \/ Crash(r)
  BY <1>1, <1>2 DEF ListAged, ListLedger, LookUpPlans, Finish, SkipInGrace, ClaimConflict,
     ReadBack, AssertClaimed, StagePage, Verify, CountDay, More, ThrowInside, ThrowOutside, Crash
<1>3. ASSUME NEW q \in Partition, ClaimInsert(r, q) PROVE RowOf(p)'
  <2>1. /\ status' = [status EXCEPT ![q] = "exporting"] /\ rows' = [rows EXCEPT ![q] = 0]
        /\ path' = path \ {q} /\ UNCHANGED <<object, pruned>>
    BY <1>3 DEF ClaimInsert
  <2>2. PrunedOf(p)' = PrunedOf(p)
    BY <2>1 DEF PrunedOf, Rows
  <2>3. CASE p = q
    BY <1>0, <2>1, <2>3 DEF RowOf, Rows
  <2>4. CASE p # q
    BY <1>0, <2>1, <2>2, <2>4, RowFrame
  <2> QED
    BY <2>3, <2>4
<1>4. CASE Reclaim(r)
  <2>1. /\ status' = status \/ status' = [status EXCEPT ![cur[r]] = "exporting"]
        /\ UNCHANGED <<object, rows, path, pruned>>
    BY <1>4 DEF Reclaim
  <2>2. PrunedOf(p)' = PrunedOf(p)
    BY <2>1 DEF PrunedOf, Rows
  <2>3. status'[p] = "exporting" \/ status'[p] = status[p]
    BY <1>0, <2>1
  <2> QED
    BY <1>0, <2>1, <2>2, <2>3, RowFrame DEF RowOf, Rows
<1>5. CASE Copy(r)
  <2>1. PICK new : object' = [object EXCEPT ![cur[r]] = new] /\ (new \subseteq staged[r] \/ new = object[cur[r]])
    <3>1. object' = object => object' = [object EXCEPT ![cur[r]] = object[cur[r]]]
      BY <1>0
    <3> QED
      BY <1>5, <3>1 DEF Copy
  <2>2. pc[r] = "copy" /\ UNCHANGED <<status, rows, path, pruned>>
    BY <1>5 DEF Copy
  <2>3. PrunedOf(p)' = PrunedOf(p)
    BY <2>2 DEF PrunedOf, Rows
  <2>4. CASE p = cur[r]
    <3>1. staged[r] \subseteq Rows(p) /\ status[p] = "exporting"
      BY <1>0, <2>2, <2>4 DEF ProgressOf, ClaimOf, HotOf, WorkPc, Trimming, DeletePc
    <3> QED
      BY <1>0, <2>1, <2>2, <2>4, <3>1 DEF RowOf, Rows
  <2>5. CASE p # cur[r]
    BY <1>0, <2>1, <2>2, <2>3, <2>5, RowFrame
  <2> QED
    BY <2>4, <2>5
<1>6. CASE DeleteBatch(r)
  <2>1. pc[r] = "batch" /\ UNCHANGED <<status, rows, path, object>>
    BY <1>6 DEF DeleteBatch
  <2>2. CASE p = cur[r] /\ Free(r, p)
    <3>1. status[p] = "exporting"
      BY <1>0, <2>1, <2>2 DEF ClaimOf, Trimming, WorkPc
    <3> QED
      BY <1>0, <2>1, <3>1 DEF RowOf, Rows
  <2>3. CASE ~(p = cur[r] /\ Free(r, p))
    <3>1. PrunedOf(p)' = PrunedOf(p)
      BY <1>6, <2>3, BatchRows DEF PrunedOf, Rows
    <3> QED
      BY <1>0, <2>1, <3>1, RowFrame
  <2> QED
    BY <2>2, <2>3
<1>7. ASSUME NEW st, NEW tok, NEW ps, NEW n, Mark(cur[r], st, tok, ps, n), pc[r] \in WorkPc,
             \A q \in Partition \ {cur[r]} : q \in ps <=> q \in path,
             p = cur[r] =>
               /\ st \in {"verified", "deleted"} =>
                    n = IF p \in ps THEN Cardinality(object[p]) ELSE 0
               /\ st = "pruned" => /\ n <= Cardinality(PrunedOf(p))
                                   /\ faults = 0 => n = Cardinality(PrunedOf(p))
      PROVE  RowOf(p)'
  <2>1. status[cur[r]] # "none"
    BY <1>0, <1>7 DEF ClaimOf, WorkPc, Trimming, DeletePc
  <2>2. /\ status' = [status EXCEPT ![cur[r]] = st] /\ rows' = [rows EXCEPT ![cur[r]] = n]
        /\ path' = ps /\ UNCHANGED <<object, pruned>>
    BY <1>7, <2>1 DEF Mark
  <2>3. PrunedOf(p)' = PrunedOf(p) /\ Rows(p)' = Rows(p)
    BY <2>2 DEF PrunedOf, Rows
  <2>4. CASE p = cur[r]
    BY <1>0, <1>7, <2>2, <2>3, <2>4 DEF RowOf
  <2>5. CASE p # cur[r]
    BY <1>0, <1>7, <2>2, <2>3, <2>5, RowFrame
  <2> QED
    BY <2>4, <2>5
<1>8. CASE MarkEmpty(r)
  BY <1>7, <1>8 DEF MarkEmpty, WorkPc
<1>9. CASE MarkVerified(r)
  <2>1. object[cur[r]] = staged[r] /\ pc[r] = "markVerified"
    BY <1>0, <1>9 DEF ProgressOf, MarkVerified
  <2>2. Mark(cur[r], "verified", token[cur[r]], path \cup {cur[r]}, Cardinality(staged[r]))
    BY <1>9 DEF MarkVerified
  <2> QED
    BY <1>7, <2>1, <2>2 DEF WorkPc
<1>10. CASE Release(r)
  <2>1. status[cur[r]] = "verified" /\ pc[r] = "release"
    BY <1>0, <1>10 DEF ClaimOf, Release
  <2>2. Mark(cur[r], "verified", NoRun, path, rows[cur[r]])
    BY <1>10, <2>1 DEF Release
  <2> QED
    BY <1>0, <1>7, <2>1, <2>2 DEF WorkPc, RowOf
<1>11. CASE MarkDone(r)
  <2>1. pc[r] = "markDone" /\ HotOf(cur[r]) = {}
    BY <1>0, <1>11 DEF ProgressOf, MarkDone
  <2>2. CASE Free(r, cur[r])
    <3>1. FreeRows(cur[r]) = PrunedOf(cur[r])
      BY <2>1 DEF FreeRows, PrunedOf, HotOf
    <3>2. Mark(cur[r], "pruned", NoRun, path \ {cur[r]}, total[r])
      BY <1>11, <2>2 DEF MarkDone
    <3> QED
      BY <1>0, <1>7, <2>1, <2>2, <3>1, <3>2 DEF TotalOf, PrunePc, WorkPc
  <2>3. CASE ~Free(r, cur[r])
    <3>1. status[cur[r]] = "verified"
      BY <1>0, <2>1, <2>3 DEF ClaimOf, Trimming, DeletePc
    <3>2. Mark(cur[r], "deleted", NoRun, path, rows[cur[r]])
      BY <1>11, <2>3 DEF MarkDone
    <3> QED
      BY <1>0, <1>7, <2>1, <3>1, <3>2 DEF WorkPc, RowOf
  <2> QED
    BY <2>2, <2>3
<1>12. CASE MarkFailed(r)
  BY <1>7, <1>12 DEF MarkFailed, WorkPc
<1> QED
  BY <1>2, <1>3, <1>4, <1>5, <1>6, <1>8, <1>9, <1>10, <1>11, <1>12 DEF RunStep, Step

\* The other runs, short of a fault.
LEMMA CleanElsewhere ==
  ASSUME IInv, PanelInv, faults = 0, NEW r \in Run, RunStep(r), NEW q \in Run \ {r},
         pc[q] \in WorkPc => object'[cur[q]] = object[cur[q]] /\ PrunedOf(cur[q])' = PrunedOf(cur[q]),
         ClaimWon(q)' => ClaimWon(q)
  PROVE  CleanRun(q)'
<1>1. UNCHANGED <<pc[q], cur[q], tier[q], staged[q]>>
  BY PanelElsewhere DEF IInv
<1>2. CleanRun(q)
  BY DEF PanelInv, CleanInv
<1> QED
  BY <1>1, <1>2 DEF CleanRun, WorkPc, Free

\* A step that writes nothing, of a run that has no partition or keeps it.
LEMMA CleanQuiet ==
  ASSUME IInv, PanelInv, faults = 0, NEW r \in Run, RunStep(r),
         UNCHANGED <<status, token, stale, object, pruned>>,
         pc[r] \in WorkPc => pc'[r] \in WorkPc /\ cur'[r] = cur[r],
         CleanRun(r)'
  PROVE  CleanInv'
<1>1. \A p : PrunedOf(p)' = PrunedOf(p)
  BY DEF PrunedOf, Rows
<1>2. ASSUME NEW q \in Run \ {r} PROVE UNCHANGED <<pc[q], cur[q]>> /\ CleanRun(q)'
  <2>1. UNCHANGED <<pc[q], cur[q]>>
    BY PanelElsewhere DEF IInv
  <2>2. PrunedOf(cur[q])' = PrunedOf(cur[q]) /\ (ClaimWon(q)' => ClaimWon(q))
    BY <1>1, <2>1 DEF ClaimWon, PrunedOf, Rows
  <2> QED
    BY <2>1, <2>2, CleanElsewhere
<1>3. ASSUME NEW p \in Partition PROVE CleanOf(p)'
  <2>1. CleanOf(p)
    BY DEF PanelInv, CleanInv
  <2>2. status[p] = "exporting" => \E q \in Run : pc'[q] \in WorkPc /\ cur'[q] = p
    <3>1. \A q \in Run : pc[q] \in WorkPc /\ cur[q] = p => pc'[q] \in WorkPc /\ cur'[q] = p
      BY <1>2
    <3> QED
      BY <2>1, <3>1 DEF CleanOf
  <2> QED
    BY <1>1, <2>1, <2>2 DEF CleanOf
<1> QED
  BY <1>2, <1>3 DEF CleanInv

\* A mark that ends a claim.
LEMMA CleanMark ==
  ASSUME IInv, PanelInv, faults = 0, NEW r \in Run, RunStep(r), pc[r] \in WorkPc,
         NEW st \in {"verified", "deleted", "pruned"}, NEW tok \in {NoRun, r}, NEW ps, NEW n,
         Mark(cur[r], st, tok, ps, n), CleanRun(r)'
  PROVE  CleanInv'
<1>1. /\ cur[r] \in Partition /\ ClaimOf(r)
      /\ status \in [Partition -> Status] /\ token \in [Partition -> Run \cup {NoRun}]
  BY DEF IInv, TypeOK, WorkType, LedgerType, ClaimInv
<1>2. status[cur[r]] # "none"
  BY <1>1 DEF ClaimOf, WorkPc, Trimming, DeletePc
<1>3. /\ status' = [status EXCEPT ![cur[r]] = st] /\ token' = [token EXCEPT ![cur[r]] = tok]
      /\ stale' = stale \ {cur[r]} /\ UNCHANGED <<object, pruned>>
  BY <1>2 DEF Mark, dataVars
<1>4. \A p : PrunedOf(p)' = PrunedOf(p)
  BY <1>3 DEF PrunedOf, Rows
<1>5. ASSUME NEW q \in Run \ {r} PROVE UNCHANGED <<pc[q], cur[q]>> /\ CleanRun(q)'
  <2>1. UNCHANGED <<pc[q], cur[q]>> /\ cur[q] \in Partition
    BY PanelElsewhere DEF IInv, TypeOK, WorkType
  <2>2. PrunedOf(cur[q])' = PrunedOf(cur[q])
    BY <1>4, <2>1 DEF PrunedOf, Rows
  <2>3. ClaimWon(q)' => ClaimWon(q)
    BY <1>1, <1>3, <2>1 DEF ClaimWon
  <2> QED
    BY <1>3, <2>1, <2>2, <2>3, CleanElsewhere
<1>6. ASSUME NEW p \in Partition PROVE CleanOf(p)'
  <2>1. CleanOf(p)
    BY DEF PanelInv, CleanInv
  <2>2. CASE p = cur[r]
    BY <1>1, <1>3, <2>1, <2>2 DEF CleanOf
  <2>3. CASE p # cur[r]
    <3>1. status'[p] = status[p]
      BY <1>1, <1>3, <2>3
    <3>2. status[p] = "exporting" => \E q \in Run : pc'[q] \in WorkPc /\ cur'[q] = p
      <4>1. \A q \in Run : pc[q] \in WorkPc /\ cur[q] = p => pc'[q] \in WorkPc /\ cur'[q] = p
        BY <1>5, <2>3
      <4> QED
        BY <2>1, <4>1 DEF CleanOf
    <3> QED
      BY <1>3, <1>4, <2>1, <3>1, <3>2 DEF CleanOf
  <2> QED
    BY <2>2, <2>3
<1> QED
  BY <1>5, <1>6 DEF CleanInv

LEMMA CleanStep ==
  ASSUME IInv, PanelInv, NEW r \in Run, RunStep(r), faults = 0, faults' = 0
  PROVE  CleanInv'
<1>0. /\ TypeOK /\ pc \in [Run -> Pc] /\ cur \in [Run -> Partition] /\ cur[r] \in Partition
      /\ ProgressOf(r) /\ ClaimOf(r) /\ CleanRun(r)
      /\ status \in [Partition -> Status] /\ object \in [Partition -> SUBSET Entry]
      /\ token \in [Partition -> Run \cup {NoRun}] /\ staged[r] \in SUBSET Entry
      /\ \A p \in Partition : CleanOf(p)
  BY DEF IInv, TypeOK, WorkType, LedgerType, DataType, ProgressInv, ClaimInv, PanelInv, CleanInv
<1>1. \A kind : ~Fault(kind)
  BY DEF Fault
<1> USE DEF planVars, workVars, storeVars, dataVars, ledgerVars, WorkPc
<1>2. CASE ListAged(r) \/ ListLedger(r) \/ LookUpPlans(r) \/ Finish(r)
             \/ (\E p \in Partition : SkipInGrace(r, p) \/ ClaimConflict(r, p)) \/ ReadBack(r)
  <2>1. UNCHANGED <<status, token, stale, object, pruned>> /\ pc[r] \notin WorkPc
    BY <1>2 DEF ListAged, ListLedger, LookUpPlans, Finish, SkipInGrace, ClaimConflict, ReadBack, IsNext
  <2>2. pc'[r] \in {"ledger", "plans", "next", "idle", "reclaim"}
    BY <1>0, <1>2 DEF ListAged, ListLedger, LookUpPlans, Finish, Forget, SkipInGrace, ClaimConflict,
       IsNext, ReadBack, Return, CleanRun
  <2>3. CleanRun(r)'
    BY <2>2 DEF CleanRun
  <2> QED
    BY <2>1, <2>3, CleanQuiet
<1>3. CASE Reclaim(r)
  <2>1. /\ pc[r] = "reclaim" /\ ~Reclaimable(cur[r])
    BY <1>0, <1>3 DEF Reclaim, Reclaimable, CleanOf
  <2>2. /\ UNCHANGED <<status, token, stale, object, pruned, cur>> /\ pc'[r] = "readBack"
    BY <1>0, <1>3, <2>1 DEF Reclaim
  <2>3. ~ClaimWon(r)
    <3>1. SUFFICES ASSUME ClaimWon(r) PROVE FALSE
      OBVIOUS
    <3>2. PICK q \in Run : pc[q] \in WorkPc /\ cur[q] = cur[r]
      BY <1>0, <3>1 DEF CleanOf, ClaimWon
    <3>3. token[cur[r]] = q
      BY <3>2 DEF IInv, ClaimInv, ClaimOf
    <3> QED
      BY <2>1, <3>1, <3>2, <3>3 DEF ClaimWon
  <2>4. CleanRun(r)'
    BY <2>2, <2>3 DEF CleanRun, ClaimWon
  <2> QED
    BY <2>1, <2>2, <2>4, CleanQuiet
<1>4. CASE AssertClaimed(r) \/ StagePage(r) \/ Verify(r) \/ CountDay(r) \/ More(r)
  <2>1. UNCHANGED <<status, token, stale, object, pruned>>
    BY <1>4 DEF AssertClaimed, StagePage, Verify, CountDay, More
  <2>2. AssertClaimed(r) => status[cur[r]] # "none"
    BY <1>0 DEF AssertClaimed, ClaimOf, Trimming, DeletePc
  <2>3. cur' = cur /\ tier' = tier
    BY <1>4, <2>2 DEF AssertClaimed, StagePage, Verify, CountDay, More, Goto
  <2>4. \/ pc'[r] \in {"stage", "markEmpty", "copy", "markVerified", "markDone", "batch"}
        \/ pc[r] = "assert" /\ pc'[r] = "count"
    <3>1. CASE AssertClaimed(r)
      BY <1>0, <2>2, <3>1 DEF AssertClaimed, Goto
    <3>2. CASE StagePage(r)
      BY <1>0, <3>2 DEF StagePage, Goto
    <3>3. CASE Verify(r)
      BY <1>0, <1>1, <3>3 DEF Verify, Goto, CleanRun
    <3>4. CASE CountDay(r)
      BY <1>0, <3>4 DEF CountDay, Goto
    <3>5. CASE More(r)
      BY <1>0, <3>5 DEF More, Goto, ProgressOf
    <3> QED
      BY <1>4, <3>1, <3>2, <3>3, <3>4, <3>5
  <2>5. CleanRun(r)'
    BY <1>0, <2>1, <2>3, <2>4 DEF CleanRun, Free, PrunedOf, Rows
  <2>6. pc'[r] \in WorkPc
    BY <2>4
  <2> QED
    BY <2>1, <2>3, <2>5, <2>6, CleanQuiet
<1>5. CASE MarkEmpty(r) \/ Release(r) \/ MarkDone(r) \/ MarkVerified(r)
  <2>1. PICK st, tok, ps, n : /\ st \in {"verified", "deleted", "pruned"} /\ tok \in {NoRun, r}
                              /\ Mark(cur[r], st, tok, ps, n)
    <3>1. CASE MarkEmpty(r) \/ MarkDone(r)
      BY <3>1 DEF MarkEmpty, MarkDone
    <3>2. CASE Release(r)
      <4>1. status[cur[r]] = "verified"
        BY <1>0, <3>2 DEF Release, ClaimOf
      <4> QED
        BY <3>2, <4>1 DEF Release
    <3>3. CASE MarkVerified(r)
      <4>1. token[cur[r]] = r
        BY <1>0, <3>3 DEF MarkVerified, ClaimOf
      <4> QED
        BY <3>3, <4>1 DEF MarkVerified
    <3> QED
      BY <1>5, <3>1, <3>2, <3>3
  <2>2. pc[r] \in WorkPc
    BY <1>5 DEF MarkEmpty, Release, MarkDone, MarkVerified
  <2>3. CleanRun(r)'
    <3>1. CASE MarkEmpty(r) \/ Release(r) \/ MarkDone(r)
      <4>1. pc'[r] = "next"
        BY <1>0, <3>1 DEF MarkEmpty, Release, MarkDone, Return
      <4> QED
        BY <4>1 DEF CleanRun
    <3>2. CASE MarkVerified(r)
      <4>1. ~Free(r, cur[r])' /\ pc'[r] \in {"count", "release"}
        BY <1>0, <3>2 DEF MarkVerified, Goto, ProgressOf, Free
      <4> QED
        BY <4>1 DEF CleanRun
    <3> QED
      BY <1>5, <3>1, <3>2
  <2> QED
    BY <2>1, <2>2, <2>3, CleanMark
<1>6. ASSUME NEW p \in Partition, ClaimInsert(r, p) PROVE CleanInv'
  <2>1. /\ status' = [status EXCEPT ![p] = "exporting"] /\ token' = [token EXCEPT ![p] = r]
        /\ stale' = stale \ {p} /\ UNCHANGED <<object, pruned>>
        /\ status[p] = "none" /\ pc[r] = "next"
        /\ pc'[r] = "assert" /\ cur'[r] = p
    BY <1>0, <1>6 DEF ClaimInsert, IsNext
  <2>2. \A q : PrunedOf(q)' = PrunedOf(q)
    BY <2>1 DEF PrunedOf, Rows
  <2>3. CleanRun(r)'
    BY <1>0, <2>1, <2>2 DEF CleanRun, CleanOf, PrunedOf, Rows
  <2>4. ASSUME NEW q \in Run \ {r} PROVE UNCHANGED <<pc[q], cur[q]>> /\ CleanRun(q)'
    <3>1. UNCHANGED <<pc[q], cur[q]>> /\ cur[q] \in Partition
      BY <1>0, PanelElsewhere
    <3>2. PrunedOf(cur[q])' = PrunedOf(cur[q])
      BY <2>2, <3>1 DEF PrunedOf, Rows
    <3>3. ClaimWon(q)' => ClaimWon(q)
      BY <1>0, <2>1, <3>1 DEF ClaimWon
    <3> QED
      BY <2>1, <3>1, <3>2, <3>3, CleanElsewhere
  <2>5. ASSUME NEW q \in Partition PROVE CleanOf(q)'
    <3>1. CASE q = p
      BY <1>0, <2>1, <3>1 DEF CleanOf
    <3>2. CASE q # p
      <4>1. status'[q] = status[q] /\ CleanOf(q)
        BY <1>0, <2>1, <3>2
      <4>2. status[q] = "exporting" => \E s \in Run : pc'[s] \in WorkPc /\ cur'[s] = q
        <5>1. \A s \in Run : pc[s] \in WorkPc /\ cur[s] = q => pc'[s] \in WorkPc /\ cur'[s] = q
          BY <2>1, <2>4
        <5> QED
          BY <4>1, <5>1 DEF CleanOf
      <4> QED
        BY <2>1, <2>2, <4>1, <4>2 DEF CleanOf
    <3> QED
      BY <3>1, <3>2
  <2> QED
    BY <2>3, <2>4, <2>5 DEF CleanInv
\* Steps that write rows or an object of the partition in hand alone.
<1>7. ASSUME UNCHANGED <<status, token, stale>>, pc[r] \in WorkPc, pc'[r] \in WorkPc, cur' = cur,
             status[cur[r]] # "none",
             \A p \in Partition \ {cur[r]} : PrunedOf(p)' = PrunedOf(p) /\ object'[p] = object[p],
             CleanRun(r)'
      PROVE  CleanInv'
  <2>1. ASSUME NEW q \in Run \ {r} PROVE UNCHANGED <<pc[q], cur[q]>> /\ CleanRun(q)'
    <3>1. UNCHANGED <<pc[q], cur[q]>> /\ cur[q] \in Partition
      BY <1>0, PanelElsewhere
    <3>2. pc[q] \in WorkPc => cur[q] # cur[r]
      BY <1>7, Exclusive DEF IInv
    <3>3. pc[q] \in WorkPc => object'[cur[q]] = object[cur[q]] /\ PrunedOf(cur[q])' = PrunedOf(cur[q])
      <4>1. SUFFICES ASSUME pc[q] \in WorkPc
                     PROVE  object'[cur[q]] = object[cur[q]] /\ PrunedOf(cur[q])' = PrunedOf(cur[q])
        OBVIOUS
      <4>2. PICK p \in Partition \ {cur[r]} : p = cur[q]
        BY <3>1, <3>2, <4>1
      <4>3. PrunedOf(p)' = PrunedOf(p) /\ object'[p] = object[p]
        BY <1>7, <4>2
      <4> QED
        BY <3>1, <4>2, <4>3 DEF PrunedOf, Rows
    <3>4. ClaimWon(q)' => ClaimWon(q)
      BY <1>7 DEF ClaimWon
    <3> QED
      BY <3>1, <3>3, <3>4, CleanElsewhere
  <2>2. ASSUME NEW p \in Partition PROVE CleanOf(p)'
    <3>1. CleanOf(p)
      BY <1>0
    <3>2. status[p] = "none" => PrunedOf(p)' = PrunedOf(p)
      BY <1>7
    <3>3. status[p] = "exporting" => \E q \in Run : pc'[q] \in WorkPc /\ cur'[q] = p
      <4>1. \A q \in Run : pc[q] \in WorkPc /\ cur[q] = p => pc'[q] \in WorkPc /\ cur'[q] = p
        BY <1>7, <2>1
      <4> QED
        BY <3>1, <4>1 DEF CleanOf
    <3> QED
      BY <1>7, <3>1, <3>2, <3>3 DEF CleanOf
  <2> QED
    BY <1>7, <2>1, <2>2 DEF CleanInv
<1>8. CASE DeleteBatch(r)
  <2>1. /\ UNCHANGED <<status, token, stale, object, cur>> /\ pc[r] = "batch" /\ pc'[r] = "more"
    BY <1>0, <1>8 DEF DeleteBatch, Goto
  <2>2. status[cur[r]] # "none"
    BY <1>0, <2>1 DEF ClaimOf, Trimming
  <2>3. CleanRun(r)'
    BY <2>1 DEF CleanRun
  <2> QED
    BY <1>7, <1>8, <2>1, <2>2, <2>3, BatchRows
<1>9. CASE Copy(r)
  <2>1. /\ object' = [object EXCEPT ![cur[r]] = staged[r]]
        /\ UNCHANGED <<status, token, stale, cur, staged, pruned>> /\ pc[r] = "copy" /\ pc'[r] = "verify"
    BY <1>0, <1>1, <1>9 DEF Copy, Goto
  <2>2. status[cur[r]] # "none"
    BY <1>0, <2>1 DEF ClaimOf, Trimming, DeletePc
  <2>3. CleanRun(r)'
    BY <1>0, <2>1 DEF CleanRun
  <2>4. \A p \in Partition \ {cur[r]} : PrunedOf(p)' = PrunedOf(p) /\ object'[p] = object[p]
    BY <1>0, <2>1 DEF PrunedOf, Rows
  <2> QED
    BY <1>7, <2>1, <2>2, <2>3, <2>4
<1>10. ~MarkFailed(r) /\ ~ThrowInside(r) /\ ~ThrowOutside(r) /\ ~Crash(r)
  BY <1>0, <1>1 DEF MarkFailed, CleanRun, ThrowInside, ThrowOutside, Crash
<1> QED
  BY <1>2, <1>3, <1>4, <1>5, <1>6, <1>8, <1>9, <1>10 DEF RunStep, Step

LEMMA PanelInvNext ==
  ASSUME Tolerated, IInv, PanelInv, [Next]_vars
  PROVE  PanelInv'
<1>1. faults' = 0 => faults = 0
  BY FaultsGrow DEF IInv
<1>2. CASE Environment \/ UNCHANGED vars
  BY <1>1, <1>2, PanelWorld
<1>3. ASSUME NEW r \in Run, RunStep(r) PROVE PanelInv'
  <2>1. \A p \in Partition : RowOf(p)'
    BY <1>1, <1>3, RowStep
  <2>2. TotalOf(r)'
    BY <1>1, <1>3, TotalStep
  <2>3. ASSUME NEW q \in Run \ {r} PROVE TotalOf(q)'
    <3>1. UNCHANGED <<pc[q], cur[q], tier[q], total[q]>> /\ cur[q] \in Partition
      BY <1>3, PanelElsewhere DEF IInv, TypeOK, WorkType
    <3>2. pc[q] \in PrunePc => FreeRows(cur[q])' = FreeRows(cur[q])
      <4>1. CASE DeleteBatch(r)
        <5>1. pc[q] \in PrunePc => cur[q] # cur[r]
          BY <4>1, Exclusive DEF IInv, DeleteBatch, PrunePc, WorkPc
        <5> QED
          BY <3>1, <4>1, <5>1, BatchRows DEF FreeRows, Rows
      <4>2. CASE ~DeleteBatch(r)
        <5>1. UNCHANGED <<hot, pruned>>
          <6>1. CASE Copy(r)
            BY <6>1 DEF Copy
          <6> QED
            BY <1>3, <4>2, <6>1, RestStill DEF RunStep, Contents
        <5> QED
          BY <3>1, <5>1 DEF FreeRows, Rows
      <4> QED
        BY <4>1, <4>2
    <3> QED
      BY <1>1, <3>1, <3>2, TotalFrame DEF PanelInv
  <2>4. CleanInv'
    BY <1>1, <1>3, CleanStep DEF CleanInv
  <2> QED
    BY <2>1, <2>2, <2>3, <2>4 DEF PanelInv
<1> QED
  BY <1>2, <1>3 DEF Next, RunStep

\* The rows of some partitions, each given as a set of entries.
RowSets(S, C) == UNION { C[p] : p \in S }

\* One partition more adds its rows, which no other has.
LEMMA RowSetsAdd ==
  ASSUME NEW S, NEW C \in [S -> SUBSET Entry],
         \A p, q \in S : p # q => C[p] \cap C[q] = {},
         NEW s \in SUBSET S, NEW p \in s
  PROVE  Cardinality(RowSets(s, C)) = Cardinality(C[p]) + Cardinality(RowSets(s \ {p}, C))
<1>1. RowSets(s, C) = C[p] \cup RowSets(s \ {p}, C)
  BY DEF RowSets
<1>2. C[p] \cap RowSets(s \ {p}, C) = {}
  BY DEF RowSets
<1>3. C[p] \in SUBSET Entry /\ RowSets(s \ {p}, C) \in SUBSET Entry
  BY DEF RowSets
<1> DEFINE rest == RowSets(s \ {p}, C)
<1>4. IsFiniteSet(C[p]) /\ IsFiniteSet(rest) /\ Cardinality(C[p]) \in Nat /\ Cardinality(rest) \in Nat
  BY <1>3, EntrySets
<1> HIDE DEF rest
<1>5. Cardinality(C[p] \cup rest) = Cardinality(C[p]) + Cardinality(rest) - Cardinality(C[p] \cap rest)
  BY <1>4, FS_Union
<1>6. Cardinality(C[p] \cap rest) = 0
  BY <1>2, FS_EmptySet DEF rest
<1>7. Cardinality(C[p] \cup rest) = Cardinality(C[p]) + Cardinality(rest)
  BY <1>4, <1>5, <1>6
<1> QED
  BY <1>1, <1>7 DEF rest

\* The fold of RowsOf, over the partitions of S.
Adds(S, sum) ==
  sum = [s \in SUBSET S |->
           IF s = {} THEN 0
           ELSE rows[CHOOSE p \in s : TRUE] + sum[s \ {CHOOSE p \in s : TRUE}]]

LEMMA RowsOfAdds ==
  ASSUME NEW statuses
  PROVE  LET S == { p \in Partition : ProjectOf[p] = Viewed /\ status[p] \in statuses }
         IN  RowsOf(statuses) = (CHOOSE sum : Adds(S, sum))[S]
  BY DEF RowsOf, FoldSet, MapThenFoldSet, Adds

\* The sum of the row_counts is the size of the union of what they count: the
\* smallest set of partitions that the fold got wrong would have a smaller one.
LEMMA SumOfRows ==
  ASSUME NEW S, IsFiniteSet(S), NEW C \in [S -> SUBSET Entry],
         \A p, q \in S : p # q => C[p] \cap C[q] = {},
         \A p \in S : rows[p] = Cardinality(C[p])
  PROVE  (CHOOSE sum : Adds(S, sum))[S] = Cardinality(RowSets(S, C))
<1> DEFINE size == [s \in SUBSET S |-> Cardinality(RowSets(s, C))]
           first(s) == CHOOSE p \in s : TRUE
<1>1. \A s \in SUBSET S : s # {} => first(s) \in s
  OBVIOUS
<1>2. RowSets({}, C) = {} /\ Cardinality({}) = 0
  BY FS_EmptySet DEF RowSets
<1>3. ASSUME NEW s \in SUBSET S, s # {}
      PROVE  size[s] = rows[first(s)] + size[s \ {first(s)}]
  <2>1. first(s) \in s /\ s \ {first(s)} \in SUBSET S /\ first(s) \in S
    BY <1>1, <1>3
  <2> HIDE DEF first
  <2> QED
    BY <2>1, RowSetsAdd
<1>4. size[{}] = 0
  BY <1>2
<1>5. Adds(S, size)
  <2>1. size = [s \in SUBSET S |-> IF s = {} THEN 0 ELSE rows[first(s)] + size[s \ {first(s)}]]
    <3> DEFINE G == [s \in SUBSET S |-> IF s = {} THEN 0 ELSE rows[first(s)] + size[s \ {first(s)}]]
    <3>1. \A s \in SUBSET S : size[s] = G[s]
      <4> HIDE DEF size, first
      <4> QED BY <1>3, <1>4
    <3>2. size = [s \in SUBSET S |-> size[s]] /\ G = [s \in SUBSET S |-> G[s]]
      OBVIOUS
    <3> HIDE DEF size, G
    <3>3. [s \in SUBSET S |-> size[s]] = [s \in SUBSET S |-> G[s]]
      BY <3>1
    <3>4. size = G
      BY <3>2, <3>3
    <3> QED
      BY <3>4 DEF G
  <2> HIDE DEF size
  <2> QED
    BY <2>1 DEF Adds
<1> HIDE DEF size
<1> DEFINE sum == CHOOSE f : Adds(S, f)
<1>6. Adds(S, sum)
  BY <1>5
<1> HIDE DEF sum
<1>7. ASSUME NEW s \in SUBSET S
      PROVE  sum[s] = IF s = {} THEN 0 ELSE rows[first(s)] + sum[s \ {first(s)}]
  BY <1>6 DEF Adds
<1> HIDE DEF first
<1> DEFINE wrong == { s \in SUBSET S : sum[s] # size[s] }
<1>8. ASSUME wrong # {} PROVE FALSE
  <2> DEFINE sizes == { Cardinality(s) : s \in wrong }
  <2>1. \A s \in SUBSET S : IsFiniteSet(s) /\ Cardinality(s) \in Nat
    BY FS_Subset, FS_CardinalityType
  <2>2. sizes \in SUBSET Nat /\ sizes # {}
    BY <1>8, <2>1
  <2>3. PICK m \in sizes : \A n \in sizes : m <= n
    <3> HIDE DEF sizes
    <3> QED BY <2>2, LeastNumber
  <2>4. PICK s \in wrong : m = Cardinality(s)
    BY <2>3
  <2>5. s # {}
    BY <1>4, <1>7, <2>4
  <2>6. first(s) \in s /\ s \ {first(s)} \in SUBSET S
    BY <1>1, <2>5
  <2>7. Cardinality(s \ {first(s)}) = Cardinality(s) - 1 /\ Cardinality(s) \in Nat
    BY <2>1, <2>4, <2>6, FS_RemoveElement
  <2>8. s \ {first(s)} \notin wrong
    <3>1. s \ {first(s)} \in wrong => Cardinality(s) <= Cardinality(s \ {first(s)})
      BY <2>3, <2>4
    <3> QED
      BY <2>7, <3>1
  <2>9. sum[s \ {first(s)}] = size[s \ {first(s)}]
    BY <2>6, <2>8
  <2> QED
    BY <1>3, <1>7, <2>4, <2>5, <2>9
<1>9. sum[S] = size[S]
  BY <1>8
<1> QED
  BY <1>9 DEF size, sum

\* A project has one partition per day, and only aged days have a row.
LEMMA RowsFinite ==
  ASSUME IInv, NEW statuses, "none" \notin statuses
  PROVE  IsFiniteSet({ p \in Partition : ProjectOf[p] = Viewed /\ status[p] \in statuses })
<1> DEFINE S == { p \in Partition : ProjectOf[p] = Viewed /\ status[p] \in statuses }
           day == [p \in S |-> DayOf[p]]
<1>1. today \in Nat /\ HotWindow \in Nat /\ 0 \in Int /\ today \in Int
  BY BoundAssumption DEF BoundAssumption, IInv, TypeOK, WorldType
<1>2. ASSUME NEW p \in S PROVE DayOf[p] \in 0 .. today
  <2>1. DayOf[p] \in Nat /\ DayOf[p] < today - HotWindow
    BY DataAssumption DEF DataAssumption, IInv, AgedInv, Aged
  <2> QED
    BY <1>1, <2>1
<1>3. \A p, q \in S : day[p] = day[q] => p = q
  BY QueryAssumption DEF QueryAssumption
<1>4. day \in [S -> 0 .. today]
  BY <1>2
<1> HIDE DEF day, S
<1>5. day \in Injection(S, 0 .. today)
  BY <1>3, <1>4 DEF Injection, IsInjective
<1>6. IsFiniteSet(S)
  BY <1>1, <1>5, FS_Interval, FS_Injection
<1> QED
  BY <1>6 DEF S

\* A finite set has a part of every smaller size.
LEMMA PartOfSize ==
  ASSUME NEW T, IsFiniteSet(T), NEW n \in Nat, n <= Cardinality(T)
  PROVE  \E U \in SUBSET T : Cardinality(U) = n
<1>1. PICK f : f \in Bijection(1 .. Cardinality(T), T)
  BY FS_CardinalityType DEF ExistsBijection
<1>2. Cardinality(T) \in Nat
  BY FS_CardinalityType
<1> DEFINE U == { f[i] : i \in 1 .. n }
           g == [i \in 1 .. n |-> f[i]]
<1>3. 1 .. n \subseteq 1 .. Cardinality(T)
  BY <1>2
<1>4. /\ f \in [1 .. Cardinality(T) -> T]
      /\ \A i, j \in 1 .. Cardinality(T) : f[i] = f[j] => i = j
  BY <1>1 DEF Bijection, Injection, IsInjective
<1>5. U \in SUBSET T
  BY <1>3, <1>4
<1>6. g \in Bijection(1 .. n, U)
  BY <1>3, <1>4 DEF Bijection, Injection, Surjection, IsInjective
<1>7. IsFiniteSet(1 .. n) /\ Cardinality(1 .. n) = n
  BY FS_Interval
<1> HIDE DEF U, g
<1>8. Cardinality(U) = n
  BY <1>6, <1>7, FS_Bijection DEF ExistsBijection
<1> QED
  BY <1>5, <1>8

LEMMA InvPanelFits == IInv /\ PanelInv => PanelFits
<1> SUFFICES ASSUME IInv, PanelInv PROVE PanelFits
  OBVIOUS
<1> DEFINE of(statuses) == { e \in Entry : /\ ProjectOf[PartOf[e]] = Viewed
                                           /\ status[PartOf[e]] \in statuses }
           days(statuses) == { p \in Partition : ProjectOf[p] = Viewed /\ status[p] \in statuses }
<1>1. /\ PartOf \in [Entry -> Partition] /\ object \in [Partition -> SUBSET Entry]
      /\ rows \in [Partition -> Nat] /\ pruned \in SUBSET Entry
      /\ \A p \in Partition : RowOf(p) /\ Rows(p) \in SUBSET Entry
  BY DataAssumption DEF DataAssumption, IInv, TypeOK, DataType, LedgerType, PanelInv, Rows
<1>2. \A p, q \in Partition : p # q => Rows(p) \cap Rows(q) = {}
  BY DEF Rows
\* It is enough to say which rows each row_count counts.
<1>3. ASSUME NEW statuses, "none" \notin statuses, NEW C \in [days(statuses) -> SUBSET Entry],
             \A p \in days(statuses) : C[p] \subseteq Rows(p) /\ rows[p] = Cardinality(C[p])
      PROVE  RowsOf(statuses) = Cardinality(RowSets(days(statuses), C))
  <2>1. IsFiniteSet(days(statuses))
    BY <1>3, RowsFinite
  <2>2. \A p, q \in days(statuses) : p # q => C[p] \cap C[q] = {}
    BY <1>2, <1>3
  <2>3. RowsOf(statuses) = (CHOOSE sum : Adds(days(statuses), sum))[days(statuses)]
    BY RowsOfAdds
  <2> HIDE DEF days
  <2> QED
    BY <1>3, <2>1, <2>2, <2>3, SumOfRows
<1>4. ArchivedRows =
        Cardinality({ e \in of({"verified", "deleted"}) \cap Archived : PartOf[e] \in path })
  <2> DEFINE S == days({"verified", "deleted"})
             C == [p \in S |-> IF p \in path THEN object[p] ELSE {}]
  <2>1. C \in [S -> SUBSET Entry]
    BY <1>1
  <2>2. \A p \in S : C[p] \subseteq Rows(p) /\ rows[p] = Cardinality(C[p])
    BY <1>1, FS_EmptySet DEF RowOf
  <2>3. RowSets(S, C) = { e \in of({"verified", "deleted"}) \cap Archived : PartOf[e] \in path }
    <3>1. ASSUME NEW e \in Entry
          PROVE  e \in RowSets(S, C) <=>
                   PartOf[e] \in S /\ e \in object[PartOf[e]] /\ PartOf[e] \in path
      <4>1. \A p \in S : e \in C[p] <=> p = PartOf[e] /\ e \in object[p] /\ p \in path
        BY <1>1, <2>2 DEF RowOf, Rows
      <4> HIDE DEF S, C
      <4> QED
        BY <4>1 DEF RowSets
    <3>2. RowSets(S, C) \in SUBSET Entry
      BY <2>1 DEF RowSets
    <3> QED
      BY <1>1, <3>1, <3>2 DEF Archived
  <2> HIDE DEF C
  <2>4. RowsOf({"verified", "deleted"}) = Cardinality(RowSets(S, C))
    BY <1>3, <2>1, <2>2
  <2> QED
    BY <2>3, <2>4 DEF ArchivedRows
<1>5. PrunedRows <= Cardinality(pruned)
  <2> DEFINE S == days({"pruned"})
             C == [p \in S |-> CHOOSE U \in SUBSET PrunedOf(p) : Cardinality(U) = rows[p]]
  <2>1. ASSUME NEW p \in S PROVE C[p] \in SUBSET PrunedOf(p) /\ Cardinality(C[p]) = rows[p]
    <3>1. PrunedOf(p) \in SUBSET Entry /\ rows[p] \in Nat /\ rows[p] <= Cardinality(PrunedOf(p))
      BY <1>1 DEF RowOf, PrunedOf
    <3>2. \E U \in SUBSET PrunedOf(p) : Cardinality(U) = rows[p]
      BY <3>1, EntrySets, PartOfSize
    <3> QED
      BY <3>2
  <2>2. C = [p \in S |-> C[p]]
    OBVIOUS
  <2> HIDE DEF C
  <2>3. C \in [S -> SUBSET Entry] /\ \A p \in S : C[p] \subseteq Rows(p) /\ rows[p] = Cardinality(C[p])
    BY <1>1, <2>1, <2>2 DEF PrunedOf
  <2>4. RowSets(S, C) \in SUBSET pruned
    BY <2>1 DEF RowSets, PrunedOf
  <2>5. RowsOf({"pruned"}) = Cardinality(RowSets(S, C))
    BY <1>3, <2>3
  <2>6. Cardinality(RowSets(S, C)) <= Cardinality(pruned)
    BY <1>1, <2>4, EntrySets, FS_Subset
  <2> QED
    BY <2>5, <2>6 DEF PrunedRows
<1>6. ASSUME faults = 0 PROVE PrunedRows = Cardinality(of({"pruned"}) \cap pruned)
  <2> DEFINE S == days({"pruned"})
             C == [p \in S |-> PrunedOf(p)]
  <2>1. /\ C \in [S -> SUBSET Entry]
        /\ \A p \in S : C[p] \subseteq Rows(p) /\ rows[p] = Cardinality(C[p])
    BY <1>1, <1>6 DEF RowOf, PrunedOf
  <2>2. RowSets(S, C) = of({"pruned"}) \cap pruned
    <3>1. ASSUME NEW e \in Entry
          PROVE  e \in RowSets(S, C) <=> PartOf[e] \in S /\ e \in pruned
      <4>1. \A p \in S : e \in C[p] <=> p = PartOf[e] /\ e \in pruned
        BY DEF PrunedOf, Rows
      <4> HIDE DEF S, C
      <4> QED
        BY <4>1 DEF RowSets
    <3>2. RowSets(S, C) \in SUBSET Entry
      BY <2>1 DEF RowSets
    <3> QED
      BY <1>1, <3>1, <3>2
  <2> HIDE DEF C
  <2>3. RowsOf({"pruned"}) = Cardinality(RowSets(S, C))
    BY <1>3, <2>1
  <2> QED
    BY <2>2, <2>3 DEF PrunedRows
<1> QED
  BY <1>4, <1>5, <1>6 DEF PanelFits

\* query.ts:285-320 (PanelFits).  Short of the faults Tolerated names, the panel
\* reports as archived just what its objects hold, and as pruned no more than
\* was; for any number of runs, days, rows and crashes.
THEOREM PanelIsHonest ==
  ASSUME Tolerated PROVE QuerySpec => []PanelFits
<1>1. QueryInit => IInv /\ PanelInv
  BY InvInit, PanelInvInit DEF QueryInit
<1>2. IInv /\ PanelInv /\ [QueryNext]_<<vars, queryVars>> => (IInv /\ PanelInv)'
  BY InvNext, PanelInvNext, QueryIsExport
<1> QED
  BY <1>1, <1>2, InvPanelFits, PTL DEF QuerySpec
=============================================================================
