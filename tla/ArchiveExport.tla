---------------------------- MODULE ArchiveExport ----------------------------
(***************************************************************************)
(* The nightly log archive of app/Archive/exporter.ts: runs that claim a   *)
(* (project, UTC day) partition in the archive_partitions ledger, write    *)
(* its rows to one Parquet object, read the object back, and then delete   *)
(* the rows from log_entries; or, for a free project, delete them without  *)
(* archiving.  There are no transactions anywhere in the program, so one   *)
(* action here is one database or object-store call, and runs interleave   *)
(* between any two of them.                                                *)
(*                                                                         *)
(* Partitions and entries are numbered in the order the code's ORDER BY    *)
(* clauses give them: (project_id, day) and (timestamp, id).               *)
(***************************************************************************)
EXTENDS Integers, FiniteSets

CONSTANTS
  Entry,        \* log rows, in (timestamp, id) order
  Partition,    \* (project, UTC day) pairs, in (project_id, day) order
  Project,
  Run,          \* callers of runArchive that may overlap: the job, the CLI
  Nightly,      \* those of Run the scheduler starts
  NoRun,        \* the NULL claim_token
  PartOf,       \* the partition an entry's timestamp puts it in
  ProjectOf,
  DayOf,
  Scope,        \* the partitions a run's --project and --day options leave
  Skewed,       \* entries sent with a timestamp older than their arrival
  Switching,    \* projects whose subscription starts or lapses
  HotWindow,    \* ARCHIVE_HOT_WINDOW_DAYS
  Grace,        \* ARCHIVE_FREE_PRUNE_GRACE_DAYS
  PageSize,     \* PAGE_SIZE of stageDay
  BatchSize,    \* DELETE_BATCH of deleteDay
  CopyOnly,     \* the rollout starts with ARCHIVE_DELETE_AFTER_VERIFY=false
  FirstDay,     \* the day the model starts on
  LastDay,      \* bound on the clock
  Faults,       \* the kinds of fault that may happen
  MaxFaults     \* bound on how many do

FaultKind ==
  { "crash",     \* the process running a run dies
    "store",     \* DuckDB or the object store fails or truncates an upload
    "silent",    \* a COPY that wrote nothing reports success
    "db",        \* a database call throws before rows of a Pro day are deleted
    "dbDelete",  \* a database call throws while or after they are deleted
    "overrun",   \* a live run holds a claim for more than STALE_CLAIM_HOURS
    "billing" }  \* the subscription lookup throws

ASSUME DataAssumption ==
  /\ Entry \subseteq Nat /\ IsFiniteSet(Entry)
  /\ Partition \subseteq Nat /\ Partition # {}
  /\ PartOf \in [Entry -> Partition]
  /\ ProjectOf \in [Partition -> Project]
  /\ DayOf \in [Partition -> Nat]
  /\ Scope \in [Run -> SUBSET Partition]
  /\ Skewed \subseteq Entry
  /\ Switching \subseteq Project
  /\ NoRun \notin Run /\ Nightly \subseteq Run

ASSUME BoundAssumption ==
  /\ HotWindow \in Nat /\ Grace \in Nat
  /\ PageSize \in Nat \ {0} /\ BatchSize \in Nat \ {0}
  /\ CopyOnly \in BOOLEAN
  /\ FirstDay \in Nat /\ LastDay \in Nat
  /\ Faults \subseteq FaultKind /\ MaxFaults \in Nat

VARIABLES
  today,        \* the UTC day
  plan,         \* what each project's owner really pays for
  deleteMode,   \* cfg.deleteAfterVerify as the environment sets it
  faults,       \* faults so far
  hot,          \* log_entries
  object,       \* the rows of each partition's Parquet object, {} if none
  status, token, path, rows, stale,   \* the archive_partitions row of each
  pc, now, todo, tier, cur, staged, total, left,   \* of each run
  trim,         \* the runs that started in deletion mode
  accepted,     \* history: every entry ingest ever stored
  pruned,       \* history: every entry the free path deleted
  everFree      \* history: projects that were free at some time

envVars == <<today, plan, deleteMode, everFree>>
ledgerVars == <<status, token, path, rows, stale>>
dataVars == <<hot, object, accepted, pruned>>
storeVars == <<ledgerVars, dataVars>>
planVars == <<now, trim, todo, tier>>
workVars == <<staged, total, left>>
runVars == <<pc, cur, planVars, workVars>>
vars == <<envVars, storeVars, runVars, faults>>

-----------------------------------------------------------------------------
(* State *)

\* A partition's ledger row: its status, where "none" is the absence of a row;
\* its claim_token; its row_count, where 0 is also NULL.  path is the set of
\* partitions whose object_path is set, stale of those whose updated_at is more
\* than STALE_CLAIM_HOURS in the past.
Status == {"none", "exporting", "verified", "deleted", "pruned", "failed"}

\* TERMINAL_STATUSES of partitions.ts.
Terminal == {"verified", "deleted", "pruned"}

Pc == {"idle", "ledger", "plans", "next", "reclaim", "readBack", "assert",
       "stage", "markEmpty", "copy", "verify", "markVerified", "release",
       "count", "batch", "more", "markDone", "markFailed"}

\* A run that won its claim and has not yet given the partition up.
WorkPc == {"assert", "stage", "markEmpty", "copy", "verify", "markVerified",
           "release", "count", "batch", "more", "markDone", "markFailed"}

DeletePc == {"count", "batch", "more", "markDone"}

\* What a run's locals hold outside their scope.
Unset == CHOOSE p \in Partition : TRUE
NoPlans == [j \in Project |-> "free"]

Rows(p) == {e \in Entry : PartOf[e] = p}
HotOf(p) == hot \cap Rows(p)
Archived == {e \in Entry : e \in object[PartOf[e]]}

Free(r, p) == tier[r][ProjectOf[p]] = "free"

\* The claim on p is run r's: it wrote its token and still works under it.
Holds(r, p) ==
  /\ cur[r] = p
  /\ pc[r] \in WorkPc \cup {"readBack"}
  /\ token[p] = r

-----------------------------------------------------------------------------
Init ==
  /\ today = FirstDay
  /\ plan \in [Project -> {"pro", "free"}]
  /\ deleteMode = ~CopyOnly
  /\ faults = 0
  /\ hot = {e \in Entry \ Skewed : DayOf[PartOf[e]] < FirstDay}
  /\ object = [p \in Partition |-> {}]
  /\ status = [p \in Partition |-> "none"]
  /\ token = [p \in Partition |-> NoRun]
  /\ path = {}
  /\ rows = [p \in Partition |-> 0]
  /\ stale = {}
  /\ pc = [r \in Run |-> "idle"]
  /\ now = [r \in Run |-> FirstDay]
  /\ trim = {}
  /\ todo = [r \in Run |-> {}]
  /\ tier = [r \in Run |-> NoPlans]
  /\ cur = [r \in Run |-> Unset]
  /\ staged = [r \in Run |-> {}]
  /\ total = [r \in Run |-> 0]
  /\ left = [r \in Run |-> 0]
  /\ accepted = hot
  /\ pruned = {}
  /\ everFree = {j \in Project : plan[j] = "free"}

-----------------------------------------------------------------------------
(* The world around the exporter *)

\* A new UTC day begins.
Tick ==
  /\ today < LastDay
  /\ today' = today + 1
  /\ UNCHANGED <<plan, deleteMode, everFree, storeVars, runVars, faults>>

\* An owner's subscription starts or lapses.
ChangePlan(j) ==
  /\ j \in Switching
  /\ \E p \in {"pro", "free"} \ {plan[j]} :
       /\ plan' = [plan EXCEPT ![j] = p]
       /\ everFree' = IF p = "free" THEN everFree \cup {j} ELSE everFree
  /\ UNCHANGED <<today, deleteMode, storeVars, runVars, faults>>

\* The operator's last rollout step: deletion is switched on.
EnableDeletion ==
  /\ ~deleteMode
  /\ deleteMode' = TRUE
  /\ UNCHANGED <<today, plan, everFree, storeVars, runVars, faults>>

\* Ingest keeps the client's timestamp, so an entry lands in the partition of
\* that timestamp: today's, unless the client's clock or backlog says older.
Ingest(e) ==
  /\ e \notin accepted
  /\ \/ DayOf[PartOf[e]] = today
     \/ e \in Skewed /\ DayOf[PartOf[e]] < today
  /\ hot' = hot \cup {e}
  /\ accepted' = accepted \cup {e}
  /\ UNCHANGED <<object, pruned, ledgerVars, envVars, runVars, faults>>

\* STALE_CLAIM_HOURS pass since the row's last update.  A live run is done with
\* its partition before that, unless it overruns.
ClaimAges(p) ==
  /\ status[p] = "exporting"
  /\ p \notin stale
  /\ IF \E r \in Run : Holds(r, p)
       THEN /\ "overrun" \in Faults /\ faults < MaxFaults
            /\ faults' = faults + 1
       ELSE faults' = faults
  /\ stale' = stale \cup {p}
  /\ UNCHANGED <<status, token, path, rows, dataVars, envVars, runVars>>

Fault(kind) ==
  /\ kind \in Faults
  /\ faults < MaxFaults
  /\ faults' = faults + 1

-----------------------------------------------------------------------------
(* Planning: planRun reads the aged days, the ledger and the plans in turn. *)

\* Mutants: an abandoned claim, or a failed day, is never planned again.
ExportableNoStale(p) == status[p] \in {"none", "failed"}
ExportableNoFailed(p) ==
  \/ status[p] = "none"
  \/ status[p] = "exporting" /\ p \in stale

\* partitionsToExport.
Exportable(p) ==
  \/ status[p] \in {"none", "failed"}
  \/ status[p] = "exporting" /\ p \in stale

\* A run starts, reads its configuration and clock, and lists the days that
\* hold rows older than the hot window.
ListAged(r) ==
  /\ pc[r] = "idle"
  /\ now' = [now EXCEPT ![r] = today]
  /\ trim' = IF deleteMode THEN trim \cup {r} ELSE trim \ {r}
  /\ todo' = [todo EXCEPT ![r] =
                {p \in Scope[r] : DayOf[p] < today - HotWindow /\ HotOf(p) # {}}]
  /\ pc' = [pc EXCEPT ![r] = "ledger"]
  /\ UNCHANGED <<tier, cur, workVars, envVars, storeVars, faults>>

ListLedger(r) ==
  /\ pc[r] = "ledger"
  /\ todo' = [todo EXCEPT ![r] = {p \in @ : Exportable(p)}]
  /\ pc' = [pc EXCEPT ![r] = "plans"]
  /\ UNCHANGED <<now, trim, tier, cur, workVars, envVars, storeVars, faults>>

\* Mutant: every project gets the plan of one.
LookUpPlansOfOne(r) ==
  /\ pc[r] = "plans"
  /\ \E j \in Project : tier' = [tier EXCEPT ![r] = [k \in Project |-> plan[j]]]
  /\ pc' = [pc EXCEPT ![r] = "next"]
  /\ UNCHANGED <<now, trim, todo, cur, workVars, envVars, storeVars, faults>>

\* plansFor: a lookup that throws answers "free".
LookUpPlans(r) ==
  /\ pc[r] = "plans"
  /\ \/ /\ tier' = [tier EXCEPT ![r] = plan]
        /\ UNCHANGED faults
     \/ /\ Fault("billing")
        /\ \E out \in SUBSET Project \ {{}} :
             tier' = [tier EXCEPT ![r] =
                        [j \in Project |-> IF j \in out THEN "free" ELSE plan[j]]]
  /\ pc' = [pc EXCEPT ![r] = "next"]
  /\ UNCHANGED <<now, trim, todo, cur, workVars, envVars, storeVars>>

\* A run's locals go with it.
Forget(r) ==
  /\ pc' = [pc EXCEPT ![r] = "idle"]
  /\ now' = [now EXCEPT ![r] = FirstDay]
  /\ trim' = trim \ {r}
  /\ todo' = [todo EXCEPT ![r] = {}]
  /\ tier' = [tier EXCEPT ![r] = NoPlans]
  /\ cur' = [cur EXCEPT ![r] = Unset]
  /\ staged' = [staged EXCEPT ![r] = {}]
  /\ total' = [total EXCEPT ![r] = 0]
  /\ left' = [left EXCEPT ![r] = 0]

Finish(r) ==
  /\ pc[r] = "next"
  /\ todo[r] = {}
  /\ Forget(r)
  /\ UNCHANGED <<envVars, storeVars, faults>>

-----------------------------------------------------------------------------
(* The loop of runArchive and claimPartition *)

IsNext(r, p) ==
  /\ pc[r] = "next"
  /\ p \in todo[r]
  /\ \A q \in todo[r] : p <= q

\* day >= freePruneCutoff: too young for the free path.
InGrace(r, p) == Free(r, p) /\ DayOf[p] >= now[r] - (HotWindow + Grace)

TakeNext(r, p) ==
  /\ todo' = [todo EXCEPT ![r] = @ \ {p}]
  /\ UNCHANGED <<now, trim, tier, workVars>>

SkipInGrace(r, p) ==
  /\ IsNext(r, p)
  /\ InGrace(r, p)
  /\ TakeNext(r, p)
  /\ UNCHANGED <<pc, cur, envVars, storeVars, faults>>

\* The fresh case of claimPartition: the INSERT succeeds.
ClaimInsert(r, p) ==
  /\ IsNext(r, p)
  /\ ~InGrace(r, p)
  /\ status[p] = "none"
  /\ status' = [status EXCEPT ![p] = "exporting"]
  /\ token' = [token EXCEPT ![p] = r]
  /\ path' = path \ {p}
  /\ rows' = [rows EXCEPT ![p] = 0]
  /\ stale' = stale \ {p}
  /\ cur' = [cur EXCEPT ![r] = p]
  /\ pc' = [pc EXCEPT ![r] = "assert"]
  /\ TakeNext(r, p)
  /\ UNCHANGED <<dataVars, envVars, faults>>

\* The INSERT throws: the row exists, or the database failed, all one to it.
ClaimConflict(r, p) ==
  /\ IsNext(r, p)
  /\ ~InGrace(r, p)
  /\ \/ status[p] # "none" /\ UNCHANGED faults
     \/ status[p] = "none" /\ Fault("db")
  /\ cur' = [cur EXCEPT ![r] = p]
  /\ pc' = [pc EXCEPT ![r] = "reclaim"]
  /\ TakeNext(r, p)
  /\ UNCHANGED <<envVars, storeVars>>

\* Mutant: any open claim can be taken over.
ReclaimableAnyClaim(p) == status[p] \in {"failed", "exporting"}

\* The WHERE clause of the reclaiming UPDATE.
Reclaimable(p) ==
  \/ status[p] = "failed"
  \/ status[p] = "exporting" /\ p \in stale

\* The UPDATE of the reclaim case.
Reclaim(r) ==
  /\ pc[r] = "reclaim"
  /\ IF Reclaimable(cur[r])
       THEN /\ status' = [status EXCEPT ![cur[r]] = "exporting"]
            /\ token' = [token EXCEPT ![cur[r]] = r]
            /\ stale' = stale \ {cur[r]}
       ELSE UNCHANGED <<status, token, stale>>
  /\ pc' = [pc EXCEPT ![r] = "readBack"]
  /\ UNCHANGED <<path, rows, dataVars, cur, planVars, workVars, envVars, faults>>

\* The row read back carries the run's token.
ClaimWon(r) ==
  /\ token[cur[r]] = r
  /\ status[cur[r]] = "exporting"

\* Back to the loop of runArchive; the partition's locals are out of scope.
Return(r) ==
  /\ pc' = [pc EXCEPT ![r] = "next"]
  /\ cur' = [cur EXCEPT ![r] = Unset]
  /\ staged' = [staged EXCEPT ![r] = {}]
  /\ total' = [total EXCEPT ![r] = 0]
  /\ left' = [left EXCEPT ![r] = 0]
  /\ UNCHANGED planVars

Goto(r, label) == pc' = [pc EXCEPT ![r] = label] /\ UNCHANGED <<cur, planVars>>

\* The SELECT after the UPDATE.
ReadBack(r) ==
  /\ pc[r] = "readBack"
  /\ IF ClaimWon(r) THEN Goto(r, "assert") /\ UNCHANGED workVars
                    ELSE Return(r)
  /\ UNCHANGED <<envVars, storeVars, faults>>

\* assertClaimed asks only that the row exists.
AssertClaimed(r) ==
  /\ pc[r] = "assert"
  /\ IF status[cur[r]] = "none"
       THEN Return(r)
       ELSE /\ Goto(r, IF Free(r, cur[r]) THEN "count" ELSE "stage")
            /\ UNCHANGED workVars
  /\ UNCHANGED <<envVars, storeVars, faults>>

-----------------------------------------------------------------------------
(* exportPartition up to the verified mark *)

\* markPartition: an UPDATE by (project, day), whoever holds the claim, that
\* also renews updated_at.
Mark(p, st, tok, paths, n) ==
  /\ IF status[p] = "none"
       THEN UNCHANGED ledgerVars
       ELSE /\ status' = [status EXCEPT ![p] = st]
            /\ token' = [token EXCEPT ![p] = tok]
            /\ path' = paths
            /\ rows' = [rows EXCEPT ![p] = n]
            /\ stale' = stale \ {p}
  /\ UNCHANGED dataVars

\* Rows of the day past the keyset cursor, the last row staged.
Unstaged(r) == {e \in HotOf(cur[r]) : \A s \in staged[r] : s < e}

\* One page of stageDay; a page that is not full is the last.
StagePage(r) ==
  /\ pc[r] = "stage"
  /\ \E page \in SUBSET Unstaged(r) :
       /\ \A e \in page, f \in Unstaged(r) \ page : e < f
       /\ Cardinality(page) <= PageSize
       /\ Cardinality(page) < PageSize => page = Unstaged(r)
       /\ staged' = [staged EXCEPT ![r] = @ \cup page]
       /\ Goto(r, IF Cardinality(page) = PageSize THEN "stage"
                  ELSE IF staged[r] \cup page = {} THEN "markEmpty" ELSE "copy")
  /\ UNCHANGED <<total, left, envVars, storeVars, faults>>

MarkEmpty(r) ==
  /\ pc[r] = "markEmpty"
  /\ Mark(cur[r], "deleted", NoRun, path \ {cur[r]}, 0)
  /\ Return(r)
  /\ UNCHANGED <<envVars, faults>>

\* The COPY to the partition's one key.  A failing one leaves the old object or
\* some rows of the new, and may still report success; then only the verifying
\* read tells.
Copy(r) ==
  /\ pc[r] = "copy"
  /\ LET p == cur[r] IN
     \/ /\ object' = [object EXCEPT ![p] = staged[r]]
        /\ Goto(r, "verify")
        /\ UNCHANGED faults
     \/ /\ Fault("store")
        /\ \E written \in SUBSET staged[r] :
             /\ object' = [object EXCEPT ![p] = written]
             /\ Goto(r, "verify") \/ Goto(r, "markFailed")
     \/ /\ Fault("store")
        /\ Goto(r, "markFailed")
        /\ UNCHANGED object
     \/ /\ Fault("silent")
        /\ Goto(r, "verify")
        /\ UNCHANGED object
  /\ UNCHANGED <<hot, accepted, pruned, ledgerVars, workVars, envVars>>

\* Mutant: the read succeeds, whatever it counts.
VerifyUncounted(r) ==
  /\ pc[r] = "verify"
  /\ Goto(r, "markVerified")
  /\ UNCHANGED <<faults, workVars, envVars, storeVars>>

\* Read the object back and compare its row count with what was staged.
Verify(r) ==
  /\ pc[r] = "verify"
  /\ \/ /\ Cardinality(object[cur[r]]) = Cardinality(staged[r])
        /\ Goto(r, "markVerified")
        /\ UNCHANGED faults
     \/ /\ Cardinality(object[cur[r]]) # Cardinality(staged[r])
        /\ Goto(r, "markFailed")
        /\ UNCHANGED faults
     \/ /\ Fault("store")
        /\ Goto(r, "markFailed")
  /\ UNCHANGED <<workVars, envVars, storeVars>>

MarkVerified(r) ==
  /\ pc[r] = "markVerified"
  /\ LET p == cur[r] IN Mark(p, "verified", token[p], path \cup {p}, Cardinality(staged[r]))
  /\ Goto(r, IF r \in trim THEN "count" ELSE "release")
  /\ UNCHANGED <<workVars, envVars, faults>>

\* Copy-only mode gives the claim up and leaves the rows.
Release(r) ==
  /\ pc[r] = "release"
  /\ LET p == cur[r] IN Mark(p, status[p], NoRun, path, rows[p])
  /\ Return(r)
  /\ UNCHANGED <<envVars, faults>>

-----------------------------------------------------------------------------
(* deleteDay, and the last mark of either path *)

\* Count the day once; maxBatches is ceil(total / DELETE_BATCH) + 1.
CountDay(r) ==
  /\ pc[r] = "count"
  /\ LET n == Cardinality(HotOf(cur[r])) IN
     \/ /\ n = 0
        /\ Goto(r, "markDone")
        /\ UNCHANGED <<total, left>>
     \/ /\ n > 0
        /\ Goto(r, "batch")
        /\ total' = [total EXCEPT ![r] = n]
        /\ \E b \in 1 .. n : /\ (b - 1) * BatchSize < n /\ n <= b * BatchSize
                             /\ left' = [left EXCEPT ![r] = b + 1]
  /\ UNCHANGED <<staged, envVars, storeVars, faults>>

\* One DELETE ... LIMIT: whichever rows the engine picks.
DeleteBatch(r) ==
  /\ pc[r] = "batch"
  /\ \E gone \in SUBSET HotOf(cur[r]) :
       /\ Cardinality(gone) <= BatchSize
       /\ Cardinality(gone) < BatchSize => gone = HotOf(cur[r])
       /\ hot' = hot \ gone
       /\ pruned' = IF Free(r, cur[r]) THEN pruned \cup gone ELSE pruned
  /\ left' = [left EXCEPT ![r] = @ - 1]
  /\ Goto(r, "more")
  /\ UNCHANGED <<object, accepted, ledgerVars, staged, total, envVars, faults>>

\* Mutant: one batch is taken to be enough.
MoreUnasked(r) ==
  /\ pc[r] = "more"
  /\ Goto(r, "markDone")
  /\ UNCHANGED <<workVars, envVars, storeVars, faults>>

\* SELECT 1: stop when the day is empty, throw when the batches are used up.
More(r) ==
  /\ pc[r] = "more"
  /\ Goto(r, IF HotOf(cur[r]) = {} THEN "markDone"
             ELSE IF left[r] = 0 THEN "markFailed" ELSE "batch")
  /\ UNCHANGED <<workVars, envVars, storeVars, faults>>

\* Mutant: the archived path clears object_path like the free one.
MarkDoneNoPath(r) ==
  /\ pc[r] = "markDone"
  /\ LET p == cur[r] IN
     Mark(p, IF Free(r, p) THEN "pruned" ELSE "deleted", NoRun, path \ {p},
          IF Free(r, p) THEN total[r] ELSE rows[p])
  /\ Return(r)
  /\ UNCHANGED <<envVars, faults>>

MarkDone(r) ==
  /\ pc[r] = "markDone"
  /\ LET p == cur[r] IN
     IF Free(r, p) THEN Mark(p, "pruned", NoRun, path \ {p}, total[r])
                   ELSE Mark(p, "deleted", NoRun, path, rows[p])
  /\ Return(r)
  /\ UNCHANGED <<envVars, faults>>

MarkFailed(r) ==
  /\ pc[r] = "markFailed"
  /\ LET p == cur[r] IN Mark(p, "failed", NoRun, path, rows[p])
  /\ Return(r)
  /\ UNCHANGED <<envVars, faults>>

-----------------------------------------------------------------------------
(* Failures *)

\* A database call throws inside the try block of exportPartition or
\* prunePartition, whose catch marks the partition failed.
ThrowInside(r) ==
  /\ pc[r] \in WorkPc \ {"assert", "copy", "verify", "markFailed"}
  /\ Fault(IF pc[r] \in DeletePc /\ ~Free(r, cur[r]) THEN "dbDelete" ELSE "db")
  /\ Goto(r, "markFailed")
  /\ UNCHANGED <<workVars, envVars, storeVars>>

\* Outside it, nothing catches, and the whole run ends.
ThrowOutside(r) ==
  /\ pc[r] \in {"ledger", "plans", "reclaim", "readBack", "assert", "markFailed"}
  /\ Fault("db")
  /\ Forget(r)
  /\ UNCHANGED <<envVars, storeVars>>

Crash(r) ==
  /\ pc[r] # "idle"
  /\ Fault("crash")
  /\ Forget(r)
  /\ UNCHANGED <<envVars, storeVars>>

-----------------------------------------------------------------------------
(* One step of run r's program, with no fault in it but those its callee hides *)
Step(r) ==
  \/ ListLedger(r) \/ LookUpPlans(r) \/ Finish(r)
  \/ \E p \in Partition : SkipInGrace(r, p) \/ ClaimInsert(r, p) \/ ClaimConflict(r, p)
  \/ Reclaim(r) \/ ReadBack(r) \/ AssertClaimed(r)
  \/ StagePage(r) \/ MarkEmpty(r) \/ Copy(r) \/ Verify(r)
  \/ MarkVerified(r) \/ Release(r)
  \/ CountDay(r) \/ DeleteBatch(r) \/ More(r) \/ MarkDone(r) \/ MarkFailed(r)

Environment ==
  \/ Tick
  \/ EnableDeletion
  \/ \E j \in Project : ChangePlan(j)
  \/ \E e \in Entry : Ingest(e)
  \/ \E p \in Partition : ClaimAges(p)

Next ==
  \/ Environment
  \/ \E r \in Run : \/ ListAged(r) \/ Step(r)
                    \/ ThrowInside(r) \/ ThrowOutside(r) \/ Crash(r)

Spec == Init /\ [][Next]_vars

\* The scheduler starts a run every night, a started run goes on, a claim
\* nobody renews grows old, and the operator completes the rollout.
FairSpec ==
  /\ Spec
  /\ \A r \in Nightly : WF_vars(ListAged(r))
  /\ \A r \in Run : WF_vars(Step(r))
  /\ \A p \in Partition : WF_vars(ClaimAges(p))
  /\ WF_vars(EnableDeletion)

-----------------------------------------------------------------------------
(* Properties *)

\* The kinds of the variables, by the part of the system they are in.
WorldType ==
  /\ today \in Nat
  /\ plan \in [Project -> {"pro", "free"}]
  /\ deleteMode \in BOOLEAN
  /\ everFree \subseteq Project
  /\ faults \in Nat
DataType ==
  /\ hot \subseteq Entry /\ accepted \subseteq Entry /\ pruned \subseteq Entry
  /\ object \in [Partition -> SUBSET Entry]
LedgerType ==
  /\ status \in [Partition -> Status]
  /\ token \in [Partition -> Run \cup {NoRun}]
  /\ rows \in [Partition -> Nat]
  /\ path \subseteq Partition /\ stale \subseteq Partition
PlanType ==
  /\ now \in [Run -> Nat]
  /\ trim \subseteq Run
  /\ todo \in [Run -> SUBSET Partition]
  /\ tier \in [Run -> [Project -> {"pro", "free"}]]
WorkType ==
  /\ pc \in [Run -> Pc]
  /\ cur \in [Run -> Partition]
  /\ staged \in [Run -> SUBSET Entry]
  /\ total \in [Run -> Nat]
  /\ left \in [Run -> Int]

\* Every variable holds a value of its kind.
TypeOK == WorldType /\ DataType /\ LedgerType /\ PlanType /\ WorkType

\* exporter.ts:345-351.  A row ingest stored leaves the hot database only into
\* its partition's Parquet object, or down the free path: whatever crashes,
\* fails or overlaps, no run ever deletes or overwrites the only copy.
NoLoss == accepted \subseteq hot \cup Archived \cup pruned

\* exporter.ts:118-127, migration 23 "this constraint IS the lock".  Two runs
\* never work on one partition at once.
ClaimExclusive ==
  \A r, q \in Run : pc[r] \in WorkPc /\ pc[q] \in WorkPc /\ cur[r] = cur[q] => r = q

\* plan.ts:22-25 and exporter.ts:529.  As long as no billing lookup throws, a
\* project that has been on Pro all along never has a row deleted unarchived,
\* though a run decides by the plan it looked up when it began.
ProNeverPruned == \A e \in pruned : ProjectOf[PartOf[e]] \in everFree

\* What the query layer reads from Parquet: the object of a deleted day
\* (query.ts ARCHIVED_ONLY).
Served == {e \in Archived : /\ status[PartOf[e]] = "deleted"
                            /\ PartOf[e] \in path}

\* query.ts:10-18.  No row is counted in both tiers.
NeverCountedTwice == hot \cap Served = {}

\* query.ts:4-8.  Once no run is at work on a partition, every row of it that
\* was not pruned is found by a query, in one tier or the other.
SettledDayVisible ==
  \A e \in accepted \ pruned :
    (\A r \in Run : pc[r] \in WorkPc => cur[r] # PartOf[e]) => e \in hot \cup Served

\* partitions.ts:88-96.  A failure or an abandoned claim strands no rows: a later
\* run brings the partition to an end, or at least its last row away.
UnfinishedDayFinishes ==
  \A p \in Partition :
    status[p] \in {"failed", "exporting"} /\ HotOf(p) # {}
      ~> status[p] \in Terminal \/ HotOf(p) = {}

\* ARCHIVE.md "What it does".  Every aged day of a Pro project, as long as it
\* stays on Pro, leaves the hot database for its Parquet object.
ProDayIsArchived ==
  \A p \in Partition :
    plan[ProjectOf[p]] = "pro" /\ DayOf[p] < today - HotWindow /\ HotOf(p) # {}
      ~> \/ HotOf(p) = {} /\ status[p] = "deleted"
         \/ ProjectOf[p] \in everFree

-----------------------------------------------------------------------------
(* The inductive invariant *)

\* The faults the safety argument survives, on days nothing new arrives for.
Tolerated ==
  /\ Faults \cap {"silent", "dbDelete", "overrun"} = {}
  /\ Skewed = {}

\* A run has a partition in hand.
BusyPc == WorkPc \cup {"reclaim", "readBack"}

Aged(p) == DayOf[p] < today - HotWindow

\* Whatever a run plans, works on or has recorded lies outside the hot window.
RunAged(r) ==
  /\ now[r] <= today
  /\ \A p \in todo[r] : Aged(p)
  /\ pc[r] \in BusyPc => Aged(cur[r])
AgedInv ==
  /\ FirstDay <= today
  /\ \A r \in Run : RunAged(r)
  /\ \A p \in Partition : status[p] # "none" => Aged(p)

\* A Pro day is verified while a run deletes its rows.
Trimming(r) == pc[r] \in DeletePc /\ ~Free(r, cur[r])

\* A working run's row carries its token and its status, and is not stale.
ClaimOf(r) ==
  LET p == cur[r] IN
  /\ pc[r] \in WorkPc => token[p] = r /\ p \notin stale
  /\ pc[r] = "readBack" /\ ClaimWon(r) => p \notin stale
  /\ pc[r] \in WorkPc \ {"markFailed", "release"} /\ ~Trimming(r) =>
       status[p] = "exporting"
  /\ pc[r] = "release" \/ Trimming(r) => status[p] = "verified"
  /\ pc[r] = "markFailed" => status[p] \in {"exporting", "verified"}
ClaimInv == \A r \in Run : ClaimOf(r)

\* No row of the partition has gone anywhere but down the free path.
Whole(p) == (accepted \cap Rows(p)) \ pruned \subseteq hot

\* The archive holds what the hot database no longer does, and only a verified
\* or deleted day has rows missing from the hot database.
StoreOf(p) ==
  /\ accepted \cap Rows(p) \subseteq hot \cup object[p] \cup pruned
  /\ status[p] \notin {"verified", "deleted"} => Whole(p)
  /\ status[p] = "deleted" => HotOf(p) = {}
StoreInv ==
  /\ hot \subseteq accepted
  /\ \A p \in Partition : StoreOf(p)

\* How far each run has got with its partition's rows.
ProgressOf(r) ==
  LET p == cur[r] IN
  /\ pc[r] \notin WorkPc \/ pc[r] = "assert" => staged[r] = {}
  /\ pc[r] \in {"stage", "markEmpty", "copy", "verify", "markVerified"} => ~Free(r, p)
  /\ pc[r] = "stage" =>
       /\ staged[r] \subseteq HotOf(p)
       /\ \A s \in staged[r], e \in HotOf(p) \ staged[r] : s < e
  /\ pc[r] \in {"copy", "verify", "markVerified"} => staged[r] = HotOf(p)
  /\ pc[r] = "verify" => object[p] \subseteq staged[r]
  /\ pc[r] = "markVerified" => object[p] = staged[r]
  /\ pc[r] \in {"release", "markFailed"} => Whole(p)
  /\ Trimming(r) => HotOf(p) \subseteq object[p]
  /\ pc[r] \in {"batch", "more"} =>
       left[r] >= 1 /\ Cardinality(HotOf(p)) <= BatchSize * (left[r] - 1)
  /\ pc[r] = "batch" => HotOf(p) # {}
  /\ pc[r] \in {"markEmpty", "markDone"} => HotOf(p) = {}
ProgressInv == \A r \in Run : ProgressOf(r)

IInv == TypeOK /\ AgedInv /\ ClaimInv /\ StoreInv /\ ProgressInv
=============================================================================
