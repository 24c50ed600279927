---------------------------- MODULE ArchiveQuery ----------------------------
(* Reading a history that is in two tiers, app/Archive/query.ts and the      *)
(* search and volume routes of routes/analytics.ts, while the exporter moves *)
(* days from one to the other.  A chart asks the hot database, the ledger    *)
(* and then Parquet; a search asks the ledger and Parquet, page by page.     *)
EXTENDS ArchiveExport, FiniteSetsExt

CONSTANTS
  Viewed,      \* the project looked at
  From, To,    \* the days asked for
  MaxFiles,    \* cfg.maxFilesPerQuery
  Limit,       \* entries of a page
  Offset       \* entries whose client wrote its timestamp with an offset

ASSUME QueryAssumption ==
  /\ Viewed \in Project /\ From \in Nat /\ To \in Nat
  /\ MaxFiles \in Nat \ {0} /\ Limit \in Nat \ {0}
  /\ Offset \subseteq Entry
  \* Migration 23, the unique index on (project_id, day).
  /\ \A p, q \in Partition : ProjectOf[p] = ProjectOf[q] /\ DayOf[p] = DayOf[q] => p = q

VARIABLES
  view,    \* the request: its kind, the call it is at, what it read
  moved    \* history: partitions whose rows or status moved while a chart was
           \* between the hot database and the ledger

queryVars == <<view, moved>>

\* The first request of a search carries no cursor.
NoCursor == -1

\* What a request read of either tier, the keys it will open, the position of
\* its next page, whether a query failed and whether the files were capped;
\* history: what it is due.
NoView(kind) ==
  [kind |-> kind, at |-> "idle", hot |-> {}, keys |-> {}, cold |-> {},
   before |-> NoCursor, failed |-> FALSE, capped |-> FALSE, due |-> {}]

QueryInit ==
  /\ Init
  /\ \E kind \in {"chart", "search"} : view = NoView(kind)
  /\ moved = {}

InRange(p) == ProjectOf[p] = Viewed /\ DayOf[p] \in From .. To
Asked == { e \in Entry : InRange(PartOf[e]) }

\* ORDER BY day DESC LIMIT n.
Newest(n, parts) ==
  { p \in parts : Cardinality({ q \in parts : DayOf[q] > DayOf[p] }) < n }

\* Mutant: a verified day is read from Parquet as well.
ArchivedDaysVerified == { p \in Partition : InRange(p) /\ status[p] \in {"verified", "deleted"} }

\* ARCHIVED_ONLY.
ArchivedDays == { p \in Partition : InRange(p) /\ status[p] = "deleted" }

\* archiveKeysFor: the days are capped first, those without an object left out then.
ArchiveKeys == Newest(MaxFiles, ArchivedDays) \cap path

\* read_parquet of the keys; queryDuckDb answers a failure with no rows.
InParquet(keys) == { e \in Entry : PartOf[e] \in keys /\ e \in object[PartOf[e]] }

-----------------------------------------------------------------------------
(* A chart: volumeSeries, and levelsByRelease, which reads the same way.      *)

DeletingNow == { cur[r] : r \in { q \in Run : pc[q] \in DeletePc } }

ReadHot ==
  /\ view.kind = "chart" /\ view.at = "idle"
  /\ view' = [view EXCEPT !.at = "ledger", !.hot = hot \cap Asked,
                          !.due = (accepted \ pruned) \cap Asked]
  /\ moved' = DeletingNow

ReadLedger ==
  /\ view.kind = "chart" /\ view.at = "ledger"
  /\ view' = [view EXCEPT !.at = IF ArchiveKeys = {} THEN "shown" ELSE "parquet",
                          !.keys = ArchiveKeys,
                          !.capped = Cardinality(ArchivedDays) > MaxFiles]
  /\ UNCHANGED moved

ReadParquet ==
  /\ view.kind = "chart" /\ view.at = "parquet"
  /\ \/ view' = [view EXCEPT !.at = "shown", !.cold = InParquet(view.keys)]
     \/ view' = [view EXCEPT !.at = "shown", !.failed = TRUE]
  /\ UNCHANGED moved

-----------------------------------------------------------------------------
(* A search: searchArchive, asked again with each answer's cursor.            *)

\* Only a project on Pro may search.
SearchLedger ==
  /\ view.kind = "search" /\ view.at \in {"idle", "page"}
  /\ view' = IF plan[Viewed] = "pro"
             THEN [view EXCEPT !.at = IF ArchiveKeys = {} THEN "shown" ELSE "parquet",
                               !.keys = ArchiveKeys,
                               !.capped = @ \/ Cardinality(ArchivedDays) > MaxFiles,
                               !.due = IF view.at = "idle" THEN Served \cap Asked ELSE @]
             ELSE [view EXCEPT !.at = "shown", !.failed = TRUE]
  /\ UNCHANGED moved

\* The entries strictly older than the cursor, newest first, as many as a page.
Page(keys, before) ==
  LET older == { e \in InParquet(keys) : before = NoCursor \/ e < before } IN
  { e \in older : Cardinality({ f \in older : f > e }) < Limit }

\* Mutant: a full page is taken for the last.
MorePagesLonger(page) == Cardinality(page) > Limit

\* nextCursor: a page that is full may have another one after it.
MorePages(page) == Cardinality(page) = Limit

\* A cursor is refused that is not in the form ISO_TS: no page answers it.
SearchParquet ==
  /\ view.kind = "search" /\ view.at = "parquet"
  /\ \/ /\ view.before \notin Offset
        /\ LET page == Page(view.keys, view.before) IN
           view' = [view EXCEPT !.cold = @ \cup page,
                                !.at = IF MorePages(page) THEN "page" ELSE "shown",
                                !.before = IF MorePages(page)
                                           THEN CHOOSE e \in page : \A f \in page : e <= f
                                           ELSE @]
     \/ view' = [view EXCEPT !.at = "shown", !.failed = TRUE]
  /\ UNCHANGED moved

View == ReadHot \/ ReadLedger \/ ReadParquet \/ SearchLedger \/ SearchParquet

\* A step of the exporter, its world included.
Export ==
  /\ Next
  /\ moved' = IF view.kind = "chart" /\ view.at = "ledger"
              THEN moved \cup DeletingNow \cup DeletingNow' ELSE moved
  /\ UNCHANGED view

QueryNext == Export \/ (View /\ UNCHANGED vars)

QuerySpec == QueryInit /\ [][QueryNext]_<<vars, queryVars>>

-----------------------------------------------------------------------------
(* The retention panel: archiveSummary.                                      *)

RowsOf(statuses) ==
  LET add(p, sum) == rows[p] + sum IN
  FoldSet(add, 0, { p \in Partition : ProjectOf[p] = Viewed /\ status[p] \in statuses })

\* Mutant: what a failed attempt left behind is counted too.
ArchivedRowsFailed == RowsOf({"verified", "deleted", "failed", "exporting"})

ArchivedRows == RowsOf({"verified", "deleted"})
PrunedRows == RowsOf({"pruned"})

-----------------------------------------------------------------------------
(* Properties.                                                               *)

\* query.ts:10-18, "the rule that keeps totals honest": a chart counts every
\* row once, in the one tier or the other, whatever the exporter does meanwhile;
\* except for the days it deleted between the chart's two reads, a DuckDB that
\* failed, and the archived days past the cap.
ChartHonest ==
  view.kind = "chart" /\ view.at = "shown" /\ ~view.failed /\ ~view.capped =>
    \A e \in view.due : PartOf[e] \notin moved => (e \in view.hot) # (e \in view.cold)

\* query.ts:133-136 and sql.ts:226-230, "either repeats or skips rows": the
\* pages of a search, put together, hold all that the archive held of the range
\* when it began, days archived in between included, as long as the days fit
\* into the cap and no request is refused or fails.
SearchComplete ==
  view.kind = "search" /\ view.at = "shown" /\ ~view.failed /\ ~view.capped =>
    view.due \subseteq view.cold

\* query.ts:285-320.  The retention panel reports as archived the rows of the
\* objects its days point at, and never reports more pruned than was; short of a
\* failed attempt, exactly what was.
PanelFits ==
  LET of(statuses) == { e \in Entry : /\ ProjectOf[PartOf[e]] = Viewed
                                      /\ status[PartOf[e]] \in statuses } IN
  /\ ArchivedRows =
       Cardinality({ e \in of({"verified", "deleted"}) \cap Archived : PartOf[e] \in path })
  /\ PrunedRows <= Cardinality(pruned)
  /\ faults = 0 => PrunedRows = Cardinality(of({"pruned"}) \cap pruned)

=============================================================================
