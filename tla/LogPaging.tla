------------------------------ MODULE LogPaging ------------------------------
(***************************************************************************)
(* Walking back through a project's log, page by page: the stream endpoint *)
(* of routes/logs.ts over the hot database, whose cursor is a timestamp,   *)
(* and the archive search of app/Archive/query.ts and sql.ts over the      *)
(* Parquet of archived days, whose cursor is a (timestamp, id) pair.       *)
(* Between two pages entries arrive with any timestamp and days move to    *)
(* the archive.                                                            *)
(***************************************************************************)
EXTENDS Integers, FiniteSets

CONSTANTS
  Entry,      \* ids of log rows, in the order ids compare
  Ts,         \* the timestamp of each
  DayOf,      \* and its UTC day
  Wanted,     \* the rows a walk's filters leave
  From, To,   \* the days a search asks for, inclusive
  Walk,       \* clients walking back
  Limit,      \* rows per page
  MaxFiles    \* maxFilesPerQuery

Day == {DayOf[e] : e \in Entry}

ASSUME PagingAssumption ==
  /\ Entry \subseteq Nat /\ Entry # {} /\ IsFiniteSet(Entry)
  /\ Ts \in [Entry -> Nat]
  /\ DayOf \in [Entry -> Nat]
  /\ \A e, f \in Entry : Ts[e] <= Ts[f] => DayOf[e] <= DayOf[f]
  /\ Wanted \subseteq Entry
  /\ Limit \in Nat \ {0} /\ MaxFiles \in Nat \ {0}
  /\ From \in Nat /\ To \in Nat

VARIABLES
  hot,        \* log_entries
  served,     \* the rows of archived days
  kind,       \* the endpoint each client is walking
  last,       \* the last row of its last page, which the cursor is made of
  next,       \* whether the last response carried a nextCursor
  page,       \* the rows of its last page
  got,        \* the rows of the pages before
  begun       \* history: the rows its tier held when the walk began

vars == <<hot, served, kind, last, next, page, got, begun>>
walkVars == <<kind, last, next, page, got, begun>>

Kind == {"none", "stream", "search"}

-----------------------------------------------------------------------------
(* What a page may hold *)

\* ORDER BY timestamp DESC, and for a search id DESC: e comes after c.
Older(k, e, c) == Ts[e] < Ts[c] \/ (k = "search" /\ Ts[e] = Ts[c] /\ e < c)

\* Mutants: a search's cursor is its timestamp alone, or lets its own row through.
PastByTime(k, e, c) == Ts[e] < Ts[c]
PastOrSame(k, e, c) == Ts[e] < Ts[c] \/ (k = "search" /\ Ts[e] = Ts[c] /\ e <= c)

\* The WHERE clause of a cursor made of row c.
Past(k, e, c) == Ts[e] < Ts[c] \/ (k = "search" /\ Ts[e] = Ts[c] /\ e < c)

\* Archived days of the search's range, and those of them whose files are read:
\* the newest MaxFiles.
ServedDays == {d \in From .. To : \E e \in served : DayOf[e] = d}
ReadDays == {d \in ServedDays : Cardinality({c \in ServedDays : c > d}) < MaxFiles}

\* The rows an endpoint can return to the walk's filters.
Rows(k) ==
  IF k = "stream" THEN hot \cap Wanted
                  ELSE {e \in served \cap Wanted : DayOf[e] \in ReadDays}

\* Mutant: no cursor unless there are more rows than the page may hold.
MoreThanFull(P) == Cardinality(P) > Limit

\* A full page carries a nextCursor.
Full(P) == Cardinality(P) = Limit

\* The newest Limit of the rows R.
Return(w, k, R) ==
  \E P \in SUBSET R :
    /\ Cardinality(P) <= Limit
    /\ Cardinality(P) < Limit => P = R
    /\ \A x \in P, y \in R \ P : ~Older(k, x, y)
    /\ page' = [page EXCEPT ![w] = P]
    /\ next' = [next EXCEPT ![w] = Full(P)]
    /\ \E c \in IF P = {} THEN {last[w]} ELSE P :
         /\ \A x \in P : ~Older(k, x, c)
         /\ last' = [last EXCEPT ![w] = c]

-----------------------------------------------------------------------------
Init ==
  /\ hot = {}
  /\ served = {}
  /\ kind = [w \in Walk |-> "none"]
  /\ last = [w \in Walk |-> CHOOSE e \in Entry : TRUE]
  /\ next = [w \in Walk |-> FALSE]
  /\ page = [w \in Walk |-> {}]
  /\ got = [w \in Walk |-> {}]
  /\ begun = [w \in Walk |-> {}]

\* One INSERT of a batch.
Ingest(batch) ==
  /\ batch # {}
  /\ batch \cap (hot \cup served) = {}
  /\ hot' = hot \cup batch
  /\ UNCHANGED <<served, walkVars>>

\* A day of the hot database is archived, in one step as far as a walk can tell
\* that does not look at it meanwhile.  A day is archived once.
ArchiveDay(d) ==
  LET moved == {e \in hot : DayOf[e] = d} IN
  /\ moved # {}
  /\ \A e \in served : DayOf[e] # d
  /\ hot' = hot \ moved
  /\ served' = served \cup moved
  /\ UNCHANGED walkVars

\* A request without a cursor.
FirstPage(w, k) ==
  /\ ~next[w]
  /\ kind' = [kind EXCEPT ![w] = k]
  /\ begun' = [begun EXCEPT ![w] = IF k = "stream" THEN hot ELSE served]
  /\ got' = [got EXCEPT ![w] = {}]
  /\ Return(w, k, Rows(k))
  /\ UNCHANGED <<hot, served>>

\* A request with the nextCursor of the page before.
NextPage(w) ==
  /\ next[w]
  /\ got' = [got EXCEPT ![w] = @ \cup page[w]]
  /\ Return(w, kind[w], {e \in Rows(kind[w]) : Past(kind[w], e, last[w])})
  /\ UNCHANGED <<hot, served, kind, begun>>

Next ==
  \/ \E batch \in SUBSET Entry : Ingest(batch)
  \/ \E d \in Day : ArchiveDay(d)
  \/ \E w \in Walk : FirstPage(w, "stream") \/ FirstPage(w, "search") \/ NextPage(w)

Spec == Init /\ [][Next]_vars

-----------------------------------------------------------------------------
(* Properties *)

\* Every variable holds a value of its kind.
TypeOK ==
  /\ hot \subseteq Entry /\ served \subseteq Entry
  /\ kind \in [Walk -> Kind]
  /\ last \in [Walk -> Entry]
  /\ next \in [Walk -> BOOLEAN]
  /\ page \in [Walk -> SUBSET Entry]
  /\ got \in [Walk -> SUBSET Entry]
  /\ begun \in [Walk -> SUBSET Entry]

Returned(w) == got[w] \cup page[w]

\* No other row a filter leaves has its timestamp.
Unique(e) == \A f \in Wanted : Ts[f] = Ts[e] => f = e

\* docs/reference/ingest.md:199-201.  A stream walk that has come to its end has
\* returned every row that was there all along and shares its timestamp with
\* no other, whatever arrived or was archived between its pages.
StreamFinds ==
  \A w \in Walk : kind[w] = "stream" /\ ~next[w] =>
    \A e \in begun[w] \cap hot \cap Wanted : Unique(e) => e \in Returned(w)

\* sql.ts:225-231, query.ts:105-111.  A finished search over a range of at most
\* MaxFiles archived days has returned every row that was archived when it
\* began, rows of one timestamp included.
SearchFinds ==
  \A w \in Walk :
    kind[w] = "search" /\ ~next[w] /\ Cardinality(ServedDays) <= MaxFiles =>
      \A e \in begun[w] \cap Wanted : DayOf[e] \in From .. To => e \in Returned(w)

\* The last page of w lies strictly past the pages before it.
PageDescends(w) == \A x \in got[w], y \in page[w] : Older(kind[w], y, x)

\* docs/reference/ingest.md:201, sql.ts:150.  Each page lies past all the pages
\* before it: newest first, and no row twice.
PagesDescend == \A w \in Walk : PageDescends(w)

-----------------------------------------------------------------------------
(* The inductive invariant: what the two walks are after and have reached    *)
(* already, whether or not they are at their end.                            *)

Reached(w, e) == next[w] => ~Past(kind[w], e, last[w])

Sought(w) ==
  {e \in begun[w] \cap Wanted :
     CASE kind[w] = "stream" -> e \in hot /\ Unique(e)
       [] kind[w] = "search" -> DayOf[e] \in From .. To /\ Cardinality(ServedDays) <= MaxFiles
       [] OTHER -> FALSE}

\* The cursor is a lowest row of the last page.
CursorOf(w) == next[w] => /\ last[w] \in page[w]
                          /\ \A x \in page[w] : ~Older(kind[w], x, last[w])

WalkInv(w) ==
  /\ begun[w] \subseteq hot \cup served
  /\ kind[w] = "search" => begun[w] \subseteq served
  /\ \A e \in Sought(w) : Reached(w, e) => e \in Returned(w)
  /\ CursorOf(w)
  /\ PageDescends(w)

PagingInv == TypeOK /\ \A w \in Walk : WalkInv(w)
=============================================================================
