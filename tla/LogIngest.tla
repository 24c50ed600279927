----------------------------- MODULE LogIngest -----------------------------
(* The shaping of a batch by app/Logs/normalize.ts: what of a request body   *)
(* is stored, what is dropped or skipped, and how wide the stored columns    *)
(* are.  A text is its length, an object the length of its JSON.             *)
EXTENDS Integers, Sequences

CONSTANTS
  Null,             \* a field that is absent or null
  MaxBatch,         \* MAX_BATCH
  MaxMessage,       \* MAX_MESSAGE
  MaxContext,       \* MAX_CONTEXT_BYTES
  MaxSdk,           \* the cap of the sdk column
  MaxCorrelation,   \* MAX_CORRELATION
  MaxColumn,        \* the width of a varchar(255)
  Cut,              \* the length of the mark clip adds
  Note,             \* the length of what replaces an oversized object
  Levels            \* LEVELS

\* "production" is ten characters long, and received_at an ISO timestamp.
ASSUME IngestAssumption ==
  /\ Null \notin Int
  /\ MaxBatch \in Nat /\ MaxColumn \in Nat /\ MaxCorrelation \in Nat
  /\ "info" \in Levels /\ MaxColumn >= 24

\* What of an entry the shaping looks at, and a body.
Width == Nat \cup {Null}
RawEntry ==
  [ message : Width, level : STRING, column : Width, environment : Width, context : Width,
    sdk : Width, user : Width, contextUser : Width, timestamp : Width,
    trace_id : Width, traceId : Width ]
RawBody == [ logs : Seq(RawEntry \cup {Null}) \cup {Null}, entry : RawEntry \cup {Null} ]

\* normalize.ts:95-97.  The mark takes the result past max.
Clip(v, max) == IF v > max THEN max + Cut ELSE v

\* Mutant: the mark goes past the cap here too.
VarcharColMarked(v, max) ==
  IF v = Null THEN Null ELSE IF v > max THEN max + 1 ELSE v

\* normalize.ts:104-119.  max - 1 characters and the ellipsis.
VarcharCol(v, max) ==
  IF v = Null THEN Null ELSE IF v > max THEN (max - 1) + 1 ELSE v

\* normalize.ts:128-140.  "{}" and "[]" are two characters long.  A value that
\* is no object or cannot be serialised is Null here.
JsonColumn(v, max) ==
  IF v = Null \/ v <= 2 THEN Null ELSE IF v > max THEN Note ELSE v

Or(v, other) == IF v = Null THEN other ELSE v

\* normalize.ts:149-153.  A body is a batch of entries or one bare entry.
ExtractEntries(body) ==
  IF body.logs # Null THEN body.logs
  ELSE IF body.entry # Null /\ body.entry.message # Null THEN <<body.entry>>
  ELSE << >>

Usable(raw) == raw # Null /\ raw.message # Null

\* normalize.ts:161-187.  column stands for channel, release, framework and
\* host, which are shaped alike.  Only a missing timestamp is replaced.
NormalizeEntry(raw, receivedAt) ==
  [ level       |-> IF raw.level \in Levels THEN raw.level ELSE "info",
    message     |-> Clip(raw.message, MaxMessage),
    column      |-> VarcharCol(raw.column, MaxColumn),
    environment |-> VarcharCol(Or(raw.environment, 10), MaxColumn),
    context     |-> JsonColumn(raw.context, MaxContext),
    sdk         |-> JsonColumn(raw.sdk, MaxSdk),
    user        |-> JsonColumn(Or(raw.user, raw.contextUser), MaxContext),
    timestamp   |-> Or(VarcharCol(raw.timestamp, MaxColumn), receivedAt),
    trace       |-> VarcharCol(Or(raw.trace_id, raw.traceId), MaxCorrelation) ]

Least(m, n) == IF m < n THEN m ELSE n

\* routes/logs.ts:113.  What the project's quota is charged.
Charged(body) == Least(Len(ExtractEntries(body)), MaxBatch)

\* normalize.ts:204-208.  What one entry does to what has been pushed, and skipped.
Shape(done, raw, receivedAt) ==
  IF Usable(raw)
  THEN [done EXCEPT !.rows = Append(@, NormalizeEntry(raw, receivedAt))]
  ELSE [done EXCEPT !.skipped = @ + 1]

\* normalize.ts:201-209.  The loop, entry by entry.
Shaped(considered, receivedAt) ==
  LET after[i \in 0 .. Len(considered)] ==
        IF i = 0 THEN [rows |-> << >>, skipped |-> 0]
        ELSE Shape(after[i - 1], considered[i], receivedAt)
  IN  after[Len(considered)]

\* normalize.ts:196-212.
NormalizeBatch(body, receivedAt) ==
  LET entries == ExtractEntries(body)
      dropped == IF Len(entries) > MaxBatch THEN Len(entries) - MaxBatch ELSE 0
      shaped  == Shaped(SubSeq(entries, 1, Len(entries) - dropped), receivedAt)
  IN  [rows |-> shaped.rows, dropped |-> dropped, skipped |-> shaped.skipped]

-----------------------------------------------------------------------------
\* The width of each column, log_entries of migration 0000000003 (and 10).
FitsColumns(row) ==
  /\ \A v \in {row.column, row.environment, row.timestamp} : v = Null \/ v <= MaxColumn
  /\ row.trace = Null \/ row.trace <= MaxCorrelation
  /\ row.level \in Levels
  /\ row.timestamp # Null

=============================================================================
