------------------------------ MODULE FixRuns ------------------------------
(* "Fix with AI": the runs of one project, as app/Fix/analyze.ts starts and  *)
(* finishes them.  A request is a click on the button of /fix; each of its   *)
(* steps is one database call or the model's, and requests interleave        *)
(* between any two.  created_at has the resolution of a tick.                *)
EXTENDS Integers, FiniteSets

CONSTANTS
  Request,      \* clicks being handled at once
  Fingerprint,  \* the shapes errors have
  MaxRuns,      \* bound on the rows of log_fix_runs
  Engines,      \* the databases an installation may run on
  Window,       \* cacheHours, in ticks
  MaxNow,       \* bound on the clock
  Faults,       \* what may go wrong: "db", "lost", "crash", "model"
  MaxFaults     \* bound on faults of the first three kinds

ASSUME FixAssumption ==
  /\ MaxRuns \in Nat /\ MaxNow \in Nat /\ MaxFaults \in Nat
  /\ Window \in Nat \ {0}
  /\ Engines \subseteq {"sqlite", "postgres"}

Run == 1 .. MaxRuns
Status == {"none", "running", "completed", "failed"}
Calls == { "idle", "look", "insert", "again", "evidence", "model", "complete",
           "fail", "read", "answered", "threw" }

VARIABLES
  engine,  \* the database of this installation
  status,  \* log_fix_runs.status, by run; "none" is no row yet
  shape,   \* log_fix_runs.fingerprint
  made,    \* log_fix_runs.created_at
  rows,    \* the runs inserted so far
  req,     \* the requests: the call each is at, its entry's shape, its run
  now,     \* the clock
  faults   \* faults so far

table == <<status, shape, made, rows>>
vars == <<engine, table, req, now, faults>>

Init ==
  /\ engine \in Engines
  /\ status = [id \in Run |-> "none"]
  /\ shape \in { [id \in Run |-> f] : f \in Fingerprint }
  /\ made = [id \in Run |-> 0]
  /\ rows = 0
  /\ req \in { [r \in Request |-> [at |-> "idle", of |-> f, run |-> 0]] : f \in Fingerprint }
  /\ now = 0 /\ faults = 0

At(r, call) == req[r].at = call
Goes(r, call) == req' = [req EXCEPT ![r].at = call]
GoesWith(r, call, id) ==
  req' = [req EXCEPT ![r] = [at |-> call, of |-> req[r].of, run |-> id]]
NoFault == UNCHANGED faults
Fault(kind) == kind \in Faults /\ faults < MaxFaults /\ faults' = faults + 1

-----------------------------------------------------------------------------
(* The table.                                                                *)

\* The partial unique index: one queued or running row per fingerprint.
Active(f) == { id \in Run : status[id] = "running" /\ shape[id] = f }

\* Mutant: the index is left out of the migration.
UniqueNever(f) == TRUE

Unique(f) == Active(f) = {}

\* Mutant: only work in flight is looked for.
CountsAsAnswerActive(id) == status[id] = "running"

CountsAsAnswer(id) == status[id] = "running" \/ made[id] > now - Window

\* The rows latestRunFor may answer with: ORDER BY created_at DESC LIMIT 1
\* picks any of those that share the newest second.
LatestRuns(f) ==
  LET answers == { id \in Run : status[id] # "none" /\ shape[id] = f /\ CountsAsAnswer(id) }
  IN  { id \in answers : \A other \in answers : made[other] <= made[id] }

\* Mutant: the update does not ask whether the run is still running.
FinishedAnyway(id, result) == [status EXCEPT ![id] = result]

\* UPDATE ... WHERE id = $6 AND status = 'running'.
Finished(id, result) ==
  IF status[id] = "running" THEN [status EXCEPT ![id] = result] ELSE status

-----------------------------------------------------------------------------
(* analyzeEntry, call by call.                                               *)

\* The action of fix.stx: signed in, enabled, configured, and the entry is one
\* the actor can see.
Click(r, f) ==
  /\ req[r].at \in {"idle", "answered", "threw"}
  /\ req' = [req EXCEPT ![r] = [at |-> "look", of |-> f, run |-> 0]]
  /\ UNCHANGED <<engine, table, now, faults>>

Answers(r, id) == GoesWith(r, "answered", id)

Look(r) ==
  /\ At(r, "look")
  /\ LET found == LatestRuns(req[r].of) IN
       \/ \E id \in found : status[id] = "running" /\ Answers(r, id)
       \/ /\ found = {} \/ \E id \in found : status[id] # "running"
          /\ Goes(r, "insert")
  /\ NoFault
  /\ UNCHANGED <<engine, table, now>>

InsertRow(f) ==
  /\ rows < MaxRuns /\ rows' = rows + 1
  /\ status' = [status EXCEPT ![rows + 1] = "running"]
  /\ shape' = [shape EXCEPT ![rows + 1] = f]
  /\ made' = [made EXCEPT ![rows + 1] = now]

Insert(r) ==
  /\ At(r, "insert")
  /\ Unique(req[r].of)
  /\ InsertRow(req[r].of)
  /\ GoesWith(r, "evidence", rows + 1)
  /\ NoFault
  /\ UNCHANGED <<engine, now>>

\* Only Postgres calls a violation of the index 23505.
InsertConflicts(r) ==
  /\ At(r, "insert")
  /\ ~Unique(req[r].of)
  /\ Goes(r, IF engine = "postgres" THEN "again" ELSE "threw")
  /\ NoFault
  /\ UNCHANGED <<engine, table, now>>

LookAgain(r) ==
  /\ At(r, "again")
  /\ LET found == LatestRuns(req[r].of) IN
       \/ \E id \in found : Answers(r, id)
       \/ found = {} /\ Goes(r, "threw")
  /\ NoFault
  /\ UNCHANGED <<engine, table, now>>

\* recentOccurrences casts with ::int, which SQLite cannot parse.
CastsOn(e) == e = "postgres"

GatherEvidence(r) ==
  /\ At(r, "evidence")
  /\ Goes(r, IF CastsOn(engine) THEN "model" ELSE "fail")
  /\ NoFault
  /\ UNCHANGED <<engine, table, now>>

\* Mutant: an answer that came too late ends the request and nothing else.
AfterModelNothing == "read"

\* The call and the timer race; the loser's outcome is dropped.
AfterModel == "fail"

AskModel(r) ==
  /\ At(r, "model")
  /\ \/ Goes(r, "complete")
     \/ "model" \in Faults /\ Goes(r, AfterModel)
  /\ NoFault
  /\ UNCHANGED <<engine, table, now>>

\* No row returned: the run is read instead.
Complete(r) ==
  /\ At(r, "complete")
  /\ status' = Finished(req[r].run, "completed")
  /\ Goes(r, IF status[req[r].run] = "running" THEN "answered" ELSE "read")
  /\ NoFault
  /\ UNCHANGED <<engine, shape, made, rows, now>>

MarkFailed(r) ==
  /\ At(r, "fail")
  /\ status' = Finished(req[r].run, "failed")
  /\ Goes(r, "read")
  /\ NoFault
  /\ UNCHANGED <<engine, shape, made, rows, now>>

ReadRun(r) ==
  /\ At(r, "read")
  /\ Goes(r, "answered")
  /\ NoFault
  /\ UNCHANGED <<engine, table, now>>

-----------------------------------------------------------------------------
(* What may go wrong.                                                        *)

\* Where a call that throws leaves the request.  Inside the second try block
\* it is the catch.
Thrown(call) == IF call \in {"evidence", "complete"} THEN "fail" ELSE "threw"

\* A database call fails and does nothing.
DbFails(r) ==
  /\ req[r].at \in {"look", "insert", "again", "evidence", "complete", "fail", "read"}
  /\ Fault("db")
  /\ Goes(r, Thrown(req[r].at))
  /\ UNCHANGED <<engine, table, now>>

\* A write is done and its reply lost.
ReplyIsLost(r) ==
  /\ Fault("lost")
  /\ \/ At(r, "insert") /\ Unique(req[r].of) /\ InsertRow(req[r].of)
     \/ /\ At(r, "complete")
        /\ status' = Finished(req[r].run, "completed")
        /\ UNCHANGED <<shape, made, rows>>
     \/ /\ At(r, "fail")
        /\ status' = Finished(req[r].run, "failed")
        /\ UNCHANGED <<shape, made, rows>>
  /\ Goes(r, Thrown(req[r].at))
  /\ UNCHANGED <<engine, now>>

\* The process that handles a request dies.
Dies(r) ==
  /\ req[r].at \notin {"idle", "answered", "threw"}
  /\ Fault("crash")
  /\ GoesWith(r, "idle", 0)
  /\ UNCHANGED <<engine, table, now>>

Tick ==
  /\ now < MaxNow /\ now' = now + 1
  /\ UNCHANGED <<engine, table, req, faults>>

Continues(r) ==
  \/ Look(r) \/ Insert(r) \/ InsertConflicts(r) \/ LookAgain(r)
  \/ GatherEvidence(r) \/ AskModel(r) \/ Complete(r) \/ MarkFailed(r) \/ ReadRun(r)

Next ==
  \/ \E r \in Request :
       \/ \E f \in Fingerprint : Click(r, f)
       \/ Continues(r) \/ DbFails(r) \/ ReplyIsLost(r) \/ Dies(r)
  \/ Tick

Spec == Init /\ [][Next]_vars

-----------------------------------------------------------------------------
(* Properties.                                                               *)

\* A request between its INSERT and the end of its second try block.
Working(r) == req[r].at \in {"evidence", "model", "complete", "fail"}
Owns(r, id) == Working(r) /\ req[r].run = id

\* Every variable has its type, and a run has a status once its row is there.
TypeOK ==
  /\ engine \in Engines
  /\ status \in [Run -> Status]
  /\ shape \in [Run -> Fingerprint]
  /\ made \in [Run -> Nat]
  /\ rows \in 0 .. MaxRuns /\ now \in Nat /\ faults \in Nat
  /\ req \in [Request -> [at : Calls, of : Fingerprint, run : 0 .. MaxRuns]]
  /\ \A id \in Run : id > rows <=> status[id] = "none"

\* Migration 0000000016, "two people clicking the same error at the same time
\* must not start two runs": one run of a shape at a time, in the hands of one
\* request at most; and whatever a click is answered with is about its error.
OneAnalysis ==
  /\ \A f \in Fingerprint : \A id, other \in Active(f) : id = other
  /\ \A r \in Request : Working(r) \/ req[r].at \in {"read", "answered"} =>
       req[r].run \in 1 .. rows /\ shape[req[r].run] = req[r].of
  /\ \A r, s \in Request : Working(r) /\ Working(s) /\ req[r].run = req[s].run => r = s
  /\ \A r \in Request : req[r].at \in {"evidence", "model"} => status[req[r].run] = "running"

\* The two together, as the proofs use them.
FixInv == TypeOK /\ OneAnalysis

\* analyze.ts:352-353, "its result must not overwrite that minutes later".  A
\* run that has an outcome keeps it, a write whose reply was lost included.
OutcomeStays ==
  [][\A id \in Run : status[id] \in {"completed", "failed"} => status'[id] = status[id]]_vars

\* A run that is running in nobody's hands stays so for ever and keeps its shape
\* from being analysed again.  Each one took a crash or a write that failed:
\* never a timeout, a refusal of the model's or a race.
Stranded == { id \in Run : status[id] = "running" /\ \A r \in Request : ~Owns(r, id) }

StrandedByFaults ==
  Cardinality(Stranded) <= faults

\* analyze.ts:325-326, "hand back their run rather than reporting a conflict":
\* on Postgres the loser of a race is given a run, the winner's if it is there
\* still, though it may have finished by then.
LoserIsAnswered ==
  \A r \in Request :
    At(r, "threw") => engine = "sqlite" \/ faults > 0 \/ now >= Window

\* sql-dialect.test.ts:2, "the SQL this app issues has to run on the database
\* this app actually uses": with no fault, and a model that answers, no
\* analysis fails.
FailsForACause ==
  Faults = {} => \A id \in Run : status[id] # "failed"

=============================================================================
