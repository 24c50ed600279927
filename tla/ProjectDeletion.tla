-------------------------- MODULE ProjectDeletion --------------------------
(* The deletion of a project, routes/projects.ts and purgeProject of         *)
(* app/Archive/exporter.ts: its calls in their order, among the requests     *)
(* that write below the project, an archive run at work on its days, and     *)
(* another deletion of the same project, by a double click or a retry.       *)
(* There is no transaction anywhere.                                         *)
EXTENDS Integers, FiniteSets

CONSTANTS
  Writer,      \* requests that add one row below the project
  Written,     \* the tables they add it to
  Day,         \* its days
  DayOf,       \* the day of an entry, by the request that sent it
  NoDay,
  Deletion,    \* the owner's requests that delete it
  MaxFaults    \* bound on what fails

\* The tables the handler empties, in its order, and those it does not name.
Emptied == <<"log_entries", "alert_channels", "project_members", "project_invites">>
Swept == { Emptied[i] : i \in 1 .. 4 }
Kept == {"log_fix_runs", "project_repositories"}
Table == Swept \cup Kept

ASSUME DeletionAssumption ==
  /\ Written \subseteq Table
  /\ DayOf \in [Writer -> Day] /\ NoDay \notin Day
  /\ MaxFaults \in Nat

VARIABLES
  enforce,   \* whether the database enforces REFERENCES
  project,   \* whether the row of projects is there
  rows,      \* the rows below it, by table: the requests that wrote them
  writer,    \* those requests: idle, done, or the table each is about to write to
  ledger,    \* the status of each day in archive_partitions, or none
  path,      \* the days with an object_path there
  objects,   \* the days with an object in the bucket
  run,       \* the archive run: the call it is at, and its day
  del,       \* the deletions: the call each is at, the keys it has left
  faults,
  before,    \* history: the rows there when each deletion began
  excused,   \* history: days whose object lost its name to a failure or a race
  purged     \* history: days whose object a deletion removed, and left the name

dbVars == <<project, rows, ledger, path>>
history == <<before, excused, purged>>
vars == <<enforce, dbVars, writer, objects, run, del, faults, history>>

Init ==
  /\ enforce \in BOOLEAN
  /\ project = TRUE /\ rows = [t \in Table |-> {}]
  /\ writer = [w \in Writer |-> "idle"]
  /\ ledger = [d \in Day |-> "none"] /\ path = {} /\ objects = {}
  /\ run = [at |-> "idle", day |-> NoDay]
  /\ del = [x \in Deletion |-> [at |-> "idle", keys |-> {}]] /\ faults = 0
  /\ before = [x \in Deletion |-> {}] /\ excused = {} /\ purged = {}

Fault == faults < MaxFaults /\ faults' = faults + 1
Over == {"answered", "refused", "stopped"}
Deleting(x) == del[x].at \notin {"idle"} \cup Over

-----------------------------------------------------------------------------
(* Requests that write below the project: an entry ingested, an alert        *)
(* channel, an accepted invite, an invite, an analysis, a connection.        *)

\* Each looks the project up first.
Admit(w, t) ==
  /\ writer[w] = "idle" /\ project
  /\ writer' = [writer EXCEPT ![w] = t]
  /\ UNCHANGED <<enforce, dbVars, objects, run, del, faults, history>>

\* REFERENCES projects(id); an analysis refers to its log entry too.
RefersTo(t) == project /\ (t = "log_fix_runs" => rows["log_entries"] # {})

Insert(w) ==
  /\ writer[w] \in Table
  /\ writer' = [writer EXCEPT ![w] = "done"]
  /\ IF enforce => RefersTo(writer[w])
     THEN rows' = [rows EXCEPT ![writer[w]] = @ \cup {w}]
     ELSE UNCHANGED rows
  /\ UNCHANGED <<enforce, project, ledger, path, objects, run, del, faults,
                 before, excused, purged>>

\* A channel is removed, a member, an invite, a connection.
RemoveRow(w, t) ==
  /\ w \in rows[t] /\ t \notin {"log_entries", "log_fix_runs"}
  /\ rows' = [rows EXCEPT ![t] = @ \ {w}]
  /\ UNCHANGED <<enforce, project, writer, ledger, path, objects, run, del,
                 faults, history>>

-----------------------------------------------------------------------------
(* The archive run, as far as the bucket, the ledger and the entries go.     *)

Runs(at) == run' = [run EXCEPT !.at = at]
RunEnds == run' = [at |-> "idle", day |-> NoDay]

EntriesOf(d) == { w \in rows["log_entries"] : DayOf[w] = d }

\* A day of entries, new to the ledger, failed, or claimed by a run that died.
RunClaims(d) ==
  /\ run.at = "idle"
  /\ EntriesOf(d) # {} /\ ledger[d] \in {"none", "failed", "exporting"}
  /\ (ledger[d] = "none" /\ enforce) => project
  /\ ledger' = [ledger EXCEPT ![d] = "exporting"]
  /\ run' = [at |-> "assert", day |-> d]
  /\ UNCHANGED <<enforce, project, rows, path, writer, objects, del, faults,
                 before, excused, purged>>

\* An UPDATE: without a row there is nothing it changes.
Marked(d, status) ==
  IF ledger[d] = "none" THEN ledger ELSE [ledger EXCEPT ![d] = status]

\* Without a row, as after a deletion that cleared the ledger, it is not exported.
RunAsserts ==
  /\ run.at = "assert"
  /\ IF ledger[run.day] = "none" THEN RunEnds ELSE Runs("stage")
  /\ UNCHANGED <<enforce, dbVars, writer, objects, del, faults, history>>

\* Nothing left of the day: deleted, and object_path null, although an attempt
\* that failed later than its mark may have recorded one.
RunStages ==
  /\ run.at = "stage"
  /\ IF EntriesOf(run.day) = {}
     THEN /\ RunEnds
          /\ ledger' = Marked(run.day, "deleted") /\ path' = path \ {run.day}
          /\ excused' = excused \cup (path \cap {run.day})
     ELSE Runs("copy") /\ UNCHANGED <<ledger, path, excused>>
  /\ UNCHANGED <<enforce, project, rows, writer, objects, del, faults,
                 before, purged>>

\* A deletion that will not ask the day's key is about to clear the ledger.
Forgets(d) == \E x \in Deletion : del[x].at = "objects" /\ d \notin del[x].keys

\* Nothing will remove the object of a day that has one.
Unnamed(d) == d \notin path \/ Forgets(d)

\* COPY, then the count.  Either may fail when the object is already written.
RunCopies ==
  /\ run.at = "copy"
  /\ \/ /\ Runs("mark") /\ objects' = objects \cup {run.day} /\ purged' = purged \ {run.day}
        /\ UNCHANGED <<ledger, faults, excused>>
     \/ /\ Fault /\ RunEnds
        /\ ledger' = Marked(run.day, "failed")
        /\ \/ UNCHANGED <<objects, excused, purged>>
           \/ /\ objects' = objects \cup {run.day} /\ purged' = purged \ {run.day}
              /\ excused' = IF Unnamed(run.day) THEN excused \cup {run.day} ELSE excused
  /\ UNCHANGED <<enforce, project, rows, path, writer, del, before>>

\* The mark that records the path, if the ledger still has the day.
RunMarks ==
  /\ run.at = "mark"
  /\ Runs("delete")
  /\ ledger' = Marked(run.day, "verified")
  /\ path' = IF ledger[run.day] = "none" THEN path ELSE path \cup {run.day}
  /\ excused' = IF ledger[run.day] = "none" \/ Forgets(run.day)
                THEN excused \cup {run.day} ELSE excused \ {run.day}
  /\ UNCHANGED <<enforce, project, rows, writer, objects, del, faults, before, purged>>

\* deleteDay, and the last mark.
RunDeletes ==
  /\ run.at = "delete"
  /\ rows' = [rows EXCEPT !["log_entries"] = @ \ EntriesOf(run.day)]
  /\ ledger' = Marked(run.day, "deleted")
  /\ RunEnds
  /\ UNCHANGED <<enforce, project, path, writer, objects, del, faults, history>>

\* A database call of the run throws and its day is failed, or its process dies.
RunThrows ==
  /\ run.at # "idle"
  /\ Fault /\ RunEnds
  /\ ledger' \in {ledger, Marked(run.day, "failed")}
  /\ excused' = IF run.at = "mark" /\ Unnamed(run.day)
                THEN excused \cup {run.day} ELSE excused
  /\ UNCHANGED <<enforce, project, rows, path, writer, objects, del,
                 before, purged>>

-----------------------------------------------------------------------------
(* The deletion.                                                             *)

Deletes(x, at, keys) == del' = [del EXCEPT ![x] = [at |-> at, keys |-> keys]]

\* The owner asks for it, and may again as long as the project is there, whether
\* or not an earlier request is still at work.
DeleteStarts(x) ==
  /\ del[x].at = "idle" /\ project
  /\ Deletes(x, "list", {})
  /\ before' = [before EXCEPT ![x] = UNION { rows[t] : t \in Table }]
  /\ UNCHANGED <<enforce, dbVars, writer, objects, run, faults, excused, purged>>

\* Mutant: the ledger is cleared before its keys are read.
KeysNone == {}

\* object_path IS NOT NULL.
Keys == path

\* The operator may take the bucket's settings away at any time; without them
\* every object stays where it is.
ListKeys(x) ==
  /\ del[x].at = "list"
  /\ \/ Deletes(x, "objects", Keys) /\ UNCHANGED excused
     \/ Deletes(x, "objects", {}) /\ excused' = excused \cup Keys
  /\ UNCHANGED <<enforce, dbVars, writer, objects, run, faults, before, purged>>

\* Mutant: an object that cannot be removed fails the request.
DeleteObjectThrows(x, d) ==
  /\ del[x].at = "objects" /\ d \in del[x].keys
  /\ \/ /\ Deletes(x, "objects", del[x].keys \ {d}) /\ objects' = objects \ {d}
        /\ purged' = purged \cup {d} /\ UNCHANGED <<faults, excused>>
     \/ Fault /\ Deletes(x, "refused", {}) /\ UNCHANGED <<objects, excused, purged>>
  /\ UNCHANGED <<enforce, dbVars, writer, run, before>>

\* One object after the other; a failure is counted and the next one tried.
DeleteObject(x, d) ==
  /\ del[x].at = "objects" /\ d \in del[x].keys
  /\ Deletes(x, "objects", del[x].keys \ {d})
  /\ \/ objects' = objects \ {d} /\ purged' = purged \cup {d} /\ UNCHANGED <<faults, excused>>
     \/ Fault /\ excused' = excused \cup {d} /\ UNCHANGED <<objects, purged>>
  /\ UNCHANGED <<enforce, dbVars, writer, run, before>>

\* Mutant: the days of an unfinished export are left for the next run.
ClearLedgerOfSettled(x) ==
  /\ del[x].at = "objects" /\ del[x].keys = {}
  /\ LET settled == { d \in Day : ledger[d] \in {"verified", "deleted"} } IN
     ledger' = [d \in Day |-> IF d \in settled THEN "none" ELSE ledger[d]] /\ path' = path \ settled
  /\ purged' = {}
  /\ Deletes(x, Emptied[1], {})
  /\ UNCHANGED <<enforce, project, rows, writer, objects, run, faults, before, excused>>

\* When every key was tried, whatever failed.
ClearLedger(x) ==
  /\ del[x].at = "objects" /\ del[x].keys = {}
  /\ ledger' = [d \in Day |-> "none"] /\ path' = {} /\ purged' = {}
  /\ Deletes(x, Emptied[1], {})
  /\ UNCHANGED <<enforce, project, rows, writer, objects, run, faults, before, excused>>

\* Mutant: the members are forgotten.
SweepNextShort(i) == IF i = 4 THEN "project" ELSE IF i = 2 THEN Emptied[4] ELSE Emptied[i + 1]

SweepNext(i) == IF i = 4 THEN "project" ELSE Emptied[i + 1]

\* An entry with an analysis cannot go where REFERENCES is enforced.
Sweep(x, i) ==
  /\ del[x].at = Emptied[i]
  /\ IF enforce /\ Emptied[i] = "log_entries" /\ rows["log_fix_runs"] # {}
     THEN Deletes(x, "refused", {}) /\ UNCHANGED rows
     ELSE Deletes(x, SweepNext(i), {}) /\ rows' = [rows EXCEPT ![Emptied[i]] = {}]
  /\ UNCHANGED <<enforce, project, ledger, path, writer, objects, run, faults, history>>

\* What REFERENCES holds against the project's row.
Referred ==
  \/ \E t \in Table : rows[t] # {}
  \/ \E d \in Day : ledger[d] # "none"

\* Without a row, as after another deletion, there is nothing to refuse.
DropProject(x) ==
  /\ del[x].at = "project"
  /\ IF project /\ enforce /\ Referred
     THEN Deletes(x, "refused", {}) /\ UNCHANGED project
     ELSE Deletes(x, "answered", {}) /\ project' = FALSE
  /\ UNCHANGED <<enforce, rows, ledger, path, writer, objects, run, faults, history>>

\* A database call fails, or the process dies.
DeleteStops(x) ==
  /\ Deleting(x)
  /\ Fault /\ Deletes(x, "stopped", {})
  /\ UNCHANGED <<enforce, dbVars, writer, objects, run, history>>

DeletionStep(x) ==
  \/ ListKeys(x) \/ \E d \in Day : DeleteObject(x, d)
  \/ ClearLedger(x) \/ \E i \in 1 .. 4 : Sweep(x, i)
  \/ DropProject(x)

Next ==
  \/ \E w \in Writer : Insert(w) \/ \E t \in Written : Admit(w, t) \/ RemoveRow(w, t)
  \/ \E d \in Day : RunClaims(d)
  \/ RunAsserts \/ RunStages \/ RunCopies \/ RunMarks \/ RunDeletes \/ RunThrows
  \/ \E x \in Deletion : DeleteStarts(x) \/ DeletionStep(x) \/ DeleteStops(x)

Spec == Init /\ [][Next]_vars

\* Some handler goes on to its next call, until none has one left.
FairSpec == Spec /\ WF_vars(\E x \in Deletion : DeletionStep(x))

-----------------------------------------------------------------------------
(* Properties.                                                               *)

\* Every variable has its type.
TypeOK ==
  /\ enforce \in BOOLEAN /\ project \in BOOLEAN
  /\ rows \in [Table -> SUBSET Writer]
  /\ writer \in [Writer -> {"idle", "done"} \cup Table]
  /\ ledger \in [Day -> {"none", "exporting", "failed", "verified", "deleted"}]
  /\ path \subseteq Day /\ objects \subseteq Day
  /\ run \in [at : {"idle", "assert", "stage", "copy", "mark", "delete"}, day : Day \cup {NoDay}]
  /\ del \in [Deletion -> [at : {"idle", "list", "objects", "project"} \cup Swept \cup Over,
                           keys : SUBSET Day]]
  /\ faults \in Nat
  /\ before \in [Deletion -> SUBSET Writer]
  /\ excused \subseteq Day /\ purged \subseteq Day

\* exporter.ts:616-620 and query.ts:4-6, seen from the ledger: a path leads to
\* an object.  A run records it after its COPY, and of the objects a deletion
\* removed no path is left once the ledger was cleared, whatever a run or
\* another deletion did meanwhile.  Only a deletion that is between the two, or
\* stopped there, leaves a path behind that every query of its day fails on.
PathsLead == path \subseteq objects \cup purged

DeletionInv == TypeOK /\ PathsLead

\* exporter.ts:616-620, "the recoverable order": however deletions, the run
\* and their failures interleave, an object in the bucket is named by the
\* ledger, unless an export or the deletion of that object failed or overlapped.
ObjectsNamed ==
  objects \subseteq path \cup excused \cup (IF run.at = "mark" THEN {run.day} ELSE {})

\* projects.ts:228-236, "everything under it": a deletion that is answered with
\* success has left neither the project nor any row of the four tables that was
\* there when it began, another deletion at work or not.
OldRowsGo ==
  \A x \in Deletion : del[x].at = "answered" =>
    ~project /\ \A t \in Swept : rows[t] \cap before[x] = {}

\* What may stand in the way where REFERENCES is enforced: a row of a table the
\* deletion does not empty, one written since it began, a day claimed since it
\* cleared the ledger.
InTheWay(x) ==
  \/ \E t \in Kept : rows[t] # {}
  \/ \E t \in Swept : ~(rows[t] \subseteq before[x])
  \/ \E d \in Day : ledger[d] # "none"

\* projects.ts:245-249, "cannot block the deletion the user asked for": whatever
\* fails at the bucket or in the run, the request comes to its end, and is
\* refused only where the database enforces REFERENCES and has a cause to.
RefusedForACause ==
  \A x \in Deletion : Deleting(x) /\ del'[x].at = "refused" => enforce /\ InTheWay(x)

DeletionEnds ==
  /\ []<>(\A x \in Deletion : ~Deleting(x))
  /\ [][RefusedForACause]_vars

=============================================================================
