----------------------- MODULE ProjectDeletionProofs -----------------------
(* For any requests, days, deletions and faults: what a deletion leaves      *)
(* behind, in the database and in the bucket, and what may refuse it.        *)
EXTENDS ProjectDeletion, TLAPS

USE DeletionAssumption

\* The day a run has written and not marked yet.
MarkDay == IF run.at = "mark" THEN {run.day} ELSE {}

\* Once a deletion has listed the keys, those it has left and the excused days
\* are all the objects there are.
KeysCover ==
  /\ \A x \in Deletion :
       IF del[x].at = "objects" THEN objects \subseteq excused \cup del[x].keys \cup MarkDay
                                ELSE del[x].keys = {}
  /\ run.at # "idle" => run.day \in Day

ObjectInv == ObjectsNamed /\ KeysCover

\* The object of a day about to be marked is there, unless a deletion took it;
\* the mark finds no row once the ledger is cleared.
MarkInv ==
  run.at = "mark" /\ ledger[run.day] # "none" => run.day \in objects \cup purged

PathInv == PathsLead /\ MarkInv

Done == { w \in Writer : writer[w] = "done" }

\* A deletion has come past the i-th table.
Past(x, i) ==
  del[x].at \in {"project", "answered"} \/ \E j \in 1 .. 4 : del[x].at = Emptied[j] /\ i < j

\* A row is written once, so no table that was swept has an old row again.
SweptInv ==
  /\ \A t \in Table : rows[t] \subseteq Done
  /\ \A x \in Deletion :
       /\ before[x] \subseteq Done
       /\ \A i \in 1 .. 4 : Past(x, i) => rows[Emptied[i]] \cap before[x] = {}
       /\ del[x].at = "answered" => ~project

DelAt == {"idle", "list", "objects", "project"} \cup Swept \cup Over
Ledger == [Day -> {"none", "exporting", "failed", "verified", "deleted"}]

LEMMA EmptiedFacts ==
  /\ Emptied[1] = "log_entries" /\ Emptied[2] = "alert_channels"
  /\ Emptied[3] = "project_members" /\ Emptied[4] = "project_invites"
  /\ \A i \in 1 .. 4 : Emptied[i] \in Swept /\ Emptied[i] \in Table
  /\ \A i, j \in 1 .. 4 : Emptied[i] = Emptied[j] => i = j
  /\ Swept = {"log_entries", "alert_channels", "project_members", "project_invites"}
  /\ "idle" \notin Table /\ "done" \notin Table
<1>1. /\ Emptied[1] = "log_entries" /\ Emptied[2] = "alert_channels"
      /\ Emptied[3] = "project_members" /\ Emptied[4] = "project_invites"
  BY DEF Emptied
<1>2. 1 .. 4 = {1, 2, 3, 4}
  OBVIOUS
<1>3. Swept = {"log_entries", "alert_channels", "project_members", "project_invites"}
  BY <1>1, <1>2 DEF Swept
<1> QED
  BY <1>1, <1>2, <1>3 DEF Table, Kept

LEMMA InitInv == Init => TypeOK /\ PathInv /\ ObjectInv /\ SweptInv
<1> SUFFICES ASSUME Init PROVE TypeOK /\ PathInv /\ ObjectInv /\ SweptInv
  OBVIOUS
<1>1. TypeOK
  BY DEF Init, TypeOK
<1>2. PathInv /\ ObjectInv
  BY DEF Init, PathInv, PathsLead, MarkInv, ObjectInv, ObjectsNamed, KeysCover
<1>3. SweptInv
  BY EmptiedFacts DEF Init, SweptInv, Past
<1> QED
  BY <1>1, <1>2, <1>3

-----------------------------------------------------------------------------
(* Types.                                                                    *)

LEMMA MarkedType ==
  ASSUME TypeOK, NEW d \in Day, NEW s \in {"failed", "verified", "deleted"}
  PROVE  Marked(d, s) \in Ledger
  BY DEF TypeOK, Marked, Ledger

LEMMA WritersType ==
  ASSUME TypeOK,
         \E w \in Writer : Insert(w) \/ \E t \in Written : Admit(w, t) \/ RemoveRow(w, t)
  PROVE  TypeOK'
<1> USE DEF dbVars, history, TypeOK
<1>1. PICK w \in Writer : Insert(w) \/ \E t \in Written : Admit(w, t) \/ RemoveRow(w, t)
  OBVIOUS
<1>2. CASE Insert(w)
  BY <1>2 DEF Insert
<1>3. ASSUME NEW t \in Written, Admit(w, t) PROVE TypeOK'
  BY <1>3 DEF Admit
<1>4. ASSUME NEW t \in Written, RemoveRow(w, t) PROVE TypeOK'
  BY <1>4 DEF RemoveRow
<1> QED
  BY <1>1, <1>2, <1>3, <1>4

RunStep == RunAsserts \/ RunStages \/ RunCopies \/ RunMarks \/ RunDeletes \/ RunThrows

LEMMA RunType ==
  ASSUME TypeOK, ObjectInv, RunStep \/ \E d \in Day : RunClaims(d)
  PROVE  TypeOK'
<1> USE DEF dbVars, history
<1>1. CASE \E d \in Day : RunClaims(d)
  BY <1>1 DEF RunClaims, TypeOK
<1>2. CASE RunStep
  <2> USE DEF RunStep, RunAsserts, RunStages, RunCopies, RunMarks, RunDeletes, RunThrows
  <2>1. run.day \in Day
    BY <1>2 DEF ObjectInv, KeysCover
  <2>2. \A s \in {"failed", "verified", "deleted"} : Marked(run.day, s) \in Ledger
    BY <2>1, MarkedType
  <2>3. ledger' \in Ledger
    BY <1>2, <2>2 DEF TypeOK, Ledger
  <2>4. /\ run' \in [at : {"idle", "assert", "stage", "copy", "mark", "delete"}, day : Day \cup {NoDay}]
        /\ faults' \in Nat
    BY <1>2 DEF TypeOK, Runs, RunEnds, Fault
  <2>5. /\ path' \subseteq Day /\ objects' \subseteq Day
        /\ excused' \subseteq Day /\ purged' \subseteq Day
        /\ rows' \in [Table -> SUBSET Writer]
    BY <1>2, <2>1 DEF TypeOK
  <2>6. UNCHANGED <<enforce, project, writer, del, before>>
    BY <1>2
  <2> QED
    BY <2>3, <2>4, <2>5, <2>6 DEF TypeOK, Ledger
<1> QED
  BY <1>1, <1>2

LEMMA DeletionType ==
  ASSUME TypeOK, NEW x \in Deletion, DeleteStarts(x) \/ DeletionStep(x) \/ DeleteStops(x)
  PROVE  TypeOK'
<1> USE EmptiedFacts DEF dbVars, history, Deletes, Fault, DelAt, Over
<1>1. \A at \in DelAt, keys \in SUBSET Day :
        [del EXCEPT ![x] = [at |-> at, keys |-> keys]] \in
          [Deletion -> [at : DelAt, keys : SUBSET Day]]
  BY DEF TypeOK
<1> DEFINE Moves == \E at \in DelAt, keys \in SUBSET Day : Deletes(x, at, keys)
<1>2. Moves
  <2>1. CASE DeleteStarts(x)
    BY <2>1 DEF DeleteStarts
  <2>2. CASE ListKeys(x)
    BY <2>2 DEF ListKeys, Keys, TypeOK
  <2>3. ASSUME NEW d \in Day, DeleteObject(x, d)
        PROVE  Moves
    <3>1. del[x].keys \ {d} \in SUBSET Day
      BY DEF TypeOK
    <3> QED
      BY <2>3, <3>1 DEF DeleteObject
  <2>4. CASE ClearLedger(x)
    BY <2>4 DEF ClearLedger
  <2>5. ASSUME NEW i \in 1 .. 4, Sweep(x, i)
        PROVE  Moves
    <3>1. SweepNext(i) \in DelAt
      BY DEF SweepNext
    <3> QED
      BY <2>5, <3>1 DEF Sweep
  <2>6. CASE DropProject(x)
    BY <2>6 DEF DropProject
  <2>7. CASE DeleteStops(x)
    BY <2>7 DEF DeleteStops
  <2> HIDE DEF Moves
  <2> QED
    BY <2>1, <2>2, <2>3, <2>4, <2>5, <2>6, <2>7 DEF DeletionStep
<1>3. del' \in [Deletion -> [at : DelAt, keys : SUBSET Day]]
  BY <1>1, <1>2
<1>4. faults' \in Nat /\ project' \in BOOLEAN
  <2>1. CASE UNCHANGED <<faults, project>>
    BY <2>1 DEF TypeOK
  <2>2. CASE faults' = faults + 1 /\ UNCHANGED project
    BY <2>2 DEF TypeOK
  <2>3. CASE DropProject(x)
    BY <2>3 DEF DropProject, TypeOK
  <2> QED
    BY <2>1, <2>2, <2>3 DEF DeletionStep, DeleteStarts, ListKeys, DeleteObject, ClearLedger, Sweep, DeleteStops
<1>5. /\ rows' \in [Table -> SUBSET Writer] /\ ledger' \in Ledger /\ path' \subseteq Day
      /\ objects' \subseteq Day /\ excused' \subseteq Day /\ purged' \subseteq Day
      /\ before' \in [Deletion -> SUBSET Writer]
      /\ UNCHANGED <<enforce, writer, run>>
  BY DEF DeletionStep, DeleteStarts, ListKeys, Keys, DeleteObject, ClearLedger, Sweep, DropProject,
         DeleteStops, TypeOK, Ledger
<1> QED
  BY <1>3, <1>4, <1>5 DEF TypeOK, Ledger

-----------------------------------------------------------------------------
(* The ledger and the bucket.                                                *)

LEMMA PathStep ==
  ASSUME TypeOK, ObjectInv, PathInv, Next
  PROVE  PathInv'
<1> USE DEF PathInv, PathsLead, MarkInv, dbVars, history
<1>1. CASE \E w \in Writer : Insert(w) \/ \E t \in Written : Admit(w, t) \/ RemoveRow(w, t)
  BY <1>1 DEF Insert, Admit, RemoveRow
<1>2. CASE \E d \in Day : RunClaims(d)
  BY <1>2 DEF RunClaims
<1>3. CASE RunAsserts \/ RunStages
  BY <1>3 DEF RunAsserts, RunStages, Runs, RunEnds, TypeOK
<1>4. CASE RunCopies
  BY <1>4 DEF RunCopies, Runs, RunEnds, TypeOK
<1>5. CASE RunMarks
  BY <1>5 DEF RunMarks, Runs, TypeOK
<1>6. CASE RunDeletes \/ RunThrows
  BY <1>6 DEF RunDeletes, RunThrows, RunEnds
<1>7. ASSUME NEW x \in Deletion, DeleteStarts(x) \/ DeleteStops(x) PROVE PathInv'
  BY <1>7 DEF DeleteStarts, DeleteStops
<1>8. ASSUME NEW x \in Deletion, DeletionStep(x) PROVE PathInv'
  <2>1. CASE ListKeys(x) \/ DropProject(x) \/ \E i \in 1 .. 4 : Sweep(x, i)
    BY <2>1 DEF ListKeys, DropProject, Sweep
  <2>2. ASSUME NEW d \in Day, DeleteObject(x, d) PROVE PathInv'
    BY <2>2 DEF DeleteObject
  <2>3. CASE ClearLedger(x)
    <3>1. path' = {} /\ run' = run
      BY <2>3 DEF ClearLedger
    <3>2. run.at = "mark" => ledger'[run.day] = "none"
      BY <2>3 DEF ClearLedger, ObjectInv, KeysCover
    <3> QED
      BY <3>1, <3>2
  <2> QED
    BY <1>8, <2>1, <2>2, <2>3 DEF DeletionStep
<1> QED
  BY <1>1, <1>2, <1>3, <1>4, <1>5, <1>6, <1>7, <1>8 DEF Next

\* A step that moves neither the deletions nor the objects.
LEMMA CoverFrame ==
  ASSUME ObjectInv, UNCHANGED <<objects, del>>, excused \subseteq excused',
         run.at # "mark", run'.at # "idle" => run'.day \in Day,
         path \subseteq path' \cup excused'
  PROVE  ObjectInv'
  BY DEF ObjectInv, ObjectsNamed, KeysCover, MarkDay

LEMMA ObjectsStep ==
  ASSUME TypeOK, ObjectInv, Next
  PROVE  ObjectInv'
<1> USE DEF ObjectInv, ObjectsNamed, KeysCover, MarkDay, dbVars, history
<1>1. CASE \E w \in Writer : Insert(w) \/ \E t \in Written : Admit(w, t) \/ RemoveRow(w, t)
  <2>1. UNCHANGED <<path, objects, excused, run, del>>
    BY <1>1 DEF Insert, Admit, RemoveRow
  <2> QED
    BY <2>1
<1>2. CASE \E d \in Day : RunClaims(d)
  <2>1. PICK d \in Day : RunClaims(d)
    BY <1>2
  <2>2. run.at = "idle" /\ run'.day = d /\ UNCHANGED <<path, objects, excused, del>>
    BY <2>1 DEF RunClaims
  <2> QED
    BY <2>2, CoverFrame
<1>3. CASE RunAsserts \/ RunStages
  <2>1. run.at \in {"assert", "stage"} /\ UNCHANGED <<objects, del>>
    BY <1>3 DEF RunAsserts, RunStages
  <2>2. run'.at # "idle" => run'.day = run.day
    BY <1>3 DEF RunAsserts, RunStages, Runs, RunEnds, TypeOK
  <2>3. excused \subseteq excused' /\ path \subseteq path' \cup excused'
    BY <1>3 DEF RunAsserts, RunStages
  <2> QED
    BY <2>1, <2>2, <2>3, CoverFrame
<1>4. CASE RunCopies
  <2>1. run.at = "copy" /\ run.day \in Day /\ UNCHANGED <<path, del>>
    BY <1>4 DEF RunCopies
  <2>2. CASE Runs("mark") /\ objects' = objects \cup {run.day} /\ UNCHANGED excused
    <3>1. run'.at = "mark" /\ run'.day = run.day
      BY <2>2 DEF Runs, TypeOK
    <3> QED
      BY <2>1, <2>2, <3>1
  <2>3. CASE RunEnds /\ UNCHANGED <<objects, excused>>
    BY <2>1, <2>3 DEF RunEnds
  <2>4. CASE /\ RunEnds /\ objects' = objects \cup {run.day}
             /\ excused' = IF Unnamed(run.day) THEN excused \cup {run.day} ELSE excused
    BY <2>1, <2>4 DEF RunEnds, Unnamed, Forgets
  <2> QED
    BY <1>4, <2>2, <2>3, <2>4 DEF RunCopies
<1>5. CASE RunMarks
  <2>1. /\ run.at = "mark" /\ run.day \in Day /\ run'.at = "delete" /\ run'.day = run.day
        /\ UNCHANGED <<objects, del>>
    BY <1>5 DEF RunMarks, Runs, TypeOK
  <2>2. CASE ledger[run.day] = "none" \/ Forgets(run.day)
    BY <1>5, <2>1, <2>2 DEF RunMarks
  <2>3. CASE ~(ledger[run.day] = "none" \/ Forgets(run.day))
    <3>1. path' = path \cup {run.day} /\ excused' = excused \ {run.day}
      BY <1>5, <2>3 DEF RunMarks
    <3>2. \A x \in Deletion : del[x].at = "objects" => run.day \in del[x].keys
      BY <2>3 DEF Forgets
    <3> QED
      BY <2>1, <3>1, <3>2
  <2> QED
    BY <2>2, <2>3
<1>6. CASE RunDeletes
  BY <1>6 DEF RunDeletes, RunEnds
<1>7. CASE RunThrows
  <2>1. run.at # "idle" /\ run'.at = "idle" /\ UNCHANGED <<path, objects, del>>
    BY <1>7 DEF RunThrows, RunEnds
  <2>2. excused' = IF run.at = "mark" /\ Unnamed(run.day) THEN excused \cup {run.day} ELSE excused
    BY <1>7 DEF RunThrows
  <2> QED
    BY <2>1, <2>2 DEF Unnamed, Forgets
<1>8. ASSUME NEW x \in Deletion, DeleteStarts(x) \/ DeletionStep(x) \/ DeleteStops(x)
      PROVE  ObjectInv'
  <2>1. run' = run /\ \A y \in Deletion \ {x} : del'[y] = del[y]
    BY <1>8 DEF DeleteStarts, DeletionStep, DeleteStops, ListKeys, DeleteObject, ClearLedger, Sweep,
                DropProject, Deletes, TypeOK
  <2>2. CASE DeleteStarts(x) \/ DeleteStops(x) \/ DropProject(x) \/ \E i \in 1 .. 4 : Sweep(x, i)
    <3>1. UNCHANGED <<path, objects, excused>>
      BY <2>2 DEF DeleteStarts, DeleteStops, DropProject, Sweep
    <3>2. del'[x].at # "objects" /\ del'[x].keys = {}
      BY <2>2, EmptiedFacts DEF DeleteStarts, DeleteStops, DropProject, Sweep, SweepNext, Deletes, TypeOK
    <3> QED
      BY <2>1, <3>1, <3>2
  <2>3. CASE ListKeys(x)
    <3>1. UNCHANGED <<path, objects>> /\ excused \subseteq excused' /\ del'[x].at = "objects"
      BY <2>3 DEF ListKeys, Deletes, TypeOK
    <3>2. path \subseteq excused' \cup del'[x].keys
      BY <2>3 DEF ListKeys, Deletes, Keys, TypeOK
    <3> QED
      BY <2>1, <3>1, <3>2
  <2>4. ASSUME NEW d \in Day, DeleteObject(x, d) PROVE ObjectInv'
    <3>1. path' = path /\ excused \subseteq excused' /\ objects' \subseteq objects
      BY <2>4 DEF DeleteObject
    <3>2. d \notin objects' \/ d \in excused'
      BY <2>4 DEF DeleteObject
    <3>3. del[x].at = "objects" /\ del'[x].at = "objects" /\ del'[x].keys = del[x].keys \ {d}
      BY <2>4 DEF DeleteObject, Deletes, TypeOK
    <3> QED
      BY <2>1, <3>1, <3>2, <3>3
  <2>5. CASE ClearLedger(x)
    <3>1. UNCHANGED <<objects, excused>> /\ objects \subseteq excused \cup MarkDay
      BY <2>5 DEF ClearLedger
    <3>2. del'[x].at # "objects" /\ del'[x].keys = {}
      BY <2>5, EmptiedFacts DEF ClearLedger, Deletes, TypeOK
    <3> QED
      BY <2>1, <3>1, <3>2
  <2> QED
    BY <1>8, <2>2, <2>3, <2>4, <2>5 DEF DeletionStep
<1> QED
  BY <1>1, <1>2, <1>3, <1>4, <1>5, <1>6, <1>7, <1>8 DEF Next

-----------------------------------------------------------------------------
(* The rows.                                                                 *)

\* A step that adds no row to a table and leaves the deletions where they are.
LEMMA SweptAside ==
  ASSUME SweptInv, UNCHANGED <<project, del, before>>, Done \subseteq Done',
         \A t \in Table : rows'[t] \subseteq rows[t]
  PROVE  SweptInv'
<1>1. \A x \in Deletion, i \in 1 .. 4 : Past(x, i)' => Past(x, i)
  BY DEF Past
<1>2. (\A t \in Table : rows'[t] \subseteq Done') /\ \A x \in Deletion : before'[x] \subseteq Done'
  BY DEF SweptInv
<1>3. \A x \in Deletion, i \in 1 .. 4 : Past(x, i)' => rows'[Emptied[i]] \cap before'[x] = {}
  BY <1>1, EmptiedFacts DEF SweptInv
<1> QED
  BY <1>2, <1>3 DEF SweptInv

\* A step of one deletion that adds no row, seen from the others.
LEMMA SweptOthers ==
  ASSUME SweptInv, NEW x \in Deletion, UNCHANGED writer, project' => project,
         \A y \in Deletion \ {x} : del'[y] = del[y] /\ before'[y] = before[y],
         \A t \in Table : rows'[t] \subseteq rows[t],
         before'[x] \subseteq Done,
         \A i \in 1 .. 4 : Past(x, i)' => rows'[Emptied[i]] \cap before'[x] = {},
         del'[x].at = "answered" => ~project'
  PROVE  SweptInv'
<1>1. Done' = Done
  BY DEF Done
<1>2. \A y \in Deletion \ {x}, i \in 1 .. 4 : Past(y, i)' => Past(y, i)
  BY DEF Past
<1>3. \A y \in Deletion \ {x}, i \in 1 .. 4 : Past(y, i)' => rows'[Emptied[i]] \cap before'[y] = {}
  BY <1>2, EmptiedFacts DEF SweptInv
<1>4. \A y \in Deletion \ {x} : before'[y] \subseteq Done' /\ (del'[y].at = "answered" => ~project')
  BY <1>1 DEF SweptInv
<1>5. \A t \in Table : rows'[t] \subseteq Done'
  BY <1>1 DEF SweptInv
<1> QED
  BY <1>1, <1>3, <1>4, <1>5 DEF SweptInv

LEMMA SweptStep ==
  ASSUME TypeOK, SweptInv, Next
  PROVE  SweptInv'
<1> USE DEF dbVars, history
<1>1. ASSUME NEW w \in Writer, Insert(w) PROVE SweptInv'
  <2>1. w \notin Done /\ Done' = Done \cup {w} /\ writer[w] \in Table
    BY <1>1, EmptiedFacts DEF Insert, Done, TypeOK
  <2>2. \A t \in Table : rows'[t] \subseteq rows[t] \cup {w}
    BY <1>1, <2>1 DEF Insert, TypeOK
  <2>3. UNCHANGED <<project, del, before>>
    BY <1>1 DEF Insert
  <2>4. /\ \A t \in Table : rows'[t] \subseteq Done'
        /\ \A x \in Deletion : before'[x] \subseteq Done' /\ w \notin before[x]
    BY <2>1, <2>2, <2>3 DEF SweptInv
  <2>5. \A x \in Deletion, t \in Table : rows'[t] \cap before'[x] \subseteq rows[t] \cap before[x]
    BY <2>2, <2>3, <2>4
  <2>6. \A x \in Deletion, i \in 1 .. 4 : Past(x, i)' => Past(x, i)
    BY <2>3 DEF Past
  <2>7. \A x \in Deletion, i \in 1 .. 4 : Past(x, i)' => rows'[Emptied[i]] \cap before'[x] = {}
    BY <2>5, <2>6, EmptiedFacts DEF SweptInv
  <2> QED
    BY <2>3, <2>4, <2>7 DEF SweptInv
<1>2. ASSUME NEW w \in Writer, NEW t \in Written, Admit(w, t) \/ RemoveRow(w, t) PROVE SweptInv'
  <2>1. /\ Done \subseteq Done' /\ UNCHANGED <<project, del, before>>
        /\ \A u \in Table : rows'[u] \subseteq rows[u]
    BY <1>2 DEF Admit, RemoveRow, Done, TypeOK
  <2> QED
    BY <2>1, SweptAside
<1>3. CASE RunStep \/ \E d \in Day : RunClaims(d)
  <2>1. /\ Done' = Done /\ UNCHANGED <<project, del, before>>
        /\ \A u \in Table : rows'[u] \subseteq rows[u]
    BY <1>3 DEF RunStep, RunClaims, RunAsserts, RunStages, RunCopies, RunMarks, RunDeletes, RunThrows, Done, TypeOK
  <2> QED
    BY <2>1, SweptAside
<1>4. ASSUME NEW x \in Deletion, DeleteStarts(x) PROVE SweptInv'
  <2>1. /\ UNCHANGED <<project, rows, writer>> /\ del'[x].at = "list"
        /\ before'[x] = UNION { rows[t] : t \in Table }
        /\ \A y \in Deletion \ {x} : del'[y] = del[y] /\ before'[y] = before[y]
    BY <1>4 DEF DeleteStarts, Deletes, TypeOK
  <2>2. before'[x] \subseteq Done
    BY <2>1 DEF SweptInv
  <2>3. \A i \in 1 .. 4 : ~Past(x, i)'
    BY <2>1, EmptiedFacts DEF Past
  <2> QED
    BY <2>1, <2>2, <2>3, SweptOthers
<1>5. ASSUME NEW x \in Deletion, DeletionStep(x) \/ DeleteStops(x) PROVE SweptInv'
  <2>1. /\ UNCHANGED <<writer, before>> /\ (project' => project)
        /\ \A t \in Table : rows'[t] \subseteq rows[t]
        /\ \A y \in Deletion \ {x} : del'[y] = del[y]
    <3> USE DEF Deletes, TypeOK
    <3>1. CASE ListKeys(x) \/ ClearLedger(x) \/ DeleteStops(x) \/ \E d \in Day : DeleteObject(x, d)
      BY <3>1 DEF ListKeys, ClearLedger, DeleteStops, DeleteObject
    <3>2. CASE DropProject(x)
      BY <3>2 DEF DropProject
    <3>3. CASE \E i \in 1 .. 4 : Sweep(x, i)
      BY <3>3, EmptiedFacts DEF Sweep
    <3> QED
      BY <1>5, <3>1, <3>2, <3>3 DEF DeletionStep
  <2>2. before'[x] \subseteq Done
    BY <2>1 DEF SweptInv
  <2>3. CASE ListKeys(x) \/ ClearLedger(x) \/ DeleteStops(x) \/ \E d \in Day : DeleteObject(x, d)
    <3>1. del'[x].at \in {"objects", "log_entries", "stopped"}
      BY <2>3, EmptiedFacts DEF ListKeys, ClearLedger, DeleteStops, DeleteObject, Deletes, TypeOK
    <3>2. \A i \in 1 .. 4 : ~Past(x, i)'
      BY <3>1, EmptiedFacts DEF Past
    <3> QED
      BY <2>1, <2>2, <3>1, <3>2, SweptOthers
  <2>4. ASSUME NEW i \in 1 .. 4, Sweep(x, i) PROVE SweptInv'
    <3>1. CASE Deletes(x, "refused", {})
      <4>1. del'[x].at = "refused"
        BY <3>1 DEF Deletes, TypeOK
      <4>2. \A k \in 1 .. 4 : ~Past(x, k)'
        BY <4>1, EmptiedFacts DEF Past
      <4> QED
        BY <2>1, <2>2, <4>1, <4>2, SweptOthers
    <3>2. CASE Deletes(x, SweepNext(i), {}) /\ rows' = [rows EXCEPT ![Emptied[i]] = {}]
      <4>1. rows'[Emptied[i]] = {} /\ del[x].at = Emptied[i] /\ del'[x].at = SweepNext(i)
        BY <2>4, <3>2, EmptiedFacts DEF Sweep, Deletes, TypeOK
      <4>2. del'[x].at # "answered"
        BY <4>1, EmptiedFacts DEF SweepNext
      <4>3. \A k \in 1 .. 4 : Past(x, k)' => Past(x, k) \/ k = i
        BY <4>1, EmptiedFacts DEF Past, SweepNext
      <4>4. \A k \in 1 .. 4 : Past(x, k)' => rows'[Emptied[k]] \cap before'[x] = {}
        BY <2>1, <4>1, <4>3, EmptiedFacts DEF SweptInv
      <4> QED
        BY <2>1, <2>2, <4>2, <4>4, SweptOthers
    <3> QED
      BY <2>4, <3>1, <3>2 DEF Sweep
  <2>5. CASE DropProject(x)
    <3>1. /\ UNCHANGED rows /\ del[x].at = "project" /\ del'[x].at \in {"answered", "refused"}
          /\ del'[x].at = "answered" => ~project'
      BY <2>5 DEF DropProject, Deletes, TypeOK
    <3>2. \A k \in 1 .. 4 : Past(x, k)
      BY <3>1 DEF Past
    <3>3. \A k \in 1 .. 4 : rows'[Emptied[k]] \cap before'[x] = {}
      BY <2>1, <3>1, <3>2 DEF SweptInv
    <3> QED
      BY <2>1, <2>2, <3>1, <3>3, SweptOthers
  <2> QED
    BY <1>5, <2>3, <2>4, <2>5 DEF DeletionStep
<1> QED
  BY <1>1, <1>2, <1>3, <1>4, <1>5 DEF Next, RunStep

-----------------------------------------------------------------------------
(* What refuses a deletion.                                                  *)

\* At the last delete the four tables hold only rows written since, so whatever
\* still refers to the project is in the way.
LEMMA CauseStep ==
  ASSUME TypeOK, SweptInv, [Next]_vars
  PROVE  RefusedForACause
<1> SUFFICES ASSUME NEW x \in Deletion, Deleting(x), del'[x].at = "refused"
             PROVE  enforce /\ InTheWay(x)
  BY DEF RefusedForACause
<1> USE EmptiedFacts DEF Deleting, Over, dbVars, history, Deletes
<1> DEFINE Refuses == (\E i \in 1 .. 4 : Sweep(x, i)) \/ DropProject(x)
<1>1. Refuses
  <2>1. del[x].at # "refused"
    OBVIOUS
  <2>2. CASE UNCHANGED vars
    BY <2>1, <2>2 DEF vars
  <2>3. CASE Next
    <3>1. CASE \/ \E w \in Writer : Insert(w) \/ \E t \in Written : Admit(w, t) \/ RemoveRow(w, t)
               \/ \E d \in Day : RunClaims(d)
               \/ RunStep
      BY <2>1, <3>1 DEF Insert, Admit, RemoveRow, RunClaims, RunStep, RunAsserts, RunStages, RunCopies,
                        RunMarks, RunDeletes, RunThrows
    <3>2. ASSUME NEW y \in Deletion, DeleteStarts(y) \/ DeletionStep(y) \/ DeleteStops(y)
          PROVE  Refuses
      <4>1. y = x
        BY <2>1, <3>2 DEF DeleteStarts, DeletionStep, DeleteStops, ListKeys, DeleteObject, ClearLedger,
                          Sweep, DropProject, TypeOK
      <4>2. ~(DeleteStarts(x) \/ DeleteStops(x) \/ ListKeys(x) \/ ClearLedger(x))
        BY DEF DeleteStarts, DeleteStops, ListKeys, ClearLedger, TypeOK
      <4>3. \A d \in Day : ~DeleteObject(x, d)
        BY DEF DeleteObject, TypeOK
      <4> QED
        BY <3>2, <4>1, <4>2, <4>3 DEF DeletionStep
    <3> QED
      BY <2>3, <3>1, <3>2 DEF Next, RunStep
  <2> QED
    BY <2>2, <2>3
<1>2. ASSUME NEW i \in 1 .. 4, Sweep(x, i) PROVE enforce /\ InTheWay(x)
  <2>1. enforce /\ rows["log_fix_runs"] # {}
    <3>1. SweepNext(i) # "refused"
      BY DEF SweepNext
    <3> QED
      BY <1>2, <3>1 DEF Sweep, TypeOK
  <2> QED
    BY <2>1 DEF InTheWay, Kept
<1>3. CASE DropProject(x)
  <2>1. enforce /\ Referred /\ del[x].at = "project"
    BY <1>3 DEF DropProject, TypeOK
  <2>2. ASSUME NEW t \in Table, rows[t] # {} PROVE InTheWay(x)
    <3>1. CASE t \in Kept
      BY <2>2, <3>1 DEF InTheWay
    <3>2. CASE t \in Swept
      <4>1. PICK i \in 1 .. 4 : t = Emptied[i]
        BY <3>2 DEF Swept
      <4>2. rows[t] \cap before[x] = {}
        BY <2>1, <4>1 DEF SweptInv, Past
      <4> QED
        BY <2>2, <3>2, <4>2 DEF InTheWay
    <3> QED
      BY <3>1, <3>2 DEF Table
  <2> QED
    BY <2>1, <2>2 DEF Referred, InTheWay
<1> QED
  BY <1>1, <1>2, <1>3

-----------------------------------------------------------------------------

Inv == TypeOK /\ PathInv /\ ObjectInv /\ SweptInv

\* What the theorems follow from.
LEMMA Invariance == Spec => []Inv
<1>1. Init => Inv
  BY InitInv DEF Inv
<1>2. Inv /\ [Next]_vars => Inv'
  <2> SUFFICES ASSUME Inv, [Next]_vars PROVE Inv'
    OBVIOUS
  <2>1. CASE Next
    <3>1. TypeOK'
      BY <2>1, WritersType, RunType, DeletionType DEF Next, RunStep, Inv
    <3> QED
      BY <2>1, <3>1, PathStep, ObjectsStep, SweptStep DEF Inv
  <2>2. CASE UNCHANGED vars
    BY <2>2 DEF vars, dbVars, history, Inv, TypeOK, PathInv, PathsLead, MarkInv, ObjectInv,
                ObjectsNamed, KeysCover, MarkDay, SweptInv, Past, Done
  <2> QED
    BY <2>1, <2>2
<1> QED
  BY <1>1, <1>2, PTL DEF Spec

\* exporter.ts:616-620, query.ts:4-6.  A path in the ledger leads to an object,
\* whatever a run and any number of deletions do, but for the days a deletion
\* that has not cleared the ledger since, or stopped before, has purged.
THEOREM PathsAreGood == Spec => []DeletionInv
  BY Invariance, PTL DEF Inv, PathInv, DeletionInv

\* exporter.ts:616-620.  An object of the bucket that the ledger does not name
\* lost its name to a failure or an overlap with an export, for any number of
\* days, deletions and faults.
THEOREM RecoverableOrder == Spec => []ObjectsNamed
  BY Invariance, PTL DEF Inv, ObjectInv

\* projects.ts:228-236.  A deletion answered with success has taken with it the
\* rows of the four tables that were there when it began, however many requests
\* write meanwhile and other deletions run.
THEOREM OldRowsAreGone == Spec => []OldRowsGo
<1>1. SweptInv => OldRowsGo
  <2> SUFFICES ASSUME SweptInv, NEW x \in Deletion, del[x].at = "answered", NEW t \in Swept
               PROVE  ~project /\ rows[t] \cap before[x] = {}
    BY EmptiedFacts DEF OldRowsGo
  <2>1. PICK i \in 1 .. 4 : t = Emptied[i]
    BY DEF Swept
  <2> QED
    BY <2>1 DEF SweptInv, Past
<1> QED
  BY <1>1, Invariance, PTL DEF Inv

\* projects.ts:245-249.  Nothing but REFERENCES refuses a deletion, and then for
\* a row the handler does not delete or something written since it began.
THEOREM RefusalsHaveCause == Spec => [][RefusedForACause]_vars
<1>1. Inv /\ [Next]_vars => RefusedForACause
  BY CauseStep DEF Inv
<1> QED
  BY <1>1, Invariance, PTL DEF Spec
=============================================================================
