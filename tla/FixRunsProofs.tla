--------------------------- MODULE FixRunsProofs ---------------------------
(* For any requests, shapes of errors, runs, clock and faults: one analysis  *)
(* of an error at a time, outcomes that stay, and no run stranded without a  *)
(* fault.                                                                    *)
EXTENDS FixRuns, FiniteSetTheorems, TLAPS

USE FixAssumption

LEMMA InitInv == Init => FixInv
  BY DEF Init, FixInv, TypeOK, OneAnalysis, Active, Working, Run, Status, Calls

\* Whatever a request is told to do next, it is the only one to move.
LEMMA GoesAt ==
  ASSUME TypeOK, NEW r \in Request, NEW call \in Calls, Goes(r, call)
  PROVE  /\ req' \in [Request -> [at : Calls, of : Fingerprint, run : 0 .. MaxRuns]]
         /\ req'[r].at = call /\ req'[r].of = req[r].of /\ req'[r].run = req[r].run
         /\ \A s \in Request \ {r} : req'[s] = req[s]
  BY DEF TypeOK, Goes

LEMMA GoesWithAt ==
  ASSUME TypeOK, NEW r \in Request, NEW call \in Calls, NEW id \in 0 .. MaxRuns,
         GoesWith(r, call, id)
  PROVE  /\ req' \in [Request -> [at : Calls, of : Fingerprint, run : 0 .. MaxRuns]]
         /\ req'[r].at = call /\ req'[r].of = req[r].of /\ req'[r].run = id
         /\ \A s \in Request \ {r} : req'[s] = req[s]
  BY DEF TypeOK, GoesWith

\* Steps that leave the table as it is and put no request to work.
LEMMA AsideInv ==
  ASSUME FixInv, UNCHANGED <<engine, table>>, now' \in Nat, faults' \in Nat,
         req' \in [Request -> [at : Calls, of : Fingerprint, run : 0 .. MaxRuns]],
         \A s \in Request :
           \/ req'[s] = req[s]
           \/ req'[s].at \in {"idle", "look", "insert", "again", "threw"}
           \/ /\ req'[s].at \in {"model", "complete", "fail", "read", "answered"}
              /\ req'[s].run \in 1 .. rows /\ shape[req'[s].run] = req'[s].of
              /\ ~Working(s)' \/ (Working(s) /\ req'[s].run = req[s].run)
              /\ req'[s].at = "model" => status[req'[s].run] = "running"
  PROVE  FixInv'
<1>1. TypeOK'
  BY DEF FixInv, TypeOK, table
<1>2. \A f \in Fingerprint : \A id, other \in Active(f)' : id = other
  BY DEF FixInv, OneAnalysis, Active, table
<1>3. \A r \in Request : Working(r)' \/ req'[r].at \in {"read", "answered"} =>
        req'[r].run \in 1 .. rows' /\ shape'[req'[r].run] = req'[r].of
  BY DEF FixInv, OneAnalysis, Working, table
<1>4. \A r, s \in Request : Working(r)' /\ Working(s)' /\ req'[r].run = req'[s].run => r = s
  BY DEF FixInv, OneAnalysis, Working
<1>5. \A r \in Request : req'[r].at \in {"evidence", "model"} => status'[req'[r].run] = "running"
  BY DEF FixInv, OneAnalysis, table
<1> QED
  BY <1>1, <1>2, <1>3, <1>4, <1>5 DEF FixInv, OneAnalysis

\* What latestRunFor answers with is a run of that shape.
LEMMA LatestFact ==
  ASSUME TypeOK, NEW f \in Fingerprint, NEW id \in LatestRuns(f)
  PROVE  id \in 1 .. rows /\ shape[id] = f
  BY DEF LatestRuns, TypeOK, Run

LEMMA ReadsInv ==
  ASSUME FixInv, NEW r \in Request,
         \/ \E f \in Fingerprint : Click(r, f)
         \/ Look(r) \/ InsertConflicts(r) \/ LookAgain(r) \/ GatherEvidence(r)
         \/ AskModel(r) \/ ReadRun(r) \/ DbFails(r) \/ Dies(r)
  PROVE  FixInv'
<1> USE DEF At, NoFault, Fault, table
<1>1. now' \in Nat /\ faults' \in Nat /\ UNCHANGED <<engine, table>>
  BY DEF FixInv, TypeOK, Click, Look, InsertConflicts, LookAgain, GatherEvidence, AskModel,
         ReadRun, DbFails, Dies
<1>2. CASE \E f \in Fingerprint : Click(r, f)
  BY <1>1, <1>2, AsideInv DEF Click, FixInv, TypeOK, Calls
<1>3. CASE Dies(r)
  <2>1. GoesWith(r, "idle", 0) /\ 0 \in 0 .. MaxRuns
    BY <1>3 DEF Dies
  <2>2. /\ req' \in [Request -> [at : Calls, of : Fingerprint, run : 0 .. MaxRuns]]
        /\ req'[r].at = "idle" /\ \A s \in Request \ {r} : req'[s] = req[s]
    BY <2>1, GoesWithAt DEF FixInv, Calls
  <2> QED
    BY <1>1, <2>2, AsideInv
<1>4. CASE \E id \in LatestRuns(req[r].of) : Answers(r, id) /\ req[r].at \in {"look", "again"}
  <2>1. PICK id \in LatestRuns(req[r].of) : Answers(r, id) /\ req[r].at \in {"look", "again"}
    BY <1>4
  <2>2. id \in 1 .. rows /\ shape[id] = req[r].of /\ id \in 0 .. MaxRuns
    BY <2>1, LatestFact DEF FixInv, TypeOK
  <2>3. /\ req' \in [Request -> [at : Calls, of : Fingerprint, run : 0 .. MaxRuns]]
        /\ req'[r].at = "answered" /\ req'[r].of = req[r].of /\ req'[r].run = id
        /\ \A s \in Request \ {r} : req'[s] = req[s]
    BY <2>1, <2>2, GoesWithAt DEF Answers, FixInv, Calls
  <2>4. ~Working(r)' /\ req'[r].run \in 1 .. rows /\ shape[req'[r].run] = req'[r].of
    BY <2>2, <2>3 DEF Working
  <2>5. \A s \in Request :
           \/ req'[s] = req[s]
           \/ req'[s].at \in {"idle", "look", "insert", "again", "threw"}
           \/ /\ req'[s].at \in {"model", "complete", "fail", "read", "answered"}
              /\ req'[s].run \in 1 .. rows /\ shape[req'[s].run] = req'[s].of
              /\ ~Working(s)' \/ (Working(s) /\ req'[s].run = req[s].run)
              /\ req'[s].at = "model" => status[req'[s].run] = "running"
    BY <2>3, <2>4
  <2> QED
    BY <1>1, <2>3, <2>5, AsideInv
<1>5. CASE \E call \in {"insert", "again", "threw"} : Goes(r, call)
  BY <1>1, <1>5, AsideInv DEF Goes, FixInv, TypeOK, Calls
<1>6. CASE \E call \in {"model", "complete", "fail"} :
             Goes(r, call) /\ Working(r) /\ (call = "model" => At(r, "evidence"))
  <2>1. PICK call \in {"model", "complete", "fail"} :
          Goes(r, call) /\ Working(r) /\ (call = "model" => At(r, "evidence"))
    BY <1>6
  <2>2. /\ req' \in [Request -> [at : Calls, of : Fingerprint, run : 0 .. MaxRuns]]
        /\ req'[r].at = call /\ req'[r].of = req[r].of /\ req'[r].run = req[r].run
        /\ \A s \in Request \ {r} : req'[s] = req[s]
    BY <2>1, GoesAt DEF FixInv, Calls
  <2> QED
    BY <1>1, <2>1, <2>2, AsideInv DEF FixInv, OneAnalysis
<1>7. CASE At(r, "read") /\ Goes(r, "answered")
  <2>1. /\ req' \in [Request -> [at : Calls, of : Fingerprint, run : 0 .. MaxRuns]]
        /\ req'[r].at = "answered" /\ req'[r].of = req[r].of /\ req'[r].run = req[r].run
        /\ \A s \in Request \ {r} : req'[s] = req[s]
    BY <1>7, GoesAt DEF FixInv, Calls
  <2> QED
    BY <1>1, <1>7, <2>1, AsideInv DEF FixInv, OneAnalysis, Working
<1>8. CASE Look(r) \/ LookAgain(r)
  BY <1>4, <1>5, <1>8 DEF Look, LookAgain
<1>9. CASE InsertConflicts(r)
  BY <1>5, <1>9 DEF InsertConflicts
<1>10. CASE GatherEvidence(r) \/ AskModel(r)
  BY <1>6, <1>10 DEF GatherEvidence, AskModel, AfterModel, Working
<1>11. CASE ReadRun(r)
  BY <1>7, <1>11 DEF ReadRun
<1>12. CASE DbFails(r)
  BY <1>5, <1>6, <1>12 DEF DbFails, Thrown, Working
<1> QED
  BY <1>2, <1>3, <1>8, <1>9, <1>10, <1>11, <1>12

\* A row inserted under the index, whether or not the request hears of it.
LEMMA InsertInv ==
  ASSUME FixInv, NEW r \in Request, UNCHANGED engine, now' \in Nat, faults' \in Nat,
         At(r, "insert"), Unique(req[r].of), InsertRow(req[r].of),
         \/ GoesWith(r, "evidence", rows + 1)
         \/ req' = [req EXCEPT ![r].at = "threw"]
  PROVE  FixInv'
<1> DEFINE id == rows + 1
<1>1. /\ id \in Run /\ rows \in Nat /\ status[id] = "none" /\ req[r].of \in Fingerprint
      /\ rows' = id /\ status' = [status EXCEPT ![id] = "running"]
      /\ shape' = [shape EXCEPT ![id] = req[r].of] /\ made' = [made EXCEPT ![id] = now]
  BY DEF FixInv, TypeOK, InsertRow, Run
<1>2. /\ req' \in [Request -> [at : Calls, of : Fingerprint, run : 0 .. MaxRuns]]
      /\ \A s \in Request \ {r} : req'[s] = req[s]
      /\ \/ req'[r].at = "evidence" /\ req'[r].run = id /\ req'[r].of = req[r].of
         \/ req'[r].at = "threw"
  <2>1. CASE GoesWith(r, "evidence", rows + 1)
    BY <1>1, <2>1, GoesWithAt DEF FixInv, Calls, Run
  <2>2. CASE req' = [req EXCEPT ![r].at = "threw"]
    BY <2>2, GoesAt DEF FixInv, Calls, Goes
  <2> QED
    BY <2>1, <2>2
<1>3. TypeOK'
  BY <1>1, <1>2 DEF FixInv, TypeOK, Status, Run
<1>4. \A f \in Fingerprint : \A x, y \in Active(f)' : x = y
  BY <1>1 DEF FixInv, TypeOK, OneAnalysis, Active, Unique
<1>5. \A s \in Request : Working(s) => req[s].run \in 1 .. rows
  BY DEF FixInv, OneAnalysis
<1>6. \A s \in Request : Working(s)' \/ req'[s].at \in {"read", "answered"} =>
        req'[s].run \in 1 .. rows' /\ shape'[req'[s].run] = req'[s].of
  <2>1. \A s \in Request \ {r} : Working(s)' \/ req'[s].at \in {"read", "answered"} =>
          req[s].run \in 1 .. rows /\ shape[req[s].run] = req[s].of
    BY <1>2 DEF FixInv, OneAnalysis, Working
  <2>2. shape'[id] = req[r].of /\ \A x \in 1 .. rows : shape'[x] = shape[x]
    BY <1>1 DEF FixInv, TypeOK, Run
  <2> QED
    BY <1>1, <1>2, <2>1, <2>2 DEF Working
<1>7. \A s, t \in Request : Working(s)' /\ Working(t)' /\ req'[s].run = req'[t].run => s = t
  BY <1>1, <1>2, <1>5 DEF FixInv, OneAnalysis, Working
<1>8. \A s \in Request : req'[s].at \in {"evidence", "model"} => status'[req'[s].run] = "running"
  <2>1. \A s \in Request \ {r} : req'[s].at \in {"evidence", "model"} =>
          req[s].run \in 1 .. rows /\ status[req[s].run] = "running"
    BY <1>2, <1>5 DEF FixInv, OneAnalysis, Working
  <2>2. status'[id] = "running" /\ \A x \in 1 .. rows : status'[x] = status[x]
    BY <1>1 DEF FixInv, TypeOK, Run
  <2> QED
    BY <1>2, <2>1, <2>2
<1> QED
  BY <1>3, <1>4, <1>6, <1>7, <1>8 DEF FixInv, OneAnalysis

\* An outcome written by the request that holds the run.
LEMMA OutcomeInv ==
  ASSUME FixInv, NEW r \in Request, NEW call \in {"answered", "read", "fail", "threw"},
         NEW result \in {"completed", "failed"},
         req[r].at \in {"complete", "fail"},
         status' = Finished(req[r].run, result), Goes(r, call),
         UNCHANGED <<engine, shape, made, rows, now>>, faults' \in Nat
  PROVE  FixInv'
<1> DEFINE id == req[r].run
<1>1. id \in Run /\ id \in 1 .. rows /\ shape[id] = req[r].of
  BY DEF FixInv, TypeOK, OneAnalysis, Working, Run
<1>2. /\ \A x \in Run \ {id} : status'[x] = status[x]
      /\ status[id] # "none" /\ status'[id] # "none" /\ status' \in [Run -> Status]
      /\ status'[id] # "running"
  BY <1>1 DEF Finished, FixInv, TypeOK, Status, Run
<1>3. /\ req' \in [Request -> [at : Calls, of : Fingerprint, run : 0 .. MaxRuns]]
      /\ req'[r].at = call /\ req'[r].of = req[r].of /\ req'[r].run = id
      /\ \A s \in Request \ {r} : req'[s] = req[s]
  BY GoesAt DEF FixInv, Calls
<1>4. TypeOK'
  BY <1>1, <1>2, <1>3 DEF FixInv, TypeOK
<1>5. \A f \in Fingerprint : \A x, y \in Active(f)' : x = y
  BY <1>1, <1>2 DEF FixInv, OneAnalysis, Active
<1>6. \A s \in Request : Working(s)' \/ req'[s].at \in {"read", "answered"} =>
        req'[s].run \in 1 .. rows' /\ shape'[req'[s].run] = req'[s].of
  BY <1>1, <1>3 DEF FixInv, OneAnalysis, Working
<1>7. \A s, t \in Request : Working(s)' /\ Working(t)' /\ req'[s].run = req'[t].run => s = t
  BY <1>3 DEF FixInv, OneAnalysis, Working
<1>8. \A s \in Request : req'[s].at \in {"evidence", "model"} => status'[req'[s].run] = "running"
  <2>1. \A s \in Request : req'[s].at \in {"evidence", "model"} =>
          s # r /\ req'[s] = req[s] /\ Working(s) /\ Working(r)
    BY <1>3 DEF Working
  <2>2. \A s \in Request : req'[s].at \in {"evidence", "model"} =>
          req[s].run \in Run \ {id} /\ status[req[s].run] = "running"
    BY <2>1 DEF FixInv, TypeOK, OneAnalysis, Run
  <2> QED
    BY <1>2, <2>1, <2>2
<1> QED
  BY <1>4, <1>5, <1>6, <1>7, <1>8 DEF FixInv, OneAnalysis

LEMMA WritesInv ==
  ASSUME FixInv, NEW r \in Request,
         Insert(r) \/ Complete(r) \/ MarkFailed(r) \/ ReplyIsLost(r)
  PROVE  FixInv'
<1> USE DEF NoFault, Fault
<1>1. now' \in Nat /\ faults' \in Nat /\ engine' = engine
  BY DEF FixInv, TypeOK, Insert, Complete, MarkFailed, ReplyIsLost
<1>2. CASE Insert(r)
  BY <1>1, <1>2, InsertInv DEF Insert
<1>3. CASE Complete(r)
  <2>1. PICK call \in {"answered", "read"} : Goes(r, call)
    BY <1>3 DEF Complete
  <2> QED
    BY <1>1, <1>3, <2>1, OutcomeInv DEF Complete, At
<1>4. CASE MarkFailed(r)
  BY <1>1, <1>4, OutcomeInv DEF MarkFailed, At
<1>5. CASE ReplyIsLost(r)
  <2>1. CASE At(r, "insert") /\ Unique(req[r].of) /\ InsertRow(req[r].of)
    BY <1>1, <1>5, <2>1, InsertInv DEF ReplyIsLost, Thrown, Goes, At
  <2>2. CASE At(r, "complete") /\ status' = Finished(req[r].run, "completed")
             /\ UNCHANGED <<shape, made, rows>>
    BY <1>1, <1>5, <2>2, OutcomeInv DEF ReplyIsLost, Thrown, At
  <2>3. CASE At(r, "fail") /\ status' = Finished(req[r].run, "failed")
             /\ UNCHANGED <<shape, made, rows>>
    BY <1>1, <1>5, <2>3, OutcomeInv DEF ReplyIsLost, Thrown, At
  <2> QED
    BY <1>5, <2>1, <2>2, <2>3 DEF ReplyIsLost
<1> QED
  BY <1>2, <1>3, <1>4, <1>5

LEMMA NextInv == FixInv /\ [Next]_vars => FixInv'
<1> SUFFICES ASSUME FixInv, [Next]_vars PROVE FixInv'
  OBVIOUS
<1>1. CASE \E r \in Request :
             \/ \E f \in Fingerprint : Click(r, f)
             \/ Continues(r) \/ DbFails(r) \/ ReplyIsLost(r) \/ Dies(r)
  BY <1>1, ReadsInv, WritesInv DEF Continues
<1>2. CASE Tick \/ UNCHANGED vars
  <2>1. UNCHANGED <<engine, table>> /\ req' = req /\ now' \in Nat /\ faults' \in Nat
    BY <1>2 DEF Tick, vars, FixInv, TypeOK
  <2> QED
    BY <2>1, AsideInv DEF FixInv, TypeOK
<1> QED
  BY <1>1, <1>2 DEF Next

\* One analysis of an error at a time, in one request's hands.
THEOREM OneAtATime == Spec => []FixInv
  BY InitInv, NextInv, PTL DEF Spec

\* What a step does to the statuses.
StatusStep ==
  \/ status' = status
  \/ \E id \in Run : status[id] = "none" /\ status' = [status EXCEPT ![id] = "running"]
  \/ \E id \in Run, result \in {"completed", "failed"} : status' = Finished(id, result)

LEMMA StatusSteps == FixInv /\ [Next]_vars => StatusStep
<1> SUFFICES ASSUME FixInv, [Next]_vars PROVE StatusStep
  OBVIOUS
<1>1. CASE \E r \in Request : Insert(r) \/ (ReplyIsLost(r) /\ At(r, "insert"))
  <2>1. rows + 1 \in Run /\ status[rows + 1] = "none"
        /\ status' = [status EXCEPT ![rows + 1] = "running"]
    BY <1>1 DEF Insert, ReplyIsLost, At, InsertRow, FixInv, TypeOK, Run
  <2> QED
    BY <2>1 DEF StatusStep
<1>2. CASE \E r \in Request : Complete(r) \/ MarkFailed(r) \/ (ReplyIsLost(r) /\ ~At(r, "insert"))
  <2>1. PICK r \in Request : Complete(r) \/ MarkFailed(r) \/ (ReplyIsLost(r) /\ ~At(r, "insert"))
    BY <1>2
  <2>2. req[r].run \in Run
    BY <2>1 DEF Complete, MarkFailed, ReplyIsLost, At, FixInv, TypeOK, OneAnalysis, Working, Run
  <2> QED
    BY <2>1, <2>2 DEF Complete, MarkFailed, ReplyIsLost, StatusStep
<1>3. CASE \/ \E r \in Request : \/ \E f \in Fingerprint : Click(r, f)
                                 \/ Look(r) \/ InsertConflicts(r) \/ LookAgain(r)
                                 \/ GatherEvidence(r) \/ AskModel(r) \/ ReadRun(r)
                                 \/ DbFails(r) \/ Dies(r)
           \/ Tick \/ UNCHANGED vars
  BY <1>3 DEF Click, Look, InsertConflicts, LookAgain, GatherEvidence, AskModel, ReadRun,
              DbFails, Dies, Tick, vars, table, StatusStep
<1>4. CASE \E r \in Request : \/ \E f \in Fingerprint : Click(r, f)
                              \/ Continues(r) \/ DbFails(r) \/ ReplyIsLost(r) \/ Dies(r)
  <2>1. PICK r \in Request : \/ \E f \in Fingerprint : Click(r, f)
                            \/ Continues(r) \/ DbFails(r) \/ ReplyIsLost(r) \/ Dies(r)
    BY <1>4
  <2>2. CASE Insert(r) \/ Complete(r) \/ MarkFailed(r) \/ ReplyIsLost(r)
    <3>1. CASE Insert(r) \/ (ReplyIsLost(r) /\ At(r, "insert"))
      BY <1>1, <3>1
    <3>2. CASE Complete(r) \/ MarkFailed(r) \/ (ReplyIsLost(r) /\ ~At(r, "insert"))
      BY <1>2, <3>2
    <3> QED
      BY <2>2, <3>1, <3>2
  <2>3. CASE ~(Insert(r) \/ Complete(r) \/ MarkFailed(r) \/ ReplyIsLost(r))
    BY <1>3, <2>1, <2>3 DEF Continues
  <2> QED
    BY <2>2, <2>3
<1> QED
  BY <1>3, <1>4 DEF Next

\* A run that has an outcome keeps it.
THEOREM OutcomesStay == Spec => OutcomeStays
<1> DEFINE Stays == \A id \in Run : status[id] \in {"completed", "failed"} => status'[id] = status[id]
<1>1. FixInv /\ [Next]_vars => [Stays]_vars
  BY StatusSteps DEF StatusStep, Finished, FixInv, TypeOK
<1>2. Spec => [][Stays]_vars
  BY <1>1, OneAtATime, PTL DEF Spec
<1> QED
  BY <1>2 DEF OutcomeStays

-----------------------------------------------------------------------------
(* What a fault can strand.                                                  *)

\* A step of one request changes who owns one run at most.
LEMMA OneRunAtStake ==
  ASSUME NEW r \in Request, NEW x,
         \A s \in Request \ {r} : req'[s] = req[s],
         \A id \in Run \ {x} : status'[id] = "running" => status[id] = "running" /\ ~Owns(r, id)
  PROVE  Stranded' \subseteq Stranded \cup {x}
  BY DEF Stranded, Owns, Working

\* A run that ends, or is in the request's hands after the step, is not at stake.
LEMMA NothingAtStake ==
  ASSUME NEW r \in Request, NEW x,
         \A s \in Request \ {r} : req'[s] = req[s],
         \A id \in Run \ {x} : status'[id] = "running" => status[id] = "running" /\ ~Owns(r, id),
         status'[x] # "running" \/ (Working(r)' /\ req'[r].run = x)
  PROVE  Stranded' \subseteq Stranded
<1>1. Stranded' \subseteq Stranded \cup {x}
  BY OneRunAtStake
<1>2. x \notin Stranded'
  BY DEF Stranded, Owns
<1> QED
  BY <1>1, <1>2

\* A request at no work leaves everything as it is.
LEMMA IdleStake ==
  ASSUME NEW r \in Request, status' = status, ~Working(r),
         \A s \in Request \ {r} : req'[s] = req[s]
  PROVE  Stranded' \subseteq Stranded
  BY DEF Stranded, Owns, Working

Strands == faults' = faults + 1 /\ \E x : Stranded' \subseteq Stranded \cup {x}
StrandsNothing == faults' = faults /\ Stranded' \subseteq Stranded

LEMMA QuietStrands ==
  ASSUME FixInv, NEW r \in Request,
         \/ \E f \in Fingerprint : Click(r, f)
         \/ Look(r) \/ InsertConflicts(r) \/ LookAgain(r) \/ ReadRun(r)
  PROVE  StrandsNothing
<1>1. /\ status' = status /\ faults' = faults /\ ~Working(r)
      /\ \A s \in Request \ {r} : req'[s] = req[s]
  BY DEF Click, Look, InsertConflicts, LookAgain, ReadRun, Answers, Goes, GoesWith, At, Working,
         NoFault, table, FixInv, TypeOK
<1> QED
  BY <1>1, IdleStake DEF StrandsNothing

LEMMA WorkStrands ==
  ASSUME FixInv, NEW r \in Request,
         \/ Insert(r) \/ GatherEvidence(r) \/ AskModel(r) \/ Complete(r) \/ MarkFailed(r)
  PROVE  StrandsNothing
<1> USE DEF At, NoFault, table
<1>1. faults' = faults
  BY DEF Insert, GatherEvidence, AskModel, Complete, MarkFailed
<1>2. CASE Insert(r)
  <2>1. rows + 1 \in Run /\ status' = [status EXCEPT ![rows + 1] = "running"] /\ rows + 1 \in 0 .. MaxRuns
    BY <1>2 DEF Insert, InsertRow, FixInv, TypeOK, Run
  <2>2. /\ req'[r].at = "evidence" /\ req'[r].run = rows + 1
        /\ \A s \in Request \ {r} : req'[s] = req[s]
    BY <1>2, <2>1, GoesWithAt DEF Insert, FixInv, Calls
  <2>3. ~Working(r)
    BY <1>2 DEF Insert, Working
  <2> QED
    BY <1>1, <2>1, <2>2, <2>3, NothingAtStake DEF Owns, Working, StrandsNothing, FixInv, TypeOK
<1>3. CASE GatherEvidence(r) \/ AskModel(r)
  <2>1. PICK call \in {"model", "complete", "fail"} : Goes(r, call)
    BY <1>3 DEF GatherEvidence, AskModel, AfterModel
  <2>2. /\ req'[r].at = call /\ req'[r].run = req[r].run
        /\ \A s \in Request \ {r} : req'[s] = req[s]
    BY <2>1, GoesAt DEF FixInv, Calls
  <2>3. PICK x \in 0 .. MaxRuns : x = req[r].run
    BY DEF FixInv, TypeOK
  <2>4. status' = status
    BY <1>3 DEF GatherEvidence, AskModel
  <2> QED
    BY <1>1, <2>2, <2>3, <2>4, NothingAtStake DEF Owns, Working, StrandsNothing
<1>4. CASE Complete(r) \/ MarkFailed(r)
  <2>1. PICK call \in {"answered", "read"} : Goes(r, call)
    BY <1>4 DEF Complete, MarkFailed
  <2>2. \A s \in Request \ {r} : req'[s] = req[s]
    BY <2>1, GoesAt DEF FixInv, Calls
  <2>3. PICK x \in Run : x = req[r].run
    BY <1>4 DEF Complete, MarkFailed, FixInv, TypeOK, OneAnalysis, Working, Run
  <2>4. status'[x] # "running" /\ \A id \in Run \ {x} : status'[id] = status[id]
    BY <1>4, <2>3 DEF Complete, MarkFailed, Finished, FixInv, TypeOK
  <2> QED
    BY <1>1, <2>2, <2>3, <2>4, NothingAtStake DEF Owns, StrandsNothing
<1> QED
  BY <1>2, <1>3, <1>4

LEMMA FaultStrands ==
  ASSUME FixInv, NEW r \in Request, DbFails(r) \/ ReplyIsLost(r) \/ Dies(r)
  PROVE  Strands
<1>1. faults' = faults + 1
  BY DEF DbFails, ReplyIsLost, Dies, Fault
<1>2. \A s \in Request \ {r} : req'[s] = req[s]
  BY DEF DbFails, ReplyIsLost, Dies, Goes, GoesWith, FixInv, TypeOK
<1>3. CASE DbFails(r) \/ Dies(r)
  <2>1. PICK x \in 0 .. MaxRuns : x = req[r].run
    BY DEF FixInv, TypeOK
  <2>2. status' = status
    BY <1>3 DEF DbFails, Dies, table
  <2> QED
    BY <1>1, <1>2, <2>1, <2>2, OneRunAtStake DEF Owns, Strands
<1>4. CASE ReplyIsLost(r) /\ At(r, "insert")
  <2>1. rows + 1 \in Run /\ status' = [status EXCEPT ![rows + 1] = "running"] /\ ~Working(r)
    BY <1>4 DEF ReplyIsLost, At, InsertRow, Working, FixInv, TypeOK, Run
  <2> QED
    BY <1>1, <1>2, <2>1, OneRunAtStake DEF Owns, Strands, FixInv, TypeOK
<1>5. CASE ReplyIsLost(r) /\ ~At(r, "insert")
  <2>1. PICK x \in Run : x = req[r].run
    BY <1>5 DEF ReplyIsLost, At, FixInv, TypeOK, OneAnalysis, Working, Run
  <2>2. \A id \in Run \ {x} : status'[id] = status[id]
    BY <1>5, <2>1 DEF ReplyIsLost, Finished, FixInv, TypeOK
  <2> QED
    BY <1>1, <1>2, <2>1, <2>2, OneRunAtStake DEF Owns, Strands
<1> QED
  BY <1>3, <1>4, <1>5

LEMMA StepStrands == FixInv /\ [Next]_vars => Strands \/ StrandsNothing
<1> SUFFICES ASSUME FixInv, [Next]_vars PROVE Strands \/ StrandsNothing
  OBVIOUS
<1>1. CASE Tick \/ UNCHANGED vars
  <2>1. status' = status /\ req' = req /\ faults' = faults
    BY <1>1 DEF Tick, vars, table
  <2> QED
    BY <2>1 DEF StrandsNothing, Stranded, Owns, Working
<1> QED
  BY <1>1, QuietStrands, WorkStrands, FaultStrands DEF Next, Continues

\* Every stranded run has cost a fault.
LEMMA CountStrands ==
  ASSUME FixInv, StrandedByFaults, Strands \/ StrandsNothing
  PROVE  StrandedByFaults'
<1>1. IsFiniteSet(Stranded) /\ Cardinality(Stranded) \in Nat
  <2>1. IsFiniteSet(Run)
    BY FS_Interval DEF Run
  <2> QED
    BY <2>1, FS_Subset, FS_CardinalityType DEF Stranded
<1>2. faults \in Nat
  BY DEF FixInv, TypeOK
<1>3. CASE StrandsNothing
  BY <1>1, <1>2, <1>3, FS_Subset, FS_CardinalityType DEF StrandsNothing, StrandedByFaults
<1>4. CASE Strands
  <2>1. PICK x : Stranded' \subseteq Stranded \cup {x}
    BY <1>4 DEF Strands
  <2>2. /\ IsFiniteSet(Stranded \cup {x})
        /\ Cardinality(Stranded \cup {x}) \in Nat
        /\ Cardinality(Stranded \cup {x}) <= Cardinality(Stranded) + 1
    BY <1>1, FS_AddElement, FS_CardinalityType
  <2>3. Cardinality(Stranded') <= Cardinality(Stranded \cup {x}) /\ Cardinality(Stranded') \in Nat
    BY <2>1, <2>2, FS_Subset, FS_CardinalityType
  <2> QED
    BY <1>1, <1>2, <1>4, <2>2, <2>3 DEF Strands, StrandedByFaults
<1> QED
  BY <1>3, <1>4

\* No timeout, refusal of the model's or race strands a run.
THEOREM FaultsStrand == Spec => []StrandedByFaults
<1>1. Init => StrandedByFaults
  <2> SUFFICES ASSUME Init PROVE StrandedByFaults
    OBVIOUS
  <2>1. Stranded = {}
    BY DEF Init, Stranded
  <2> QED
    BY <2>1, FS_EmptySet DEF Init, StrandedByFaults
<1>2. FixInv /\ StrandedByFaults /\ [Next]_vars => StrandedByFaults'
  BY StepStrands, CountStrands
<1> QED
  BY <1>1, <1>2, OneAtATime, PTL DEF Spec

-----------------------------------------------------------------------------
(* Whom the index turns away.                                                *)

RowsOf(f) == { id \in Run : status[id] # "none" /\ shape[id] = f }

\* No row is from the future, and of the rows of a shape one is the newest, so
\* that latestRunFor has one to answer with; a row stays once it is there.
NewestInv ==
  /\ \A id \in Run : status[id] # "none" => made[id] <= now
  /\ \A f \in Fingerprint : RowsOf(f) # {} =>
       \E id \in RowsOf(f) : \A other \in RowsOf(f) : made[other] <= made[id]

\* A request that lost the race has a row to find.
LoserInv ==
  /\ NewestInv
  /\ \A r \in Request : At(r, "again") => RowsOf(req[r].of) # {}
  /\ LoserIsAnswered

\* Within the window everything counts as an answer.
LEMMA LatestThere ==
  ASSUME FixInv, NewestInv, NEW f \in Fingerprint, RowsOf(f) # {}, now < Window
  PROVE  LatestRuns(f) # {}
<1>1. PICK id \in RowsOf(f) : \A other \in RowsOf(f) : made[other] <= made[id]
  BY DEF NewestInv
<1>2. \A x \in RowsOf(f) : CountsAsAnswer(x)
  BY DEF RowsOf, CountsAsAnswer, FixInv, TypeOK
<1> QED
  BY <1>1, <1>2 DEF LatestRuns, RowsOf

\* A step that inserts no row.
LEMMA NewestKept ==
  ASSUME FixInv, NewestInv, UNCHANGED <<shape, made>>, now' \in Nat, now <= now',
         \A id \in Run : status'[id] = "none" <=> status[id] = "none"
  PROVE  NewestInv' /\ \A f \in Fingerprint : RowsOf(f)' = RowsOf(f)
<1>1. \A f \in Fingerprint : RowsOf(f)' = RowsOf(f)
  BY DEF RowsOf
<1>2. \A id \in Run : status'[id] # "none" => made'[id] <= now'
  BY DEF NewestInv, FixInv, TypeOK
<1> QED
  BY <1>1, <1>2 DEF NewestInv

\* The row inserted last is the newest of its shape.
LEMMA NewestInserted ==
  ASSUME FixInv, NewestInv, NEW f \in Fingerprint, InsertRow(f), now' = now
  PROVE  NewestInv' /\ \A g \in Fingerprint : RowsOf(g) \subseteq RowsOf(g)'
<1> DEFINE new == rows + 1
<1>1. /\ new \in Run /\ status[new] = "none" /\ status'[new] = "running"
      /\ shape'[new] = f /\ made'[new] = now
      /\ \A id \in Run \ {new} :
           status'[id] = status[id] /\ shape'[id] = shape[id] /\ made'[id] = made[id]
  BY DEF InsertRow, FixInv, TypeOK, Run
<1>2. now \in Nat /\ \A id \in Run : made[id] \in Nat
  BY DEF FixInv, TypeOK
<1> HIDE DEF new
<1>3. \A g \in Fingerprint : RowsOf(g)' = RowsOf(g) \cup (IF g = f THEN {new} ELSE {})
  BY <1>1 DEF RowsOf
<1>4. \A id \in Run : status'[id] # "none" => made'[id] <= now
  BY <1>1, <1>2 DEF NewestInv
<1>5. ASSUME NEW g \in Fingerprint, RowsOf(g)' # {}
      PROVE  \E id \in RowsOf(g)' : \A other \in RowsOf(g)' : made'[other] <= made'[id]
  <2>1. CASE g = f
    <3>1. new \in RowsOf(g)' /\ \A other \in RowsOf(g)' : made'[other] <= made'[new]
      BY <1>1, <1>3, <1>4, <2>1 DEF RowsOf
    <3> QED
      BY <3>1
  <2>2. CASE g # f
    <3>1. RowsOf(g)' = RowsOf(g)
      BY <1>3, <2>2
    <3>2. PICK id \in RowsOf(g) : \A other \in RowsOf(g) : made[other] <= made[id]
      BY <1>5, <3>1 DEF NewestInv
    <3>3. \A other \in RowsOf(g) : made'[other] = made[other]
      BY <1>1 DEF RowsOf
    <3> QED
      BY <3>1, <3>2, <3>3
  <2> QED
    BY <2>1, <2>2
<1> QED
  BY <1>3, <1>4, <1>5 DEF NewestInv

LEMMA LoserStep == FixInv /\ LoserInv /\ [Next]_vars => LoserInv'
<1> SUFFICES ASSUME FixInv, LoserInv, [Next]_vars PROVE LoserInv'
  OBVIOUS
<1> USE DEF At, Goes, GoesWith
<1>1. /\ faults \in Nat /\ now \in Nat /\ engine' = engine
      /\ req \in [Request -> [at : Calls, of : Fingerprint, run : 0 .. MaxRuns]]
      /\ engine \in {"sqlite", "postgres"}
  BY DEF FixInv, TypeOK, Next, vars, Continues, Click, Look, Insert, InsertConflicts, LookAgain,
         GatherEvidence, AskModel, Complete, MarkFailed, ReadRun, DbFails, ReplyIsLost, Dies, Tick
<1>2. now' \in Nat /\ now <= now' /\ faults' \in Nat /\ faults <= faults'
  BY <1>1 DEF Next, vars, NoFault, Fault, Continues, Click, Look, Insert, InsertConflicts, LookAgain,
         GatherEvidence, AskModel, Complete, MarkFailed, ReadRun, DbFails, ReplyIsLost, Dies, Tick
<1>3. NewestInv' /\ \A g \in Fingerprint : RowsOf(g) \subseteq RowsOf(g)'
  <2>1. CASE \E f \in Fingerprint : InsertRow(f) /\ now' = now
    BY <2>1, NewestInserted DEF LoserInv
  <2>2. CASE /\ UNCHANGED <<shape, made>>
             /\ \A id \in Run : status'[id] = "none" <=> status[id] = "none"
    BY <1>2, <2>2, NewestKept DEF LoserInv
  <2>3. CASE \E r \in Request : Insert(r) \/ (ReplyIsLost(r) /\ At(r, "insert"))
    BY <1>1, <2>1, <2>3 DEF Insert, ReplyIsLost
  <2>4. CASE ~ \E r \in Request : Insert(r) \/ (ReplyIsLost(r) /\ At(r, "insert"))
    <3>1. UNCHANGED <<shape, made, rows>>
      BY <2>4 DEF Next, vars, table, Continues, Click, Look, InsertConflicts, LookAgain,
           GatherEvidence, AskModel, Complete, MarkFailed, ReadRun, DbFails, ReplyIsLost, Dies, Tick
    <3>2. TypeOK /\ TypeOK'
      BY NextInv DEF FixInv
    <3> QED
      BY <2>2, <3>1, <3>2 DEF TypeOK, Run
  <2> QED
    BY <2>3, <2>4
\* Who has just lost finds the row that was in its way.
<1>4. ASSUME NEW r \in Request, At(r, "again")' PROVE RowsOf(req[r].of)' # {}
  <2>1. PICK f \in Fingerprint : f = req[r].of
    BY <1>1
  <2>2. CASE At(r, "again") /\ req'[r].of = f
    BY <1>3, <2>1, <2>2 DEF LoserInv, RowsOf
  <2>3. CASE InsertConflicts(r)
    <3>1. RowsOf(f) # {} /\ req'[r].of = f
      BY <1>1, <2>1, <2>3 DEF InsertConflicts, Unique, Active, RowsOf
    <3> QED
      BY <1>3, <3>1 DEF RowsOf
  <2>4. (At(r, "again") /\ req'[r].of = f) \/ InsertConflicts(r)
    BY <1>1, <1>4, <2>1 DEF Next, vars, Continues, Click, Look, Insert, InsertConflicts, LookAgain, Answers,
         GatherEvidence, AskModel, AfterModel, Complete, MarkFailed, ReadRun, DbFails, Thrown,
         ReplyIsLost, Dies, Tick
  <2> QED
    BY <2>2, <2>3, <2>4
<1>5. ASSUME NEW r \in Request, At(r, "threw")', engine' # "sqlite", ~(faults' > 0),
             ~(now' >= Window)
      PROVE  FALSE
  <2>1. faults' = faults /\ faults = 0 /\ now < Window /\ engine = "postgres"
    BY <1>1, <1>2, <1>5
  <2>2. CASE At(r, "threw")
    BY <1>1, <2>1, <2>2 DEF LoserInv, LoserIsAnswered
  <2>3. CASE LookAgain(r) /\ LatestRuns(req[r].of) = {}
    BY <1>1, <2>1, <2>3, LatestThere DEF LookAgain, LoserInv
  <2>4. At(r, "threw") \/ (LookAgain(r) /\ LatestRuns(req[r].of) = {})
    BY <1>1, <1>5, <2>1 DEF Next, vars, Fault, Continues, Click, Look, Insert, InsertConflicts,
         LookAgain, Answers, GatherEvidence, AskModel, AfterModel, Complete, MarkFailed, ReadRun,
         DbFails, ReplyIsLost, Dies, Tick
  <2> QED
    BY <2>2, <2>3, <2>4
<1>6. LoserIsAnswered'
  BY <1>5 DEF LoserIsAnswered
<1>7. (\A r \in Request : At(r, "again") => RowsOf(req[r].of) # {})'
  BY <1>4
<1> QED
  BY <1>3, <1>6, <1>7 DEF LoserInv

\* analyze.ts:325-326 (LoserIsAnswered).  On Postgres, within the window and
\* without a fault, no click ends in an error, for any number of clicks, shapes
\* and runs: whoever loses a race for the index is handed a run.
THEOREM LosersAreAnswered == Spec => []LoserIsAnswered
<1>1. Init => LoserInv
  BY DEF Init, LoserInv, NewestInv, RowsOf, At, LoserIsAnswered
<1>2. LoserInv => LoserIsAnswered
  BY DEF LoserInv
<1> QED
  BY <1>1, <1>2, LoserStep, OneAtATime, PTL DEF Spec

=============================================================================
