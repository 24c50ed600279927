---------------------------- MODULE LogRetention ----------------------------
(***************************************************************************)
(* What the archive promises about each log entry, whatever machinery      *)
(* keeps the promise (ARCHIVE.md, "What it does"): once ingest has stored  *)
(* it, it stays in the hot database until it is in the archive, where it   *)
(* stays for good; only an entry of a project that has been on the free    *)
(* plan, older than the hot window and its grace period, is ever dropped.  *)
(***************************************************************************)
CONSTANT Entry

VARIABLES
  tier,         \* where each entry is
  protected     \* the entries that may not be dropped

Tier == {"none", "hot", "archived", "pruned"}

Init ==
  /\ tier \in [Entry -> {"none", "hot"}]
  /\ protected \in SUBSET Entry

Move(S, from, to) ==
  /\ S # {}
  /\ \A e \in S : tier[e] = from
  /\ tier' = [e \in Entry |-> IF e \in S THEN to ELSE tier[e]]
  /\ UNCHANGED protected

\* Ingest stores an entry.
Accept(e) == Move({e}, "none", "hot")

\* Some rows of a day leave the hot database; the archive has them.
Archive(S) == Move(S, "hot", "archived")

\* Some rows of a day are dropped for good.
Drop(S) == S \cap protected = {} /\ Move(S, "hot", "pruned")

\* Time passes, or an owner goes to the free plan.
Unprotect ==
  /\ protected' \in SUBSET protected
  /\ UNCHANGED tier

Next ==
  \/ \E e \in Entry : Accept(e)
  \/ \E S \in SUBSET Entry : Archive(S) \/ Drop(S)
  \/ Unprotect

Spec == Init /\ [][Next]_<<tier, protected>>
=============================================================================
