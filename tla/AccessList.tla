----------------------------- MODULE AccessList -----------------------------
(* What a project promises about who can see it, without requests, rows or   *)
(* keys: the owner asks, only who was asked is offered a place, only who is  *)
(* offered one takes it, and every step concerns one person.                 *)
CONSTANT Person

VARIABLES asked, standing

Standing == {"none", "offered", "member"}

Init == asked = {} /\ standing = [p \in Person |-> "none"]

Ask(p) == asked' = asked \cup {p} /\ UNCHANGED standing

Offer(p) ==
  /\ p \in asked /\ standing[p] = "none"
  /\ standing' = [standing EXCEPT ![p] = "offered"]
  /\ UNCHANGED asked

Join(p) ==
  /\ standing[p] = "offered"
  /\ standing' = [standing EXCEPT ![p] = "member"]
  /\ UNCHANGED asked

\* Whatever is withdrawn, a membership may leave an older offer standing.
Withdraw(p) ==
  /\ standing[p] # "none"
  /\ \E s \in {"none", "offered"} : standing' = [standing EXCEPT ![p] = s]
  /\ UNCHANGED asked

Next == \E p \in Person : Ask(p) \/ Offer(p) \/ Join(p) \/ Withdraw(p)

Spec == Init /\ [][Next]_<<asked, standing>>
=============================================================================
