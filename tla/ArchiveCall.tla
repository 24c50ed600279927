---------------------------- MODULE ArchiveCall ----------------------------
(* What the callers of app/Archive/duckdb.ts take for granted of one call:   *)
(* a script has its whole effect when it is answered ok, and then the rows   *)
(* are those of its last statement; it may have had any part of it when the  *)
(* answer is a failure; and once answered it does nothing more, so that what *)
(* is tried again never meets the first attempt.                             *)
EXTENDS Naturals, Sequences

CONSTANT Script      \* scripts, each the result sets its statements print

VARIABLES stage, of, effect, answer

vars == <<stage, of, effect, answer>>

LastOf(sets) == IF sets = <<>> THEN <<>> ELSE sets[Len(sets)]
NoAnswer == [ok |-> FALSE, rows |-> <<>>]

Init == stage = "idle" /\ of \in Script /\ effect = 0 /\ answer = NoAnswer

Opens ==
  /\ stage \in {"idle", "answered"} /\ stage' = "open"
  /\ of' \in Script /\ effect' = 0 /\ answer' = NoAnswer

\* The call is refused before it begins.
Refused ==
  /\ stage \in {"idle", "answered"} /\ stage' = "answered"
  /\ effect' = 0 /\ answer' = NoAnswer /\ UNCHANGED of

Works == stage = "open" /\ effect < 2 /\ effect' = effect + 1 /\ UNCHANGED <<stage, of, answer>>

Succeeds ==
  /\ stage = "open" /\ effect = 2
  /\ stage' = "answered" /\ answer' = [ok |-> TRUE, rows |-> LastOf(of)]
  /\ UNCHANGED <<of, effect>>

GivesUp ==
  /\ stage = "open"
  /\ stage' = "answered" /\ UNCHANGED <<of, effect, answer>>

Spec == Init /\ [][Opens \/ Refused \/ Works \/ Succeeds \/ GivesUp]_vars
=============================================================================
