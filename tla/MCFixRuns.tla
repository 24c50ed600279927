----------------------------- MODULE MCFixRuns -----------------------------
(* Small instances of FixRuns for TLC. *)
EXTENDS FixRuns

CONSTANTS r1, r2
=============================================================================
