--------------------------- MODULE MCArchiveExport ---------------------------
(* Small instances of ArchiveExport for TLC. *)
EXTENDS ArchiveRetention, TLC

CONSTANTS a, b, job, cli

(* One project with one aged day of three rows, so that a day spans two pages *)
(* and two delete batches of two.                                             *)
OneEntry == 1 .. 3
OnePartition == {1}
OnePartOf == [e \in OneEntry |-> 1]
OneProjectOf == [p \in OnePartition |-> a]
OneDayOf == [p \in OnePartition |-> 1]
OneScope == [r \in Run |-> OnePartition]

(* Two projects with an aged day each; a run by hand takes the first only. *)
TwoEntry == 1 .. 3
TwoPartition == 1 .. 2
TwoPartOf == <<1, 1, 2>>
TwoProjectOf == <<a, b>>
TwoDayOf == <<1, 1>>
TwoScope == [r \in Run |-> IF r = cli THEN {1} ELSE TwoPartition]
=============================================================================
