--------------------------- MODULE MCArchiveQuery ---------------------------
(* A small instance of ArchiveQuery for TLC: one project with three aged     *)
(* days, the first of two rows.                                              *)
EXTENDS ArchiveQuery

CONSTANTS a, job

QEntry == 1 .. 4
QPartition == 1 .. 3
QPartOf == <<1, 1, 2, 3>>
QProjectOf == <<a, a, a>>
QDayOf == <<1, 2, 3>>
QScope == [r \in Run |-> QPartition]
=============================================================================
