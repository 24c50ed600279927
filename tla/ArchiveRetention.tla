-------------------------- MODULE ArchiveRetention --------------------------
(* The exporter implements LogRetention: the refinement mapping. *)
EXTENDS ArchiveExport

TierOf(e) ==
  CASE e \in hot -> "hot"
    [] e \in pruned \ hot -> "pruned"
    [] e \in (accepted \cap Archived) \ (hot \cup pruned) -> "archived"
    [] e \notin accepted \cup hot \cup pruned -> "none"
    [] OTHER -> "lost"

\* A project that has always been Pro, or a day not yet past its grace.
Protected ==
  {e \in Entry : \/ ProjectOf[PartOf[e]] \notin everFree
                 \/ DayOf[PartOf[e]] >= today - (HotWindow + Grace)}

Tiers == [e \in Entry |-> TierOf(e)]

Retention == INSTANCE LogRetention WITH tier <- Tiers, protected <- Protected

\* ARCHIVE.md:8-20.  Every step of the exporter keeps the promise of
\* LogRetention or changes nothing it speaks of.
KeepsRetention == Retention!Spec
=============================================================================
