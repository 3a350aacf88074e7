--------------------------- MODULE MCCompanyBrain ----------------------------
(* Fields, sources and edits for TLC.                                       *)
EXTENDS CompanyBrain

CONSTANTS messaging, personas, p1, p2, site, a1, a2

MCAsks == [a \in {a1, a2} |-> IF a = a1 THEN {"create", "analysis", "edit"} ELSE {"source", "edit"}]

MCListOf == [i \in {p1, p2} |-> personas]
MCFinds == [c \in {site} |-> {p1, p2}]

Upsert(i) == [op |-> "upsert", item |-> i]
Remove(i) == [op |-> "remove", item |-> i]
Patch(sections, retained) == [op |-> "patch", sections |-> sections, retained |-> retained]

\* Of each kind one: an item the sources yield is edited, removed, or dropped from its list
\* by a patch that keeps another and edits a section.
MCEdits == {Upsert(p1), Remove(p1), Patch({messaging}, [l \in {personas} |-> {p2}])}
==============================================================================
