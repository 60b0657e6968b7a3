---------------------------- MODULE MCScanProcess ----------------------------
(* ScanProcess on two advisories, one of them also with a migrated row.    *)
EXTENDS ScanProcess

CONSTANTS a, b, c, osv, migrated, local, comment

K(id, s) == [id |-> id, source |-> s]
R(id, s, v) == [key |-> K(id, s), verdict |-> v]

TwoKeys == {K(a, osv), K(b, osv)}
SomeGaps == {{}, {K(a, osv)}}
SinkList == <<comment, local>>

\* b's row is refuted, cut short, migrated or missing; a's is refuted, and a
\* third advisory outside the work set may have been cut short.
Stored(rows) ==
  [rows |-> rows, count |-> Recount(rows, NoCount, "limit"), sbom |-> 1, gap |-> FALSE]

SomeBaselines ==
  {Stored({R(a, osv, "refuted")} \cup x \cup y) :
     x \in {{}, {R(b, osv, "refuted")}, {R(b, osv, "cutshort")}, {R(b, migrated, "undetermined")}},
     y \in {{}, {R(c, osv, "cutshort")}}}
=============================================================================
