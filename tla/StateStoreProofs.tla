-------------------------- MODULE StateStoreProofs --------------------------
(***************************************************************************)
(* The state ref's theorems, for every set of writers, retry budget,       *)
(* report and record: type correctness, that neither racer's work is lost, *)
(* that holds stay stamped, and that the ref implements StateLedger.  They *)
(* rest on lemmas about the merge operators: a merge is well typed and     *)
(* keeps both sides' work.                                                 *)
(***************************************************************************)
EXTENDS StateStore, MergeRaces, TLAPS

-----------------------------------------------------------------------------
(* Merges: types.                                                          *)

\* Every row table mergeReports builds has a row or "none" per key.
LEMMA MergedRowsType ==
  ASSUME NEW p \in Report, NEW s \in Report
  PROVE  /\ UnionRows(p, s) \in [Key -> Row]
         /\ KeptRows(UnionRows(p, s)) \in [Key -> Row]
<1>1. p.rows \in [Key -> Row] /\ s.rows \in [Key -> Row]
  BY DEF Report
<1>2. UnionRows(p, s) \in [Key -> Row]
  BY <1>1 DEF UnionRows
<1>3. "none" \in Row
  BY DEF Row
<1>4. QED
  BY <1>2, <1>3 DEF KeptRows

\* A merge of two reports is a report.
LEMMA MergeBothReportsType ==
  ASSUME NEW base \in Report, NEW own \in Report
  PROVE  MergeBothReports(base, own) \in Report
<1> DEFINE p == Primary(base, own)
           s == Secondary(base, own)
<1>1. p \in Report /\ s \in Report
  BY DEF Primary, Secondary
<1>2. KeptRows(UnionRows(p, s)) \in [Key -> Row]
  BY <1>1, MergedRowsType
<1>3. MergedDigest(p, s, KeptRows(UnionRows(p, s))) \in Digest
  BY <1>1, DataAssumption DEF MergedDigest, Report
<1>4. QED
  BY <1>1, <1>2, <1>3 DEF MergeBothReports, Report

\* A nil side yields the other.
LEMMA MergeReportsType ==
  ASSUME NEW base \in Report \cup {NoReport}, NEW own \in Report \cup {NoReport}
  PROVE  MergeReports(base, own) \in Report \cup {NoReport}
BY MergeBothReportsType DEF MergeReports

\* A merge of two fetch records is a fetch record.
LEMMA MergeDepFetchType ==
  ASSUME NEW a \in DepFetch, NEW b \in DepFetch
  PROVE  MergeDepFetch(a, b) \in DepFetch
<1>1. ASSUME NEW g \in Registry
      PROVE  MergeRegistry(a.regs[g], b.regs[g]) \in RegistryFetch
  BY DEF MergeRegistry, RegistryFetch, DepFetch, Larger, EarliestHold
<1>2. QED
  BY <1>1 DEF MergeDepFetch, DepFetch

\* Withholding rows yields a report.
LEMMA WithNotFetchedType ==
  ASSUME NEW r \in Report, NEW L \in SUBSET Advisory
  PROVE  WithNotFetched(r, L) \in Report
<1>1. WithheldRows(r.rows, L) \in [Key -> Row]
  BY DEF WithheldRows, Report, Row, Undetermined
<1>2. {k.id : k \in {j \in Key : WithheldRows(r.rows, L)[j] = "notfetched"}} \in SUBSET Advisory
  BY DEF Key
<1>3. QED
  BY <1>1, <1>2 DEF WithNotFetched, Report

\* The empty State is a Content.
LEMMA EmptyContentType == EmptyContent \in Content
BY DataAssumption DEF EmptyContent, Content, EmptyDep, DepFetch, NeverFetched, RegistryFetch

\* The State a retry writes is well typed, hook or not.
LEMMA MergeType ==
  ASSUME NEW base \in Content, NEW own \in Content, NoReport \notin Report
  PROVE  Merge(base, own) \in Content
<1> DEFINE r == MergeReports(base.report, own.report)
<1>1. r \in Report \cup {NoReport}
  BY MergeReportsType DEF Content
<1>2. (IF r = NoReport THEN EmptySbom ELSE r.sbom) \in Sbom
  BY <1>1, DataAssumption DEF Report
<1>3. MergedCursor(r, base, own) \in SUBSET Advisory
  BY <1>1 DEF MergedCursor, LaterCursor, Report, Content
<1>4. Larger(base.revoke, own.revoke) \in Nat
  BY DEF Larger, Content
<1>5. MergeDepFetch(base.dep, own.dep) \in DepFetch
  BY MergeDepFetchType DEF Content
<1>6. base.vex \cup own.vex \in SUBSET Entry
  BY DEF Content
<1>7. QED
  BY <1>1, <1>2, <1>3, <1>4, <1>5, <1>6 DEF Merge, Content

LEMMA RemergedType ==
  ASSUME NEW c \in Content
  PROVE  Remerged(c) \in Content
<1>1. CASE c.report = NoReport
  BY <1>1 DEF Remerged
<1>2. CASE c.report # NoReport
  <2>1. c.report \in Report /\ c.dep.reassess \in SUBSET Advisory
    BY <1>2 DEF Content, DepFetch
  <2>2. WithNotFetched(c.report, c.dep.reassess) \in Report
    BY <2>1, WithNotFetchedType
  <2>3. QED
    BY <1>2, <2>2 DEF Remerged, Content
<1>3. QED
  BY <1>1, <1>2

LEMMA MergeForRetryType ==
  ASSUME NEW base \in Content, NEW own \in Content, NEW hook \in BOOLEAN,
         NoReport \notin Report
  PROVE  MergeForRetry(base, own, hook) \in Content
BY MergeType, RemergedType DEF MergeForRetry

-----------------------------------------------------------------------------
(* Merges: what they keep.                                                 *)

\* Dropping a superseded migrated row never drops the advisory: the row that
\* superseded it is kept.
LEMMA UnionAnswersBoth ==
  ASSUME NEW p \in Report, NEW s \in Report
  PROVE  /\ Answered(p.rows) \subseteq Answered(KeptRows(UnionRows(p, s)))
         /\ Answered(s.rows) \subseteq Answered(KeptRows(UnionRows(p, s)))
<1> DEFINE u == UnionRows(p, s)
<1>1. \A k \in Key : p.rows[k] # "none" \/ s.rows[k] # "none" => u[k] # "none"
  BY DEF UnionRows
<1>2. ASSUME NEW k \in Key, u[k] # "none"
      PROVE  \E j \in Key : j.id = k.id /\ KeptRows(u)[j] # "none"
  <2>1. CASE SupersededMigrated(u, k)
    <3>1. PICK j \in Key : j.id = k.id /\ j.source # NoSource /\ u[j] # "none"
      BY <2>1 DEF SupersededMigrated
    <3>2. ~SupersededMigrated(u, j)
      BY <3>1 DEF SupersededMigrated
    <3>3. QED
      BY <3>1, <3>2 DEF KeptRows
  <2>2. CASE ~SupersededMigrated(u, k)
    BY <1>2, <2>2 DEF KeptRows
  <2>3. QED
    BY <2>1, <2>2
<1>3. QED
  BY <1>1, <1>2 DEF Answered

\* mergeReports keeps every advisory and every limit of either side.
LEMMA MergeReportsKeeps ==
  ASSUME NEW base \in Report \cup {NoReport}, NEW own \in Report \cup {NoReport},
         NoReport \notin Report, NEW r \in {base, own}
  PROVE  /\ Answered(RowsOf(r)) \subseteq Answered(RowsOf(MergeReports(base, own)))
         /\ LimitsOf(r) \subseteq LimitsOf(MergeReports(base, own))
<1>1. CASE r = NoReport
  BY <1>1 DEF RowsOf, LimitsOf, NoRows, Answered
<1>2. CASE r # NoReport /\ (base = NoReport \/ own = NoReport)
  BY <1>2 DEF MergeReports
<1>3. CASE base # NoReport /\ own # NoReport
  <2> DEFINE p == Primary(base, own)
             s == Secondary(base, own)
             m == MergeBothReports(base, own)
  <2>1. p \in Report /\ s \in Report /\ r \in {p, s}
    BY <1>3 DEF Primary, Secondary
  <2>2. m.rows = KeptRows(UnionRows(p, s)) /\ m.limits = p.limits \cup s.limits
    BY DEF MergeBothReports
  <2>3. MergeReports(base, own) = m /\ m \in Report
    BY <1>3, MergeBothReportsType DEF MergeReports
  <2>4. RowsOf(r) = r.rows /\ LimitsOf(r) = r.limits /\ RowsOf(m) = m.rows /\ LimitsOf(m) = m.limits
    BY <1>3, <2>3 DEF RowsOf, LimitsOf
  <2>5. Answered(r.rows) \subseteq Answered(KeptRows(UnionRows(p, s)))
    BY <2>1, UnionAnswersBoth
  <2>6. QED
    BY <2>1, <2>2, <2>3, <2>4, <2>5
<1>4. QED
  BY <1>1, <1>2, <1>3

\* mergeDepFetch keeps either side's evidence: listed advisories, has-served,
\* the larger held count and the earlier first hold.
LEMMA MergeDepFetchKeeps ==
  ASSUME NEW a \in DepFetch, NEW b \in DepFetch
  PROVE  KeepsRecord(a, MergeDepFetch(a, b)) /\ KeepsRecord(b, MergeDepFetch(a, b))
<1>1. \A g \in Registry :
        /\ a.regs[g] \in RegistryFetch /\ b.regs[g] \in RegistryFetch
        /\ MergeDepFetch(a, b).regs[g] = MergeRegistry(a.regs[g], b.regs[g])
  BY DEF DepFetch, MergeDepFetch
<1>2. QED
  BY <1>1 DEF KeepsRecord, MergeDepFetch, MergeRegistry, RegistryFetch, Larger, EarliestHold

\* Merging two records whose holds are stamped yields one whose holds are.
LEMMA MergeKeepsHoldsStamped ==
  ASSUME NEW a \in DepFetch, NEW b \in DepFetch, HoldStamped(a), HoldStamped(b)
  PROVE  HoldStamped(MergeDepFetch(a, b))
<1>1. \A g \in Registry :
        /\ a.regs[g] \in RegistryFetch /\ b.regs[g] \in RegistryFetch
        /\ MergeDepFetch(a, b).regs[g] = MergeRegistry(a.regs[g], b.regs[g])
  BY DEF DepFetch, MergeDepFetch
<1>2. ASSUME NEW g \in Registry
      PROVE  MergeRegistry(a.regs[g], b.regs[g]).held = 0
               <=> MergeRegistry(a.regs[g], b.regs[g]).first = 0
  <2>1. a.regs[g].held = 0 <=> a.regs[g].first = 0
    BY DEF HoldStamped
  <2>2. b.regs[g].held = 0 <=> b.regs[g].first = 0
    BY DEF HoldStamped
  <2> DEFINE x == a.regs[g]
             y == b.regs[g]
  <2>3. x.held \in Nat /\ x.first \in Nat /\ y.held \in Nat /\ y.first \in Nat
    BY <1>1 DEF RegistryFetch
  <2>4. /\ MergeRegistry(x, y).held = Larger(x.held, y.held)
        /\ MergeRegistry(x, y).first = EarliestHold(x.first, y.first)
    BY DEF MergeRegistry
  <2>5. Larger(x.held, y.held) = 0 <=> (x.held = 0 /\ y.held = 0)
    BY <2>3 DEF Larger
  <2>6. EarliestHold(x.first, y.first) = 0 <=> (x.first = 0 /\ y.first = 0)
    BY <2>3 DEF EarliestHold
  <2>7. QED
    BY <2>1, <2>2, <2>4, <2>5, <2>6
<1>3. QED
  BY <1>1, <1>2 DEF HoldStamped

\* KeepsWork composes along a chain of merges.
LEMMA KeepsWorkTransitive ==
  ASSUME NEW a \in Content, NEW b \in Content, NEW c \in Content,
         KeepsWork(a, b), KeepsWork(b, c)
  PROVE  KeepsWork(a, c)
<1>1. a.dep \in DepFetch /\ b.dep \in DepFetch /\ c.dep \in DepFetch
      /\ a.revoke \in Nat /\ b.revoke \in Nat /\ c.revoke \in Nat
  BY DEF Content
<1>2. \A g \in Registry :
        a.dep.regs[g] \in RegistryFetch /\ b.dep.regs[g] \in RegistryFetch
        /\ c.dep.regs[g] \in RegistryFetch
  BY <1>1 DEF DepFetch
<1>3. KeepsRecord(a.dep, c.dep)
  BY <1>2 DEF KeepsWork, KeepsRecord, RegistryFetch
<1>4. a.revoke <= c.revoke
  BY <1>1 DEF KeepsWork
<1>5. QED
  BY <1>3, <1>4 DEF KeepsWork

LEMMA KeepsWorkReflexive ==
  ASSUME NEW a \in Content
  PROVE  KeepsWork(a, a)
<1>1. \A g \in Registry : a.dep.regs[g] \in RegistryFetch
  BY DEF Content, DepFetch
<1>2. a.revoke \in Nat
  BY DEF Content
<1>3. QED
  BY <1>1, <1>2 DEF KeepsWork, KeepsRecord, RegistryFetch

\* Withholding changes verdicts, never which advisories have a row.
LEMMA RemergedKeeps ==
  ASSUME NEW c \in Content, NoReport \notin Report
  PROVE  KeepsWork(c, Remerged(c))
<1>1. CASE c.report = NoReport
  BY <1>1, KeepsWorkReflexive DEF Remerged
<1>2. CASE c.report # NoReport
  <2> DEFINE L == c.dep.reassess
             w == WithNotFetched(c.report, L)
  <2>1. c.report \in Report /\ L \in SUBSET Advisory
    BY <1>2 DEF Content, DepFetch
  <2>2. w \in Report
    BY <2>1, WithNotFetchedType
  <2>3. w.rows = WithheldRows(c.report.rows, L) /\ w.limits = c.report.limits
    BY <2>1 DEF WithNotFetched, Report
  <2>4. \A k \in Key : c.report.rows[k] # "none" => WithheldRows(c.report.rows, L)[k] # "none"
    BY DEF WithheldRows
  <2>5. Answered(c.report.rows) \subseteq Answered(w.rows)
    BY <2>3, <2>4 DEF Answered
  <2>6. RowsOf(w) = w.rows /\ LimitsOf(w) = w.limits
    BY <2>2 DEF RowsOf, LimitsOf
  <2>7. RowsOf(c.report) = c.report.rows /\ LimitsOf(c.report) = c.report.limits
    BY <1>2 DEF RowsOf, LimitsOf
  <2>8. /\ Remerged(c).report = w /\ Remerged(c).vex = c.vex
        /\ Remerged(c).revoke = c.revoke /\ Remerged(c).dep = c.dep
    BY <1>2 DEF Remerged, Content
  <2>9. QED
    BY <2>3, <2>5, <2>6, <2>7, <2>8, KeepsWorkReflexive DEF KeepsWork
<1>3. QED
  BY <1>1, <1>2

\* A merge clobbers neither racer.
LEMMA MergeKeepsBoth ==
  ASSUME NEW base \in Content, NEW own \in Content, NoReport \notin Report
  PROVE  KeepsWork(base, Merge(base, own)) /\ KeepsWork(own, Merge(base, own))
<1> DEFINE m == Merge(base, own)
<1>1. base.report \in Report \cup {NoReport} /\ own.report \in Report \cup {NoReport}
  BY DEF Content
<1>2. m.report = MergeReports(base.report, own.report)
  BY DEF Merge
<1>3. \A r \in {base.report, own.report} :
        /\ Answered(RowsOf(r)) \subseteq Answered(RowsOf(m.report))
        /\ LimitsOf(r) \subseteq LimitsOf(m.report)
  BY <1>1, <1>2, MergeReportsKeeps
<1>4. KeepsRecord(base.dep, m.dep) /\ KeepsRecord(own.dep, m.dep)
  BY MergeDepFetchKeeps DEF Merge, Content
<1>5. base.revoke <= m.revoke /\ own.revoke <= m.revoke
  BY DEF Merge, Content, Larger
<1>6. base.vex \subseteq m.vex /\ own.vex \subseteq m.vex
  BY DEF Merge
<1>7. QED
  BY <1>3, <1>4, <1>5, <1>6 DEF KeepsWork

LEMMA MergeForRetryKeepsBoth ==
  ASSUME NEW base \in Content, NEW own \in Content, NEW hook \in BOOLEAN,
         NoReport \notin Report
  PROVE  /\ KeepsWork(base, MergeForRetry(base, own, hook))
         /\ KeepsWork(own, MergeForRetry(base, own, hook))
<1> DEFINE m == Merge(base, own)
<1>1. m \in Content
  BY MergeType
<1>2. KeepsWork(base, m) /\ KeepsWork(own, m)
  BY MergeKeepsBoth
<1>3. Remerged(m) \in Content /\ KeepsWork(m, Remerged(m))
  BY <1>1, RemergedType, RemergedKeeps
<1>4. KeepsWork(base, Remerged(m)) /\ KeepsWork(own, Remerged(m))
  BY <1>1, <1>2, <1>3, KeepsWorkTransitive
<1>5. QED
  BY <1>2, <1>4 DEF MergeForRetry

-----------------------------------------------------------------------------
(* Merges: scans that overlap.                                             *)

\* One row per advisory, and no verdict without a source.
Tidy(rows) ==
  /\ \A k \in Key : ~SupersededMigrated(rows, k)
  /\ \A k \in Key : k.source = NoSource => rows[k] \in Undetermined \cup {"none"}

\* A union keeps no migrated row beside its answer.
LEMMA UnionTidy ==
  ASSUME NEW p \in Report, NEW s \in Report, Tidy(p.rows), Tidy(s.rows)
  PROVE  Tidy(KeptRows(UnionRows(p, s)))
<1> DEFINE u == UnionRows(p, s)
<1>1. \A k \in Key : k.source = NoSource => u[k] \in Undetermined \cup {"none"}
  BY DEF Tidy, UnionRows
<1>2. \A k \in Key : KeptRows(u)[k] = IF SupersededMigrated(u, k) THEN "none" ELSE u[k]
  BY DEF KeptRows
<1>3. ASSUME NEW k \in Key, SupersededMigrated(KeptRows(u), k) PROVE FALSE
  <2>1. KeptRows(u)[k] = u[k] /\ ~SupersededMigrated(u, k)
    BY <1>2, <1>3 DEF SupersededMigrated, Undetermined
  <2>2. \A j \in Key : KeptRows(u)[j] # "none" => u[j] # "none"
    BY <1>2
  <2>3. QED
    BY <1>3, <2>1, <2>2 DEF SupersededMigrated
<1>4. \A k \in Key : k.source = NoSource => KeptRows(u)[k] \in Undetermined \cup {"none"}
  BY <1>1, <1>2
<1>5. QED
  BY <1>3, <1>4 DEF Tidy

\* Withholding makes no migrated row undetermined that was not so before.
LEMMA WithheldTidy ==
  ASSUME NEW rows \in [Key -> Row], NEW L, Tidy(rows)
  PROVE  Tidy(WithheldRows(rows, L))
<1> DEFINE h == WithheldRows(rows, L)
<1>1. \A k \in Key : h[k] = IF rows[k] = "refuted" /\ k.id \in L THEN "notfetched" ELSE rows[k]
  BY DEF WithheldRows
<1>2. \A k \in Key : k.source = NoSource => h[k] = rows[k]
  BY <1>1 DEF Tidy, Undetermined
<1>3. \A k \in Key : h[k] # "none" => rows[k] # "none"
  BY <1>1
<1>4. QED
  BY <1>2, <1>3 DEF Tidy, SupersededMigrated

\* What a merge of two reports and its hook make of the rows and the notes.
LEMMA MergedReport ==
  ASSUME NEW base \in Content, NEW own \in Content, NoReport \notin Report,
         base.report # NoReport, own.report # NoReport
  PROVE  LET p == Primary(base.report, own.report)
             s == Secondary(base.report, own.report)
             m == MergeBothReports(base.report, own.report)
             L == base.dep.reassess \cup own.dep.reassess
         IN /\ base.report \in Report /\ own.report \in Report
            /\ p \in Report /\ s \in Report /\ m \in Report
            /\ Merge(base, own).report = m
            /\ MergeForRetry(base, own, TRUE).dep.reassess = L
            /\ MergeForRetry(base, own, TRUE).report = WithNotFetched(m, L)
            /\ MergeForRetry(base, own, TRUE).report.rows
                 = WithheldRows(KeptRows(UnionRows(p, s)), L)
<1> DEFINE p == Primary(base.report, own.report)
           s == Secondary(base.report, own.report)
           m == MergeBothReports(base.report, own.report)
           L == base.dep.reassess \cup own.dep.reassess
           c == Merge(base, own)
<1>1. base.report \in Report /\ own.report \in Report
  BY DEF Content
<1>2. p \in Report /\ s \in Report /\ m \in Report
  BY <1>1, MergeBothReportsType DEF Primary, Secondary
<1>3. c.report = m /\ m # NoReport
  BY <1>2 DEF Merge, MergeReports
<1>4. c.dep.reassess = L
  BY DEF Merge, MergeDepFetch
<1>5. MergeForRetry(base, own, TRUE) = [c EXCEPT !.report = WithNotFetched(m, L)]
  BY <1>3, <1>4 DEF MergeForRetry, Remerged
<1>6. /\ MergeForRetry(base, own, TRUE).report = WithNotFetched(m, L)
      /\ MergeForRetry(base, own, TRUE).dep = c.dep
  BY <1>5 DEF Merge
<1>7. WithNotFetched(m, L).rows = WithheldRows(m.rows, L)
  BY <1>2 DEF WithNotFetched, Report
<1>8. m.rows = KeptRows(UnionRows(p, s))
  BY DEF MergeBothReports
<1>9. QED
  BY <1>1, <1>2, <1>3, <1>4, <1>6, <1>7, <1>8

\* Whoever came first, merging a scan onto it leaves one row per advisory.
LEMMA MergeTidy ==
  ASSUME NEW base \in Content, NEW own \in Content, NoReport \notin Report,
         base.report # NoReport, own.report # NoReport,
         Tidy(base.report.rows), Tidy(own.report.rows)
  PROVE  /\ MergeForRetry(base, own, TRUE).report # NoReport
         /\ Tidy(MergeForRetry(base, own, TRUE).report.rows)
<1> DEFINE p == Primary(base.report, own.report)
           s == Secondary(base.report, own.report)
           L == base.dep.reassess \cup own.dep.reassess
           u == KeptRows(UnionRows(p, s))
<1>1. /\ p \in Report /\ s \in Report
      /\ MergeForRetry(base, own, TRUE).report
           = WithNotFetched(MergeBothReports(base.report, own.report), L)
      /\ MergeBothReports(base.report, own.report) \in Report
      /\ MergeForRetry(base, own, TRUE).report.rows = WithheldRows(u, L)
  BY MergedReport
<1>2. u \in [Key -> Row]
  BY <1>1, MergedRowsType
<1>3. Tidy(p.rows) /\ Tidy(s.rows)
  BY DEF Primary, Secondary
<1>4. Tidy(WithheldRows(u, L))
  BY <1>1, <1>2, <1>3, UnionTidy, WithheldTidy
<1>5. WithNotFetched(MergeBothReports(base.report, own.report), L) \in Report
  BY <1>1, WithNotFetchedType DEF Content, DepFetch
<1>6. QED
  BY <1>1, <1>4, <1>5

\* Two untied reports merge into the same one in either order.
LEMMA MergeBothReportsCommutes ==
  ASSUME NEW a \in Report, NEW b \in Report, a.ts # b.ts
  PROVE  MergeBothReports(a, b) = MergeBothReports(b, a)
<1>1. a.ts \in Nat /\ b.ts \in Nat
  BY DEF Report
<1>2. Primary(a, b) = Primary(b, a) /\ Secondary(a, b) = Secondary(b, a)
  BY <1>1 DEF Primary, Secondary
<1>3. QED
  BY <1>2 DEF MergeBothReports

LEMMA MergeDepFetchCommutes ==
  ASSUME NEW a \in DepFetch, NEW b \in DepFetch
  PROVE  MergeDepFetch(a, b) = MergeDepFetch(b, a)
<1>1. ASSUME NEW g \in Registry PROVE MergeRegistry(a.regs[g], b.regs[g]) = MergeRegistry(b.regs[g], a.regs[g])
  <2>1. a.regs[g] \in RegistryFetch /\ b.regs[g] \in RegistryFetch
    BY DEF DepFetch
  <2>2. Larger(a.regs[g].held, b.regs[g].held) = Larger(b.regs[g].held, a.regs[g].held)
    BY <2>1 DEF Larger, RegistryFetch
  <2>3. EarliestHold(a.regs[g].first, b.regs[g].first) = EarliestHold(b.regs[g].first, a.regs[g].first)
    BY <2>1 DEF EarliestHold, RegistryFetch
  <2>4. (a.regs[g].served \/ b.regs[g].served) = (b.regs[g].served \/ a.regs[g].served)
    BY <2>1 DEF RegistryFetch
  <2>5. QED
    BY <2>2, <2>3, <2>4 DEF MergeRegistry
<1>2. QED
  BY <1>1 DEF MergeDepFetch

\* Two untied States merge alike in either order, but for the cursor: the merged
\* one is the later report's, or, that being empty, the second State's.
LEMMA MergeCommutes ==
  ASSUME NEW a \in Content, NEW b \in Content, a.report # NoReport, b.report # NoReport,
         b.report.ts < a.report.ts
  PROVE  /\ [Merge(a, b) EXCEPT !.cursor = {}] = [Merge(b, a) EXCEPT !.cursor = {}]
         /\ \/ a.report.cursor # {} \/ a.cursor = {} \/ b.cursor = {} \/ a.cursor = b.cursor
            => Merge(a, b).cursor = Merge(b, a).cursor
<1> DEFINE r == MergeBothReports(a.report, b.report)
<1>1. a.report \in Report /\ b.report \in Report /\ a.report.ts \in Nat /\ b.report.ts \in Nat
  BY DEF Content, Report
<1>2. MergeReports(a.report, b.report) = r /\ MergeReports(b.report, a.report) = r
  BY <1>1, MergeBothReportsCommutes DEF MergeReports
<1>3. r # NoReport /\ r.cursor = a.report.cursor
  <2>1. r # NoReport
    BY <1>1, MergeBothReportsType, StoreAssumption
  <2>2. Primary(a.report, b.report) = a.report
    BY <1>1 DEF Primary
  <2>3. QED
    BY <2>1, <2>2 DEF MergeBothReports
<1>4. Larger(a.revoke, b.revoke) = Larger(b.revoke, a.revoke)
  BY DEF Larger, Content
<1>5. MergeDepFetch(a.dep, b.dep) = MergeDepFetch(b.dep, a.dep)
  BY MergeDepFetchCommutes DEF Content
<1>6. a.vex \cup b.vex = b.vex \cup a.vex
  OBVIOUS
<1>7. [Merge(a, b) EXCEPT !.cursor = {}] = [Merge(b, a) EXCEPT !.cursor = {}]
  BY <1>2, <1>4, <1>5, <1>6 DEF Merge
<1>8. ASSUME a.report.cursor # {} \/ a.cursor = {} \/ b.cursor = {} \/ a.cursor = b.cursor
      PROVE  Merge(a, b).cursor = Merge(b, a).cursor
  <2>1. MergedCursor(r, a, b) = MergedCursor(r, b, a)
    BY <1>3, <1>8 DEF MergedCursor, LaterCursor
  <2>2. QED
    BY <1>2, <2>1 DEF Merge
<1>9. QED
  BY <1>7, <1>8

\* The hook does not look at the cursor, and leaves it alone.
LEMMA RemergedCursor ==
  ASSUME NEW c \in Content, NEW d \in Content,
         [c EXCEPT !.cursor = {}] = [d EXCEPT !.cursor = {}]
  PROVE  /\ [Remerged(c) EXCEPT !.cursor = {}] = [Remerged(d) EXCEPT !.cursor = {}]
         /\ Remerged(c).cursor = c.cursor
<1> DEFINE cc == [c EXCEPT !.cursor = {}]
           dd == [d EXCEPT !.cursor = {}]
<1>1. cc.report = c.report /\ cc.dep = c.dep /\ dd.report = d.report /\ dd.dep = d.dep
  BY DEF Content
<1>2. c.report = d.report /\ c.dep = d.dep
  BY <1>1
<1> DEFINE w == WithNotFetched(c.report, c.dep.reassess)
<1>3. CASE c.report = NoReport
  BY <1>2, <1>3 DEF Remerged
<1>4. CASE c.report # NoReport
  <2>1. Remerged(c) = [c EXCEPT !.report = w] /\ Remerged(d) = [d EXCEPT !.report = w]
    BY <1>2, <1>4 DEF Remerged
  <2>2. /\ [[c EXCEPT !.report = w] EXCEPT !.cursor = {}] = [cc EXCEPT !.report = w]
        /\ [[d EXCEPT !.report = w] EXCEPT !.cursor = {}] = [dd EXCEPT !.report = w]
    BY DEF Content
  <2>3. QED
    BY <2>1, <2>2 DEF Content
<1>5. QED
  BY <1>3, <1>4

\* The later report's row is the merged one, unless the merged record withholds
\* it.
LEMMA LaterRowMerged ==
  ASSUME NEW base \in Content, NEW own \in Content, NoReport \notin Report,
         base.report # NoReport, own.report # NoReport,
         NEW c \in {base, own}, NEW d \in {base, own}, d.report.ts < c.report.ts,
         NEW k \in Key, c.report.rows[k] # "none", k.source # NoSource,
         k.id \notin MergeForRetry(base, own, TRUE).dep.reassess
  PROVE  MergeForRetry(base, own, TRUE).report.rows[k] = c.report.rows[k]
<1> DEFINE p == Primary(base.report, own.report)
           s == Secondary(base.report, own.report)
           L == base.dep.reassess \cup own.dep.reassess
           u == UnionRows(p, s)
<1>1. /\ MergeForRetry(base, own, TRUE).dep.reassess = L
      /\ MergeForRetry(base, own, TRUE).report.rows = WithheldRows(KeptRows(u), L)
  BY MergedReport
<1>2. c.report.ts \in Nat /\ d.report.ts \in Nat
  BY DEF Content, Report
<1>3. p = c.report
  BY <1>2 DEF Primary
<1>4. u[k] = c.report.rows[k]
  BY <1>3 DEF UnionRows
<1>5. KeptRows(u)[k] = u[k]
  BY DEF KeptRows, SupersededMigrated
<1>6. WithheldRows(KeptRows(u), L)[k] = KeptRows(u)[k]
  BY <1>1 DEF WithheldRows
<1>7. QED
  BY <1>1, <1>4, <1>5, <1>6

\* What is stored is a scan's own State or a merge, and until a third racer
\* comes in, one of the two merges of the first two.
RaceInv ==
  /\ wrote \in [Racer -> Written]
  /\ arrived \subseteq Racer
  /\ arrived # {} =>
       stored \in Content /\ stored.report # NoReport /\ Tidy(stored.report.rows)
  /\ \A r \in Racer : arrived = {r} => stored = wrote[r]
  /\ \A r, q \in Racer : r # q /\ arrived = {r, q} =>
       \/ stored = MergeForRetry(wrote[r], wrote[q], TRUE)
       \/ stored = MergeForRetry(wrote[q], wrote[r], TRUE)

LEMMA WrittenIsTidy ==
  ASSUME NEW c \in Written
  PROVE  c \in Content /\ c.report # NoReport /\ Tidy(c.report.rows)
BY RaceAssumption DEF Tidy

LEMMA ArriveRaces ==
  ASSUME RaceInv, NEW r \in Racer, Arrive(r)
  PROVE  RaceInv'
<1> DEFINE merged == MergeForRetry(stored, wrote[r], TRUE)
<1>1. wrote' = wrote /\ arrived' = arrived \cup {r} /\ r \notin arrived
  BY DEF Arrive
<1>2. wrote[r] \in Content /\ wrote[r].report # NoReport /\ Tidy(wrote[r].report.rows)
  BY WrittenIsTidy DEF RaceInv
<1>3. CASE arrived = {}
  <2>1. stored' = wrote[r] /\ arrived' = {r}
    BY <1>1, <1>3 DEF Arrive
  <2>2. QED
    BY <1>1, <1>2, <2>1 DEF RaceInv
<1>4. CASE arrived # {}
  <2>1. stored' = merged
    BY <1>4 DEF Arrive
  <2>2. stored \in Content /\ stored.report # NoReport /\ Tidy(stored.report.rows)
    BY <1>4 DEF RaceInv
  <2>3. merged \in Content
    BY <1>2, <2>2, MergeForRetryType, StoreAssumption
  <2>4. merged.report # NoReport /\ Tidy(merged.report.rows)
    BY <1>2, <2>2, MergeTidy, StoreAssumption
  <2>5. \A q \in Racer : arrived' # {q}
    BY <1>1, <1>4
  <2>6. ASSUME NEW a \in Racer, NEW b \in Racer, a # b, arrived' = {a, b}
        PROVE  \/ merged = MergeForRetry(wrote[a], wrote[b], TRUE)
               \/ merged = MergeForRetry(wrote[b], wrote[a], TRUE)
    <3>1. CASE r = a
      <4>1. arrived = {b}
        BY <1>1, <1>4, <2>6, <3>1
      <4>2. QED
        BY <3>1, <4>1 DEF RaceInv
    <3>2. CASE r = b
      <4>1. arrived = {a}
        BY <1>1, <1>4, <2>6, <3>2
      <4>2. QED
        BY <3>2, <4>1 DEF RaceInv
    <3>3. QED
      BY <1>1, <2>6, <3>1, <3>2
  <2>7. QED
    BY <1>1, <2>1, <2>3, <2>4, <2>5, <2>6 DEF RaceInv
<1>5. QED
  BY <1>3, <1>4

LEMMA RacesHold == RaceSpec => []RaceInv
<1>1. RaceInit => RaceInv
  BY DEF RaceInit, RaceInv
<1>2. RaceInv /\ [RaceNext]_raceVars => RaceInv'
  BY ArriveRaces DEF RaceNext, raceVars, RaceInv
<1>3. QED
  BY <1>1, <1>2, PTL DEF RaceSpec

\* However many scans overlap, and in whatever order their merges go in, no
\* advisory is stored twice.
THEOREM OneRowStored == RaceSpec => []OneRowPerAdvisory
<1>1. RaceInv => OneRowPerAdvisory
  BY DEF RaceInv, OneRowPerAdvisory, Tidy
<1>2. QED
  BY <1>1, RacesHold, PTL

\* Two overlapping scans store the same State whichever wins the CAS, but for
\* the cursor beside a later report that has none.
THEOREM RaceOrderInsensitive == RaceSpec => []OrderInsensitive
<1>1. RaceInv => OrderInsensitive
  <2> SUFFICES ASSUME RaceInv, NEW r \in arrived, NEW q \in arrived,
                      arrived = {r, q}, TimeOf(q) < TimeOf(r)
               PROVE  LET inOrder == MergeForRetry(wrote[q], wrote[r], TRUE)
                      IN /\ [stored EXCEPT !.cursor = {}] = [inOrder EXCEPT !.cursor = {}]
                         /\ CursorSettled(r, q) => stored.cursor = inOrder.cursor
    BY DEF OrderInsensitive
  <2> DEFINE m == Merge(wrote[q], wrote[r])
             n == Merge(wrote[r], wrote[q])
  <2>1. r \in Racer /\ q \in Racer /\ wrote[r] \in Written /\ wrote[q] \in Written
    BY DEF RaceInv
  <2>2. /\ wrote[r] \in Content /\ wrote[r].report # NoReport
        /\ wrote[q] \in Content /\ wrote[q].report # NoReport
    BY <2>1, WrittenIsTidy
  <2>3. wrote[q].report.ts < wrote[r].report.ts
    BY DEF TimeOf
  <2>4. r # q
    <3>1. wrote[r].report.ts \in Nat
      BY <2>2 DEF Content, Report
    <3>2. QED
      BY <2>3, <3>1
  <2>5. stored = Remerged(n) \/ stored = Remerged(m)
    BY <2>1, <2>4 DEF RaceInv, MergeForRetry
  <2>6. m \in Content /\ n \in Content
    BY <2>2, MergeType, StoreAssumption
  <2>7. /\ [n EXCEPT !.cursor = {}] = [m EXCEPT !.cursor = {}]
        /\ CursorSettled(r, q) => n.cursor = m.cursor
    BY <2>2, <2>3, MergeCommutes DEF CursorSettled
  <2>8. /\ [Remerged(n) EXCEPT !.cursor = {}] = [Remerged(m) EXCEPT !.cursor = {}]
        /\ Remerged(n).cursor = n.cursor /\ Remerged(m).cursor = m.cursor
    BY <2>6, <2>7, RemergedCursor
  <2>9. MergeForRetry(wrote[q], wrote[r], TRUE) = Remerged(m)
    BY DEF MergeForRetry
  <2>10. QED
    BY <2>5, <2>7, <2>8, <2>9
<1>2. QED
  BY <1>1, RacesHold, PTL

\* Of two overlapping scans the later one's verdict is stored.
THEOREM LaterWins == RaceSpec => []LaterOfTwoWins
<1>1. RaceInv => LaterOfTwoWins
  <2> SUFFICES ASSUME RaceInv, NEW r \in arrived, NEW q \in arrived, arrived = {r, q},
                      TimeOf(q) < TimeOf(r), NEW k \in Key, RowIn(r, k) # "none",
                      k.source # NoSource, k.id \notin stored.dep.reassess
               PROVE  stored.report.rows[k] = RowIn(r, k)
    BY DEF LaterOfTwoWins
  <2>1. r \in Racer /\ q \in Racer /\ wrote[r] \in Written /\ wrote[q] \in Written
    BY DEF RaceInv
  <2>2. /\ wrote[r] \in Content /\ wrote[r].report # NoReport
        /\ wrote[q] \in Content /\ wrote[q].report # NoReport
    BY <2>1, WrittenIsTidy
  <2>3. wrote[q].report.ts < wrote[r].report.ts
    BY DEF TimeOf
  <2>4. \/ stored = MergeForRetry(wrote[r], wrote[q], TRUE)
        \/ stored = MergeForRetry(wrote[q], wrote[r], TRUE)
    <3>1. wrote[r].report.ts \in Nat
      BY <2>2 DEF Content, Report
    <3>2. r # q
      BY <2>3, <3>1
    <3>3. QED
      BY <2>1, <3>2 DEF RaceInv
  <2>5. NoReport \notin Report
    BY StoreAssumption
  <2>6. wrote[r].report.rows[k] # "none"
    BY DEF RowIn
  <2>7. CASE stored = MergeForRetry(wrote[r], wrote[q], TRUE)
    <3>1. stored.report.rows[k] = wrote[r].report.rows[k]
      BY <2>2, <2>3, <2>5, <2>6, <2>7, LaterRowMerged
    <3>2. QED
      BY <3>1 DEF RowIn
  <2>8. CASE stored = MergeForRetry(wrote[q], wrote[r], TRUE)
    <3>1. stored.report.rows[k] = wrote[r].report.rows[k]
      BY <2>2, <2>3, <2>5, <2>6, <2>8, LaterRowMerged
    <3>2. QED
      BY <3>1 DEF RowIn
  <2>9. QED
    BY <2>4, <2>7, <2>8
<1>2. QED
  BY <1>1, RacesHold, PTL

-----------------------------------------------------------------------------
(* Types.                                                                  *)

LEMMA ReadContentType ==
  ASSUME NEW t \in Tree
  PROVE  ReadContent(t) \in Content
<1>1. EmptyDep \in DepFetch
  BY DEF EmptyDep, DepFetch, NeverFetched, RegistryFetch
<1>2. t.content \in Content
  BY DEF Tree
<1>3. QED
  BY <1>1, <1>2 DEF ReadContent, Content

\* Setting the SBOM to the Report's keeps a Content one.
LEMMA PersistedType ==
  ASSUME NEW c \in Content
  PROVE  Persisted(c) \in Content
BY DEF Persisted, Content, Report

LEMMA IntentsType ==
  ASSUME NEW c \in Content, NEW next \in Intents(c)
  PROVE  next \in Content
<1> DEFINE S == [report: Fresh \cup {c.report}, sbom: {c.sbom},
                 cursor: SUBSET Advisory, vex: {c.vex \cup v : v \in SUBSET Entry},
                 revoke: 0..MaxRevoke, dep: Records \cup {c.dep}]
<1>1. PICK d \in S : next = Persisted(d)
  BY DEF Intents
<1>2. d \in Content
  BY StoreAssumption DEF Content
<1>3. QED
  BY <1>1, <1>2, PersistedType

\* A caller changes only what Intents lets it change, once it mirrors its SBOM.
LEMMA IsIntent ==
  ASSUME NEW c \in Content, NEW next \in Content, MayWrite(c, next),
         next.vex = c.vex, next.revoke \in 0..MaxRevoke,
         IF next.report = NoReport THEN next.sbom = c.sbom
                                   ELSE next.sbom = next.report.sbom
  PROVE  next \in Intents(c)
<1> DEFINE d == [next EXCEPT !.sbom = c.sbom]
<1>1. d \in [report: Fresh \cup {c.report}, sbom: {c.sbom}, cursor: SUBSET Advisory,
             vex: {c.vex \cup v : v \in SUBSET Entry}, revoke: 0..MaxRevoke,
             dep: Records \cup {c.dep}]
  <2>1. next.vex \in {c.vex \cup v : v \in SUBSET Entry}
    <3>1. next.vex = c.vex \cup {} /\ {} \in SUBSET Entry
      OBVIOUS
    <3>2. QED
      BY <3>1
  <2>2. next.report \in Fresh \cup {c.report} /\ next.dep \in Records \cup {c.dep}
    BY DEF MayWrite
  <2>3. QED
    BY <2>1, <2>2 DEF Content
<1>2. next = Persisted(d)
  BY DEF Persisted, Content
<1>3. QED
  BY <1>1, <1>2 DEF Intents

LEMMA NoCommitType == NoCommit \in Commit
BY EmptyContentType DEF NoCommit, Commit, Tree

LEMMA FreshStateType == FreshState \in State
BY EmptyContentType DEF FreshState, State

LEMMA ReadStateType ==
  ASSUME NEW c \in Commit
  PROVE  ReadState(c) \in State
BY ReadContentType, FreshStateType DEF ReadState, State, Commit

LEMMA BuildTreeType ==
  ASSUME NEW s \in State, NEW p \in Commit
  PROVE  BuildTree(s, p) \in Tree
<1>1. s.content \in Content /\ s.content.report \in Report \cup {NoReport}
  BY DEF State, Content
<1>2. Persisted(s.content) \in Content
  BY <1>1, PersistedType
<1>3. QED
  BY <1>1, <1>2 DEF BuildTree, Tree, Commit

LEMMA ChildType ==
  ASSUME NEW p \in Commit, NEW t \in Tree
  PROVE  Child(p, t) \in Commit
BY DEF Child, Commit

LEMMA ResolvedType ==
  ASSUME TypeOK, NEW c \in Resolved
  PROVE  c \in Commit
BY NoCommitType DEF Resolved, TypeOK

\* What a Read and a re-read leave of the writer, whatever they resolved.
LEMMA ReadResolves ==
  ASSUME TypeOK, NEW w \in Writer, ReadForUpdate(w)
  PROVE  \E c \in Resolved :
           /\ cur' = [cur EXCEPT ![w] = ReadState(c)]
           /\ token' = [token EXCEPT ![w] = c]
           /\ stage[w] = "idle" /\ stage' = [stage EXCEPT ![w] = "read"]
           /\ ref' = ref /\ attempt' = attempt /\ mine' = mine
BY DEF ReadForUpdate, Become

LEMMA RetryResolves ==
  ASSUME TypeOK, NEW w \in Writer, Retry(w)
  PROVE  \E c \in Resolved :
           /\ cur' = [cur EXCEPT ![w] = RetryState(w, c)]
           /\ token' = [token EXCEPT ![w] = c]
           /\ stage[w] = "conflict" /\ stage' = [stage EXCEPT ![w] = "trying"]
           /\ attempt[w] < MaxRetries /\ attempt' = [attempt EXCEPT ![w] = @ + 1]
           /\ ref' = ref /\ mine' = mine
BY DEF Retry, Become

LEMMA RetryStateType ==
  ASSUME TypeOK, NEW w \in Writer, NEW c \in Commit
  PROVE  RetryState(w, c) \in State
<1>1. cur[w].content \in Content /\ cur[w].remerge \in BOOLEAN /\ cur[w] \in State
  BY DEF TypeOK, State
<1>2. ReadContent(c.tree) \in Content
  BY ReadContentType DEF Commit
<1>3. MergeForRetry(ReadContent(c.tree), cur[w].content, cur[w].remerge) \in Content
  BY <1>1, <1>2, MergeForRetryType, StoreAssumption
<1>4. QED
  BY <1>1, <1>3 DEF RetryState, State

LEMMA InitType == Init => TypeOK
BY NoCommitType, FreshStateType, EmptyContentType, StoreAssumption
   DEF Init, TypeOK, Stages

LEMMA ForeignTreeType ==
  ASSUME NEW c \in Commit, NEW r \in Fresh, NEW x \in SUBSET Foreign
  PROVE  ForeignTree(c, r, x) \in Tree
<1>1. c.tree \in Tree /\ c.tree.content \in Content /\ r \in Report
  BY StoreAssumption DEF Commit, Tree
<1>2. [c.tree.content EXCEPT !.report = r, !.sbom = r.sbom] \in Content
  BY <1>1 DEF Content, Report
<1>3. QED
  BY <1>1, <1>2 DEF ForeignTree, Tree

LEMMA StepType == TypeOK /\ [Next]_vars => TypeOK'
<1> SUFFICES ASSUME TypeOK, [Next]_vars PROVE TypeOK'
  OBVIOUS
<1> USE DEF TypeOK
<1>0. Event => events' \in 0..MaxEvents
  BY StoreAssumption DEF Event
<1>1. ASSUME NEW w \in Writer, ReadForUpdate(w) PROVE TypeOK'
  <2>1. \A c \in Resolved : c \in Commit /\ ReadState(c) \in State
    BY ResolvedType, ReadStateType
  <2>2. cur' \in [Writer -> State] /\ token' \in [Writer -> Commit]
    BY <1>1, <2>1 DEF ReadForUpdate
  <2>3. stage' \in [Writer -> Stages]
    BY <1>1 DEF ReadForUpdate, Become, Stages
  <2>4. QED
    BY <1>0, <1>1, <2>2, <2>3 DEF ReadForUpdate
<1>2. ASSUME NEW w \in Writer, NEW next \in Intents(cur[w].content), NEW hook \in BOOLEAN,
             Submit(w, next, hook)
      PROVE TypeOK'
  <2>1. cur[w].content \in Content
    BY DEF State
  <2>2. next \in Content
    BY <2>1, IntentsType
  <2>3. [content |-> next, remerge |-> hook] \in State
    BY <2>2 DEF State
  <2>4. QED
    BY <1>2, <2>2, <2>3 DEF Submit, Become, Stages
<1>3. ASSUME NEW w \in Writer, Return(w), ref' \in Commit, events' \in 0..MaxEvents
      PROVE TypeOK'
  BY <1>3, FreshStateType, NoCommitType, EmptyContentType, StoreAssumption
     DEF Return, Become, Stages
<1>4. ASSUME NEW w \in Writer, TryWrite(w) PROVE TypeOK'
  <2>1. ref' \in Commit
    BY <1>4, BuildTreeType, ChildType DEF TryWrite
  <2>2. QED
    BY <1>3, <1>4, <2>1 DEF TryWrite
<1>5. ASSUME NEW w \in Writer, Abandon(w) \/ Fail(w) \/ Exhaust(w) PROVE TypeOK'
  BY <1>3, <1>5 DEF Abandon, Fail, Exhaust
<1>6. ASSUME NEW w \in Writer, Conflict(w) PROVE TypeOK'
  BY <1>6 DEF Conflict, Become, Stages
<1>7. ASSUME NEW w \in Writer, Retry(w) PROVE TypeOK'
  <2>1. attempt[w] + 1 \in 0..MaxRetries
    BY <1>7, StoreAssumption DEF Retry
  <2>2. \A c \in Resolved : c \in Commit /\ RetryState(w, c) \in State
    BY ResolvedType, RetryStateType
  <2>3. stage' \in [Writer -> Stages]
    BY <1>7 DEF Retry, Become, Stages
  <2>4. QED
    BY <1>7, <2>1, <2>2, <2>3 DEF Retry
<1>8. CASE DeleteRef
  BY <1>0, <1>8, NoCommitType DEF DeleteRef
<1>9. CASE ForeignWrite
  <2>1. PICK r \in Fresh, x \in SUBSET Foreign : ref' = Child(ref, ForeignTree(ref, r, x))
    BY <1>9 DEF ForeignWrite, ForeignCommit
  <2>2. ref' \in Commit
    BY <2>1, ForeignTreeType, ChildType
  <2>3. QED
    BY <1>0, <1>9, <2>2 DEF ForeignWrite, ForeignCommit
<1>10. CASE UNCHANGED vars
  BY <1>10 DEF vars
<1>11. QED
  BY <1>1, <1>2, <1>4, <1>5, <1>6, <1>7, <1>8, <1>9, <1>10 DEF Next, WriteStep

\* The ref and every writer keep their types.
THEOREM TypeCorrect == Spec => []TypeOK
<1>1. QED
  BY InitType, StepType, PTL DEF Spec

-----------------------------------------------------------------------------
(* The inductive invariant.                                                *)

\* Every commit made on top of another is rooted.
LEMMA ChildRooted ==
  ASSUME NEW p \in Commit, NEW t \in Tree
  PROVE  Rooted(Child(p, t)) /\ Exists(Child(p, t))
BY DEF Child, Commit, Rooted, Exists

LEMMA ReadContentLog ==
  ASSUME NEW t \in Tree
  PROVE  ReadContent(t).vex = t.content.vex
BY DEF ReadContent, Tree, Content

LEMMA InitCarries == Init => CarriesBoth
BY DEF Init, CarriesBoth, RootInv, Rooted, AttemptInv, LogInv, WinnerInv, OwnInv,
       NoCommit, FreshState, EmptyContent, Exists

\* A writer that returns carries nothing more.
LEMMA ReturnCarries ==
  ASSUME TypeOK, CarriesBoth, NEW w \in Writer, Return(w), Rooted(ref')
  PROVE  CarriesBoth'
<1> USE DEF TypeOK, Return, Become
<1>1. \A v \in Writer \ {w} :
        /\ stage'[v] = stage[v] /\ cur'[v] = cur[v] /\ token'[v] = token[v]
        /\ attempt'[v] = attempt[v] /\ mine'[v] = mine[v]
  OBVIOUS
<1>2. stage'[w] = "idle" /\ token'[w] = NoCommit /\ attempt'[w] = 0
  OBVIOUS
<1>3. Rooted(NoCommit)
  BY DEF Rooted
<1> HIDE DEF TypeOK, Return, Become
<1>4. RootInv' /\ AttemptInv' /\ LogInv'
  BY <1>1, <1>2, <1>3 DEF CarriesBoth, RootInv, AttemptInv, LogInv
<1>5. WinnerInv' /\ OwnInv'
  BY <1>1, <1>2 DEF CarriesBoth, WinnerInv, OwnInv
<1>6. QED
  BY <1>4, <1>5 DEF CarriesBoth

\* The merge of a retry gives the writer the winner's work and keeps its own.
LEMMA RetryCarries ==
  ASSUME TypeOK, CarriesBoth, NEW w \in Writer, Retry(w)
  PROVE  CarriesBoth'
<1>0. /\ cur[w] \in State /\ cur[w].content \in Content /\ cur[w].remerge \in BOOLEAN
      /\ mine[w] \in Content
  BY DEF TypeOK, State
<1> PICK c \in Resolved :
      /\ cur' = [cur EXCEPT ![w] = RetryState(w, c)]
      /\ token' = [token EXCEPT ![w] = c]
      /\ stage[w] = "conflict" /\ stage' = [stage EXCEPT ![w] = "trying"]
      /\ attempt[w] < MaxRetries /\ attempt' = [attempt EXCEPT ![w] = @ + 1]
      /\ ref' = ref /\ mine' = mine
  BY RetryResolves
<1> DEFINE next == RetryState(w, c)
<1>1. /\ c \in Commit /\ c.tree \in Tree /\ Rooted(c) /\ next \in State
      /\ ReadContent(c.tree) \in Content /\ next.content \in Content
  <2>1. c \in Commit /\ c.tree \in Tree /\ next \in State
    BY ResolvedType, RetryStateType DEF Commit
  <2>2. Rooted(c)
    BY DEF Resolved, CarriesBoth, RootInv, Rooted
  <2>3. QED
    BY <2>1, <2>2, ReadContentType DEF State
<1>2. \A v \in Writer \ {w} :
        /\ stage'[v] = stage[v] /\ cur'[v] = cur[v] /\ token'[v] = token[v]
        /\ attempt'[v] = attempt[v] /\ mine'[v] = mine[v]
  BY DEF TypeOK
<1>3. /\ stage[w] = "conflict" /\ stage'[w] = "trying" /\ cur'[w] = next
      /\ token'[w] = c /\ mine'[w] = mine[w] /\ ref' = ref
  BY DEF TypeOK
<1>4. Exists(c) =>
        /\ KeepsWork(ReadContent(c.tree), next.content)
        /\ KeepsWork(cur[w].content, next.content)
  BY <1>0, <1>1, MergeForRetryKeepsBoth, StoreAssumption DEF RetryState, State
<1>5. KeepsWork(cur[w].content, next.content)
  BY <1>0, <1>4, KeepsWorkReflexive DEF RetryState
<1>6. RootInv' /\ AttemptInv'
  BY <1>1, <1>2, <1>3 DEF CarriesBoth, RootInv, AttemptInv
<1>7. c.tree.content.vex \subseteq next.content.vex
  <2>1. CASE Exists(c)
    BY <1>1, <1>4, <2>1, ReadContentLog DEF KeepsWork
  <2>2. CASE ~Exists(c)
    <3>1. c = NoCommit
      BY <1>1, <2>2 DEF Rooted, Exists, Commit
    <3>2. QED
      BY <3>1 DEF NoCommit, EmptyContent
  <2>3. QED
    BY <2>1, <2>2
<1>8. LogInv'
  BY <1>2, <1>3, <1>7 DEF CarriesBoth, LogInv
<1>9. WinnerInv'
  BY <1>2, <1>3, <1>4 DEF CarriesBoth, WinnerInv
<1>10. KeepsWork(mine[w], next.content)
  BY <1>0, <1>1, <1>3, <1>5, KeepsWorkTransitive DEF CarriesBoth, OwnInv
<1>11. OwnInv'
  BY <1>2, <1>3, <1>10 DEF CarriesBoth, OwnInv
<1>12. QED
  BY <1>6, <1>8, <1>9, <1>11 DEF CarriesBoth

LEMMA ReadCarries ==
  ASSUME TypeOK, CarriesBoth, NEW w \in Writer, ReadForUpdate(w)
  PROVE  CarriesBoth'
<1> PICK c \in Resolved :
      /\ cur' = [cur EXCEPT ![w] = ReadState(c)]
      /\ token' = [token EXCEPT ![w] = c]
      /\ stage[w] = "idle" /\ stage' = [stage EXCEPT ![w] = "read"]
      /\ ref' = ref /\ attempt' = attempt /\ mine' = mine
  BY ReadResolves
<1>0. c \in Commit /\ Rooted(c)
  <2>1. Rooted(c)
    BY DEF Resolved, CarriesBoth, RootInv, Rooted
  <2>2. QED
    BY <2>1, ResolvedType
<1>1. \A v \in Writer \ {w} :
        /\ stage'[v] = stage[v] /\ cur'[v] = cur[v] /\ token'[v] = token[v]
        /\ attempt'[v] = attempt[v] /\ mine'[v] = mine[v]
  BY DEF TypeOK
<1>2. /\ stage[w] = "idle" /\ stage'[w] = "read" /\ cur'[w] = ReadState(c)
      /\ token'[w] = c /\ attempt'[w] = attempt[w] /\ ref' = ref
  BY DEF TypeOK
<1>3. RootInv' /\ AttemptInv'
  BY <1>0, <1>1, <1>2 DEF CarriesBoth, RootInv, AttemptInv
<1>4. c.tree.content.vex \subseteq ReadState(c).content.vex
  <2>1. CASE Exists(c)
    BY <1>0, <2>1, ReadContentLog DEF ReadState, Commit
  <2>2. CASE ~Exists(c)
    <3>1. c = NoCommit
      BY <1>0, <2>2 DEF Rooted, Exists, Commit
    <3>2. QED
      BY <3>1 DEF NoCommit, EmptyContent
  <2>3. QED
    BY <2>1, <2>2
<1>5. LogInv'
  BY <1>1, <1>2, <1>4 DEF CarriesBoth, LogInv
<1>6. attempt[w] = 0
  BY <1>2 DEF CarriesBoth, AttemptInv
<1>7. WinnerInv' /\ OwnInv'
  BY <1>1, <1>2, <1>6 DEF CarriesBoth, WinnerInv, OwnInv
<1>8. QED
  BY <1>3, <1>5, <1>7 DEF CarriesBoth

LEMMA SubmitCarries ==
  ASSUME TypeOK, CarriesBoth, NEW w \in Writer, NEW hook \in BOOLEAN,
         NEW next \in Intents(cur[w].content), Submit(w, next, hook)
  PROVE  CarriesBoth'
<1>1. \A v \in Writer \ {w} :
        /\ stage'[v] = stage[v] /\ cur'[v] = cur[v] /\ token'[v] = token[v]
        /\ attempt'[v] = attempt[v] /\ mine'[v] = mine[v]
  BY DEF Submit, Become, TypeOK
<1>2. /\ stage[w] = "read" /\ stage'[w] = "trying" /\ mine'[w] = next
      /\ cur'[w] = [content |-> next, remerge |-> hook]
      /\ token'[w] = token[w] /\ attempt'[w] = attempt[w] /\ ref' = ref
  BY DEF Submit, Become, TypeOK
<1>3. cur[w].content.vex \subseteq next.vex
  BY DEF Submit, MayWrite
<1>4. next \in Content
  <2>1. cur[w].content \in Content
    BY DEF TypeOK, State
  <2>2. QED
    BY <2>1, IntentsType
<1>5. RootInv' /\ AttemptInv' /\ attempt[w] = 0
  BY <1>1, <1>2 DEF CarriesBoth, RootInv, AttemptInv
<1>6. LogInv'
  BY <1>1, <1>2, <1>3 DEF CarriesBoth, LogInv
<1>7. WinnerInv'
  BY <1>1, <1>2, <1>5 DEF CarriesBoth, WinnerInv
<1>8. OwnInv'
  BY <1>1, <1>2, <1>4, KeepsWorkReflexive DEF CarriesBoth, OwnInv
<1>9. QED
  BY <1>5, <1>6, <1>7, <1>8 DEF CarriesBoth

LEMMA StepCarries == TypeOK /\ CarriesBoth /\ [Next]_vars => CarriesBoth'
<1> SUFFICES ASSUME TypeOK, CarriesBoth, [Next]_vars PROVE CarriesBoth'
  OBVIOUS
<1>1. ASSUME NEW w \in Writer, TryWrite(w) PROVE CarriesBoth'
  <2>1. cur[w] \in State /\ token[w] \in Commit /\ Return(w)
    BY <1>1 DEF TypeOK, TryWrite
  <2>2. Rooted(ref')
    BY <1>1, <2>1, BuildTreeType, ChildRooted DEF TryWrite
  <2>3. QED
    BY <2>1, <2>2, ReturnCarries
<1>2. ASSUME NEW w \in Writer, Abandon(w) \/ Fail(w) \/ Exhaust(w) PROVE CarriesBoth'
  <2>1. Return(w) /\ Rooted(ref')
    BY <1>2 DEF Abandon, Fail, Exhaust, CarriesBoth, RootInv
  <2>2. QED
    BY <2>1, ReturnCarries
<1>3. ASSUME NEW w \in Writer, Conflict(w) PROVE CarriesBoth'
  BY <1>3 DEF Conflict, Become, TypeOK, Stages, CarriesBoth,
              RootInv, AttemptInv, LogInv, WinnerInv, OwnInv
<1>4. CASE DeleteRef
  <2>1. Rooted(ref')
    BY <1>4 DEF DeleteRef, Rooted
  <2>2. QED
    BY <1>4, <2>1 DEF DeleteRef, CarriesBoth, RootInv, AttemptInv, LogInv, WinnerInv, OwnInv
<1>5. CASE ForeignWrite
  <2>1. PICK r \in Fresh, x \in SUBSET Foreign : ref' = Child(ref, ForeignTree(ref, r, x))
    BY <1>5 DEF ForeignWrite, ForeignCommit
  <2>2. Rooted(ref')
    BY <2>1, ForeignTreeType, ChildRooted DEF TypeOK
  <2>3. QED
    BY <1>5, <2>2 DEF ForeignWrite, ForeignCommit, CarriesBoth, RootInv, AttemptInv, LogInv, WinnerInv, OwnInv
<1>6. CASE UNCHANGED vars
  BY <1>6 DEF vars, CarriesBoth, RootInv, AttemptInv, LogInv, WinnerInv, OwnInv
<1>7. QED
  BY <1>1, <1>2, <1>3, <1>4, <1>5, <1>6, ReadCarries, SubmitCarries, RetryCarries
     DEF Next, WriteStep

\* Throughout its Write, a writer carries both its own work and that of the
\* commit it is about to supersede.
THEOREM CarriesBothHolds == Spec => [](TypeOK /\ CarriesBoth)
<1>1. Init => TypeOK /\ CarriesBoth
  BY InitType, InitCarries
<1>2. TypeOK /\ CarriesBoth /\ [Next]_vars => (TypeOK /\ CarriesBoth)'
  BY StepType, StepCarries
<1>3. QED
  BY <1>1, <1>2, PTL DEF Spec

-----------------------------------------------------------------------------
(* What a commit carries.                                                  *)

\* Only a successful try of w's commits for w.
LEMMA CommitIsTryWrite ==
  ASSUME TypeOK, [Next]_vars, NEW w \in Writer, Commits(w)
  PROVE  TryWrite(w)
<1> USE DEF TypeOK, Commits
<1>1. \A v \in Writer : ReadForUpdate(v) => v # w /\ stage'[w] = stage[w]
  BY DEF ReadForUpdate, Become
<1>2. \A v \in Writer : Return(v) /\ v # w => stage'[w] = stage[w]
  BY DEF Return, Become
<1>3. \A v \in Writer : Abandon(v) \/ Fail(v) \/ Exhaust(v) => FALSE
  BY <1>2 DEF Abandon, Fail, Exhaust
<1>4. \A v \in Writer : TryWrite(v) => v = w
  BY <1>2 DEF TryWrite
<1>5. \A v \in Writer : Conflict(v) \/ Retry(v) => ref' = ref
  BY DEF Conflict, Retry
<1>6. \A v \in Writer : \A next, hook : Submit(v, next, hook) => ref' = ref
  BY DEF Submit
<1>7. \/ \E v \in Writer : ReadForUpdate(v) \/ TryWrite(v)
      \/ DeleteRef \/ ForeignWrite
  BY <1>3, <1>5, <1>6 DEF Next, WriteStep, vars
<1>8. QED
  BY <1>1, <1>4, <1>7 DEF DeleteRef, ForeignWrite, ForeignCommit

\* What reaches the tree is what the writer carried.
LEMMA PersistedKeeps ==
  ASSUME NEW old, NEW c \in Content, KeepsWork(old, c)
  PROVE  KeepsWork(old, Persisted(c))
<1>1. /\ Persisted(c).report = c.report /\ Persisted(c).vex = c.vex
      /\ Persisted(c).revoke = c.revoke /\ Persisted(c).dep = c.dep
  BY DEF Persisted, Content
<1>2. QED
  BY <1>1 DEF KeepsWork

LEMMA TryWriteCommits ==
  ASSUME TypeOK, CarriesBoth, NEW w \in Writer, TryWrite(w)
  PROVE  /\ KeepsWork(mine[w], ref'.tree.content)
         /\ attempt[w] > 0 /\ Exists(ref)
              => KeepsWork(ReadContent(ref.tree), ref'.tree.content)
<1>1. cur[w].content \in Content
  BY DEF TypeOK, State
<1>2. stage[w] = "trying" /\ token[w] = ref /\ ref'.tree.content = Persisted(cur[w].content)
  BY DEF TryWrite, Child, BuildTree
<1>3. KeepsWork(mine[w], cur[w].content)
  BY <1>2 DEF CarriesBoth, OwnInv
<1>4. attempt[w] > 0 /\ Exists(ref) => KeepsWork(ReadContent(ref.tree), cur[w].content)
  BY <1>2 DEF CarriesBoth, WinnerInv
<1>5. QED
  BY <1>1, <1>2, <1>3, <1>4, PersistedKeeps

\* A commit made by a retry keeps the work of the commit it supersedes.
THEOREM WinnerKept == Spec => RaceLoserKeepsWinner
<1>1. TypeOK /\ CarriesBoth /\ [Next]_vars
        => [\A w \in Writer : Commits(w) /\ attempt[w] > 0 /\ Exists(ref)
              => KeepsWork(ReadContent(ref.tree), ref'.tree.content)]_vars
  BY CommitIsTryWrite, TryWriteCommits
<1>2. QED
  BY <1>1, CarriesBothHolds, PTL DEF Spec, RaceLoserKeepsWinner

\* Every commit keeps what its caller handed to Write.
THEOREM IntentKept == Spec => CommitCarriesIntent
<1>1. TypeOK /\ CarriesBoth /\ [Next]_vars
        => [\A w \in Writer : Commits(w) => KeepsWork(mine[w], ref'.tree.content)]_vars
  BY CommitIsTryWrite, TryWriteCommits
<1>2. QED
  BY <1>1, CarriesBothHolds, PTL DEF Spec, CommitCarriesIntent

-----------------------------------------------------------------------------
(* Holds stay stamped.                                                     *)

StampedInv == StoredHoldsAreStamped /\ CarriedHoldInv

LEMMA EmptyHolds == HoldStamped(EmptyDep)
BY DEF HoldStamped, EmptyDep, NeverFetched

LEMMA InitHolds == Init => StampedInv
BY EmptyHolds DEF Init, StampedInv, StoredHoldsAreStamped, CarriedHoldInv,
                  NoCommit, FreshState, EmptyContent

LEMMA ReadContentHolds ==
  ASSUME NEW t \in Tree, HoldStamped(t.content.dep)
  PROVE  HoldStamped(ReadContent(t).dep)
BY EmptyHolds DEF ReadContent, Tree, Content

LEMMA ResolvedHolds ==
  ASSUME StampedInv, NEW c \in Resolved
  PROVE  HoldStamped(c.tree.content.dep)
BY EmptyHolds DEF Resolved, StampedInv, StoredHoldsAreStamped, NoCommit, EmptyContent

LEMMA RetryHolds ==
  ASSUME TypeOK, StampedInv, NEW w \in Writer, NEW c \in Resolved
  PROVE  HoldStamped(RetryState(w, c).content.dep)
<1> DEFINE base == ReadContent(c.tree)
           own == cur[w].content
<1>1. c.tree \in Tree /\ own \in Content /\ cur[w] \in State /\ HoldStamped(own.dep)
  BY ResolvedType DEF TypeOK, Commit, State, StampedInv, CarriedHoldInv
<1>2. base \in Content /\ HoldStamped(base.dep)
  BY <1>1, ResolvedHolds, ReadContentType, ReadContentHolds
<1>3. HoldStamped(Merge(base, own).dep)
  <2>1. base.dep \in DepFetch /\ own.dep \in DepFetch
    BY <1>1, <1>2 DEF Content
  <2>2. Merge(base, own).dep = MergeDepFetch(base.dep, own.dep)
    BY DEF Merge
  <2>3. QED
    BY <1>1, <1>2, <2>1, <2>2, MergeKeepsHoldsStamped
<1>4. Merge(base, own) \in Content
  BY <1>1, <1>2, MergeType, StoreAssumption
<1>5. Remerged(Merge(base, own)).dep = Merge(base, own).dep
  BY <1>4 DEF Remerged, Content
<1>6. HoldStamped(MergeForRetry(base, own, cur[w].remerge).dep)
  BY <1>3, <1>5 DEF MergeForRetry
<1>7. QED
  BY <1>1, <1>6 DEF RetryState, State

LEMMA StepHolds == TypeOK /\ StampedInv /\ [Next]_vars => StampedInv'
<1> SUFFICES ASSUME TypeOK, StampedInv, [Next]_vars PROVE StampedInv'
  OBVIOUS
<1> USE DEF StampedInv, StoredHoldsAreStamped, CarriedHoldInv
<1>0. HoldStamped(FreshState.content.dep) /\ HoldStamped(NoCommit.tree.content.dep)
  BY EmptyHolds DEF FreshState, NoCommit, EmptyContent
<1>1. ASSUME NEW w \in Writer, ReadForUpdate(w) PROVE StampedInv'
  <2>1. \A c \in Resolved : c.tree \in Tree /\ HoldStamped(c.tree.content.dep)
    BY ResolvedType, ResolvedHolds DEF Commit
  <2>2. \A c \in Resolved : HoldStamped(ReadState(c).content.dep)
    BY <1>0, <2>1, ReadContentHolds DEF ReadState
  <2>3. QED
    BY <1>1, <2>2 DEF ReadForUpdate, TypeOK
<1>2. ASSUME NEW w \in Writer, NEW next \in Intents(cur[w].content), NEW hook \in BOOLEAN,
             Submit(w, next, hook)
      PROVE StampedInv'
  <2>1. HoldStamped(next.dep)
    BY <1>2, StoreAssumption DEF Submit, MayWrite
  <2>2. QED
    BY <1>2, <2>1 DEF Submit, TypeOK
<1>3. ASSUME NEW w \in Writer, Return(w), HoldStamped(ref'.tree.content.dep) PROVE StampedInv'
  BY <1>0, <1>3 DEF Return, TypeOK
<1>4. ASSUME NEW w \in Writer, TryWrite(w) PROVE StampedInv'
  <2>1. cur[w].content \in Content
    BY DEF TypeOK, State
  <2>2. ref'.tree.content.dep = cur[w].content.dep
    BY <1>4, <2>1 DEF TryWrite, Child, BuildTree, Persisted, Content
  <2>3. QED
    BY <1>3, <1>4, <2>2 DEF TryWrite
<1>5. ASSUME NEW w \in Writer, Abandon(w) \/ Fail(w) \/ Exhaust(w) PROVE StampedInv'
  BY <1>3, <1>5 DEF Abandon, Fail, Exhaust
<1>6. ASSUME NEW w \in Writer, Retry(w) PROVE StampedInv'
  BY <1>6, RetryHolds DEF Retry, TypeOK
<1>7. ASSUME NEW w \in Writer, Conflict(w) PROVE StampedInv'
  BY <1>7 DEF Conflict
<1>8. CASE DeleteRef
  BY <1>0, <1>8 DEF DeleteRef
<1>9. CASE ForeignWrite
  <2>1. PICK r \in Fresh, x \in SUBSET Foreign : ref' = Child(ref, ForeignTree(ref, r, x))
    BY <1>9 DEF ForeignWrite, ForeignCommit
  <2>2. ref.tree \in Tree /\ ref.tree.content \in Content
    BY DEF TypeOK, Commit, Tree
  <2>3. ref'.tree.content.dep = ref.tree.content.dep
    BY <2>1, <2>2 DEF ForeignTree, Child, Tree, Content
  <2>4. QED
    BY <1>9, <2>3 DEF ForeignWrite, ForeignCommit
<1>10. CASE UNCHANGED vars
  BY <1>10 DEF vars
<1>11. QED
  BY <1>1, <1>2, <1>4, <1>5, <1>6, <1>7, <1>8, <1>9, <1>10 DEF Next, WriteStep

\* A committed hold has its first time, and only a hold has one.
THEOREM HoldsStayStamped == Spec => []StoredHoldsAreStamped
<1>1. Init => TypeOK /\ StampedInv
  BY InitType, InitHolds
<1>2. TypeOK /\ StampedInv /\ [Next]_vars => (TypeOK /\ StampedInv)'
  BY StepType, StepHolds
<1>3. StampedInv => StoredHoldsAreStamped
  BY DEF StampedInv
<1>4. QED
  BY <1>1, <1>2, <1>3, PTL DEF Spec

-----------------------------------------------------------------------------
(* Refinement.                                                             *)

LEMMA StepExtends ==
  ASSUME TypeOK, CarriesBoth, [Next]_vars
  PROVE  [Ledger!Next]_ref
<1>1. ASSUME NEW w \in Writer, TryWrite(w) PROVE Ledger!Extend
  <2>1. cur[w].content \in Content /\ ref \in Commit
    BY DEF TypeOK, State
  <2>2. /\ ref' = Child(ref, BuildTree(cur[w], ref))
        /\ ref.tree.content.vex \subseteq cur[w].content.vex
    BY <1>1 DEF TryWrite, CarriesBoth, LogInv
  <2>3. ref'.tree.content.vex = cur[w].content.vex
    BY <2>1, <2>2 DEF Child, BuildTree, Persisted, Content
  <2>4. ref.tree.extra \subseteq ref'.tree.extra
    <3>1. CASE Exists(ref)
      BY <2>2, <3>1 DEF Child, BuildTree
    <3>2. CASE ~Exists(ref)
      <4>1. ref = NoCommit
        BY <2>1, <3>2 DEF CarriesBoth, RootInv, Rooted, Exists, Commit
      <4>2. QED
        BY <4>1 DEF NoCommit
    <3>3. QED
      BY <3>1, <3>2
  <2>5. QED
    BY <2>2, <2>3, <2>4 DEF Ledger!Extend, Ledger!Succeeds, Child
<1>2. CASE ForeignWrite
  <2>1. PICK r \in Fresh, x \in SUBSET Foreign : ref' = Child(ref, ForeignTree(ref, r, x))
    BY <1>2 DEF ForeignWrite, ForeignCommit
  <2>2. ref.tree \in Tree /\ ref.tree.content \in Content
    BY DEF TypeOK, Commit, Tree
  <2>3. /\ ref'.tree.content.vex = ref.tree.content.vex
        /\ ref'.tree.extra = ref.tree.extra \cup x
    BY <2>1, <2>2 DEF ForeignTree, Child, Tree, Content
  <2>4. QED
    BY <2>1, <2>3 DEF Ledger!Next, Ledger!Extend, Ledger!Succeeds, Child
<1>3. CASE DeleteRef
  BY <1>3 DEF DeleteRef, Ledger!Next, Ledger!Delete
<1>4. ASSUME NEW w \in Writer,
             \/ ReadForUpdate(w) \/ Abandon(w) \/ Conflict(w) \/ Fail(w)
             \/ Retry(w) \/ Exhaust(w)
             \/ \E next, hook : Submit(w, next, hook)
      PROVE ref' = ref
  BY <1>4 DEF ReadForUpdate, Abandon, Conflict, Fail, Retry, Exhaust, Submit
<1>5. QED
  BY <1>1, <1>2, <1>3, <1>4 DEF Next, WriteStep, vars, Ledger!Next

\* The ref implements the ledger.
THEOREM StoreImplementsLedger == Spec => ImplementsLedger
<1>1. Init => Ledger!Init
  BY DEF Init, Ledger!Init
<1>2. TypeOK /\ CarriesBoth /\ [Next]_vars => [Ledger!Next]_ref
  BY StepExtends
<1>3. QED
  BY <1>1, <1>2, CarriesBothHolds, PTL DEF Spec, ImplementsLedger, Ledger!Spec

=============================================================================
