---------------------------- MODULE CallersProofs ----------------------------
(***************************************************************************)
(* The theorems of the store's callers.                                    *)
(*                                                                         *)
(* ScanRuns, for every set of writers, advisories and fetches: the lanes   *)
(* implement StateStore's open callers, and whatever overlaps, a cursor    *)
(* entry has its row, a cut is disclosed, a first hold never moves later,  *)
(* a listed advisory is withheld, and an unraced run keeps cuts new.       *)
(*                                                                         *)
(* SelfCleanup, for any number of overlapping runs, answers and retries:   *)
(* the counter implements the open callers too, no revoke is counted       *)
(* twice, none is lost to a merge or a scan, and no ladder runs on fewer   *)
(* than two of them.                                                       *)
(***************************************************************************)
EXTENDS ScanRuns, SelfCleanup, StateStoreProofs, FiniteSetTheorems

-----------------------------------------------------------------------------
(* The lanes: the inductive invariant.                                     *)

OsvKey(a) == [id |-> a, source |-> Osv]

Covers(r, cursor) == \A a \in cursor : r.rows[OsvKey(a)] # "none"

DisclosesCut(r) == HasCutShort(r.rows) => CutShort \in r.limits

\* A withheld row is withheld for its place on the list.
WithheldListed(rows, listed) == \A k \in Key : rows[k] = "notfetched" => k.id \in listed

\* What holds of every State that is stored or carried.  A merge may take the
\* cursor of the report, so that one is covered as well.
Sound(c) ==
  /\ c.revoke \in 0..MaxRevoke
  /\ c.report = NoReport => c.cursor = {}
  /\ c.report # NoReport =>
       /\ c.sbom = c.report.sbom
       /\ Covers(c.report, c.cursor)
       /\ Covers(c.report, c.report.cursor)
       /\ DisclosesCut(c.report)
       /\ WithheldListed(c.report.rows, c.dep.reassess)

\* No writer of another version is among the lanes, so the stored record is
\* always bound to the stored report.
SoundInv ==
  /\ Sound(ref.tree.content)
  /\ ref.tree.boundTo = ref.tree.content.report
  /\ \A w \in Writer : Sound(cur[w].content)

\* A registry held in both records was first held no later in the new one.
HoldsKept(old, new) ==
  \A g \in Registry :
    old.regs[g].held > 0 /\ new.regs[g].held > 0
      => 0 < new.regs[g].first /\ new.regs[g].first <= old.regs[g].first

\* What a writer carries against the commit it will supersede.
HoldInv ==
  \A w \in Writer :
    /\ stage[w] = "read" => cur[w].content = token[w].tree.content
    /\ stage[w] \in {"trying", "conflict"}
         => HoldsKept(token[w].tree.content.dep, cur[w].content.dep)

\* What a hooked Write carries stays withheld through its merges.
WithholdInv ==
  \A w \in Writer :
    stage[w] \in {"trying", "conflict"} /\ cur[w].remerge /\ Withheld(mine[w])
      => Withheld(cur[w].content)

\* No run drops the list: one that observed no acquisition had dependency code
\* on.
ListKept == \A f \in Fetches : f.observed \/ f.source = "fetch"

\* Until it merges, a Write keeps the cut-short advisories of what was read new.
FirstTryInv ==
  ListKept =>
    \A w \in Writer :
      /\ stage[w] \in {"trying", "conflict"} /\ attempt[w] = 0
      /\ AloneStaysNew(token[w].tree.content)
      => AloneStaysNew(cur[w].content)

ScanInv ==
  /\ TypeOK /\ CarriesBoth /\ StampedInv
  /\ clock \in Nat
  /\ SoundInv /\ HoldInv /\ WithholdInv /\ FirstTryInv

-----------------------------------------------------------------------------
(* The lanes: merges and projections of sound States.                      *)

\* Withholding a row keeps its key answered, a cut a cut, and the rest.
LEMMA WithholdingKeeps ==
  ASSUME NEW r \in Report, NEW L \in SUBSET Advisory
  PROVE  LET w == WithNotFetched(r, L)
         IN /\ w \in Report
            /\ w.sbom = r.sbom /\ w.cursor = r.cursor /\ w.limits = r.limits
            /\ \A k \in Key : /\ w.rows[k] = "none" <=> r.rows[k] = "none"
                              /\ w.rows[k] = "cutshort" <=> r.rows[k] = "cutshort"
<1> DEFINE w == WithNotFetched(r, L)
<1>1. w \in Report
  BY WithNotFetchedType
<1>2. /\ w.sbom = r.sbom /\ w.cursor = r.cursor /\ w.limits = r.limits
      /\ w.rows = WithheldRows(r.rows, L)
  BY DEF WithNotFetched, Report
<1>3. \A k \in Key : /\ w.rows[k] = "none" <=> r.rows[k] = "none"
                     /\ w.rows[k] = "cutshort" <=> r.rows[k] = "cutshort"
  BY <1>2 DEF WithheldRows
<1>4. QED
  BY <1>1, <1>2, <1>3

LEMMA OsvKeyType ==
  ASSUME NEW a \in Advisory
  PROVE  OsvKey(a) \in Key /\ OsvKey(a).source # NoSource
BY ScanAssumption DEF OsvKey, Key

\* So withholding keeps what covers a cursor and what discloses a cut.
LEMMA WithholdingKeepsSound ==
  ASSUME NEW r \in Report, NEW L \in SUBSET Advisory, NEW cursor \in SUBSET Advisory
  PROVE  /\ Covers(r, cursor) => Covers(WithNotFetched(r, L), cursor)
         /\ DisclosesCut(r) => DisclosesCut(WithNotFetched(r, L))
BY WithholdingKeeps, OsvKeyType DEF Covers, DisclosesCut, HasCutShort

LEMMA WithholdingLists ==
  ASSUME NEW r \in Report, NEW L \in SUBSET Advisory, WithheldListed(r.rows, L)
  PROVE  WithheldListed(WithNotFetched(r, L).rows, L)
<1>1. WithNotFetched(r, L).rows = WithheldRows(r.rows, L)
  BY DEF WithNotFetched, Report
<1>2. QED
  BY <1>1 DEF WithheldListed, WithheldRows

\* A sourced row of either side is a row of the merge, and a cut row of the
\* merge is one of either side.
LEMMA MergedRows ==
  ASSUME NEW p \in Report, NEW s \in Report, NEW k \in Key
  PROVE  LET kept == KeptRows(UnionRows(p, s))
         IN /\ k.source # NoSource /\ (p.rows[k] # "none" \/ s.rows[k] # "none")
                 => kept[k] # "none"
            /\ kept[k] = "cutshort" => p.rows[k] = "cutshort" \/ s.rows[k] = "cutshort"
<1> DEFINE u == UnionRows(p, s)
<1>1. u[k] = IF p.rows[k] # "none" THEN p.rows[k] ELSE s.rows[k]
  BY DEF UnionRows
<1>2. KeptRows(u)[k] = IF SupersededMigrated(u, k) THEN "none" ELSE u[k]
  BY DEF KeptRows
<1>3. k.source # NoSource => ~SupersededMigrated(u, k)
  BY DEF SupersededMigrated
<1>4. QED
  BY <1>1, <1>2, <1>3

\* The merge of two covering, disclosing reports covers what either covered
\* and discloses its cuts.
LEMMA MergedReportSound ==
  ASSUME NEW base \in Report, NEW own \in Report, NoReport \notin Report,
         DisclosesCut(base), DisclosesCut(own)
  PROVE  LET m == MergeReports(base, own)
         IN /\ m \in Report /\ m.cursor \in {base.cursor, own.cursor}
            /\ DisclosesCut(m)
            /\ \A cursor \in SUBSET Advisory :
                 Covers(base, cursor) \/ Covers(own, cursor) => Covers(m, cursor)
<1> DEFINE p == Primary(base, own)
           s == Secondary(base, own)
           m == MergeReports(base, own)
<1>1. /\ p \in Report /\ s \in Report
      /\ (p = base /\ s = own) \/ (p = own /\ s = base)
  BY DEF Primary, Secondary
<1>2. m = MergeBothReports(base, own) /\ m \in Report
  BY MergeBothReportsType DEF MergeReports
<1>3. /\ m.cursor = p.cursor /\ m.rows = KeptRows(UnionRows(p, s))
      /\ m.limits = p.limits \cup s.limits
  BY <1>2 DEF MergeBothReports
<1>4. DisclosesCut(m)
  <2>1. SUFFICES ASSUME NEW k \in Key, m.rows[k] = "cutshort"
                 PROVE  CutShort \in m.limits
    BY DEF DisclosesCut, HasCutShort
  <2>2. p.rows[k] = "cutshort" \/ s.rows[k] = "cutshort"
    BY <1>1, <1>3, <2>1, MergedRows
  <2>3. QED
    BY <1>1, <1>3, <2>2 DEF DisclosesCut, HasCutShort
<1>5. ASSUME NEW cursor \in SUBSET Advisory, Covers(base, cursor) \/ Covers(own, cursor),
             NEW a \in cursor
      PROVE  m.rows[OsvKey(a)] # "none"
  <2>1. OsvKey(a) \in Key /\ OsvKey(a).source # NoSource
    BY OsvKeyType
  <2>2. p.rows[OsvKey(a)] # "none" \/ s.rows[OsvKey(a)] # "none"
    BY <1>1, <1>5 DEF Covers
  <2>3. QED
    BY <1>1, <1>3, <2>1, <2>2, MergedRows
<1>6. QED
  BY <1>1, <1>2, <1>3, <1>4, <1>5 DEF Covers

\* A row that either side withheld is on the merged list.
LEMMA MergedWithheldListed ==
  ASSUME NEW p \in Report, NEW s \in Report, NEW L, NEW M,
         WithheldListed(p.rows, L), WithheldListed(s.rows, M)
  PROVE  WithheldListed(KeptRows(UnionRows(p, s)), L \cup M)
BY DEF WithheldListed, KeptRows, UnionRows

LEMMA SoundMerge ==
  ASSUME NEW base \in Content, NEW own \in Content, Sound(base), Sound(own)
  PROVE  Sound(Merge(base, own))
<1> DEFINE r == MergeReports(base.report, own.report)
           m == Merge(base, own)
<1>1. /\ m.report = r /\ m.sbom = (IF r = NoReport THEN EmptySbom ELSE r.sbom)
      /\ m.cursor = MergedCursor(r, base, own) /\ m.revoke = Larger(base.revoke, own.revoke)
      /\ m.dep.reassess = base.dep.reassess \cup own.dep.reassess
  BY DEF Merge, MergeDepFetch
<1>2. /\ base.report \in Report \cup {NoReport} /\ own.report \in Report \cup {NoReport}
      /\ base.cursor \in SUBSET Advisory /\ own.cursor \in SUBSET Advisory
      /\ NoReport \notin Report
  BY StoreAssumption DEF Content
<1>3. m.revoke \in 0..MaxRevoke
  BY <1>1 DEF Larger, Sound
<1>4. CASE base.report = NoReport /\ own.report = NoReport
  <2>1. r = NoReport /\ base.cursor = {} /\ own.cursor = {}
    BY <1>4 DEF MergeReports, Sound
  <2>2. QED
    BY <1>1, <1>3, <2>1 DEF Sound, MergedCursor, LaterCursor
<1>5. CASE base.report = NoReport /\ own.report # NoReport
  <2>1. r = own.report /\ r # NoReport /\ base.cursor = {}
    BY <1>5 DEF MergeReports, Sound
  <2>2. m.cursor = r.cursor \/ m.cursor = own.cursor
    BY <1>1, <2>1 DEF MergedCursor, LaterCursor
  <2>3. QED
    BY <1>1, <1>3, <2>1, <2>2 DEF Sound, WithheldListed
<1>6. CASE base.report # NoReport /\ own.report = NoReport
  <2>1. r = base.report /\ r # NoReport /\ own.cursor = {}
    BY <1>6 DEF MergeReports, Sound
  <2>2. m.cursor = r.cursor \/ m.cursor = base.cursor
    BY <1>1, <2>1 DEF MergedCursor, LaterCursor
  <2>3. QED
    BY <1>1, <1>3, <2>1, <2>2 DEF Sound, WithheldListed
<1>7. CASE base.report # NoReport /\ own.report # NoReport
  <2>1. base.report \in Report /\ own.report \in Report
    BY <1>2, <1>7
  <2>2. DisclosesCut(base.report) /\ DisclosesCut(own.report)
    BY <1>7 DEF Sound
  <2>3. /\ r \in Report /\ r.cursor \in {base.report.cursor, own.report.cursor}
        /\ DisclosesCut(r)
        /\ \A cursor \in SUBSET Advisory :
             Covers(base.report, cursor) \/ Covers(own.report, cursor) => Covers(r, cursor)
    BY <1>2, <2>1, <2>2, MergedReportSound
  <2>4. Covers(r, base.cursor) /\ Covers(r, own.cursor)
    BY <1>2, <1>7, <2>3 DEF Sound
  <2>5. Covers(r, r.cursor)
    <3>1. base.report.cursor \in SUBSET Advisory /\ own.report.cursor \in SUBSET Advisory
      BY <2>1 DEF Report
    <3>2. QED
      BY <1>7, <2>3, <3>1 DEF Sound
  <2>6. m.cursor \in {r.cursor, base.cursor, own.cursor}
    BY <1>1 DEF MergedCursor, LaterCursor
  <2>7. WithheldListed(r.rows, m.dep.reassess)
    <3> DEFINE p == Primary(base.report, own.report)
               q == Secondary(base.report, own.report)
               L == base.dep.reassess
               M == own.dep.reassess
    <3>1. r.rows = KeptRows(UnionRows(p, q))
      BY <1>7 DEF MergeReports, MergeBothReports
    <3>2. WithheldListed(base.report.rows, L) /\ WithheldListed(own.report.rows, M)
      BY <1>7 DEF Sound
    <3>3. \/ p = base.report /\ q = own.report
          \/ p = own.report /\ q = base.report
      BY DEF Primary, Secondary
    <3>4. WithheldListed(KeptRows(UnionRows(p, q)), L \cup M)
      <4> HIDE DEF L, M, p, q
      <4>1. CASE p = base.report /\ q = own.report
        BY <2>1, <3>2, <4>1, MergedWithheldListed
      <4>2. CASE p = own.report /\ q = base.report
        <5>1. WithheldListed(KeptRows(UnionRows(p, q)), M \cup L)
          BY <2>1, <3>2, <4>2, MergedWithheldListed
        <5>2. M \cup L = L \cup M
          OBVIOUS
        <5>3. QED
          BY <5>1, <5>2
      <4>3. QED
        BY <3>3, <4>1, <4>2
    <3>5. QED
      BY <1>1, <3>1, <3>4
  <2>8. QED
    BY <1>1, <1>2, <1>3, <2>3, <2>4, <2>5, <2>6, <2>7 DEF Sound
<1>8. QED
  BY <1>4, <1>5, <1>6, <1>7

LEMMA RemergedFields ==
  ASSUME NEW c \in Content, c.report # NoReport
  PROVE  /\ c.report \in Report /\ c.dep.reassess \in SUBSET Advisory
         /\ Remerged(c).report = WithNotFetched(c.report, c.dep.reassess)
         /\ Remerged(c).sbom = c.sbom /\ Remerged(c).cursor = c.cursor
         /\ Remerged(c).revoke = c.revoke /\ Remerged(c).dep = c.dep
BY DEF Remerged, Content, DepFetch

LEMMA SoundRemerged ==
  ASSUME NEW c \in Content, Sound(c)
  PROVE  Sound(Remerged(c))
<1>1. CASE c.report = NoReport
  BY <1>1 DEF Remerged
<1>2. CASE c.report # NoReport
  <2> DEFINE w == WithNotFetched(c.report, c.dep.reassess)
  <2>1. /\ c.report \in Report /\ c.dep.reassess \in SUBSET Advisory
        /\ Remerged(c).report = w
        /\ Remerged(c).sbom = c.sbom /\ Remerged(c).cursor = c.cursor
        /\ Remerged(c).revoke = c.revoke /\ Remerged(c).dep = c.dep
    BY <1>2, RemergedFields
  <2>2. w \in Report /\ w # NoReport /\ w.sbom = c.report.sbom /\ w.cursor = c.report.cursor
    BY <2>1, WithholdingKeeps, StoreAssumption
  <2>3. c.cursor \in SUBSET Advisory /\ c.report.cursor \in SUBSET Advisory
    BY <2>1 DEF Content, Report
  <2>4. Covers(w, c.cursor) /\ Covers(w, c.report.cursor) /\ DisclosesCut(w)
    BY <1>2, <2>1, <2>3, WithholdingKeepsSound DEF Sound
  <2>5. WithheldListed(w.rows, c.dep.reassess)
    BY <1>2, <2>1, WithholdingLists DEF Sound
  <2>6. QED
    BY <1>2, <2>1, <2>2, <2>4, <2>5 DEF Sound
<1>3. QED
  BY <1>1, <1>2

LEMMA SoundPersisted ==
  ASSUME NEW c \in Content, Sound(c)
  PROVE  Sound(Persisted(c))
BY DEF Persisted, Content, Sound

LEMMA SoundEmpty == Sound(EmptyContent)
BY StoreAssumption DEF Sound, EmptyContent

\* A hooked merge withholds what its merged record lists.
LEMMA RemergedWithheld ==
  ASSUME NEW c \in Content
  PROVE  Withheld(Remerged(c))
<1>1. CASE c.report = NoReport
  BY <1>1 DEF Remerged, Withheld
<1>2. CASE c.report # NoReport
  <2> DEFINE L == c.dep.reassess
             w == WithNotFetched(c.report, L)
  <2>1. c.report \in Report /\ Remerged(c).report = w /\ Remerged(c).dep = c.dep
    BY <1>2, RemergedFields
  <2>2. /\ w.rows = WithheldRows(c.report.rows, L)
        /\ w.notes = {k.id : k \in {j \in Key : w.rows[j] = "notfetched"}}
    BY <2>1 DEF WithNotFetched, Report
  <2>3. \A k \in Key : k.id \in L => w.rows[k] # "refuted"
    BY <2>2 DEF WithheldRows
  <2>4. QED
    BY <2>1, <2>2, <2>3 DEF Withheld
<1>3. QED
  BY <1>1, <1>2

-----------------------------------------------------------------------------
(* The lanes: what the lanes hand over.                                    *)

\* A run that counts a hold keeps the time of the first one.
LEMMA RecordKeepsHolds ==
  ASSUME NEW d \in DepFetch, HoldStamped(d), NEW f, NEW run, NEW now, NEW js
  PROVE  HoldsKept(d, Recorded(js, f, d, run, now))
<1>1. ASSUME NEW g \in Registry, d.regs[g].held > 0
      PROVE  0 < d.regs[g].first /\ d.regs[g].first <= d.regs[g].first
  BY <1>1 DEF DepFetch, RegistryFetch, HoldStamped
<1>2. HoldsKept(d, d)
  BY <1>1 DEF HoldsKept
<1>3. ASSUME NEW g \in Registry, NEW t, d.regs[g].held > 0,
             RecordRegistry(d.regs[g], t, run, now).held > 0
      PROVE  RecordRegistry(d.regs[g], t, run, now).first = d.regs[g].first
  <2> DEFINE e == d.regs[g]
             marked == [e EXCEPT !.served = @ \/ "network" \in t]
  <2>1. e \in RegistryFetch /\ e.first # 0
    BY <1>3 DEF DepFetch, RegistryFetch, HoldStamped
  <2>2. marked.first = e.first /\ CountHold(marked, now).first = e.first
    BY <2>1 DEF CountHold, RegistryFetch
  <2>3. [marked EXCEPT !.held = 0, !.first = 0].held = 0
    BY <2>1 DEF RegistryFetch
  <2>4. QED
    BY <1>3, <2>2, <2>3 DEF RecordRegistry
<1>4. HoldsKept(d, Record(f, d, run, now))
  <2>1. CASE ~f.observed
    <3>1. Record(f, d, run, now).regs = d.regs
      BY <2>1 DEF Record, DepFetch
    <3>2. QED
      BY <1>2, <3>1 DEF HoldsKept
  <2>2. CASE f.observed
    <3>1. Record(f, d, run, now).regs = RecordRegistries(f, d, run, now)
      BY <2>2 DEF Record
    <3>2. QED
      BY <1>1, <1>3, <3>1 DEF HoldsKept, RecordRegistries
  <2>3. QED
    BY <2>1, <2>2
<1>5. QED
  BY <1>2, <1>4 DEF Recorded

\* What a caller hands to Write against the State it read.
HandsOver(c, next) ==
  /\ Sound(next)
  /\ HoldsKept(c.dep, next.dep)
  /\ next.report # c.report => Withheld(next)
  /\ ListKept /\ AloneStaysNew(c) => AloneStaysNew(next)

\* The State a scan builds from a report that covers its cursor and discloses
\* its cuts.
LEMMA ScanHandsOver ==
  ASSUME NEW c \in Content, Sound(c), NEW rep \in Report, NEW dep \in DepFetch,
         Covers(rep, rep.cursor), DisclosesCut(rep), HoldsKept(c.dep, dep),
         WithheldListed(rep.rows, dep.reassess),
         ListKept /\ AloneStaysNew(c) => StaysNew(rep.rows, rep.cursor, dep.reassess),
         MayWrite(c, ScanContent(c, rep, dep))
  PROVE  /\ ScanContent(c, rep, dep) \in Intents(c)
         /\ HandsOver(c, ScanContent(c, rep, dep))
<1> DEFINE next == ScanContent(c, rep, dep)
           w == WithNotFetched(rep, dep.reassess)
<1>1. dep.reassess \in SUBSET Advisory /\ rep.cursor \in SUBSET Advisory
  BY DEF DepFetch, Report
<1>2. /\ w \in Report /\ w # NoReport
      /\ w.sbom = rep.sbom /\ w.cursor = rep.cursor
  BY <1>1, WithholdingKeeps, StoreAssumption
<1>3. Covers(w, rep.cursor) /\ DisclosesCut(w)
  BY <1>1, WithholdingKeepsSound
<1>4. /\ next.report = w /\ next.sbom = rep.sbom /\ next.cursor = rep.cursor
      /\ next.dep = dep /\ next.vex = c.vex /\ next.revoke = c.revoke
  BY DEF ScanContent, Content
<1>5. next \in Content
  BY <1>2 DEF ScanContent, Content, Report
<1>6. next \in Intents(c)
  BY <1>2, <1>4, <1>5, IsIntent DEF Sound
<1>7. Sound(next)
  <2>1. WithheldListed(w.rows, dep.reassess)
    BY <1>1, WithholdingLists
  <2>2. QED
    BY <1>2, <1>3, <1>4, <2>1 DEF Sound
<1>8. Withheld(next)
  <2>1. w.rows = WithheldRows(rep.rows, dep.reassess)
        /\ w.notes = {k.id : k \in {j \in Key : w.rows[j] = "notfetched"}}
    BY DEF WithNotFetched, Report
  <2>2. QED
    BY <1>4, <2>1 DEF Withheld, WithheldRows
<1>9. ASSUME ListKept, AloneStaysNew(c) PROVE AloneStaysNew(next)
  <2>1. StaysNew(rep.rows, rep.cursor, dep.reassess)
    BY <1>9
  <2>2. \A k \in Key : /\ w.rows[k] = "none" <=> rep.rows[k] = "none"
                       /\ w.rows[k] = "cutshort" <=> rep.rows[k] = "cutshort"
    BY <1>1, WithholdingKeeps
  <2>3. StaysNew(w.rows, rep.cursor, dep.reassess)
    BY <2>1, <2>2 DEF StaysNew, Alone
  <2>4. QED
    BY <1>2, <1>4, <2>3 DEF AloneStaysNew, RowsOf
<1>10. QED
  BY <1>4, <1>6, <1>7, <1>8, <1>9 DEF HandsOver

\* A baseline's report has the empty cursor, and the note with the cut rows.
LEMMA BaselineReportSound ==
  ASSUME NEW keys \in Admitted, NEW ends \in [keys -> Ends], NEW t \in Nat,
         NEW inventory \in Sbom
  PROVE  LET rep == BaselineReport(ends, t, inventory)
         IN /\ rep \in Report /\ Covers(rep, rep.cursor) /\ DisclosesCut(rep)
            /\ \A L : WithheldListed(rep.rows, L) /\ StaysNew(rep.rows, rep.cursor, L)
<1> DEFINE rep == BaselineReport(ends, t, inventory)
           rows == [k \in Key |-> IF k \in DOMAIN ends THEN RowOf(ends[k]) ELSE "none"]
<1>1. rows \in [Key -> Row]
  BY DEF RowOf, Ends, Row, Undetermined
<1>2. /\ rep.rows = rows /\ rep.cursor = {}
      /\ rep.limits = (IF HasCutShort(rows) THEN {CutShort} ELSE {})
  BY DEF BaselineReport
<1>3. rep \in Report
  BY <1>1, ScanAssumption, DataAssumption DEF BaselineReport, Report
<1>4. \A k \in Key : rows[k] # "notfetched"
  BY DEF RowOf, Ends
<1>5. QED
  BY <1>2, <1>3, <1>4 DEF Covers, DisclosesCut, WithheldListed, StaysNew

\* An earnest run's report covers the cursor it writes: the held one by the
\* rows it carries, OSV's by those and the rows of what was new.
LEMMA EarnestReportSound ==
  ASSUME NEW c \in Content, Sound(c), c.report # NoReport, NEW js \in BOOLEAN,
         NEW current \in SUBSET Advisory,
         NEW ends \in [Assess(c, js, current) -> Ends], NEW t \in Nat,
         NEW cursor \in {c.cursor, current}
  PROVE  LET rep == EarnestReport(c, ends, t, cursor)
         IN rep \in Report /\ Covers(rep, rep.cursor) /\ DisclosesCut(rep)
<1> DEFINE rows == EarnestRows(c.report.rows, ends)
           rep == EarnestReport(c, ends, t, cursor)
<1>1. c.report \in Report /\ cursor \in SUBSET Advisory /\ c.cursor \in SUBSET Advisory
  BY DEF Content
<1>2. rows \in [Key -> Row]
  <2>1. c.report.rows \in [Key -> Row]
    BY <1>1 DEF Report
  <2>2. \A k \in DOMAIN ends : RowOf(ends[k]) \in Row
    BY DEF RowOf, Ends, Row, Undetermined
  <2>3. "none" \in Row
    BY DEF Row
  <2>4. QED
    BY <2>1, <2>2, <2>3 DEF EarnestRows
<1>3. rep \in Report
  BY <1>1, <1>2, ScanAssumption, DataAssumption DEF EarnestReport, Recounted, Report
<1>4. /\ rep.rows = rows /\ rep.cursor = cursor
      /\ rep.limits = Recounted(c.report.limits, rows)
  BY <1>1 DEF EarnestReport, Report
<1>5. DisclosesCut(rep)
  BY <1>4 DEF DisclosesCut, Recounted
<1>6. ASSUME NEW a \in cursor PROVE rows[OsvKey(a)] # "none"
  <2>1. OsvKey(a) \in Key /\ OsvKey(a).source # NoSource
    BY <1>1, OsvKeyType
  <2>2. CASE OsvKey(a) \in DOMAIN ends
    BY <2>1, <2>2 DEF EarnestRows, RowOf, Ends
  <2>3. CASE OsvKey(a) \notin DOMAIN ends
    <3>1. OsvKey(a) \notin [id: NewIds(c, current), source: {Osv}]
      BY <2>3 DEF Assess
    <3>2. a \in c.cursor
      BY <1>1, <3>1 DEF OsvKey, NewIds
    <3>3. c.report.rows[OsvKey(a)] # "none"
      BY <3>2 DEF Sound, Covers
    <3>4. QED
      BY <2>1, <2>3, <3>3 DEF EarnestRows
  <2>4. QED
    BY <2>2, <2>3
<1>7. QED
  BY <1>3, <1>4, <1>5, <1>6 DEF Covers

\* A run leaves an advisory that it did not assess to completion on the list.
LEMMA RecordKeepsListed ==
  ASSUME ListKept, NEW f \in Fetches, NEW d \in DepFetch, NEW a \in d.reassess,
         NEW run, a \notin run.assessed, NEW now, NEW js
  PROVE  a \in Recorded(js, f, d, run, now).reassess
<1>1. CASE f.observed
  <2>1. a \in RecordReassess(f, d.reassess, run)
    BY DEF RecordReassess
  <2>2. QED
    BY <1>1, <2>1 DEF Record, Recorded
<1>2. CASE ~f.observed
  <2>1. f.source # "off"
    BY <1>2 DEF ListKept
  <2>2. Record(f, d, run, now).reassess = d.reassess
    BY <1>2, <2>1 DEF Record, DepFetch
  <2>3. QED
    BY <2>2 DEF Recorded
<1>3. QED
  BY <1>1, <1>2

\* An earnest JS run assesses every listed row, under whichever source.
LEMMA ListedAssessed ==
  ASSUME NEW c, NEW current, NEW k \in Key, c.report.rows[k] # "none",
         c.report.rows[k] = "notfetched" \/ k.id \in c.dep.reassess
  PROVE  k \in Assess(c, TRUE, current)
<1> DEFINE new == NewIds(c, current)
<1>1. CASE k.source = Osv /\ k.id \in new
  <2>1. k = [id |-> k.id, source |-> Osv]
    BY <1>1 DEF Key
  <2>2. k \in [id: new, source: {Osv}]
    BY <1>1, <2>1
  <2>3. QED
    BY <2>2 DEF Assess
<1>2. CASE ~(k.source = Osv /\ k.id \in new)
  BY <1>2 DEF Assess, RetryKeys
<1>3. QED
  BY <1>1, <1>2

\* A withheld row that an earnest run carries is one a JS run would have
\* assessed again, so the run's record is the one it read.
LEMMA EarnestListed ==
  ASSUME NEW c \in Content, Sound(c), c.report # NoReport, NEW js \in BOOLEAN,
         NEW current \in SUBSET Advisory,
         NEW ends \in [Assess(c, js, current) -> Ends], NEW f, NEW run, NEW t
  PROVE  WithheldListed(EarnestRows(c.report.rows, ends),
                        Recorded(js, f, c.dep, run, t).reassess)
<1> DEFINE rows == EarnestRows(c.report.rows, ends)
<1> SUFFICES ASSUME NEW k \in Key, rows[k] = "notfetched"
             PROVE  k.id \in Recorded(js, f, c.dep, run, t).reassess
  BY DEF WithheldListed
<1>1. k \notin DOMAIN ends /\ c.report.rows[k] = "notfetched"
  BY DEF EarnestRows, RowOf, Ends
<1>2. k.id \in c.dep.reassess
  BY <1>1 DEF Sound, WithheldListed
<1>3. ~js
  BY <1>1, ListedAssessed
<1>4. QED
  BY <1>2, <1>3 DEF Recorded

\* A cut-short advisory that an earnest run leaves under one source stays new:
\* one that this run cut holds the cursor, and stays listed if it was assessed
\* for that; one that it carries was outside the cursor, and OSV does not
\* report it, or was listed, and then the run was not a JS run.
LEMMA EarnestStaysNew ==
  ASSUME NEW c \in Content, Sound(c), c.report # NoReport, ListKept, AloneStaysNew(c),
         NEW js \in BOOLEAN, NEW graph \in BOOLEAN, NEW f \in Fetches,
         NEW current \in SUBSET Advisory,
         NEW ends \in [Assess(c, js, current) -> Ends], NEW t,
         NEW cursor, cursor = IF HoldsCursor(c, ends, js, f, graph) THEN c.cursor ELSE current,
         NEW run, run.assessed = IdsEnding(ends, Completed)
  PROVE  StaysNew(EarnestRows(c.report.rows, ends), cursor,
                  Recorded(js, f, c.dep, run, t).reassess)
<1> DEFINE old == c.report.rows
           rows == EarnestRows(old, ends)
           listed == Recorded(js, f, c.dep, run, t).reassess
<1> SUFFICES ASSUME NEW k \in Key, rows[k] = "cutshort", Alone(rows, k), k.id \in cursor
             PROVE  k.id \in listed
  BY DEF StaysNew
<1>1. c.dep \in DepFetch /\ c.cursor \in SUBSET Advisory /\ k.id \in Advisory
  BY DEF Content, Key
<1>2. DOMAIN ends \subseteq Key /\ \A j \in DOMAIN ends : rows[j] # "none"
  <2>1. DOMAIN ends \subseteq Key
    BY <1>1, ScanAssumption DEF Assess, NewIds, RetryKeys, Key
  <2>2. QED
    BY <2>1 DEF EarnestRows, RowOf, Ends
<1>3. CASE k \in DOMAIN ends
  <2>1. ends[k] = "cutshort"
    BY <1>3 DEF EarnestRows, RowOf, Ends
  <2>2. cursor = c.cursor
    BY <1>3, <2>1 DEF HoldsCursor, IdsEnding
  <2>3. k.id \notin NewIds(c, current)
    BY <2>2 DEF NewIds
  <2>4. k.id \in c.dep.reassess
    <3>1. k \in RetryKeys(c, js, NewIds(c, current))
      BY <1>3, <2>3 DEF Assess
    <3>2. QED
      BY <3>1 DEF RetryKeys, Sound, WithheldListed
  <2>5. k.id \notin run.assessed
    <3> SUFFICES ASSUME NEW j \in DOMAIN ends, ends[j] \in Completed, j.id = k.id
                 PROVE  FALSE
      BY DEF IdsEnding
    <3>1. j # k
      BY <2>1 DEF Completed
    <3>2. QED
      BY <1>2, <3>1 DEF Alone
  <2>6. QED
    BY <1>1, <2>4, <2>5, RecordKeepsListed
<1>4. CASE k \notin DOMAIN ends
  <2>1. old[k] = "cutshort"
    BY <1>4 DEF EarnestRows
  <2>2. \A j \in DOMAIN ends : j.id # k.id
    BY <1>2, <1>4 DEF Alone
  <2>3. Alone(old, k)
    BY <2>2 DEF Alone, EarnestRows
  <2>4. k.id \notin c.cursor \/ k.id \in c.dep.reassess
    BY <2>1, <2>3 DEF AloneStaysNew, StaysNew, RowsOf
  <2>5. k.id \in c.cursor
    <3>1. CASE cursor = c.cursor
      BY <3>1
    <3>2. CASE cursor = current /\ k.id \notin c.cursor
      <4>1. OsvKey(k.id) \in [id: NewIds(c, current), source: {Osv}]
        BY <3>2 DEF NewIds, OsvKey
      <4>2. OsvKey(k.id) \in DOMAIN ends /\ OsvKey(k.id).id = k.id
        BY <4>1 DEF Assess, OsvKey
      <4>3. QED
        BY <2>2, <4>2
    <3>3. QED
      BY <3>1, <3>2
  <2>6. ~js
    BY <1>4, <2>1, <2>4, <2>5, ListedAssessed
  <2>7. QED
    BY <2>4, <2>5, <2>6 DEF Recorded
<1>5. QED
  BY <1>3, <1>4

-----------------------------------------------------------------------------
(* The lanes: every step is one of the store's.                            *)

Hands(w) ==
  \E next \in Intents(cur[w].content), hook \in BOOLEAN :
    Submit(w, next, hook) /\ HandsOver(cur[w].content, next)

LEMMA CarriedFacts ==
  ASSUME ScanInv, NEW w \in Writer
  PROVE  /\ cur[w] \in State /\ cur[w].content \in Content /\ cur[w].remerge \in BOOLEAN
         /\ Sound(cur[w].content) /\ HoldStamped(cur[w].content.dep)
BY DEF ScanInv, TypeOK, State, SoundInv, StampedInv, CarriedHoldInv

\* The record a caller may write is a record.
LEMMA WrittenRecord ==
  ASSUME NEW c \in Content, NEW next, MayWrite(c, next)
  PROVE  next.dep \in DepFetch
BY StoreAssumption DEF MayWrite, Content

LEMMA BaselineHands ==
  ASSUME ScanInv, NEW w \in Writer, Baseline(w)
  PROVE  Hands(w)
<1> DEFINE c == cur[w].content
<1>1. PICK keys \in Admitted, missed \in SUBSET Advisory, js \in BOOLEAN, f \in Fetches,
           inventory \in Sbom :
        \E ends \in [keys -> Ends] :
          Submit(w, BaselineContent(c, ends, missed, js, f, Now, inventory), TRUE)
  BY DEF Baseline
<1>2. PICK ends \in [keys -> Ends] :
        Submit(w, BaselineContent(c, ends, missed, js, f, Now, inventory), TRUE)
  BY <1>1
<1> DEFINE rep == BaselineReport(ends, Now, inventory)
           run == Run(TRUE, FALSE, ends, missed)
           dep == Recorded(js, f, c.dep, run, Now)
           next == ScanContent(c, rep, dep)
<1>3. BaselineContent(c, ends, missed, js, f, Now, inventory) = next
  BY DEF BaselineContent
<1>4. c \in Content /\ Sound(c) /\ HoldStamped(c.dep) /\ c.dep \in DepFetch
  BY CarriedFacts DEF Content
<1>5. Now \in Nat
  BY DEF ScanInv, Now
<1>6. /\ rep \in Report /\ Covers(rep, rep.cursor) /\ DisclosesCut(rep)
      /\ WithheldListed(rep.rows, dep.reassess)
      /\ StaysNew(rep.rows, rep.cursor, dep.reassess)
  <2> HIDE DEF dep
  <2>1. QED
    BY <1>5, BaselineReportSound
<1>7. MayWrite(c, next)
  BY <1>2, <1>3 DEF Submit
<1>8. dep \in DepFetch
  <2>1. next.dep = dep
    BY <1>4 DEF ScanContent, Content
  <2>2. QED
    BY <1>4, <1>7, <2>1, WrittenRecord
<1>9. HoldsKept(c.dep, dep)
  BY <1>4, RecordKeepsHolds
<1>10. next \in Intents(c) /\ HandsOver(c, next)
  BY <1>4, <1>6, <1>7, <1>8, <1>9, ScanHandsOver
<1>11. QED
  BY <1>2, <1>3, <1>10 DEF Hands

LEMMA EarnestHands ==
  ASSUME ScanInv, NEW w \in Writer, Earnest(w)
  PROVE  Hands(w)
<1> DEFINE c == cur[w].content
<1>1. c.report # NoReport
  BY DEF Earnest
<1>2. PICK current \in SUBSET Advisory, missed \in SUBSET Advisory, js \in BOOLEAN,
           f \in Fetches, graph \in BOOLEAN :
        \E ends \in [Assess(c, js, current) -> Ends] :
          Submit(w, EarnestContent(c, current, ends, missed, js, f, graph, Now), TRUE)
  BY DEF Earnest
<1>3. PICK ends \in [Assess(c, js, current) -> Ends] :
        Submit(w, EarnestContent(c, current, ends, missed, js, f, graph, Now), TRUE)
  BY <1>2
<1> DEFINE cursor == IF HoldsCursor(c, ends, js, f, graph) THEN c.cursor ELSE current
           rep == EarnestReport(c, ends, Now, cursor)
           run == Run(FALSE, cursor = c.cursor, ends, missed)
           dep == Recorded(js, f, c.dep, run, Now)
           next == ScanContent(c, rep, dep)
<1>4. EarnestContent(c, current, ends, missed, js, f, graph, Now) = next
  BY DEF EarnestContent
<1>5. c \in Content /\ Sound(c) /\ HoldStamped(c.dep) /\ c.dep \in DepFetch
  BY CarriedFacts DEF Content
<1>6. Now \in Nat /\ cursor \in {c.cursor, current}
  BY DEF ScanInv, Now
<1>7. rep \in Report /\ Covers(rep, rep.cursor) /\ DisclosesCut(rep)
  <2> HIDE DEF cursor
  <2>1. QED
    BY <1>1, <1>5, <1>6, EarnestReportSound
<1>7a. rep.rows = EarnestRows(c.report.rows, ends) /\ rep.cursor = cursor
  BY <1>1, <1>5 DEF EarnestReport, Content, Report
<1>7b. WithheldListed(rep.rows, dep.reassess)
  <2> HIDE DEF rep, run
  <2>1. QED
    BY <1>1, <1>5, <1>7a, EarnestListed
<1>7c. ListKept /\ AloneStaysNew(c) => StaysNew(rep.rows, rep.cursor, dep.reassess)
  <2>1. cursor = IF HoldsCursor(c, ends, js, f, graph) THEN c.cursor ELSE current
    OBVIOUS
  <2> SUFFICES ASSUME ListKept, AloneStaysNew(c)
               PROVE  StaysNew(rep.rows, rep.cursor, dep.reassess)
    OBVIOUS
  <2>2. run.assessed = IdsEnding(ends, Completed)
    BY DEF Run
  <2> HIDE DEF rep, cursor, c, run
  <2>3. StaysNew(EarnestRows(c.report.rows, ends), cursor, dep.reassess)
    BY <1>1, <1>5, <2>1, <2>2, EarnestStaysNew
  <2>4. QED
    BY <1>7a, <2>3
<1>8. MayWrite(c, next)
  BY <1>3, <1>4 DEF Submit
<1>9. dep \in DepFetch
  <2>1. next.dep = dep
    BY <1>5 DEF ScanContent, Content
  <2>2. QED
    BY <1>5, <1>8, <2>1, WrittenRecord
<1>10. HoldsKept(c.dep, dep)
  BY <1>5, RecordKeepsHolds
<1>11. next \in Intents(c) /\ HandsOver(c, next)
  <2> HIDE DEF rep, dep
  <2>1. QED
    BY <1>5, <1>7, <1>7b, <1>7c, <1>8, <1>9, <1>10, ScanHandsOver
<1>12. QED
  BY <1>3, <1>4, <1>11 DEF Hands

\* A record holds no later than itself.
LEMMA HoldsKeptReflexive ==
  ASSUME NEW d \in DepFetch, HoldStamped(d)
  PROVE  HoldsKept(d, d)
<1>1. ASSUME NEW g \in Registry, d.regs[g].held > 0
      PROVE  0 < d.regs[g].first /\ d.regs[g].first <= d.regs[g].first
  BY <1>1 DEF DepFetch, RegistryFetch, HoldStamped
<1>2. QED
  BY <1>1 DEF HoldsKept

\* A heartbeat's cursor holds nothing new, so the rows that cover the cursor
\* it replaces cover it.
LEMMA HeartbeatHands ==
  ASSUME ScanInv, NEW w \in Writer, Heartbeat(w)
  PROVE  Hands(w)
<1> DEFINE c == cur[w].content
<1>1. PICK current \in SUBSET Advisory, js \in BOOLEAN :
        Assess(c, js, current) = {} /\ Submit(w, [c EXCEPT !.cursor = current], TRUE)
  BY DEF Heartbeat
<1> DEFINE next == [c EXCEPT !.cursor = current]
<1>2. c.report # NoReport
  BY DEF Heartbeat
<1>3. c \in Content /\ Sound(c) /\ HoldStamped(c.dep) /\ c.dep \in DepFetch
  BY CarriedFacts DEF Content
<1>4. current \subseteq c.cursor
  <2>1. \A a \in NewIds(c, current) : OsvKey(a) \in Assess(c, js, current)
    BY DEF Assess, OsvKey
  <2>2. QED
    BY <1>1, <2>1 DEF NewIds
<1>5. /\ next \in Content /\ next.report = c.report /\ next.sbom = c.sbom
      /\ next.cursor = current /\ next.vex = c.vex /\ next.revoke = c.revoke
      /\ next.dep = c.dep
  BY <1>3 DEF Content
<1>6. Sound(next)
  BY <1>2, <1>3, <1>4, <1>5 DEF Sound, Covers
<1>7. next \in Intents(c)
  <2>1. MayWrite(c, next)
    BY <1>1 DEF Submit
  <2>2. QED
    BY <1>2, <1>3, <1>5, <2>1, IsIntent DEF Sound
<1>8. HandsOver(c, next)
  <2>1. AloneStaysNew(c) => AloneStaysNew(next)
    BY <1>4, <1>5 DEF AloneStaysNew, StaysNew
  <2>2. QED
    BY <1>3, <1>5, <1>6, <2>1, HoldsKeptReflexive DEF HandsOver
<1>9. QED
  BY <1>1, <1>7, <1>8 DEF Hands

LEMMA CountRevokeHands ==
  ASSUME ScanInv, NEW w \in Writer, CountRevoke(w)
  PROVE  Hands(w)
<1> DEFINE c == cur[w].content
<1>1. PICK n \in {0, c.revoke + 1} :
        n <= MaxRevoke /\ Submit(w, [c EXCEPT !.revoke = n], FALSE)
  BY DEF CountRevoke
<1> DEFINE next == [c EXCEPT !.revoke = n]
<1>2. c \in Content /\ Sound(c) /\ HoldStamped(c.dep) /\ c.dep \in DepFetch
  BY CarriedFacts DEF Content
<1>3. n \in 0..MaxRevoke
  BY <1>1, <1>2, StoreAssumption DEF Content
<1>4. /\ next \in Content /\ next.report = c.report /\ next.sbom = c.sbom
      /\ next.cursor = c.cursor /\ next.vex = c.vex /\ next.revoke = n
      /\ next.dep = c.dep
  BY <1>2, <1>3 DEF Content
<1>5. Sound(next)
  BY <1>2, <1>3, <1>4 DEF Sound
<1>6. next \in Intents(c)
  <2>1. MayWrite(c, next)
    BY <1>1 DEF Submit
  <2>2. QED
    BY <1>2, <1>3, <1>4, <2>1, IsIntent DEF Sound
<1>7. HandsOver(c, next)
  BY <1>2, <1>4, <1>5, HoldsKeptReflexive DEF HandsOver, AloneStaysNew
<1>8. QED
  BY <1>1, <1>6, <1>7 DEF Hands

\* What a step of the lanes is to the store.
StoreStep ==
  \/ \E w \in Writer : Hands(w) \/ ReadForUpdate(w) \/ Abandon(w) \/ WriteStep(w)
  \/ DeleteRef
  \/ UNCHANGED vars

LEMMA ScanStep ==
  ASSUME ScanInv, [ScanNext]_scanVars
  PROVE  StoreStep /\ clock' \in Nat
<1>1. StoreStep
  BY BaselineHands, EarnestHands, HeartbeatHands, CountRevokeHands
     DEF ScanNext, scanVars, StoreStep
<1>2. clock \in Nat
  BY DEF ScanInv
<1>3. clock' \in {clock, Now}
  <2>1. \A w \in Writer : Baseline(w) => clock' = Now
    BY DEF Baseline
  <2>2. \A w \in Writer : Earnest(w) => clock' = Now
    BY DEF Earnest
  <2>3. \A w \in Writer : Heartbeat(w) => clock' = clock
    BY DEF Heartbeat
  <2>4. \A w \in Writer : CountRevoke(w) => clock' = clock
    BY DEF CountRevoke
  <2>5. QED
    BY <2>1, <2>2, <2>3, <2>4 DEF ScanNext, scanVars
<1>4. QED
  BY <1>1, <1>2, <1>3 DEF Now

LEMMA StoreStepIsNext ==
  ASSUME StoreStep
  PROVE  [Next]_vars
BY DEF StoreStep, Hands, Next

-----------------------------------------------------------------------------
(* The lanes: the invariant is inductive.                                  *)

LEMMA ScanInitInv == ScanInit => ScanInv
<1> SUFFICES ASSUME ScanInit PROVE ScanInv
  OBVIOUS
<1>1. TypeOK /\ CarriesBoth /\ StampedInv /\ clock \in Nat
  BY InitType, InitCarries, InitHolds DEF ScanInit
<1>2. SoundInv
  BY SoundEmpty DEF ScanInit, Init, SoundInv, NoCommit, FreshState, EmptyContent
<1>3. HoldInv /\ WithholdInv /\ FirstTryInv
  BY DEF ScanInit, Init, HoldInv, WithholdInv, FirstTryInv
<1>4. QED
  BY <1>1, <1>2, <1>3 DEF ScanInv

\* Sound trees are read as they are, and retried States are sound.
LEMMA ReadSound ==
  ASSUME ScanInv, NEW r \in Resolved
  PROVE  /\ ReadContent(r.tree) = r.tree.content /\ r.tree.content \in Content
         /\ Sound(r.tree.content) /\ HoldStamped(r.tree.content.dep)
         /\ ~Exists(r) => r = NoCommit
<1>1. CASE r = NoCommit
  BY <1>1, SoundEmpty, EmptyHolds, EmptyContentType DEF NoCommit, EmptyContent, ReadContent
<1>2. CASE r = ref
  <2>1. ref \in Commit /\ ref.tree \in Tree /\ ref.tree.content \in Content
    BY DEF ScanInv, TypeOK, Commit, Tree
  <2>2. QED
    BY <1>2, <2>1 DEF ScanInv, SoundInv, ReadContent, StampedInv, StoredHoldsAreStamped,
                      CarriesBoth, RootInv, Rooted, Exists, Commit
<1>3. QED
  BY <1>1, <1>2 DEF Resolved

LEMMA RetryFacts ==
  ASSUME ScanInv, NEW w \in Writer, NEW r \in Resolved
  PROVE  LET s == RetryState(w, r)
             m == Merge(r.tree.content, cur[w].content)
         IN /\ Sound(s.content) /\ s.remerge = cur[w].remerge
            /\ ~Exists(r) => s = cur[w]
            /\ Exists(r) => /\ m \in Content /\ s.content.dep = m.dep
                            /\ s.remerge => s.content = Remerged(m)
<1> DEFINE c == cur[w].content
           m == Merge(r.tree.content, c)
<1>1. cur[w] \in State /\ c \in Content /\ Sound(c)
  BY CarriedFacts
<1>2. CASE ~Exists(r)
  BY <1>1, <1>2 DEF RetryState
<1>3. CASE Exists(r)
  <2>1. /\ ReadContent(r.tree) = r.tree.content
        /\ r.tree.content \in Content /\ Sound(r.tree.content)
    BY ReadSound
  <2>2. m \in Content /\ Sound(m)
    BY <1>1, <2>1, MergeType, SoundMerge, StoreAssumption
  <2>3. Remerged(m).dep = m.dep
    BY <2>2 DEF Remerged, Content
  <2>4. Sound(Remerged(m))
    BY <2>2, SoundRemerged
  <2>5. /\ RetryState(w, r).content = (IF cur[w].remerge THEN Remerged(m) ELSE m)
        /\ RetryState(w, r).remerge = cur[w].remerge
    BY <1>1, <1>3, <2>1 DEF RetryState, MergeForRetry, State
  <2>6. QED
    BY <1>3, <2>2, <2>3, <2>4, <2>5
<1>4. QED
  BY <1>2, <1>3

\* A merge keeps the earlier of the two first holds, and a hold has one.
LEMMA MergeKeepsHolds ==
  ASSUME NEW a \in DepFetch, NEW b \in DepFetch, HoldStamped(a), HoldStamped(b)
  PROVE  HoldsKept(a, MergeDepFetch(a, b))
<1>1. ASSUME NEW g \in Registry, a.regs[g].held > 0
      PROVE  LET m == MergeDepFetch(a, b).regs[g]
             IN 0 < m.first /\ m.first <= a.regs[g].first
  <2>1. a.regs[g] \in RegistryFetch /\ b.regs[g] \in RegistryFetch /\ a.regs[g].first # 0
    BY <1>1 DEF DepFetch, RegistryFetch, HoldStamped
  <2>2. MergeDepFetch(a, b).regs[g].first = EarliestHold(a.regs[g].first, b.regs[g].first)
    BY DEF MergeDepFetch, MergeRegistry
  <2>3. QED
    BY <2>1, <2>2 DEF EarliestHold, RegistryFetch
<1>2. QED
  BY <1>1 DEF HoldsKept

\* A deleted ref holds nothing.
LEMMA NothingHeld ==
  ASSUME NEW d
  PROVE  HoldsKept(NoCommit.tree.content.dep, d)
BY DEF HoldsKept, NoCommit, EmptyContent, EmptyDep, NeverFetched

\* The steps of one writer, and what each leaves of the others.
LEMMA OthersKeep ==
  ASSUME TypeOK, NEW w \in Writer,
         \/ Hands(w) \/ ReadForUpdate(w) \/ Abandon(w) \/ WriteStep(w)
  PROVE  \A v \in Writer \ {w} :
           /\ stage'[v] = stage[v] /\ cur'[v] = cur[v] /\ token'[v] = token[v]
           /\ mine'[v] = mine[v] /\ attempt'[v] = attempt[v]
<1> USE DEF TypeOK, Become
<1>1. CASE Hands(w)
  BY <1>1 DEF Hands, Submit
<1>2. CASE ReadForUpdate(w)
  BY <1>2 DEF ReadForUpdate
<1>3. CASE Return(w)
  BY <1>3 DEF Return
<1>4. CASE Conflict(w) \/ Retry(w)
  BY <1>4 DEF Conflict, Retry
<1>5. QED
  BY <1>1, <1>2, <1>3, <1>4 DEF Abandon, WriteStep, TryWrite, Fail, Exhaust

LEMMA StepSound == ScanInv /\ StoreStep => SoundInv'
<1> SUFFICES ASSUME ScanInv, StoreStep PROVE SoundInv'
  OBVIOUS
<1> USE DEF SoundInv
<1>0. TypeOK /\ SoundInv
  BY DEF ScanInv
<1>1. Sound(FreshState.content) /\ Sound(NoCommit.tree.content)
      /\ NoCommit.tree.boundTo = NoCommit.tree.content.report
  BY SoundEmpty DEF FreshState, NoCommit, EmptyContent
<1>2. ASSUME NEW w \in Writer, Hands(w) PROVE SoundInv'
  BY <1>0, <1>2 DEF Hands, Submit, HandsOver, TypeOK
<1>3. ASSUME NEW w \in Writer, ReadForUpdate(w) PROVE SoundInv'
  <2>1. \A r \in Resolved : Sound(ReadState(r).content)
    BY <1>1, ReadSound DEF ReadState
  <2>2. QED
    BY <1>0, <1>3, <2>1 DEF ReadForUpdate, TypeOK
<1>4. ASSUME NEW w \in Writer, Return(w), Sound(ref'.tree.content),
             ref'.tree.boundTo = ref'.tree.content.report
      PROVE SoundInv'
  BY <1>0, <1>1, <1>4 DEF Return, TypeOK
<1>5. ASSUME NEW w \in Writer, TryWrite(w) PROVE SoundInv'
  <2>1. cur[w].content \in Content /\ Sound(cur[w].content)
    BY CarriedFacts
  <2>2. /\ ref'.tree.content = Persisted(cur[w].content)
        /\ ref'.tree.boundTo = cur[w].content.report
    BY <1>5 DEF TryWrite, Child, BuildTree
  <2>3. Persisted(cur[w].content).report = cur[w].content.report
    BY <2>1 DEF Persisted, Content
  <2>4. QED
    BY <1>4, <1>5, <2>1, <2>2, <2>3, SoundPersisted DEF TryWrite
<1>6. ASSUME NEW w \in Writer, Abandon(w) \/ Fail(w) \/ Exhaust(w) PROVE SoundInv'
  BY <1>0, <1>4, <1>6 DEF Abandon, Fail, Exhaust
<1>7. ASSUME NEW w \in Writer, Retry(w) PROVE SoundInv'
  BY <1>0, <1>7, RetryFacts DEF Retry, TypeOK
<1>8. ASSUME NEW w \in Writer, Conflict(w) PROVE SoundInv'
  BY <1>0, <1>8 DEF Conflict
<1>9. CASE DeleteRef
  BY <1>0, <1>1, <1>9 DEF DeleteRef
<1>10. CASE UNCHANGED vars
  BY <1>0, <1>10 DEF vars
<1>11. QED
  BY <1>2, <1>3, <1>5, <1>6, <1>7, <1>8, <1>9, <1>10 DEF StoreStep, WriteStep

LEMMA StepHold == ScanInv /\ StoreStep => HoldInv'
<1> SUFFICES ASSUME ScanInv, StoreStep PROVE HoldInv'
  OBVIOUS
<1>0. TypeOK /\ HoldInv
  BY DEF ScanInv
<1>1. ASSUME NEW w \in Writer,
             Hands(w) \/ ReadForUpdate(w) \/ Abandon(w) \/ WriteStep(w),
             \/ stage'[w] = "idle"
             \/ stage'[w] = "read" /\ cur'[w].content = token'[w].tree.content
             \/ /\ stage'[w] \in {"trying", "conflict"}
                /\ HoldsKept(token'[w].tree.content.dep, cur'[w].content.dep)
      PROVE HoldInv'
  BY <1>0, <1>1, OthersKeep DEF HoldInv
<1>2. ASSUME NEW w \in Writer, Hands(w) PROVE HoldInv'
  <2>1. stage[w] = "read" /\ stage'[w] = "trying" /\ token'[w] = token[w]
    BY <1>0, <1>2 DEF Hands, Submit, Become, TypeOK
  <2>2. HoldsKept(cur[w].content.dep, cur'[w].content.dep)
    BY <1>0, <1>2 DEF Hands, Submit, HandsOver, TypeOK
  <2>3. QED
    BY <1>0, <1>1, <1>2, <2>1, <2>2 DEF HoldInv
<1>3. ASSUME NEW w \in Writer, ReadForUpdate(w) PROVE HoldInv'
  <2> PICK r \in Resolved : cur'[w] = ReadState(r) /\ token'[w] = r
    BY <1>0, <1>3 DEF ReadForUpdate, TypeOK
  <2>1. stage'[w] = "read"
    BY <1>0, <1>3 DEF ReadForUpdate, Become, TypeOK
  <2>2. ReadState(r).content = r.tree.content
    BY ReadSound DEF ReadState, NoCommit, FreshState
  <2>3. QED
    BY <1>1, <1>3, <2>1, <2>2
<1>4. ASSUME NEW w \in Writer, Abandon(w) \/ TryWrite(w) \/ Fail(w) \/ Exhaust(w)
      PROVE HoldInv'
  <2>1. stage'[w] = "idle"
    BY <1>0, <1>4 DEF Abandon, TryWrite, Fail, Exhaust, Return, Become, TypeOK
  <2>2. QED
    BY <1>1, <1>4, <2>1 DEF WriteStep
<1>5. ASSUME NEW w \in Writer, Conflict(w) PROVE HoldInv'
  <2>1. stage[w] = "trying" /\ stage'[w] = "conflict" /\ cur' = cur /\ token' = token
    BY <1>0, <1>5 DEF Conflict, Become, TypeOK
  <2>2. QED
    BY <1>0, <1>1, <1>5, <2>1 DEF HoldInv, WriteStep
<1>6. ASSUME NEW w \in Writer, Retry(w) PROVE HoldInv'
  <2> PICK r \in Resolved : cur'[w] = RetryState(w, r) /\ token'[w] = r
    BY <1>0, <1>6 DEF Retry, TypeOK
  <2>1. stage'[w] = "trying"
    BY <1>0, <1>6 DEF Retry, Become, TypeOK
  <2>2. HoldsKept(r.tree.content.dep, RetryState(w, r).content.dep)
    <3>1. CASE ~Exists(r)
      BY <3>1, ReadSound, NothingHeld
    <3>2. CASE Exists(r)
      <4>1. cur[w].content.dep \in DepFetch /\ HoldStamped(cur[w].content.dep)
        BY CarriedFacts DEF Content
      <4>2. r.tree.content.dep \in DepFetch /\ HoldStamped(r.tree.content.dep)
        BY ReadSound DEF Content
      <4>3. RetryState(w, r).content.dep = Merge(r.tree.content, cur[w].content).dep
        BY <3>2, RetryFacts
      <4>4. RetryState(w, r).content.dep
              = MergeDepFetch(r.tree.content.dep, cur[w].content.dep)
        BY <4>3 DEF Merge
      <4>5. QED
        BY <4>1, <4>2, <4>4, MergeKeepsHolds
    <3>3. QED
      BY <3>1, <3>2
  <2>3. QED
    BY <1>1, <1>6, <2>1, <2>2 DEF WriteStep
<1>7. CASE DeleteRef
  BY <1>0, <1>7 DEF DeleteRef, HoldInv
<1>8. CASE UNCHANGED vars
  BY <1>0, <1>8 DEF vars, HoldInv
<1>9. QED
  BY <1>2, <1>3, <1>4, <1>5, <1>6, <1>7, <1>8 DEF StoreStep, WriteStep

LEMMA StepWithhold == ScanInv /\ StoreStep => WithholdInv'
<1> SUFFICES ASSUME ScanInv, StoreStep PROVE WithholdInv'
  OBVIOUS
<1>0. TypeOK /\ WithholdInv
  BY DEF ScanInv
<1>1. ASSUME NEW w \in Writer,
             Hands(w) \/ ReadForUpdate(w) \/ Abandon(w) \/ WriteStep(w),
             \/ stage'[w] \in {"idle", "read"}
             \/ cur'[w].remerge /\ Withheld(mine'[w]) => Withheld(cur'[w].content)
      PROVE WithholdInv'
  BY <1>0, <1>1, OthersKeep DEF WithholdInv
<1>2. ASSUME NEW w \in Writer, Hands(w) PROVE WithholdInv'
  <2>1. cur'[w].content = mine'[w]
    BY <1>0, <1>2 DEF Hands, Submit, TypeOK
  <2>2. QED
    BY <1>1, <1>2, <2>1
<1>3. ASSUME NEW w \in Writer, ReadForUpdate(w) PROVE WithholdInv'
  <2>1. stage'[w] = "read"
    BY <1>0, <1>3 DEF ReadForUpdate, Become, TypeOK
  <2>2. QED
    BY <1>1, <1>3, <2>1
<1>4. ASSUME NEW w \in Writer, Abandon(w) \/ TryWrite(w) \/ Fail(w) \/ Exhaust(w)
      PROVE WithholdInv'
  <2>1. stage'[w] = "idle"
    BY <1>0, <1>4 DEF Abandon, TryWrite, Fail, Exhaust, Return, Become, TypeOK
  <2>2. QED
    BY <1>1, <1>4, <2>1 DEF WriteStep
<1>5. ASSUME NEW w \in Writer, Conflict(w) PROVE WithholdInv'
  <2>1. stage[w] = "trying" /\ cur' = cur /\ mine' = mine
    BY <1>5 DEF Conflict
  <2>2. QED
    BY <1>0, <1>1, <1>5, <2>1 DEF WithholdInv, WriteStep
<1>6. ASSUME NEW w \in Writer, Retry(w) PROVE WithholdInv'
  <2> PICK r \in Resolved : cur'[w] = RetryState(w, r)
    BY <1>0, <1>6 DEF Retry, TypeOK
  <2>1. stage[w] = "conflict" /\ mine' = mine
    BY <1>6 DEF Retry
  <2>2. CASE ~Exists(r)
    <3>1. cur'[w] = cur[w]
      BY <2>1, <2>2, RetryFacts
    <3>2. QED
      BY <1>0, <1>1, <1>6, <2>1, <3>1 DEF WithholdInv, WriteStep
  <2>3. CASE Exists(r)
    <3>1. cur'[w].remerge => Withheld(cur'[w].content)
      BY <2>1, <2>3, RetryFacts, RemergedWithheld
    <3>2. QED
      BY <1>1, <1>6, <3>1 DEF WriteStep
  <2>4. QED
    BY <2>2, <2>3
<1>7. CASE DeleteRef
  BY <1>0, <1>7 DEF DeleteRef, WithholdInv
<1>8. CASE UNCHANGED vars
  BY <1>0, <1>8 DEF vars, WithholdInv
<1>9. QED
  BY <1>2, <1>3, <1>4, <1>5, <1>6, <1>7, <1>8 DEF StoreStep, WriteStep

LEMMA StepFirstTry == ScanInv /\ StoreStep => FirstTryInv'
<1> SUFFICES ASSUME ScanInv, StoreStep, ListKept PROVE FirstTryInv'
  BY DEF FirstTryInv, ListKept
<1>0. TypeOK /\ FirstTryInv
  BY DEF ScanInv
<1>1. ASSUME NEW w \in Writer,
             Hands(w) \/ ReadForUpdate(w) \/ Abandon(w) \/ WriteStep(w),
             \/ stage'[w] \in {"idle", "read"}
             \/ attempt'[w] # 0
             \/ AloneStaysNew(token'[w].tree.content) => AloneStaysNew(cur'[w].content)
      PROVE FirstTryInv'
  BY <1>0, <1>1, OthersKeep DEF FirstTryInv
<1>2. ASSUME NEW w \in Writer, Hands(w) PROVE FirstTryInv'
  <2>1. stage[w] = "read" /\ token'[w] = token[w]
    BY <1>0, <1>2 DEF Hands, Submit, TypeOK
  <2>2. cur[w].content = token[w].tree.content
    BY <2>1 DEF ScanInv, HoldInv
  <2>3. AloneStaysNew(cur[w].content) => AloneStaysNew(cur'[w].content)
    BY <1>0, <1>2 DEF Hands, Submit, HandsOver, TypeOK
  <2>4. QED
    BY <1>1, <1>2, <2>1, <2>2, <2>3
<1>3. ASSUME NEW w \in Writer, ReadForUpdate(w) PROVE FirstTryInv'
  <2>1. stage'[w] = "read"
    BY <1>0, <1>3 DEF ReadForUpdate, Become, TypeOK
  <2>2. QED
    BY <1>1, <1>3, <2>1
<1>4. ASSUME NEW w \in Writer, Abandon(w) \/ TryWrite(w) \/ Fail(w) \/ Exhaust(w)
      PROVE FirstTryInv'
  <2>1. stage'[w] = "idle"
    BY <1>0, <1>4 DEF Abandon, TryWrite, Fail, Exhaust, Return, Become, TypeOK
  <2>2. QED
    BY <1>1, <1>4, <2>1 DEF WriteStep
<1>5. ASSUME NEW w \in Writer, Conflict(w) PROVE FirstTryInv'
  <2>1. /\ stage[w] = "trying" /\ cur' = cur /\ token' = token /\ attempt' = attempt
    BY <1>5 DEF Conflict
  <2>2. QED
    BY <1>0, <1>1, <1>5, <2>1 DEF FirstTryInv, WriteStep
<1>6. ASSUME NEW w \in Writer, Retry(w) PROVE FirstTryInv'
  <2>1. attempt'[w] # 0
    <3>1. attempt[w] \in Nat /\ attempt'[w] = attempt[w] + 1
      BY <1>0, <1>6, StoreAssumption DEF Retry, TypeOK
    <3>2. QED
      BY <3>1
  <2>2. QED
    BY <1>1, <1>6, <2>1 DEF WriteStep
<1>7. CASE DeleteRef
  BY <1>0, <1>7 DEF DeleteRef, FirstTryInv
<1>8. CASE UNCHANGED vars
  BY <1>0, <1>8 DEF vars, FirstTryInv
<1>9. QED
  BY <1>2, <1>3, <1>4, <1>5, <1>6, <1>7, <1>8 DEF StoreStep, WriteStep

LEMMA ScanStepInv == ScanInv /\ [ScanNext]_scanVars => ScanInv'
<1> SUFFICES ASSUME ScanInv, [ScanNext]_scanVars PROVE ScanInv'
  OBVIOUS
<1>1. StoreStep /\ [Next]_vars /\ clock' \in Nat
  BY ScanStep, StoreStepIsNext
<1>2. TypeOK' /\ CarriesBoth' /\ StampedInv'
  BY <1>1, StepType, StepCarries, StepHolds DEF ScanInv
<1>3. SoundInv' /\ HoldInv' /\ WithholdInv' /\ FirstTryInv'
  BY <1>1, StepSound, StepHold, StepWithhold, StepFirstTry
<1>4. QED
  BY <1>1, <1>2, <1>3 DEF ScanInv

LEMMA ScanInvHolds == ScanSpec => []ScanInv
BY ScanInitInv, ScanStepInv, PTL DEF ScanSpec

-----------------------------------------------------------------------------
(* The lanes: the theorems.                                                *)

\* The lanes are callers that StateStore allows: every theorem about its Spec
\* holds of the runs that the code really makes.
THEOREM ScanImplementsStore == ScanSpec => Spec
<1>1. ScanInit => Init
  BY DEF ScanInit
<1>2. ScanInv /\ [ScanNext]_scanVars => [Next]_vars
  BY ScanStep, StoreStepIsNext
<1>3. QED
  BY <1>1, <1>2, ScanInvHolds, PTL DEF ScanSpec, Spec

\* Each advisory in the stored cursor has its row under OSV's source.
THEOREM CursorStaysCovered == ScanSpec => []CursorCovered
<1>1. ScanInv => CursorCovered
  BY DEF ScanInv, SoundInv, Sound, Covers, OsvKey, CursorCovered, Stored
<1>2. QED
  BY <1>1, ScanInvHolds, PTL

\* A stored row that the scan never reached comes with the note.
THEOREM CutsStayDisclosed == ScanSpec => []CutShortDisclosed
<1>1. ScanInv => CutShortDisclosed
  <2> SUFFICES ASSUME ScanInv, HasCutShort(RowsOf(Stored.report))
               PROVE  CutShort \in Stored.report.limits
    BY DEF CutShortDisclosed
  <2>1. Stored.report # NoReport
    BY DEF RowsOf, NoRows, HasCutShort
  <2>2. QED
    BY <2>1 DEF ScanInv, SoundInv, Sound, DisclosesCut, RowsOf, Stored
<1>2. QED
  BY <1>1, ScanInvHolds, PTL

\* What a try commits.
LEMMA CommitFacts ==
  ASSUME ScanInv, [Next]_vars, NEW w \in Writer, Commits(w)
  PROVE  /\ stage[w] = "trying" /\ token[w] = ref /\ cur[w].content \in Content
         /\ ref'.tree.content = Persisted(cur[w].content)
<1>1. TryWrite(w)
  BY CommitIsTryWrite DEF ScanInv
<1>2. QED
  BY <1>1, CarriedFacts DEF TryWrite, Child, BuildTree

\* No commit moves the first hold of a registry that stays held later.
THEOREM FirstHoldStays == ScanSpec => FirstHoldNeverLater
<1>1. ScanInv /\ [ScanNext]_scanVars
        => [\A w \in Writer, g \in Registry :
              LET was == ref.tree.content.dep.regs[g]
                  now == ref'.tree.content.dep.regs[g]
              IN Commits(w) /\ was.held > 0 /\ now.held > 0
                   => 0 < now.first /\ now.first <= was.first]_vars
  <2> SUFFICES ASSUME ScanInv, [ScanNext]_scanVars, NEW w \in Writer, NEW g \in Registry,
                      Commits(w), ref.tree.content.dep.regs[g].held > 0,
                      ref'.tree.content.dep.regs[g].held > 0
               PROVE  /\ 0 < ref'.tree.content.dep.regs[g].first
                      /\ ref'.tree.content.dep.regs[g].first
                           <= ref.tree.content.dep.regs[g].first
    OBVIOUS
  <2>1. /\ stage[w] = "trying" /\ token[w] = ref /\ cur[w].content \in Content
        /\ ref'.tree.content = Persisted(cur[w].content)
    BY ScanStep, StoreStepIsNext, CommitFacts
  <2>2. ref'.tree.content.dep = cur[w].content.dep
    BY <2>1 DEF Persisted, Content
  <2>3. HoldsKept(ref.tree.content.dep, cur[w].content.dep)
    BY <2>1 DEF ScanInv, HoldInv
  <2>4. QED
    BY <2>2, <2>3 DEF HoldsKept
<1>2. QED
  BY <1>1, ScanInvHolds, PTL DEF ScanSpec, FirstHoldNeverLater

\* A report that a scan builds withholds what its record lists, and what it
\* commits still does after any number of lost races.
THEOREM ScansWithhold == ScanSpec => ScanWithholds
<1>1. ScanInv /\ [ScanNext]_scanVars
        => [\A w \in Writer :
              /\ Submits(w) /\ mine'[w].report # cur[w].content.report => Withheld(mine'[w])
              /\ Commits(w) /\ cur[w].remerge /\ Withheld(mine[w])
                   => Withheld(ref'.tree.content)]_vars
  <2> SUFFICES ASSUME ScanInv, [ScanNext]_scanVars, NEW w \in Writer
               PROVE  /\ Submits(w) /\ mine'[w].report # cur[w].content.report
                           => Withheld(mine'[w])
                      /\ Commits(w) /\ cur[w].remerge /\ Withheld(mine[w])
                           => Withheld(ref'.tree.content)
    OBVIOUS
  <2>1. StoreStep /\ [Next]_vars /\ TypeOK
    BY ScanStep, StoreStepIsNext DEF ScanInv
  <2>2. ASSUME Submits(w), mine'[w].report # cur[w].content.report
        PROVE  Withheld(mine'[w])
    <3>1. \A v \in Writer : ReadForUpdate(v) \/ Abandon(v) \/ WriteStep(v) => ~Submits(w)
      <4>1. ASSUME NEW v \in Writer, ReadForUpdate(v) \/ Abandon(v) \/ WriteStep(v), v # w
            PROVE  ~Submits(w)
        BY <2>1, <4>1, OthersKeep DEF Submits
      <4>2. ReadForUpdate(w) \/ WriteStep(w) => stage[w] # "read"
        BY DEF ReadForUpdate, WriteStep, TryWrite, Conflict, Fail, Retry, Exhaust
      <4>3. Abandon(w) => stage'[w] = "idle"
        BY <2>1 DEF Abandon, Return, Become, TypeOK
      <4>4. QED
        BY <4>1, <4>2, <4>3 DEF Submits
    <3>2. DeleteRef \/ UNCHANGED vars => stage' = stage
      BY DEF DeleteRef, vars
    <3>3. PICK v \in Writer : Hands(v)
      BY <2>1, <2>2, <3>1, <3>2 DEF StoreStep, Submits
    <3>4. v = w
      BY <2>1, <2>2, <3>3, OthersKeep DEF Submits
    <3>5. QED
      BY <2>1, <2>2, <3>3, <3>4 DEF Hands, Submit, HandsOver, TypeOK
  <2>3. ASSUME Commits(w), cur[w].remerge, Withheld(mine[w])
        PROVE  Withheld(ref'.tree.content)
    <3>1. /\ stage[w] = "trying" /\ cur[w].content \in Content
          /\ ref'.tree.content = Persisted(cur[w].content)
      BY <2>1, <2>3, CommitFacts
    <3>2. Withheld(cur[w].content)
      BY <2>3, <3>1 DEF ScanInv, WithholdInv
    <3>3. QED
      BY <3>1, <3>2 DEF Withheld, Persisted, Content
  <2>4. QED
    BY <2>2, <2>3
<1>2. QED
  BY <1>1, ScanInvHolds, PTL DEF ScanSpec, ScanWithholds

\* A run that nobody raced keeps the cut-short advisories new, for any writers,
\* runs and merges before it, provided that none had dependency code off: such
\* a run clears the list.
THEOREM CutsStayNew == ListKept => (ScanSpec => UnracedCutStaysNew)
<1> SUFFICES ASSUME ListKept PROVE ScanSpec => UnracedCutStaysNew
  OBVIOUS
<1>1. ScanInv /\ [ScanNext]_scanVars
        => [\A w \in Writer : Commits(w) /\ attempt[w] = 0 /\ AloneStaysNew(Stored)
              => AloneStaysNew(ref'.tree.content)]_vars
  <2> SUFFICES ASSUME ScanInv, [ScanNext]_scanVars, NEW w \in Writer,
                      Commits(w), attempt[w] = 0, AloneStaysNew(Stored)
               PROVE  AloneStaysNew(ref'.tree.content)
    OBVIOUS
  <2>1. /\ stage[w] = "trying" /\ token[w] = ref /\ cur[w].content \in Content
        /\ ref'.tree.content = Persisted(cur[w].content)
    BY ScanStep, StoreStepIsNext, CommitFacts
  <2>2. AloneStaysNew(cur[w].content)
    BY <2>1 DEF ScanInv, FirstTryInv, Stored
  <2>3. QED
    BY <2>1, <2>2 DEF AloneStaysNew, Persisted, Content
<1>2. QED
  BY <1>1, ScanInvHolds, PTL DEF ScanSpec, UnracedCutStaysNew

-----------------------------------------------------------------------------
(* The counter: types.                                                     *)

LEMMA SubmitType ==
  ASSUME TypeOK, NEW w \in Writer, NEW next \in Content, NEW hook \in BOOLEAN,
         Submit(w, next, hook)
  PROVE  TypeOK'
<1>1. [content |-> next, remerge |-> hook] \in State
  BY DEF State
<1>2. stage' \in [Writer -> Stages]
  BY DEF Submit, Become, Stages, TypeOK
<1>3. cur' \in [Writer -> State] /\ mine' \in [Writer -> Content]
  BY <1>1 DEF Submit, TypeOK
<1>4. QED
  BY <1>2, <1>3 DEF Submit, TypeOK

LEMMA StoreStepType ==
  ASSUME TypeOK, NEW w \in Writer,
         ReadForUpdate(w) \/ Abandon(w) \/ WriteStep(w) \/ DeleteRef \/ UNCHANGED vars
  PROVE  TypeOK'
BY StepType DEF Next

\* Every step of a run is one of these to the store.
LEMMA StoreTypeStep ==
  ASSUME CleanupTypeOK, [CleanupNext]_cleanupVars
  PROVE  TypeOK'
<1>1. TypeOK
  BY DEF CleanupTypeOK
<1>2. ASSUME NEW w \in Writer, Start(w) \/ Check(w) PROVE TypeOK'
  BY <1>1, <1>2, StoreStepType DEF Start, Check
<1>3. ASSUME NEW w \in Writer, Scan(w) PROVE TypeOK'
  <2>1. cur[w].content \in Content
    BY <1>1 DEF TypeOK, State
  <2>2. QED
    BY <1>1, <1>3, <2>1, SubmitType, StoreStepType DEF Scan
<1>4. ASSUME NEW w \in Writer, Count(w) PROVE TypeOK'
  <2>1. cur[w].content \in Content /\ local[w] \in Nat
    BY <1>1 DEF CleanupTypeOK, TypeOK, State
  <2>2. [cur[w].content EXCEPT !.revoke = local[w]] \in Content
    BY <2>1 DEF Content
  <2>3. QED
    BY <1>1, <1>4, <2>2, SubmitType DEF Count
<1>5. ASSUME NEW w \in Writer, Unchanged(w) PROVE TypeOK'
  BY <1>1, <1>5, StoreStepType DEF Unchanged
<1>6. ASSUME NEW w \in Writer, CountStep(w) PROVE TypeOK'
  BY <1>1, <1>6, StoreStepType DEF CountStep, WriteStep
<1>7. ASSUME NEW w \in Writer, DeleteStateRef(w) PROVE TypeOK'
  BY <1>1, <1>7, StoreStepType DEF DeleteStateRef
<1>8. ASSUME UNCHANGED vars PROVE TypeOK'
  BY <1>1, <1>8, StepType
<1>9. QED
  BY <1>2, <1>3, <1>4, <1>5, <1>6, <1>7, <1>8
     DEF CleanupNext, cleanupVars, RunCheck, Actuate, Leave, Beacon, CheckFails,
         DeleteWorkflowFileDirect, OpenRemovalPR, DisableWorkflow, OpenCleanupIssue,
         Cancelled, MergePR

LEMMA CleanupInitType == CleanupInit => CleanupTypeOK
<1> SUFFICES ASSUME CleanupInit PROVE CleanupTypeOK
  OBVIOUS
<1>1. TypeOK
  BY InitType DEF CleanupInit
<1>2. phase \in [Writer -> Phase] /\ outcome \in [Writer -> Outcome] /\ local \in [Writer -> Nat]
  BY DEF CleanupInit, Phase, Outcome
<1>3. {file, branch, pr, disabled, issue} \subseteq BOOLEAN
  <2>1. file = TRUE /\ branch = FALSE /\ pr = FALSE /\ disabled = FALSE /\ issue = FALSE
    BY Zenon DEF CleanupInit
  <2>2. QED
    BY <2>1, Zenon
<1>4. answers \in 0..MaxAnswers /\ revokes \in 0..answers
  BY CleanupAssumption DEF CleanupInit
<1>5. QED
  BY <1>1, <1>2, <1>3, <1>4 DEF CleanupTypeOK

LEMMA GotoType ==
  ASSUME phase \in [Writer -> Phase], NEW w \in Writer, NEW p \in Phase, Goto(w, p)
  PROVE  phase' \in [Writer -> Phase]
BY DEF Goto

LEMMA PhaseStep ==
  ASSUME CleanupTypeOK, [CleanupNext]_cleanupVars
  PROVE  phase' \in [Writer -> Phase]
<1>1. phase \in [Writer -> Phase]
  BY DEF CleanupTypeOK
<1>2. {"off", "scan", "check", "count"} \cup Ladder \subseteq Phase
  BY DEF Phase
<1>3. ASSUME NEW w \in Writer, Decide(w) PROVE phase' \in [Writer -> Phase]
  BY <1>1, <1>3, GotoType DEF Decide, Phase, Ladder
<1>4. ASSUME NEW w \in Writer, Start(w) \/ Leave(w) \/ Beacon(w) \/ Check(w) \/ CheckFails(w)
      PROVE phase' \in [Writer -> Phase]
  BY <1>1, <1>4, GotoType DEF Start, Leave, Beacon, Check, CheckFails, Phase
<1>5. ASSUME NEW w \in Writer, Unchanged(w) \/ CountStep(w)
      PROVE phase' \in [Writer -> Phase]
  BY <1>1, <1>3, <1>5, GotoType DEF Unchanged, CountStep, Phase
<1>6. ASSUME NEW w \in Writer, Actuate(w)
      PROVE phase' \in [Writer -> Phase]
  BY <1>1, <1>6, GotoType
     DEF Actuate, DeleteWorkflowFileDirect, OpenRemovalPR, DeleteStateRef, DisableWorkflow,
         OpenCleanupIssue, Cancelled, Phase, Ladder
<1>7. ASSUME UNCHANGED phase PROVE phase' \in [Writer -> Phase]
  BY <1>1, <1>7
<1>8. QED
  BY <1>4, <1>5, <1>6, <1>7 DEF CleanupNext, RunCheck, Scan, Count, MergePR, cleanupVars, runVars

LEMMA LocalStep ==
  ASSUME CleanupTypeOK, [CleanupNext]_cleanupVars
  PROVE  local' \in [Writer -> Nat]
<1>1. local \in [Writer -> Nat]
  BY DEF CleanupTypeOK
<1>2. TypeOK'
  BY StoreTypeStep
<1>3. ASSUME NEW w \in Writer, Check(w) PROVE local' \in [Writer -> Nat]
  <2>1. cur'[w].content.revoke \in Nat
    BY <1>2 DEF TypeOK, State, Content
  <2>2. ApplyOutcome(cur'[w].content.revoke, outcome[w]) \in Nat
    BY <2>1 DEF ApplyOutcome
  <2>3. QED
    BY <1>1, <1>3, <2>2 DEF Check
<1>4. QED
  BY <1>1, <1>3
     DEF CleanupNext, cleanupVars, runVars, Start, Scan, Leave, RunCheck, Beacon, CheckFails,
         Count, Unchanged, CountStep, Actuate, DeleteWorkflowFileDirect, OpenRemovalPR,
         DeleteStateRef, DisableWorkflow, OpenCleanupIssue, Cancelled, MergePR

\* Only a beacon changes the ghosts of the console's answers.
LEMMA AnswersStep ==
  ASSUME [CleanupNext]_cleanupVars
  PROVE  \/ \E w \in Writer : Beacon(w)
         \/ UNCHANGED <<outcome, answers, revokes>>
BY DEF CleanupNext, cleanupVars, runVars, ghosts, Start, Scan, Leave, RunCheck, Check, CheckFails,
       Count, Unchanged, CountStep, Actuate, DeleteWorkflowFileDirect, OpenRemovalPR,
       DeleteStateRef, DisableWorkflow, OpenCleanupIssue, Cancelled, MergePR

LEMMA AnswersType ==
  ASSUME CleanupTypeOK, [CleanupNext]_cleanupVars
  PROVE  /\ outcome' \in [Writer -> Outcome]
         /\ answers' \in 0..MaxAnswers /\ revokes' \in 0..answers'
<1> USE CleanupAssumption DEF CleanupTypeOK
<1>1. CASE UNCHANGED <<outcome, answers, revokes>>
  BY <1>1
<1>2. ASSUME NEW w \in Writer, Beacon(w)
      PROVE  /\ outcome' \in [Writer -> Outcome]
             /\ answers' \in 0..MaxAnswers /\ revokes' \in 0..answers'
  <2>1. PICK o \in Outcome :
          /\ outcome' = [outcome EXCEPT ![w] = o]
          /\ revokes' = IF o = "revoked" THEN revokes + 1 ELSE revokes
    BY <1>2 DEF Beacon
  <2>2. answers' = answers + 1 /\ answers < MaxAnswers
    BY <1>2 DEF Beacon
  <2>3. revokes' \in 0..answers'
    BY <2>1, <2>2
  <2>4. answers' \in 0..MaxAnswers
    BY <2>2
  <2>5. outcome' \in [Writer -> Outcome]
    BY <2>1
  <2>6. QED
    BY <2>3, <2>4, <2>5
<1>3. QED
  BY <1>1, <1>2, AnswersStep

LEMMA FlagsType ==
  ASSUME CleanupTypeOK, [CleanupNext]_cleanupVars
  PROVE  {file, branch, pr, disabled, issue}' \subseteq BOOLEAN
<1>1. file \in BOOLEAN /\ branch \in BOOLEAN /\ pr \in BOOLEAN /\ disabled \in BOOLEAN
      /\ issue \in BOOLEAN
  BY DEF CleanupTypeOK
<1>2. ASSUME NEW w \in Writer,
             Start(w) \/ Scan(w) \/ Leave(w) \/ RunCheck(w) \/ DeleteStateRef(w)
      PROVE UNCHANGED repoVars
  BY <1>2
     DEF Start, Scan, Leave, RunCheck, Beacon, Check, CheckFails, Count, Unchanged, CountStep,
         DeleteStateRef
<1>3. ASSUME NEW w \in Writer,
             DeleteWorkflowFileDirect(w) \/ OpenRemovalPR(w) \/ DisableWorkflow(w)
               \/ OpenCleanupIssue(w) \/ Cancelled(w)
      PROVE /\ file' \in {file, FALSE} /\ branch' \in {branch, TRUE} /\ pr' \in {pr, TRUE}
            /\ disabled' \in {disabled, TRUE} /\ issue' \in {issue, TRUE}
  BY <1>3, Zenon
     DEF DeleteWorkflowFileDirect, OpenRemovalPR, DisableWorkflow, OpenCleanupIssue, Cancelled,
         repoVars
<1>4. CASE UNCHANGED repoVars
  BY <1>1, <1>4 DEF repoVars
<1>5. CASE MergePR
  <2>1. file' = FALSE /\ UNCHANGED <<branch, pr, disabled, issue>>
    BY <1>5, Zenon DEF MergePR
  <2>2. QED
    BY <1>1, <2>1
<1>6. CASE UNCHANGED cleanupVars
  BY <1>4, <1>6 DEF cleanupVars
<1>7. ASSUME NEW w \in Writer, Actuate(w)
      PROVE {file, branch, pr, disabled, issue}' \subseteq BOOLEAN
  BY <1>1, <1>2, <1>3, <1>4, <1>7 DEF Actuate
<1>8. QED
  BY <1>2, <1>4, <1>5, <1>6, <1>7 DEF CleanupNext

LEMMA CleanupStepType ==
  CleanupTypeOK /\ [CleanupNext]_cleanupVars => CleanupTypeOK'
BY StoreTypeStep, PhaseStep, LocalStep, AnswersType, FlagsType DEF CleanupTypeOK

\* The runs, the repository and the console's answers keep their types.
THEOREM CleanupTypeCorrect == CleanupSpec => []CleanupTypeOK
<1>1. QED
  BY CleanupInitType, CleanupStepType, PTL DEF CleanupSpec

-----------------------------------------------------------------------------
(* The counter: counts.                                                    *)

\* Every count the store holds or a writer carries is at most n.
AtMost(n) ==
  /\ ref.tree.content.revoke <= n
  /\ \A w \in Writer : cur[w].content.revoke <= n

LEMMA ReadStateCount ==
  ASSUME NEW c \in Commit
  PROVE  ReadState(c).content.revoke \in {0, c.tree.content.revoke}
BY DEF ReadState, ReadContent, FreshState, EmptyContent, Commit, Tree, Content

LEMMA BuildTreeCount ==
  ASSUME NEW s \in State, NEW p
  PROVE  BuildTree(s, p).content.revoke = s.content.revoke
BY DEF BuildTree, Persisted, State, Content

LEMMA ResolvedCount ==
  ASSUME TypeOK, NEW n \in Nat, AtMost(n), NEW c \in Resolved
  PROVE  c.tree.content.revoke <= n
BY DEF Resolved, AtMost, NoCommit, EmptyContent

LEMMA RetryStateCount ==
  ASSUME TypeOK, NEW w \in Writer, NEW n \in Nat, AtMost(n), NEW c \in Resolved
  PROVE  RetryState(w, c).content.revoke <= n
<1> DEFINE won == ReadContent(c.tree)
           own == cur[w].content
<1>0. c.tree.content.revoke <= n
  BY ResolvedCount
<1>1. c.tree \in Tree /\ cur[w] \in State /\ own \in Content
  BY ResolvedType DEF TypeOK, Commit, State
<1>2. won.revoke = c.tree.content.revoke /\ won \in Content
  BY <1>1, ReadContentType DEF ReadContent, Tree, Content
<1>3. won.revoke \in Nat /\ own.revoke \in Nat
  BY <1>1, <1>2 DEF Content
<1>4. Merge(won, own).revoke = Larger(won.revoke, own.revoke)
  BY DEF Merge
<1>5. Merge(won, own) \in Content
  BY <1>1, <1>2, MergeType, StoreAssumption
<1>6. MergeForRetry(won, own, cur[w].remerge).revoke = Merge(won, own).revoke
  BY <1>5 DEF MergeForRetry, Remerged, Content
<1>7. Larger(won.revoke, own.revoke) <= n
  BY <1>0, <1>2, <1>3 DEF AtMost, Larger
<1>8. QED
  BY <1>1, <1>4, <1>6, <1>7 DEF RetryState, State, AtMost

\* Reading, trying, merging, returning and deleting create no new count.
LEMMA StoreKeepsAtMost ==
  ASSUME TypeOK, NEW w \in Writer, NEW n \in Nat, AtMost(n),
         ReadForUpdate(w) \/ Abandon(w) \/ WriteStep(w) \/ DeleteRef \/ UNCHANGED vars
  PROVE  AtMost(n)'
<1>1. FreshState.content.revoke = 0 /\ NoCommit.tree.content.revoke = 0
  BY DEF FreshState, NoCommit, EmptyContent
<1>2. ASSUME Return(w), ref'.tree.content.revoke <= n PROVE AtMost(n)'
  BY <1>1, <1>2 DEF Return, AtMost, TypeOK
<1>3. CASE ReadForUpdate(w)
  <2>1. \A c \in Resolved : ReadState(c).content.revoke <= n
    BY ResolvedType, ResolvedCount, ReadStateCount
  <2>2. QED
    BY <1>3, <2>1 DEF ReadForUpdate, AtMost, TypeOK
<1>4. CASE Abandon(w) \/ Fail(w) \/ Exhaust(w)
  BY <1>2, <1>4 DEF Abandon, Fail, Exhaust, AtMost
<1>5. CASE TryWrite(w)
  <2>1. ref'.tree.content.revoke = cur[w].content.revoke
    BY <1>5, BuildTreeCount DEF TryWrite, Child, TypeOK
  <2>2. QED
    BY <1>2, <1>5, <2>1 DEF TryWrite, AtMost
<1>6. CASE Conflict(w)
  BY <1>6 DEF Conflict, AtMost
<1>7. CASE Retry(w)
  BY <1>7, RetryStateCount DEF Retry, AtMost, TypeOK
<1>8. CASE DeleteRef
  BY <1>1, <1>8 DEF DeleteRef, AtMost
<1>9. CASE UNCHANGED vars
  BY <1>9 DEF vars, AtMost
<1>10. QED
  BY <1>3, <1>4, <1>5, <1>6, <1>7, <1>8, <1>9 DEF WriteStep

LEMMA SubmitKeepsAtMost ==
  ASSUME TypeOK, NEW w \in Writer, NEW n \in Nat, AtMost(n), NEW next, NEW hook,
         Submit(w, next, hook), next.revoke <= n
  PROVE  AtMost(n)'
BY DEF Submit, AtMost, TypeOK

-----------------------------------------------------------------------------
(* The counter: pending revokes.                                           *)

\* What the signed revokes leave once the pending ones are set aside.
Room == revokes - Cardinality(Pending)

LEMMA PendingFinite == IsFiniteSet(Pending) /\ Cardinality(Pending) \in Nat
<1>1. Pending \subseteq Writer
  BY DEF Pending
<1>2. IsFiniteSet(Pending)
  BY <1>1, FS_Subset, CleanupAssumption
<1>3. QED
  BY <1>2, FS_CardinalityType

LEMMA PendingFiniteNext == IsFiniteSet(Pending') /\ Cardinality(Pending') \in Nat
<1>1. Pending' \subseteq Writer
  BY DEF Pending
<1>2. IsFiniteSet(Pending')
  BY <1>1, FS_Subset, CleanupAssumption
<1>3. QED
  BY <1>2, FS_CardinalityType

\* CountInv bounds every count by the room, which is a number.
LEMMA CountIsAtMost ==
  ASSUME CleanupTypeOK
  PROVE  CountInv <=> /\ Room \in Nat /\ AtMost(Room)
                      /\ \A w \in Writer : local[w] <= Room
<1>1. Cardinality(Pending) \in Nat /\ revokes \in Nat
  BY PendingFinite DEF CleanupTypeOK
<1>2. ref.tree.content.revoke \in Nat
  BY DEF CleanupTypeOK, TypeOK, Commit, Tree, Content
<1>3. \A w \in Writer : cur[w].content.revoke \in Nat /\ local[w] \in Nat
  BY DEF CleanupTypeOK, TypeOK, State, Content
<1>4. QED
  BY <1>1, <1>2, <1>3 DEF CountInv, Backed, Room, AtMost

LEMMA CountIsAtMostNext ==
  ASSUME CleanupTypeOK', Room' \in Nat, AtMost(Room)', \A w \in Writer : local'[w] <= Room'
  PROVE  CountInv'
<1>1. Cardinality(Pending') \in Nat /\ revokes' \in Nat
  BY PendingFiniteNext DEF CleanupTypeOK
<1>2. ref'.tree.content.revoke \in Nat
  BY DEF CleanupTypeOK, TypeOK, Commit, Tree, Content
<1>3. \A w \in Writer : cur'[w].content.revoke \in Nat /\ local'[w] \in Nat
  BY DEF CleanupTypeOK, TypeOK, State, Content
<1>4. QED
  BY <1>1, <1>2, <1>3 DEF CountInv, Backed, Room, AtMost

\* A step that answers and reads no revoke leaves the room as it was.
LEMMA QuietRoom ==
  ASSUME CleanupTypeOK, NEW w \in Writer, phase[w] # "check", phase'[w] # "check",
         \A v \in Writer \ {w} : phase'[v] = phase[v], UNCHANGED <<outcome, revokes>>
  PROVE  Room' = Room
<1>1. Pending' = Pending
  BY DEF Pending
<1>2. QED
  BY <1>1 DEF Room

LEMMA GotoOthers ==
  ASSUME CleanupTypeOK, NEW w \in Writer, NEW p, Goto(w, p)
  PROVE  phase'[w] = p /\ \A v \in Writer \ {w} : phase'[v] = phase[v]
BY DEF Goto, CleanupTypeOK

\* The steps that are the store's own: the scan, the Write, the ladder.
LEMMA QuietCounts ==
  ASSUME CleanupTypeOK, CountInv, NEW w \in Writer, AtMost(Room)', Room' = Room,
         CleanupTypeOK', UNCHANGED local
  PROVE  CountInv'
<1>1. Room \in Nat /\ \A v \in Writer : local[v] <= Room
  BY CountIsAtMost
<1>2. Room' \in Nat /\ AtMost(Room)' /\ \A v \in Writer : local'[v] <= Room'
  BY <1>1
<1>3. QED
  BY <1>2, CountIsAtMostNext

LEMMA BeaconCounts ==
  ASSUME CleanupTypeOK, CountInv, NEW w \in Writer, Beacon(w)
  PROVE  CountInv'
<1>1. Cardinality(Pending) \in Nat /\ IsFiniteSet(Pending) /\ revokes \in Nat
  BY PendingFinite DEF CleanupTypeOK
<1>2. w \notin Pending /\ phase'[w] = "check" /\ \A v \in Writer \ {w} : phase'[v] = phase[v]
  BY GotoOthers DEF Beacon, Pending
<1>3. PICK o \in Outcome :
        /\ outcome' = [outcome EXCEPT ![w] = o]
        /\ revokes' = IF o = "revoked" THEN revokes + 1 ELSE revokes
  BY DEF Beacon
<1>4. outcome'[w] = o /\ \A v \in Writer \ {w} : outcome'[v] = outcome[v]
  BY <1>3 DEF CleanupTypeOK
<1>5. Cardinality(Pending') - revokes' = Cardinality(Pending) - revokes
  <2>1. CASE o = "revoked"
    <3>1. Pending' = Pending \cup {w}
      BY <1>2, <1>4, <2>1 DEF Pending
    <3>2. Cardinality(Pending') = Cardinality(Pending) + 1
      BY <1>1, <1>2, <3>1, FS_AddElement
    <3>3. QED
      BY <1>1, <1>3, <2>1, <3>2
  <2>2. CASE o # "revoked"
    <3>1. Pending' = Pending
      BY <1>2, <1>4, <2>2 DEF Pending
    <3>2. QED
      BY <1>3, <2>2, <3>1
  <2>3. QED
    BY <2>1, <2>2
<1>6. \A n \in Nat : n + Cardinality(Pending) <= revokes => n + Cardinality(Pending') <= revokes'
  <2>1. Cardinality(Pending') \in Nat /\ revokes' \in Nat
    BY <1>1, <1>3, PendingFiniteNext
  <2>2. QED
    BY <1>1, <1>5, <2>1
<1>7. UNCHANGED <<ref, cur, local>>
  BY DEF Beacon, vars
<1>8. /\ ref.tree.content.revoke \in Nat
      /\ \A v \in Writer : cur[v].content.revoke \in Nat /\ local[v] \in Nat
  BY DEF CleanupTypeOK, TypeOK, Commit, Tree, Content, State
<1>9. QED
  BY <1>6, <1>7, <1>8 DEF CountInv, Backed

\* A run that leaves its check for p: its revoke is no longer pending.
LEMMA SettledRoom ==
  ASSUME CleanupTypeOK, CountInv, NEW w \in Writer, NEW p, phase[w] = "check", p # "check",
         Goto(w, p), UNCHANGED <<outcome, revokes>>
  PROVE  /\ Room \in Nat /\ Room' \in Nat
         /\ Room' = IF outcome[w] = "revoked" THEN Room + 1 ELSE Room
<1>1. /\ Cardinality(Pending) \in Nat /\ IsFiniteSet(Pending) /\ revokes \in Nat
      /\ Cardinality(Pending') \in Nat /\ Room \in Nat
  BY PendingFinite, PendingFiniteNext, CountIsAtMost DEF CleanupTypeOK
<1>2. phase'[w] = p /\ \A v \in Writer \ {w} : phase'[v] = phase[v]
  BY GotoOthers
<1>3. CASE outcome[w] = "revoked"
  <2>1. w \in Pending /\ Pending' = Pending \ {w}
    BY <1>2, <1>3 DEF Pending
  <2>2. Cardinality(Pending') = Cardinality(Pending) - 1
    BY <1>1, <2>1, FS_RemoveElement
  <2>3. QED
    BY <1>1, <1>3, <2>2 DEF Room
<1>4. CASE outcome[w] # "revoked"
  <2>1. Pending' = Pending
    BY <1>2, <1>4 DEF Pending
  <2>2. QED
    BY <1>1, <1>4, <2>1 DEF Room
<1>5. QED
  BY <1>3, <1>4

LEMMA CheckCounts ==
  ASSUME CleanupTypeOK, CountInv, NEW w \in Writer, Check(w), CleanupTypeOK'
  PROVE  CountInv'
<1>1. /\ Room \in Nat /\ Room' \in Nat
      /\ Room' = IF outcome[w] = "revoked" THEN Room + 1 ELSE Room
  BY SettledRoom DEF Check, ghosts
<1>2. AtMost(Room) /\ \A v \in Writer : local[v] <= Room
  BY CountIsAtMost
<1>3. ref'.tree.content.revoke <= Room /\ \A v \in Writer : cur'[v].content.revoke <= Room
  <2>1. \A n \in Nat : AtMost(n) =>
          ref'.tree.content.revoke <= n /\ \A v \in Writer : cur'[v].content.revoke <= n
    BY StoreKeepsAtMost DEF CleanupTypeOK, Check, AtMost
  <2>2. QED
    BY <1>1, <1>2, <2>1
<1>4. /\ ref'.tree.content.revoke \in Nat
      /\ \A v \in Writer : cur'[v].content.revoke \in Nat /\ local'[v] \in Nat
  BY DEF CleanupTypeOK, TypeOK, Commit, Tree, Content, State
<1>5. \A v \in Writer : local'[v] <= Room'
  <2>1. local'[w] <= Room'
    <3>1. local'[w] = ApplyOutcome(cur'[w].content.revoke, outcome[w])
      BY DEF Check, CleanupTypeOK
    <3>2. QED
      BY <1>1, <1>3, <1>4, <3>1 DEF ApplyOutcome
  <2>2. \A v \in Writer \ {w} : local'[v] = local[v] /\ local[v] \in Nat
    BY DEF Check, CleanupTypeOK
  <2>3. QED
    BY <1>1, <1>2, <2>1, <2>2
<1>6. AtMost(Room)'
  BY <1>1, <1>3, <1>4 DEF AtMost
<1>7. QED
  BY <1>1, <1>5, <1>6, CountIsAtMostNext

LEMMA CheckFailsCounts ==
  ASSUME CleanupTypeOK, CountInv, NEW w \in Writer, CheckFails(w), CleanupTypeOK'
  PROVE  CountInv'
<1>1. Room \in Nat /\ Room' \in Nat /\ Room <= Room'
  BY SettledRoom DEF CheckFails, ghosts
<1>2. AtMost(Room) /\ \A v \in Writer : local[v] <= Room
  BY CountIsAtMost
<1>3. UNCHANGED <<ref, cur, local>>
  BY DEF CheckFails, vars
<1>4. /\ ref.tree.content.revoke \in Nat
      /\ \A v \in Writer : cur[v].content.revoke \in Nat /\ local[v] \in Nat
  BY DEF CleanupTypeOK, TypeOK, Commit, Tree, Content, State
<1>5. AtMost(Room)' /\ \A v \in Writer : local'[v] <= Room'
  BY <1>1, <1>2, <1>3, <1>4 DEF AtMost
<1>6. QED
  BY <1>1, <1>5, CountIsAtMostNext

\* The counter's Submit carries the computed count, the scan's the read one.
LEMMA SubmitCounts ==
  ASSUME CleanupTypeOK, CountInv, NEW w \in Writer, Count(w) \/ Submit(w, cur[w].content, TRUE)
  PROVE  \A n \in Nat : n = Room => AtMost(n)'
<1> SUFFICES ASSUME NEW n \in Nat, n = Room PROVE AtMost(n)'
  OBVIOUS
<1>1. AtMost(n) /\ local[w] <= n /\ cur[w].content.revoke <= n
  BY CountIsAtMost DEF AtMost
<1>2. [cur[w].content EXCEPT !.revoke = local[w]].revoke = local[w]
  BY DEF CleanupTypeOK, TypeOK, State, Content
<1>3. QED
  BY <1>1, <1>2, SubmitKeepsAtMost DEF Count, CleanupTypeOK

LEMMA StoreCounts ==
  ASSUME CleanupTypeOK, CountInv, NEW w \in Writer,
         ReadForUpdate(w) \/ Abandon(w) \/ WriteStep(w) \/ DeleteRef \/ UNCHANGED vars
  PROVE  \A n \in Nat : n = Room => AtMost(n)'
BY CountIsAtMost, StoreKeepsAtMost DEF CleanupTypeOK

\* A step that is the store's, or a Submit, and settles no check.
LEMMA OtherCounts ==
  ASSUME CleanupTypeOK, CountInv, NEW w \in Writer, CleanupTypeOK',
         UNCHANGED <<local, outcome, revokes>>,
         UNCHANGED phase \/ (phase[w] # "check" /\ \E p \in Phase \ {"check"} : Goto(w, p)),
         \/ Count(w) \/ Submit(w, cur[w].content, TRUE)
         \/ ReadForUpdate(w) \/ Abandon(w) \/ WriteStep(w) \/ DeleteRef \/ UNCHANGED vars
  PROVE  CountInv'
<1>1. Room' = Room
  <2>1. CASE UNCHANGED phase
    BY <2>1 DEF Room, Pending
  <2>2. CASE phase[w] # "check" /\ \E p \in Phase \ {"check"} : Goto(w, p)
    BY <2>2, GotoOthers, QuietRoom
  <2>3. QED
    BY <2>1, <2>2
<1>2. \A n \in Nat : n = Room => AtMost(n)'
  BY SubmitCounts, StoreCounts
<1>3. Room \in Nat
  BY CountIsAtMost
<1>4. AtMost(Room)'
  BY <1>1, <1>2, <1>3 DEF AtMost
<1>5. QED
  BY <1>1, <1>4, QuietCounts

LEMMA ScanCounts ==
  ASSUME CleanupTypeOK, CountInv, NEW w \in Writer, CleanupTypeOK',
         Start(w) \/ Scan(w) \/ Leave(w)
  PROVE  CountInv'
<1>1. CASE Start(w)
  BY <1>1, OtherCounts DEF Start, ghosts, Phase
<1>2. CASE Scan(w)
  BY <1>2, OtherCounts DEF Scan, runVars, ghosts
<1>3. CASE Leave(w)
  BY <1>3, OtherCounts DEF Leave, ghosts, Phase
<1>4. QED
  BY <1>1, <1>2, <1>3

LEMMA DecideGoes ==
  ASSUME NEW w \in Writer, Decide(w)
  PROVE  \E p \in Phase \ {"check"} : Goto(w, p)
BY DEF Decide, Phase, Ladder

LEMMA CounterCounts ==
  ASSUME CleanupTypeOK, CountInv, NEW w \in Writer, CleanupTypeOK',
         Count(w) \/ Unchanged(w) \/ CountStep(w)
  PROVE  CountInv'
<1>1. CASE Count(w)
  BY <1>1, OtherCounts DEF Count, runVars, ghosts
<1>2. CASE Unchanged(w)
  BY <1>2, OtherCounts, DecideGoes DEF Unchanged, ghosts
<1>3. CASE CountStep(w)
  <2>1. phase[w] # "check" /\ WriteStep(w) /\ UNCHANGED <<local, outcome, revokes>>
    BY <1>3 DEF CountStep, WriteStep, ghosts
  <2>2. UNCHANGED phase \/ \E p \in Phase \ {"check"} : Goto(w, p)
    BY <1>3, DecideGoes DEF CountStep, Phase
  <2>3. QED
    BY <2>1, <2>2, OtherCounts
<1>4. QED
  BY <1>1, <1>2, <1>3

LEMMA LadderCounts ==
  ASSUME CleanupTypeOK, CountInv, NEW w \in Writer, CleanupTypeOK', Actuate(w)
  PROVE  CountInv'
<1>1. phase[w] # "check" /\ \E p \in Phase \ {"check"} : Goto(w, p)
  BY DEF Actuate, DeleteWorkflowFileDirect, OpenRemovalPR, DeleteStateRef, DisableWorkflow,
         OpenCleanupIssue, Cancelled, Phase, Ladder
<1>2. UNCHANGED <<local, outcome, revokes>> /\ (DeleteRef \/ UNCHANGED vars)
  BY DEF Actuate, DeleteWorkflowFileDirect, OpenRemovalPR, DeleteStateRef, DisableWorkflow,
         OpenCleanupIssue, Cancelled, ghosts
<1>3. QED
  BY <1>1, <1>2, OtherCounts

LEMMA CleanupStepCounts ==
  CleanupTypeOK /\ CountInv /\ [CleanupNext]_cleanupVars => CountInv'
<1> SUFFICES ASSUME CleanupTypeOK, CountInv, [CleanupNext]_cleanupVars PROVE CountInv'
  OBVIOUS
<1>1. CleanupTypeOK'
  BY CleanupStepType
<1>2. ASSUME UNCHANGED <<vars, runVars, revokes>> PROVE CountInv'
  BY <1>2 DEF vars, runVars, CountInv, Backed, Pending
<1>3. QED
  BY <1>1, <1>2, ScanCounts, BeaconCounts, CheckCounts, CheckFailsCounts, CounterCounts,
     LadderCounts
     DEF CleanupNext, RunCheck, MergePR, cleanupVars, ghosts

LEMMA CleanupInitCounts == CleanupInit => CountInv
<1> SUFFICES ASSUME CleanupInit PROVE CountInv
  OBVIOUS
<1>1. Pending = {}
  BY DEF CleanupInit, Pending
<1>2. Cardinality(Pending) = 0
  BY <1>1, FS_EmptySet
<1>3. QED
  BY <1>2 DEF CleanupInit, Init, CountInv, Backed, NoCommit, FreshState, EmptyContent

LEMMA CountsHold == CleanupSpec => [](CleanupTypeOK /\ CountInv)
<1>1. QED
  BY CleanupInitType, CleanupStepType, CleanupInitCounts, CleanupStepCounts, PTL DEF CleanupSpec

\* No revoke is counted twice: the stored count never exceeds the signed
\* revokes the console answered, whatever overlapped, merged or was retried.
THEOREM RevokesBacked == CleanupSpec => []RevokesBackCount
<1>1. CleanupTypeOK /\ CountInv => RevokesBackCount
  <2> SUFFICES ASSUME CleanupTypeOK, CountInv PROVE RevokesBackCount
    OBVIOUS
  <2>1. Cardinality(Pending) \in Nat /\ revokes \in Nat /\ ref.tree.content.revoke \in Nat
    BY PendingFinite DEF CleanupTypeOK, TypeOK, Commit, Tree, Content
  <2>2. QED
    BY <2>1 DEF CountInv, Backed, RevokesBackCount
<1>2. QED
  BY <1>1, CountsHold, PTL

-----------------------------------------------------------------------------
(* The counter: the store.                                                 *)

\* The SBOM beside a Report is the Report's.
Mirrors(c) == c.report # NoReport => c.sbom = c.report.sbom

MirrorInv ==
  /\ Mirrors(ref.tree.content)
  /\ \A w \in Writer : Mirrors(cur[w].content)

LEMMA MergeMirrors ==
  ASSUME NEW base \in Content, NEW own \in Content, NEW hook \in BOOLEAN
  PROVE  Mirrors(MergeForRetry(base, own, hook))
<1> DEFINE m == Merge(base, own)
<1>1. m \in Content /\ Mirrors(m)
  BY MergeType, StoreAssumption DEF Mirrors, Merge
<1>2. Mirrors(Remerged(m))
  <2>1. CASE m.report = NoReport
    BY <1>1, <2>1 DEF Remerged
  <2>2. CASE m.report # NoReport
    <3>1. m.report \in Report
      BY <1>1, <2>2 DEF Content
    <3>2. WithNotFetched(m.report, m.dep.reassess).sbom = m.report.sbom
      BY <3>1 DEF WithNotFetched, Report
    <3>3. /\ Remerged(m).report = WithNotFetched(m.report, m.dep.reassess)
          /\ Remerged(m).sbom = m.sbom
      BY <1>1, <2>2 DEF Remerged, Content
    <3>4. QED
      BY <1>1, <2>2, <3>2, <3>3 DEF Mirrors
  <2>3. QED
    BY <2>1, <2>2
<1>3. QED
  BY <1>1, <1>2 DEF MergeForRetry

LEMMA ResolvedMirrors ==
  ASSUME MirrorInv, NEW c \in Resolved
  PROVE  Mirrors(c.tree.content)
BY DEF Resolved, MirrorInv, Mirrors, NoCommit, EmptyContent

LEMMA ReadMirrors ==
  ASSUME TypeOK, MirrorInv, NEW c \in Resolved
  PROVE  Mirrors(ReadState(c).content)
<1>1. c.tree.content \in Content /\ Mirrors(c.tree.content)
  BY ResolvedType, ResolvedMirrors DEF Commit, Tree
<1>2. QED
  BY <1>1 DEF MirrorInv, Mirrors, ReadState, ReadContent, FreshState, EmptyContent, Content

LEMMA RetryMirrors ==
  ASSUME TypeOK, MirrorInv, NEW w \in Writer, NEW c \in Resolved
  PROVE  Mirrors(RetryState(w, c).content)
<1>1. /\ cur[w] \in State /\ cur[w].content \in Content /\ cur[w].remerge \in BOOLEAN
      /\ c.tree \in Tree
  BY ResolvedType DEF TypeOK, State, Commit
<1>2. ReadContent(c.tree) \in Content
  BY <1>1, ReadContentType
<1>3. Mirrors(MergeForRetry(ReadContent(c.tree), cur[w].content, cur[w].remerge))
  BY <1>1, <1>2, MergeMirrors
<1>4. QED
  BY <1>1, <1>3 DEF RetryState, State, MirrorInv

\* A run's Submit hands over what Intents allows: what it read, recounted.
LEMMA RecountIsIntent ==
  ASSUME NEW c \in Content, Mirrors(c), NEW n \in 0..MaxRevoke
  PROVE  /\ [c EXCEPT !.revoke = n] \in Intents(c)
         /\ Mirrors([c EXCEPT !.revoke = n])
<1> DEFINE next == [c EXCEPT !.revoke = n]
<1>1. n \in Nat
  BY StoreAssumption
<1>2. next \in Content /\ next.revoke = n /\ next.vex = c.vex /\ next.report = c.report
      /\ next.sbom = c.sbom /\ next.dep = c.dep
  BY <1>1 DEF Content
<1>3. MayWrite(c, next)
  BY <1>2 DEF MayWrite
<1>4. IF next.report = NoReport THEN next.sbom = c.sbom ELSE next.sbom = next.report.sbom
  BY <1>2 DEF Mirrors
<1>5. next \in Intents(c)
  BY <1>2, <1>3, <1>4, IsIntent
<1>6. QED
  BY <1>2, <1>5 DEF Mirrors

\* What a run does to the store.
RunStep(w) ==
  \/ ReadForUpdate(w) \/ Abandon(w) \/ WriteStep(w) \/ DeleteRef
  \/ \E n \in 0..MaxRevoke, hook \in BOOLEAN :
       Submit(w, [cur[w].content EXCEPT !.revoke = n], hook)

LEMMA RunStepIsNext ==
  ASSUME TypeOK, MirrorInv, NEW w \in Writer, RunStep(w)
  PROVE  Next
<1>1. cur[w].content \in Content /\ Mirrors(cur[w].content)
  BY DEF TypeOK, State, MirrorInv
<1>2. \A n \in 0..MaxRevoke : [cur[w].content EXCEPT !.revoke = n] \in Intents(cur[w].content)
  BY <1>1, RecountIsIntent
<1>3. QED
  BY <1>2 DEF RunStep, Next

LEMMA RunStepMirrors ==
  ASSUME TypeOK, MirrorInv, NEW w \in Writer, RunStep(w)
  PROVE  MirrorInv'
<1>1. Mirrors(EmptyContent)
  BY DEF Mirrors, EmptyContent
<1>2. ASSUME Return(w), Mirrors(ref'.tree.content) PROVE MirrorInv'
  BY <1>1, <1>2 DEF Return, FreshState, MirrorInv, TypeOK
<1>3. CASE ReadForUpdate(w)
  BY <1>3, ReadMirrors DEF ReadForUpdate, MirrorInv, TypeOK
<1>4. CASE Abandon(w) \/ Fail(w) \/ Exhaust(w)
  BY <1>2, <1>4 DEF Abandon, Fail, Exhaust, MirrorInv
<1>5. CASE TryWrite(w)
  <2>1. ref'.tree.content = Persisted(cur[w].content) /\ cur[w].content \in Content
    BY <1>5 DEF TryWrite, Child, BuildTree, TypeOK, State
  <2>2. Mirrors(ref'.tree.content)
    BY <2>1 DEF Mirrors, Persisted, Content
  <2>3. QED
    BY <1>2, <1>5, <2>2 DEF TryWrite
<1>6. CASE Conflict(w)
  BY <1>6 DEF Conflict, MirrorInv
<1>7. CASE Retry(w)
  BY <1>7, RetryMirrors DEF Retry, MirrorInv, TypeOK
<1>8. CASE DeleteRef
  BY <1>1, <1>8 DEF DeleteRef, NoCommit, MirrorInv
<1>9. ASSUME NEW n \in 0..MaxRevoke, NEW hook \in BOOLEAN,
             Submit(w, [cur[w].content EXCEPT !.revoke = n], hook)
      PROVE MirrorInv'
  <2>1. Mirrors([cur[w].content EXCEPT !.revoke = n])
    BY RecountIsIntent DEF TypeOK, State, MirrorInv
  <2>2. QED
    BY <1>9, <2>1 DEF Submit, MirrorInv, TypeOK
<1>10. QED
  BY <1>3, <1>4, <1>5, <1>6, <1>7, <1>8, <1>9 DEF RunStep, WriteStep

\* Each count has its revokes behind it, so none exceeds the bound.
LEMMA CountsBounded ==
  ASSUME CleanupTypeOK, CountInv, NEW w \in Writer
  PROVE  local[w] \in 0..MaxRevoke /\ cur[w].content.revoke \in 0..MaxRevoke
<1>1. /\ Cardinality(Pending) \in Nat /\ revokes \in Nat /\ local[w] \in Nat
      /\ answers \in Nat /\ revokes <= answers /\ answers <= MaxAnswers
      /\ cur[w].content.revoke \in Nat
  BY PendingFinite, CleanupAssumption DEF CleanupTypeOK, TypeOK, State, Content
<1>2. local[w] <= revokes /\ cur[w].content.revoke <= revokes
  BY <1>1 DEF CountInv, Backed
<1>3. MaxAnswers \in Nat /\ MaxRevoke \in Nat /\ MaxAnswers <= MaxRevoke
  BY CleanupAssumption, StoreAssumption
<1>4. QED
  BY <1>1, <1>2, <1>3

LEMMA CleanupIsRunStep ==
  ASSUME CleanupTypeOK, CountInv, [CleanupNext]_cleanupVars
  PROVE  (\E w \in Writer : RunStep(w)) \/ UNCHANGED vars
<1>1. ASSUME NEW w \in Writer, Scan(w) PROVE RunStep(w)
  <2>1. CASE Submit(w, cur[w].content, TRUE)
    <3>1. cur[w].content.revoke \in 0..MaxRevoke
      BY CountsBounded
    <3>2. cur[w].content = [cur[w].content EXCEPT !.revoke = cur[w].content.revoke]
      BY DEF CleanupTypeOK, TypeOK, State, Content
    <3>3. QED
      BY <2>1, <3>1, <3>2 DEF RunStep
  <2>2. QED
    BY <1>1, <2>1 DEF Scan, RunStep
<1>2. ASSUME NEW w \in Writer, Count(w) PROVE RunStep(w)
  BY <1>2, CountsBounded DEF Count, RunStep
<1>3. ASSUME NEW w \in Writer, Start(w) \/ Check(w) \/ Unchanged(w) \/ CountStep(w) PROVE RunStep(w)
  BY <1>3 DEF Start, Check, Unchanged, CountStep, RunStep, WriteStep
<1>4. ASSUME NEW w \in Writer, DeleteStateRef(w) PROVE RunStep(w) \/ UNCHANGED vars
  BY <1>4 DEF DeleteStateRef, RunStep
<1>5. QED
  BY <1>1, <1>2, <1>3, <1>4
     DEF CleanupNext, RunCheck, Leave, Beacon, CheckFails, Actuate, DeleteWorkflowFileDirect,
         OpenRemovalPR, DisableWorkflow, OpenCleanupIssue, Cancelled, MergePR, cleanupVars

LEMMA MirrorsHold == CleanupSpec => []MirrorInv
<1>1. CleanupInit => MirrorInv
  BY DEF CleanupInit, Init, NoCommit, FreshState, EmptyContent, MirrorInv, Mirrors
<1>2. CleanupTypeOK /\ CountInv /\ MirrorInv /\ [CleanupNext]_cleanupVars => MirrorInv'
  BY CleanupIsRunStep, RunStepMirrors DEF CleanupTypeOK, vars, MirrorInv
<1>3. QED
  BY <1>1, <1>2, CountsHold, PTL DEF CleanupSpec

\* The counter is a caller the store allows: its theorems hold beside the
\* ladder, and whatever the console answers.
THEOREM CleanupImplementsStore == CleanupSpec => Spec
<1>1. CleanupInit => Init
  BY DEF CleanupInit
<1>2. CleanupTypeOK /\ CountInv /\ MirrorInv /\ [CleanupNext]_cleanupVars => [Next]_vars
  BY CleanupIsRunStep, RunStepIsNext DEF CleanupTypeOK
<1>3. QED
  BY <1>1, <1>2, CountsHold, MirrorsHold, PTL DEF CleanupSpec, Spec

-----------------------------------------------------------------------------
(* The counter: the ladder.                                                *)

LEMMA TwoRevokesBehindCount ==
  ASSUME CleanupTypeOK, CountInv, NEW w \in Writer, local[w] >= RevokeThreshold
  PROVE  revokes >= RevokeThreshold
<1>1. /\ Cardinality(Pending) \in Nat /\ revokes \in Nat /\ local[w] \in Nat
  BY PendingFinite DEF CleanupTypeOK
<1>2. local[w] + Cardinality(Pending) <= revokes
  BY DEF CountInv, Backed
<1>3. QED
  BY <1>1, <1>2 DEF RevokeThreshold

\* A run enters the ladder from its count, and only at the threshold.
LEMMA EntersAtThreshold ==
  ASSUME CleanupTypeOK, [CleanupNext]_cleanupVars, NEW v \in Writer,
         phase'[v] \in Ladder, phase[v] \notin Ladder
  PROVE  local[v] >= RevokeThreshold
<1> USE DEF CleanupTypeOK
<1>1. \A p : p \in {"off", "scan", "check", "count"} => p \notin Ladder
  BY DEF Ladder
<1>2. ASSUME NEW w \in Writer, Decide(w) PROVE local[v] >= RevokeThreshold
  <2>1. CASE local[w] >= RevokeThreshold /\ Goto(w, "file")
    BY <2>1, GotoOthers
  <2>2. CASE Goto(w, "off")
    BY <1>1, <2>2, GotoOthers
  <2>3. QED
    BY <1>2, <2>1, <2>2 DEF Decide
<1>3. ASSUME NEW w \in Writer, NEW p \in {"off", "scan", "check", "count"}, Goto(w, p)
      PROVE FALSE
  BY <1>1, <1>3, GotoOthers
<1>4. ASSUME NEW w \in Writer, Actuate(w) PROVE FALSE
  <2>1. phase[w] \in Ladder
    BY <1>4
       DEF Actuate, DeleteWorkflowFileDirect, OpenRemovalPR, DeleteStateRef, DisableWorkflow,
           OpenCleanupIssue, Cancelled, Ladder
  <2>2. \E p \in Phase : Goto(w, p)
    BY <1>4
       DEF Actuate, DeleteWorkflowFileDirect, OpenRemovalPR, DeleteStateRef, DisableWorkflow,
           OpenCleanupIssue, Cancelled, Phase, Ladder
  <2>3. QED
    BY <2>1, <2>2, GotoOthers
<1>5. ASSUME UNCHANGED phase PROVE FALSE
  BY <1>5
<1>6. ASSUME NEW w \in Writer, Unchanged(w) \/ CountStep(w) PROVE local[v] >= RevokeThreshold
  BY <1>2, <1>3, <1>5, <1>6 DEF Unchanged, CountStep
<1>7. ASSUME NEW w \in Writer, Start(w) \/ Leave(w) \/ Beacon(w) \/ Check(w) \/ CheckFails(w)
      PROVE FALSE
  BY <1>3, <1>7 DEF Start, Leave, Beacon, Check, CheckFails
<1>8. QED
  BY <1>4, <1>5, <1>6, <1>7 DEF CleanupNext, RunCheck, Scan, Count, MergePR, cleanupVars, runVars

LEMMA CleanupStepLadder ==
  /\ CleanupTypeOK /\ CountInv /\ TwoRevokesBehindLadder /\ [CleanupNext]_cleanupVars
  => TwoRevokesBehindLadder'
<1> SUFFICES ASSUME CleanupTypeOK, CountInv, TwoRevokesBehindLadder, [CleanupNext]_cleanupVars,
                    NEW v \in Writer, phase'[v] \in Ladder
             PROVE  revokes' >= RevokeThreshold
  BY DEF TwoRevokesBehindLadder
<1>1. revokes >= RevokeThreshold
  <2>1. CASE phase[v] \in Ladder
    BY <2>1 DEF TwoRevokesBehindLadder
  <2>2. CASE phase[v] \notin Ladder
    BY <2>2, EntersAtThreshold, TwoRevokesBehindCount
  <2>3. QED
    BY <2>1, <2>2
<1>2. revokes \in Nat /\ (revokes' = revokes \/ revokes' = revokes + 1)
  BY AnswersStep DEF CleanupTypeOK, Beacon
<1>3. QED
  BY <1>1, <1>2 DEF RevokeThreshold

LEMMA CleanupInitLadder == CleanupInit => TwoRevokesBehindLadder
BY DEF CleanupInit, TwoRevokesBehindLadder, Ladder

\* No ladder, however many runs overlap, on fewer than two signed revokes.
THEOREM LadderBacked == CleanupSpec => []TwoRevokesBehindLadder
<1>1. QED
  BY CountsHold, CleanupInitLadder, CleanupStepLadder, PTL DEF CleanupSpec

-----------------------------------------------------------------------------
(* The counter: the ladder and the state ref.                              *)

\* A run that is about to delete the ref as its last call has seen the file go
\* or the PR open, and neither is undone.
RungsDone ==
  \A w \in Writer :
    /\ phase[w] = "ref1" => ~file
    /\ phase[w] = "ref2" => pr

\* Only the three pushes move a run to its deletion of the ref.
LEMMA RungsDoneStep ==
  CleanupTypeOK /\ RungsDone /\ [CleanupNext]_cleanupVars => RungsDone'
<1> SUFFICES ASSUME CleanupTypeOK, RungsDone, [CleanupNext]_cleanupVars, NEW v \in Writer
             PROVE  (phase'[v] = "ref1" => ~file') /\ (phase'[v] = "ref2" => pr')
  BY DEF RungsDone
<1>1. phase \in [Writer -> Phase] /\ file \in BOOLEAN /\ pr \in BOOLEAN
  BY DEF CleanupTypeOK
<1>2. (phase[v] = "ref1" => ~file) /\ (phase[v] = "ref2" => pr)
  BY DEF RungsDone
<1>3. ASSUME UNCHANGED <<file, pr>>, NEW w \in Writer, NEW p \in Phase \ {"ref1", "ref2"}, Goto(w, p)
      PROVE (phase'[v] = "ref1" => ~file') /\ (phase'[v] = "ref2" => pr')
  BY <1>1, <1>2, <1>3 DEF Goto
<1>4. ASSUME UNCHANGED <<phase, file, pr>>
      PROVE (phase'[v] = "ref1" => ~file') /\ (phase'[v] = "ref2" => pr')
  BY <1>2, <1>4
<1>5. ASSUME NEW w \in Writer, Start(w) \/ Leave(w) \/ Beacon(w) \/ Check(w) \/ CheckFails(w)
      PROVE (phase'[v] = "ref1" => ~file') /\ (phase'[v] = "ref2" => pr')
  BY <1>3, <1>5 DEF Start, Leave, Beacon, Check, CheckFails, repoVars, Phase
<1>6. ASSUME NEW w \in Writer, Scan(w) \/ Count(w) \/ Unchanged(w) \/ CountStep(w)
      PROVE (phase'[v] = "ref1" => ~file') /\ (phase'[v] = "ref2" => pr')
  BY <1>3, <1>4, <1>6
     DEF Scan, Count, Unchanged, CountStep, Decide, runVars, repoVars, Phase, Ladder
<1>7. ASSUME NEW w \in Writer, DeleteWorkflowFileDirect(w)
      PROVE (phase'[v] = "ref1" => ~file') /\ (phase'[v] = "ref2" => pr')
  <2>1. file' \in {file, FALSE} /\ pr' = pr
    BY <1>7 DEF DeleteWorkflowFileDirect
  <2>2. CASE Goto(w, "ref1") /\ ~file'
    BY <1>1, <1>2, <2>1, <2>2 DEF Goto
  <2>3. CASE Goto(w, "pr")
    <3>1. ~file => ~file'
      BY <1>1, <2>1
    <3>2. phase'[v] \in {phase[v], "pr"}
      BY <1>1, <2>3 DEF Goto
    <3>3. QED
      BY <1>2, <2>1, <3>1, <3>2
  <2>4. (Goto(w, "ref1") /\ ~file') \/ Goto(w, "pr")
    BY <1>7 DEF DeleteWorkflowFileDirect
  <2>5. QED
    BY <2>2, <2>3, <2>4
<1>8. ASSUME NEW w \in Writer, OpenRemovalPR(w)
      PROVE (phase'[v] = "ref1" => ~file') /\ (phase'[v] = "ref2" => pr')
  BY <1>1, <1>2, <1>8 DEF OpenRemovalPR, Goto
<1>9. ASSUME NEW w \in Writer, DeleteStateRef(w) \/ DisableWorkflow(w) \/ OpenCleanupIssue(w) \/ Cancelled(w)
      PROVE (phase'[v] = "ref1" => ~file') /\ (phase'[v] = "ref2" => pr')
  BY <1>3, <1>9
     DEF DeleteStateRef, DisableWorkflow, OpenCleanupIssue, Cancelled, repoVars, Phase, Ladder
<1>10. CASE MergePR
  BY <1>2, <1>10 DEF MergePR, runVars
<1>11. CASE UNCHANGED cleanupVars
  BY <1>4, <1>11 DEF cleanupVars, runVars, repoVars
<1>12. QED
  BY <1>5, <1>6, <1>7, <1>8, <1>9, <1>10, <1>11 DEF CleanupNext, RunCheck, Actuate

\* No step of a Read or a Write makes the ref vanish.
LEMMA StoreKeepsRef ==
  ASSUME TypeOK, NEW w \in Writer, Exists(ref),
         \/ ReadForUpdate(w) \/ Abandon(w) \/ WriteStep(w) \/ UNCHANGED ref
  PROVE  Exists(ref')
<1>1. token[w].depth \in Nat
  BY DEF TypeOK, Commit
<1>2. CASE TryWrite(w)
  <2>1. ref'.depth = token[w].depth + 1
    BY <1>2 DEF TryWrite, Child
  <2>2. QED
    BY <1>1, <2>1 DEF Exists
<1>3. CASE UNCHANGED ref
  BY <1>3 DEF Exists
<1>4. QED
  BY <1>2, <1>3
     DEF ReadForUpdate, Abandon, WriteStep, Conflict, Fail, Retry, Exhaust

LEMMA RefOutlivesFileStep ==
  CleanupTypeOK /\ RungsDone /\ [CleanupNext]_cleanupVars =>
    (Exists(ref) /\ ~Exists(ref') => ~file \/ pr \/ \E w \in Writer : phase[w] = "ref3")
<1> SUFFICES ASSUME CleanupTypeOK, RungsDone, [CleanupNext]_cleanupVars,
                    Exists(ref), ~Exists(ref')
             PROVE  ~file \/ pr \/ \E w \in Writer : phase[w] = "ref3"
  OBVIOUS
<1>1. TypeOK
  BY DEF CleanupTypeOK
<1>2. ref' # ref
  BY DEF Exists
<1>3. ASSUME NEW w \in Writer,
             \/ Start(w) \/ Scan(w) \/ Leave(w) \/ RunCheck(w)
             \/ DeleteWorkflowFileDirect(w) \/ OpenRemovalPR(w) \/ DisableWorkflow(w)
             \/ OpenCleanupIssue(w) \/ Cancelled(w)
      PROVE FALSE
  <2>1. ReadForUpdate(w) \/ Abandon(w) \/ WriteStep(w) \/ UNCHANGED ref
    BY <1>3
       DEF Start, Scan, Leave, RunCheck, Beacon, Check, CheckFails, Count, Unchanged, CountStep,
           DeleteWorkflowFileDirect, OpenRemovalPR, DisableWorkflow, OpenCleanupIssue, Cancelled,
           Submit, WriteStep, vars
  <2>2. QED
    BY <1>1, <2>1, StoreKeepsRef
<1>4. ASSUME NEW w \in Writer, DeleteStateRef(w)
      PROVE ~file \/ pr \/ \E u \in Writer : phase[u] = "ref3"
  BY <1>4 DEF DeleteStateRef, RungsDone
<1>5. ASSUME MergePR \/ UNCHANGED cleanupVars PROVE FALSE
  BY <1>2, <1>5 DEF MergePR, cleanupVars, vars
<1>6. QED
  BY <1>3, <1>4, <1>5 DEF CleanupNext, Actuate

\* For any number of runs: the counter outlives the ladder's pushes.
THEOREM RefOutlives == CleanupSpec => RefOutlivesFile
<1>1. CleanupInit => RungsDone
  BY DEF CleanupInit, RungsDone
<1>2. CleanupSpec => []RungsDone
  BY <1>1, CleanupTypeCorrect, RungsDoneStep, PTL DEF CleanupSpec
<1>3. QED
  BY <1>2, CleanupTypeCorrect, RefOutlivesFileStep, PTL DEF CleanupSpec, RefOutlivesFile

-----------------------------------------------------------------------------
(* The counter: the streak.                                                *)

\* A run's commit will not lower the count,
Behind(w) == token[w].tree.content.revoke <= cur[w].content.revoke

\* unless its answer was active: a scan hands over the count it read, a counter
\* that one or one more, and a merge takes the larger of two.
Streak(w) ==
  /\ stage[w] # "idle" => phase[w] \in {"scan", "count"}
  /\ stage[w] # "idle" /\ (phase[w] = "scan" \/ outcome[w] # "active") => Behind(w)
  /\ phase[w] = "count" /\ stage[w] = "read" /\ outcome[w] # "active"
       => cur[w].content.revoke <= local[w]

StreakInv == \A w \in Writer : Streak(w)

LEMMA RetryRaises ==
  ASSUME TypeOK, NEW w \in Writer, NEW c \in Resolved
  PROVE  Exists(c) => c.tree.content.revoke <= RetryState(w, c).content.revoke
<1> DEFINE won == ReadContent(c.tree)
           own == cur[w].content
<1>1. c.tree \in Tree /\ cur[w] \in State /\ own \in Content /\ cur[w].remerge \in BOOLEAN
  BY ResolvedType DEF TypeOK, Commit, State
<1>2. won.revoke = c.tree.content.revoke /\ won \in Content
  BY <1>1, ReadContentType DEF ReadContent, Tree, Content
<1>3. KeepsWork(won, MergeForRetry(won, own, cur[w].remerge))
  BY <1>1, <1>2, MergeForRetryKeepsBoth, StoreAssumption
<1>4. QED
  BY <1>1, <1>2, <1>3 DEF RetryState, State, KeepsWork

LEMMA StoreBehind ==
  ASSUME TypeOK, RootInv, NEW w \in Writer, stage[w] = "idle" \/ Behind(w),
         ReadForUpdate(w) \/ Abandon(w) \/ WriteStep(w)
  PROVE  stage'[w] = "idle" \/ Behind(w)'
<1>1. \A c \in Resolved : c \in Commit /\ c.tree.content \in Content /\ c.tree.content.revoke \in Nat
  BY ResolvedType DEF Commit, Tree, Content
<1>2. ASSUME NEW c \in Resolved, ~Exists(c) PROVE c.tree.content.revoke = 0
  <2>1. c = NoCommit
    BY <1>1, <1>2 DEF Resolved, RootInv, Rooted, Exists, Commit
  <2>2. QED
    BY <2>1 DEF NoCommit, EmptyContent
<1>3. CASE ReadForUpdate(w)
  <2> PICK c \in Resolved : token'[w] = c /\ cur'[w] = ReadState(c)
    BY <1>3 DEF ReadForUpdate, TypeOK
  <2>1. ReadState(c).content.revoke = c.tree.content.revoke
    BY <1>1, <1>2 DEF ReadState, ReadContent, FreshState, EmptyContent, Content
  <2>2. c.tree.content.revoke \in Nat
    BY <1>1
  <2>3. QED
    BY <1>1, <2>1, <2>2 DEF Behind
<1>4. CASE Abandon(w) \/ TryWrite(w) \/ Fail(w) \/ Exhaust(w)
  BY <1>4 DEF Abandon, TryWrite, Fail, Exhaust, Return, Become, TypeOK
<1>5. CASE Conflict(w)
  BY <1>5 DEF Conflict, Behind
<1>6. CASE Retry(w)
  <2> PICK c \in Resolved : token'[w] = c /\ cur'[w] = RetryState(w, c)
    BY <1>6 DEF Retry, TypeOK
  <2>1. RetryState(w, c).content.revoke \in Nat
    BY <1>1, RetryStateType DEF State, Content
  <2>2. c.tree.content.revoke <= RetryState(w, c).content.revoke
    BY <1>1, <1>2, <2>1, RetryRaises
  <2>3. QED
    BY <2>2 DEF Behind
<1>7. QED
  BY <1>3, <1>4, <1>5, <1>6 DEF WriteStep

\* A run's step leaves the others' part of the store alone.
LEMMA OtherRunsKeep ==
  ASSUME TypeOK, NEW w \in Writer, NEW v \in Writer, v # w, RunStep(w) \/ UNCHANGED vars
  PROVE  stage'[v] = stage[v] /\ cur'[v] = cur[v] /\ token'[v] = token[v]
<1>1. CASE ReadForUpdate(w) \/ DeleteRef \/ UNCHANGED vars
  BY <1>1 DEF ReadForUpdate, DeleteRef, Become, TypeOK, vars
<1>2. ASSUME NEW next, NEW hook, Submit(w, next, hook)
      PROVE  stage'[v] = stage[v] /\ cur'[v] = cur[v] /\ token'[v] = token[v]
  BY <1>2 DEF Submit, Become, TypeOK
<1>3. CASE Abandon(w) \/ TryWrite(w) \/ Fail(w) \/ Exhaust(w)
  BY <1>3 DEF Abandon, TryWrite, Fail, Exhaust, Return, Become, TypeOK
<1>4. CASE Conflict(w) \/ Retry(w)
  BY <1>4 DEF Conflict, Retry, Become, TypeOK
<1>5. QED
  BY <1>1, <1>2, <1>3, <1>4 DEF RunStep, WriteStep

LEMMA ScanStreak ==
  ASSUME CleanupTypeOK, RootInv, StreakInv, NEW w \in Writer, Start(w) \/ Scan(w) \/ Leave(w)
  PROVE  Streak(w)'
<1>1. TypeOK /\ Streak(w) /\ phase \in [Writer -> Phase] /\ outcome \in [Writer -> Outcome]
  BY DEF CleanupTypeOK, StreakInv
<1>2. CASE Start(w)
  <2>1. stage'[w] = "idle" \/ Behind(w)'
    BY <1>1, <1>2, StoreBehind DEF Start, ReadForUpdate
  <2>2. phase'[w] = "scan"
    BY <1>2, GotoOthers DEF Start
  <2>3. QED
    BY <2>1, <2>2 DEF Streak
<1>3. CASE Scan(w)
  <2>1. phase[w] = "scan" /\ phase'[w] = "scan"
    BY <1>3 DEF Scan, runVars
  <2>2. CASE Submit(w, cur[w].content, TRUE)
    <3>1. stage[w] = "read" /\ cur'[w].content = cur[w].content /\ token'[w] = token[w]
      BY <1>1, <2>2 DEF Submit, TypeOK, State
    <3>2. Behind(w) /\ Behind(w)'
      BY <1>1, <2>1, <3>1 DEF Streak, Behind
    <3>3. QED
      BY <2>1, <3>2 DEF Streak
  <2>3. CASE Abandon(w) \/ WriteStep(w)
    <3>1. stage[w] = "idle" \/ Behind(w)
      BY <1>1, <2>1 DEF Streak
    <3>2. stage'[w] = "idle" \/ Behind(w)'
      BY <1>1, <2>3, <3>1, StoreBehind DEF CleanupTypeOK
    <3>3. QED
      BY <2>1, <3>2 DEF Streak
  <2>4. QED
    BY <1>3, <2>2, <2>3 DEF Scan
<1>4. CASE Leave(w)
  <2>1. stage'[w] = "idle"
    BY <1>4 DEF Leave, vars
  <2>2. QED
    BY <2>1 DEF Streak
<1>5. QED
  BY <1>2, <1>3, <1>4

LEMMA CheckStreak ==
  ASSUME CleanupTypeOK, CleanupTypeOK', RootInv, StreakInv, NEW w \in Writer,
         Beacon(w) \/ Check(w) \/ CheckFails(w)
  PROVE  Streak(w)'
<1>1. TypeOK /\ Streak(w)
  BY DEF CleanupTypeOK, StreakInv
<1>2. CASE Beacon(w) \/ CheckFails(w)
  <2>1. stage[w] = "idle" /\ stage' = stage
    BY <1>1, <1>2 DEF Beacon, CheckFails, Streak, vars
  <2>2. QED
    BY <2>1 DEF Streak
<1>3. CASE Check(w)
  <2>1. stage'[w] = "idle" \/ Behind(w)'
    BY <1>1, <1>3, StoreBehind DEF Check, ReadForUpdate
  <2>2. phase'[w] = "count" /\ outcome' = outcome
    BY <1>3, GotoOthers DEF Check
  <2>3. local'[w] = ApplyOutcome(cur'[w].content.revoke, outcome[w])
    BY <1>3 DEF Check, CleanupTypeOK
  <2>4. cur'[w].content.revoke \in Nat
    BY DEF CleanupTypeOK, TypeOK, State, Content
  <2>5. outcome[w] # "active" => cur'[w].content.revoke <= local'[w]
    BY <2>3, <2>4 DEF ApplyOutcome
  <2>6. QED
    BY <2>1, <2>2, <2>5 DEF Streak
<1>4. QED
  BY <1>2, <1>3

LEMMA CounterStreak ==
  ASSUME CleanupTypeOK, RootInv, StreakInv, NEW w \in Writer,
         Count(w) \/ Unchanged(w) \/ CountStep(w)
  PROVE  Streak(w)'
<1>1. TypeOK /\ Streak(w) /\ phase[w] = "count"
  BY DEF CleanupTypeOK, StreakInv, Count, Unchanged, CountStep
<1>2. CASE Count(w)
  <2>1. /\ stage[w] = "read" /\ stage'[w] = "trying" /\ token'[w] = token[w]
        /\ cur'[w].content.revoke = local[w]
        /\ phase' = phase /\ outcome' = outcome /\ local' = local
    BY <1>1, <1>2 DEF Count, Submit, Become, TypeOK, State, Content, runVars
  <2>2. /\ token[w].tree.content.revoke \in Nat /\ cur[w].content.revoke \in Nat
        /\ local[w] \in Nat
    BY DEF CleanupTypeOK, TypeOK, Commit, Tree, State, Content
  <2>3. outcome[w] # "active" => token[w].tree.content.revoke <= local[w]
    BY <1>1, <2>1, <2>2 DEF Streak, Behind
  <2>4. QED
    BY <1>1, <2>1, <2>3 DEF Streak, Behind
<1>3. CASE Unchanged(w)
  <2>1. stage'[w] = "idle"
    BY <1>1, <1>3 DEF Unchanged, Abandon, Return, Become, TypeOK
  <2>2. QED
    BY <2>1 DEF Streak
<1>4. CASE CountStep(w) /\ (TryWrite(w) \/ Fail(w) \/ Exhaust(w))
  <2>1. stage'[w] = "idle"
    BY <1>1, <1>4 DEF TryWrite, Fail, Exhaust, Return, Become, TypeOK
  <2>2. QED
    BY <2>1 DEF Streak
<1>5. CASE CountStep(w) /\ (Conflict(w) \/ Retry(w)) /\ UNCHANGED phase
  <2>1. outcome' = outcome /\ stage[w] # "idle" /\ stage'[w] # "read" /\ stage'[w] # "idle"
    BY <1>1, <1>5 DEF CountStep, Conflict, Retry, Become, TypeOK
  <2>2. outcome[w] # "active" => Behind(w)'
    BY <1>1, <1>5, <2>1, StoreBehind DEF Streak, WriteStep, CleanupTypeOK
  <2>3. QED
    BY <1>1, <1>5, <2>1, <2>2 DEF Streak
<1>6. QED
  BY <1>2, <1>3, <1>4, <1>5 DEF CountStep

LEMMA LadderStreak ==
  ASSUME CleanupTypeOK, StreakInv, NEW w \in Writer, Actuate(w)
  PROVE  Streak(w)'
<1>1. phase[w] \in Ladder
  BY DEF Actuate, DeleteWorkflowFileDirect, OpenRemovalPR, DeleteStateRef, DisableWorkflow,
         OpenCleanupIssue, Cancelled, Ladder
<1>2. stage[w] = "idle"
  BY <1>1 DEF StreakInv, Streak, Ladder
<1>3. stage' = stage
  BY DEF Actuate, DeleteWorkflowFileDirect, OpenRemovalPR, DeleteStateRef, DeleteRef,
         DisableWorkflow, OpenCleanupIssue, Cancelled, vars
<1>4. QED
  BY <1>2, <1>3 DEF Streak

\* One run's step touches neither the phase nor the count of another.
LEMMA OtherRunsStreak ==
  ASSUME CleanupTypeOK, CountInv, StreakInv, NEW w \in Writer, NEW v \in Writer, v # w,
         \/ Start(w) \/ Scan(w) \/ Leave(w) \/ RunCheck(w) \/ Actuate(w)
  PROVE  Streak(v)'
<1>1. TypeOK /\ phase \in [Writer -> Phase] /\ outcome \in [Writer -> Outcome]
      /\ local \in [Writer -> Nat]
  BY DEF CleanupTypeOK
<1>2. stage'[v] = stage[v] /\ cur'[v] = cur[v] /\ token'[v] = token[v]
  <2>1. RunStep(w) \/ UNCHANGED vars
    <3>1. ASSUME Scan(w) \/ Count(w) PROVE RunStep(w)
      <4>1. /\ cur[w].content = [cur[w].content EXCEPT !.revoke = cur[w].content.revoke]
            /\ local[w] \in 0..MaxRevoke /\ cur[w].content.revoke \in 0..MaxRevoke
        BY CountsBounded DEF CleanupTypeOK, TypeOK, State, Content
      <4>2. QED
        BY <3>1, <4>1 DEF Scan, Count, RunStep
    <3>2. QED
      BY <3>1
         DEF Start, Leave, RunCheck, Beacon, Check, CheckFails, Unchanged, CountStep, Actuate,
             DeleteWorkflowFileDirect, OpenRemovalPR, DeleteStateRef, DisableWorkflow,
             OpenCleanupIssue, Cancelled, RunStep, WriteStep
  <2>2. QED
    BY <1>1, <2>1, OtherRunsKeep
<1>3. (\E p : Goto(w, p)) \/ UNCHANGED phase
  BY DEF Start, Scan, Leave, RunCheck, Beacon, Check, CheckFails, Count, Unchanged, CountStep,
         Decide, Actuate, DeleteWorkflowFileDirect, OpenRemovalPR, DeleteStateRef,
         DisableWorkflow, OpenCleanupIssue, Cancelled, runVars
<1>4. phase'[v] = phase[v]
  BY <1>1, <1>3 DEF Goto
<1>5. outcome'[v] = outcome[v] /\ local'[v] = local[v]
  BY <1>1
     DEF Start, Scan, Leave, RunCheck, Beacon, Check, CheckFails, Count, Unchanged, CountStep,
         Actuate, DeleteWorkflowFileDirect, OpenRemovalPR, DeleteStateRef, DisableWorkflow,
         OpenCleanupIssue, Cancelled, runVars
<1>6. QED
  BY <1>2, <1>4, <1>5 DEF StreakInv, Streak, Behind

LEMMA StreakStep ==
  /\ CleanupTypeOK /\ CountInv /\ RootInv /\ StreakInv /\ [CleanupNext]_cleanupVars
  => StreakInv'
<1> SUFFICES ASSUME CleanupTypeOK, CountInv, RootInv, StreakInv, [CleanupNext]_cleanupVars,
                    NEW v \in Writer
             PROVE  Streak(v)'
  BY DEF StreakInv
<1>1. CleanupTypeOK'
  BY CleanupStepType
<1>2. ASSUME NEW w \in Writer, Start(w) \/ Scan(w) \/ Leave(w) \/ RunCheck(w) \/ Actuate(w)
      PROVE  Streak(v)'
  <2>1. CASE v = w
    BY <1>1, <1>2, <2>1, ScanStreak, CheckStreak, CounterStreak, LadderStreak DEF RunCheck
  <2>2. CASE v # w
    BY <1>2, <2>2, OtherRunsStreak
  <2>3. QED
    BY <2>1, <2>2
<1>3. CASE MergePR \/ UNCHANGED cleanupVars
  BY <1>3 DEF MergePR, cleanupVars, vars, runVars, StreakInv, Streak, Behind
<1>4. QED
  BY <1>2, <1>3 DEF CleanupNext

LEMMA OnlyActiveLowers ==
  /\ CleanupTypeOK /\ CountInv /\ StreakInv /\ [CleanupNext]_cleanupVars
  => (Exists(ref') /\ ref'.tree.content.revoke < ref.tree.content.revoke =>
        \E w \in Writer : phase[w] = "count" /\ outcome[w] = "active" /\ Commits(w))
<1> SUFFICES ASSUME CleanupTypeOK, CountInv, StreakInv, [CleanupNext]_cleanupVars,
                    Exists(ref'), ref'.tree.content.revoke < ref.tree.content.revoke
             PROVE  \E w \in Writer : phase[w] = "count" /\ outcome[w] = "active" /\ Commits(w)
  OBVIOUS
<1>1. TypeOK /\ ref.tree.content.revoke \in Nat
  BY DEF CleanupTypeOK, TypeOK, Commit, Tree, Content
<1>2. ref' # ref
  BY <1>1
<1>3. PICK w \in Writer : TryWrite(w)
  <2>1. PICK w \in Writer : RunStep(w)
    BY <1>2, CleanupIsRunStep DEF vars
  <2>2. ~DeleteRef
    BY DEF DeleteRef, Exists, NoCommit
  <2>3. TryWrite(w)
    BY <1>2, <2>1, <2>2
       DEF RunStep, WriteStep, ReadForUpdate, Abandon, Conflict, Fail, Retry, Exhaust, Submit
  <2>4. QED
    BY <2>3
<1>4. /\ stage[w] = "trying" /\ stage'[w] = "idle" /\ token[w] = ref
      /\ ref'.tree.content.revoke = cur[w].content.revoke
  BY <1>1, <1>3, BuildTreeCount DEF TryWrite, Child, Return, Become, TypeOK
<1>5. ~Behind(w)
  BY <1>1, <1>4 DEF Behind, CleanupTypeOK, TypeOK, State, Content
<1>6. phase[w] = "count" /\ outcome[w] = "active"
  BY <1>4, <1>5 DEF StreakInv, Streak
<1>7. QED
  BY <1>2, <1>4, <1>6 DEF Commits

\* A streak of revokes is broken by an active answer or with the ref, by no
\* merge, no retry and no scan that read the count before it grew.
THEOREM StreakBroken == CleanupSpec => StreakBrokenOnlyByActive
<1>1. CleanupInit => StreakInv
  BY DEF CleanupInit, Init, StreakInv, Streak
<1>2. CleanupSpec => []RootInv
  BY CleanupImplementsStore, CarriesBothHolds, PTL DEF CarriesBoth
<1>3. CleanupSpec => []StreakInv
  BY <1>1, <1>2, CountsHold, StreakStep, PTL DEF CleanupSpec
<1>4. QED
  BY <1>3, CountsHold, OnlyActiveLowers, PTL DEF CleanupSpec, StreakBrokenOnlyByActive

=============================================================================
