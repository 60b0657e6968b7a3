------------------------------ MODULE ScanRuns ------------------------------
(***************************************************************************)
(* The runs that write the state ref, in place of StateStore's open        *)
(* Submit: a baseline (RunBaseline), a cve-watch run (RunCVEWatch and      *)
(* earnestRun) and the self-cleanup counter (RunCheck).  Reads, tries,     *)
(* conflicts, merges and deletions are StateStore's, so every step here is *)
(* one of its steps.                                                       *)
(*                                                                         *)
(* What OSV returns, how an assessment comes out and what the fetches did  *)
(* are open at each run.  Reports are stamped in the order they are built, *)
(* so the commits of overlapping runs may come in another order; reports   *)
(* stamped alike, or by skewed clocks, are MergeRaces's.                   *)
(***************************************************************************)
EXTENDS StateStore, DepCode

CONSTANTS
  Osv,       \* the source cve-watch assesses OSV's advisories under
  CutShort,  \* the scan_cut_short note in a report's partiality
  Fetches,   \* the acquisitions a JS run may see
  MaxHeld    \* bound: the largest hold count a run writes

ASSUME ScanAssumption ==
  /\ Osv \in Source \ {NoSource}
  /\ CutShort \in Limit
  /\ Fetches \subseteq Fetch
  /\ MaxHeld \in Nat

VARIABLE clock  \* when the newest report was built

scanVars == <<vars, clock>>

Now == clock + 1

\* How one assessment ends: a verdict, a failure, or the analysis budget
\* running out before or during it.
Ends == {"reachable", "refuted", "undetermined", "failed", "cutshort"}
Completed == {"reachable", "refuted", "undetermined"}

\* Fault: an advisory whose assessment failed is skipped.
FailureSkipped(e) == IF e = "failed" THEN "none" ELSE e

RowOf(e) == IF e = "failed" THEN "undetermined" ELSE e

\* The IDs of the keys whose assessment ended in one of these ways.
IdsEnding(ends, how) == {k.id : k \in {j \in DOMAIN ends : ends[j] \in how}}

HasCutShort(rows) == \E k \in Key : rows[k] = "cutshort"

\* What record is told of a run.
Run(baseline, held, ends, missed) ==
  [baseline |-> baseline, held |-> held, assessed |-> IdsEnding(ends, Completed),
   missed |-> missed,
   undetermined |-> IdsEnding(ends, {"undetermined", "failed", "cutshort"})]

\* A JS run updates the record, any other carries it (fetchUpdate).
Recorded(js, f, prior, run, now) == IF js THEN Record(f, prior, run, now) ELSE prior

\* The Content a scan writes: its report with the listed advisories withheld.
ScanContent(c, rep, dep) ==
  [c EXCEPT !.report = WithNotFetched(rep, dep.reassess), !.sbom = rep.sbom,
            !.cursor = rep.cursor, !.dep = dep]

WithinBounds(c) == \A g \in Registry : c.dep.regs[g].held <= MaxHeld

-----------------------------------------------------------------------------
(* RunBaseline.  Its report is built before the Read whose State it        *)
(* replaces; no caller in src/ gives it a cursor, so it writes the empty one. *)

BaselineReport(ends, t, inventory) ==
  LET rows == [k \in Key |-> IF k \in DOMAIN ends THEN RowOf(ends[k]) ELSE "none"]
  IN [ts |-> t, cursor |-> {}, rows |-> rows, sbom |-> inventory, digest |-> NoDigest,
      limits |-> IF HasCutShort(rows) THEN {CutShort} ELSE {}, notes |-> {}]

BaselineContent(c, ends, missed, js, f, t, inventory) ==
  ScanContent(c, BaselineReport(ends, t, inventory),
              Recorded(js, f, c.dep, Run(TRUE, FALSE, ends, missed), t))

\* The advisories of the work set that the gate admits.
Admitted == SUBSET {k \in Key : k.source # NoSource}

Baseline(w) ==
  \E keys \in Admitted, missed \in SUBSET Advisory, js \in BOOLEAN,
     f \in Fetches, inventory \in Sbom :
    \E ends \in [keys -> Ends] :
      LET next == BaselineContent(cur[w].content, ends, missed, js, f, Now, inventory)
      IN /\ WithinBounds(next)
         /\ Submit(w, next, TRUE)
         /\ clock' = Now

-----------------------------------------------------------------------------
(* RunCVEWatch.                                                            *)

NewIds(c, current) == current \ c.cursor

\* notFetchedRetry: the rows assessed again although they are not new.
RetryKeys(c, js, new) ==
  IF ~js THEN {}
  ELSE {k \in Key :
          /\ c.report.rows[k] # "none"
          /\ c.report.rows[k] = "notfetched" \/ k.id \in c.dep.reassess
          /\ ~(k.source = Osv /\ k.id \in new)}

Assess(c, js, current) ==
  LET new == NewIds(c, current)
  IN [id: new, source: {Osv}] \cup RetryKeys(c, js, new)

\* earnestRun's rows: the fresh ones over the carried ones, but a migrated
\* row a fresh finding answers.
EarnestRows(old, ends) ==
  [k \in Key |->
     IF k \in DOMAIN ends THEN RowOf(ends[k])
     ELSE IF /\ k.source = NoSource /\ old[k] \in Undetermined
             /\ \E j \in DOMAIN ends : j.id = k.id
     THEN "none" ELSE old[k]]

\* Fault: the old count is dropped and no new one is added.
CountDropped(limits, rows) == limits \ {CutShort}

\* The cut-short count is restated for the rows the run built.
Recounted(limits, rows) ==
  (limits \ {CutShort}) \cup IF HasCutShort(rows) THEN {CutShort} ELSE {}

\* Fault: a cut-short assessment does not hold the cursor.
HoldsUncut(c, ends, js, f, graph) == ~graph \/ (js /\ Holds(f, c.dep))

\* The stored cursor is held when an assessment was cut short, when the build
\* graph failed, or when a registry holds it.
HoldsCursor(c, ends, js, f, graph) ==
  \/ IdsEnding(ends, {"cutshort"}) # {}
  \/ ~graph
  \/ js /\ Holds(f, c.dep)

EarnestReport(c, ends, t, cursor) ==
  LET rows == EarnestRows(c.report.rows, ends)
  IN [c.report EXCEPT !.ts = t, !.cursor = cursor, !.rows = rows, !.digest = NoDigest,
                      !.limits = Recounted(@, rows)]

EarnestContent(c, current, ends, missed, js, f, graph, t) ==
  LET cursor == IF HoldsCursor(c, ends, js, f, graph) THEN c.cursor ELSE current
      run == Run(FALSE, cursor = c.cursor, ends, missed)
  IN ScanContent(c, EarnestReport(c, ends, t, cursor), Recorded(js, f, c.dep, run, t))

\* Nothing new and nothing to assess again: only the cursor is written.
Heartbeat(w) ==
  LET c == cur[w].content
  IN /\ stage[w] = "read"
     /\ c.report # NoReport
     /\ \E current \in SUBSET Advisory, js \in BOOLEAN :
          /\ Assess(c, js, current) = {}
          /\ Submit(w, [c EXCEPT !.cursor = current], TRUE)
     /\ UNCHANGED clock

Earnest(w) ==
  LET c == cur[w].content
  IN /\ stage[w] = "read"
     /\ c.report # NoReport
     /\ \E current \in SUBSET Advisory, missed \in SUBSET Advisory, js \in BOOLEAN,
           f \in Fetches, graph \in BOOLEAN :
          /\ Assess(c, js, current) # {}
          /\ \E ends \in [Assess(c, js, current) -> Ends] :
               LET next == EarnestContent(c, current, ends, missed, js, f, graph, Now)
               IN /\ WithinBounds(next)
                  /\ Submit(w, next, TRUE)
                  /\ clock' = Now

-----------------------------------------------------------------------------
(* The other writers.                                                      *)

\* RunCheck: one more signed revoke, or the streak reset; no Remerge hook.
CountRevoke(w) ==
  LET c == cur[w].content
  IN \E n \in {0, c.revoke + 1} :
       /\ n <= MaxRevoke /\ n # c.revoke
       /\ Submit(w, [c EXCEPT !.revoke = n], FALSE)
       /\ UNCHANGED clock

ScanNext ==
  \/ \E w \in Writer :
       \/ Baseline(w)
       \/ Heartbeat(w)
       \/ Earnest(w)
       \/ CountRevoke(w)
       \/ (ReadForUpdate(w) \/ Abandon(w) \/ WriteStep(w)) /\ UNCHANGED clock
  \/ DeleteRef /\ UNCHANGED clock

ScanInit == Init /\ clock = 0

ScanSpec == ScanInit /\ [][ScanNext]_scanVars

-----------------------------------------------------------------------------
(* Properties.                                                             *)

Stored == ref.tree.content

\* A run skips the advisories in the cursor, so each of them has been
\* answered under OSV's source: whatever overlapped, none is silently lost.
CursorCovered ==
  \A a \in Stored.cursor :
    Stored.report # NoReport /\ Stored.report.rows[[id |-> a, source |-> Osv]] # "none"

\* A report with a row the scan never reached says that it was cut short,
\* after any number of carried rows, recounts and merges.
CutShortDisclosed ==
  HasCutShort(RowsOf(Stored.report)) => CutShort \in Stored.report.limits

\* No listed advisory is refuted, and the notes are those of the rows withheld.
Withheld(c) ==
  c.report # NoReport =>
    /\ \A k \in Key : k.id \in c.dep.reassess => c.report.rows[k] # "refuted"
    /\ c.report.notes = {k.id : k \in {j \in Key : c.report.rows[j] = "notfetched"}}

Submits(w) == stage[w] = "read" /\ stage'[w] = "trying"

\* "a scan never stores a listed advisory with a refuting verdict"
\* (not_fetched.go): the report a scan builds withholds what the record it
\* hands over lists, and its commit withholds what the merged record lists,
\* whatever overlapped.  A heartbeat builds no report and its first try applies
\* no list: it stores what it read, which the counter may have merged without
\* the hook (README, section 5).
ScanWithholds ==
  [][\A w \in Writer :
       /\ Submits(w) /\ mine'[w].report # cur[w].content.report => Withheld(mine'[w])
       /\ Commits(w) /\ cur[w].remerge /\ Withheld(mine[w])
            => Withheld(ref'.tree.content)]_vars

\* "The wall-clock leg is unaffected: no merge moves a first hold later"
\* (depcode.go): a registry that stays held across a commit keeps the time of
\* its first hold or an earlier one, and zero is no such time, so the day after
\* which a run fails runs.
FirstHoldNeverLater ==
  [][\A w \in Writer, g \in Registry :
       LET was == ref.tree.content.dep.regs[g]
           now == ref'.tree.content.dep.regs[g]
       IN Commits(w) /\ was.held > 0 /\ now.held > 0
            => 0 < now.first /\ now.first <= was.first]_vars

\* The advisories whose row was cut short are outside the cursor, or on the list
\* that is assessed again.
CutStaysNew(c) ==
  \A k \in Key :
    RowsOf(c.report)[k] = "cutshort" => k.id \notin c.cursor \/ k.id \in c.dep.reassess

\* "The advisories this pass did not assess ... must stay new, so the next
\* run assesses them" (state.go): whatever is stored.
CutShortStaysNew == CutStaysNew(Stored)

\* The rows of a table whose advisory has no row under another source.
Alone(rows, k) == \A j \in Key : j.id = k.id /\ j # k => rows[j] = "none"

\* CutStaysNew of the advisories reported under one source: both the cursor and
\* the list go by the advisory's ID, so a row that was assessed under a second
\* source answers for the first one's (README, section 5).
StaysNew(rows, cursor, listed) ==
  \A k \in Key :
    rows[k] = "cutshort" /\ Alone(rows, k) => k.id \notin cursor \/ k.id \in listed

AloneStaysNew(c) == StaysNew(RowsOf(c.report), c.cursor, c.dep.reassess)

\* The same of every run that no other run raced: its first try commits, so
\* what it read is what it replaces, and it loses no cut-short advisory,
\* whichever runs, merges and deletions came before.
UnracedCutStaysNew ==
  [][\A w \in Writer : Commits(w) /\ attempt[w] = 0 /\ AloneStaysNew(Stored)
       => AloneStaysNew(ref'.tree.content)]_vars

=============================================================================
