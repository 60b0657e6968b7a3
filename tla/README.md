# TLA+ models of Ferralon Assay

Ferralon Assay is a vulnerability-reachability scanner that runs in a
repository's own CI. Most of its source is sequential analysis, judged by a
corpus of labelled programs. What the models in this directory are about is the
rest: the state on a git ref that overlapping jobs read and compare-and-swap, the
caches and memos that concurrent work shares, the deadlines and signals that cut
a scan anywhere, and the one decision of the analysis that can clear an advisory
without looking at any code. In all of these a wrong answer takes the steps of
several actors, or a case nobody wrote down.

Paths below are relative to `src/`.

## 1. Inventory

### Components with behaviour over several steps

| Component | State | Operations | Hard behaviour |
|---|---|---|---|
| State store, `statestore/gitref.go`, `depfetch.go`, `statestore.go` | the ref; a commit's tree of report, SBOM, cursor, VEX log, revoke count, fetch record, and entries of other versions | `Read`, `Write` (`tryWrite`, retry loop), `buildTree` | CAS races, deletion of the ref between two steps, lost replies, retry budget, old and new versions on one ref |
| REST store and probe, `statestore/github.go`, `capability.go` | the same ref behind a host's API; the probe's cached answer | the requests of a `Read`, of a try, of the probe | a fast-forward test in place of a CAS, a reply lost after the effect, a parent commit that was collected |
| Merge, `statestore/merge.go`, `trigger/not_fetched.go` | none | `Merge`, `mergeForRetry`, `mergeReports`, `mergeDepFetch`, `withNotFetched` | order of arrival, ties, rows of different ages in one report |
| Baseline and cve-watch lanes, `trigger/trigger.go`, `state.go` | what one run read and built | `RunBaseline`, `RunCVEWatch`, `earnestRun` | state read long before it is written; some assessments of many fail or run out of budget |
| PR lane and one scan's course, `trigger/trigger.go`, `state.go`, `cutshort.go`, `inventory_sbom.go`, `cmd/ferralon-assay/run.go` | the rows of one run, the phase it is in, what it disclosed | `RunPRInherit`, `inheritBaseline`, `reanalyzeSlice`, `assessWithin`, `recountCutShort`, `publishAll` | a stop between any two steps; rows that are inherited, migrated, cut short or missing |
| Scan budget, `cmd/ferralon-assay/scanbudget.go` | two contexts and their causes, a timer, a one-place signal channel | `startScanBudget` and its goroutine | deadlines and signals that race each other and the end of a phase |
| Dependency-code policy, `cmd/ferralon-assay/depcode.go` | the run's outcomes; per registry the served mark, the hold count and its first time; the list of advisories to assess again | `classifyRegistry`, `holds`, `record`, `fallbackCause` | long sequences of runs of different kinds over one record |
| Dependency cache, `pipeline/dependency_acquisition.go`, `artifactcache/` | two content-addressed directories on disk | `acquirePin`, `Acquire`, `verifyAndPublish`, `linkEntry`, drops and refills | a pool of goroutines, overlapping runs, a deadline between retries, a kill between two file-system steps |
| Advisory corpus, `pipeline/advisory_source.go` | the manifest in memory, its identity, the last failure, a mutex | `current`, `Refresh`, `loadState`, `Lookup`, `lookupEach` | another program replaces, tears or removes the files at any moment |
| Plugin memo, `plugin/memo.go` | a map of `memoCall`s | `fill` | single flight; a first caller that fails, panics or is cancelled |
| Dependency readers, `internal/plugin/jsanalysis/depgraph.go` | channels, an atomic byte count | `readDeps`, `readOneDep`, `callGraphWithDeps` | late results, a shared cap, two contexts that end differently |
| Version axis, `pipeline/stages.go`, `affected_bounds.go` | the stages' artifacts for one advisory | `codebase_inventory`, `disqualification_discovery`, `reachability_ingress` | several packages of one advisory, of which the build carries some, some unresolved, some in several copies |
| Self-cleanup, `internal/selfcleanup/`, `cmd/ferralon-assay/selfcleanup.go` | the revoke count on the state ref; the workflow file, removal PR, workflow switch and issue on the platform | `Beacon`, `RunCheck`, `Actuate` (three rungs) | contradictory and transient answers, partial failure of a ladder, two ladders at once |
| Result sinks, `cmd/ferralon-assay/run.go`, `internal/resultsink`, `resultsink/github` | none | `publishAll`, `publishResult` | one surface of several fails |

### Components without

Report schema, builder and migration (`report`), the rest of the assessment
pipeline, the language analyses (`internal/plugin`, `plugins`,
`cmd/assay-plugin-*`), OSV client, intel and signals (`trigger/osv.go`,
`internal/intel`, `signals`), checkout and build graph, floor check and corpus,
telemetry and projections. Section 7 says why each is left out.

### How they interact

A job runs one lane under the two contexts of the scan budget. It acquires the
dependency code (one goroutine per lock pin, over cache directories that other
runs use at the same time), resolves its inventory, and assesses one advisory
after another. An assessment asks plugins for call graphs through the memo, so
that concurrent callers share one run of the readers, and looks the advisory up
in the corpus; the version axis may clear it before any of that.

The lane then reads a State (`readForUpdate`, which turns "no ref" into an empty
State) with the commit it was read from as its token, computes a new State, and
hands it to `Write`. `Write` builds a tree, commits it on the token and swaps the
ref if it still points there. Otherwise it re-reads the ref, merges its own State
onto the winner's, re-derives what depends on the merged values (the `Remerge`
hook), and tries again, at most `MaxRetries` more times. The hook belongs to the
scans; the self-cleanup counter writes without it. A pull request's run reads the
State and writes none. Both end in the sinks.

After the scan of a linked run, `RunCheck` posts a beacon, folds the answer into
the count on the same ref with a Read and a Write of its own, and at the
threshold `Actuate` removes the workflow file and deletes the ref with no regard
to who is between a Read and a Write. Nothing in the code serialises jobs. The
only callers of `Write` are `trigger.go:160` (baseline), `:551` (heartbeat),
`:587` (earnest run) and `selfcleanup/check.go:68` (counter).

### What makes each of them correct

- Store: a commit made after a lost race keeps what the superseded commit
  answered, disclosed and counted, and what its own caller handed in; history
  grows one commit at a time; every `Write` ends. The REST adapter is the same
  store.
- Merge: the result does not depend on who came first; the verdict kept is the
  newest; one advisory is one row; nothing is disclosed about a row that is not
  true of it.
- Lanes: an advisory in the cursor is skipped by later runs, so it must have been
  answered; a run that stopped short says so, and what it did not reach is
  reached later.
- One scan: whenever the stop comes, every advisory has one row, no refutation
  comes from work that was cancelled, what is disclosed is true, and the process
  ends.
- Policy: an advisory whose verdict was reached without a package's code is
  withheld and assessed again; a hold is counted per registry with its time.
- Cache: unverified bytes are never published, a verified entry that a run read
  is not taken away, a package that needs credentials does not stay in the
  directory kept across runs, every pin has an outcome that says what happened.
- Corpus: a good manifest is served until a good one replaces it, no change is
  missed, and a batch reads one manifest.
- Memo and readers: one run at a time, no failure inherited, a shared graph not
  cut on one caller's account, the cap kept.
- Version axis: an advisory is cleared only when nothing in the build is affected.
- Self-cleanup: the ladder starts only after the console's signed and confirmed
  answer, and leaves nothing behind.

`PROJECT.json` lists the places where each of these can go wrong ("hazards") with
the properties that watch them.

## 2. Plan

Done, in the order in which it was done:

1. `StateMerge`: the data and the merge, as pure operators.
2. `StateStore`: the ref and its writers, over `StateMerge`, with the caller left
   open; `StateLedger`, what the ref promises.
3. `MergeRaces`: overlapping scans, for what the merged State says.
4. `DepCode` and `ScanRuns`: the policy, and the lanes in place of the open caller.
5. `SelfCleanup`: counter and ladder on the same store.
6. `RestStore`: the second adapter, shown to implement `StateStore`.
7. `DepCache`, `Corpus`: what the disk and other processes do to a run.
8. `PluginMemo` and `DepReaders`, composed in `CallGraphLane`.
9. `ScanBudget` and `PRInherit`, composed in `ScanProcess`.
10. `VersionAxis`.
11. Eight proof modules: for `StateStore` (with `StateMerge` and `MergeRaces`), for its
    callers `ScanRuns` and `SelfCleanup`, for `RestStore`, `DepCache`, `Corpus`,
    `VersionAxis`, `CallGraphLane` and `ScanProcess`.

Left, most useful first:

- Reads that fail in part: `cat-file` failing on one entry of a tree reads as an
  absent file (`statestore/gitref.go:391`), and the next `Write` persists it.
- The stall rule of the dependency-code policy with wall-clock time
  (`cmd/ferralon-assay/depcode.go:500`) and the exit code it decides.
- The malicious and symbol axes of the pipeline, and the verdict's grounds.

## 3. Modules

Every module names its faults (operators with a plausible bug, under a comment
that starts with "Fault") next to the operator they replace. They are in no
specification; they are there to confirm that the properties notice them. The
`MC*` modules give constants their values and add nothing to the behaviour.

```
StateMerge --- StateStore ---+--- ScanRuns (with DepCode)
    |              |         +--- SelfCleanup
    |              +--- implements StateLedger
    +--- MergeRaces          RestStore implements StateStore
DepCache    Corpus    VersionAxis
PluginMemo + DepReaders = CallGraphLane
ScanBudget + PRInherit  = ScanProcess
```

### StateMerge

`Merge`, `mergeReports`, `mergeDepFetch`, `laterCursor`, `mergeForRetry`,
`withNotFetched` as operators on a `Content`: the mergeable part of
`statestore.State`.

- Rows are a function of (advisory, source), which is `mergeReports`' own key.
  Verdicts are kept as far as the code branches on them: refuted, reachable,
  undetermined for want of budget, undetermined for want of dependency code, any
  other undetermined.
- A cursor is a sorted comma-joined string in the code and a set of IDs here; the
  empty string is the empty set. The VEX log is a set because `mergeVEXLogs`
  removes duplicates and nothing reads its order.
- Partiality notes are split into the `dependency_not_fetched` notes (`notes`),
  which the projection recomputes, and the others (`limits`), which it does not.
- Aliases of an advisory are not modelled: where the code matches "by ID or
  alias", an advisory here has one ID.

### StateStore

| Code | Action |
|---|---|
| `Read` through `readForUpdate` | `ReadForUpdate` |
| a caller's call of `Write` | `Submit` |
| a caller that stops in between | `Abandon` |
| `tryWrite` that swaps the ref | `TryWrite` |
| `tryWrite` returning `ErrConflict` | `Conflict` |
| the re-read, the merge or the create, and the next round | `Retry` |
| the loop's bound | `Exhaust` |
| every other error, a cancelled context | `Fail` |
| deletion of the ref | `DeleteRef` |
| a commit of another version of the tool | `ForeignCommit` |

A `Conflict` does not require that the ref moved: `tryWrite` reports any failure of
`update-ref` as one, a lock held by another process included. A commit is a tree and a
depth. Commits are deterministic, so a ref that was deleted and made again from the
same State has the same hash, and comparing values is what the CAS does. Ancestors are
left out of the value; two commits that differ only there carry the same State.

`Read` is one step. `resolveRef` takes any failure of `rev-parse` that prints
nothing for a ref that is not there, so a read, and the re-read of a retry, may
find no ref where there is one (`Resolved`); the create that follows is then refused
by the swap. Otherwise `Read` reads several blobs of one commit that it has already
resolved, and a commit does not change. What a failing `cat-file` does to it is listed as a
hazard without a property.

`StateLedger` is the abstract specification: one variable, extended by one commit
at a time that keeps the VEX log and the entries of other versions, or deleted.

### RestStore

The same store over the host's Git Data API, one action per request or group of
requests that nobody can see in between: `Probe`, `ReadRef`, `Fetched`, `Build`
(blobs, tree, commit), `Swap` (`PATCH` or `POST` of the ref), `Conflict`,
`ParentGone` (`errParentGone`), `Reread`, `Refetched`, `Exhaust`, `Fail`. A
commit is the sequence of trees from its root, because its SHA is one of its
parent's. `Accepts` is the server's test: a fast-forward, or a ref that does not
exist. `Swap` ends the writer's call whether the answer arrives or is lost on the
way: the adapter returns in both cases, and the ref has moved. The probe's
choice between two ref names is left out.

`ImplementsStore` is the refinement: stages are mapped so that a Read takes
effect when its first request is answered. One kind of step is named apart,
`Recreated`, see section 5.

### MergeRaces

Racers that read the same State, each with a State of its own to write (`wrote`),
arriving in any order (`Arrive`): the first by its CAS, the others through
`mergeForRetry`. It leaves the protocol out and is exhaustive in the data instead.
What a racer may write is `Written`: a baseline's or an earnest run's State, or a
heartbeat's, which writes the report it read with another cursor beside it, smaller
than the report's own or beside a report that has none. `RaceAssumption` says of
each that it has a report, that no migrated row stands beside the row that answers
it, and that a row without a source is undetermined, as `upgradeV1`, the only code
that makes one, leaves it.

### DepCode and ScanRuns

`DepCode` is the policy of one run. A registry's tally keeps which kinds of
outcome occurred, not how many: the code compares counts with zero, and `failed`
with `missing`, which asks whether some failure was of another kind.

`ScanRuns` replaces `Submit` by `Baseline`, `Heartbeat`, `Earnest` and
`CountRevoke`. The OSV answer, the end of every assessment (verdict, failure,
stop), the packages missed, the acquisition and the build graph's failure are
existential. A baseline's report is built before the Read whose State it
replaces, as in the code, and only the record depends on that State.
Each report is stamped later than the one built before it (`clock`); equal stamps
are `MergeRaces`' subject.

### SelfCleanup

Runs that scan, then ask. `Beacon` is the answer, `Check` the Read and
`applyOutcome`, `Count` and `CountStep` the counter's Write, `Decide` the
threshold and the operator's opt-out, and one action per platform call of the
ladder. Each call may fail, a push, a request or a deletion that took effect may be
reported as failed (the file is then gone, or the removal branch pushed, or its PR
open, on a run that goes on to the next rung), and a run may be cancelled between
two of them. The verification of a signed 410 is reduced to its result. A scan
writes the count it read (`Scan`); its report is left out, because nothing about the
counter depends on it.

### DepCache

One goroutine per pin of each run, at most `AcquireWorkers` of a run at once, over
two directories that all runs share.

| Code | Action |
|---|---|
| a slot, the context, `viaUncredentialed`'s drop, which may fail | `Begin` |
| `Acquire`'s look at the published file | `CacheCheck` |
| one request, and what `classifyAcquireError` makes of it | `GetAnswer` |
| `verifyAndPublish`'s rename | `Publish` |
| `linkEntry`: the hard link, or the copy and its rename | `Link`, `LinkCopy` |
| `verifiedEntry`, the open and the read | `Look`, `Verify` |
| a mismatching entry removed from either directory | `Drop`, `DropShared` |
| a file operation that fails | `OsFails` |
| the stage's deadline; a killed run | `Expire`, `Crash` |

An entry is absent, good or bad. The hash is computed while the bytes are in a
temporary file, so that only "served" and "mismatch" come out of a request.
`saw` is what an open descriptor reads, whatever becomes of its path.

### Corpus

`artifactSource`: `HasCurrent`/`FirstLoad` are `current`, `RefreshStat` is
`Refresh` up to the reload, `LoadStat`, `LoadBody` and `StoreLoad` are
`loadState` and what is done with its result, `LookUp` one id of `lookupEach`.
The publisher (`Publish`, `Tear`, `Remove`, `WriteDoc`) may act between any two
of them. A file's identity is one number that is fresh at every write, so a
rewrite within the same size and modification time is outside the model.

### PluginMemo, DepReaders, CallGraphLane

`PluginMemo` is `fill`: `Create` and `Find` under the lock, `Return` or `Fail`
of the run, `Release` of the waiters, `Wake` and `Leave` of a waiter. `DepReaders`
is `readDeps`, `readOneDep` and `callGraphWithDeps`: workers `Take`,
`ReadPackage`, `Count`, `Parse`; the collector does `Collect`, `Gather`, `Link`.
`CallGraphLane` joins them: the readers run under the context of the caller that
happens to run the operation (`ended` is that caller's cancellation), and a plugin
that dies is `Panic`. Workers that the collector left behind go on after it.

### ScanBudget, PRInherit, ScanProcess

`ScanBudget` holds the two contexts with the cause that ended each first, the
signal goroutine (`FirstSignal`, `SecondSignal`, `WindowCloses`) and the limit's
two timers. `PRInherit` is the data: which rows a pull request inherits, which it
has to assess, what is superseded, limited or recounted.

`ScanProcess` is one run from start to exit:

| Code | Action |
|---|---|
| acquisition, `markIfStopped` | `Acquired`, `AcquireFails` |
| `inventoryWithin` | `Inventoried`, `InventoryFails` |
| the prior SBOM of a stopped baseline | `ReadPrior` |
| `RunPRInherit`'s read and its two paths | `ReadBaseline`, `ReadFails` |
| `assessWithin` | `Skip`, `Begin`, `Finish` |
| `baselineReport`, `inheritBaseline`, `reanalyzeSlice` | `Build` |
| `RunBaseline`'s write | `Write`, `WriteFails` |
| `publishAll`, `publishResult` | `Publish`, `Publishes` |
| another job's baseline | `OtherBaseline` |

The write's merge with overlapping jobs is `StateStore`'s subject and is not
repeated here: the other baseline's write is over before this one's read.

### VersionAxis

One advisory through three stages. What the build carries is given, beside what
each package's resolution answers of it: a toolchain fact that is exact, a floor
or missing; `go.mod` full, pruned or unread; a plugin that sees all copies, some,
none or fails, or no plugin or manifest to answer at all. `Select`, `AlsoPresent`, `NotPresent` and `Fail` are the loop of
`codebase_inventory`, `Intake` and `Disqualify` the next stage, `Reach` the
attribution of a path to the package whose name owns the longest prefix of it
(`Owned`), which only a Go build's paths get (`Attributes`). Versions are numbers and a range's bounds may fail to order (`odd`),
which is how the comparators' refusals enter.

## 4. Runs

All bounds are in the configurations. `CHECK_DEADLOCK FALSE` wherever jobs end
and events are bounded, so that a behaviour really stops; `corpus_reloads` checks
for deadlock, since a source goes on being asked.

| Run | Question | Bounds | Result |
|---|---|---|---|
| `store_writes` | Does a race, a deletion or an older version ever lose a row, a limit, a listed advisory, a hold count or its time? Does the ref implement the ledger, does every `Write` end? | 2 writers, 3 events (Reads, deletions, foreign commits), 1 retry, a migrated and a sourced row of one advisory, 1 foreign entry | holds |
| `races_stored` | Is one advisory ever two rows, and does the order of two scans matter? | 3 racers; every scan of 1 advisory under 2 sources, one that answered 2, and heartbeats with another cursor beside the report: emptied, or beside a report without one | holds |
| `scan_races` | Is a cursor entry always answered, a cut disclosed, a listed advisory withheld, a hold's first time kept, a cut advisory new again when nobody raced? | 2 writers, 3 events, 1 retry, 1 revoke, hold count to 1 | holds |
| `scan_cut_short` | Is a cut-short advisory new again, also after a race? | the same without revokes | violated |
| `cleanup_counts` | Two signed revokes behind each ladder, no count taken back, the ref not deleted before the file? | 2 linked runs, 4 answers and a count that may reach each of them, 7 events, 1 retry | holds |
| `rest_store` | Does the REST adapter implement the store, and is what the host accepted kept? | 2 writers, 5 events, 1 retry, hook off | holds |
| `cache_fills` | What can two runs, a deadline and a kill do to the cache and to the outcomes? | 2 runs, 3 goroutines over 2 pins, one with a credential, 2 attempts, 1 slot, 1 crash, any seed | holds |
| `corpus_reloads` | Is a change missed, a good manifest dropped, a batch mixed? | 2 callers, 2 advisories, 2 versions, 3 changes | holds |
| `call_graph` | Single flight, the cap, whose deadline cuts a shared graph | 2 callers, 2 packages of size 2 under a cap of 3, 2 readers | holds |
| `scan_process` | Rows, disclosure, exit and end of one scan | 2 advisories assessed and 1 beside, 8 baselines, 2 signals, 2 sinks of which one best-effort | holds |
| `version_axis` | Is an affected version ever cleared, or a path into affected code dropped? | 5 packages, 3 versions, every advisory of up to 2 entries, some of 3, every build and answer | holds |
| `second_package` | The same of every package in the build, found or not | a full `go.mod` | violated |

Why the bounds are enough:

- Store and merges. The merge is binary and idempotent on what it has merged, so
  two writers and one retry already give a commit that merges a merged State
  onto another; three events allow Read, Read, and a deletion or a foreign commit
  between a failed try and its retry. One advisory under two sources is the
  smallest data in which a migrated row meets the row that answers it.
- `races_stored`: two cursors beside reports that have none are the smallest case in
  which the merge falls back on one of them, and the second advisory is what makes
  the two differ without either being empty.
- `scan_races`: three events are two Reads and a third or a deletion. The five
  properties were checked once with four as well (7.3 million states, 18 minutes),
  and all five are proved for any number, and for any number of sources
  (section 6). The run has one source besides the migrated one: with two, one
  advisory and two events already take it two minutes.
- `rest_store`: five events allow both writers to read, and the ref to be
  deleted, made again and moved under them. The hook is off because it adds to the
  data of a merge and not to the protocol; `store_writes` has it on.
- `cleanup_counts`: four answers allow revoke, active, revoke, revoke over two
  runs, and seven events their Reads and the scans'.
- `cache_fills`: two goroutines on one pin in two runs and one on another are the
  smallest case in which one removes what another published while the slot of
  its run makes the third wait; two attempts give one retry, to be cut or not.
- `call_graph`: two packages that fit the cap one at a time and not together are
  what tells a test before the addition from one after it.
- `scan_process`: one advisory that is refuted in every baseline and one that is
  refuted, cut short, migrated or missing in it, in every order, with a stop in
  any place; a third advisory is outside the work set and may have been cut short.
- `version_axis`: three versions lie below, at and above a bound; a module whose
  name is a prefix of another's paths, a toolchain and two packages of a plugin
  are all the kinds of packages the resolution tells apart.

Symmetry is used in safety runs only, over writers, racers, runs or callers, where
all of them do the same and no formula names one. It is used with an action
property where that property quantifies over all of them.

`ScanRaces` and `ScanCutShort` use sets of all reports and records for `Fresh` and
`Records`, so that the guard of `Submit` excludes nothing a lane builds.

### Fairness

- `store_writes`: weak fairness of each writer's `WriteStep`. A job that is alive
  executes the loop without waiting for another one, and its sleep is bounded by a
  backoff that stops growing at a second. Which outcome a try has is left open;
  termination comes from the retry bound. A job that is killed takes no steps and
  does not return; the property is about those that are alive.
- `cache_fills`: weak fairness of each goroutine. Nothing obliges a deadline to
  pass or a run to die; a request ends because its client has a timeout
  (`fetchTimeout`).
- `call_graph`: weak fairness of each caller's own steps, of the collector and of
  the budget's timer. None of a reader: a parse may hang, and the property is that
  nobody waits for it. None of a run that panics or a caller that is cancelled.
- `scan_process`: weak fairness of the scan's own steps and of the budget's timers,
  and of an assessment's return only once its context is done
  (`Stopped /\ Finish`), since every stage is handed the context. That an
  inventory or an acquisition returns is assumed, as they are bounded by clients
  and build tools rather than by this code.

## 5. Where the code and its words differ

Two are runs with the expected violation; `PROJECT.json` quotes the lines.

1. `scan_cut_short`. A baseline writes no cursor so that everything is new to the
   next run. When it loses a CAS, the merge takes an empty cursor for a missing
   one and fills in the other side's (`statestore/merge.go:48`); an advisory the
   baseline cut short is then in the cursor, and no later run assesses it.
2. `second_package`. A Go toolchain whose version cannot be told from the build
   resolves to a package that is not there (`pipeline/stages.go:1622`), so it is
   neither selected nor recorded beside the selected one, and a patched
   `golang.org/x/net` clears an advisory that also affects the standard library of
   that build. A module that a `go.mod` below go 1.17 does not list is lost in the
   same way (`:2185`). `ClearedMeansClear`, which holds, is the statement with the
   packages restricted to those the resolution found or failed on. The run has the
   toolchain and two Go modules. A package without a plugin to ask is not found either; it is
   disclosed (`:1670`), where the toolchain's branch discloses nothing.

Others were seen while modelling and have no run:

- Rows are ranked by the timestamp of the report that holds them, and after a
  merge that is the later report's, also for rows of the earlier one
  (`statestore/merge.go:101-104`; `:16-18` has the later verdict win). A
  (time 3, says nothing) is in, B (time 1, a verdict) merges; then C (time 2, a
  newer verdict) merges and B's verdict stays. `LaterOfTwoWins` is the statement
  for two.
- The stored cursor depends on the order of two commits. The comment in `Merge` says
  "If neither side had a cursor in provenance, fall back to the raw cursor fields",
  but only the merged report's is looked at, which is the later report's
  (`statestore/merge.go:48-50`), and the fallback prefers the retrying writer
  (`:212-217`), not the later report. A scan (time 2, cursor {a, b} in its report
  and beside it) and a heartbeat (a report of time 3 without a cursor, {a} beside
  it, as a merge of `scan_cut_short`'s kind leaves and `trigger/trigger.go:548-551`
  writes again) store {a, b} if the scan commits last and {a} if the heartbeat
  does. `OrderInsensitive` therefore speaks of everything else that is
  stored, and of the cursor where the later report has one, or where the two beside
  the reports agree or one is empty (`CursorSettled`).
- On equal timestamps the merge keeps the committed winner's verdict, as the
  comment inside `mergeReports` says (`:123-128`), while the comment of `Merge`
  says the retrying writer's (`:16-19`).
- Runs with dependency code off. Such a run may retry a listed advisory, be cut
  short on it, and drop the list (`cmd/ferralon-assay/depcode.go:474`). Its cursor
  is held, but the advisory was in it already and is not assessed again.
  `ScanRaces.cfg` therefore sets `Fetches` to the runs that fetch, and
  `UnracedCutStaysNew` is shown, and proved, for those (`ListKept`).
- One advisory under two sources. The cursor and the list of advisories to assess
  again hold IDs, while rows are per (ID, source). A baseline's work set may name
  an ID under a source that is not OSV's (`cmd/ferralon-assay/acquire.go:469`). If
  it is cut short there, the next watch run assesses the ID under `osv`, and moves
  the cursor over it (`trigger/state.go:696`); or it assesses both rows again,
  completes one, and takes the ID from the list (`cmd/ferralon-assay/depcode.go:528`)
  though the other was cut. The cut row then stays. The advisory was answered under
  `osv`, so nothing is silent; `UnracedCutStaysNew` is about the advisories with a
  row under one source (`Alone`).
- The two revokes need not be consecutive (`internal/selfcleanup/counter.go:3-4`).
  The reset after an active answer is a Read and a Write that may fail
  (`check.go:61-68`); the streak then continues over the active answer. A reset
  that conflicts with any other commit is lost as well, because the larger of two
  counts wins the merge: not only to a contradicting answer, as
  `statestore/merge.go:52-55` has it, but to a scan.
- A transient answer leaves the count and still tests it (`check.go:74`), so an
  outage can start a ladder that an earlier run stopped short of
  (`ingest.go:78-80`).
- A `Write` whose ref vanished makes it again (`statestore/gitref.go:183`), after
  rung 1 left "zero residual" (`internal/selfcleanup/ladder.go:60-61`).
- Rung 3 deletes the counter before it disables the workflow (`ladder.go:90`). If
  disabling fails, a live workflow starts to count from zero. Of two ladders at
  once, the second fails its way to rung 3 and asks for a manual step that the
  first one made unnecessary. `RefOutlivesFile` is about rung 1 for this reason.
- `README.md:131` says that a custom `state-ref` is never deleted, while the
  actuator is given the ref of the store in use (`stateRefOf`,
  `cmd/ferralon-assay/selfcleanup.go:153`). There is one ref in these models.
- `acquireOne` "leaves pin's verified bytes in CacheDir"
  (`pipeline/dependency_acquisition.go:411`). A goroutine that found a bad entry
  removes it by its path (`:501`), after another run may have replaced it with a
  good one and returned. And "An existing dst is kept" (`:533`) is true of the hard
  link alone: where the two directories are on different file systems the copy is
  renamed over whatever has been put there since (`:566`), so a copy of a bad shared
  entry, begun before another run repaired both, replaces verified bytes.
  `VerifiedStays` allows the removal and that rename, and nothing else.
- A scan "never stores a listed advisory with a refuting verdict"
  (`trigger/not_fetched.go:23`), but a heartbeat projects the list only after it
  lost a CAS (`trigger/trigger.go:548-550`). The counter's merge has no hook and
  can leave a listed advisory beside a refuting verdict, as the same comment says;
  a heartbeat of a run that retries nothing then stores that State again.
  `ScanWithholds` is about the reports that scans build and about what their
  merges make of them.
- A fast-forward test is not "exactly the same conflict signal" as an expected old
  value (`statestore/github.go:23`): a ref that was deleted and made again on an
  ancestor of what the writer builds is moved, where `update-ref` would refuse. It
  takes a deletion, and the same commit made twice; `Recreated` names the step.
- A baseline that is stopped before its inventory writes the SBOM it read at the
  start of its report over one that another baseline stored since
  (`trigger/trigger.go:126-127`, `:129-148`). `UnracedSbomKept` excludes that race.
- The limits of a pull request's own inventory (`DiffLimits`) are "Disclosed on BOTH
  paths" (`trigger/trigger.go:309`). `inheritBaseline` discloses them
  (`trigger/state.go:221`); `reanalyzeSlice` adds the work set's limits and not
  these (`:460-471`), which `PRReport` follows.
- A run that fails after a stop is marked `scan-truncated` when its checkout or its
  work set failed; where the store or an option fails between the two, the error is
  returned without the mark (`cmd/ferralon-assay/main.go:198-211`).
- The intake clears an advisory when the manifest lacks the primary module, and
  does not look at the other packages it affects (`Intake`).

## 6. Proofs

Eight modules of proofs, each on top of the module it is about and for every
value of the constants. Each safety theorem rests on an invariant that is
inductive where the property is not.

`StateStoreProofs`, for any sets of writers, reports and records, begins with the
lemmas about merges: a merge of two Contents is a Content; it keeps the work of
both sides (`KeepsWork`: the answered advisories, limits, log entries, revokes,
and the record); the projection keeps them too; stamped holds merge to stamped
holds; `KeepsWork` is reflexive and transitive. Then:

- `TypeCorrect`: `Spec => []TypeOK`.
- `CarriesBothHolds`: `Spec => []CarriesBoth`. `RaceLoserKeepsWinner` and
  `CommitCarriesIntent` speak of a step, the commit; what makes the step right
  was put in place by earlier ones. `CarriesBoth` says what a writer holds in
  between: after a merge, the work of the commit its token names (`WinnerInv`);
  throughout, its caller's (`OwnInv`) and the log of the token's commit
  (`LogInv`). `WinnerInv` needs that retries start at zero for each `Write`
  (`AttemptInv`) and that a commit at depth zero is the absent ref (`RootInv`),
  since a vanished ref is retried as a create and owes nothing to any winner.
- `WinnerKept`, `IntentKept`: the two action properties, from it.
- `HoldsStayStamped`: from the same argument for the stamps that writers carry.
- `StoreImplementsLedger`: every step of the store is a step of the ledger or
  leaves the ref alone; `LogInv` is what a commit needs to keep the log.

Its second part is `MergeRaces`, for any number of racers and any reports. The
three properties speak of one State that came out of several merges, and need not
be shown by induction over the order: `RaceInv` says of the stored State that it
has no migrated row beside its answer, and that while at most two racers are in,
it is what one of them wrote or the merge of the two.

- `OneRowStored`: a merge drops the migrated rows that the other side answers
  (`KeptRows`), and the projection changes no row's presence.
- `RaceOrderInsensitive`: with different times the primary is the same report on
  either side (`MergeCommutes`), and each other field but the cursor is merged by a
  function of both. The merge takes the primary's cursor, and where that is empty
  one of the two beside the reports by the order of its arguments
  (`RemergedCursor`), which is why the theorem needs `CursorSettled` for the cursor
  and no assumption on what writers store beside their reports.
- `LaterWins`: the later of two is the primary of their merge.

`CallersProofs` has two parts. The first is `ScanRuns`, for any sets of writers,
advisories, sources, registries and fetches:

- `ScanImplementsStore`: `ScanSpec => Spec`. What a baseline, a heartbeat, an
  earnest run or the counter hands to `Write` is one of `Intents`, so all that is
  proved of the store, its refinement of the ledger included, holds of the runs
  the code makes.
- `CursorStaysCovered` and `CutsStayDisclosed`, from `SoundInv`: every State,
  stored or carried, has a row under OSV's source for each advisory in its cursor
  and in its report's cursor, and the note with a cut row. The report's cursor is
  needed because a merge prefers it (`MergedCursor`), and the carried States
  because they are what merges; no report means no cursor, since a merge takes the
  other side's rows with the other side's cursor.
- `FirstHoldStays`, from `HoldInv`: against the commit its token names, a writer
  carries no later first hold. After a read the two records are equal, which is
  where the stamps of `StampedInv` and the binding of the stored record to its
  report are needed; a merge takes the earlier time.
- `ScansWithhold`, from `WithholdInv`: what a hooked `Write` carries stays withheld,
  as each merge derives its rows again over the merged list.
- `CutsStayNew`: `ListKept => (ScanSpec => UnracedCutStaysNew)`, where `ListKept`
  says that no run has dependency code off. The invariant (`FirstTryInv`) compares
  what a writer hands over with what it read, which is the commit its token names
  until it merges. The work is in `EarnestStaysNew`: a row that the run itself cut
  holds the cursor, and if its ID is in the cursor it was assessed for its place on
  the list, which `Record` leaves it; a row that the run carries was outside the
  cursor, and OSV does not report it, or on the list, and then no JS run would have
  carried it. For the first case every withheld row must be listed
  (`WithheldListed`, in `SoundInv`), through merges and deletions, or a row could
  be assessed again without being on the list.

The second part is `SelfCleanup`, for any finite set of runs:

- `CleanupTypeCorrect`: `CleanupSpec => []CleanupTypeOK`.
- `RevokesBacked` and `LadderBacked`, from `CountInv`. A count on the ref that is
  at most the number of signed revokes is not inductive: a run whose answer is
  not yet counted will add one. `Pending` is the set of those runs, and the
  invariant is that every count anywhere (stored, carried by a writer, computed
  by a run) leaves room for all of them: count + |Pending| <= revokes. A revoke
  adds one to both sides; `Check` takes its run out of `Pending` and adds one to
  the count it computes; a merge takes a maximum.
- `CleanupImplementsStore`: `CleanupSpec => Spec`, with the platform calls and the
  answers as stuttering steps. What the counter and a scan hand to `Write` is one
  of `Intents`.
- `StreakBroken`, from `StreakInv`. "No commit lowers the count unless its run was
  told the installation is active, or the ref was deleted" is about the stored
  count at the commit, and the run computed its count from an earlier one. The
  invariant says that every run that was not told so carries at least the count of
  the commit its token names: the one it read, until it merges, and the larger of
  two after that; and a token that is the ref at the time of the swap names the
  count that the commit replaces.
- `RefOutlives` from `RungsDone`: a run that is about to delete the ref after rung
  1 or 2 has deleted the file or opened the removal request, and no step takes
  that back; what is left is rung 3.

`RestStoreProofs`, for any writers, retries, reports and deletions, begins with
lemmas about commits as sequences of trees: the ancestor relation is a partial
order, a child has its parent's ancestors and itself, and a fast-forward keeps
what was in the history. `RestInv` then has four parts: `RestShape` (types, and
what each stage has read), `MadeInv` (a commit that a writer built is a child of
its token with the tree of its State), `TokenInv` (what a writer read is in the
ref's history unless the ref was deleted since, `gone`) and `AckInv` (so is what
the server accepted).

- `AcceptedStays`: `Spec => AcknowledgedStays`. A server that only
  fast-forwards keeps the history; that the commit it accepts has the old ref in
  its own is `MadeInv`.
- `RestImplementsStore`: `Spec => ImplementsStore`. Each action is mapped to
  the step of `StateStore` it implements or to a stuttering step; `Swap` is a
  `TryWrite` when the token is the ref, and otherwise the server accepted a
  descendant of a commit that is older than the ref. `TokenInv` shows that this
  takes a deletion, which makes the step `Recreated`.
- `UndeletedImplementsStore`: while nobody deletes the ref between a Read and its
  Write, it implements `StateStore` with no step named apart.

`DepCacheProofs`, for any runs, goroutines, pins, seeds and number of crashes:

- `BadStaysUnpublished` needs the steps only: every one that writes an entry
  writes absent, good, what the shared directory holds, or a copy of what it held.
- `CredentialedStaysGone`: a busy goroutine of a credentialed pin has emptied the
  shared entry, and no goroutine fills it, since all that would are credentialed.
- `VerifiedHolds` from `TrustInv`, which speaks of a goroutine from the moment its
  descriptor saw good bytes, and not only from its outcome on: the entry is good,
  or another goroutine repaired it or put a bad copy over it.
- `EvidenceHolds` from `EvidenceInv`: only a goroutine at its fetch loop, or past
  it, remembers that an earlier attempt found the registry unavailable.

`CorpusProofs`, for any callers, manifests and changes:

- `GoodIsKept`, from the guard of a store and the lock.
- `NilHolds` from `CurrentInv`: the identity that is served, or about to be, is
  never newer than the file's, and where they are equal the content is the same;
  and once a caller was told that all is well, every other one that is about to
  store read the same file, until the file changes.
- `BatchHolds` from `BatchInv`: what a batch found so far is of its snapshot.

`VersionAxisProofs`, for any advisories, builds and answers:

- `ClearedHolds` from `GivenInv` (what a resolution that is complete says is what
  the build carries, or a floor of it), `InventoryInv` (every found package is
  selected or recorded beside it, with what resolving it answered) and `ClearInv`; a lemma shows that a floor
  outside a range without its lower bound puts the true version outside it too.
- `AffectedPathKept` from `DroppedInv`. It uses that a package owns its own paths
  by a longer prefix than any other does (`AxisAssumption`).

`CallGraphProofs`, for any callers, packages, cap and number of readers:

- `MemoCorrect`: which callers may own a `memoCall` in each state. `RunsOnce` and
  `FailureIsOwn` follow.
- `CapIsKept` from `CapInv`. The sum in `CapHolds` is a fold over a set, and what a
  recursive definition computes cannot be proved by the library's induction
  theorems here. It is tied to a cardinality instead: `Weight(T)` is the number of
  pairs of a package in T and one of its bytes. `Weight` satisfies the fold's
  equations (`WeightSums`), and they have one solution on the subsets of a finite
  set (`SumsUnique`: a minimal subset on which two solutions differ is neither
  empty nor has an element to take away), so the fold is the weight
  (`FoldIsWeight`). The invariant is that what was let through weighs no more than
  the counter, which only grows, and no more than the cap: a worker is let through
  on the value that its own atomic add returned, and by then every package let
  through earlier had been added.
- `SharedIsWhole` from `LeftInv`: while a caller runs the operation uncancelled, a
  package is left out only if the budget ran out; a cancelled caller gets an error
  and its graph is not shared.

`ScanProcessProofs`, for any work set, stored baselines, gaps, sinks and signals:

- `LoopInv`: the rows built so far, the advisory in hand and those left divide the
  work set (`ShapeInv`, `FreshInv`); what is neither built nor left has a stored
  row that stands (`AnsweredInv`); a row is cut short only after a stop. With it,
  `BuiltInv` says what `Build` made of them.
- `EarnedRefutations`, `AnsweredAll`, `CountIsTrue` and `TruncationIsSaid` from
  `BuiltInv`. `AnsweredAll` needs that a stored baseline has one row for a key and
  none beside a migrated one (`RowsApart`), which `OneRowPerAdvisory` shows of
  merges, and that a work set takes an id from one source, which the admission
  sees to: with two, a fresh row under one source would supersede a migrated row
  that answered the other.
- `CountIsTrue` also needs that rows are finitely many, and `CauseInv` that the
  cause of a stop is one a report can state.
- `OutageHolds`: the failed sinks are among those tried, and all are tried.
- `StoppedKeepsSbom` from `SbomInv`: from the read on, the carried SBOM is the
  stored one unless somebody else wrote.
- `ProcessTypeCorrect`.

The assumptions are those of the modules, on constants only, each named and
evaluated by TLC in the runs: `DataAssumption`, `StoreAssumption`,
`ScanAssumption`, `RaceAssumption`, `CleanupAssumption`, `RestAssumption`, `DepCacheAssumption`, `CorpusAssumption`, `AxisAssumption`,
`MemoAssumption`, `ReadersAssumption`, `SignalAssumption`, `RowAssumption`,
`ProcessAssumption`. `StoreAssumption` says that the records callers hand in are
stamped, which `record` sees to, and that a report is not the value that stands
for none. `CleanupAssumption` gives the count room for every answer
(`MaxAnswers <= MaxRevoke`): the code's counter has no maximum, and with a smaller bound the
model's counter would stop where the code's goes on. Two theorems have a hypothesis
of their own: `ListKept` in `CutsStayNew`, above, and no deletion under a Read in
`UndeletedImplementsStore`.

Only model-checked is liveness: `WriteReturns`, `EveryPinAnswered`,
`EveryCallerReturns` and `StoppedScanEnds`, out of the prover's reach as ENABLED
is. The two expected violations are TLC's as well. Every other property of the
runs is a theorem.

There is no RECURSIVE operator in the models.

## 7. Not modelled

- The language analyses (`internal/plugin`, `plugins`, `cmd/assay-plugin-*`),
  which are most of the 165 thousand lines: parsers, call-graph builders, tables
  of platform methods. They are sequential, keep no state between calls and are judged by
  a labelled corpus; a model of one would be a second implementation. For this
  reason the mapped lines are a small share of the source although most of what
  is concurrent, persistent or cut by a deadline is covered. Their one concurrent
  part is `DepReaders`.
- The pipeline's malicious and symbol axes, taint, grounds and the version
  grammars' comparators: pure functions. Their outcomes are open.
- The in-memory store (`statestore/mem.go`), which tests use in place of the git
  one.
- Reads that fail in part (`readFile`, `statestore/gitref.go:391`) and the stall
  rule's clock (section 2).
- The plugin subprocess protocol: request and reply over pipes, one at a time.
- The report's other fields (SBOM details, ranking, entry points, subject): no
  merge rule tells them apart beyond what the chosen side supplies.
- OSV, intel and signals: lookups in downloaded data; what OSV returns is an open
  input of `ScanRuns`.
- Checkout and build graph: file-system and build-tool I/O; that one failed is an
  input of an earnest run.
- What a sink renders, report migration, floor check and corpus evaluation,
  telemetry and projections: output formats and batch checks without state.
