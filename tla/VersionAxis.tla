----------------------------- MODULE VersionAxis -----------------------------
(***************************************************************************)
(* One advisory's way to a verdict on the version axis (pipeline/stages.go *)
(* and affected_bounds.go): codebase_inventory resolves each package the   *)
(* advisory affects and selects the first one the codebase declares,       *)
(* disqualification_discovery clears the advisory when every version of    *)
(* every declared package is outside its ranges, and otherwise the reach   *)
(* paths are attributed to the packages and those into a cleared one are   *)
(* dropped.                                                                *)
(*                                                                         *)
(* What a build carries is given, and beside it what a resolution says of  *)
(* it: go.mod and the go command's build list for a Go module, a fact that *)
(* may be a mere floor for the Go toolchain, a plugin for anything else.   *)
(* Versions are numbers.  Left out: the malicious and the symbol axis, the *)
(* intake's ecosystems, and the project itself, which is resolved as a     *)
(* module is.                                                              *)
(***************************************************************************)
EXTENDS Naturals, Sequences

CONSTANTS
  Package,
  Toolchain,    \* the package "stdlib": a Go build always has one version of it
  Coordinate,   \* the packages a plugin resolves; the others are Go modules
  Version,      \* versions, in order; 0 is none of them
  Advisory,     \* the advisories assessed
  NoPackage,    \* the advisory's primary is assessed: no entry was selected
  Owned,        \* of a package's name, how long a prefix of another's paths
  Bounds,       \* the toolchain facts: "exact", "minimum", "none"
  Manifests     \* what go.mod lists: "full", from go 1.17 "pruned", "unread"

\* An affected range, its bounds in order unless they are odd: 0 is no bound,
\* and a last_affected bound is no upper end.
Range == [lo : Version \cup {0}, hi : Version \cup {0}, last : BOOLEAN,
          odd : SUBSET {"lo", "hi"}]

Entry == [pkg : Package, ranges : SUBSET Range]

ASSUME AxisAssumption ==
  /\ Version \subseteq Nat \ {0}
  /\ Toolchain \in Package \ Coordinate /\ NoPackage \notin Package
  /\ Owned \in [Package -> [Package -> Nat]]
  /\ \A p, q \in Package : p # q => Owned[q][p] < Owned[p][p]
  /\ \A a \in Advisory : a \in [entries : Seq(Entry), primary : Entry, trusted : BOOLEAN]

VARIABLES
  adv,       \* the advisory
  build,     \* the versions of each package in the build
  bound,     \* ToolchainFact.Bound
  manifest,
  dep,       \* what resolving each package answers
  stage,
  at,        \* the entry codebase_inventory is at
  selected,  \* selected_module or selected_coordinate
  resolved,  \* what was resolved of the assessed package
  also,      \* also_present
  sink,      \* the package the reach path found leads into
  verdict

vars == <<adv, build, bound, manifest, dep, stage, at, selected, resolved, also, sink, verdict>>

given == <<adv, build, bound, manifest, dep>>

-----------------------------------------------------------------------------
(* Resolution: depVersions.                                                *)

Dep == [versions : SUBSET Version, complete : BOOLEAN, found : BOOLEAN, err : BOOLEAN]

Resolved(vs, complete) == [versions |-> vs, complete |-> complete, found |-> TRUE, err |-> FALSE]
Absent == [versions |-> {}, complete |-> FALSE, found |-> FALSE, err |-> FALSE]
Failed == [Absent EXCEPT !.err = TRUE]

\* singleVersion: one version, the whole of it.
Single(v) == Resolved({v}, TRUE)

\* The toolchain fact, exact or a floor of the true version.
OfToolchain(vs, b) ==
  CASE b = "exact" -> {Single(v) : v \in vs}
    [] b = "minimum" -> {Single(f) : f \in {u \in Version : \E v \in vs : u <= v}}
    [] OTHER -> {Absent}

\* moduleVersionFromBuild: the version required, no version for a module that
\* is replaced or a workspace whose list cannot be computed, and nothing for
\* one that is not listed.
OfModule(vs, m) ==
  CASE m = "unread" -> {Absent}
    [] m = "pruned" -> {Absent, Resolved({}, FALSE)} \cup {Single(v) : v \in vs}
    [] OTHER -> IF vs = {} THEN {Absent, Resolved({}, FALSE)}
                ELSE {Resolved({}, FALSE)} \cup {Single(v) : v \in vs}

\* depVersionsOf a plugin's answer: every copy, some of them, or an error; and
\* nothing where no plugin is there to ask or it finds no manifest.
OfCoordinate(vs) ==
  {Absent, Failed}
    \cup (IF vs = {} THEN {}
          ELSE {Resolved(vs, TRUE)} \cup {Resolved(some, FALSE) : some \in SUBSET vs})

Answers(p, vs, b, m) ==
  CASE p = Toolchain -> OfToolchain(vs, b)
    [] p \in Coordinate -> OfCoordinate(vs)
    [] OTHER -> OfModule(vs, m)

\* The packages the advisory names; no other one is looked at.
Affects(a) == {a.primary.pkg} \cup {a.entries[i].pkg : i \in DOMAIN a.entries}

\* A build has one toolchain, at most one version of a module, and any number
\* of copies of a package a plugin resolves.
Builds(a) ==
  {b \in [Affects(a) -> SUBSET Version] :
     \A p \in Affects(a) \ Coordinate :
       \/ p # Toolchain /\ b[p] = {}
       \/ \E v \in Version : b[p] = {v}}

-----------------------------------------------------------------------------
(* The ranges.                                                             *)

\* affectedPackageNamed: the entries that name one package, united; one with
\* no ranges leaves the package without any.
Named(p) == {i \in DOMAIN adv.entries : adv.entries[i].pkg = p}
NamedRanges(p) ==
  IF \E i \in Named(p) : adv.entries[i].ranges = {} THEN {}
  ELSE UNION {adv.entries[i].ranges : i \in Named(p)}

\* validAffectedRanges: one range without a bound withholds them all.
Valid(rs) == IF \E r \in rs : r.lo = 0 /\ r.hi = 0 /\ ~r.last THEN {} ELSE rs

\* Fault: a floor is compared as the version itself is.
AsExact(p, rs) == rs

\* rangesForToolchainFloor: being below a bound is nothing a floor can show.
ForFloor(p, rs) ==
  IF p = Toolchain /\ bound = "minimum" THEN {[r EXCEPT !.lo = 0] : r \in rs} ELSE rs

\* versionOutsideRange: below the introduced bound, or at or past the upper
\* one; a bound that does not order proves nothing.
Outside(v, r) ==
  \/ "lo" \notin r.odd /\ v < r.lo
  \/ "hi" \notin r.odd /\ r.hi # 0 /\ r.hi <= v

\* everyVersionOutside: the set is complete, and each version of it is outside
\* each of the ranges.
EveryOutside(d, rs) ==
  /\ adv.trusted
  /\ d.complete /\ d.versions # {}
  /\ rs # {} /\ \A v \in d.versions, r \in rs : Outside(v, r)

Assessed == IF selected = NoPackage THEN adv.primary.pkg ELSE selected

\* extractAffectedRange: the selected package's, or the primary's own.
AssessedRanges ==
  LET rs == IF selected = NoPackage THEN adv.primary.ranges ELSE NamedRanges(selected)
  IN ForFloor(Assessed, Valid(rs))

\* extractAlsoPresent.
PresentRanges(p) == ForFloor(p, Valid(NamedRanges(p)))

-----------------------------------------------------------------------------
(* codebase_inventory.                                                     *)

Entering == stage = "inventory" /\ at <= Len(adv.entries)
Here == adv.entries[at].pkg
Present(p, d) == [pkg |-> p, versions |-> d.versions, complete |-> d.complete]

\* The first package the codebase declares, resolved or not.
Select ==
  /\ Entering /\ selected = NoPackage /\ dep[Here].found
  /\ selected' = Here /\ resolved' = dep[Here]
  /\ at' = at + 1
  /\ UNCHANGED <<given, stage, also, sink, verdict>>

\* Every later one, with no versions when it cannot be resolved.
AlsoPresent ==
  /\ Entering
  /\ selected # NoPackage
  /\ dep[Here].found \/ dep[Here].err
  /\ also' = also \cup {Present(Here, dep[Here])}
  /\ at' = at + 1
  /\ UNCHANGED <<given, stage, selected, resolved, sink, verdict>>

NotPresent ==
  /\ Entering
  /\ ~dep[Here].found /\ ~dep[Here].err
  /\ at' = at + 1
  /\ UNCHANGED <<given, stage, selected, resolved, also, sink, verdict>>

\* Nothing is selected yet: an error fails the stage, and the assessment.
Fail ==
  /\ stage = "inventory" /\ selected = NoPackage
  /\ dep[IF Entering THEN Here ELSE adv.primary.pkg].err
  /\ stage' = "over" /\ verdict' = "failed"
  /\ UNCHANGED <<given, at, selected, resolved, also, sink>>

\* No entry was selected: the primary is resolved.
Inventoried ==
  /\ stage = "inventory" /\ ~Entering
  /\ \/ selected # NoPackage /\ UNCHANGED resolved
     \/ selected = NoPackage /\ ~dep[adv.primary.pkg].err /\ resolved' = dep[adv.primary.pkg]
  /\ stage' = "disqualify"
  /\ UNCHANGED <<given, at, selected, also, sink, verdict>>

-----------------------------------------------------------------------------
(* disqualification_discovery.                                             *)

\* The intake: a manifest that is known to be whole does not hold the primary
\* module, or none of the packages a plugin resolves.
Unlisted ==
  /\ selected = NoPackage /\ adv.primary.pkg # Toolchain
  /\ IF adv.primary.pkg \in Coordinate
     THEN \A p \in Affects(adv) : p \in Coordinate /\ dep[p] = Absent /\ build[p] = {}
     ELSE manifest # "unread" /\ build[adv.primary.pkg] = {}

Intake ==
  /\ stage = "disqualify" /\ Unlisted
  /\ stage' = "over" /\ verdict' = "unlisted"
  /\ UNCHANGED <<given, at, selected, resolved, also, sink>>

\* disqualifyEvery over the selected package and every other present one.
Disqualified ==
  /\ EveryOutside(resolved, AssessedRanges)
  /\ \A o \in also : EveryOutside(o, PresentRanges(o.pkg))

Disqualify ==
  /\ stage = "disqualify"
  /\ IF Disqualified THEN stage' = "over" /\ verdict' = "cleared"
     ELSE stage' = "reach" /\ UNCHANGED verdict
  /\ UNCHANGED <<given, at, selected, resolved, also, sink>>

-----------------------------------------------------------------------------
(* reachability_ingress: the paths, one at a time.                         *)

\* Fault: the shortest name that owns the path is its package.
Shortest(p) ==
  {o \in also : /\ Owned[o.pkg][p] > 0
                /\ \A q \in also : Owned[q.pkg][p] > 0 => Owned[o.pkg][p] <= Owned[q.pkg][p]
                /\ Owned[Assessed][p] = 0}

\* owner: the others whose name owns a longer prefix than the assessed one's
\* and than any other's.
Owner(p) ==
  {o \in also : /\ Owned[o.pkg][p] > Owned[Assessed][p]
                /\ \A q \in also : Owned[q.pkg][p] <= Owned[o.pkg][p]}

\* countedReachPaths.
Counts(p) == \A o \in Owner(p) : ~EveryOutside(o, PresentRanges(o.pkg))

\* AdvisoryRangeAbsent: a path says nothing when no range bounds anything.
RangeAbsent ==
  \A r \in IF selected = NoPackage THEN adv.primary.ranges ELSE NamedRanges(selected) :
    r.odd = {"lo", "hi"}

\* readReachAttribution: only a Go build's paths are attributed, and only where
\* a package was selected or the primary is a module.
Attributes(language) ==
  language = "go" /\ (selected = NoPackage => adv.primary.pkg \notin Coordinate)

Reach(p) ==
  /\ stage = "reach" /\ build[p] # {}
  /\ stage' = "over" /\ sink' = p
  /\ \E language \in {"go", "another"} :
       verdict' = IF Attributes(language) /\ ~Counts(p) THEN "dropped"
                  ELSE IF RangeAbsent THEN "undetermined" ELSE "candidate"
  /\ UNCHANGED <<given, at, selected, resolved, also>>

\* No path: what follows is not the version axis's.
NoReach ==
  /\ stage = "reach"
  /\ stage' = "over" /\ verdict' = "open"
  /\ UNCHANGED <<given, at, selected, resolved, also, sink>>

-----------------------------------------------------------------------------
Answer(p) == Answers(p, build[p], bound, manifest)
Given == UNION {Answer(p) : p \in Affects(adv)}

Init ==
  /\ adv \in Advisory
  /\ build \in Builds(adv) /\ bound \in Bounds /\ manifest \in Manifests
  /\ dep \in {d \in [Affects(adv) -> Given] : \A p \in Affects(adv) : d[p] \in Answer(p)}
  /\ stage = "inventory" /\ at = 1
  /\ selected = NoPackage /\ resolved = Absent
  /\ also = {} /\ sink = NoPackage /\ verdict = "none"

Next ==
  \/ Select \/ AlsoPresent \/ NotPresent \/ Fail \/ Inventoried
  \/ Intake \/ Disqualify
  \/ \E p \in Affects(adv) : Reach(p)
  \/ NoReach

Spec == Init /\ [][Next]_vars

-----------------------------------------------------------------------------
(* Properties.                                                             *)

\* The version is in one of the package's ranges, or the advisory does not
\* say which versions are.
Affected(p, v) ==
  \E e \in {adv.entries[i] : i \in DOMAIN adv.entries}
             \cup (IF adv.entries = <<>> THEN {adv.primary} ELSE {}) :
    /\ e.pkg = p
    /\ e.ranges = {} \/ \E r \in e.ranges : ~Outside(v, r)

CarriesAffected(p) == \E v \in build[p] : Affected(p, v)

\* "The version axis refutes only when the set is complete and each version, of
\* the selected package and of every other affected package present, is
\* provably outside its own ranges" (stages.go): a cleared advisory affects no
\* version in the build of a package the resolution found or failed on.
ClearedMeansClear ==
  verdict = "cleared" =>
    \A p \in Affects(adv) : dep[p].found \/ dep[p].err => ~CarriesAffected(p)

\* "The version axis must clear it too: a patched first package does not clear
\* an affected second one" (stages.go), of every package in the build.
EveryCarriedClear ==
  verdict = "cleared" => \A p \in Affects(adv) : ~CarriesAffected(p)

\* "A path is dropped only when its owner is another affected package whose
\* every version in the build is provably outside" (stages.go): no path into
\* code the advisory affects is lost to the package that is named first.
AffectedPathCounts ==
  verdict = "dropped" => ~(dep[sink].found /\ CarriesAffected(sink))
=============================================================================
