--------------------------- MODULE VersionAxisProofs ---------------------------
(***************************************************************************)
(* The version axis's theorems, for any packages, versions, ranges and     *)
(* advisories: what is cleared is clear, and no reach path into affected   *)
(* code is dropped.                                                        *)
(***************************************************************************)
EXTENDS VersionAxis, TLAPS

-----------------------------------------------------------------------------
(* What a resolution says of the build.                                    *)

LEMMA Numbers == Version \subseteq Nat /\ Toolchain \notin Coordinate
BY AxisAssumption

\* What the run is about: none of it changes.
GivenInv ==
  /\ adv \in Advisory
  /\ build \in Builds(adv)
  /\ DOMAIN dep = Affects(adv)
  /\ \A p \in Affects(adv) : dep[p] \in Answer(p)

LEMMA AffectsPackages ==
  ASSUME GivenInv
  PROVE  /\ adv.entries \in Seq(Entry) /\ adv.primary \in Entry
         /\ Affects(adv) \subseteq Package /\ adv.primary.pkg \in Affects(adv)
         /\ \A i \in DOMAIN adv.entries :
              adv.entries[i] \in Entry /\ adv.entries[i].pkg \in Affects(adv)
<1>1. adv.entries \in Seq(Entry) /\ adv.primary \in Entry
  BY AxisAssumption DEF GivenInv
<1>2. \A i \in DOMAIN adv.entries : adv.entries[i] \in Entry
  BY <1>1
<1>3. QED
  BY <1>1, <1>2 DEF Affects, Entry

LEMMA BuildVersions ==
  ASSUME GivenInv, NEW p \in Affects(adv)
  PROVE  /\ build[p] \subseteq Version
         /\ p \notin Coordinate => build[p] = {} \/ \E v \in Version : build[p] = {v}
BY DEF GivenInv, Builds

\* A complete answer names every version in the build, or for a toolchain that
\* is only known from below, one that none of them is under.
LEMMA CompleteAnswer ==
  ASSUME GivenInv, NEW p \in Affects(adv), dep[p].complete, NEW v \in build[p]
  PROVE  IF p = Toolchain /\ bound = "minimum" THEN \E u \in dep[p].versions \cap Version : u <= v
         ELSE v \in dep[p].versions
<1>1. dep[p] \in Answer(p)
  BY DEF GivenInv
<1>2. ~Absent.complete /\ ~Failed.complete
      /\ \A vs : ~Resolved(vs, FALSE).complete /\ Resolved(vs, TRUE).versions = vs
  BY DEF Absent, Failed, Resolved
<1>3. CASE p = Toolchain
  <2>1. dep[p] \in OfToolchain(build[p], bound)
    BY <1>1, <1>3, Numbers DEF Answer, Answers
  <2>2. build[p] = {v}
    BY <1>3, BuildVersions, Numbers
  <2>3. CASE bound = "exact"
    BY <1>2, <1>3, <2>1, <2>2, <2>3 DEF OfToolchain, Single
  <2>4. CASE bound = "minimum"
    <3>1. PICK f \in {u \in Version : \E x \in build[p] : u <= x} : dep[p] = Single(f)
      BY <2>1, <2>4 DEF OfToolchain
    <3>2. QED
      BY <1>2, <1>3, <2>2, <2>4, <3>1 DEF Single
  <2>5. CASE bound \notin {"exact", "minimum"}
    BY <1>2, <2>1, <2>5 DEF OfToolchain
  <2>6. QED
    BY <2>3, <2>4, <2>5
<1>4. CASE p \in Coordinate
  <2>1. dep[p] \in OfCoordinate(build[p])
    BY <1>1, <1>4, Numbers DEF Answer, Answers
  <2>2. dep[p] \in {Absent, Failed, Resolved(build[p], TRUE)}
                     \cup {Resolved(some, FALSE) : some \in SUBSET build[p]}
    BY <2>1 DEF OfCoordinate
  <2>3. dep[p] = Resolved(build[p], TRUE)
    BY <1>2, <2>2
  <2>4. QED
    BY <1>2, <1>4, <2>3, Numbers
<1>5. CASE p # Toolchain /\ p \notin Coordinate
  <2>1. dep[p] \in OfModule(build[p], manifest)
    BY <1>1, <1>5 DEF Answer, Answers
  <2>2. build[p] = {v}
    BY <1>5, BuildVersions
  <2>3. dep[p] \in {Absent, Resolved({}, FALSE)} \cup {Single(x) : x \in build[p]}
    BY <2>1, <2>2 DEF OfModule
  <2>4. dep[p] = Single(v)
    BY <1>2, <2>2, <2>3
  <2>5. QED
    BY <1>2, <1>5, <2>4 DEF Single
<1>6. QED
  BY <1>3, <1>4, <1>5

-----------------------------------------------------------------------------
(* The ranges.                                                             *)

\* A floor outside the ranges its lower bounds were taken from is under every
\* true version, so that is outside the whole ranges.
LEMMA EveryBuildVersionOutside ==
  ASSUME GivenInv, NEW p \in Affects(adv), NEW rs \in SUBSET Range,
         NEW d, d.versions = dep[p].versions, d.complete = dep[p].complete,
         EveryOutside(d, ForFloor(p, Valid(rs)))
  PROVE  /\ rs # {}
         /\ \A v \in build[p], r \in rs : Outside(v, r)
<1>1. Valid(rs) = rs /\ rs # {}
  BY DEF EveryOutside, ForFloor, Valid
<1>2. dep[p].complete /\ \A u \in dep[p].versions, r \in ForFloor(p, rs) : Outside(u, r)
  BY <1>1 DEF EveryOutside
<1>3. ASSUME NEW v \in build[p], NEW r \in rs PROVE Outside(v, r)
  <2>1. v \in Nat /\ r.lo \in Nat /\ r.hi \in Nat /\ r \in Range
    <3>1. v \in Version
      BY BuildVersions
    <3>2. r \in Range /\ r.lo \in Version \cup {0} /\ r.hi \in Version \cup {0}
      BY DEF Range
    <3>3. \A x \in Version \cup {0} : x \in Nat
      BY Numbers
    <3>4. QED
      BY <3>1, <3>2, <3>3
  <2>2. CASE p = Toolchain /\ bound = "minimum"
    <3>1. PICK u \in dep[p].versions \cap Version : u <= v
      BY <1>2, <2>2, CompleteAnswer
    <3> DEFINE f == [r EXCEPT !.lo = 0]
    <3>2. Outside(u, f)
      BY <1>2, <2>2, <3>1 DEF ForFloor
    <3>3. f.lo = 0 /\ f.hi = r.hi /\ f.odd = r.odd
      BY <2>1 DEF Range
    <3>4. u \in Nat
      BY <3>1, Numbers
    <3> HIDE DEF f
    <3>5. "hi" \notin r.odd /\ r.hi # 0 /\ r.hi <= u
      BY <3>2, <3>3, <3>4 DEF Outside
    <3>6. QED
      BY <2>1, <3>1, <3>4, <3>5 DEF Outside
  <2>3. CASE ~(p = Toolchain /\ bound = "minimum")
    BY <1>2, <2>3, CompleteAnswer DEF ForFloor
  <2>4. QED
    BY <2>2, <2>3
<1>4. QED
  BY <1>1, <1>3

LEMMA NamedRangesType ==
  ASSUME GivenInv, NEW p
  PROVE  NamedRanges(p) \in SUBSET Range
BY AffectsPackages DEF NamedRanges, Named, Entry

\* A package whose every version in the build is outside the ranges the entries
\* give it carries nothing affected.
LEMMA NamedClear ==
  ASSUME GivenInv, NEW p \in Affects(adv), adv.entries # <<>>, NamedRanges(p) # {},
         \A v \in build[p], r \in NamedRanges(p) : Outside(v, r)
  PROVE  ~CarriesAffected(p)
<1> SUFFICES ASSUME NEW v \in build[p], Affected(p, v) PROVE FALSE
  BY DEF CarriesAffected
<1>1. PICK i \in DOMAIN adv.entries :
        /\ adv.entries[i].pkg = p
        /\ \/ adv.entries[i].ranges = {}
           \/ \E r \in adv.entries[i].ranges : ~Outside(v, r)
  BY DEF Affected
<1>2. i \in Named(p)
  BY <1>1 DEF Named
<1>3. adv.entries[i].ranges # {} /\ adv.entries[i].ranges \subseteq NamedRanges(p)
  BY <1>2 DEF NamedRanges
<1>4. QED
  BY <1>1, <1>3

LEMMA UnnamedClear ==
  ASSUME adv.entries # <<>>, NEW p, Named(p) = {}
  PROVE  ~CarriesAffected(p)
BY DEF CarriesAffected, Affected, Named

-----------------------------------------------------------------------------
(* The inventory.                                                          *)

FoundOrFailed(p) == dep[p].found \/ dep[p].err

\* Inductive: no entry that is found or fails is passed over, and what is kept
\* of each package is what resolving it answered.
InventoryInv ==
  /\ at \in Nat \ {0}
  /\ selected = NoPackage => also = {}
  /\ selected # NoPackage => selected \in Affects(adv) /\ resolved = dep[selected]
                             /\ adv.entries # <<>>
  /\ \A o \in also : o.pkg \in Affects(adv) /\ o = Present(o.pkg, dep[o.pkg])
  /\ \A i \in DOMAIN adv.entries :
       i < at /\ FoundOrFailed(adv.entries[i].pkg) =>
         \/ selected = adv.entries[i].pkg
         \/ \E o \in also : o.pkg = adv.entries[i].pkg
  /\ stage # "inventory" /\ verdict # "failed" =>
       /\ Len(adv.entries) < at
       /\ selected = NoPackage => resolved = dep[adv.primary.pkg]

\* What is cleared is clear.
ClearInv == stage # "over" => verdict = "none"

LEMMA GivenStep == GivenInv /\ [Next]_vars => GivenInv'
<1> SUFFICES ASSUME GivenInv, [Next]_vars PROVE GivenInv'
  OBVIOUS
<1>1. UNCHANGED given
  BY DEF Next, Select, AlsoPresent, NotPresent, Fail, Inventoried, Intake, Disqualify, Reach,
     NoReach, vars, given
<1>2. QED
  BY <1>1 DEF given, GivenInv, Answer

LEMMA EnteringAt ==
  ASSUME GivenInv, InventoryInv, Entering
  PROVE  /\ at \in DOMAIN adv.entries /\ Here \in Affects(adv) /\ Here # NoPackage
         /\ adv.entries # <<>>
         /\ \A i \in DOMAIN adv.entries : i < at + 1 => i < at \/ i = at
<1>1. adv.entries \in Seq(Entry)
  BY AffectsPackages
<1>2. at \in DOMAIN adv.entries
  BY <1>1 DEF InventoryInv, Entering
<1>3. QED
  BY <1>1, <1>2, AffectsPackages, AxisAssumption DEF Here, InventoryInv

LEMMA InventoryStep == GivenInv /\ ClearInv /\ InventoryInv /\ [Next]_vars => InventoryInv'
<1> SUFFICES ASSUME GivenInv, ClearInv, InventoryInv, [Next]_vars PROVE InventoryInv'
  OBVIOUS
<1>0. at \in Nat \ {0} /\ adv.entries \in Seq(Entry)
  BY AffectsPackages DEF InventoryInv
<1>1. CASE Select
  <2>1. \A i \in DOMAIN adv.entries : i < at => ~FoundOrFailed(adv.entries[i].pkg)
    BY <1>1, AffectsPackages, AxisAssumption DEF Select, InventoryInv
  <2>2. /\ at' = at + 1 /\ selected' = Here /\ resolved' = dep[Here] /\ stage' = "inventory"
        /\ also' = {} /\ UNCHANGED <<adv, dep>>
    BY <1>1 DEF Select, Entering, InventoryInv, given
  <2>3. Here \in Affects(adv) /\ adv.entries # <<>> /\ Here # NoPackage
    BY <1>1, EnteringAt DEF Select
  <2>4. \A i \in DOMAIN adv.entries : i < at + 1 /\ FoundOrFailed(adv.entries[i].pkg) =>
          adv.entries[i].pkg = Here
    BY <1>1, <2>1, EnteringAt DEF Select, Here
  <2>5. QED
    BY <1>0, <2>2, <2>3, <2>4 DEF InventoryInv, FoundOrFailed
<1>2. CASE AlsoPresent
  <2>1. Present(Here, dep[Here]).pkg = Here
    BY DEF Present
  <2>2. QED
    BY <1>0, <1>2, <2>1, EnteringAt DEF AlsoPresent, Entering, InventoryInv, given, FoundOrFailed, Here
<1>3. CASE NotPresent
  BY <1>0, <1>3, EnteringAt DEF NotPresent, Entering, InventoryInv, given, FoundOrFailed, Here
<1>4. CASE Fail
  BY <1>4 DEF Fail, InventoryInv, given, FoundOrFailed
<1>5. CASE Inventoried
  <2>1. Len(adv.entries) < at
    BY <1>0, <1>5 DEF Inventoried, Entering
  <2>2. QED
    BY <1>5, <2>1 DEF Inventoried, InventoryInv, given, FoundOrFailed
<1>6. CASE Intake \/ Disqualify \/ NoReach \/ \E p \in Affects(adv) : Reach(p)
  <2>1. stage # "inventory" /\ verdict # "failed"
    BY <1>6 DEF Intake, Disqualify, NoReach, Reach, ClearInv
  <2>2. UNCHANGED <<adv, dep, at, selected, resolved, also>>
    BY <1>6 DEF Intake, Disqualify, NoReach, Reach, given
  <2>3. QED
    BY <2>1, <2>2 DEF InventoryInv, FoundOrFailed
<1>7. CASE UNCHANGED vars
  BY <1>7 DEF vars, InventoryInv, FoundOrFailed
<1>8. QED
  BY <1>1, <1>2, <1>3, <1>4, <1>5, <1>6, <1>7 DEF Next

LEMMA StageStep == ClearInv /\ [Next]_vars => ClearInv'
BY DEF ClearInv, Next, Select, AlsoPresent, NotPresent, Fail, Inventoried, Intake, Disqualify,
   Reach, NoReach, vars

-----------------------------------------------------------------------------
(* The verdicts.                                                           *)

\* The selected and every other present package, by the ranges the entries give.
LEMMA SelectedClear ==
  ASSUME GivenInv, InventoryInv, selected # NoPackage, EveryOutside(resolved, AssessedRanges)
  PROVE  ~CarriesAffected(selected)
<1>1. /\ selected \in Affects(adv) /\ resolved = dep[selected] /\ adv.entries # <<>>
      /\ AssessedRanges = ForFloor(selected, Valid(NamedRanges(selected)))
  BY DEF InventoryInv, AssessedRanges, Assessed
<1>2. /\ NamedRanges(selected) # {}
      /\ \A v \in build[selected], r \in NamedRanges(selected) : Outside(v, r)
  BY <1>1, NamedRangesType, EveryBuildVersionOutside
<1>3. QED
  BY <1>1, <1>2, NamedClear

LEMMA PresentClear ==
  ASSUME GivenInv, InventoryInv, NEW o \in also, EveryOutside(o, PresentRanges(o.pkg))
  PROVE  ~CarriesAffected(o.pkg)
<1>1. o.pkg \in Affects(adv) /\ o = Present(o.pkg, dep[o.pkg]) /\ adv.entries # <<>>
  BY DEF InventoryInv
<1>2. o.versions = dep[o.pkg].versions /\ o.complete = dep[o.pkg].complete
  BY <1>1 DEF Present
<1>3. /\ NamedRanges(o.pkg) # {}
      /\ \A v \in build[o.pkg], r \in NamedRanges(o.pkg) : Outside(v, r)
  BY <1>1, <1>2, NamedRangesType, EveryBuildVersionOutside DEF PresentRanges
<1>4. QED
  BY <1>1, <1>3, NamedClear

\* With no entry to select by, the primary's own ranges.
LEMMA PrimaryClear ==
  ASSUME GivenInv, adv.entries = <<>>,
         EveryOutside(dep[adv.primary.pkg], ForFloor(adv.primary.pkg, Valid(adv.primary.ranges)))
  PROVE  \A p \in Affects(adv) : ~CarriesAffected(p)
<1>1. adv.primary.pkg \in Affects(adv) /\ adv.primary.ranges \in SUBSET Range
  BY AffectsPackages DEF Entry
<1>2. /\ adv.primary.ranges # {}
      /\ \A v \in build[adv.primary.pkg], r \in adv.primary.ranges : Outside(v, r)
  BY <1>1, EveryBuildVersionOutside
<1>3. Affects(adv) = {adv.primary.pkg}
  BY DEF Affects
<1>4. QED
  BY <1>2, <1>3 DEF CarriesAffected, Affected

LEMMA DisqualifiedClear ==
  ASSUME GivenInv, InventoryInv, stage = "disqualify", verdict = "none", Disqualified,
         NEW p \in Affects(adv), FoundOrFailed(p)
  PROVE  ~CarriesAffected(p)
<1>0. adv.entries \in Seq(Entry) /\ at \in Nat /\ Len(adv.entries) < at
  BY AffectsPackages DEF InventoryInv
<1>1. CASE adv.entries = <<>>
  <2>1. selected = NoPackage /\ resolved = dep[adv.primary.pkg]
    BY <1>1 DEF InventoryInv
  <2>2. QED
    BY <1>1, <2>1, PrimaryClear DEF Disqualified, AssessedRanges, Assessed
<1>2. CASE adv.entries # <<>> /\ Named(p) = {}
  BY <1>2, UnnamedClear
<1>3. CASE Named(p) # {}
  <2>1. PICK i \in DOMAIN adv.entries : adv.entries[i].pkg = p
    BY <1>3 DEF Named
  <2>2. i < at
    BY <1>0, <2>1
  <2>3. selected = p \/ \E o \in also : o.pkg = p
    BY <2>1, <2>2 DEF InventoryInv
  <2>4. p # NoPackage
    BY AffectsPackages, AxisAssumption
  <2>5. QED
    BY <2>3, <2>4, SelectedClear, PresentClear DEF Disqualified
<1>4. QED
  BY <1>1, <1>2, <1>3

AxisInv == GivenInv /\ ClearInv /\ InventoryInv

LEMMA AxisInit == Init => AxisInv /\ verdict = "none"
<1> SUFFICES ASSUME Init PROVE GivenInv /\ InventoryInv /\ verdict = "none"
  BY DEF AxisInv, ClearInv
<1>1. GivenInv
  BY DEF Init, GivenInv
<1>2. adv.entries \in Seq(Entry)
  BY <1>1, AffectsPackages
<1>3. QED
  BY <1>1, <1>2 DEF Init, InventoryInv

LEMMA AxisStep == AxisInv /\ [Next]_vars => AxisInv'
BY GivenStep, StageStep, InventoryStep DEF AxisInv

LEMMA CarriesStays ==
  ASSUME [Next]_vars
  PROVE  /\ UNCHANGED given
         /\ \A p : CarriesAffected(p)' = CarriesAffected(p)
<1>1. UNCHANGED given
  BY DEF Next, Select, AlsoPresent, NotPresent, Fail, Inventoried, Intake, Disqualify, Reach,
     NoReach, vars, given
<1>2. QED
  BY <1>1 DEF given, CarriesAffected, Affected, Outside

LEMMA ClearedStep == AxisInv /\ ClearedMeansClear /\ [Next]_vars => ClearedMeansClear'
<1> SUFFICES ASSUME AxisInv, ClearedMeansClear, [Next]_vars, verdict' = "cleared",
                    NEW p \in Affects(adv), FoundOrFailed(p)
             PROVE  ~CarriesAffected(p)
  BY CarriesStays DEF ClearedMeansClear, given, Affects, FoundOrFailed
<1>1. CASE verdict = "cleared"
  BY <1>1 DEF ClearedMeansClear, FoundOrFailed
<1>2. CASE verdict # "cleared"
  <2>1. Disqualify /\ Disqualified
    BY <1>2 DEF Next, Select, AlsoPresent, NotPresent, Fail, Inventoried, Intake, Disqualify,
       Reach, NoReach, vars
  <2>2. stage = "disqualify" /\ verdict = "none"
    BY <2>1 DEF Disqualify, AxisInv, ClearInv
  <2>3. QED
    BY <2>1, <2>2, DisqualifiedClear DEF AxisInv
<1>3. QED
  BY <1>1, <1>2

\* "The version axis refutes only when the set is complete and each version, of
\* the selected package and of every other affected package present, is
\* provably outside its own ranges" (stages.go), for any advisory, any build
\* and any answers a resolution may give of it: a cleared advisory affects no
\* version in the build of a package the resolution found or failed on.
THEOREM ClearedHolds == Spec => []ClearedMeansClear
<1>1. Init => AxisInv /\ ClearedMeansClear
  BY AxisInit DEF ClearedMeansClear
<1>2. QED
  BY <1>1, AxisStep, ClearedStep, PTL DEF Spec

\* The name that owns the path to a found package is the package's own.
LEMMA DroppedClear ==
  ASSUME GivenInv, InventoryInv, stage # "inventory", verdict # "failed",
         NEW p \in Affects(adv), ~Counts(p), dep[p].found
  PROVE  ~CarriesAffected(p)
<1>0. adv.entries \in Seq(Entry) /\ at \in Nat /\ Len(adv.entries) < at
  BY AffectsPackages DEF InventoryInv
<1>1. PICK o \in Owner(p) : EveryOutside(o, PresentRanges(o.pkg))
  BY DEF Counts
<1>2. /\ o \in also /\ Owned[o.pkg][p] > Owned[Assessed][p]
      /\ \A q \in also : Owned[q.pkg][p] <= Owned[o.pkg][p]
  BY <1>1 DEF Owner
<1>3. selected # NoPackage /\ Assessed = selected /\ selected \in Affects(adv)
      /\ adv.entries # <<>> /\ o.pkg \in Affects(adv)
  BY <1>2 DEF InventoryInv, Assessed
<1>4. \A q \in Affects(adv) : Owned[q][p] \in Nat /\ (q # p => Owned[q][p] < Owned[p][p])
  BY AffectsPackages, AxisAssumption
<1>5. CASE Named(p) = {}
  BY <1>3, <1>5, UnnamedClear
<1>6. CASE Named(p) # {}
  <2>1. PICK i \in DOMAIN adv.entries : adv.entries[i].pkg = p
    BY <1>6 DEF Named
  <2>2. i < at
    BY <1>0, <2>1
  <2>3. selected = p \/ \E q \in also : q.pkg = p
    BY <2>1, <2>2 DEF InventoryInv, FoundOrFailed
  <2>4. o.pkg = p
    BY <1>2, <1>3, <1>4, <2>3
  <2>5. QED
    BY <1>1, <1>2, <2>4, PresentClear
<1>7. QED
  BY <1>5, <1>6

DroppedInv == AffectedPathCounts /\ (verdict = "dropped" => sink \in Affects(adv))

LEMMA DroppedStep == AxisInv /\ DroppedInv /\ [Next]_vars => DroppedInv'
<1> SUFFICES ASSUME AxisInv, DroppedInv, [Next]_vars, verdict' = "dropped"
             PROVE  sink' \in Affects(adv) /\ ~(dep[sink'].found /\ CarriesAffected(sink'))
  BY CarriesStays DEF DroppedInv, AffectedPathCounts, given, Affects
<1>1. CASE verdict = "dropped"
  <2>1. stage = "over"
    BY <1>1 DEF AxisInv, ClearInv
  <2>2. sink' = sink
    BY <2>1 DEF Next, Select, AlsoPresent, NotPresent, Fail, Inventoried, Intake, Disqualify,
       Reach, NoReach, vars, Entering
  <2>3. QED
    BY <1>1, <2>2 DEF DroppedInv, AffectedPathCounts
<1>2. CASE verdict # "dropped"
  <2>1. PICK p \in Affects(adv) : Reach(p) /\ ~Counts(p) /\ sink' = p
    BY <1>2 DEF Next, Select, AlsoPresent, NotPresent, Fail, Inventoried, Intake, Disqualify,
       Reach, NoReach, vars
  <2>2. stage # "inventory" /\ verdict # "failed"
    BY <2>1 DEF Reach, AxisInv, ClearInv
  <2>3. QED
    BY <2>1, <2>2, DroppedClear DEF AxisInv
<1>3. QED
  BY <1>1, <1>2

\* "A path is dropped only when its owner is another affected package whose
\* every version in the build is provably outside" (stages.go), for any
\* nesting of the packages' names: no path into code the advisory affects is
\* lost to another package.
THEOREM AffectedPathKept == Spec => []AffectedPathCounts
<1>1. Init => AxisInv /\ DroppedInv
  BY AxisInit DEF DroppedInv, AffectedPathCounts
<1>2. DroppedInv => AffectedPathCounts
  BY DEF DroppedInv
<1>3. QED
  BY <1>1, <1>2, AxisStep, DroppedStep, PTL DEF Spec
=============================================================================
