------------------------------ MODULE DepCache ------------------------------
(***************************************************************************)
(* Filling the dependency cache, pipeline/dependency_acquisition.go over   *)
(* artifactcache: one goroutine per lock pin, at most AcquireWorkers of a  *)
(* run at once, over two content-addressed directories.  CacheDir is what  *)
(* the JS lane reads; UncredentialedDir, when the cache is split, is the   *)
(* one a caller keeps across runs and holds only what a registry without   *)
(* an auth entry serves.  Runs that overlap share both directories, and a  *)
(* run may be killed between two file-system steps.                        *)
(*                                                                         *)
(* Left out: the provenance sidecar, which nothing here decides on (the    *)
(* artifact's presence is the hit), and pins refused before any step (no   *)
(* integrity, a malformed one, a malformed npm configuration).             *)
(***************************************************************************)
EXTENDS Naturals, FiniteSets

CONSTANTS
  Run,            \* scans that share the directories
  Worker,         \* one per pin of every run
  Pin,            \* lock digests
  RunOf, PinOf,   \* of a worker
  Credentialed,   \* the workers whose package has an auth entry
  Fetching,       \* the runs in fetch mode, the others being offline
  Split,          \* UncredentialedDir is set
  Seeds,          \* what the directories may hold before any of the runs
  AcquireWorkers, \* acquireWorkers
  MaxFetchAttempts,
  MaxCrashes      \* bound on killed runs

Dir == {"read", "shared"}
Bytes == {"absent", "good", "bad"}

ASSUME DepCacheAssumption ==
  /\ RunOf \in [Worker -> Run] /\ PinOf \in [Worker -> Pin]
  /\ Credentialed \subseteq Worker /\ Fetching \subseteq Run
  /\ Split \in BOOLEAN /\ Seeds \subseteq [Dir -> [Pin -> Bytes]]
  /\ AcquireWorkers \in Nat \ {0} /\ MaxFetchAttempts \in Nat \ {0}
  /\ MaxCrashes \in Nat

VARIABLES
  entry,   \* what each directory holds under a digest
  wk,      \* each goroutine
  expired, \* the runs whose stage deadline passed or whose context ended
  crashed  \* the runs that were killed

vars == <<entry, wk, expired, crashed>>

-----------------------------------------------------------------------------
\* How one request can end: "cut" by the run's context, "other" for an error
\* that names no registry condition, a cache write that failed among them.
Answer == {"served", "mismatch", "unavailable", "unreachable", "absent",
           "refused", "cut", "other"}

Unread == {"integrity_mismatch", "policy_refused", "not_served",
           "registry_unavailable", "registry_unreachable", "fetch_failed",
           "not_cached", "cancelled"}

ReadOutcome == {"read_network", "read_cache"}

\* attempt, prev, last: Acquire's loop, prev that an earlier attempt found the
\* registry unavailable and last how the latest one ended; saw: the bytes
\* behind the open descriptor; spoilt, for the properties: a copy it put in
\* CacheDir did not hold good bytes.
Idle == [pc |-> "idle", fill |-> 1, attempt |-> 0, prev |-> FALSE,
         last |-> "none", fetched |-> FALSE, saw |-> "absent", spoilt |-> FALSE,
         outcome |-> "none"]

Stage == {"idle", "check", "fetch", "publish", "link", "copy", "look",
          "verify", "drop", "dropshared", "done", "killed"}

Goroutine ==
  [pc : Stage, fill : {1, 2}, attempt : 0..MaxFetchAttempts, prev : BOOLEAN,
   last : Answer \cup {"none"}, fetched : BOOLEAN, saw : Bytes,
   spoilt : BOOLEAN, outcome : Unread \cup ReadOutcome \cup {"none"}]

TypeOK ==
  /\ entry \in [Dir -> [Pin -> Bytes]]
  /\ wk \in [Worker -> Goroutine]
  /\ expired \subseteq Run /\ crashed \subseteq Run

Init ==
  /\ entry \in Seeds
  /\ wk = [w \in Worker |-> Idle]
  /\ expired = {} /\ crashed = {}

-----------------------------------------------------------------------------
InFetch(w) == RunOf[w] \in Fetching
Expired(w) == RunOf[w] \in expired
WorkersOf(r) == {w \in Worker : RunOf[w] = r}
Busy(w) == wk[w].pc \notin {"idle", "done", "killed"}

\* viaUncredentialed: the routing gate.
Shared(w) == Split /\ w \notin Credentialed

FillDir(w) == IF Shared(w) THEN "shared" ELSE "read"
At(d, w) == entry[d][PinOf[w]]
Put(d, w, b) == entry' = [entry EXCEPT ![d][PinOf[w]] = b]

Goto(w, pc) == wk' = [wk EXCEPT ![w].pc = pc]
Ended(g, outcome) ==
  [g EXCEPT !.pc = "done", !.outcome = outcome, !.attempt = 0, !.saw = "absent", !.fetched = FALSE]
Finish(w, outcome) == wk' = [wk EXCEPT ![w] = Ended(@, outcome)]

\* The tail of fill once Acquire has succeeded.
AfterFill(w) == IF Shared(w) THEN "link" ELSE "look"

-----------------------------------------------------------------------------
(* One goroutine: acquirePin.                                              *)

\* Fault: nothing drops what the shared directory holds of a credentialed
\* package.
BeginKeeping(w) ==
  /\ wk[w].pc = "idle"
  /\ Cardinality({v \in WorkersOf(RunOf[w]) : Busy(v)}) < AcquireWorkers
  /\ IF Expired(w) THEN Finish(w, "cancelled")
     ELSE Goto(w, IF InFetch(w) THEN "check" ELSE AfterFill(w))
  /\ UNCHANGED <<entry, expired, crashed>>

\* A slot of the semaphore, the context, and a credentialed package dropped
\* from UncredentialedDir before anything is read; where the entry, or after it
\* its record, cannot be removed, the pin is given up.
Begin(w) ==
  /\ wk[w].pc = "idle"
  /\ Cardinality({v \in WorkersOf(RunOf[w]) : Busy(v)}) < AcquireWorkers
  /\ \/ /\ Expired(w)
        /\ Finish(w, "cancelled")
        /\ UNCHANGED entry
     \/ /\ ~Expired(w)
        /\ Goto(w, IF InFetch(w) THEN "check" ELSE AfterFill(w))
        /\ IF Split /\ ~Shared(w) THEN Put("shared", w, "absent") ELSE UNCHANGED entry
     \/ /\ ~Expired(w) /\ Split /\ ~Shared(w)
        /\ Finish(w, "fetch_failed")
        /\ UNCHANGED entry \/ Put("shared", w, "absent")
  /\ UNCHANGED <<expired, crashed>>

\* Acquire: a published file is a hit, whatever its bytes.
CacheCheck(w) ==
  /\ wk[w].pc = "check"
  /\ wk' = [wk EXCEPT ![w].pc = IF At(FillDir(w), w) = "absent" THEN "fetch" ELSE AfterFill(w),
                      ![w].attempt = IF At(FillDir(w), w) = "absent" THEN 1 ELSE 0,
                      ![w].fetched = FALSE]
  /\ UNCHANGED <<entry, expired, crashed>>

\* Fault: an unavailable registry is filed as not serving the package.
OutcomeAbsent(w, a) ==
  CASE a = "mismatch" -> "integrity_mismatch"
    [] a = "refused" -> "policy_refused"
    [] a \in {"cut", "other"} -> IF Expired(w) THEN "cancelled" ELSE "fetch_failed"
    [] a = "unreachable" -> IF Expired(w) THEN "cancelled" ELSE "registry_unreachable"
    [] a \in {"absent", "unavailable"} -> IF Expired(w) THEN "cancelled" ELSE "not_served"

\* Acquire's choice between the last error and the one before it, and then
\* classifyAcquireError, whose context test comes after the registry's answers
\* that a retry can only repeat and before the others.
OutcomeOf(w, a) ==
  CASE a = "mismatch" -> "integrity_mismatch"
    [] a = "refused" -> "policy_refused"
    [] a = "unavailable" -> "registry_unavailable"
    [] a \in {"cut", "other"} ->
         IF ~Expired(w) THEN "fetch_failed"
         ELSE IF wk[w].prev THEN "registry_unavailable" ELSE "cancelled"
    [] a = "unreachable" -> IF Expired(w) THEN "cancelled" ELSE "registry_unreachable"
    [] a = "absent" -> IF Expired(w) THEN "cancelled" ELSE "not_served"

MayRetry(w, a) ==
  a = "unavailable" /\ ~Expired(w) /\ wk[w].attempt < MaxFetchAttempts

\* Fault: a retry starts Acquire over, with all its attempts.
AnswerRestarting(w) ==
  /\ wk[w].pc = "fetch"
  /\ \E a \in Answer :
       LET heard == [wk[w] EXCEPT !.last = a]
       IN /\ a = "cut" => Expired(w)
          /\ \/ a = "served" /\ Goto(w, "publish")
             \/ a # "served" /\ wk' = [wk EXCEPT ![w] = Ended(heard, OutcomeOf(w, a))]
             \/ a = "unavailable" /\ ~Expired(w) /\ Goto(w, "check")
  /\ UNCHANGED <<entry, expired, crashed>>

\* One request and what follows it; the hash decides between "served" and
\* "mismatch" while the bytes are still in a temporary file.
GetAnswer(w) ==
  /\ wk[w].pc = "fetch"
  /\ \E a \in Answer :
       LET heard == [wk[w] EXCEPT !.last = a]
       IN /\ a = "cut" => Expired(w)
          /\ \/ /\ a = "served"
                /\ wk' = [wk EXCEPT ![w] = [wk[w] EXCEPT !.pc = "publish", !.attempt = 0, !.prev = FALSE]]
             \/ /\ a # "served"
                /\ wk' = [wk EXCEPT ![w] = Ended(heard, OutcomeOf(w, a))]
             \/ /\ MayRetry(w, a)
                /\ wk' = [wk EXCEPT ![w] = [heard EXCEPT !.attempt = @ + 1, !.prev = TRUE, !.last = "none"]]
  /\ UNCHANGED <<entry, expired, crashed>>

\* Fault: the body is streamed to the final path and hashed there.
PublishInPlace(w) ==
  /\ wk[w].pc = "publish"
  /\ IF At(FillDir(w), w) = "bad"
     THEN /\ Put(FillDir(w), w, "good")
          /\ wk' = [wk EXCEPT ![w].pc = AfterFill(w), ![w].fetched = TRUE]
     ELSE Put(FillDir(w), w, "bad") /\ UNCHANGED wk
  /\ UNCHANGED <<expired, crashed>>

\* The rename of verified bytes over whatever the path holds.
Publish(w) ==
  /\ wk[w].pc = "publish"
  /\ Put(FillDir(w), w, "good")
  /\ wk' = [wk EXCEPT ![w].pc = AfterFill(w), ![w].fetched = TRUE]
  /\ UNCHANGED <<expired, crashed>>

\* linkEntry: a source that is gone is no error here, an existing target is
\* kept, and where no hard link can be made the source is opened for a copy.
Link(w) ==
  /\ wk[w].pc = "link"
  /\ \/ /\ Goto(w, "look")
        /\ IF At("read", w) = "absent" THEN Put("read", w, At("shared", w)) ELSE UNCHANGED entry
     \/ /\ At("read", w) = "absent" /\ At("shared", w) # "absent"
        /\ wk' = [wk EXCEPT ![w].pc = "copy", ![w].saw = At("shared", w)]
        /\ UNCHANGED entry
  /\ UNCHANGED <<expired, crashed>>

\* The copy is renamed over whatever the path holds by now.
LinkCopy(w) ==
  /\ wk[w].pc = "copy"
  /\ Put("read", w, wk[w].saw)
  /\ wk' = [wk EXCEPT ![w].pc = "look", ![w].saw = "absent",
                      ![w].spoilt = @ \/ wk[w].saw # "good"]
  /\ UNCHANGED <<expired, crashed>>

\* verifiedEntry: the file is opened, and then read through that descriptor
\* whatever becomes of the path.
Look(w) ==
  /\ wk[w].pc = "look"
  /\ IF At("read", w) = "absent"
     THEN Finish(w, "not_cached")
     ELSE wk' = [wk EXCEPT ![w].pc = "verify", ![w].saw = At("read", w)]
  /\ UNCHANGED <<entry, expired, crashed>>

Verify(w) ==
  /\ wk[w].pc = "verify"
  /\ CASE wk[w].saw = "good" ->
            Finish(w, IF wk[w].fetched THEN "read_network" ELSE "read_cache")
       [] wk[w].saw = "bad" /\ InFetch(w) /\ wk[w].fill = 1 -> Goto(w, "drop")
       [] OTHER -> Finish(w, "integrity_mismatch")
  /\ UNCHANGED <<entry, expired, crashed>>

\* The entry found bad is removed by its path; an entry already gone is an
\* error here, and the mismatch stands.
Drop(w) ==
  /\ wk[w].pc = "drop"
  /\ IF At("read", w) = "absent"
     THEN Finish(w, "integrity_mismatch") /\ UNCHANGED entry
     ELSE /\ wk' = [wk EXCEPT ![w].pc = IF Shared(w) THEN "dropshared" ELSE "check",
                              ![w].fill = 2, ![w].saw = "absent"]
          /\ Put("read", w, "absent")
  /\ UNCHANGED <<expired, crashed>>

DropShared(w) ==
  /\ wk[w].pc = "dropshared"
  /\ Goto(w, "check")
  /\ Put("shared", w, "absent")
  /\ UNCHANGED <<expired, crashed>>

\* Fault: a read that fails drops the entry as a mismatch does.
OsFailsDropping(w) ==
  /\ wk[w].pc \in {"look", "verify"}
  /\ Finish(w, "fetch_failed")
  /\ Put("read", w, "absent")
  /\ UNCHANGED <<expired, crashed>>

\* A file operation that fails outright.
OsFails(w) ==
  /\ \/ wk[w].pc \in {"link", "copy", "look", "verify"}
        /\ Finish(w, IF Expired(w) THEN "cancelled" ELSE "fetch_failed")
     \/ wk[w].pc \in {"drop", "dropshared"} /\ Finish(w, "integrity_mismatch")
  /\ UNCHANGED <<entry, expired, crashed>>

AcquirePin(w) ==
  \/ Begin(w) \/ CacheCheck(w) \/ GetAnswer(w) \/ Publish(w) \/ Link(w)
  \/ LinkCopy(w) \/ Look(w) \/ Verify(w) \/ Drop(w) \/ DropShared(w) \/ OsFails(w)

-----------------------------------------------------------------------------
(* The run around its goroutines.                                          *)

Running(r) == r \notin crashed /\ \E w \in WorkersOf(r) : wk[w].pc # "done"

\* The stage's timeout, or the end of the run's own context.
Expire(r) ==
  /\ Running(r) /\ r \notin expired
  /\ expired' = expired \cup {r}
  /\ UNCHANGED <<entry, wk, crashed>>

Crash(r) ==
  /\ Running(r) /\ Cardinality(crashed) < MaxCrashes
  /\ crashed' = crashed \cup {r}
  /\ wk' = [w \in Worker |->
              IF RunOf[w] = r /\ wk[w].pc # "done" THEN [wk[w] EXCEPT !.pc = "killed"]
              ELSE wk[w]]
  /\ UNCHANGED <<entry, expired>>

Next ==
  \/ \E w \in Worker : AcquirePin(w)
  \/ \E r \in Run : Expire(r) \/ Crash(r)

Spec == Init /\ [][Next]_vars

\* The goroutines run; nothing obliges a deadline to pass or a run to die.
FairSpec == Spec /\ \A w \in Worker : WF_vars(AcquirePin(w))

-----------------------------------------------------------------------------
(* Properties.                                                             *)

\* The bytes behind a goroutine's copy of a shared entry.
Copying(w, b) == wk[w].pc = "copy" /\ wk[w].saw = b

\* Unverified bytes spread only by being linked or copied from
\* UncredentialedDir, where they already were: what a registry sends is never
\* readable before its hash matched, whoever is killed when.
BadNeverPublished ==
  [][\A d \in Dir, p \in Pin :
       entry'[d][p] = "bad" =>
         \/ entry[d][p] = "bad"
         \/ d = "read" /\ entry["shared"][p] = "bad"
         \/ d = "read" /\ \E w \in Worker : PinOf[w] = p /\ Copying(w, "bad")]_vars

\* The directory kept across runs is rid of a package that every run gets with
\* a credential as soon as one of them has begun on it, and stays so.
CredentialedGone ==
  \A w \in Worker :
    /\ Split /\ Busy(w)
    /\ \A v \in Worker : PinOf[v] = PinOf[w] => v \in Credentialed
    => At("shared", w) = "absent"

\* Bytes a run counted as read leave CacheDir only by another goroutine's
\* repair of an entry it had found bad, or under its late copy of a bad shared
\* entry: no other failure removes an entry.
VerifiedStays ==
  \A w \in Worker :
    wk[w].outcome \in ReadOutcome /\ At("read", w) # "good" =>
      \E v \in Worker \ {w} : PinOf[v] = PinOf[w] /\ (wk[v].fill = 2 \/ wk[v].spoilt)

\* A registry that was unavailable is not filed as one that does not serve the
\* package, and a deadline that cuts a retry does not turn what it said into a
\* cancellation.
EvidenceKept ==
  \A w \in Worker :
    /\ wk[w].outcome = "not_served" => wk[w].last = "absent"
    /\ wk[w].outcome = "cancelled" /\ wk[w].prev =>
         wk[w].last \in {"absent", "unreachable"}

\* Every pin gets an outcome unless its run is killed.
EveryPinAnswered == \A w \in Worker : <>(wk[w].pc \in {"done", "killed"})
=============================================================================
