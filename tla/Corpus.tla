------------------------------- MODULE Corpus -------------------------------
(***************************************************************************)
(* The advisory corpus a running process serves from a directory that      *)
(* another program rewrites: artifactSource in pipeline/advisory_source.go *)
(* One manifest pins a digest per advisory; it is held in memory, Refresh  *)
(* reloads it when the file's identity changed, and a lookup reads the     *)
(* document from disk and compares it with the pin.  The publisher may     *)
(* rename a manifest into place, write it in place, or take it away, at    *)
(* any moment; a document may change before or after its manifest does.    *)
(***************************************************************************)
EXTENDS Naturals, FiniteSets

CONSTANTS
  Advisory,
  Digest,     \* document versions
  NoDigest,   \* an advisory the manifest does not list, a document not there
  Caller,     \* goroutines that call Refresh or look advisories up
  NoCaller,   \* the mutex is free
  Manifest,   \* the manifests the publisher writes
  Broken,     \* a manifest that does not parse or does not add up
  Gone,       \* no manifest file
  NotLoaded,  \* nothing was loaded yet
  MaxChanges  \* bound on the publisher's steps

ASSUME CorpusAssumption ==
  /\ Manifest \subseteq [Advisory -> Digest \cup {NoDigest}]
  /\ NoDigest \notin Digest /\ NoCaller \notin Caller
  /\ Broken \notin Manifest /\ Gone \notin Manifest /\ NotLoaded \notin Manifest \cup {Broken, Gone}
  /\ Broken # Gone
  /\ MaxChanges \in Nat

VARIABLES
  file,    \* the manifest on disk: its identity and its content
  doc,     \* the documents on disk
  served,  \* the manifestState lookups read
  failed,  \* failedInfo and whether refreshErr is set
  lock,    \* who holds the source's mutex
  caller   \* each goroutine

vars == <<file, doc, served, failed, lock, caller>>

\* Identities: file, size and modification time as one number, fresh at every
\* write.  0 is a stat that found nothing, and matches nothing.
Ident == 0..MaxChanges + 1
Body == Manifest \cup {Broken, Gone}

\* A served state before the first load, and one of a load that failed.
Unloaded == [body |-> NotLoaded, id |-> 0]
Good(st) == st.body \in Manifest

Quiet == [pc |-> "idle", then |-> "none", id |-> 0, ok |-> TRUE, stale |-> FALSE,
          got |-> Gone, snap |-> Broken, facts |-> [a \in Advisory |-> NoDigest]]

\* With who is inside the mutex.
TypeOK ==
  /\ file \in [id : Ident, body : Body]
  /\ doc \in [Advisory -> Digest \cup {NoDigest}]
  /\ served \in [body : Body \cup {NotLoaded}, id : Ident]
  /\ failed \in [id : Ident, err : BOOLEAN]
  /\ lock \in Caller \cup {NoCaller}
  /\ \A c \in Caller : lock = c <=> caller[c].pc \in {"stat", "restat", "read", "store"}
  /\ caller \in [Caller ->
       [pc : {"idle", "current", "stat", "restat", "read", "store", "answered", "lookup"},
        then : {"none", "refresh", "lookup"},
        id : Ident, got : Body, ok : BOOLEAN, stale : BOOLEAN,
        snap : Manifest \cup {Broken}, facts : [Advisory -> Digest \cup {NoDigest}]]]

Init ==
  /\ file \in [id : {1}, body : Manifest \cup {Broken}]
  /\ doc \in [Advisory -> Digest \cup {NoDigest}]
  /\ served = Unloaded
  /\ failed = [id |-> 0, err |-> FALSE]
  /\ lock = NoCaller
  /\ caller = [c \in Caller |-> Quiet]

-----------------------------------------------------------------------------
(* The publisher.                                                          *)

\* An answer of Refresh is about the file of its time; stale remembers, for
\* the properties, that the file changed since the call.
Change(body) ==
  /\ file.id < MaxChanges + 1
  /\ file' = [id |-> file.id + 1, body |-> body]
  /\ caller' = [c \in Caller |-> [caller[c] EXCEPT !.stale = @ \/ caller[c].then = "refresh"]]
  /\ UNCHANGED <<doc, served, failed, lock>>

Publish == \E m \in Manifest : m # file.body /\ Change(m)

\* A manifest written in place is torn until the writer is through.
Tear == file.body # Broken /\ Change(Broken)
Remove == file.body # Gone /\ Change(Gone)

WriteDoc(a, d) ==
  /\ doc[a] # d
  /\ doc' = [doc EXCEPT ![a] = d]
  /\ UNCHANGED <<file, served, failed, lock, caller>>

-----------------------------------------------------------------------------
(* The source.  current, loadState and Refresh hold the mutex; lookups do  *)
(* not, once something is served.                                          *)

Step(c, pc) == caller' = [caller EXCEPT ![c].pc = pc]

\* The identity a stat sees now.
Stat == IF file.body = Gone THEN 0 ELSE file.id
SameIdentity(a, b) == a # 0 /\ a = b

Call(c, then) ==
  /\ caller[c].pc \in {"idle", "answered"}
  /\ caller' = [caller EXCEPT ![c] = [Quiet EXCEPT !.pc = "current", !.then = then]]
  /\ UNCHANGED <<file, doc, served, failed, lock>>

\* current: the state that is served, or the lock and a first load.
HasCurrent(c) ==
  /\ caller[c].pc = "current" /\ served # Unloaded
  /\ \/ /\ caller[c].then = "refresh"
        /\ lock = NoCaller
        /\ lock' = c /\ Step(c, "stat")
     \/ /\ caller[c].then = "lookup"
        /\ caller' = [caller EXCEPT ![c].pc = "lookup",
                                    ![c].snap = IF Good(served) THEN served.body ELSE Broken]
        /\ UNCHANGED lock
  /\ UNCHANGED <<file, doc, served, failed>>

FirstLoad(c) ==
  /\ caller[c].pc = "current" /\ served = Unloaded /\ lock = NoCaller
  /\ lock' = c
  /\ Step(c, "restat")
  /\ UNCHANGED <<file, doc, served, failed>>

Answer(c, ok) ==
  /\ caller' = [caller EXCEPT ![c] = [Quiet EXCEPT !.pc = "answered", !.then = "refresh",
                                                  !.ok = ok, !.stale = caller[c].stale]]
  /\ lock' = NoCaller

NoFailure == failed' = [id |-> 0, err |-> FALSE]

\* Refresh up to the reload.
RefreshStat(c) ==
  /\ caller[c].pc = "stat"
  /\ UNCHANGED <<file, doc, served>>
  /\ CASE Stat = 0 ->
            /\ Answer(c, FALSE)
            /\ failed' = [failed EXCEPT !.err = @ \/ Good(served)]
       [] SameIdentity(Stat, served.id) -> Answer(c, Good(served)) /\ NoFailure
       [] ~SameIdentity(Stat, served.id) /\ SameIdentity(Stat, failed.id) ->
            Answer(c, ~failed.err) /\ UNCHANGED failed
       [] OTHER -> Step(c, "restat") /\ UNCHANGED <<failed, lock>>

\* loadState, the stat.
LoadStat(c) ==
  /\ caller[c].pc = "restat"
  /\ caller' = [caller EXCEPT ![c].pc = "read", ![c].id = Stat]
  /\ UNCHANGED <<file, doc, served, failed, lock>>

\* Fault: a manifest that failed to load replaces a good one.
StoreAny(c, next) ==
  /\ served' = next
  /\ NoFailure
  /\ Answer(c, Good(next))

\* What Refresh does with a reload.
Store(c, next) ==
  IF Good(next) \/ ~Good(served)
  THEN served' = next /\ NoFailure /\ Answer(c, Good(next))
  ELSE failed' = [id |-> next.id, err |-> TRUE] /\ Answer(c, FALSE) /\ UNCHANGED served

LoadBody(c) ==
  /\ caller[c].pc = "read"
  /\ caller' = [caller EXCEPT ![c].pc = "store", ![c].got = file.body]
  /\ UNCHANGED <<file, doc, served, failed, lock>>

\* Fault: the stat comes after the read.
ReadThenStat(c) == [body |-> caller[c].got, id |-> Stat]

\* Newer content under an older identity at worst.
Loaded(c) == [body |-> caller[c].got, id |-> caller[c].id]

\* The first load stores whatever it got and its caller goes on; a Refresh
\* decides.
StoreLoad(c) ==
  /\ caller[c].pc = "store"
  /\ UNCHANGED <<file, doc>>
  /\ \/ /\ served = Unloaded
        /\ served' = Loaded(c) /\ lock' = NoCaller
        /\ caller' = [caller EXCEPT ![c] = [Quiet EXCEPT !.pc = "current", !.then = caller[c].then,
                                                        !.stale = caller[c].stale]]
        /\ UNCHANGED failed
     \/ served # Unloaded /\ Store(c, Loaded(c))

\* Fault: every id is resolved against the manifest of the moment.
ResolveServed(c, a) ==
  IF Good(served) /\ doc[a] = served.body[a] THEN doc[a] ELSE NoDigest

\* resolveEntry: the document, if the snapshot lists it and it is the pinned one.
ResolveEntry(c, a) ==
  IF caller[c].snap # Broken /\ doc[a] = caller[c].snap[a] THEN doc[a] ELSE NoDigest

\* lookupEach, one id at a time and each against the same snapshot.  Lookup is
\* the batch of one.
LookUp(c, a) ==
  /\ caller[c].pc = "lookup" /\ caller[c].facts[a] = NoDigest
  /\ caller' = [caller EXCEPT ![c].facts[a] = ResolveEntry(c, a)]
  /\ UNCHANGED <<file, doc, served, failed, lock>>

LookupDone(c) ==
  /\ caller[c].pc = "lookup"
  /\ caller' = [caller EXCEPT ![c] = Quiet]
  /\ UNCHANGED <<file, doc, served, failed, lock>>

CallerStep(c) ==
  \/ HasCurrent(c) \/ FirstLoad(c) \/ RefreshStat(c)
  \/ LoadStat(c) \/ LoadBody(c) \/ StoreLoad(c) \/ LookupDone(c)

Next ==
  \/ Publish \/ Tear \/ Remove
  \/ \E a \in Advisory, d \in Digest \cup {NoDigest} : WriteDoc(a, d)
  \/ \E c \in Caller :
       \/ Call(c, "refresh") \/ Call(c, "lookup")
       \/ CallerStep(c)
       \/ \E a \in Advisory : LookUp(c, a)

Spec == Init /\ [][Next]_vars

-----------------------------------------------------------------------------
(* Properties.                                                             *)

\* A good manifest is given up only for another good one.
GoodStaysServed == [][Good(served) => Good(served')]_vars

\* A Refresh that reports no error leaves the process serving the manifest on
\* disk, unless the file changed while it ran: no change is ever missed.
NilMeansCurrent ==
  \A c \in Caller :
    caller[c].pc = "answered" /\ caller[c].ok /\ ~caller[c].stale => served.body = file.body

\* The facts of one batch are those of one manifest, however often the served
\* one and the documents change under it.
OneManifestPerBatch ==
  \A c \in Caller : \E m \in Manifest \cup {[a \in Advisory |-> NoDigest]} :
    \A a \in Advisory : caller[c].facts[a] \in {m[a], NoDigest}
=============================================================================
