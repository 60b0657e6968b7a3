---------------------------- MODULE DepCacheProofs ----------------------------
(***************************************************************************)
(* The dependency cache's theorems, for any runs, goroutines, pins and     *)
(* bounds: bytes are verified before they are published, a credentialed    *)
(* package leaves the shared directory, a verified entry is only ever      *)
(* dropped by another's repair, and what a registry said is kept.          *)
(***************************************************************************)
EXTENDS DepCache, TLAPS

-----------------------------------------------------------------------------
(* Types.                                                                  *)

\* What classifyAcquireError files is a reason that the package is unread.
LEMMA OutcomeUnread ==
  ASSUME NEW w \in Worker, NEW a \in Answer \ {"served"}
  PROVE  OutcomeOf(w, a) \in Unread
BY DEF OutcomeOf, Answer, Unread

LEMMA EndedType ==
  ASSUME NEW g \in Goroutine, NEW o \in Unread \cup ReadOutcome
  PROVE  Ended(g, o) \in Goroutine
<1>1. 0 \in 0..MaxFetchAttempts
  BY DepCacheAssumption
<1>2. QED
  BY <1>1 DEF Ended, Goroutine, Stage, Bytes

\* The other ways a goroutine's record changes.
LEMMA GoroutineType ==
  ASSUME NEW g \in Goroutine, NEW pc \in Stage
  PROVE  /\ [g EXCEPT !.pc = pc] \in Goroutine
         /\ [g EXCEPT !.pc = pc, !.fetched = TRUE] \in Goroutine
         /\ \A n \in 0..MaxFetchAttempts :
              /\ [g EXCEPT !.pc = pc, !.attempt = n, !.fetched = FALSE] \in Goroutine
              /\ [g EXCEPT !.pc = pc, !.attempt = n, !.prev = FALSE] \in Goroutine
         /\ \A b \in Bytes : [g EXCEPT !.pc = pc, !.saw = b] \in Goroutine
         /\ \A b \in Bytes, s \in BOOLEAN :
              [g EXCEPT !.pc = pc, !.saw = b, !.spoilt = s] \in Goroutine
         /\ \A a \in Answer : [g EXCEPT !.last = a] \in Goroutine
BY DEF Goroutine

LEMMA PutType ==
  ASSUME entry \in [Dir -> [Pin -> Bytes]], NEW d \in Dir, NEW w \in Worker, NEW b \in Bytes,
         Put(d, w, b)
  PROVE  entry' \in [Dir -> [Pin -> Bytes]]
<1>1. PinOf[w] \in Pin
  BY DepCacheAssumption
<1>2. [entry[d] EXCEPT ![PinOf[w]] = b] \in [Pin -> Bytes]
  BY <1>1
<1>3. QED
  BY <1>2 DEF Put

LEMMA StepType == TypeOK /\ [Next]_vars => TypeOK'
<1> SUFFICES ASSUME TypeOK, [Next]_vars PROVE TypeOK'
  OBVIOUS
<1>0. wk \in [Worker -> Goroutine] /\ entry \in [Dir -> [Pin -> Bytes]]
      /\ expired \subseteq Run /\ crashed \subseteq Run
  BY DEF TypeOK
<1>a. \A w \in Worker : wk[w] \in Goroutine
  BY <1>0
<1> DEFINE Typed == wk' \in [Worker -> Goroutine] /\ entry' \in [Dir -> [Pin -> Bytes]]
<1>1. ASSUME NEW w \in Worker, NEW pc \in {"check", "fetch", "publish", "link", "copy", "look",
              "verify", "drop", "dropshared", "killed"}, Goto(w, pc)
      PROVE wk' \in [Worker -> Goroutine]
  BY <1>0, <1>1 DEF Goto, Goroutine, Stage
<1>2. ASSUME NEW w \in Worker, NEW o \in Unread \cup ReadOutcome, Finish(w, o)
      PROVE wk' \in [Worker -> Goroutine]
  BY <1>0, <1>2, EndedType DEF Finish
<1>3. \A w \in Worker : /\ FillDir(w) \in Dir /\ At("shared", w) \in Bytes
                        /\ At("read", w) \in Bytes /\ AfterFill(w) \in {"link", "look"}
  BY <1>0, DepCacheAssumption DEF FillDir, Dir, At, AfterFill
<1>4. ASSUME NEW w \in Worker, Begin(w) PROVE Typed
  <2>1. entry' \in [Dir -> [Pin -> Bytes]]
    BY <1>0, <1>4, PutType DEF Begin, Dir, Bytes
  <2>2. wk' \in [Worker -> Goroutine]
    BY <1>1, <1>2, <1>3, <1>4 DEF Begin, Unread
  <2>3. QED
    BY <2>1, <2>2
<1>5. ASSUME NEW w \in Worker, CacheCheck(w) PROVE Typed
  <2>1. 0 \in 0..MaxFetchAttempts /\ 1 \in 0..MaxFetchAttempts
    BY DepCacheAssumption
  <2>2. ASSUME NEW pc \in Stage, NEW n \in 0..MaxFetchAttempts
        PROVE  [wk[w] EXCEPT !.pc = pc, !.attempt = n, !.fetched = FALSE] \in Goroutine
    BY <1>a, GoroutineType
  <2>3. "fetch" \in Stage /\ AfterFill(w) \in Stage
    BY <1>3 DEF Stage
  <2>4. CASE At(FillDir(w), w) = "absent"
    BY <1>0, <1>5, <2>1, <2>2, <2>3, <2>4 DEF CacheCheck
  <2>5. CASE At(FillDir(w), w) # "absent"
    BY <1>0, <1>5, <2>1, <2>2, <2>3, <2>5 DEF CacheCheck
  <2>6. QED
    BY <2>4, <2>5
<1>6. ASSUME NEW w \in Worker, GetAnswer(w) PROVE Typed
  <2>1. PICK a \in Answer :
          \/ /\ a = "served"
             /\ wk' = [wk EXCEPT ![w] = [wk[w] EXCEPT !.pc = "publish", !.attempt = 0, !.prev = FALSE]]
          \/ /\ a # "served"
             /\ wk' = [wk EXCEPT ![w] = Ended([wk[w] EXCEPT !.last = a], OutcomeOf(w, a))]
          \/ /\ MayRetry(w, a)
             /\ wk' = [wk EXCEPT ![w] = [[wk[w] EXCEPT !.last = a] EXCEPT
                                           !.attempt = @ + 1, !.prev = TRUE, !.last = "none"]]
    BY <1>6 DEF GetAnswer
  <2>2. wk[w] \in Goroutine /\ [wk[w] EXCEPT !.last = a] \in Goroutine
    BY <1>a, <2>1, GoroutineType DEF Stage
  <2>3. CASE a # "served" /\ wk' = [wk EXCEPT ![w] = Ended([wk[w] EXCEPT !.last = a], OutcomeOf(w, a))]
    <3>1. Ended([wk[w] EXCEPT !.last = a], OutcomeOf(w, a)) \in Goroutine
      BY <2>2, <2>3, OutcomeUnread, EndedType
    <3>2. QED
      BY <1>0, <1>6, <2>3, <3>1 DEF GetAnswer
  <2>4. CASE MayRetry(w, a) /\ wk' = [wk EXCEPT ![w] = [[wk[w] EXCEPT !.last = a] EXCEPT
                                           !.attempt = @ + 1, !.prev = TRUE, !.last = "none"]]
    <3>1. wk[w].attempt + 1 \in 0..MaxFetchAttempts
      BY <2>2, <2>4, DepCacheAssumption DEF MayRetry, Goroutine, Stage
    <3>2. [[wk[w] EXCEPT !.last = a] EXCEPT !.attempt = @ + 1, !.prev = TRUE, !.last = "none"]
            \in Goroutine
      BY <2>2, <3>1 DEF Goroutine, Stage
    <3>3. QED
      BY <1>0, <1>6, <2>4, <3>2 DEF GetAnswer
  <2>5. CASE wk' = [wk EXCEPT ![w] = [wk[w] EXCEPT !.pc = "publish", !.attempt = 0, !.prev = FALSE]]
    <3>1. 0 \in 0..MaxFetchAttempts
      BY DepCacheAssumption
    <3>2. [wk[w] EXCEPT !.pc = "publish", !.attempt = 0, !.prev = FALSE] \in Goroutine
      BY <2>2, <3>1 DEF Goroutine, Stage
    <3>3. QED
      BY <1>0, <1>6, <2>5, <3>2 DEF GetAnswer
  <2>6. QED
    BY <2>1, <2>3, <2>4, <2>5
<1>7. ASSUME NEW w \in Worker, Publish(w) PROVE Typed
  <2>1. entry' \in [Dir -> [Pin -> Bytes]]
    BY <1>0, <1>3, <1>7, PutType DEF Publish, Bytes
  <2>2. [wk[w] EXCEPT !.pc = AfterFill(w), !.fetched = TRUE] \in Goroutine
    BY <1>a, <1>3, GoroutineType DEF Stage
  <2>3. QED
    BY <1>0, <1>7, <2>1, <2>2 DEF Publish
<1>8. ASSUME NEW w \in Worker, Link(w) \/ LinkCopy(w) PROVE Typed
  <2>1. CASE Link(w)
    <3>1. entry' \in [Dir -> [Pin -> Bytes]]
      BY <1>0, <1>3, <2>1, PutType DEF Link, Dir
    <3>2. [wk[w] EXCEPT !.pc = "copy", !.saw = At("shared", w)] \in Goroutine
      BY <1>a, <1>3, GoroutineType DEF Stage
    <3>3. wk' \in [Worker -> Goroutine]
      BY <1>0, <1>1, <2>1, <3>2 DEF Link
    <3>4. QED
      BY <3>1, <3>3
  <2>2. CASE LinkCopy(w)
    <3>1. wk[w].saw \in Bytes
      BY <1>a DEF Goroutine
    <3>2. entry' \in [Dir -> [Pin -> Bytes]]
      BY <1>0, <2>2, <3>1, PutType DEF LinkCopy, Dir
    <3>3. (wk[w].spoilt \/ wk[w].saw # "good") \in BOOLEAN /\ "look" \in Stage /\ "absent" \in Bytes
      BY DEF Stage, Bytes
    <3>4. [wk[w] EXCEPT !.pc = "look", !.saw = "absent",
                        !.spoilt = @ \/ wk[w].saw # "good"] \in Goroutine
      BY <1>a, <3>3, GoroutineType, Zenon
    <3>5. QED
      BY <1>0, <2>2, <3>2, <3>4 DEF LinkCopy
  <2>3. QED
    BY <1>8, <2>1, <2>2
<1>9. ASSUME NEW w \in Worker, Look(w) PROVE Typed
  <2>1. CASE At("read", w) = "absent"
    BY <1>0, <1>2, <1>9, <2>1 DEF Look, Unread
  <2>2. CASE At("read", w) # "absent"
    <3>1. [wk[w] EXCEPT !.pc = "verify", !.saw = At("read", w)] \in Goroutine
      BY <1>a, <1>3, GoroutineType DEF Stage
    <3>2. QED
      BY <1>0, <1>9, <2>2, <3>1 DEF Look
  <2>3. QED
    BY <2>1, <2>2
<1>10. ASSUME NEW w \in Worker, Verify(w) PROVE Typed
  BY <1>0, <1>1, <1>2, <1>10 DEF Verify, Unread, ReadOutcome
<1>11. ASSUME NEW w \in Worker, Drop(w) PROVE Typed
  <2>1. CASE At("read", w) = "absent"
    BY <1>0, <1>2, <1>11, <2>1 DEF Drop, Unread
  <2>2. CASE At("read", w) # "absent"
    BY <1>0, <1>11, <2>2, PutType DEF Drop, Goroutine, Stage, Dir, Bytes
  <2>3. QED
    BY <2>1, <2>2
<1>12. ASSUME NEW w \in Worker, DropShared(w) PROVE Typed
  BY <1>0, <1>1, <1>12, PutType DEF DropShared, Dir, Bytes
<1>13. ASSUME NEW w \in Worker, OsFails(w) PROVE Typed
  <2>1. entry' = entry
    BY <1>13 DEF OsFails
  <2>2. wk' \in [Worker -> Goroutine]
    BY <1>2, <1>13 DEF OsFails, Unread
  <2>3. QED
    BY <1>0, <2>1, <2>2
<1>14. ASSUME NEW r \in Run, Expire(r) \/ Crash(r) PROVE Typed
  <2>1. CASE Expire(r)
    BY <1>0, <2>1 DEF Expire
  <2>2. CASE Crash(r)
    <3>1. \A w \in Worker : [wk[w] EXCEPT !.pc = "killed"] \in Goroutine
      BY <1>a, GoroutineType DEF Stage
    <3>2. QED
      BY <1>0, <1>a, <2>2, <3>1 DEF Crash
  <2>3. QED
    BY <1>14, <2>1, <2>2
<1>15. expired' \subseteq Run /\ crashed' \subseteq Run
  BY <1>0 DEF Next, vars, AcquirePin, Begin, CacheCheck, GetAnswer, Publish, Link, LinkCopy, Look,
              Verify, Drop, DropShared, OsFails, Expire, Crash
<1>16. CASE UNCHANGED vars
  BY <1>16 DEF vars, TypeOK
<1>17. Typed \/ UNCHANGED vars
  BY <1>4, <1>5, <1>6, <1>7, <1>8, <1>9, <1>10, <1>11, <1>12, <1>13, <1>14 DEF Next, AcquirePin
<1>18. QED
  BY <1>15, <1>16, <1>17 DEF TypeOK, Goroutine, Stage

LEMMA InitType == Init => TypeOK
<1>1. 0 \in 0..MaxFetchAttempts
  BY DepCacheAssumption
<1>2. QED
  BY <1>1, DepCacheAssumption DEF Init, Idle, TypeOK, Goroutine, Stage, Bytes

\* The cache's and the goroutines' types, for every instance.
THEOREM CacheTypeCorrect == Spec => []TypeOK
BY InitType, StepType, PTL DEF Spec

-----------------------------------------------------------------------------
(* What is published.                                                      *)

LEMMA PutPlace ==
  ASSUME TypeOK, NEW e \in Dir, NEW v \in Worker, NEW b \in Bytes, Put(e, v, b),
         NEW d \in Dir, NEW p \in Pin
  PROVE  entry'[d][p] = IF d = e /\ p = PinOf[v] THEN b ELSE entry[d][p]
BY DepCacheAssumption DEF Put, TypeOK

\* Where bad bytes can have come from.
FromBad(d, p) ==
  \/ entry[d][p] = "bad"
  \/ d = "read" /\ entry["shared"][p] = "bad"
  \/ d = "read" /\ \E w \in Worker : PinOf[w] = p /\ Copying(w, "bad")

LEMMA BadStep ==
  ASSUME TypeOK, [Next]_vars, NEW d \in Dir, NEW p \in Pin, entry'[d][p] = "bad"
  PROVE  FromBad(d, p)
<1> "read" \in Dir /\ "shared" \in Dir /\ "absent" \in Bytes /\ "good" \in Bytes
  BY DEF Dir, Bytes
<1>1. ASSUME NEW v \in Worker, Link(v) PROVE FromBad(d, p)
  <2>1. At("shared", v) \in Bytes
    BY DepCacheAssumption DEF At, TypeOK
  <2>2. QED
    BY <1>1, <2>1, PutPlace DEF Link, At, FromBad
<1>2. ASSUME NEW v \in Worker, LinkCopy(v) PROVE FromBad(d, p)
  <2>1. wk[v].saw \in Bytes
    BY DEF TypeOK, Goroutine
  <2>2. entry'[d][p] = IF d = "read" /\ p = PinOf[v] THEN wk[v].saw ELSE entry[d][p]
    BY <1>2, <2>1, PutPlace DEF LinkCopy
  <2>3. QED
    BY <1>2, <2>2 DEF LinkCopy, Copying, FromBad
<1>3. ASSUME NEW v \in Worker, NEW e \in Dir, Put(e, v, "absent") \/ Put(e, v, "good")
      PROVE  entry[d][p] = "bad"
  BY <1>3, PutPlace
<1>4. ASSUME NEW v \in Worker, Publish(v) PROVE entry[d][p] = "bad"
  BY <1>3, <1>4 DEF Publish, FillDir
<1>5. ASSUME NEW v \in Worker, Begin(v) \/ Drop(v) \/ DropShared(v)
      PROVE  entry[d][p] = "bad"
  BY <1>3, <1>5 DEF Begin, Drop, DropShared
<1>6. QED
  BY <1>1, <1>2, <1>4, <1>5
     DEF Next, AcquirePin, CacheCheck, GetAnswer, Look, Verify, OsFails, Expire, Crash, vars,
         FromBad

\* What a registry sends is never readable before its hash matched, for any
\* number of runs, goroutines and kills: bytes that do not hash to their name
\* only ever spread by a link or a copy from the shared directory, where they
\* already were.
THEOREM BadStaysUnpublished == Spec => BadNeverPublished
<1>1. TypeOK /\ [Next]_vars =>
        [\A d \in Dir, p \in Pin :
           entry'[d][p] = "bad" =>
             \/ entry[d][p] = "bad"
             \/ d = "read" /\ entry["shared"][p] = "bad"
             \/ d = "read" /\ \E w \in Worker : PinOf[w] = p /\ Copying(w, "bad")]_vars
  BY BadStep DEF FromBad
<1>2. QED
  BY <1>1, CacheTypeCorrect, PTL DEF Spec, BadNeverPublished

-----------------------------------------------------------------------------
(* The directory kept across runs.                                         *)

\* A step of one goroutine leaves the records of the others alone.
LEMMA OthersStay ==
  ASSUME TypeOK, NEW v \in Worker, AcquirePin(v), NEW w \in Worker \ {v}
  PROVE  wk'[w] = wk[w]
BY DEF AcquirePin, Begin, CacheCheck, GetAnswer, Publish, Link, LinkCopy, Look, Verify, Drop,
       DropShared, OsFails, Goto, Finish, TypeOK

\* Nothing is filled in the shared directory for a credentialed package.
LEMMA CredentialedUnfilled ==
  ASSUME TypeOK, [Next]_vars, NEW w \in Worker, At("shared", w) = "absent",
         \A v \in Worker : PinOf[v] = PinOf[w] => v \in Credentialed
  PROVE  At("shared", w)' = "absent"
<1> "read" \in Dir /\ "shared" \in Dir /\ "absent" \in Bytes /\ "good" \in Bytes
    /\ PinOf[w] \in Pin /\ "read" # "shared"
  BY DepCacheAssumption DEF Dir, Bytes
<1>1. ASSUME NEW v \in Worker, Publish(v) PROVE At("shared", w)' = "absent"
  BY <1>1, PutPlace DEF Publish, FillDir, Shared, At
<1>2. ASSUME NEW v \in Worker, Link(v) PROVE At("shared", w)' = "absent"
  <2>1. At("shared", v) \in Bytes
    BY DepCacheAssumption DEF At, TypeOK
  <2>2. QED
    BY <1>2, <2>1, PutPlace DEF Link, At
<1>3. ASSUME NEW v \in Worker, LinkCopy(v) PROVE At("shared", w)' = "absent"
  <2>1. wk[v].saw \in Bytes
    BY DEF TypeOK, Goroutine
  <2>2. QED
    BY <1>3, <2>1, PutPlace DEF LinkCopy, At
<1>4. ASSUME NEW v \in Worker, Begin(v) \/ Drop(v) \/ DropShared(v)
      PROVE  At("shared", w)' = "absent"
  BY <1>4, PutPlace DEF Begin, Drop, DropShared, At
<1>5. QED
  BY <1>1, <1>2, <1>3, <1>4
     DEF Next, AcquirePin, CacheCheck, GetAnswer, Look, Verify, OsFails, Expire, Crash, vars, At

LEMMA BusySince ==
  ASSUME TypeOK, [Next]_vars, NEW w \in Worker, Busy(w)', ~Busy(w)
  PROVE  Begin(w) /\ (Split /\ ~Shared(w) => Put("shared", w, "absent"))
<1>1. ASSUME NEW v \in Worker, AcquirePin(v), v # w PROVE FALSE
  BY <1>1, OthersStay DEF Busy
<1>2. ASSUME Begin(w), Split /\ ~Shared(w), ~Put("shared", w, "absent") PROVE FALSE
  <2>1. PICK o \in {"cancelled", "fetch_failed"} : wk' = [wk EXCEPT ![w] = Ended(wk[w], o)]
    BY <1>2 DEF Begin, Finish
  <2>2. wk'[w] = Ended(wk[w], o) /\ wk[w] \in Goroutine
    BY <2>1 DEF TypeOK
  <2>3. wk'[w].pc = "done"
    BY <2>2 DEF Ended, Goroutine
  <2>4. QED
    BY <2>3 DEF Busy
<1>3. ASSUME AcquirePin(w), ~Begin(w) PROVE FALSE
  BY <1>3 DEF AcquirePin, CacheCheck, GetAnswer, Publish, Link, LinkCopy, Look, Verify, Drop, DropShared,
              OsFails, Busy
<1>4. ASSUME NEW r \in Run, Expire(r) \/ Crash(r) PROVE FALSE
  <2>1. wk'[w].pc \in {wk[w].pc, "killed"}
    BY <1>4 DEF Expire, Crash, TypeOK, Goroutine
  <2>2. QED
    BY <2>1 DEF Busy
<1>5. QED
  BY <1>1, <1>2, <1>3, <1>4 DEF Next, vars, Busy

LEMMA CredentialedStep ==
  TypeOK /\ CredentialedGone /\ [Next]_vars => CredentialedGone'
<1> SUFFICES ASSUME TypeOK, CredentialedGone, [Next]_vars, NEW w \in Worker,
                    Split, Busy(w)', \A v \in Worker : PinOf[v] = PinOf[w] => v \in Credentialed
             PROVE  At("shared", w)' = "absent"
  BY DEF CredentialedGone
<1>1. CASE Busy(w)
  BY <1>1, CredentialedUnfilled DEF CredentialedGone
<1>2. CASE ~Busy(w)
  <2>1. Put("shared", w, "absent")
    BY <1>2, BusySince DEF Shared
  <2>2. QED
    BY <2>1, PutPlace, DepCacheAssumption DEF At, Dir, Bytes
<1>3. QED
  BY <1>1, <1>2

\* The directory kept across runs is rid of a package that every run gets with
\* a credential as soon as one of them has begun on it, and stays so, in
\* whatever order their goroutines fill, link and repair.
THEOREM CredentialedStaysGone == Spec => []CredentialedGone
<1>1. Init => CredentialedGone
  BY DEF Init, Idle, CredentialedGone, Busy
<1>2. QED
  BY <1>1, CredentialedStep, CacheTypeCorrect, PTL DEF Spec

-----------------------------------------------------------------------------
(* What was verified.                                                      *)

\* Actions of one goroutine by what they do to its own record.
LEMMA OwnRecord ==
  ASSUME TypeOK, NEW w \in Worker, AcquirePin(w)
  PROVE  /\ wk[w].pc \notin {"done", "killed"}
         /\ wk'[w].outcome # wk[w].outcome => wk'[w].pc = "done"
         /\ wk'[w].outcome \in ReadOutcome /\ wk[w].outcome \notin ReadOutcome =>
              Verify(w) /\ wk[w].saw = "good"
         /\ wk'[w].pc = "verify" => Look(w) /\ wk'[w].saw = At("read", w)
         /\ wk[w].fill = 2 => wk'[w].fill = 2
         /\ wk[w].spoilt => wk'[w].spoilt
<1> DEFINE Own == /\ wk[w].pc \notin {"done", "killed"}
                  /\ wk'[w].outcome # wk[w].outcome => wk'[w].pc = "done"
                  /\ wk'[w].outcome \in ReadOutcome /\ wk[w].outcome \notin ReadOutcome =>
                       Verify(w) /\ wk[w].saw = "good"
                  /\ wk'[w].pc = "verify" => Look(w) /\ wk'[w].saw = At("read", w)
                  /\ wk[w].fill = 2 => wk'[w].fill = 2
                  /\ wk[w].spoilt => wk'[w].spoilt
<1>0. wk[w] \in Goroutine /\ wk \in [Worker -> Goroutine]
  BY DEF TypeOK
<1>1. ASSUME NEW o \in Unread, Finish(w, o), wk[w].pc \notin {"done", "killed"} PROVE Own
  <2>1. wk'[w] = Ended(wk[w], o)
    BY <1>0, <1>1 DEF Finish
  <2>2. wk'[w].pc = "done" /\ wk'[w].outcome = o /\ wk'[w].fill = wk[w].fill /\ wk'[w].spoilt = wk[w].spoilt
    BY <1>0, <2>1 DEF Ended, Goroutine
  <2>3. QED
    BY <1>1, <2>2 DEF Unread, ReadOutcome
<1>2. ASSUME NEW pc \in Stage \ {"verify"}, Goto(w, pc), wk[w].pc \notin {"done", "killed"} PROVE Own
  <2>1. wk'[w] = [wk[w] EXCEPT !.pc = pc]
    BY <1>0, <1>2 DEF Goto
  <2>2. wk'[w].pc = pc /\ wk'[w].outcome = wk[w].outcome /\ wk'[w].fill = wk[w].fill /\ wk'[w].spoilt = wk[w].spoilt
    BY <1>0, <2>1 DEF Goroutine
  <2>3. QED
    BY <1>2, <2>2
<1>3. ASSUME Begin(w) PROVE Own
  BY <1>1, <1>2, <1>3 DEF Begin, AfterFill, Unread, Stage
<1>4. ASSUME CacheCheck(w) PROVE Own
  <2>1. wk'[w].outcome = wk[w].outcome /\ wk'[w].fill = wk[w].fill /\ wk'[w].spoilt = wk[w].spoilt /\ wk'[w].pc # "verify"
    BY <1>0, <1>4 DEF CacheCheck, AfterFill, Goroutine
  <2>2. QED
    BY <1>4, <2>1 DEF CacheCheck
<1>5. ASSUME GetAnswer(w) PROVE Own
  <2>1. PICK a \in Answer :
          \/ wk'[w] = [wk[w] EXCEPT !.pc = "publish", !.attempt = 0, !.prev = FALSE]
          \/ a # "served" /\ wk'[w] = Ended([wk[w] EXCEPT !.last = a], OutcomeOf(w, a))
          \/ wk'[w] = [[wk[w] EXCEPT !.last = a] EXCEPT !.attempt = @ + 1, !.prev = TRUE, !.last = "none"]
    BY <1>0, <1>5 DEF GetAnswer
  <2>2. CASE a # "served" /\ wk'[w] = Ended([wk[w] EXCEPT !.last = a], OutcomeOf(w, a))
    <3>1. /\ wk'[w].outcome = OutcomeOf(w, a) /\ wk'[w].pc = "done"
          /\ wk'[w].fill = wk[w].fill /\ wk'[w].spoilt = wk[w].spoilt
      BY <1>0, <2>2 DEF Ended, Goroutine
    <3>2. wk'[w].outcome \notin ReadOutcome
      BY <2>1, <2>2, <3>1, OutcomeUnread DEF Unread, ReadOutcome
    <3>3. QED
      BY <1>5, <3>1, <3>2 DEF GetAnswer
  <2>3. CASE \/ wk'[w] = [wk[w] EXCEPT !.pc = "publish", !.attempt = 0, !.prev = FALSE]
             \/ wk'[w] = [[wk[w] EXCEPT !.last = a] EXCEPT !.attempt = @ + 1, !.prev = TRUE, !.last = "none"]
    <3>1. /\ wk'[w].outcome = wk[w].outcome /\ wk'[w].fill = wk[w].fill /\ wk'[w].spoilt = wk[w].spoilt
          /\ wk'[w].pc \in {"publish", wk[w].pc}
      BY <1>0, <2>3 DEF Goroutine
    <3>2. QED
      BY <1>5, <3>1 DEF GetAnswer
  <2>4. QED
    BY <2>1, <2>2, <2>3
<1>6. ASSUME Publish(w) PROVE Own
  <2>1. wk'[w].outcome = wk[w].outcome /\ wk'[w].fill = wk[w].fill /\ wk'[w].spoilt = wk[w].spoilt /\ wk'[w].pc # "verify"
    BY <1>0, <1>6 DEF Publish, AfterFill, Goroutine
  <2>2. QED
    BY <1>6, <2>1 DEF Publish
<1>7. ASSUME Link(w) \/ LinkCopy(w) \/ DropShared(w) PROVE Own
  <2>1. ASSUME NEW b \in Bytes, wk'[w] = [wk[w] EXCEPT !.pc = "copy", !.saw = b] PROVE Own
    <3>1. /\ wk'[w].pc = "copy" /\ wk'[w].outcome = wk[w].outcome
          /\ wk'[w].fill = wk[w].fill /\ wk'[w].spoilt = wk[w].spoilt
      BY <1>0, <2>1 DEF Goroutine
    <3>2. QED
      BY <1>7, <3>1 DEF Link, LinkCopy, DropShared
  <2>2. CASE LinkCopy(w)
    <3>1. wk'[w] = [wk[w] EXCEPT !.pc = "look", !.saw = "absent", !.spoilt = @ \/ wk[w].saw # "good"]
      BY <1>0, <2>2 DEF LinkCopy
    <3>2. /\ wk'[w].pc = "look" /\ wk'[w].outcome = wk[w].outcome
          /\ wk'[w].fill = wk[w].fill /\ (wk[w].spoilt => wk'[w].spoilt)
      BY <1>0, <3>1 DEF Goroutine
    <3>3. QED
      BY <2>2, <3>2 DEF LinkCopy
  <2>3. CASE Link(w)
    <3>1. At("shared", w) \in Bytes
      BY DepCacheAssumption DEF At, TypeOK, Dir
    <3>2. Goto(w, "look") \/ wk'[w] = [wk[w] EXCEPT !.pc = "copy", !.saw = At("shared", w)]
      BY <1>0, <2>3 DEF Link
    <3>3. QED
      BY <1>2, <2>1, <2>3, <3>1, <3>2 DEF Link, Stage
  <2>4. QED
    BY <1>2, <1>7, <2>2, <2>3 DEF DropShared, Stage
<1>8. ASSUME Look(w) PROVE Own
  <2>1. CASE At("read", w) = "absent"
    BY <1>1, <1>8, <2>1 DEF Look, Unread
  <2>2. CASE At("read", w) # "absent"
    <3>1. wk'[w] = [wk[w] EXCEPT !.pc = "verify", !.saw = At("read", w)]
      BY <1>0, <1>8, <2>2 DEF Look
    <3>2. /\ wk'[w].outcome = wk[w].outcome /\ wk'[w].fill = wk[w].fill /\ wk'[w].spoilt = wk[w].spoilt
          /\ wk'[w].saw = At("read", w)
      BY <1>0, <3>1 DEF Goroutine
    <3>3. QED
      BY <1>8, <3>2 DEF Look
  <2>3. QED
    BY <2>1, <2>2
<1>9. ASSUME Verify(w) PROVE Own
  <2>1. CASE wk[w].saw = "good"
    <3>1. PICK o \in ReadOutcome : wk'[w] = Ended(wk[w], o)
      BY <1>0, <1>9, <2>1 DEF Verify, Finish, ReadOutcome
    <3>2. wk'[w].pc = "done" /\ wk'[w].fill = wk[w].fill /\ wk'[w].spoilt = wk[w].spoilt
      BY <1>0, <3>1 DEF Ended, Goroutine
    <3>3. QED
      BY <1>9, <2>1, <3>2 DEF Verify
  <2>2. CASE wk[w].saw # "good"
    BY <1>1, <1>2, <1>9, <2>2 DEF Verify, Unread, Stage
  <2>3. QED
    BY <2>1, <2>2
<1>10. ASSUME Drop(w) PROVE Own
  <2>1. CASE At("read", w) = "absent"
    BY <1>1, <1>10, <2>1 DEF Drop, Unread
  <2>2. CASE At("read", w) # "absent"
    <3>1. wk'[w].outcome = wk[w].outcome /\ wk'[w].fill = 2 /\ wk'[w].pc # "verify"
          /\ wk'[w].spoilt = wk[w].spoilt
      BY <1>0, <1>10, <2>2 DEF Drop, Goroutine
    <3>2. QED
      BY <1>10, <3>1 DEF Drop
  <2>3. QED
    BY <2>1, <2>2
<1>11. ASSUME OsFails(w) PROVE Own
  <2>1. wk[w].pc \notin {"done", "killed"}
    BY <1>11 DEF OsFails
  <2>2. PICK o \in Unread : Finish(w, o)
    BY <1>11 DEF OsFails, Unread
  <2>3. QED
    BY <1>1, <2>1, <2>2
<1>12. QED
  BY <1>3, <1>4, <1>5, <1>6, <1>7, <1>8, <1>9, <1>10, <1>11 DEF AcquirePin

\* The goroutine holds the entry to be good: counted as read, or about to be.
Trusts(w) == wk[w].outcome \in ReadOutcome \/ (wk[w].pc = "verify" /\ wk[w].saw = "good")

\* What can have taken a good entry away.
Took(v) == wk[v].fill = 2 \/ wk[v].spoilt

Repairer(w) == \E v \in Worker \ {w} : PinOf[v] = PinOf[w] /\ Took(v)

\* Inductive: the entry a goroutine holds to be good is, or a repair removed it
\* or a copy of bad bytes replaced it;
\* and an outcome ends a goroutine, so the one that repairs is another.
TrustInv ==
  /\ \A w \in Worker : Trusts(w) /\ At("read", w) # "good" => Repairer(w)
  /\ \A w \in Worker : wk[w].outcome # "none" => wk[w].pc = "done"

LEMMA AnyRecord ==
  ASSUME TypeOK, [Next]_vars, NEW w \in Worker
  PROVE  \/ AcquirePin(w)
         \/ wk'[w] = wk[w]
         \/ wk[w].pc # "done" /\ wk'[w] = [wk[w] EXCEPT !.pc = "killed"]
<1>1. ASSUME NEW r \in Run, Crash(r)
      PROVE  \/ wk'[w] = wk[w]
             \/ wk[w].pc # "done" /\ wk'[w] = [wk[w] EXCEPT !.pc = "killed"]
  BY <1>1 DEF Crash
<1>2. QED
  BY <1>1, OthersStay DEF Next, Expire, vars

LEMMA Killed ==
  ASSUME TypeOK, NEW w \in Worker, wk'[w] = [wk[w] EXCEPT !.pc = "killed"]
  PROVE  /\ wk'[w].pc = "killed" /\ wk'[w].fill = wk[w].fill
         /\ wk'[w].outcome = wk[w].outcome /\ wk'[w].last = wk[w].last
         /\ wk'[w].prev = wk[w].prev /\ wk'[w].spoilt = wk[w].spoilt
<1>1. wk[w] \in Goroutine
  BY DEF TypeOK
<1>2. QED
  BY <1>1 DEF Goroutine

LEMMA OutcomeEnds ==
  ASSUME TypeOK, TrustInv, [Next]_vars, NEW w \in Worker, wk'[w].outcome # "none"
  PROVE  wk'[w].pc = "done"
<1>1. CASE AcquirePin(w)
  BY <1>1, OwnRecord DEF TrustInv
<1>2. CASE wk'[w] = wk[w]
  BY <1>2 DEF TrustInv
<1>3. CASE wk[w].pc # "done" /\ wk'[w] = [wk[w] EXCEPT !.pc = "killed"]
  BY <1>3, Killed DEF TrustInv
<1>4. QED
  BY <1>1, <1>2, <1>3, AnyRecord

LEMMA RepairerStays ==
  ASSUME TypeOK, [Next]_vars, NEW w \in Worker, Repairer(w)
  PROVE  Repairer(w)'
<1>1. PICK v \in Worker \ {w} : PinOf[v] = PinOf[w] /\ Took(v)
  BY DEF Repairer
<1>2. Took(v)'
  BY <1>1, AnyRecord, OwnRecord, Killed DEF Took
<1>3. QED
  BY <1>1, <1>2 DEF Repairer

\* A good entry is only ever taken away by a repair or a copy of bad bytes.
LEMMA GoodLost ==
  ASSUME TypeOK, [Next]_vars, NEW w \in Worker, At("read", w) = "good",
         At("read", w)' # "good"
  PROVE  \E v \in Worker : (Drop(v) \/ LinkCopy(v)) /\ PinOf[v] = PinOf[w] /\ Took(v)'
<1> "read" \in Dir /\ "shared" \in Dir /\ "absent" \in Bytes /\ "good" \in Bytes
    /\ PinOf[w] \in Pin /\ "read" # "shared"
  BY DepCacheAssumption DEF Dir, Bytes
<1>1. ASSUME NEW v \in Worker, Publish(v) PROVE FALSE
  BY <1>1, PutPlace DEF Publish, FillDir, At
<1>2. ASSUME NEW v \in Worker, Link(v) PROVE FALSE
  <2>1. At("shared", v) \in Bytes
    BY DepCacheAssumption DEF At, TypeOK
  <2>2. QED
    BY <1>2, <2>1, PutPlace DEF Link, At
<1>3. ASSUME NEW v \in Worker, Begin(v) \/ DropShared(v) PROVE FALSE
  BY <1>3, PutPlace DEF Begin, DropShared, At
<1>4. ASSUME NEW v \in Worker, Drop(v) PROVE PinOf[v] = PinOf[w] /\ Took(v)'
  <2>1. Put("read", v, "absent") /\ PinOf[v] = PinOf[w]
    BY <1>4, PutPlace DEF Drop, At
  <2>2. wk[v] \in Goroutine
    BY DEF TypeOK
  <2>3. At("read", v) # "absent"
    BY <2>1 DEF At
  <2>4. wk'[v] = [wk[v] EXCEPT !.pc = IF Shared(v) THEN "dropshared" ELSE "check", !.fill = 2,
                             !.saw = "absent"]
    BY <1>4, <2>3 DEF Drop, TypeOK
  <2>5. QED
    BY <2>1, <2>2, <2>4 DEF Goroutine, Took
<1>5. ASSUME NEW v \in Worker, LinkCopy(v) PROVE PinOf[v] = PinOf[w] /\ Took(v)'
  <2>1. wk[v] \in Goroutine
    BY DEF TypeOK
  <2>2. wk[v].saw \in Bytes
    BY <2>1 DEF Goroutine
  <2>3. PinOf[v] = PinOf[w] /\ wk[v].saw # "good"
    BY <1>5, <2>2, PutPlace DEF LinkCopy, At
  <2>4. wk'[v] = [wk[v] EXCEPT !.pc = "look", !.saw = "absent", !.spoilt = @ \/ wk[v].saw # "good"]
    BY <1>5 DEF LinkCopy, TypeOK
  <2>5. QED
    BY <2>1, <2>3, <2>4 DEF Goroutine, Took
<1>6. QED
  BY <1>1, <1>2, <1>3, <1>4, <1>5
     DEF Next, AcquirePin, CacheCheck, GetAnswer, Look, Verify, OsFails, Expire, Crash, vars, At

\* Trust begins with a look at a good entry.
LEMMA TrustSince ==
  ASSUME TypeOK, [Next]_vars, NEW w \in Worker, Trusts(w)'
  PROVE  Trusts(w) \/ (Look(w) /\ At("read", w) = "good")
<1>1. CASE AcquirePin(w)
  BY <1>1, OwnRecord DEF Trusts, Verify
<1>2. CASE wk'[w] = wk[w]
  BY <1>2 DEF Trusts
<1>3. CASE wk[w].pc # "done" /\ wk'[w] = [wk[w] EXCEPT !.pc = "killed"]
  BY <1>3, Killed DEF Trusts
<1>4. QED
  BY <1>1, <1>2, <1>3, AnyRecord

LEMMA TrustStep == TypeOK /\ TrustInv /\ [Next]_vars => TrustInv'
<1> SUFFICES ASSUME TypeOK, TrustInv, [Next]_vars PROVE TrustInv'
  OBVIOUS
<1>1. ASSUME NEW w \in Worker, Trusts(w)', At("read", w)' # "good" PROVE Repairer(w)'
  <2>1. CASE Trusts(w) /\ At("read", w) # "good"
    BY <2>1, RepairerStays DEF TrustInv
  <2>2. CASE Trusts(w) /\ At("read", w) = "good"
    <3>1. PICK v \in Worker : (Drop(v) \/ LinkCopy(v)) /\ PinOf[v] = PinOf[w] /\ Took(v)'
      BY <1>1, <2>2, GoodLost
    <3>2. wk[w].pc \in {"verify", "done"}
      BY <2>2 DEF Trusts, TrustInv, ReadOutcome
    <3>3. v # w
      BY <3>1, <3>2 DEF Drop, LinkCopy
    <3>4. QED
      BY <3>1, <3>3 DEF Repairer
  <2>3. CASE ~Trusts(w)
    <3>1. Look(w) /\ At("read", w) = "good"
      BY <1>1, <2>3, TrustSince
    <3>2. QED
      BY <1>1, <3>1 DEF Look, At
  <2>4. QED
    BY <2>1, <2>2, <2>3
<1>2. QED
  BY <1>1, OutcomeEnds DEF TrustInv

\* For any goroutines, runs and kills: bytes a run counted as read leave the
\* directory that is read only by another goroutine's repair of an entry it had
\* found bad, or under its late copy of a bad shared entry.
THEOREM VerifiedHolds == Spec => []VerifiedStays
<1>1. Init => TrustInv
  BY DEF Init, Idle, TrustInv, Trusts, ReadOutcome
<1>2. TrustInv => VerifiedStays
  BY DEF TrustInv, VerifiedStays, Trusts, Repairer, Took
<1>3. QED
  BY <1>1, <1>2, TrustStep, CacheTypeCorrect, PTL DEF Spec

-----------------------------------------------------------------------------
(* What the registry said.                                                 *)

\* Inductive: only a goroutine at its fetch loop, or past it, remembers that an
\* earlier attempt found the registry unavailable.
EvidenceInv ==
  /\ EvidenceKept
  /\ \A w \in Worker : wk[w].prev => wk[w].pc \in {"fetch", "done", "killed"}

\* What a failed request is filed as, against what it said.
LEMMA OutcomeTrue ==
  ASSUME NEW w \in Worker, NEW a \in Answer \ {"served"}
  PROVE  /\ OutcomeOf(w, a) = "not_served" => a = "absent"
         /\ OutcomeOf(w, a) = "cancelled" /\ wk[w].prev => a \in {"absent", "unreachable"}
BY DEF OutcomeOf, Answer

\* Every action but the fetch leaves prev alone and files nothing as not served.
LEMMA OtherEvidence ==
  ASSUME TypeOK, NEW w \in Worker, AcquirePin(w), ~GetAnswer(w)
  PROVE  /\ wk'[w].prev = wk[w].prev /\ wk[w].pc # "fetch"
         /\ wk'[w].outcome = "not_served" => wk[w].outcome = "not_served"
<1> DEFINE Kept == /\ wk'[w].prev = wk[w].prev /\ wk[w].pc # "fetch"
                   /\ wk'[w].outcome = "not_served" => wk[w].outcome = "not_served"
<1>0. wk[w] \in Goroutine /\ wk \in [Worker -> Goroutine]
  BY DEF TypeOK
<1>1. ASSUME NEW o, o # "not_served", Finish(w, o), wk[w].pc # "fetch" PROVE Kept
  <2>1. wk'[w] = Ended(wk[w], o)
    BY <1>0, <1>1 DEF Finish
  <2>2. QED
    BY <1>0, <1>1, <2>1 DEF Ended, Goroutine
<1>2. ASSUME NEW pc, Goto(w, pc), wk[w].pc # "fetch" PROVE Kept
  <2>1. wk'[w] = [wk[w] EXCEPT !.pc = pc]
    BY <1>0, <1>2 DEF Goto
  <2>2. QED
    BY <1>0, <1>2, <2>1 DEF Goroutine
<1>3. CASE Begin(w)
  BY <1>1, <1>2, <1>3 DEF Begin
<1>4. CASE CacheCheck(w)
  BY <1>0, <1>4 DEF CacheCheck, Goroutine
<1>5. CASE Publish(w)
  BY <1>0, <1>5 DEF Publish, Goroutine
<1>6. CASE Link(w) \/ LinkCopy(w) \/ DropShared(w)
  <2>1. CASE Link(w)
    <3>1. ASSUME wk' = [wk EXCEPT ![w].pc = "copy", ![w].saw = At("shared", w)] PROVE Kept
      BY <1>0, <2>1, <3>1 DEF Link, Goroutine
    <3>2. QED
      BY <1>2, <2>1, <3>1 DEF Link
  <2>2. CASE LinkCopy(w)
    BY <1>0, <2>2 DEF LinkCopy, Goroutine
  <2>3. QED
    BY <1>2, <1>6, <2>1, <2>2 DEF DropShared
<1>7. CASE Look(w)
  <2>1. CASE At("read", w) = "absent"
    BY <1>1, <1>7, <2>1 DEF Look
  <2>2. CASE At("read", w) # "absent"
    <3>1. wk'[w] = [wk[w] EXCEPT !.pc = "verify", !.saw = At("read", w)] /\ wk[w].pc = "look"
      BY <1>0, <1>7, <2>2 DEF Look
    <3>2. QED
      BY <1>0, <3>1 DEF Goroutine
  <2>3. QED
    BY <2>1, <2>2
<1>8. CASE Verify(w)
  BY <1>1, <1>2, <1>8 DEF Verify
<1>9. CASE Drop(w)
  <2>1. CASE At("read", w) = "absent"
    BY <1>1, <1>9, <2>1 DEF Drop
  <2>2. CASE At("read", w) # "absent"
    BY <1>0, <1>9, <2>2 DEF Drop, Goroutine
  <2>3. QED
    BY <2>1, <2>2
<1>10. CASE OsFails(w)
  BY <1>1, <1>10 DEF OsFails
<1>11. QED
  BY <1>3, <1>4, <1>5, <1>6, <1>7, <1>8, <1>9, <1>10 DEF AcquirePin

Told(g) ==
  /\ g.outcome = "not_served" => g.last = "absent"
  /\ g.outcome = "cancelled" /\ g.prev => g.last \in {"absent", "unreachable"}
  /\ g.prev => g.pc \in {"fetch", "done", "killed"}

LEMMA FetchEvidence ==
  ASSUME TypeOK, NEW w \in Worker, GetAnswer(w), wk[w].outcome = "none"
  PROVE  Told(wk'[w])
<1>0. wk[w] \in Goroutine /\ wk \in [Worker -> Goroutine] /\ wk[w].pc = "fetch"
  BY DEF TypeOK, GetAnswer
<1>1. PICK a \in Answer :
        \/ wk'[w] = [wk[w] EXCEPT !.pc = "publish", !.attempt = 0, !.prev = FALSE]
        \/ a # "served" /\ wk'[w] = Ended([wk[w] EXCEPT !.last = a], OutcomeOf(w, a))
        \/ wk'[w] = [[wk[w] EXCEPT !.last = a] EXCEPT !.attempt = @ + 1, !.prev = TRUE, !.last = "none"]
  BY <1>0 DEF GetAnswer
<1>2. CASE wk'[w] = [wk[w] EXCEPT !.pc = "publish", !.attempt = 0, !.prev = FALSE]
  BY <1>0, <1>2 DEF Told, Goroutine
<1>3. CASE a # "served" /\ wk'[w] = Ended([wk[w] EXCEPT !.last = a], OutcomeOf(w, a))
  <2>1. /\ wk'[w].outcome = OutcomeOf(w, a) /\ wk'[w].pc = "done"
        /\ wk'[w].last = a /\ wk'[w].prev = wk[w].prev
    BY <1>0, <1>3 DEF Ended, Goroutine
  <2>2. QED
    BY <1>1, <1>3, <2>1, OutcomeTrue DEF Told
<1>4. CASE wk'[w] = [[wk[w] EXCEPT !.last = a] EXCEPT !.attempt = @ + 1, !.prev = TRUE, !.last = "none"]
  <2>1. wk'[w].outcome = "none" /\ wk'[w].pc = "fetch"
    BY <1>0, <1>4 DEF Goroutine
  <2>2. QED
    BY <2>1 DEF Told
<1>5. QED
  BY <1>1, <1>2, <1>3, <1>4

LEMMA EvidenceStep == TypeOK /\ TrustInv /\ EvidenceInv /\ [Next]_vars => EvidenceInv'
<1> SUFFICES ASSUME TypeOK, TrustInv, EvidenceInv, [Next]_vars, NEW w \in Worker
             PROVE  Told(wk'[w])
  BY DEF EvidenceInv, EvidenceKept, Told
<1>0. Told(wk[w])
  BY DEF EvidenceInv, EvidenceKept, Told
<1>1. CASE AcquirePin(w)
  <2>1. wk[w].outcome = "none"
    BY <1>1, OwnRecord DEF TrustInv
  <2>2. CASE GetAnswer(w)
    BY <2>1, <2>2, FetchEvidence
  <2>3. CASE ~GetAnswer(w)
    BY <1>0, <1>1, <2>1, <2>3, OtherEvidence, OwnRecord DEF Told
  <2>4. QED
    BY <2>2, <2>3
<1>2. CASE wk'[w] = wk[w]
  BY <1>0, <1>2
<1>3. CASE wk[w].pc # "done" /\ wk'[w] = [wk[w] EXCEPT !.pc = "killed"]
  BY <1>0, <1>3, Killed DEF Told
<1>4. QED
  BY <1>1, <1>2, <1>3, AnyRecord

\* A registry that was unavailable is never filed as one that does not serve
\* the package, and a deadline does not turn what it said into a cancellation,
\* after any number of attempts and repairs.
THEOREM EvidenceHolds == Spec => []EvidenceKept
<1>1. Init => TrustInv /\ EvidenceInv
  BY DEF Init, Idle, TrustInv, Trusts, ReadOutcome, EvidenceInv, EvidenceKept
<1>2. EvidenceInv => EvidenceKept
  BY DEF EvidenceInv
<1>3. QED
  BY <1>1, <1>2, TrustStep, EvidenceStep, CacheTypeCorrect, PTL DEF Spec
=============================================================================
