-------------------------- MODULE RestStoreProofs --------------------------
(***************************************************************************)
(* The REST adapter's theorems, for every set of writers, retry budget and *)
(* report: a commit the server accepted stays in the ref's history, and    *)
(* every step is one of StateStore's or a swap of a ref that was deleted   *)
(* and created again.  They rest on lemmas about commits as sequences of   *)
(* trees: which precedes which, and that nothing is between a commit and   *)
(* its child.                                                              *)
(***************************************************************************)
EXTENDS RestStore, SequenceTheorems, TLAPS

-----------------------------------------------------------------------------
(* Commits and their ancestors.                                            *)

\* A commit's history, whatever its trees are.
IsCommit(h) == h \in Seq({h[i] : i \in 1..Len(h)})

LEMMA SeqIsCommit ==
  ASSUME NEW S, NEW h \in Seq(S)
  PROVE  IsCommit(h)
<1>1. Len(h) \in Nat /\ h \in [1..Len(h) -> S]
  BY LenProperties
<1>2. h \in [1..Len(h) -> {h[i] : i \in 1..Len(h)}]
  BY <1>1
<1>3. QED
  BY <1>1, <1>2, SeqDef DEF IsCommit

LEMMA NoRefIsCommit == IsCommit(NoRef) /\ Len(NoRef) = 0
BY EmptySeq, SeqIsCommit DEF NoRef

LEMMA CommitLength ==
  ASSUME NEW h, IsCommit(h)
  PROVE  Len(h) \in Nat /\ (h # NoRef => Len(h) > 0)
BY EmptySeq, LenProperties DEF IsCommit, NoRef

LEMMA ChildCommit ==
  ASSUME NEW h, IsCommit(h), NEW t
  PROVE  /\ IsCommit(Append(h, t)) /\ Append(h, t) # NoRef
         /\ Len(Append(h, t)) = Len(h) + 1
         /\ Append(h, t)[Len(h) + 1] = t
         /\ \A i \in 1..Len(h) : Append(h, t)[i] = h[i]
<1> DEFINE S == {h[i] : i \in 1..Len(h)} \cup {t}
<1>1. h \in Seq(S)
  BY SeqMonotonic DEF IsCommit
<1>2. t \in S /\ Len(h) \in Nat
  BY <1>1, LenProperties
<1>3. /\ Append(h, t) \in Seq(S) /\ Len(Append(h, t)) = Len(h) + 1
      /\ Append(h, t)[Len(h) + 1] = t
      /\ \A i \in 1..Len(h) : Append(h, t)[i] = h[i]
  BY <1>1, <1>2, AppendProperties
<1>4. Append(h, t) # NoRef
  BY <1>2, <1>3, EmptySeq DEF NoRef
<1>5. QED
  BY <1>3, <1>4, SeqIsCommit

\* IsPrefix, element by element.
LEMMA AncestorElements ==
  ASSUME NEW s, NEW t, IsCommit(s), IsCommit(t)
  PROVE  IsPrefix(s, t) <=> Len(s) <= Len(t) /\ \A i \in 1..Len(s) : s[i] = t[i]
<1> DEFINE S == {s[i] : i \in 1..Len(s)} \cup {t[i] : i \in 1..Len(t)}
<1>1. s \in Seq(S) /\ t \in Seq(S) /\ Len(s) \in Nat /\ Len(t) \in Nat
  BY SeqMonotonic, LenProperties DEF IsCommit
<1>2. ASSUME Len(s) <= Len(t)
      PROVE  SubSeq(s, 1, Len(s)) = SubSeq(t, 1, Len(s)) <=> \A i \in 1..Len(s) : s[i] = t[i]
  <2> DEFINE a == SubSeq(s, 1, Len(s))
             b == SubSeq(t, 1, Len(s))
  <2>1. \A i \in 1..Len(s) : s[i] \in S /\ t[i] \in S
    BY <1>1, <1>2
  <2>2. ASSUME NEW q, \A i \in 1..Len(s) : q[i] \in S
        PROVE  /\ SubSeq(q, 1, Len(s)) \in Seq(S) /\ Len(SubSeq(q, 1, Len(s))) = Len(s)
               /\ \A i \in 1..Len(s) : SubSeq(q, 1, Len(s))[i] = q[i]
    <3>1. 1 \in Int /\ Len(s) \in Int
      BY <1>1
    <3>2. /\ SubSeq(q, 1, Len(s)) \in Seq(S)
          /\ Len(SubSeq(q, 1, Len(s))) = IF 1 <= Len(s) THEN Len(s) - 1 + 1 ELSE 0
          /\ \A i \in 1..(Len(s) - 1 + 1) : SubSeq(q, 1, Len(s))[i] = q[1 + i - 1]
      BY <2>2, <3>1, SubSeqProperties
    <3>3. QED
      BY <1>1, <3>2
  <2>3. /\ a \in Seq(S) /\ b \in Seq(S) /\ Len(a) = Len(s) /\ Len(b) = Len(s)
        /\ \A i \in 1..Len(s) : a[i] = s[i] /\ b[i] = t[i]
    BY <2>1, <2>2
  <2>4. (\A i \in 1..Len(s) : a[i] = b[i]) => a = b
    BY <2>3, SeqEqual
  <2>5. QED
    BY <2>3, <2>4
<1>3. QED
  BY <1>2 DEF IsPrefix

LEMMA AncestorOfSelf ==
  ASSUME NEW s, IsCommit(s)
  PROVE  IsPrefix(s, s)
BY AncestorElements, CommitLength

LEMMA AncestorTransitive ==
  ASSUME NEW s, NEW t, NEW u, IsCommit(s), IsCommit(t), IsCommit(u), IsPrefix(s, t), IsPrefix(t, u)
  PROVE  IsPrefix(s, u)
<1>1. Len(s) \in Nat /\ Len(t) \in Nat /\ Len(u) \in Nat
  BY CommitLength
<1>2. /\ Len(s) <= Len(t) /\ \A i \in 1..Len(s) : s[i] = t[i]
      /\ Len(t) <= Len(u) /\ \A i \in 1..Len(t) : t[i] = u[i]
  BY AncestorElements
<1>3. Len(s) <= Len(u) /\ \A i \in 1..Len(s) : s[i] = u[i]
  BY <1>1, <1>2
<1>4. QED
  BY <1>3, AncestorElements

LEMMA AncestorOfChild ==
  ASSUME NEW s, NEW h, IsCommit(s), IsCommit(h), IsPrefix(s, h), NEW t
  PROVE  IsPrefix(s, Append(h, t))
<1>1. Len(h) \in Nat /\ IsCommit(Append(h, t)) /\ Len(Append(h, t)) = Len(h) + 1
      /\ \A i \in 1..Len(h) : Append(h, t)[i] = h[i]
  BY CommitLength, ChildCommit
<1> DEFINE c == Append(h, t)
<1>2. IsCommit(c) /\ Len(h) <= Len(c) /\ \A i \in 1..Len(h) : h[i] = c[i]
  BY <1>1
<1> HIDE DEF c
<1>3. IsPrefix(h, c)
  BY <1>2, AncestorElements
<1>4. IsPrefix(s, c)
  BY <1>2, <1>3, AncestorTransitive
<1>5. QED
  BY <1>4 DEF c

\* Nothing but the ref that does not exist precedes it.
LEMMA AncestorOfNothing ==
  ASSUME NEW s, IsCommit(s), IsPrefix(s, NoRef)
  PROVE  s = NoRef
<1>1. Len(s) <= 0
  BY NoRefIsCommit, AncestorElements
<1>2. QED
  BY <1>1, CommitLength

LEMMA NoRefPrecedes ==
  ASSUME NEW s, IsCommit(s)
  PROVE  IsPrefix(NoRef, s)
BY NoRefIsCommit, AncestorElements, CommitLength

\* Between a commit and its child there is no third.
LEMMA BetweenChild ==
  ASSUME NEW s, NEW h, IsCommit(s), IsCommit(h), NEW t,
         IsPrefix(s, h), IsPrefix(h, Append(s, t))
  PROVE  h = s \/ h = Append(s, t)
<1> DEFINE c == Append(s, t)
           S == {s[i] : i \in 1..Len(s)} \cup {h[i] : i \in 1..Len(h)} \cup {t}
<1>1. /\ Len(s) \in Nat /\ Len(h) \in Nat /\ IsCommit(c) /\ Len(c) = Len(s) + 1
      /\ \A i \in 1..Len(s) : c[i] = s[i]
  BY CommitLength, ChildCommit
<1>2. /\ Len(s) <= Len(h) /\ \A i \in 1..Len(s) : s[i] = h[i]
      /\ Len(h) <= Len(c) /\ \A i \in 1..Len(h) : h[i] = c[i]
  BY <1>1, AncestorElements
<1>3. s \in Seq(S) /\ h \in Seq(S) /\ c \in Seq(S)
  <2>1. s \in Seq(S) /\ h \in Seq(S) /\ t \in S
    BY SeqMonotonic DEF IsCommit
  <2>2. QED
    BY <2>1, AppendProperties
<1>4. CASE Len(h) = Len(s)
  BY <1>1, <1>2, <1>3, <1>4, SeqEqual
<1>5. CASE Len(h) = Len(c)
  BY <1>1, <1>2, <1>3, <1>5, SeqEqual
<1>6. QED
  BY <1>1, <1>2, <1>4, <1>5

-----------------------------------------------------------------------------
(* The inductive invariant.                                                *)

Places ==
  {"idle", "fetching", "read", "refetching", "building", "swapping", "conflict"}

RestShape ==
  /\ IsCommit(hist)
  /\ pc \in [Writer -> Places]
  /\ token = [w \in Writer |-> token[w]] /\ \A w \in Writer : IsCommit(token[w])
  /\ cur = [w \in Writer |-> cur[w]]
  /\ made = [w \in Writer |-> made[w]]
  /\ gone \in [Writer -> BOOLEAN]

\* The objects a writer asks the server to swap in are its own State's, on
\* top of the commit it read.
MadeInv ==
  \A w \in Writer : pc[w] = "swapping" =>
    made[w] = Append(token[w], Store!BuildTree(cur[w], CommitOf(token[w])))

\* What a writer read is in the ref's history, until the ref is deleted.
TokenInv == \A w \in Writer : pc[w] # "idle" /\ ~gone[w] => IsPrefix(token[w], hist)

\* So is what the server accepted, and it is a commit.
AckInv == \A h \in acked : IsCommit(h) /\ h # NoRef /\ IsPrefix(h, hist)

RestInv == RestShape /\ MadeInv /\ TokenInv /\ AckInv

LEMMA RestInvInit == Init => RestInv
BY NoRefIsCommit DEF Init, RestInv, RestShape, MadeInv, TokenInv, AckInv, Places

\* A writer that returns leaves nothing behind.
LEMMA ReturnShape ==
  ASSUME RestShape, NEW w \in Writer, Return(w), IsCommit(hist')
  PROVE  RestShape'
BY NoRefIsCommit DEF RestShape, Return, Goes, Places

LEMMA ReturnOthers ==
  ASSUME RestShape, MadeInv, NEW w \in Writer, Return(w)
  PROVE  /\ MadeInv'
         /\ \A v \in Writer : pc'[v] # "idle" =>
              v # w /\ pc[v] # "idle" /\ token'[v] = token[v] /\ gone'[v] = gone[v]
BY DEF RestShape, MadeInv, Return, Goes, Places, Store!BuildTree

\* The ref goes to a descendant, or stays.
LEMMA SwapAdvances ==
  ASSUME RestInv, NEW w \in Writer, pc[w] = "swapping", Accepts(w)
  PROVE  /\ IsCommit(made[w]) /\ made[w] # NoRef
         /\ IsPrefix(hist, made[w])
         /\ hist = NoRef => acked = {}
<1>1. IsCommit(hist) /\ IsCommit(token[w])
  BY DEF RestInv, RestShape
<1>2. made[w] = Append(token[w], Store!BuildTree(cur[w], CommitOf(token[w])))
  BY DEF RestInv, MadeInv
<1>3. IsCommit(made[w]) /\ made[w] # NoRef
  BY <1>1, <1>2, ChildCommit
<1>4. IsPrefix(hist, made[w])
  BY <1>3, NoRefPrecedes DEF Accepts
<1>5. ASSUME hist = NoRef, NEW h \in acked
      PROVE  FALSE
  BY <1>5, AncestorOfNothing DEF RestInv, AckInv
<1>6. QED
  BY <1>3, <1>4, <1>5

LEMMA SwapRestInv ==
  ASSUME RestInv, NEW w \in Writer, Swap(w)
  PROVE  RestInv'
<1>1. /\ IsCommit(made[w]) /\ made[w] # NoRef /\ IsPrefix(hist, made[w])
      /\ hist' = made[w] /\ acked' = acked \cup {made[w]} /\ IsCommit(hist)
      /\ RestShape /\ MadeInv /\ Return(w)
  BY SwapAdvances DEF Swap, At, RestInv, RestShape
<1>2. RestShape'
  BY <1>1, ReturnShape
<1>3. MadeInv'
  BY <1>1, ReturnOthers
<1>4. ASSUME NEW v \in Writer, pc'[v] # "idle", ~gone'[v]
      PROVE  IsPrefix(token'[v], hist')
  <2>1. pc[v] # "idle" /\ ~gone[v] /\ token'[v] = token[v]
    BY <1>1, <1>4, ReturnOthers
  <2>2. IsCommit(token[v]) /\ IsPrefix(token[v], hist)
    BY <2>1 DEF RestInv, RestShape, TokenInv
  <2>3. QED
    BY <1>1, <2>1, <2>2, AncestorTransitive
<1>5. ASSUME NEW h \in acked'
      PROVE  IsCommit(h) /\ h # NoRef /\ IsPrefix(h, hist')
  <2>1. CASE h = made[w]
    BY <1>1, <2>1, AncestorOfSelf
  <2>2. CASE h \in acked
    <3>1. IsCommit(h) /\ h # NoRef /\ IsPrefix(h, hist)
      BY <2>2 DEF RestInv, AckInv
    <3>2. QED
      BY <1>1, <3>1, AncestorTransitive
  <2>3. QED
    BY <1>1, <2>1, <2>2
<1>6. QED
  BY <1>2, <1>3, <1>4, <1>5 DEF RestInv, TokenInv, AckInv

LEMMA ForeignRestInv ==
  ASSUME RestInv, NEW r, NEW x, ForeignCommit(r, x)
  PROVE  RestInv'
<1>1. /\ RestShape /\ IsCommit(hist)
      /\ hist' = Append(hist, Store!ForeignTree(CommitOf(hist), r, x))
      /\ UNCHANGED <<pc, token, cur, mine, attempt, made, gone, acked>>
  BY DEF ForeignCommit, RestInv, RestShape
<1>2. IsCommit(hist')
  BY <1>1, ChildCommit
<1>3. RestShape' /\ MadeInv'
  BY <1>1, <1>2 DEF RestInv, RestShape, MadeInv, Store!BuildTree
<1>4. ASSUME NEW h, IsCommit(h), IsPrefix(h, hist)
      PROVE  IsPrefix(h, hist')
  BY <1>1, <1>4, AncestorOfChild
<1>5. TokenInv'
  BY <1>1, <1>4 DEF RestInv, RestShape, TokenInv
<1>6. AckInv'
  BY <1>1, <1>4 DEF RestInv, AckInv
<1>7. QED
  BY <1>3, <1>5, <1>6 DEF RestInv

LEMMA DeleteRestInv ==
  ASSUME RestInv, DeleteRef
  PROVE  RestInv'
<1>1. RestShape'
  BY NoRefIsCommit DEF RestInv, RestShape, DeleteRef
<1>2. MadeInv'
  BY DEF RestInv, MadeInv, DeleteRef, Store!BuildTree
<1>3. TokenInv' /\ AckInv'
  BY DEF RestInv, RestShape, TokenInv, AckInv, DeleteRef
<1>4. QED
  BY <1>1, <1>2, <1>3 DEF RestInv

\* A writer's steps that leave the ref alone.
LEMMA LocalRestInv ==
  ASSUME RestInv, NEW w \in Writer,
         \/ Probe(w) \/ ReadRef(w) \/ Fetched(w) \/ Abandon(w) \/ Build(w) \/ ParentGone(w)
         \/ Conflict(w) \/ Fail(w) \/ Reread(w) \/ Refetched(w) \/ Exhaust(w)
         \/ \E next, hook : Submit(w, next, hook)
  PROVE  RestInv'
<1>1. RestShape /\ IsCommit(hist) /\ hist' = hist /\ acked' = acked /\ MadeInv
  BY DEF RestInv, RestShape, Probe, ReadRef, Fetched, Abandon, Build, ParentGone, Conflict, Fail,
         Reread, Refetched, Exhaust, Submit
<1>2. AckInv'
  BY <1>1 DEF RestInv, AckInv
<1>3. CASE Abandon(w) \/ Fail(w) \/ Exhaust(w)
  <2>1. Return(w)
    BY <1>3 DEF Abandon, Fail, Exhaust
  <2>2. RestShape' /\ MadeInv'
    BY <1>1, <2>1, ReturnShape, ReturnOthers
  <2>3. TokenInv'
    BY <1>1, <2>1, ReturnOthers DEF RestInv, TokenInv
  <2>4. QED
    BY <1>2, <2>2, <2>3 DEF RestInv
<1>4. CASE Probe(w) \/ Fetched(w) \/ ParentGone(w) \/ Conflict(w) \/ Refetched(w)
  <2>1. UNCHANGED <<hist, token, cur, made, gone, acked>>
    BY <1>4 DEF Probe, Fetched, ParentGone, Conflict, Refetched
  <2>2. \A v \in Writer : /\ pc'[v] = "swapping" => pc[v] = "swapping"
                          /\ pc'[v] # "idle" => pc[v] # "idle"
    BY <1>1, <1>4 DEF Probe, Fetched, ParentGone, Conflict, Refetched, Goes, At, RestShape
  <2>3. pc' \in [Writer -> Places]
    BY <1>1, <1>4 DEF Probe, Fetched, ParentGone, Conflict, Refetched, Goes, RestShape, Places
  <2>4. RestShape' /\ MadeInv' /\ TokenInv'
    BY <1>1, <2>1, <2>2, <2>3 DEF RestInv, RestShape, MadeInv, TokenInv, Store!BuildTree
  <2>5. QED
    BY <1>2, <2>4 DEF RestInv
<1>5. CASE ReadRef(w) \/ Reread(w)
  <2>1. /\ token' = [token EXCEPT ![w] = hist] /\ gone' = [gone EXCEPT ![w] = FALSE]
        /\ made' = made
        /\ \E s : cur' = [cur EXCEPT ![w] = s]
        /\ \E p \in {"fetching", "refetching"} : pc' = [pc EXCEPT ![w] = p]
    BY <1>5 DEF ReadRef, Reread, Goes
  <2>2. RestShape'
    BY <1>1, <2>1 DEF RestShape, Places
  <2>3. MadeInv'
    BY <1>1, <2>1 DEF RestShape, MadeInv, Places, Store!BuildTree
  <2>4. TokenInv'
    BY <1>1, <2>1, AncestorOfSelf DEF RestInv, RestShape, TokenInv, Places
  <2>5. QED
    BY <1>2, <2>2, <2>3, <2>4 DEF RestInv
<1>6. CASE \E next, hook : Submit(w, next, hook)
  <2>1. /\ UNCHANGED <<token, gone, made>> /\ pc[w] = "read"
        /\ \E s : cur' = [cur EXCEPT ![w] = s]
        /\ pc' = [pc EXCEPT ![w] = "building"]
    BY <1>6 DEF Submit, Goes, At
  <2>2. RestShape'
    BY <1>1, <2>1 DEF RestShape, Places
  <2>3. MadeInv' /\ TokenInv'
    BY <1>1, <2>1 DEF RestInv, RestShape, MadeInv, TokenInv, Places, Store!BuildTree
  <2>4. QED
    BY <1>2, <2>2, <2>3 DEF RestInv
<1>7. CASE Build(w)
  <2>1. /\ UNCHANGED <<token, gone, cur>> /\ pc[w] = "building"
        /\ made' = [made EXCEPT ![w] =
                      Append(token[w], Store!BuildTree(cur[w], CommitOf(token[w])))]
        /\ pc' = [pc EXCEPT ![w] = "swapping"]
    BY <1>7 DEF Build, Goes, At
  <2>2. RestShape'
    BY <1>1, <2>1 DEF RestShape, Places
  <2>3. MadeInv'
    BY <1>1, <2>1 DEF RestShape, MadeInv, Places, Store!BuildTree
  <2>4. TokenInv'
    BY <1>1, <2>1 DEF RestInv, RestShape, TokenInv, Places
  <2>5. QED
    BY <1>2, <2>2, <2>3, <2>4 DEF RestInv
<1>8. QED
  BY <1>3, <1>4, <1>5, <1>6, <1>7

LEMMA RestInvStep ==
  ASSUME RestInv, [Next]_restVars
  PROVE  RestInv'
<1>1. CASE UNCHANGED restVars
  BY <1>1 DEF restVars, RestInv, RestShape, MadeInv, TokenInv, AckInv, Store!BuildTree
<1>2. CASE DeleteRef
  BY <1>2, DeleteRestInv
<1>3. CASE \E r \in Fresh, x \in SUBSET Foreign : ForeignCommit(r, x)
  BY <1>3, ForeignRestInv
<1>4. CASE \E w \in Writer : Swap(w)
  BY <1>4, SwapRestInv
<1>5. ASSUME NEW w \in Writer,
             \/ Probe(w) \/ ReadRef(w) \/ Fetched(w) \/ Abandon(w)
             \/ \E next \in Store!Intents(cur[w].content), hook \in Hooks : Submit(w, next, hook)
             \/ WriteStep(w)
      PROVE  Swap(w) \/ RestInv'
  BY <1>5, LocalRestInv DEF WriteStep
<1>6. QED
  BY <1>1, <1>2, <1>3, <1>4, <1>5 DEF Next

\* Every reachable state keeps the invariant.
LEMMA RestInvariant == Spec => []RestInv
<1>1. Init => RestInv
  BY RestInvInit
<1>2. RestInv /\ [Next]_restVars => RestInv'
  BY RestInvStep
<1>3. QED
  BY <1>1, <1>2, PTL DEF Spec

\* A commit the server accepted stays in the ref's history until the ref is
\* deleted: PATCH asks for a fast-forward, POST for a ref that is not there,
\* and neither writers that were half-way through a try nor other versions
\* can move the ref anywhere but to a descendant (github.go updateRef and
\* createRef).
THEOREM AcceptedStays == Spec => []AcknowledgedStays
<1>1. RestInv => AcknowledgedStays
  BY DEF RestInv, AckInv, AcknowledgedStays
<1>2. QED
  BY <1>1, RestInvariant, PTL

-----------------------------------------------------------------------------
(* The store of StateStore, step by step.                                  *)

\* What StateStore sees of a writer's place and of its token.
StageMap == [w \in Writer |-> StageOf(pc[w])]
TokenMap == [w \in Writer |-> CommitOf(token[w])]

LEMMA StageMoves ==
  ASSUME RestShape, NEW w \in Writer, NEW p, Goes(w, p)
  PROVE  /\ StageMap' = [StageMap EXCEPT ![w] = StageOf(p)]
         /\ StageOf(p) = StageOf(pc[w]) => StageMap' = StageMap
BY DEF RestShape, Goes, StageMap

LEMMA TokenMoves ==
  ASSUME RestShape, NEW w \in Writer, NEW h, token' = [token EXCEPT ![w] = h]
  PROVE  TokenMap' = [TokenMap EXCEPT ![w] = CommitOf(h)]
BY DEF RestShape, TokenMap

LEMMA Stages ==
  /\ StageOf("idle") = "idle"
  /\ StageOf("fetching") = "read" /\ StageOf("read") = "read"
  /\ StageOf("refetching") = "trying" /\ StageOf("building") = "trying"
  /\ StageOf("swapping") = "trying"
  /\ StageOf("conflict") = "conflict"
<1>1. StageOf("idle") = "idle"
  BY DEF StageOf
<1>2. StageOf("fetching") = "read" /\ StageOf("read") = "read"
  BY DEF StageOf
<1>3. StageOf("refetching") = "trying" /\ StageOf("building") = "trying"
  BY DEF StageOf
<1>4. StageOf("swapping") = "trying"
  BY DEF StageOf
<1>5. StageOf("conflict") = "conflict"
  BY DEF StageOf
<1>6. QED
  BY <1>1, <1>2, <1>3, <1>4, <1>5

LEMMA SameEmptyContent == EmptyContent = Store!EmptyContent
BY DEF EmptyContent, EmptyDep, NeverFetched, Store!EmptyContent, Store!EmptyDep, Store!NeverFetched

LEMMA CommitIsNoCommit == CommitOf(NoRef) = Store!NoCommit
BY SameEmptyContent DEF CommitOf, Store!NoCommit

LEMMA CommitExists ==
  ASSUME NEW h, IsCommit(h)
  PROVE  Store!Exists(CommitOf(h)) <=> h # NoRef
BY CommitLength DEF CommitOf, Store!Exists

LEMMA CommitOfChild ==
  ASSUME NEW h, IsCommit(h), NEW t
  PROVE  CommitOf(Append(h, t)) = Store!Child(CommitOf(h), t)
<1>1. /\ Append(h, t) # NoRef /\ Len(Append(h, t)) = Len(h) + 1
      /\ Append(h, t)[Len(h) + 1] = t
  BY ChildCommit
<1>2. CommitOf(Append(h, t)) = [depth |-> Len(h) + 1, tree |-> t]
  BY <1>1 DEF CommitOf
<1>3. CommitOf(h).depth = Len(h)
  BY NoRefIsCommit DEF CommitOf
<1>4. QED
  BY <1>2, <1>3 DEF Store!Child

LEMMA ReturnMaps ==
  ASSUME RestShape, NEW w \in Writer, Return(w)
  PROVE  Store!Return(w)
<1>1. StageMap' = [StageMap EXCEPT ![w] = "idle"]
  BY StageMoves, Stages DEF Return
<1>2. TokenMap' = [TokenMap EXCEPT ![w] = Store!NoCommit]
  BY TokenMoves, CommitIsNoCommit DEF Return
<1>3. QED
  BY <1>1, <1>2, SameEmptyContent DEF Return, Store!Return, Store!Become, Store!FreshState,
     StageMap, TokenMap

LEMMA ReadMaps ==
  ASSUME RestShape, NEW w \in Writer, ReadRef(w)
  PROVE  Store!ReadForUpdate(w)
<1>1. StageMap' = [StageMap EXCEPT ![w] = "read"]
  BY StageMoves, Stages DEF ReadRef
<1>2. TokenMap' = [TokenMap EXCEPT ![w] = CommitOf(hist)]
  BY TokenMoves DEF ReadRef
<1>3. StageMap[w] = "idle"
  BY Stages DEF ReadRef, At, StageMap
<1>4. QED
  BY <1>1, <1>2, <1>3 DEF ReadRef, Event, Store!ReadForUpdate, Store!Resolved, Store!Become,
     Store!Event, StageMap, TokenMap

LEMMA SubmitMaps ==
  ASSUME RestShape, NEW w \in Writer, NEW next, NEW hook, Submit(w, next, hook)
  PROVE  /\ Store!Submit(w, next, hook)
         /\ cur'[w].content = next /\ cur'[w].remerge = hook
<1>1. StageMap' = [StageMap EXCEPT ![w] = "trying"]
  BY StageMoves, Stages DEF Submit
<1>2. StageMap[w] = "read"
  BY Stages DEF Submit, At, StageMap
<1>3. cur'[w] = [content |-> next, remerge |-> hook]
  BY DEF Submit, RestShape
<1>4. QED
  BY <1>1, <1>2, <1>3 DEF Submit, Store!Submit, Store!Become, StageMap, TokenMap

LEMMA AbandonMaps ==
  ASSUME RestShape, NEW w \in Writer, Abandon(w)
  PROVE  Store!Abandon(w)
<1>1. Store!Return(w) /\ UNCHANGED <<hist, events>>
  BY ReturnMaps DEF Abandon
<1>2. StageMap[w] = "read"
  BY Stages DEF Abandon, StageMap
<1>3. QED
  BY <1>1, <1>2 DEF Store!Abandon, StageMap

LEMMA FailMaps ==
  ASSUME RestShape, NEW w \in Writer, Fail(w)
  PROVE  Store!Fail(w)
<1>1. Store!Return(w) /\ UNCHANGED <<hist, events>>
  BY ReturnMaps DEF Fail
<1>2. StageMap[w] \in {"trying", "conflict"}
  BY Stages DEF Fail, StageMap
<1>3. QED
  BY <1>1, <1>2 DEF Store!Fail, StageMap

LEMMA ExhaustMaps ==
  ASSUME RestShape, NEW w \in Writer, Exhaust(w)
  PROVE  Store!Exhaust(w)
<1>1. Store!Return(w) /\ UNCHANGED <<hist, events>> /\ attempt[w] = MaxRetries
  BY ReturnMaps DEF Exhaust
<1>2. StageMap[w] = "conflict"
  BY Stages DEF Exhaust, At, StageMap
<1>3. QED
  BY <1>1, <1>2 DEF Store!Exhaust, StageMap

LEMMA ConflictMaps ==
  ASSUME RestShape, NEW w \in Writer, Conflict(w) \/ ParentGone(w)
  PROVE  Store!Conflict(w)
<1>1. StageMap' = [StageMap EXCEPT ![w] = "conflict"]
  BY StageMoves, Stages DEF Conflict, ParentGone
<1>2. StageMap[w] = "trying"
  BY Stages DEF Conflict, ParentGone, At, StageMap
<1>3. UNCHANGED <<hist, cur, token, attempt, mine, events>>
  BY DEF Conflict, ParentGone
<1>4. QED
  BY <1>1, <1>2, <1>3 DEF Store!Conflict, Store!Become, StageMap

LEMMA RereadMaps ==
  ASSUME RestShape, NEW w \in Writer, Reread(w)
  PROVE  Store!Retry(w)
<1>1. StageMap' = [StageMap EXCEPT ![w] = "trying"]
  BY StageMoves, Stages DEF Reread
<1>2. TokenMap' = [TokenMap EXCEPT ![w] = CommitOf(hist)]
  BY TokenMoves DEF Reread
<1>3. StageMap[w] = "conflict"
  BY Stages DEF Reread, At, StageMap
<1>4. QED
  BY <1>1, <1>2, <1>3 DEF Reread, Store!Retry, Store!Resolved, Store!Become, StageMap, TokenMap

\* The objects of a Read or of a try, and the probe, change nothing that
\* StateStore sees.
LEMMA RequestStutters ==
  ASSUME RestShape, NEW w \in Writer, Probe(w) \/ Fetched(w) \/ Build(w) \/ Refetched(w)
  PROVE  UNCHANGED StoreVars
<1>1. UNCHANGED <<hist, token, cur, mine, attempt, events>>
  BY DEF Probe, Fetched, Build, Refetched
<1>2. StageMap' = StageMap
  <2>1. CASE Probe(w)
    BY <2>1 DEF Probe, StageMap
  <2>2. CASE Fetched(w) \/ Build(w) \/ Refetched(w)
    BY <2>2, StageMoves, Stages DEF Fetched, Build, Refetched, At
  <2>3. QED
    BY <2>1, <2>2
<1>3. QED
  BY <1>1, <1>2 DEF StoreVars, StageMap

\* A swap that finds the ref the try was made from is a compare-and-swap; one
\* that finds its own commit already there leaves the ref alone; and any
\* other finds a ref that was deleted and created again.
LEMMA SwapMaps ==
  ASSUME RestInv, NEW w \in Writer, Swap(w)
  PROVE  Store!TryWrite(w) \/ Store!Fail(w) \/ (gone[w] /\ hist # token[w])
<1>1. /\ RestShape /\ IsCommit(hist) /\ IsCommit(token[w]) /\ gone[w] \in BOOLEAN
      /\ pc[w] = "swapping" /\ Accepts(w) /\ hist' = made[w] /\ UNCHANGED events
      /\ made[w] = Append(token[w], Store!BuildTree(cur[w], CommitOf(token[w])))
  BY DEF RestInv, RestShape, MadeInv, Swap, At
<1>2. Store!Return(w)
  BY <1>1, ReturnMaps DEF Swap
<1>3. StageMap[w] = "trying" /\ TokenMap[w] = CommitOf(token[w])
  BY <1>1, Stages DEF StageMap, TokenMap
<1>4. CASE hist = token[w]
  <2>1. CommitOf(hist') = Store!Child(CommitOf(token[w]),
                                      Store!BuildTree(cur[w], CommitOf(token[w])))
    BY <1>1, CommitOfChild
  <2>2. Store!TryWrite(w)
    BY <1>1, <1>2, <1>3, <1>4, <2>1 DEF Store!TryWrite, StageMap, TokenMap
  <2>3. QED
    BY <2>2
<1>5. CASE hist = made[w]
  BY <1>1, <1>2, <1>3, <1>5 DEF Store!Fail, StageMap
<1>6. CASE ~gone[w]
  <2>1. IsPrefix(token[w], hist)
    BY <1>1, <1>6 DEF RestInv, TokenInv
  <2>2. IsPrefix(hist, made[w])
    BY <1>1, SwapAdvances
  <2>3. hist = token[w] \/ hist = made[w]
    BY <1>1, <2>1, <2>2, BetweenChild
  <2>4. QED
    BY <1>4, <1>5, <2>3
<1>7. QED
  BY <1>1, <1>4, <1>6

LEMMA DeleteMaps ==
  ASSUME RestShape, DeleteRef
  PROVE  Store!DeleteRef
<1>1. Store!Exists(CommitOf(hist)) /\ CommitOf(hist') = Store!NoCommit
  BY CommitExists, CommitIsNoCommit DEF DeleteRef, RestShape
<1>2. QED
  BY <1>1 DEF DeleteRef, Event, Store!DeleteRef, Store!Event

LEMMA ForeignMaps ==
  ASSUME RestShape, NEW r, NEW x, ForeignCommit(r, x)
  PROVE  Store!ForeignCommit(r, x)
<1>1. /\ Store!Exists(CommitOf(hist))
      /\ CommitOf(hist') = Store!Child(CommitOf(hist), Store!ForeignTree(CommitOf(hist), r, x))
  BY CommitExists, CommitOfChild DEF ForeignCommit, RestShape
<1>2. QED
  BY <1>1 DEF ForeignCommit, Event, Store!ForeignCommit, Store!Event

LEMMA InitMaps == Init => Store!Init
BY CommitIsNoCommit, SameEmptyContent, Stages DEF Init, Store!Init, Store!FreshState

\* The sub-actions of a step of this adapter, as StateStore's.
LEMMA StepMaps ==
  ASSUME RestInv, [Next]_restVars
  PROVE  \/ UNCHANGED StoreVars
         \/ Recreated
         \/ \E w \in Writer :
              \/ Store!ReadForUpdate(w) \/ Store!Abandon(w) \/ Store!WriteStep(w)
              \/ \E next \in Store!Intents(cur[w].content), hook \in Hooks :
                   /\ Store!Submit(w, next, hook)
                   /\ next = cur'[w].content /\ hook = cur'[w].remerge
         \/ Store!DeleteRef
         \/ \E r \in Fresh, x \in SUBSET Foreign : Store!ForeignCommit(r, x)
<1>1. RestShape
  BY DEF RestInv
<1>2. CASE UNCHANGED restVars
  BY <1>2 DEF restVars, StoreVars
<1>3. CASE DeleteRef
  BY <1>1, <1>3, DeleteMaps
<1>4. CASE \E r \in Fresh, x \in SUBSET Foreign : ForeignCommit(r, x)
  BY <1>1, <1>4, ForeignMaps
<1>5. ASSUME NEW w \in Writer, Probe(w) \/ Fetched(w) \/ Build(w) \/ Refetched(w)
      PROVE  UNCHANGED StoreVars
  BY <1>1, <1>5, RequestStutters
<1>6. ASSUME NEW w \in Writer, ReadRef(w)
      PROVE  Store!ReadForUpdate(w)
  BY <1>1, <1>6, ReadMaps
<1>7. ASSUME NEW w \in Writer, Abandon(w)
      PROVE  Store!Abandon(w)
  BY <1>1, <1>7, AbandonMaps
<1>8. ASSUME NEW w \in Writer, NEW next \in Store!Intents(cur[w].content), NEW hook \in Hooks,
             Submit(w, next, hook)
      PROVE  /\ Store!Submit(w, next, hook)
             /\ next = cur'[w].content /\ hook = cur'[w].remerge
  BY <1>1, <1>8, SubmitMaps
<1>9. ASSUME NEW w \in Writer,
             \/ ParentGone(w) \/ Conflict(w) \/ Fail(w) \/ Reread(w) \/ Exhaust(w)
      PROVE  Store!WriteStep(w)
  BY <1>1, <1>9, ConflictMaps, FailMaps, RereadMaps, ExhaustMaps DEF Store!WriteStep
<1>10. ASSUME NEW w \in Writer, Swap(w)
       PROVE  Store!WriteStep(w) \/ Recreated
  BY <1>10, SwapMaps DEF Store!WriteStep, Recreated, Swap, At
<1>11. QED
  BY <1>2, <1>3, <1>4, <1>5, <1>6, <1>7, <1>8, <1>9, <1>10 DEF Next, WriteStep

\* Every step of the REST adapter is one of the git adapter, or a swap of a
\* ref that was deleted and created again since the writer read it: PATCH
\* with force=false is a compare-and-swap as long as the ref lives.
THEOREM RestImplementsStore == Spec => ImplementsStore
<1>1. Init => Store!Init
  BY InitMaps
<1>2. RestInv /\ [Next]_restVars => [Recreated \/ StoreStep]_StoreVars
  BY StepMaps DEF StoreStep
<1>3. QED
  BY <1>1, <1>2, RestInvariant, PTL DEF Spec, ImplementsStore

\* While nobody deletes the ref under a Read..Write, the adapter's behaviours
\* are the git adapter's: what is proved of StateStore holds of them.
THEOREM UndeletedImplementsStore ==
  Spec /\ [](\A w \in Writer : ~gone[w]) => Store!Spec
<1> DEFINE Kept == \A w \in Writer : ~gone[w]
<1>1. Init => Store!Init
  BY InitMaps
<1>2. ASSUME RestInv, Kept, [Next]_restVars
      PROVE  [Store!Next]_(Store!vars)
  <2>1. ~Recreated
    BY <1>2 DEF Recreated
  <2>2. Hooks \subseteq BOOLEAN
    BY RestAssumption
  <2>3. UNCHANGED StoreVars => UNCHANGED Store!vars
    BY DEF Store!vars, StoreVars
  <2>4. QED
    BY <1>2, <2>1, <2>2, <2>3, StepMaps DEF Store!Next, Store!ForeignWrite
<1> HIDE DEF Kept
<1>3. Spec /\ []Kept => Store!Spec
  BY <1>1, <1>2, RestInvariant, PTL DEF Spec, Store!Spec
<1>4. QED
  BY <1>3 DEF Kept

=============================================================================
