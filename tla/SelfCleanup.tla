----------------------------- MODULE SelfCleanup -----------------------------
(***************************************************************************)
(* Workflow runs of one repository that scan and then ask the console      *)
(* whether the App is still installed: RunCheck (internal/selfcleanup/     *)
(* check.go) folds the answer into the revoke counter kept beside the scan *)
(* state, and Actuate (ladder.go) removes the workflow and the state ref   *)
(* once the counter reaches the threshold.  The counter's ref, tries and   *)
(* merges are StateStore's; a scan writes the counter as it read it.       *)
(*                                                                         *)
(* Runs overlap: nothing in the workflow serialises them.  The console's   *)
(* answers are open.                                                       *)
(***************************************************************************)
EXTENDS StateStore, FiniteSets

CONSTANTS
  Linked,      \* the runs linked to the console: only these ask
  MaxAnswers   \* bound: the console's answers in a behaviour

RevokeThreshold == 2

\* The store's bound leaves room for every count the answers can make.
ASSUME CleanupAssumption ==
  /\ Linked \subseteq Writer
  /\ IsFiniteSet(Writer)
  /\ MaxAnswers \in Nat /\ MaxAnswers <= MaxRevoke

VARIABLES
  phase,     \* where each run is: its scan, its check or its ladder
  outcome,   \* the answer each run got
  local,     \* the count each run computed from it
  file,      \* the workflow file is on the default branch
  branch,    \* the removal branch is pushed
  pr,        \* its PR is open
  disabled,  \* the workflow is disabled
  issue,     \* the one-manual-step issue is filed
  answers,   \* ghost: the console's answers so far
  revokes    \* ghost: those that were signed revokes

runVars == <<phase, outcome, local>>
repoVars == <<file, branch, pr, disabled, issue>>
ghosts == <<answers, revokes>>
cleanupVars == <<vars, runVars, repoVars, ghosts>>

Outcome == {"transient", "active", "revoked"}
Ladder == {"file", "ref1", "pr", "ref2", "ref3", "disable", "issue"}
Phase == {"off", "scan", "check", "count"} \cup Ladder

CleanupTypeOK ==
  /\ TypeOK
  /\ phase \in [Writer -> Phase]
  /\ outcome \in [Writer -> Outcome]
  /\ local \in [Writer -> Nat]
  /\ {file, branch, pr, disabled, issue} \subseteq BOOLEAN
  /\ answers \in 0..MaxAnswers /\ revokes \in 0..answers

CleanupInit ==
  /\ Init
  /\ phase = [w \in Writer |-> "off"]
  /\ outcome = [w \in Writer |-> "transient"]
  /\ local = [w \in Writer |-> 0]
  /\ file = TRUE
  /\ branch = FALSE /\ pr = FALSE /\ disabled = FALSE /\ issue = FALSE
  /\ answers = 0 /\ revokes = 0

Goto(w, p) == phase' = [phase EXCEPT ![w] = p]

-----------------------------------------------------------------------------
(* The scan.                                                               *)

Start(w) ==
  /\ phase[w] = "off"
  /\ file /\ ~disabled
  /\ ReadForUpdate(w)
  /\ Goto(w, "scan")
  /\ UNCHANGED <<outcome, local, repoVars, ghosts>>

Scan(w) ==
  /\ phase[w] = "scan"
  /\ \/ Submit(w, cur[w].content, TRUE)
     \/ Abandon(w)
     \/ WriteStep(w)
  /\ UNCHANGED <<runVars, repoVars, ghosts>>

\* An unlinked run, and a run that is killed, does not ask.
Leave(w) ==
  /\ phase[w] = "scan" /\ stage[w] = "idle"
  /\ Goto(w, "off")
  /\ UNCHANGED <<vars, outcome, local, repoVars, ghosts>>

-----------------------------------------------------------------------------
(* RunCheck.                                                               *)

\* The beacon, classified: any 2xx is active, a verified signed 410 bound to
\* this repository is revoked, everything else is transient.
Beacon(w) ==
  /\ phase[w] = "scan" /\ stage[w] = "idle" /\ w \in Linked
  /\ answers < MaxAnswers /\ answers' = answers + 1
  /\ \E o \in Outcome :
       /\ outcome' = [outcome EXCEPT ![w] = o]
       /\ revokes' = IF o = "revoked" THEN revokes + 1 ELSE revokes
  /\ Goto(w, "check")
  /\ UNCHANGED <<vars, local, repoVars>>

\* Fault: an unsigned 410 or an outage counts as a revoke.
CountsOutage(prev, o) == IF o = "active" THEN 0 ELSE prev + 1

ApplyOutcome(prev, o) ==
  CASE o = "revoked" -> prev + 1
    [] o = "active" -> 0
    [] OTHER -> prev

Check(w) ==
  /\ phase[w] = "check"
  /\ ReadForUpdate(w)
  /\ local' = [local EXCEPT ![w] = ApplyOutcome(cur'[w].content.revoke, outcome[w])]
  /\ Goto(w, "count")
  /\ UNCHANGED <<outcome, repoVars, ghosts>>

\* The state could not be read: RunCheck returns.
CheckFails(w) ==
  /\ phase[w] = "check"
  /\ Goto(w, "off")
  /\ UNCHANGED <<vars, outcome, local, repoVars, ghosts>>

\* The ladder, unless the count is short of the threshold or the operator
\* holds it (SuppressActuation).
Decide(w) ==
  \/ local[w] >= RevokeThreshold /\ Goto(w, "file")
  \/ Goto(w, "off")

Count(w) ==
  /\ phase[w] = "count"
  /\ local[w] # cur[w].content.revoke
  /\ Submit(w, [cur[w].content EXCEPT !.revoke = local[w]], FALSE)
  /\ UNCHANGED <<runVars, repoVars, ghosts>>

Unchanged(w) ==
  /\ phase[w] = "count"
  /\ local[w] = cur[w].content.revoke
  /\ Abandon(w)
  /\ Decide(w)
  /\ UNCHANGED <<outcome, local, repoVars, ghosts>>

\* The counter's Write.  Its run decides on the count it computed, not on the
\* one a merge committed, and stops if the Write failed.
CountStep(w) ==
  /\ phase[w] = "count"
  /\ \/ TryWrite(w) /\ Decide(w)
     \/ (Conflict(w) \/ Retry(w)) /\ UNCHANGED phase
     \/ (Fail(w) \/ Exhaust(w)) /\ Goto(w, "off")
  /\ UNCHANGED <<outcome, local, repoVars, ghosts>>

-----------------------------------------------------------------------------
(* Actuate.  Every call of the platform may fail.                          *)

\* Fault: a refused push is taken for a removed file.
PushUnchecked(w) ==
  /\ phase[w] = "file"
  /\ \/ file /\ file' = FALSE
     \/ UNCHANGED file
  /\ Goto(w, "ref1")
  /\ UNCHANGED <<vars, outcome, local, branch, pr, disabled, issue, ghosts>>

\* The push is refused, or fails, or fails for all the run learns of it.
DeleteWorkflowFileDirect(w) ==
  /\ phase[w] = "file"
  /\ \/ file /\ file' = FALSE /\ Goto(w, "ref1")
     \/ file' \in {file, FALSE} /\ Goto(w, "pr")
  /\ UNCHANGED <<vars, outcome, local, branch, pr, disabled, issue, ghosts>>

\* The branch is rebuilt from the default one: the push is refused when the
\* branch is already there, and there is nothing to remove without the file.
\* After a push, the request for the PR may fail, or fail for all the run
\* learns of it.
OpenRemovalPR(w) ==
  /\ phase[w] = "pr"
  /\ \/ /\ file /\ ~branch
        /\ branch' = TRUE
        /\ \/ pr' = TRUE /\ Goto(w, "ref2")
           \/ pr' \in {pr, TRUE} /\ Goto(w, "ref3")
     \/ UNCHANGED <<branch, pr>> /\ Goto(w, "ref3")
  /\ UNCHANGED <<vars, outcome, local, file, disabled, issue, ghosts>>

\* The last call of rungs 1 and 2, the first of rung 3.
DeleteStateRef(w) ==
  /\ phase[w] \in {"ref1", "ref2", "ref3"}
  /\ DeleteRef \/ UNCHANGED vars
  /\ Goto(w, IF phase[w] = "ref3" THEN "disable" ELSE "off")
  /\ UNCHANGED <<outcome, local, repoVars, ghosts>>

DisableWorkflow(w) ==
  /\ phase[w] = "disable"
  /\ disabled' \in {TRUE, disabled}
  /\ Goto(w, "issue")
  /\ UNCHANGED <<vars, outcome, local, file, branch, pr, issue, ghosts>>

OpenCleanupIssue(w) ==
  /\ phase[w] = "issue"
  /\ issue' \in {TRUE, issue}
  /\ Goto(w, "off")
  /\ UNCHANGED <<vars, outcome, local, file, branch, pr, disabled, ghosts>>

\* The job is cancelled between two calls.
Cancelled(w) ==
  /\ phase[w] \in Ladder
  /\ Goto(w, "off")
  /\ UNCHANGED <<vars, outcome, local, repoVars, ghosts>>

Actuate(w) ==
  \/ DeleteWorkflowFileDirect(w)
  \/ OpenRemovalPR(w)
  \/ DeleteStateRef(w)
  \/ DisableWorkflow(w)
  \/ OpenCleanupIssue(w)
  \/ Cancelled(w)

\* Someone merges the removal PR.
MergePR ==
  /\ pr /\ file
  /\ file' = FALSE
  /\ UNCHANGED <<vars, runVars, branch, pr, disabled, issue, ghosts>>

RunCheck(w) ==
  \/ Beacon(w)
  \/ Check(w)
  \/ CheckFails(w)
  \/ Count(w)
  \/ Unchanged(w)
  \/ CountStep(w)

CleanupNext ==
  \/ \E w \in Writer :
       \/ Start(w)
       \/ Scan(w)
       \/ Leave(w)
       \/ RunCheck(w)
       \/ Actuate(w)
  \/ MergePR

CleanupSpec == CleanupInit /\ [][CleanupNext]_cleanupVars

-----------------------------------------------------------------------------
(* Properties.                                                             *)

\* No revoke is counted twice: whatever was merged, retried or written again
\* by a scan, the stored count is backed by as many signed revokes.
RevokesBackCount == ref.tree.content.revoke <= revokes

\* "N=2 tolerates a single anomalous signed revoke" (counter.go): no ladder
\* runs on fewer than two signed revokes.
TwoRevokesBehindLadder ==
  (\E w \in Writer : phase[w] \in Ladder) => revokes >= RevokeThreshold

\* "a CAS retry can never lose an increment the winner recorded" (merge.go):
\* the stored count drops only when the ref is deleted or a run whose answer
\* was active resets it, never by a scan that read it before.
StreakBrokenOnlyByActive ==
  [][Exists(ref') /\ ref'.tree.content.revoke < ref.tree.content.revoke =>
       \E w \in Writer : phase[w] = "count" /\ outcome[w] = "active" /\ Commits(w)]_cleanupVars

\* "State-ref deletion is LAST in rungs 1 and 2 so the consecutive-revoke count
\* survives a retry" (ladder.go): whichever runs climb the ladder together, the
\* ref is deleted only once the file is gone or the PR that removes it is open,
\* or on the rung that ends by disabling the workflow.
RefOutlivesFile ==
  [][Exists(ref) /\ ~Exists(ref') =>
       ~file \/ pr \/ \E w \in Writer : phase[w] = "ref3"]_cleanupVars

-----------------------------------------------------------------------------
(* The inductive invariant.                                                *)

\* The runs whose revoke is answered but not yet read into a count.
Pending == {w \in Writer : phase[w] = "check" /\ outcome[w] = "revoked"}

\* A count anywhere, stored, carried or computed, leaves room for every
\* pending revoke.
Backed(n) == n + Cardinality(Pending) <= revokes

CountInv ==
  /\ Backed(ref.tree.content.revoke)
  /\ \A w \in Writer : Backed(cur[w].content.revoke) /\ Backed(local[w])

=============================================================================
