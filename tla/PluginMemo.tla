----------------------------- MODULE PluginMemo -----------------------------
(***************************************************************************)
(* plugin.Memoize: an operation whose answer depends only on the build     *)
(* tree runs once per request.  The first caller of a request runs it and  *)
(* the others wait on its memoCall; a run that fails or panics is taken    *)
(* out of the map before its waiters are released, and they start over.    *)
(*                                                                         *)
(* A caller makes one request here, so a memoCall is named by the caller   *)
(* that created it.  Left out: a request or an answer that does not encode *)
(* as JSON, and the one decode that SharedCallGraph's callers share.       *)
(***************************************************************************)
CONSTANTS
  Caller,
  Key,     \* an operation and its request
  KeyOf,   \* what each caller asks for
  NoCall   \* the key is not in the map

ASSUME MemoAssumption ==
  KeyOf \in [Caller -> Key] /\ NoCall \notin Caller

VARIABLES
  calls,     \* the map
  done,      \* the memoCalls whose channel is closed
  good,      \* the memoCalls that hold an answer
  asker,     \* where each caller is, whom it waits for and how it came out
  cancelled  \* the callers whose context has ended

memoVars == <<calls, done, good, asker, cancelled>>

Outcome == {"none", "ran", "shared", "failed", "left"}

\* The map only ever names a call that is running or holds an answer, and no
\* call holds one before its waiters may see it.
MemoTypeOK ==
  /\ calls \in [Key -> Caller \cup {NoCall}]
  /\ \A k \in Key : calls[k] # NoCall => asker[calls[k]].pc = "run" \/ calls[k] \in good
  /\ good \subseteq done
  /\ done \subseteq Caller /\ good \subseteq Caller
  /\ asker \in [Caller ->
       [pc : {"idle", "fill", "run", "failing", "wait", "back"},
        on : Caller \cup {NoCall}, out : Outcome]]
  /\ cancelled \subseteq Caller

MemoInit ==
  /\ calls = [k \in Key |-> NoCall]
  /\ done = {} /\ good = {}
  /\ asker = [c \in Caller |-> [pc |-> "idle", on |-> NoCall, out |-> "none"]]
  /\ cancelled = {}

-----------------------------------------------------------------------------
Become(c, pc) == asker' = [asker EXCEPT ![c].pc = pc]
Back(c, out) ==
  asker' = [asker EXCEPT ![c] = [pc |-> "back", on |-> NoCall, out |-> out]]

Ask(c) ==
  /\ asker[c].pc = "idle"
  /\ Become(c, "fill")
  /\ UNCHANGED <<calls, done, good, cancelled>>

Cancel(c) ==
  /\ c \notin cancelled
  /\ cancelled' = cancelled \cup {c}
  /\ UNCHANGED <<calls, done, good, asker>>

Create(c) ==
  /\ asker[c].pc = "fill" /\ calls[KeyOf[c]] = NoCall
  /\ calls' = [calls EXCEPT ![KeyOf[c]] = c]
  /\ Become(c, "run")
  /\ UNCHANGED <<done, good, cancelled>>

Find(c) ==
  /\ asker[c].pc = "fill" /\ calls[KeyOf[c]] # NoCall
  /\ asker' = [asker EXCEPT ![c].pc = "wait", ![c].on = calls[KeyOf[c]]]
  /\ UNCHANGED <<calls, done, good, cancelled>>

\* Fault: an answer leaves the map as a failure does.
ReturnForgetting(c) ==
  /\ asker[c].pc = "run"
  /\ good' = good \cup {c} /\ done' = done \cup {c}
  /\ calls' = [calls EXCEPT ![KeyOf[c]] = NoCall]
  /\ Back(c, "ran")
  /\ UNCHANGED cancelled

Return(c) ==
  /\ asker[c].pc = "run"
  /\ good' = good \cup {c} /\ done' = done \cup {c}
  /\ Back(c, "ran")
  /\ UNCHANGED <<calls, cancelled>>

\* The run fails, or panics and unwinds through the deferred call.
Fail(c) ==
  /\ asker[c].pc = "run"
  /\ calls' = [calls EXCEPT ![KeyOf[c]] = NoCall]
  /\ Become(c, "failing")
  /\ UNCHANGED <<done, good, cancelled>>

\* Fault: the waiters of a failed call are not released.
ReleaseNone(c) ==
  /\ asker[c].pc = "failing"
  /\ Back(c, "failed")
  /\ UNCHANGED <<calls, done, good, cancelled>>

Release(c) ==
  /\ asker[c].pc = "failing"
  /\ done' = done \cup {c}
  /\ Back(c, "failed")
  /\ UNCHANGED <<calls, good, cancelled>>

\* Fault: waiters share the outcome of the call they waited for, good or bad.
WakeInheriting(c) ==
  /\ asker[c].pc = "wait" /\ asker[c].on \in done
  /\ Back(c, IF asker[c].on \in good THEN "shared" ELSE "failed")
  /\ UNCHANGED <<calls, done, good, cancelled>>

Wake(c) ==
  /\ asker[c].pc = "wait" /\ asker[c].on \in done
  /\ IF asker[c].on \in good THEN Back(c, "shared")
     ELSE asker' = [asker EXCEPT ![c].pc = "fill", ![c].on = NoCall]
  /\ UNCHANGED <<calls, done, good, cancelled>>

\* Either branch of the select may be taken when both are ready.
Leave(c) ==
  /\ asker[c].pc = "wait" /\ c \in cancelled
  /\ Back(c, "left")
  /\ UNCHANGED <<calls, done, good, cancelled>>

-----------------------------------------------------------------------------
(* Properties.                                                             *)

\* One request is never run by two callers at once, nor again once one of its
\* runs has succeeded.
RunOnce ==
  \A c, d \in Caller :
    KeyOf[c] = KeyOf[d] /\ c # d /\ asker[c].pc = "run" =>
      asker[d].pc # "run" /\ d \notin good
=============================================================================
