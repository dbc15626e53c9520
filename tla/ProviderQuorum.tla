--------------------------- MODULE ProviderQuorum ---------------------------
(***************************************************************************)
(* run_audit_all_providers (app/services/ai_providers.py): one asyncio     *)
(* task per configured provider, each with a wall-clock cap and one retry; *)
(* the run returns on the third complete result, or when every task has    *)
(* ended, and then cancels what is still running.                          *)
(*                                                                         *)
(* A provider may answer, fail or hang.  The timers of the event loop fire *)
(* on time; everything else may happen at any time before the cap.         *)
(***************************************************************************)
EXTENDS Integers, FiniteSets

CONSTANTS
  Providers,  \* the providers with a key
  Cap,        \* wall-clock cap of each, in units of the clock
  Backoff     \* the pause before the retry, in the same units

ASSUME ProvidersAssumption == IsFiniteSet(Providers) /\ Providers # {}

ASSUME CapAssumption == Cap \in [Providers -> Nat] /\ Backoff \in Nat

VARIABLES
  now,      \* time since the start of the run
  task,     \* the task of each provider
  pc,       \* where the coroutine of the run is
  aborted,  \* the run itself was cancelled, by a worker that shuts down
  results,  \* providers whose complete result was collected
  errors    \* providers recorded in _errors

vars == <<now, task, pc, aborted, results, errors>>

-----------------------------------------------------------------------------

Pending == {"calling", "backoff"}
Outcome == {"ok", "incomplete", "timeout", "error"}

\* Only the first attempt is followed by a pause.
Task ==
  {t \in [state : Pending \cup Outcome \cup {"cancelled"}, attempt : 1 .. 2, wake : Nat] :
     t.state = "backoff" => t.attempt = 1}

Running(p) == task[p].state \in Pending

\* Complete results that end the run: three, or all of fewer providers.
Quorum == IF Cardinality(Providers) < 3 THEN Cardinality(Providers) ELSE 3

\* Variant: the cap is granted to each attempt.
Overdue_PerAttempt(p) == now >= task[p].attempt * Cap[p]

\* wait_for covers both attempts and the pause between them.
Overdue(p) == now >= Cap[p]

\* Variant: any outcome counts toward the quorum.
Enough_AnyOutcome(res, err) == Cardinality(res \cup err) >= Quorum

\* Variant: the loop ends on a quorum only.
Enough_QuorumOnly(res, err) == Cardinality(res) >= Quorum

\* as_completed is left on a quorum, and exhausted when every task was seen.
Enough(res, err) == Cardinality(res) >= Quorum \/ res \cup err = Providers

\* Variant: the cancelled tasks are not awaited.
AllDone_NotAwaited == TRUE

AllDone == \A p \in Providers : ~Running(p)

Init ==
  /\ now = 0
  /\ task = [p \in Providers |-> [state |-> "calling", attempt |-> 1, wake |-> 0]]
  /\ pc = "waiting"
  /\ aborted = FALSE
  /\ results = {} /\ errors = {}

-----------------------------------------------------------------------------
(* The tasks *)

Become(p, state) == task' = [task EXCEPT ![p].state = state]

\* The provider answers with parsable JSON, or fails beyond a retry.  A task
\* whose cancellation is requested may still end this way: its call was over.
Answer(p) ==
  /\ task[p].state = "calling" /\ pc \in {"waiting", "closing"}
  /\ \E outcome \in {"ok", "incomplete", "error"} : Become(p, outcome)
  /\ UNCHANGED <<now, pc, aborted, results, errors>>

\* Variant: the retry may be retried.
TransientFailure_AnyAttempt(p) ==
  /\ task[p].state = "calling" /\ pc = "waiting"
  /\ task' = [task EXCEPT ![p] = [@ EXCEPT !.state = "backoff", !.wake = now + Backoff]]
  /\ UNCHANGED <<now, pc, aborted, results, errors>>

\* A fast transient failure of the first attempt earns a pause and a retry.
TransientFailure(p) ==
  /\ task[p].state = "calling" /\ task[p].attempt = 1 /\ pc = "waiting"
  /\ task' = [task EXCEPT ![p] = [@ EXCEPT !.state = "backoff", !.wake = now + Backoff]]
  /\ UNCHANGED <<now, pc, aborted, results, errors>>

Retry(p) ==
  /\ task[p].state = "backoff" /\ task[p].wake <= now /\ pc = "waiting"
  /\ task' = [task EXCEPT ![p] = [state |-> "calling", attempt |-> @.attempt + 1, wake |-> 0]]
  /\ UNCHANGED <<now, pc, aborted, results, errors>>

Expire(p) ==
  /\ Running(p) /\ Overdue(p) /\ pc = "waiting"
  /\ Become(p, "timeout")
  /\ UNCHANGED <<now, pc, aborted, results, errors>>

\* The cancellation reaches a straggler.
Unwind(p) ==
  /\ Running(p) /\ pc = "closing"
  /\ Become(p, "cancelled")
  /\ UNCHANGED <<now, pc, aborted, results, errors>>

-----------------------------------------------------------------------------
(* The run *)

\* The next finished task is seen: a complete result, or an entry of _errors.
Collect(p) ==
  /\ pc = "waiting"
  /\ task[p].state \in Outcome /\ p \notin results \cup errors
  /\ IF task[p].state = "ok" THEN results' = results \cup {p} /\ UNCHANGED errors
                             ELSE errors' = errors \cup {p} /\ UNCHANGED results
  /\ pc' = IF Enough(results', errors') THEN "closing" ELSE "waiting"
  /\ UNCHANGED <<now, task, aborted>>

\* The coroutine is cancelled while it waits: the finally block still runs.
Abort ==
  /\ pc = "waiting"
  /\ pc' = "closing" /\ aborted' = TRUE
  /\ UNCHANGED <<now, task, results, errors>>

\* The stragglers are awaited; then the result, or the ValueError.
Finish ==
  /\ pc = "closing" /\ AllDone
  /\ pc' = CASE aborted                    -> "aborted"
             [] ~aborted /\ results = {}   -> "raised"
             [] OTHER                      -> "returned"
  /\ UNCHANGED <<now, task, aborted, results, errors>>

\* Time passes, but no timer of a waiting run is late.
Tick ==
  /\ pc = "waiting"
  /\ \E p \in Providers : Running(p)
  /\ \A p \in Providers : Running(p) => ~Overdue(p)
  /\ now' = now + 1
  /\ UNCHANGED <<task, pc, aborted, results, errors>>

-----------------------------------------------------------------------------

\* What the event loop itself brings about, whatever the providers do.
EventLoop ==
  \/ Finish
  \/ \E p \in Providers : Expire(p) \/ Unwind(p) \/ Collect(p)

Next ==
  \/ EventLoop \/ Abort \/ Tick
  \/ \E p \in Providers : Answer(p) \/ TransientFailure(p) \/ Retry(p)

Spec == Init /\ [][Next]_vars

\* Time passes and the event loop runs what is ready; no provider need answer.
FairSpec == Spec /\ WF_vars(Tick) /\ WF_vars(EventLoop)

-----------------------------------------------------------------------------
(* Properties *)

Over == {"returned", "raised", "aborted"}

TypeOK ==
  /\ now \in Nat
  /\ task \in [Providers -> Task]
  /\ pc \in {"waiting", "closing"} \cup Over
  /\ aborted \in BOOLEAN
  /\ results \subseteq Providers /\ errors \subseteq Providers

\* No provider call outlives the run, however it ends: returned on a quorum,
\* failed, or cancelled itself ("no task is left pending").
NoTaskLeft == pc \in Over => \A p \in Providers : ~Running(p)

\* A provider is missing from both the results and _errors only when a quorum
\* of complete results made its answer unnecessary; none is in both, and a run
\* fails only if every provider is in _errors.
EveryProviderAccounted ==
  /\ results \cap errors = {}
  /\ pc \in {"returned", "raised"} =>
       results \cup errors = Providers \/ Cardinality(results) = Quorum
  /\ pc = "raised" => errors = Providers

\* A run ends within the longest cap: neither the retry nor the order in which
\* the tasks are collected lets it wait longer (the comments at 62 and 66).
EndsWithinCaps == \E p \in Providers : now <= Cap[p]

\* Every run ends, if providers hang, fail or answer.
RunEnds == <>(pc \in Over)

-----------------------------------------------------------------------------
(* The inductive invariant *)

\* What was collected has ended, and once only.
Collected ==
  /\ results \cap errors = {}
  /\ \A p \in results \cup errors : task[p].state \in Outcome

\* The run waits for as long as it lacks a quorum and an outcome; it goes on
\* with exactly a quorum, or with the outcome of every provider.
Decided ==
  /\ pc = "waiting" => ~aborted /\ ~Enough(results, errors)
  /\ pc \in {"closing", "returned", "raised"} /\ ~aborted =>
       Cardinality(results) = Quorum \/ results \cup errors = Providers
  /\ pc \in {"returned", "raised"} => ~aborted
  /\ pc = "raised" => results = {}

IndInv == TypeOK /\ Collected /\ Decided /\ NoTaskLeft /\ EndsWithinCaps
=============================================================================
