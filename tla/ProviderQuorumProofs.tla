------------------------ MODULE ProviderQuorumProofs ------------------------
(***************************************************************************)
(* Proofs about ProviderQuorum for every set of providers, caps and pause. *)
(***************************************************************************)
EXTENDS ProviderQuorum, FiniteSetTheorems, TLAPS

\* A set of providers is finite, and the quorum is positive.
LEMMA Counts ==
  /\ Quorum \in Nat \ {0} /\ Quorum <= Cardinality(Providers)
  /\ \A S \in SUBSET Providers :
       IsFiniteSet(S) /\ Cardinality(S) \in Nat /\ (Cardinality(S) = 0 <=> S = {})
<1>1. \A S \in SUBSET Providers :
        IsFiniteSet(S) /\ Cardinality(S) \in Nat /\ (Cardinality(S) = 0 <=> S = {})
  BY ProvidersAssumption, FS_Subset, FS_CardinalityType, FS_EmptySet
<1>2. Cardinality(Providers) \in Nat \ {0}
  BY <1>1, ProvidersAssumption
<1> QED  BY <1>1, <1>2 DEF Quorum

\* The run starts with every provider called and nothing collected.
LEMMA InitInvariant == Init => IndInv
<1> SUFFICES ASSUME Init PROVE IndInv
  OBVIOUS
<1>1. TypeOK
  <2> DEFINE t == [state |-> "calling", attempt |-> 1, wake |-> 0]
  <2>1. t \in Task
    BY DEF Task, Pending
  <2>2. task = [p \in Providers |-> t]
    BY DEF Init
  <2> HIDE DEF t
  <2> QED  BY <2>1, <2>2 DEF Init, TypeOK
<1>2. Collected
  BY DEF Init, Collected
<1>3. ~Enough({}, {})
  BY Counts, ProvidersAssumption DEF Enough
<1>4. Decided
  BY <1>3 DEF Init, Decided
<1>5. NoTaskLeft
  BY DEF Init, NoTaskLeft, Over
<1>6. EndsWithinCaps
  BY ProvidersAssumption, CapAssumption DEF Init, EndsWithinCaps
<1> QED  BY <1>1, <1>2, <1>4, <1>5, <1>6 DEF IndInv

\* A task that goes on or ends touches no other, and never one that has ended.
LEMMA TaskStep ==
  ASSUME IndInv, NEW p \in Providers, NEW t \in Task,
         Running(p), pc \in {"waiting", "closing"}, task' = [task EXCEPT ![p] = t],
         UNCHANGED <<now, pc, aborted, results, errors>>
  PROVE  IndInv'
<1> USE DEF IndInv
<1>1. TypeOK'
  BY DEF TypeOK
<1>2. p \notin results \cup errors
  BY DEF Collected, Running, Pending, Outcome
<1>3. Collected'
  BY <1>2 DEF Collected, TypeOK
<1>4. Decided'
  BY DEF Decided, Enough
<1>5. NoTaskLeft'
  BY DEF NoTaskLeft, Over
<1>6. EndsWithinCaps'
  BY DEF EndsWithinCaps
<1> QED  BY <1>1, <1>3, <1>4, <1>5, <1>6

\* A collected outcome either leaves the run waiting, short of a quorum, or
\* brings it to exactly a quorum or to the last outcome.
LEMMA CollectStep ==
  ASSUME IndInv, NEW p \in Providers, Collect(p)
  PROVE  IndInv'
<1> USE DEF IndInv
<1>1. /\ pc = "waiting" /\ ~aborted /\ ~Enough(results, errors)
      /\ results \subseteq Providers /\ errors \subseteq Providers
  BY DEF Collect, Decided, TypeOK
<1>2. /\ results' \subseteq Providers /\ errors' \subseteq Providers
      /\ task' = task /\ now' = now /\ aborted' = aborted
      /\ pc' = IF Enough(results', errors') THEN "closing" ELSE "waiting"
  BY <1>1 DEF Collect
<1>3. TypeOK'
  BY <1>2 DEF TypeOK
<1>4. Collected'
  BY DEF Collect, Collected
<1>5. Cardinality(results) < Quorum /\ Cardinality(results') <= Cardinality(results) + 1
  <2>1. Cardinality(results) < Quorum
    BY <1>1, Counts DEF Enough
  <2>2. results' \in {results, results \cup {p}}
    BY DEF Collect
  <2>3. Cardinality(results \cup {p}) <= Cardinality(results) + 1
    BY <1>1, Counts, FS_AddElement
  <2> QED  BY <1>1, <2>1, <2>2, <2>3, Counts
<1>6. ASSUME Enough(results', errors')
      PROVE  Cardinality(results') = Quorum \/ results' \cup errors' = Providers
  <2>1. Cardinality(results') \in Nat /\ Cardinality(results) \in Nat
    BY <1>1, <1>2, Counts
  <2> QED  BY <1>5, <1>6, <2>1, Counts DEF Enough
<1>7. Decided'
  BY <1>1, <1>2, <1>6 DEF Decided, Enough, Quorum
<1>8. NoTaskLeft' /\ EndsWithinCaps'
  BY <1>2 DEF NoTaskLeft, Over, EndsWithinCaps
<1> QED  BY <1>3, <1>4, <1>7, <1>8

\* Every step of the run and of its tasks preserves the invariant.
LEMMA NextInvariant == IndInv /\ [Next]_vars => IndInv'
<1> SUFFICES ASSUME IndInv, [Next]_vars PROVE IndInv'
  OBVIOUS
<1>0. /\ TypeOK /\ Collected /\ Decided /\ NoTaskLeft /\ EndsWithinCaps
      /\ \A p \in Providers : task[p] \in Task
  BY DEF IndInv, TypeOK
<1>1. ASSUME NEW p \in Providers, NEW s \in Outcome \cup {"cancelled"},
             Running(p), pc \in {"waiting", "closing"}, Become(p, s),
             UNCHANGED <<now, pc, aborted, results, errors>>
      PROVE  IndInv'
  <2> DEFINE t == [task[p] EXCEPT !.state = s]
  <2>1. t \in Task
    BY <1>0 DEF Task, Outcome
  <2>2. task' = [task EXCEPT ![p] = t]
    BY <1>1 DEF Become
  <2> HIDE DEF t
  <2> QED  BY <1>1, <2>1, <2>2, TaskStep
<1>2. ASSUME NEW p \in Providers, Answer(p)
      PROVE  IndInv'
  <2>1. PICK s \in {"ok", "incomplete", "error"} : Become(p, s)
    BY <1>2 DEF Answer
  <2> QED  BY <1>1, <1>2, <2>1 DEF Answer, Running, Pending, Outcome
<1>3. ASSUME NEW p \in Providers, Expire(p)
      PROVE  IndInv'
  BY <1>1, <1>3 DEF Expire, Outcome
<1>4. ASSUME NEW p \in Providers, Unwind(p)
      PROVE  IndInv'
  BY <1>1, <1>4 DEF Unwind
<1>5. ASSUME NEW p \in Providers, TransientFailure(p)
      PROVE  IndInv'
  <2> DEFINE t1 == [task[p] EXCEPT !.state = "backoff"]
             t  == [t1 EXCEPT !.wake = now + Backoff]
  <2>1. t1 \in Task
    BY <1>0, <1>5 DEF TransientFailure, Task, Pending
  <2> HIDE DEF t1
  <2>2. t \in Task
    BY <1>0, <2>1, CapAssumption DEF TypeOK, Task
  <2>3. task' = [task EXCEPT ![p] = t]
    BY <1>5 DEF TransientFailure, t1
  <2> HIDE DEF t
  <2> QED  BY <1>5, <2>2, <2>3, TaskStep DEF TransientFailure, Running, Pending
<1>6. ASSUME NEW p \in Providers, Retry(p)
      PROVE  IndInv'
  <2> DEFINE t == [state |-> "calling", attempt |-> task[p].attempt + 1, wake |-> 0]
  <2>1. task' = [task EXCEPT ![p] = t]
    BY <1>6 DEF Retry
  <2>2. t \in Task
    BY <1>0, <1>6 DEF Retry, Task, Pending
  <2> HIDE DEF t
  <2> QED  BY <1>6, <2>1, <2>2, TaskStep DEF Retry, Running, Pending
<1>7. ASSUME NEW p \in Providers, Collect(p)
      PROVE  IndInv'
  BY <1>7, CollectStep
<1>8. CASE Abort
  BY <1>0, <1>8 DEF Abort, IndInv, TypeOK, Collected, Decided, NoTaskLeft, Over, EndsWithinCaps
<1>9. CASE Finish
  <2>1. NoTaskLeft'
    BY <1>9 DEF Finish, AllDone, NoTaskLeft, Running
  <2>2. /\ pc = "closing" /\ pc' \in {"returned", "raised", "aborted"}
        /\ pc' \in {"returned", "raised"} => ~aborted
        /\ pc' = "raised" => results = {}
        /\ UNCHANGED <<now, task, aborted, results, errors>>
    BY <1>9 DEF Finish
  <2>3. Decided'
    BY <1>0, <2>2 DEF Decided, TypeOK
  <2>4. TypeOK' /\ Collected' /\ EndsWithinCaps'
    BY <1>0, <2>2 DEF TypeOK, Over, Collected, EndsWithinCaps
  <2> QED  BY <2>1, <2>3, <2>4 DEF IndInv
<1>10. CASE Tick
  <2>1. PICK p \in Providers : now < Cap[p] /\ Cap[p] \in Nat /\ now \in Nat
    BY <1>0, <1>10, CapAssumption DEF Tick, Overdue, TypeOK
  <2>2. EndsWithinCaps'
    BY <1>10, <2>1 DEF Tick, EndsWithinCaps
  <2> QED
    BY <1>0, <1>10, <2>2 DEF Tick, IndInv, TypeOK, Collected, Decided, Enough, NoTaskLeft, Running
<1>11. CASE UNCHANGED vars
  BY <1>0, <1>11
     DEF vars, IndInv, TypeOK, Collected, Decided, Enough, NoTaskLeft, Running, EndsWithinCaps
<1> QED
  BY <1>2, <1>3, <1>4, <1>5, <1>6, <1>7, <1>8, <1>9, <1>10, <1>11 DEF Next, EventLoop

\* The inductive invariant of a run, for any providers, caps and pause
\* (ai_providers.py: run_audit_all_providers).
THEOREM RunInvariant == Spec => []IndInv
<1> QED  BY InitInvariant, NextInvariant, PTL DEF Spec

\* A run ends within the longest of the caps, though it may retry
\* (ai_providers.py: _attempt, _run).
THEOREM RunKeepsCaps == Spec => []EndsWithinCaps
<1>1. IndInv => EndsWithinCaps
  BY DEF IndInv
<1> QED  BY <1>1, RunInvariant, PTL

\* The invariant holds of every run: no task is left pending by any way the
\* run ends, a provider is tried twice at most, and no run waits longer than
\* the longest cap, whatever the number of providers, their caps and the pause.
THEOREM RunIsOrderly == Spec => [](TypeOK /\ NoTaskLeft /\ EndsWithinCaps)
<1>1. IndInv => TypeOK /\ NoTaskLeft /\ EndsWithinCaps
  BY DEF IndInv
<1> QED  BY <1>1, RunInvariant, PTL

\* A provider is missing from results and errors only when a quorum made its
\* answer unnecessary, and a run fails only when every provider did.
THEOREM ProvidersAccounted == Spec => []EveryProviderAccounted
<1>1. IndInv => EveryProviderAccounted
  <2> SUFFICES ASSUME IndInv PROVE EveryProviderAccounted
    OBVIOUS
  <2>1. /\ results \cap errors = {}
        /\ pc \in {"returned", "raised"} =>
             results \cup errors = Providers \/ Cardinality(results) = Quorum
    BY DEF IndInv, Collected, Decided
  <2>2. pc = "raised" => errors = Providers
    BY <2>1, Counts DEF IndInv, Decided, TypeOK
  <2> QED  BY <2>1, <2>2 DEF EveryProviderAccounted
<1> QED  BY <1>1, RunInvariant, PTL
=============================================================================
