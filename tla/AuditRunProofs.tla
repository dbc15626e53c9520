--------------------------- MODULE AuditRunProofs ---------------------------
(***************************************************************************)
(* Proofs, for every choice of AuditRun's constants: every state is type   *)
(* correct; no job is left processing; the two caches stay within an       *)
(* account and serve only results persisted with their evidence; no answer *)
(* lacks its audit rows; and what jobs, merchants and requests refer to is *)
(* of one merchant number, and of one statement as long as the account     *)
(* types no wrong period into the upload form.                             *)
(***************************************************************************)
EXTENDS AuditRun, FiniteSetTheorems, TLAPS

-----------------------------------------------------------------------------
(* The ordered lookups *)

\* A finite set of rows has a newest one: among the sets of rows later than a
\* row, ordered by strict inclusion, one is minimal.
LEMMA NewestExists ==
  ASSUME NEW S, IsFiniteSet(S), S # {}, NEW table,
         \A x \in S : table[x].born \in Nat
  PROVE  \E x \in S : \A y \in S : table[y].born <= table[x].born
<1> DEFINE Later(x) == {y \in S : table[x].born < table[y].born}
           T == {Later(x) : x \in S}
<1>1. T \subseteq FiniteSubsetsOf(S)
  <2>1. \A x \in S : Later(x) \in SUBSET S
    OBVIOUS
  <2>2. \A x \in S : IsFiniteSet(Later(x))
    BY <2>1, FS_Subset
  <2> QED  BY <2>1, <2>2 DEF FiniteSubsetsOf
<1>2. T # {}
  OBVIOUS
<1>3. PICK L \in T : \A M \in T : ~(<<M, L>> \in StrictSubsetOrdering(S))
  <2> HIDE DEF T
  <2> QED  BY <1>1, <1>2, FS_StrictSubsetOrderingWellFounded, WFMin
<1>4. PICK x \in S : L = Later(x)
  BY <1>3
<1>5. ASSUME NEW y \in S, table[x].born < table[y].born
      PROVE  FALSE
  <2>1. Later(y) \in T
    OBVIOUS
  <2>2. Later(y) \subseteq Later(x)
    BY <1>5
  <2>3. y \in Later(x) /\ y \notin Later(y)
    BY <1>5
  <2>4. Later(y) \in SUBSET S /\ Later(x) \in SUBSET S
    OBVIOUS
  <2>5. <<Later(y), Later(x)>> \in StrictSubsetOrdering(S)
    BY <2>2, <2>3, <2>4 DEF StrictSubsetOrdering
  <2> QED  BY <2>1, <2>5, <1>3, <1>4
<1> QED  BY <1>5

\* The same for the oldest row.
LEMMA OldestExists ==
  ASSUME NEW S, IsFiniteSet(S), S # {}, NEW table,
         \A x \in S : table[x].born \in Nat
  PROVE  \E x \in S : \A y \in S : table[x].born <= table[y].born
<1> DEFINE Earlier(x) == {y \in S : table[y].born < table[x].born}
           T == {Earlier(x) : x \in S}
<1>1. T \subseteq FiniteSubsetsOf(S)
  <2>1. \A x \in S : Earlier(x) \in SUBSET S
    OBVIOUS
  <2>2. \A x \in S : IsFiniteSet(Earlier(x))
    BY <2>1, FS_Subset
  <2> QED  BY <2>1, <2>2 DEF FiniteSubsetsOf
<1>2. T # {}
  OBVIOUS
<1>3. PICK L \in T : \A M \in T : ~(<<M, L>> \in StrictSubsetOrdering(S))
  <2> HIDE DEF T
  <2> QED  BY <1>1, <1>2, FS_StrictSubsetOrderingWellFounded, WFMin
<1>4. PICK x \in S : L = Earlier(x)
  BY <1>3
<1>5. ASSUME NEW y \in S, table[y].born < table[x].born
      PROVE  FALSE
  <2>1. Earlier(y) \in T
    OBVIOUS
  <2>2. Earlier(y) \subseteq Earlier(x)
    BY <1>5
  <2>3. y \in Earlier(x) /\ y \notin Earlier(y)
    BY <1>5
  <2>4. Earlier(y) \in SUBSET S /\ Earlier(x) \in SUBSET S
    OBVIOUS
  <2>5. <<Earlier(y), Earlier(x)>> \in StrictSubsetOrdering(S)
    BY <2>2, <2>3, <2>4 DEF StrictSubsetOrdering
  <2> QED  BY <2>1, <2>5, <1>3, <1>4
<1> QED  BY <1>5

\* A query over the jobs or the merchants returns one of its rows, or none.
LEMMA LookupInRows ==
  ASSUME NEW S, S \subseteq Requests, NEW table,
         \A x \in S : table[x].born \in Nat
  PROVE  /\ Newest(S, table) \in S \cup {NULL}
         /\ Oldest(S, table) \in S \cup {NULL}
<1>1. CASE S = {}
  BY <1>1 DEF Newest, Oldest
<1>2. CASE S # {}
  <2>1. IsFiniteSet(S)
    BY RequestsAssumption, FS_Subset
  <2>2. Newest(S, table) \in S
    BY <1>2, <2>1, NewestExists DEF Newest
  <2>3. Oldest(S, table) \in S
    BY <1>2, <2>1, OldestExists DEF Oldest
  <2> QED  BY <2>2, <2>3
<1> QED  BY <1>1, <1>2

\* The prior job is a complete one, of the same bytes and the same account.
LEMMA PriorJobIsOwn ==
  ASSUME TypeOK, NEW u \in Users, NEW f \in Files
  PROVE  /\ PriorJob(u, f) \in Requests \cup {NULL}
         /\ PriorJob(u, f) # NULL =>
              /\ PriorJob(u, f) \in Requests
              /\ jobs[PriorJob(u, f)] # NULL
              /\ jobs[PriorJob(u, f)] \in Job
              /\ jobs[PriorJob(u, f)].user = u
<1> DEFINE S == {j \in Requests : /\ jobs[j] # NULL
                                  /\ jobs[j].file = f
                                  /\ jobs[j].user = u
                                  /\ jobs[j].status = "complete"}
<1>1. \A j \in S : jobs[j] \in Job /\ jobs[j].born \in Nat
  BY DEF TypeOK, Job
<1>2. S \subseteq Requests
  OBVIOUS
<1>3. Newest(S, jobs) \in S \cup {NULL}
  <2> HIDE DEF S
  <2> QED  BY <1>1, <1>2, LookupInRows
<1> QED  BY <1>1, <1>3, NullAssumption DEF PriorJob

\* The newest complete job of a merchant gives its data, or there is none.
LEMMA EntityDataIsOfJob ==
  ASSUME TypeOK, NEW m \in Requests
  PROVE  /\ EntityData(m) \in Data \cup {NULL}
         /\ EntityData(m) # NULL =>
              \E k \in Requests : /\ jobs[k] # NULL
                                  /\ jobs[k].merchant = m
                                  /\ jobs[k].data = EntityData(m)
<1> DEFINE S == {k \in Requests : /\ jobs[k] # NULL
                                  /\ jobs[k].merchant = m
                                  /\ jobs[k].status = "complete"}
<1>1. \A k \in S : jobs[k] \in Job /\ jobs[k].born \in Nat /\ jobs[k].data \in Data \cup {NULL}
  BY DEF TypeOK, Job
<1>2. S \subseteq Requests
  OBVIOUS
<1>3. Newest(S, jobs) \in S \cup {NULL}
  <2> HIDE DEF S
  <2> QED  BY <1>1, <1>2, LookupInRows
<1> QED  BY <1>1, <1>3, NullAssumption DEF EntityData

\* The rows of a statement are merchants of the account.
LEMMA SameStatementRows ==
  ASSUME TypeOK, NEW r \in Requests
  PROVE  /\ SameStatement(r) \subseteq Requests
         /\ \A m \in SameStatement(r) :
              /\ merchants[m] \in Merchant /\ merchants[m] # NULL
              /\ merchants[m].born \in Nat
              /\ merchants[m].user = req[r].user
  BY DEF TypeOK, Merchant, SameStatement

\* The entity match and the original of a revision are rows of the account.
LEMMA EntityMatchIsOwn ==
  ASSUME TypeOK, NEW r \in Requests, EntityMatch(r) # NULL
  PROVE  /\ EntityMatch(r) \in Requests
         /\ merchants[EntityMatch(r)] \in Merchant
         /\ merchants[EntityMatch(r)] # NULL
         /\ merchants[EntityMatch(r)].user = req[r].user
<1> DEFINE S == {m \in SameStatement(r) :
                   WithinPct(req[r].data.figure, merchants[m].figure)}
<1>1. /\ S \subseteq Requests
      /\ \A m \in S : /\ merchants[m] \in Merchant /\ merchants[m] # NULL
                       /\ merchants[m].born \in Nat
                       /\ merchants[m].user = req[r].user
  BY SameStatementRows
<1>2. Newest(S, merchants) \in S \cup {NULL}
  <2> HIDE DEF S
  <2> QED  BY <1>1, LookupInRows
<1>3. EntityMatch(r) = Newest(S, merchants)
  BY DEF EntityMatch
<1> QED  BY <1>1, <1>2, <1>3

\* A plan is well formed: a hit names an entity and its data, a revision is
\* only planned for a new merchant, and both belong to the account.
LEMMA PlanIsTyped ==
  ASSUME TypeOK, NEW r \in Requests, req[r].pc = "match"
  PROVE  /\ PlanOf(r) \in Plan
         /\ PlanOf(r).kind = "hit" =>
              /\ PlanOf(r).entity = EntityMatch(r) /\ PlanOf(r).entity # NULL
              /\ PlanOf(r).data = EntityData(EntityMatch(r))
              /\ PlanOf(r).data # NULL
              /\ CacheIsFresh(PlanOf(r).data, req[r].ver)
         /\ PlanOf(r).kind = "save" =>
              /\ PlanOf(r).entity \in {EntityMatch(r), req[r].linked, NULL}
              /\ PlanOf(r).data = NULL
         /\ PlanOf(r).rev => PlanOf(r).entity = NULL /\ PlanOf(r).kind = "save"
<1> DEFINE d    == req[r].data
           e    == EntityMatch(r)
           keep == IF e # NULL THEN e ELSE req[r].linked
           S    == SameStatement(r)
           orig == IF keep = NULL /\ d.mid # NULL THEN Oldest(S, merchants) ELSE NULL
           rev  == orig # NULL /\ merchants[orig].file # req[r].file
           grp  == CASE ~rev -> NULL
                     [] rev /\ merchants[orig].group = NULL -> orig
                     [] OTHER -> merchants[orig].group
<1>1. e # NULL => e \in Requests /\ EntityData(e) \in Data \cup {NULL}
  BY EntityMatchIsOwn, EntityDataIsOfJob
<1>2. req[r].linked \in Requests \cup {NULL}
  BY DEF TypeOK, Req
<1>3. /\ orig \in Requests \cup {NULL}
      /\ orig # NULL => orig \in Requests /\ merchants[orig] \in Merchant
  <2>1. Oldest(S, merchants) \in S \cup {NULL}
    <3> HIDE DEF S
    <3> QED  BY SameStatementRows, LookupInRows DEF S
  <2> QED  BY <2>1, SameStatementRows, NullAssumption
<1>4. grp \in Requests \cup {NULL}
  <2>1. rev => merchants[orig].group \in Requests \cup {NULL}
    BY <1>3 DEF Merchant
  <2> HIDE DEF rev, orig
  <2> QED  BY <1>3, <2>1 DEF rev
<1>5. rev \in BOOLEAN /\ (rev => keep = NULL)
  OBVIOUS
<1> DEFINE hit  == e # NULL /\ CacheIsFresh(EntityData(e), req[r].ver)
           kept == IF keep # NULL /\ merchants[keep] # NULL THEN keep ELSE NULL
<1>6. PlanOf(r) = IF hit
                  THEN [kind |-> "hit", entity |-> e, data |-> EntityData(e),
                        group |-> NULL, rev |-> FALSE]
                  ELSE [kind |-> "save", entity |-> kept, data |-> NULL,
                        group |-> grp, rev |-> rev]
  BY DEF PlanOf
<1>7. kept \in {e, req[r].linked, NULL} /\ kept \in Requests \cup {NULL}
      /\ (rev => kept = NULL)
  BY <1>1, <1>2
<1> HIDE DEF kept, rev, grp, e
<1>8. CASE hit
  <2>1. EntityData(e) \in Data /\ e \in Requests /\ EntityData(e) # NULL
    BY <1>1, <1>8 DEF CacheIsFresh
  <2>2. PlanOf(r) = [kind |-> "hit", entity |-> e, data |-> EntityData(e),
                     group |-> NULL, rev |-> FALSE]
    BY <1>6, <1>8
  <2>3. e # NULL /\ CacheIsFresh(EntityData(e), req[r].ver)
    BY <1>8
  <2>4. e = EntityMatch(r)
    BY DEF e
  <2> QED  BY <2>1, <2>2, <2>3, <2>4 DEF Plan
<1>9. CASE ~hit
  <2>1. PlanOf(r) = [kind |-> "save", entity |-> kept, data |-> NULL,
                     group |-> grp, rev |-> rev]
    BY <1>6, <1>9
  <2>2. e = EntityMatch(r)
    BY DEF e
  <2> QED  BY <1>4, <1>5, <1>7, <2>1, <2>2 DEF Plan
<1> QED  BY <1>8, <1>9

-----------------------------------------------------------------------------
(* Types and locals *)

\* A finished request is a request.
LEMMA AnsweredIsReq ==
  ASSUME NEW q \in Req, NEW served \in Data \cup {NULL},
         NEW a \in {"none", "cached", "matched", "analyzed", "failed", "error"}
  PROVE  /\ Answered(q, a, served) \in Req
         /\ Answered(q, a, served).pc = "done"
         /\ Answered(q, a, served).answer = a
         /\ Answered(q, a, served).served = served
         /\ Answered(q, a, served).user = q.user
         /\ Answered(q, a, served).file = q.file
         /\ Answered(q, a, served).typed = q.typed
         /\ Answered(q, a, served).ver = q.ver
         /\ Answered(q, a, served).job = q.job
         /\ Answered(q, a, served).linked = NULL
         /\ Answered(q, a, served).plan = NULL
  BY DEF Answered, Req

\* A received request is a request, with nothing done yet.
LEMMA ReceivedIsReq ==
  ASSUME NEW u \in Users, NEW f \in Files, NEW t \in Typed[f] \cup {NULL}, engine \in Engines
  PROVE  Received(u, f, t) \in Req
  BY BoundAssumption, TypedAssumption DEF Received, Req, InFlight, Engines

\* A request that takes over a prior job is a request.
LEMMA ReusingIsReq ==
  ASSUME NEW q \in Req, NEW p \in Requests, NEW m \in Requests \cup {NULL}
  PROVE  LET n == [q EXCEPT !.job = p, !.reused = TRUE, !.linked = m] IN
           /\ n \in Req
           /\ n.job = p
           /\ n.reused = TRUE
           /\ n.linked = m
           /\ n.pc = q.pc /\ n.typed = q.typed /\ n.user = q.user /\ n.file = q.file /\ n.ver = q.ver
           /\ n.data = q.data /\ n.plan = q.plan /\ n.answer = q.answer /\ n.served = q.served
<1> DEFINE q1 == [q EXCEPT !.job = p]
           q2 == [q1 EXCEPT !.reused = TRUE]
           q3 == [q2 EXCEPT !.linked = m]
<1>1. /\ q1 \in Req /\ q1.job = p
      /\ q1.pc = q.pc /\ q1.typed = q.typed /\ q1.user = q.user /\ q1.file = q.file /\ q1.ver = q.ver
      /\ q1.reused = q.reused /\ q1.linked = q.linked /\ q1.data = q.data /\ q1.plan = q.plan
      /\ q1.answer = q.answer /\ q1.served = q.served
  BY DEF Req, InFlight
<1> HIDE DEF q1
<1>2. /\ q2 \in Req /\ q2.reused = TRUE
      /\ q2.pc = q1.pc /\ q2.typed = q1.typed /\ q2.user = q1.user /\ q2.file = q1.file /\ q2.ver = q1.ver
      /\ q2.job = q1.job /\ q2.linked = q1.linked /\ q2.data = q1.data /\ q2.plan = q1.plan
      /\ q2.answer = q1.answer /\ q2.served = q1.served
  BY <1>1 DEF Req, InFlight
<1> HIDE DEF q2
<1>3. /\ q3 \in Req /\ q3.linked = m
      /\ q3.pc = q2.pc /\ q3.typed = q2.typed /\ q3.user = q2.user /\ q3.file = q2.file /\ q3.ver = q2.ver
      /\ q3.job = q2.job /\ q3.reused = q2.reused /\ q3.data = q2.data /\ q3.plan = q2.plan
      /\ q3.answer = q2.answer /\ q3.served = q2.served
  BY <1>2 DEF Req, InFlight
<1> HIDE DEF q3
<1> QED  BY <1>1, <1>2, <1>3 DEF q1, q2, q3

\* A request that has opened its job is a request.
LEMMA OpenedIsReq ==
  ASSUME NEW q \in Req, NEW r \in Requests
  PROVE  LET n == [q EXCEPT !.pc = "analyze", !.job = r] IN
           /\ n \in Req
           /\ n.pc = "analyze"
           /\ n.job = r
           /\ n.typed = q.typed /\ n.user = q.user /\ n.file = q.file /\ n.ver = q.ver /\ n.reused = q.reused
           /\ n.linked = q.linked /\ n.data = q.data /\ n.plan = q.plan /\ n.answer = q.answer
           /\ n.served = q.served
<1> DEFINE q1 == [q EXCEPT !.pc = "analyze"]
           q2 == [q1 EXCEPT !.job = r]
<1>1. /\ q1 \in Req /\ q1.pc = "analyze"
      /\ q1.typed = q.typed /\ q1.user = q.user /\ q1.file = q.file /\ q1.ver = q.ver /\ q1.job = q.job
      /\ q1.reused = q.reused /\ q1.linked = q.linked /\ q1.data = q.data /\ q1.plan = q.plan
      /\ q1.answer = q.answer /\ q1.served = q.served
  BY DEF Req, InFlight
<1> HIDE DEF q1
<1>2. /\ q2 \in Req /\ q2.job = r
      /\ q2.pc = q1.pc /\ q2.typed = q1.typed /\ q2.user = q1.user /\ q2.file = q1.file /\ q2.ver = q1.ver
      /\ q2.reused = q1.reused /\ q2.linked = q1.linked /\ q2.data = q1.data /\ q2.plan = q1.plan
      /\ q2.answer = q1.answer /\ q2.served = q1.served
  BY <1>1 DEF Req, InFlight
<1> HIDE DEF q2
<1> QED  BY <1>1, <1>2 DEF q1, q2

\* A request with an extraction is a request.
LEMMA AnalyzedIsReq ==
  ASSUME NEW q \in Req, NEW d \in Data
  PROVE  LET n == [q EXCEPT !.pc = "match", !.data = d] IN
           /\ n \in Req
           /\ n.pc = "match"
           /\ n.data = d
           /\ n.typed = q.typed /\ n.user = q.user /\ n.file = q.file /\ n.ver = q.ver /\ n.job = q.job
           /\ n.reused = q.reused /\ n.linked = q.linked /\ n.plan = q.plan /\ n.answer = q.answer
           /\ n.served = q.served
<1> DEFINE q1 == [q EXCEPT !.pc = "match"]
           q2 == [q1 EXCEPT !.data = d]
<1>1. /\ q1 \in Req /\ q1.pc = "match"
      /\ q1.typed = q.typed /\ q1.user = q.user /\ q1.file = q.file /\ q1.ver = q.ver /\ q1.job = q.job
      /\ q1.reused = q.reused /\ q1.linked = q.linked /\ q1.data = q.data /\ q1.plan = q.plan
      /\ q1.answer = q.answer /\ q1.served = q.served
  BY DEF Req, InFlight
<1> HIDE DEF q1
<1>2. /\ q2 \in Req /\ q2.data = d
      /\ q2.pc = q1.pc /\ q2.typed = q1.typed /\ q2.user = q1.user /\ q2.file = q1.file /\ q2.ver = q1.ver
      /\ q2.job = q1.job /\ q2.reused = q1.reused /\ q2.linked = q1.linked /\ q2.plan = q1.plan
      /\ q2.answer = q1.answer /\ q2.served = q1.served
  BY <1>1 DEF Req, InFlight
<1> HIDE DEF q2
<1> QED  BY <1>1, <1>2 DEF q1, q2

\* A request with a plan is a request.
LEMMA PlannedIsReq ==
  ASSUME NEW q \in Req, NEW p \in Plan
  PROVE  LET n == [q EXCEPT !.pc = "persist", !.plan = p] IN
           /\ n \in Req
           /\ n.pc = "persist"
           /\ n.plan = p
           /\ n.typed = q.typed /\ n.user = q.user /\ n.file = q.file /\ n.ver = q.ver /\ n.job = q.job
           /\ n.reused = q.reused /\ n.linked = q.linked /\ n.data = q.data /\ n.answer = q.answer
           /\ n.served = q.served
<1> DEFINE q1 == [q EXCEPT !.pc = "persist"]
           q2 == [q1 EXCEPT !.plan = p]
<1>1. /\ q1 \in Req /\ q1.pc = "persist"
      /\ q1.typed = q.typed /\ q1.user = q.user /\ q1.file = q.file /\ q1.ver = q.ver /\ q1.job = q.job
      /\ q1.reused = q.reused /\ q1.linked = q.linked /\ q1.data = q.data /\ q1.plan = q.plan
      /\ q1.answer = q.answer /\ q1.served = q.served
  BY DEF Req, InFlight
<1> HIDE DEF q1
<1>2. /\ q2 \in Req /\ q2.plan = p
      /\ q2.pc = q1.pc /\ q2.typed = q1.typed /\ q2.user = q1.user /\ q2.file = q1.file /\ q2.ver = q1.ver
      /\ q2.job = q1.job /\ q2.reused = q1.reused /\ q2.linked = q1.linked /\ q2.data = q1.data
      /\ q2.answer = q1.answer /\ q2.served = q1.served
  BY <1>1 DEF Req, InFlight
<1> HIDE DEF q2
<1> QED  BY <1>1, <1>2 DEF q1, q2

\* The initial state is typed.
LEMMA InitTyped == Init => TypeOK /\ LocalsInStep
<1> SUFFICES ASSUME Init PROVE TypeOK /\ LocalsInStep
  OBVIOUS
<1>1. engine \in Engines
  BY BoundAssumption DEF Init, Engines
<1>2. IdleReq \in Req
  BY BoundAssumption DEF IdleReq, Req
<1>3. TypeOK
  BY <1>1, <1>2 DEF Init, TypeOK
<1>4. LocalsInStep
  BY DEF Init, LocalsInStep, LocalsOf, IdleReq, InFlight
<1> QED  BY <1>3, <1>4

\* An extraction is data of its own request.
LEMMA ExtractedIsData ==
  ASSUME TypeOK, LocalsInStep, NEW r \in Requests, req[r].pc = "analyze",
         NEW x \in Readings[req[r].file]
  PROVE  Extracted(r, x) \in Data /\ Extracted(r, x).src = r
<1>1. req[r].ver \in Engines /\ req[r].file \in Files
  BY DEF LocalsInStep, LocalsOf
<1>2. x \in Reading
  BY <1>1, ReadingsAssumption
<1> QED  BY <1>1, <1>2 DEF Extracted, Reading, Data

\* The statement's period is a period, or blank.
LEMMA StatementDateIsDate ==
  ASSUME TypeOK, NEW r \in Requests, req[r].data \in Data
  PROVE  StatementDate(r) \in Dates \cup {NULL}
  BY DEF StatementDate, TypeOK, Req, Data

\* Every step keeps every variable in its type.
LEMMA TypeStep ==
  ASSUME TypeOK, LocalsInStep, [Next]_vars
  PROVE  TypeOK'
<1> USE DEF TypeOK
<1>1. ASSUME NEW r \in Requests, NEW u \in Users, NEW f \in Files,
             NEW t \in Typed[f] \cup {NULL}, DedupHit(r, u, f, t)
      PROVE  TypeOK'
  <2> DEFINE p == PriorJob(u, f)
  <2>1. p \in Requests /\ jobs[p] \in Job /\ jobs[p].data \in Data
    BY <1>1, PriorJobIsOwn DEF DedupHit, CacheIsFresh, Job
  <2>2. log' \subseteq LogRow
    BY <1>1, <2>1 DEF DedupHit, Row, LogRow, Job
  <2>3. Received(u, f, t) \in Req
    BY ReceivedIsReq
  <2>4. req' \in [Requests -> Req]
    BY <1>1, <2>1, <2>3, AnsweredIsReq DEF DedupHit
  <2> QED  BY <1>1, <2>2, <2>4 DEF DedupHit
<1>2. ASSUME NEW r \in Requests, NEW u \in Users, NEW f \in Files,
             NEW t \in Typed[f] \cup {NULL}, DedupMiss(r, u, f, t)
      PROVE  TypeOK'
  <2> DEFINE p == PriorJob(u, f)
  <2>1. p # NULL => p \in Requests /\ jobs[p].merchant \in Requests \cup {NULL}
    BY PriorJobIsOwn DEF Job
  <2>2. Received(u, f, t) \in Req
    BY ReceivedIsReq
  <2>3. req' \in [Requests -> Req]
    <3>1. CASE p = NULL
      BY <1>2, <2>2, <3>1 DEF DedupMiss
    <3>2. CASE p # NULL
      BY <1>2, <2>1, <2>2, <3>2, ReusingIsReq DEF DedupMiss
    <3> QED  BY <3>1, <3>2
  <2> QED  BY <1>2, <2>3 DEF DedupMiss
<1>3. ASSUME NEW r \in Requests, OpenJob(r)
      PROVE  TypeOK'
  <2>1. CASE req[r].reused
    <3>1. jobs[req[r].job] \in Job /\ req[r].job \in Requests
      BY <1>3, <2>1 DEF OpenJob, LocalsInStep, LocalsOf, LocalsOf, Req
    <3>2. jobs' \in [Requests -> Job \cup {NULL}]
      BY <1>3, <2>1, <3>1 DEF OpenJob, Job
    <3>3. req' \in [Requests -> Req]
      BY <1>3, <2>1 DEF OpenJob, Req, InFlight
    <3> QED  BY <1>3, <2>1, <3>2, <3>3 DEF OpenJob
  <2>2. CASE ~req[r].reused
    <3>1. NewJob(r) \in Job
      BY <1>3 DEF OpenJob, NewJob, Job, LocalsInStep, LocalsOf
    <3>2. req' \in [Requests -> Req]
      <4>1. req' = [req EXCEPT ![r] = [@ EXCEPT !.pc = "analyze", !.job = r]]
        BY <1>3, <2>2 DEF OpenJob
      <4>2. [req[r] EXCEPT !.pc = "analyze", !.job = r] \in Req
        BY OpenedIsReq
      <4> QED  BY <4>1, <4>2
    <3> QED  BY <1>3, <2>2, <3>1, <3>2 DEF OpenJob
  <2> QED  BY <2>1, <2>2
<1>4. ASSUME NEW r \in Requests, Analyze(r)
      PROVE  TypeOK'
  <2>1. PICK x \in Readings[req[r].file] :
          req' = [req EXCEPT ![r] = [@ EXCEPT !.pc = "match", !.data = Extracted(r, x)]]
    BY <1>4 DEF Analyze
  <2>2. Extracted(r, x) \in Data
    BY <1>4, ExtractedIsData DEF Analyze
  <2>3. req' \in [Requests -> Req]
    BY <2>1, <2>2, AnalyzedIsReq
  <2> QED  BY <1>4, <2>3 DEF Analyze
<1>5. ASSUME NEW r \in Requests, AnalyzeFails(r)
      PROVE  TypeOK'
  <2>1. req[r].job \in Requests /\ jobs[req[r].job] \in Job
    BY <1>5 DEF AnalyzeFails, LocalsInStep, LocalsOf, Req, InFlight
  <2>2. jobs' \in [Requests -> Job \cup {NULL}]
    BY <1>5, <2>1 DEF AnalyzeFails, Job
  <2>3. log' \subseteq LogRow
    BY <1>5, <2>1 DEF AnalyzeFails, PendingRows, Row, LogRow
  <2> QED  BY <1>5, <2>2, <2>3, AnsweredIsReq DEF AnalyzeFails
<1>6. ASSUME NEW r \in Requests, Match(r)
      PROVE  TypeOK'
  <2>1. PlanOf(r) \in Plan
    BY <1>6, PlanIsTyped DEF Match
  <2>2. req' \in [Requests -> Req]
    BY <1>6, <2>1, PlannedIsReq DEF Match
  <2> QED  BY <1>6, <2>2 DEF Match
<1>7. ASSUME NEW r \in Requests, CommitHit(r)
      PROVE  TypeOK'
  <2>1. /\ req[r].job \in Requests /\ jobs[req[r].job] \in Job
        /\ req[r].plan.entity \in Requests /\ req[r].plan.data \in Data
    BY <1>7 DEF CommitHit, LocalsInStep, LocalsOf, Req, Plan, InFlight
  <2>2. jobs' \in [Requests -> Job \cup {NULL}]
    BY <1>7, <2>1 DEF CommitHit, Completed, Job
  <2>3. log' \subseteq LogRow
    BY <1>7, <2>1 DEF CommitHit, PendingRows, Row, LogRow
  <2> QED  BY <1>7, <2>1, <2>2, <2>3, AnsweredIsReq DEF CommitHit
<1>8. ASSUME NEW r \in Requests, CommitSave(r)
      PROVE  TypeOK'
  <2>1. /\ req[r].job \in Requests /\ jobs[req[r].job] \in Job
        /\ req[r].plan \in Plan /\ req[r].data \in Data
        /\ req[r].user \in Users /\ req[r].file \in Files
    BY <1>8 DEF CommitSave, LocalsInStep, LocalsOf, Req, InFlight
  <2>2. req[r].plan.entity # NULL =>
          req[r].plan.entity \in Requests /\ merchants[req[r].plan.entity] \in Merchant
    BY <1>8, <2>1 DEF CommitSave, Plan
  <2>d. StatementDate(r) \in Dates \cup {NULL}
    BY <2>1, StatementDateIsDate
  <2>3. SavedRow(r) \in Merchant /\ Saved(r) \in Requests
    BY <2>1, <2>2, <2>d DEF SavedRow, Saved, Merchant, Data, Plan
  <2>4. merchants' \in [Requests -> Merchant \cup {NULL}] /\ clock' \in Nat
    BY <1>8, <2>3 DEF CommitSave
  <2>5. IdBeforeFlush(r) \in Requests \cup {NULL}
    BY <2>1 DEF IdBeforeFlush, Plan
  <2>6. jobs' \in [Requests -> Job \cup {NULL}]
    BY <1>8, <2>1, <2>5 DEF CommitSave, Completed, Job
  <2>7. log' \subseteq LogRow
    BY <1>8, <2>1, <2>5 DEF CommitSave, PendingRows, Row, LogRow
  <2>8. req' \in [Requests -> Req]
    BY <1>8 DEF CommitSave, Req, InFlight
  <2> QED  BY <1>8, <2>4, <2>6, <2>7, <2>8 DEF CommitSave
<1>9. ASSUME NEW r \in Requests, CommitRejected(r)
      PROVE  TypeOK'
  BY <1>9, AnsweredIsReq DEF CommitRejected
<1>10. ASSUME NEW r \in Requests, Finish(r)
       PROVE  TypeOK'
  <2>1. req[r].data \in Data
    BY <1>10 DEF Finish, LocalsInStep, LocalsOf, Req
  <2>2. req' = [req EXCEPT ![r] = Answered(req[r], "analyzed", req[r].data)]
    BY <1>10 DEF Finish
  <2>3. Answered(req[r], "analyzed", req[r].data) \in Req
    BY <2>1, AnsweredIsReq
  <2>4. req' \in [Requests -> Req]
    BY <2>2, <2>3
  <2> QED  BY <1>10, <2>4 DEF Finish
<1>11. ASSUME NEW r \in Requests, FinishFails(r)
       PROVE  TypeOK'
  <2>1. req[r].job \in Requests /\ jobs[req[r].job] \in Job
    BY <1>11 DEF FinishFails, LocalsInStep, LocalsOf, Req, InFlight
  <2>2. jobs' \in [Requests -> Job \cup {NULL}]
    BY <1>11, <2>1 DEF FinishFails, Job
  <2> QED  BY <1>11, <2>2, AnsweredIsReq DEF FinishFails
<1>12. ASSUME NEW r \in Requests, DbError(r)
       PROVE  TypeOK'
  BY <1>12, AnsweredIsReq DEF DbError
<1>13. ASSUME NEW r \in Requests, Crash(r)
       PROVE  TypeOK'
  <2>1. Answered(req[r], "none", NULL) \in Req
    BY AnsweredIsReq
  <2>2. [Answered(req[r], "none", NULL) EXCEPT !.pc = "dead"] \in Req
    BY <2>1 DEF Req
  <2> QED  BY <1>13, <2>2 DEF Crash
<1>14. ASSUME NEW m \in Requests, DeleteMerchant(m)
       PROVE  TypeOK'
  BY <1>14 DEF DeleteMerchant
<1>15. ASSUME NEW m \in Requests, NEW v \in Edits, UpdateMerchant(m, v)
       PROVE  TypeOK'
  BY <1>15, FigureAssumption DEF UpdateMerchant, Merchant
<1>16. CASE Deploy
  BY <1>16, BoundAssumption DEF Deploy, Engines
<1>17. CASE UNCHANGED vars
  BY <1>17 DEF vars
<1> QED
  BY <1>1, <1>2, <1>3, <1>4, <1>5, <1>6, <1>7, <1>8, <1>9, <1>10, <1>11, <1>12,
     <1>13, <1>14, <1>15, <1>16, <1>17 DEF Next, Submit, Progress

\* A request that a step leaves alone keeps its locals in step, as long as
\* the step removes no job.
LEMMA LocalsFrame ==
  ASSUME TypeOK, LocalsInStep, NEW x \in Requests, req'[x] = req[x],
         \A j \in Requests : jobs[j] # NULL => jobs'[j] # NULL
  PROVE  LocalsOf(x)'
<1>1. req[x].job \in Requests \cup {NULL}
  BY DEF TypeOK, Req
<1> QED  BY <1>1 DEF LocalsInStep, LocalsOf

\* A request that ends has no local state to keep in step.
LEMMA LocalsAnswered ==
  ASSUME TypeOK, NEW r \in Requests, LocalsOf(r), req[r].pc # "idle",
         NEW served \in Data \cup {NULL},
         NEW a \in {"none", "cached", "matched", "analyzed", "failed", "error"},
         a \in {"cached", "matched"} => served # NULL,
         req'[r] = Answered(req[r], a, served),
         \A j \in Requests : jobs[j] # NULL => jobs'[j] # NULL
  PROVE  LocalsOf(r)'
<1>1. req[r].job \in Requests \cup {NULL}
  BY DEF TypeOK, Req
<1> QED  BY <1>1 DEF LocalsOf, Answered, InFlight

\* Every step keeps the locals of every request in step.
LEMMA LocalsStep ==
  ASSUME TypeOK, LocalsInStep, [Next]_vars
  PROVE  LocalsInStep'
<1> SUFFICES ASSUME NEW x \in Requests
             PROVE  LocalsOf(x)'
  BY DEF LocalsInStep
<1>0. LocalsOf(x) /\ req[x] \in Req
  BY DEF LocalsInStep, TypeOK
<1>1. ASSUME NEW r \in Requests, NEW u \in Users, NEW f \in Files,
             NEW t \in Typed[f] \cup {NULL}, DedupHit(r, u, f, t)
      PROVE  LocalsOf(x)'
  <2> DEFINE p == PriorJob(u, f)
  <2>1. jobs[p].data # NULL
    BY <1>1 DEF DedupHit, CacheIsFresh
  <2>2. CASE x = r
    <3>1. req'[r] = Answered(Received(u, f, t), "cached", jobs[p].data)
      BY <1>1 DEF DedupHit, TypeOK
    <3> HIDE DEF p
    <3> QED
      BY <2>1, <2>2, <3>1 DEF LocalsOf, Answered, Received, InFlight, TypeOK
  <2>3. CASE x # r
    BY <1>1, <2>3, LocalsFrame DEF DedupHit, TypeOK
  <2> QED  BY <2>2, <2>3
<1>2. ASSUME NEW r \in Requests, NEW u \in Users, NEW f \in Files,
             NEW t \in Typed[f] \cup {NULL}, DedupMiss(r, u, f, t)
      PROVE  LocalsOf(x)'
  <2> DEFINE p == PriorJob(u, f)
  <2>1. p # NULL => /\ p \in Requests /\ jobs[p] # NULL
                    /\ jobs[p].merchant \in Requests \cup {NULL}
    BY PriorJobIsOwn DEF Job
  <2>2. CASE x = r /\ p = NULL
    <3>1. req'[r] = Received(u, f, t)
      BY <1>2, <2>2 DEF DedupMiss, TypeOK
    <3> QED  BY <2>2, <3>1 DEF LocalsOf, Received, InFlight, TypeOK
  <2>3. CASE x = r /\ p # NULL
    <3>1. req'[r] = [Received(u, f, t) EXCEPT !.job = p, !.reused = TRUE,
                                          !.linked = jobs[p].merchant]
      BY <1>2, <2>3 DEF DedupMiss, TypeOK
    <3>2. jobs' = jobs
      BY <1>2 DEF DedupMiss
    <3> HIDE DEF p
    <3> QED  BY <2>1, <2>3, <3>1, <3>2 DEF LocalsOf, Received, InFlight, TypeOK
  <2>4. CASE x # r
    BY <1>2, <2>4, LocalsFrame DEF DedupMiss, TypeOK
  <2> QED  BY <2>2, <2>3, <2>4
<1>3. ASSUME NEW r \in Requests, OpenJob(r)
      PROVE  LocalsOf(x)'
  <2>1. CASE req[r].reused
    <3>1. jobs[req[r].job] \in Job /\ req[r].job \in Requests /\ req[r].job # NULL
      BY <1>3, <2>1 DEF OpenJob, LocalsInStep, LocalsOf, Req, TypeOK
    <3>2. \A j \in Requests : jobs[j] # NULL => jobs'[j] # NULL
      <4>1. [jobs[req[r].job] EXCEPT !.status = "processing"] \in Job
        BY <3>1 DEF Job
      <4>2. [jobs[req[r].job] EXCEPT !.status = "processing"] # NULL
        BY <4>1, RecordAssumption
      <4> QED  BY <1>3, <2>1, <3>1, <4>2 DEF OpenJob, TypeOK
    <3>3. CASE x = r
      BY <1>0, <1>3, <2>1, <3>1, <3>2, <3>3 DEF OpenJob, LocalsOf, InFlight, TypeOK, Req
    <3>4. CASE x # r
      BY <1>3, <2>1, <3>2, <3>4, LocalsFrame DEF OpenJob, TypeOK
    <3> QED  BY <3>3, <3>4
  <2>2. CASE ~req[r].reused
    <3>1. /\ jobs' = [jobs EXCEPT ![r] = NewJob(r)]
          /\ req' = [req EXCEPT ![r] = [@ EXCEPT !.pc = "analyze", !.job = r]]
      BY <1>3, <2>2 DEF OpenJob
    <3>2. NewJob(r) # NULL
      <4>1. NewJob(r) \in Job
        BY <1>3 DEF OpenJob, NewJob, Job, LocalsInStep, LocalsOf, TypeOK
      <4> QED  BY <4>1, RecordAssumption
    <3>3. \A j \in Requests : jobs[j] # NULL => jobs'[j] # NULL
      BY <3>1, <3>2 DEF TypeOK
    <3>4. CASE x = r
      <4>1. req'[r] = [req[r] EXCEPT !.pc = "analyze", !.job = r] /\ jobs'[r] # NULL
        BY <3>1, <3>2 DEF TypeOK
      <4> DEFINE n == [req[r] EXCEPT !.pc = "analyze", !.job = r]
      <4>2. /\ n.pc = "analyze" /\ n.job = r
            /\ n.user = req[r].user /\ n.file = req[r].file /\ n.ver = req[r].ver
            /\ n.data = req[r].data /\ n.plan = req[r].plan
            /\ n.answer = req[r].answer /\ n.served = req[r].served
        BY <1>0, <3>4, OpenedIsReq
      <4> HIDE DEF n
      <4>3. req'[x] = n /\ req[r].pc = "open"
        BY <1>3, <3>4, <4>1 DEF n, OpenJob
      <4> QED  BY <1>0, <3>4, <4>1, <4>2, <4>3, NullAssumption DEF LocalsOf, InFlight
    <3>5. CASE x # r
      BY <3>1, <3>3, <3>5, LocalsFrame DEF TypeOK
    <3> QED  BY <3>4, <3>5
  <2> QED  BY <2>1, <2>2
<1>4. ASSUME NEW r \in Requests, Analyze(r)
      PROVE  LocalsOf(x)'
  <2>1. PICK y \in Readings[req[r].file] :
          req' = [req EXCEPT ![r] = [@ EXCEPT !.pc = "match", !.data = Extracted(r, y)]]
    BY <1>4 DEF Analyze
  <2> DEFINE d == Extracted(r, y)
             n == [req[r] EXCEPT !.pc = "match", !.data = d]
  <2>2. d \in Data /\ d.src = r
    BY <1>4, ExtractedIsData DEF Analyze
  <2>3. d # NULL
    <3> HIDE DEF d
    <3> QED  BY <2>2, RecordAssumption
  <2>4. req' = [req EXCEPT ![r] = n]
    BY <2>1
  <2>5. CASE x = r
    <3> HIDE DEF d
    <3>1. /\ n.pc = "match" /\ n.data = d
          /\ n.user = req[r].user /\ n.file = req[r].file /\ n.ver = req[r].ver
          /\ n.job = req[r].job /\ n.plan = req[r].plan
          /\ n.answer = req[r].answer /\ n.served = req[r].served
      <4>1. req[r] \in Req /\ d \in Data
        BY <1>0, <2>2, <2>5
      <4> QED  BY ONLY <4>1, AnalyzedIsReq
    <3> HIDE DEF n
    <3>2. req'[x] = n /\ req[r].pc = "analyze" /\ jobs' = jobs
      BY <1>4, <2>4, <2>5 DEF Analyze, TypeOK
    <3> QED  BY <1>0, <2>2, <2>3, <2>5, <3>1, <3>2 DEF LocalsOf, InFlight
  <2>6. CASE x # r
    <3> HIDE DEF n
    <3> QED  BY <1>4, <2>4, <2>6, LocalsFrame DEF Analyze, TypeOK
  <2> QED  BY <2>5, <2>6
<1>5. ASSUME NEW r \in Requests, AnalyzeFails(r)
      PROVE  LocalsOf(x)'
  <2>1. \A j \in Requests : jobs[j] # NULL => jobs'[j] # NULL
    <3>1. req[r].job \in Requests /\ jobs[req[r].job] \in Job
      BY <1>5 DEF AnalyzeFails, LocalsInStep, LocalsOf, Req, InFlight, TypeOK
    <3>2. [jobs[req[r].job] EXCEPT !.status = "failed"] \in Job
      BY <3>1 DEF Job
    <3> QED  BY <1>5, <3>1, <3>2, RecordAssumption DEF AnalyzeFails, TypeOK
  <2>2. CASE x = r
    BY <1>0, <1>5, <2>1, <2>2, LocalsAnswered DEF AnalyzeFails, TypeOK
  <2>3. CASE x # r
    BY <1>5, <2>1, <2>3, LocalsFrame DEF AnalyzeFails, TypeOK
  <2> QED  BY <2>2, <2>3
<1>6. ASSUME NEW r \in Requests, Match(r)
      PROVE  LocalsOf(x)'
  <2> DEFINE p == PlanOf(r)
             n == [req[r] EXCEPT !.pc = "persist", !.plan = p]
  <2>1. /\ p \in Plan
        /\ p.kind = "hit" => p.entity # NULL /\ p.data # NULL
        /\ p.rev => p.entity = NULL
    BY <1>6, PlanIsTyped DEF Match
  <2>2. req' = [req EXCEPT ![r] = n] /\ req[r].pc = "match" /\ jobs' = jobs
    BY <1>6 DEF Match
  <2> HIDE DEF p
  <2>3. CASE x = r
    <3>1. /\ n.pc = "persist" /\ n.plan = p
          /\ n.user = req[r].user /\ n.file = req[r].file /\ n.ver = req[r].ver
          /\ n.job = req[r].job /\ n.data = req[r].data
          /\ n.answer = req[r].answer /\ n.served = req[r].served
      BY <1>0, <2>1, <2>3, PlannedIsReq
    <3> HIDE DEF n
    <3>2. req'[x] = n
      BY <2>2, <2>3 DEF TypeOK
    <3> QED  BY <1>0, <2>1, <2>2, <2>3, <3>1, <3>2, RecordAssumption DEF LocalsOf, InFlight
  <2>4. CASE x # r
    <3> HIDE DEF n
    <3> QED  BY <2>2, <2>4, LocalsFrame DEF TypeOK
  <2> QED  BY <2>3, <2>4
<1>7. ASSUME NEW r \in Requests, CommitHit(r)
      PROVE  LocalsOf(x)'
  <2>1. /\ req[r].job \in Requests /\ jobs[req[r].job] \in Job
        /\ req[r].plan \in Plan
        /\ req[r].plan.entity \in Requests /\ req[r].plan.data \in Data
        /\ req[r].plan.data # NULL
    BY <1>7 DEF CommitHit, LocalsInStep, LocalsOf, Req, Plan, InFlight, TypeOK
  <2>2. \A j \in Requests : jobs[j] # NULL => jobs'[j] # NULL
    <3>1. Completed(req[r].job, req[r].plan.entity, req[r].plan.data) \in Job
      BY <2>1 DEF Completed, Job
    <3> QED  BY <1>7, <2>1, <3>1, RecordAssumption DEF CommitHit, TypeOK
  <2>3. CASE x = r
    <3>1. req'[r] = Answered(req[r], "matched", req[r].plan.data)
      BY <1>7 DEF CommitHit, TypeOK
    <3> QED  BY <1>0, <1>7, <2>1, <2>2, <2>3, <3>1, LocalsAnswered DEF CommitHit
  <2>4. CASE x # r
    BY <1>7, <2>2, <2>4, LocalsFrame DEF CommitHit, TypeOK
  <2> QED  BY <2>3, <2>4
<1>8. ASSUME NEW r \in Requests, CommitSave(r)
      PROVE  LocalsOf(x)'
  <2>1. /\ req[r].job \in Requests /\ jobs[req[r].job] \in Job
        /\ req[r].plan \in Plan /\ req[r].data \in Data
        /\ IdBeforeFlush(r) \in Requests \cup {NULL}
    BY <1>8 DEF CommitSave, LocalsInStep, LocalsOf, Req, InFlight, TypeOK, Plan, IdBeforeFlush
  <2>2. \A j \in Requests : jobs[j] # NULL => jobs'[j] # NULL
    <3>1. Completed(req[r].job, IdBeforeFlush(r), req[r].data) \in Job
      BY <2>1 DEF Completed, Job
    <3> QED  BY <1>8, <2>1, <3>1, RecordAssumption DEF CommitSave, TypeOK
  <2>3. CASE x = r
    <3>1. req'[x] = [req[r] EXCEPT !.pc = "refresh"] /\ req[r].pc = "persist"
      BY <1>8, <2>3 DEF CommitSave, TypeOK
    <3> QED  BY <1>0, <2>1, <2>2, <2>3, <3>1 DEF LocalsOf, InFlight, Req
  <2>4. CASE x # r
    BY <1>8, <2>2, <2>4, LocalsFrame DEF CommitSave, TypeOK
  <2> QED  BY <2>3, <2>4
<1>9. ASSUME NEW r \in Requests, CommitRejected(r)
      PROVE  LocalsOf(x)'
  <2>1. CASE x = r
    BY <1>0, <1>9, <2>1, LocalsAnswered DEF CommitRejected, TypeOK
  <2>2. CASE x # r
    BY <1>9, <2>2, LocalsFrame DEF CommitRejected, TypeOK
  <2> QED  BY <2>1, <2>2
<1>10. ASSUME NEW r \in Requests, Finish(r)
       PROVE  LocalsOf(x)'
  <2>1. CASE x = r
    <3>1. req'[r] = Answered(req[r], "analyzed", req[r].data) /\ req[r].data \in Data \cup {NULL}
      BY <1>10 DEF Finish, TypeOK, Req
    <3> QED  BY <1>0, <1>10, <2>1, <3>1, LocalsAnswered DEF Finish
  <2>2. CASE x # r
    <3>1. req'[x] = req[x] /\ jobs' = jobs
      BY <1>10, <2>2 DEF Finish, TypeOK
    <3> QED  BY <3>1, LocalsFrame
  <2> QED  BY <2>1, <2>2
<1>11. ASSUME NEW r \in Requests, FinishFails(r)
       PROVE  LocalsOf(x)'
  <2>1. \A j \in Requests : jobs[j] # NULL => jobs'[j] # NULL
    <3>1. req[r].job \in Requests /\ jobs[req[r].job] \in Job
      BY <1>11 DEF FinishFails, LocalsInStep, LocalsOf, Req, InFlight, TypeOK
    <3>2. [jobs[req[r].job] EXCEPT !.status = "failed"] \in Job
      BY <3>1 DEF Job
    <3> QED  BY <1>11, <3>1, <3>2, RecordAssumption DEF FinishFails, TypeOK
  <2>2. CASE x = r
    BY <1>0, <1>11, <2>1, <2>2, LocalsAnswered DEF FinishFails, TypeOK
  <2>3. CASE x # r
    BY <1>11, <2>1, <2>3, LocalsFrame DEF FinishFails, TypeOK
  <2> QED  BY <2>2, <2>3
<1>12. ASSUME NEW r \in Requests, DbError(r)
       PROVE  LocalsOf(x)'
  <2>1. CASE x = r
    BY <1>0, <1>12, <2>1, LocalsAnswered DEF DbError, TypeOK, InFlight
  <2>2. CASE x # r
    BY <1>12, <2>2, LocalsFrame DEF DbError, TypeOK
  <2> QED  BY <2>1, <2>2
<1>13. ASSUME NEW r \in Requests, Crash(r)
       PROVE  LocalsOf(x)'
  <2>1. CASE x = r
    <3>1. req'[r] = [Answered(req[r], "none", NULL) EXCEPT !.pc = "dead"] /\ jobs' = jobs
      BY <1>13 DEF Crash, TypeOK
    <3>2. req[r].pc \in InFlight
      BY <1>13 DEF Crash
    <3> QED  BY <1>0, <2>1, <3>1, <3>2 DEF LocalsOf, Answered, InFlight
  <2>2. CASE x # r
    BY <1>13, <2>2, LocalsFrame DEF Crash, TypeOK
  <2> QED  BY <2>1, <2>2
<1>14. CASE \E m \in Requests : DeleteMerchant(m) \/ \E v \in Edits : UpdateMerchant(m, v)
  BY <1>14, LocalsFrame DEF DeleteMerchant, UpdateMerchant
<1>15. CASE Deploy
  BY <1>15, LocalsFrame DEF Deploy
<1>16. CASE UNCHANGED vars
  BY <1>16, LocalsFrame DEF vars
<1> QED
  BY <1>1, <1>2, <1>3, <1>4, <1>5, <1>6, <1>7, <1>8, <1>9, <1>10, <1>11, <1>12,
     <1>13, <1>14, <1>15, <1>16 DEF Next, Submit, Progress

\* AuditRun is typed, whatever the uploads, accounts, readings and bounds.
THEOREM TypeCorrect == Spec => [](TypeOK /\ LocalsInStep)
<1>1. Init => TypeOK /\ LocalsInStep
  BY InitTyped
<1>2. TypeOK /\ LocalsInStep /\ [Next]_vars => (TypeOK /\ LocalsInStep)'
  BY TypeStep, LocalsStep
<1> QED  BY <1>1, <1>2, PTL DEF Spec

-----------------------------------------------------------------------------
(* No job is left processing *)

\* A job keeps whoever answers for it when the step leaves that request at
\* work or lost, on the same job.
LEMMA WitnessKept ==
  ASSUME NEW j \in Requests, NEW w \in Requests,
         req'[w].job = j, Working(w)' \/ Lost(w)'
  PROVE  \E r \in Requests : req'[r].job = j /\ (Working(r)' \/ Lost(r)')
  OBVIOUS

\* Every step leaves a processing job a request that works on it or was lost.
LEMMA OrphanStep ==
  ASSUME TypeOK, LocalsInStep, NoOrphanProcessing, [Next]_vars
  PROVE  NoOrphanProcessing'
<1> SUFFICES ASSUME NEW j \in Requests, Processing(j)'
             PROVE  \E r \in Requests : req'[r].job = j /\ (Working(r)' \/ Lost(r)')
  BY DEF NoOrphanProcessing
<1> DEFINE Answers == \E r \in Requests : req'[r].job = j /\ (Working(r)' \/ Lost(r)')
<1>0. \A w \in Requests : LocalsOf(w) /\ req[w] \in Req
  BY DEF LocalsInStep, TypeOK
<1>a. Processing(j) => \E w \in Requests : req[w].job = j /\ (Working(w) \/ Lost(w))
  BY DEF NoOrphanProcessing
<1>b. ASSUME Processing(j), NEW r \in Requests, \A x \in Requests \ {r} : req'[x] = req[x],
             req[r].job = j /\ (Working(r) \/ Lost(r)) => req'[r].job = j /\ (Working(r)' \/ Lost(r)')
      PROVE  Answers
  <2>1. PICK w \in Requests : req[w].job = j /\ (Working(w) \/ Lost(w))
    BY <1>a, <1>b
  <2>2. CASE w = r
    BY <1>b, <2>1, <2>2
  <2>3. CASE w # r
    <3>1. req'[w] = req[w]
      BY <1>b, <2>3
    <3>2. req'[w].job = j /\ (Working(w)' \/ Lost(w)')
      BY <2>1, <3>1 DEF Working, Lost
    <3> QED  BY <3>2
  <2> QED  BY <2>2, <2>3
<1>c. ASSUME NEW r \in Requests, NEW u \in Users, NEW f \in Files,
             NEW t \in Typed[f] \cup {NULL}, DedupHit(r, u, f, t) \/ DedupMiss(r, u, f, t)
      PROVE  Answers
  <2>1. req[r] = IdleReq
    BY <1>0, <1>c DEF DedupHit, DedupMiss, LocalsOf
  <2>2. ~(Working(r) \/ Lost(r))
    BY <2>1 DEF IdleReq, Working, Lost
  <2>3. Processing(j) /\ \A x \in Requests \ {r} : req'[x] = req[x]
    BY <1>c DEF DedupHit, DedupMiss, Processing, TypeOK
  <2> QED  BY <1>b, <2>2, <2>3
<1>3. ASSUME NEW r \in Requests, OpenJob(r)
      PROVE  Answers
  <2>1. req[r].pc = "open" /\ ~Working(r) /\ ~Lost(r)
    BY <1>0, <1>3 DEF OpenJob, Working, Lost, LocalsOf, InFlight
  <2>2. \A x \in Requests \ {r} : req'[x] = req[x]
    BY <1>3 DEF OpenJob, TypeOK
  <2>3. /\ req'[r].pc = "analyze"
        /\ req'[r].job \in Requests
        /\ \A i \in Requests \ {req'[r].job} : jobs'[i] = jobs[i]
    <3>1. CASE req[r].reused
      <4>1. req[r].job \in Requests
        BY <1>0, <2>1, <3>1 DEF LocalsOf, Req
      <4>2. req'[r] = [req[r] EXCEPT !.pc = "analyze"]
        BY <1>3, <3>1 DEF OpenJob, TypeOK
      <4>3. req'[r].pc = "analyze" /\ req'[r].job = req[r].job
        BY <1>0, <4>2 DEF Req
      <4>4. jobs' = [jobs EXCEPT ![req[r].job].status = "processing"]
        BY <1>3, <3>1 DEF OpenJob
      <4> QED  BY <4>1, <4>3, <4>4 DEF TypeOK
    <3>2. CASE ~req[r].reused
      <4>1. /\ req' = [req EXCEPT ![r] = [@ EXCEPT !.pc = "analyze", !.job = r]]
            /\ jobs' = [jobs EXCEPT ![r] = NewJob(r)]
        BY <1>3, <3>2 DEF OpenJob
      <4>2. req'[r] = [req[r] EXCEPT !.pc = "analyze", !.job = r]
        BY <4>1 DEF TypeOK
      <4>3. req'[r].pc = "analyze" /\ req'[r].job = r
        <5> DEFINE n == [req[r] EXCEPT !.pc = "analyze", !.job = r]
        <5>1. req[r] \in Req
          BY <1>0
        <5>2. n.pc = "analyze" /\ n.job = r
          BY <5>1, OpenedIsReq
        <5> QED  BY <4>2, <5>2
      <4> QED  BY <4>1, <4>3 DEF TypeOK
    <3> QED  BY <3>1, <3>2
  <2>4. CASE req'[r].job = j
    BY <2>3, <2>4, WitnessKept DEF Working
  <2>5. CASE req'[r].job # j
    <3>1. Processing(j)
      BY <2>3, <2>5 DEF Processing
    <3> QED  BY <1>b, <2>1, <2>2, <3>1
  <2> QED  BY <2>4, <2>5
<1>4. ASSUME NEW r \in Requests, Analyze(r)
      PROVE  Answers
  <2>1. PICK d : req' = [req EXCEPT ![r] = [@ EXCEPT !.pc = "match", !.data = d]]
    BY <1>4 DEF Analyze
  <2>2. req'[r] = [req[r] EXCEPT !.pc = "match", !.data = d]
    BY <2>1 DEF TypeOK
  <2>3. req'[r].pc = "match" /\ req'[r].job = req[r].job
    BY <1>0, <2>2 DEF Req
  <2>4. Working(r)'
    BY <2>3 DEF Working
  <2>5. Processing(j) /\ \A x \in Requests \ {r} : req'[x] = req[x]
    BY <1>4, <2>1 DEF Analyze, Processing, TypeOK
  <2> QED  BY <1>b, <2>3, <2>4, <2>5
<1>5. ASSUME NEW r \in Requests, AnalyzeFails(r) \/ CommitHit(r) \/ CommitSave(r) \/ FinishFails(r)
      PROVE  Answers
  <2>1. req[r].job \in Requests /\ jobs[req[r].job] \in Job
    BY <1>0, <1>5 DEF AnalyzeFails, CommitHit, CommitSave, FinishFails, LocalsOf, Req,
                      InFlight, TypeOK
  <2>2. jobs'[req[r].job].status \in {"complete", "failed"}
    <3>1. CASE AnalyzeFails(r) \/ FinishFails(r)
      BY <2>1, <3>1 DEF AnalyzeFails, FinishFails, Job, TypeOK
    <3>2. CASE CommitHit(r)
      BY <2>1, <3>2 DEF CommitHit, Completed, Job, TypeOK
    <3>3. CASE CommitSave(r)
      BY <2>1, <3>3 DEF CommitSave, Completed, Job, TypeOK
    <3> QED  BY <1>5, <3>1, <3>2, <3>3
  <2>3. \A i \in Requests \ {req[r].job} : jobs'[i] = jobs[i]
    BY <1>5, <2>1 DEF AnalyzeFails, CommitHit, CommitSave, FinishFails, TypeOK
  <2>4. req[r].job # j /\ Processing(j)
    BY <2>2, <2>3 DEF Processing
  <2>5. \A x \in Requests \ {r} : req'[x] = req[x]
    BY <1>5 DEF AnalyzeFails, CommitHit, CommitSave, FinishFails, TypeOK
  <2> QED  BY <1>b, <2>4, <2>5
<1>6. ASSUME NEW r \in Requests, Match(r)
      PROVE  Answers
  <2> DEFINE p == PlanOf(r)
  <2>1. req' = [req EXCEPT ![r] = [@ EXCEPT !.pc = "persist", !.plan = p]] /\ jobs' = jobs
    BY <1>6 DEF Match
  <2> HIDE DEF p
  <2>2. req'[r] = [req[r] EXCEPT !.pc = "persist", !.plan = p]
    BY <2>1 DEF TypeOK
  <2>3. req'[r].pc = "persist" /\ req'[r].job = req[r].job
    BY <1>0, <2>2 DEF Req
  <2>4. Working(r)'
    BY <2>3 DEF Working
  <2>5. Processing(j) /\ \A x \in Requests \ {r} : req'[x] = req[x]
    BY <2>1 DEF Processing, TypeOK
  <2> QED  BY <1>b, <2>3, <2>4, <2>5
<1>7. ASSUME NEW r \in Requests, Finish(r)
      PROVE  Answers
  <2>1. ~Working(r) /\ ~Lost(r)
    BY <1>0, <1>7 DEF Finish, Working, Lost, LocalsOf, InFlight
  <2>2. Processing(j) /\ \A x \in Requests \ {r} : req'[x] = req[x]
    BY <1>7 DEF Finish, Processing, TypeOK
  <2> QED  BY <1>b, <2>1, <2>2
<1>8. ASSUME NEW r \in Requests, CommitRejected(r) \/ DbError(r)
      PROVE  Answers
  <2>1. req'[r] = Answered(req[r], "error", NULL)
    BY <1>8 DEF CommitRejected, DbError, TypeOK
  <2>2. Lost(r)' /\ req'[r].job = req[r].job
    BY <2>1 DEF Answered, Lost
  <2>3. Processing(j) /\ \A x \in Requests \ {r} : req'[x] = req[x]
    BY <1>8 DEF CommitRejected, DbError, Processing, TypeOK
  <2> QED  BY <1>b, <2>2, <2>3
<1>9. ASSUME NEW r \in Requests, Crash(r)
      PROVE  Answers
  <2>1. req'[r] = [Answered(req[r], "none", NULL) EXCEPT !.pc = "dead"]
    BY <1>9 DEF Crash, TypeOK
  <2>2. Lost(r)' /\ req'[r].job = req[r].job
    BY <2>1 DEF Answered, Lost
  <2>3. Processing(j) /\ \A x \in Requests \ {r} : req'[x] = req[x]
    BY <1>9 DEF Crash, Processing, TypeOK
  <2> QED  BY <1>b, <2>2, <2>3
<1>10. CASE \/ \E m \in Requests : DeleteMerchant(m) \/ \E v \in Edits : UpdateMerchant(m, v)
            \/ Deploy \/ UNCHANGED vars
  <2>1. Processing(j) /\ req' = req
    BY <1>10 DEF DeleteMerchant, UpdateMerchant, Deploy, vars, Processing
  <2> QED  BY <1>a, <2>1 DEF Working, Lost
<1> QED
  BY <1>c, <1>3, <1>4, <1>5, <1>6, <1>7, <1>8, <1>9, <1>10 DEF Next, Submit, Progress

\* A job is processing only while a request works on it or after one was lost.
THEOREM NoOrphan == Spec => []NoOrphanProcessing
<1>1. Init => NoOrphanProcessing
  BY DEF Init, NoOrphanProcessing, Processing
<1>2. TypeOK /\ LocalsInStep /\ NoOrphanProcessing /\ [Next]_vars => NoOrphanProcessing'
  BY OrphanStep
<1> QED  BY <1>1, <1>2, TypeCorrect, PTL DEF Spec

-----------------------------------------------------------------------------
(* What a step does to one request *)

\* x goes on, or ends, as the same account's request under the same engine.
Goes(x, pc, job, linked, plan, answer, served) ==
  /\ req[x].pc # "idle" /\ req'[x].user = req[x].user /\ req'[x].ver = req[x].ver
  /\ req'[x].pc = pc /\ req'[x].job = job /\ req'[x].linked = linked
  /\ req'[x].plan = plan /\ req'[x].answer = answer /\ req'[x].served = served

\* Opening a job gives a request its own job, or leaves it the reused one.
LEMMA OpenJobGoes ==
  ASSUME TypeOK, LocalsInStep, NEW r \in Requests, OpenJob(r)
  PROVE  Goes(r, "analyze", IF req[r].reused THEN req[r].job ELSE r, req[r].linked,
              req[r].plan, "none", NULL)
<1>1. req[r] \in Req /\ LocalsOf(r)
  BY DEF TypeOK, LocalsInStep
<1>2. req[r].pc = "open" /\ req[r].answer = "none" /\ req[r].served = NULL
  BY <1>1 DEF OpenJob, LocalsOf, InFlight
<1>3. CASE req[r].reused
  <2>1. req'[r] = [req[r] EXCEPT !.pc = "analyze"]
    BY <1>3 DEF OpenJob, TypeOK
  <2> QED  BY <1>1, <1>2, <1>3, <2>1 DEF Goes, Req
<1>4. CASE ~req[r].reused
  <2> DEFINE n == [req[r] EXCEPT !.pc = "analyze", !.job = r]
  <2>1. req'[r] = n
    BY <1>4 DEF OpenJob, TypeOK
  <2>2. /\ n.pc = "analyze" /\ n.job = r
        /\ n.user = req[r].user /\ n.file = req[r].file /\ n.ver = req[r].ver
        /\ n.linked = req[r].linked
        /\ n.data = req[r].data /\ n.plan = req[r].plan
        /\ n.answer = req[r].answer /\ n.served = req[r].served
    BY <1>1, OpenedIsReq
  <2> HIDE DEF n
  <2> QED  BY <1>2, <1>4, <2>1, <2>2 DEF Goes
<1> QED  BY <1>3, <1>4
\* An extraction changes the place of a request and its data.
LEMMA AnalyzeGoes ==
  ASSUME TypeOK, LocalsInStep, NEW r \in Requests, Analyze(r)
  PROVE  Goes(r, "match", req[r].job, req[r].linked, req[r].plan, "none", NULL)
<1>1. req[r] \in Req /\ LocalsOf(r) /\ req[r].pc = "analyze"
  BY DEF TypeOK, LocalsInStep, Analyze
<1>2. PICK y \in Readings[req[r].file] :
        req' = [req EXCEPT ![r] = [@ EXCEPT !.pc = "match", !.data = Extracted(r, y)]]
  BY DEF Analyze
<1> DEFINE d == Extracted(r, y)
           n == [req[r] EXCEPT !.pc = "match", !.data = d]
<1>3. req'[r] = n
  BY <1>2 DEF TypeOK
<1>4. d \in Data
  BY <1>1, ExtractedIsData
<1> HIDE DEF d
<1>5. /\ n.pc = "match" /\ n.user = req[r].user /\ n.ver = req[r].ver
      /\ n.job = req[r].job /\ n.linked = req[r].linked /\ n.plan = req[r].plan
      /\ n.answer = req[r].answer /\ n.served = req[r].served
  BY ONLY <1>1, <1>4, AnalyzedIsReq
<1> HIDE DEF n
<1> QED  BY <1>1, <1>3, <1>5 DEF Goes, LocalsOf, InFlight

\* The reads of steps 6b to 8 leave a request with its plan.
LEMMA MatchGoes ==
  ASSUME TypeOK, LocalsInStep, NEW r \in Requests, Match(r)
  PROVE  Goes(r, "persist", req[r].job, req[r].linked, PlanOf(r), "none", NULL)
<1>1. req[r] \in Req /\ LocalsOf(r) /\ req[r].pc = "match"
  BY DEF TypeOK, LocalsInStep, Match
<1> DEFINE p == PlanOf(r)
           n == [req[r] EXCEPT !.pc = "persist", !.plan = p]
<1>2. req'[r] = n
  BY DEF Match, TypeOK
<1>3. p \in Plan
  BY <1>1, PlanIsTyped
<1> HIDE DEF p
<1>4. /\ n.pc = "persist" /\ n.plan = p /\ n.user = req[r].user /\ n.ver = req[r].ver
      /\ n.job = req[r].job /\ n.linked = req[r].linked
      /\ n.answer = req[r].answer /\ n.served = req[r].served
  BY ONLY <1>1, <1>3, PlannedIsReq
<1> HIDE DEF n
<1> QED  BY <1>1, <1>2, <1>4 DEF Goes, LocalsOf, InFlight, p

\* The commit of an analysis changes the place of a request alone.
LEMMA CommitSaveGoes ==
  ASSUME TypeOK, LocalsInStep, NEW r \in Requests, CommitSave(r)
  PROVE  Goes(r, "refresh", req[r].job, req[r].linked, req[r].plan, "none", NULL)
<1>1. req[r] \in Req /\ LocalsOf(r) /\ req[r].pc = "persist"
  BY DEF TypeOK, LocalsInStep, CommitSave
<1>2. req'[r] = [req[r] EXCEPT !.pc = "refresh"]
  BY DEF CommitSave, TypeOK
<1> QED  BY <1>1, <1>2 DEF Goes, LocalsOf, InFlight, Req

\* A request that ends keeps its job and what it serves, and nothing else.
LEMMA EndsGoes ==
  ASSUME TypeOK, LocalsInStep, NEW r \in Requests
  PROVE  /\ AnalyzeFails(r)   => Goes(r, "done", req[r].job, NULL, NULL, "failed", NULL)
         /\ CommitHit(r)      => Goes(r, "done", req[r].job, NULL, NULL, "matched", req[r].plan.data)
         /\ CommitRejected(r) => Goes(r, "done", req[r].job, NULL, NULL, "error", NULL)
         /\ Finish(r)         => Goes(r, "done", req[r].job, NULL, NULL, "analyzed", req[r].data)
         /\ FinishFails(r)    => Goes(r, "done", req[r].job, NULL, NULL, "failed", NULL)
         /\ DbError(r)        => Goes(r, "done", req[r].job, NULL, NULL, "error", NULL)
         /\ Crash(r)          => Goes(r, "dead", req[r].job, NULL, NULL, "none", NULL)
<1>1. ASSUME NEW a, NEW s, req[r].pc # "idle", req' = [req EXCEPT ![r] = Answered(@, a, s)]
      PROVE  Goes(r, "done", req[r].job, NULL, NULL, a, s)
  BY <1>1 DEF TypeOK, Answered, Goes
<1>2. AnalyzeFails(r) => Goes(r, "done", req[r].job, NULL, NULL, "failed", NULL)
  BY <1>1 DEF AnalyzeFails
<1>3. CommitHit(r) => Goes(r, "done", req[r].job, NULL, NULL, "matched", req[r].plan.data)
  BY <1>1 DEF CommitHit
<1>4. CommitRejected(r) => Goes(r, "done", req[r].job, NULL, NULL, "error", NULL)
  BY <1>1 DEF CommitRejected
<1>5. Finish(r) => Goes(r, "done", req[r].job, NULL, NULL, "analyzed", req[r].data)
  BY <1>1 DEF Finish
<1>6. FinishFails(r) => Goes(r, "done", req[r].job, NULL, NULL, "failed", NULL)
  BY <1>1 DEF FinishFails
<1>7. DbError(r) => Goes(r, "done", req[r].job, NULL, NULL, "error", NULL)
  BY <1>1 DEF DbError, InFlight
<1>8. ASSUME Crash(r)
      PROVE  Goes(r, "dead", req[r].job, NULL, NULL, "none", NULL)
  <2>1. req'[r] = [Answered(req[r], "none", NULL) EXCEPT !.pc = "dead"] /\ req[r].pc # "idle"
    BY <1>8 DEF Crash, TypeOK, InFlight
  <2> QED  BY <2>1 DEF Answered, Goes
<1> QED  BY <1>2, <1>3, <1>4, <1>5, <1>6, <1>7, <1>8

\* A new request looks its bytes up: it is answered from a fresh job of the
\* account, takes a job of the account over, or starts with none.
LEMMA SubmitGoes ==
  ASSUME TypeOK, LocalsInStep, NEW r \in Requests, Submit(r)
  PROVE  /\ req[r].pc = "idle" /\ req[r].user = NULL
         /\ req'[r].plan = NULL /\ req'[r].ver = engine
         /\ \/ \E p \in Requests :
                 /\ jobs[p] # NULL /\ jobs[p].user = req'[r].user
                 /\ jobs[p].data # NULL /\ CacheIsFresh(jobs[p].data, engine)
                 /\ req'[r].pc = "done" /\ req'[r].answer = "cached"
                 /\ req'[r].job = NULL /\ req'[r].linked = NULL
                 /\ req'[r].served = jobs[p].data
                 /\ log' = log \cup {Row("dedup_hit", r, jobs[p].merchant)}
            \/ /\ req'[r].pc = "open" /\ req'[r].answer = "none" /\ req'[r].served = NULL
               /\ log' = log
               /\ \/ req'[r].job = NULL /\ req'[r].linked = NULL
                  \/ \E p \in Requests :
                       /\ jobs[p] # NULL /\ jobs[p].user = req'[r].user
                       /\ req'[r].job = p /\ req'[r].linked = jobs[p].merchant
<1>1. PICK u \in Users, f \in Files :
        \E t \in Typed[f] \cup {NULL} : DedupHit(r, u, f, t) \/ DedupMiss(r, u, f, t)
  BY DEF Submit
<1>t. PICK t \in Typed[f] \cup {NULL} : DedupHit(r, u, f, t) \/ DedupMiss(r, u, f, t)
  BY <1>1
<1>2. req[r].pc = "idle" /\ req[r].user = NULL
  BY <1>t DEF DedupHit, DedupMiss, LocalsInStep, LocalsOf, IdleReq
<1> DEFINE p == PriorJob(u, f)
<1>3. p # NULL => p \in Requests /\ jobs[p] # NULL /\ jobs[p].user = u
  BY PriorJobIsOwn
<1>4. CASE DedupHit(r, u, f, t)
  <2>1. p # NULL /\ CacheIsFresh(jobs[p].data, engine) /\ jobs[p].data # NULL
    BY <1>4 DEF DedupHit, CacheIsFresh
  <2>2. /\ log' = log \cup {Row("dedup_hit", r, jobs[p].merchant)}
        /\ req'[r] = Answered(Received(u, f, t), "cached", jobs[p].data)
    BY <1>4 DEF DedupHit, TypeOK
  <2> HIDE DEF p
  <2>3. /\ req'[r].user = u /\ req'[r].plan = NULL /\ req'[r].ver = engine
        /\ req'[r].pc = "done" /\ req'[r].answer = "cached" /\ req'[r].job = NULL
        /\ req'[r].linked = NULL /\ req'[r].served = jobs[p].data
    BY <2>2 DEF Answered, Received
  <2> QED  BY <1>2, <1>3, <2>1, <2>2, <2>3
<1>5. CASE DedupMiss(r, u, f, t) /\ p = NULL
  <2>1. req'[r] = Received(u, f, t) /\ log' = log
    BY <1>5 DEF DedupMiss, TypeOK
  <2> QED  BY <1>2, <2>1 DEF Received
<1>6. CASE DedupMiss(r, u, f, t) /\ p # NULL
  <2>1. /\ log' = log
        /\ req'[r] = [Received(u, f, t) EXCEPT !.job = p, !.reused = TRUE,
                                            !.linked = jobs[p].merchant]
    BY <1>6 DEF DedupMiss, TypeOK
  <2> HIDE DEF p
  <2>2. /\ req'[r].pc = "open" /\ req'[r].answer = "none" /\ req'[r].served = NULL
        /\ req'[r].user = u /\ req'[r].plan = NULL /\ req'[r].ver = engine
        /\ req'[r].job = p /\ req'[r].linked = jobs[p].merchant
    BY <2>1 DEF Received
  <2> QED  BY <1>2, <1>3, <1>6, <2>1, <2>2
<1> QED  BY <1>t, <1>4, <1>5, <1>6

\* An upload writes no job and no merchant, and erases nothing from the log.
LEMMA SubmitWrites ==
  ASSUME NEW r \in Requests, Submit(r)
  PROVE  jobs' = jobs /\ merchants' = merchants /\ log \subseteq log'
<1>1. PICK u \in Users, f \in Files :
        \E t \in Typed[f] \cup {NULL} : DedupHit(r, u, f, t) \/ DedupMiss(r, u, f, t)
  BY DEF Submit
<1>2. PICK t \in Typed[f] \cup {NULL} : DedupHit(r, u, f, t) \/ DedupMiss(r, u, f, t)
  BY <1>1
<1> QED  BY <1>2 DEF DedupHit, DedupMiss

\* A step of one request leaves the others alone; the rest leave all alone.
LEMMA OthersStay ==
  ASSUME TypeOK, NEW r \in Requests, NEW x \in Requests,
         \/ x # r /\ (Submit(r) \/ Progress(r) \/ DbError(r) \/ Crash(r))
         \/ \E m \in Requests : DeleteMerchant(m) \/ \E v \in Edits : UpdateMerchant(m, v)
         \/ Deploy
         \/ UNCHANGED vars
  PROVE  req'[x] = req[x]
<1>1. CASE x # r /\ Submit(r)
  BY <1>1 DEF Submit, DedupHit, DedupMiss, TypeOK
<1>2. CASE x # r /\ (OpenJob(r) \/ Analyze(r) \/ Match(r))
  BY <1>2 DEF OpenJob, Analyze, Match, TypeOK
<1>3. CASE x # r /\ (AnalyzeFails(r) \/ CommitHit(r) \/ CommitSave(r) \/ CommitRejected(r))
  BY <1>3 DEF AnalyzeFails, CommitHit, CommitSave, CommitRejected, TypeOK
<1>4. CASE x # r /\ (Finish(r) \/ FinishFails(r) \/ DbError(r) \/ Crash(r))
  BY <1>4 DEF Finish, FinishFails, DbError, Crash, TypeOK
<1> QED
  BY <1>1, <1>2, <1>3, <1>4 DEF Progress, DeleteMerchant, UpdateMerchant, Deploy, vars

\* Once a request is received its account and its engine version are fixed.
LEMMA OwnerKept ==
  ASSUME TypeOK, LocalsInStep, [Next]_vars, NEW x \in Requests, req[x].user # NULL
  PROVE  req'[x].user = req[x].user /\ req'[x].ver = req[x].ver
<1>1. CASE Submit(x)
  BY <1>1, SubmitGoes
<1>2. CASE Progress(x) \/ DbError(x) \/ Crash(x)
  BY <1>2, OpenJobGoes, AnalyzeGoes, MatchGoes, CommitSaveGoes, EndsGoes DEF Progress, Goes
<1>3. CASE ~(Submit(x) \/ Progress(x) \/ DbError(x) \/ Crash(x))
  BY <1>3, OthersStay DEF Next
<1> QED  BY <1>1, <1>2, <1>3

-----------------------------------------------------------------------------
(* What a step does to the tables *)

\* The job stays absent, or stays with its account, bytes, merchant and data.
SameJob(j) ==
  /\ jobs'[j] = NULL <=> jobs[j] = NULL
  /\ jobs[j] # NULL => /\ jobs'[j].user = jobs[j].user /\ jobs'[j].file = jobs[j].file
                       /\ jobs'[j].merchant = jobs[j].merchant
                       /\ jobs'[j].data = jobs[j].data

\* A commit of r completes job j with a merchant and data.
Fills(r, j, merchant, data) ==
  /\ req[r].job = j /\ jobs[j] # NULL /\ jobs'[j] # NULL
  /\ jobs'[j].user = jobs[j].user /\ jobs'[j].file = jobs[j].file
  /\ jobs'[j].merchant = merchant /\ jobs'[j].data = data

\* A job is opened by its own request, and filled by a request that holds it.
LEMMA JobChange ==
  ASSUME TypeOK, LocalsInStep, [Next]_vars, NEW j \in Requests
  PROVE  \/ SameJob(j)
         \/ /\ OpenJob(j) /\ jobs'[j] # NULL
            /\ jobs'[j].user = req[j].user /\ jobs'[j].file = req[j].file
            /\ jobs'[j].merchant = NULL /\ jobs'[j].data = NULL
         \/ \E r \in Requests :
              \/ CommitHit(r) /\ Fills(r, j, req[r].plan.entity, req[r].plan.data)
              \/ CommitSave(r) /\ Fills(r, j, req[r].plan.entity, req[r].data)
<1>1. CASE jobs' = jobs
  BY <1>1 DEF SameJob
<1>2. ASSUME NEW r \in Requests, NEW s \in {"processing", "failed"},
             req[r].job \in Requests, jobs[req[r].job] \in Job,
             jobs' = [jobs EXCEPT ![req[r].job].status = s]
      PROVE  SameJob(j)
  <2>1. CASE req[r].job = j
    <3>1. jobs'[j] = [jobs[j] EXCEPT !.status = s] /\ jobs[j] \in Job
      BY <1>2, <2>1 DEF TypeOK
    <3>2. jobs'[j] \in Job /\ jobs'[j].user = jobs[j].user /\ jobs'[j].file = jobs[j].file
          /\ jobs'[j].merchant = jobs[j].merchant /\ jobs'[j].data = jobs[j].data
      BY <3>1 DEF Job
    <3> QED  BY <3>1, <3>2, RecordAssumption DEF SameJob
  <2>2. CASE req[r].job # j
    BY <1>2, <2>2 DEF SameJob, TypeOK
  <2> QED  BY <2>1, <2>2
<1>3. ASSUME NEW r \in Requests, OpenJob(r)
      PROVE  \/ SameJob(j)
             \/ /\ OpenJob(j) /\ jobs'[j] # NULL
                /\ jobs'[j].user = req[j].user /\ jobs'[j].file = req[j].file
                /\ jobs'[j].merchant = NULL /\ jobs'[j].data = NULL
  <2>1. CASE req[r].reused
    <3>1. req[r].job \in Requests /\ jobs[req[r].job] \in Job
      BY <1>3, <2>1 DEF OpenJob, LocalsInStep, LocalsOf, Req, TypeOK
    <3> QED  BY <1>2, <1>3, <2>1, <3>1 DEF OpenJob
  <2>2. CASE ~req[r].reused
    <3>1. jobs' = [jobs EXCEPT ![r] = NewJob(r)]
      BY <1>3, <2>2 DEF OpenJob
    <3>2. NewJob(r) \in Job
      BY <1>3 DEF OpenJob, NewJob, Job, LocalsInStep, LocalsOf, TypeOK
    <3>3. CASE r = j
      BY <1>3, <3>1, <3>2, <3>3, RecordAssumption DEF NewJob, TypeOK
    <3>4. CASE r # j
      BY <3>1, <3>4 DEF SameJob, TypeOK
    <3> QED  BY <3>3, <3>4
  <2> QED  BY <2>1, <2>2
<1>4. ASSUME NEW r \in Requests, AnalyzeFails(r) \/ FinishFails(r)
      PROVE  SameJob(j)
  <2>1. req[r].job \in Requests /\ jobs[req[r].job] \in Job
    BY <1>4 DEF AnalyzeFails, FinishFails, LocalsInStep, LocalsOf, Req, InFlight, TypeOK
  <2> QED  BY <1>2, <1>4, <2>1 DEF AnalyzeFails, FinishFails
<1>5. ASSUME NEW r \in Requests, NEW m \in Requests \cup {NULL}, NEW d \in Data,
             req[r].job \in Requests, jobs[req[r].job] \in Job,
             jobs' = [jobs EXCEPT ![req[r].job] = Completed(req[r].job, m, d)]
      PROVE  SameJob(j) \/ Fills(r, j, m, d)
  <2>1. CASE req[r].job = j
    <3>1. jobs'[j] = Completed(j, m, d) /\ jobs[j] \in Job
      BY <1>5, <2>1 DEF TypeOK
    <3>2. jobs'[j] \in Job /\ jobs'[j].user = jobs[j].user /\ jobs'[j].file = jobs[j].file
          /\ jobs'[j].merchant = m /\ jobs'[j].data = d
      <4> DEFINE c1 == [jobs[j] EXCEPT !.merchant = m]
                 c2 == [c1 EXCEPT !.status = "complete"]
                 c3 == [c2 EXCEPT !.data = d]
      <4>1. c1 \in Job /\ c1.user = jobs[j].user /\ c1.file = jobs[j].file /\ c1.merchant = m
        BY <3>1 DEF Job
      <4> HIDE DEF c1
      <4>2. c2 \in Job /\ c2.user = c1.user /\ c2.file = c1.file /\ c2.merchant = c1.merchant
        BY <4>1 DEF Job
      <4> HIDE DEF c2
      <4>3. c3 \in Job /\ c3.user = c2.user /\ c3.file = c2.file /\ c3.merchant = c2.merchant /\ c3.data = d
        BY <4>2 DEF Job
      <4> HIDE DEF c3
      <4>4. jobs'[j] = c3
        BY <3>1 DEF Completed, c1, c2, c3
      <4> QED  BY <4>1, <4>2, <4>3, <4>4
    <3> QED  BY <2>1, <3>1, <3>2, RecordAssumption DEF Fills
  <2>2. CASE req[r].job # j
    BY <1>5, <2>2 DEF SameJob, TypeOK
  <2> QED  BY <2>1, <2>2
<1>6. ASSUME NEW r \in Requests, CommitHit(r)
      PROVE  SameJob(j) \/ Fills(r, j, req[r].plan.entity, req[r].plan.data)
  <2>1. /\ req[r].job \in Requests /\ jobs[req[r].job] \in Job
        /\ req[r].plan.entity \in Requests /\ req[r].plan.data \in Data
    BY <1>6 DEF CommitHit, LocalsInStep, LocalsOf, Req, Plan, InFlight, TypeOK
  <2> QED  BY <1>5, <1>6, <2>1 DEF CommitHit
<1>7. ASSUME NEW r \in Requests, CommitSave(r)
      PROVE  SameJob(j) \/ Fills(r, j, req[r].plan.entity, req[r].data)
  <2>1. /\ req[r].job \in Requests /\ jobs[req[r].job] \in Job
        /\ req[r].plan \in Plan /\ req[r].data \in Data
    BY <1>7 DEF CommitSave, LocalsInStep, LocalsOf, Req, InFlight, TypeOK
  <2>2. req[r].plan.entity \in Requests \cup {NULL}
    BY <2>1 DEF Plan
  <2> QED  BY <1>5, <1>7, <2>1, <2>2 DEF CommitSave, IdBeforeFlush
<1>8. CASE \/ \E r \in Requests : \/ Submit(r) \/ Analyze(r) \/ Match(r) \/ CommitRejected(r)
                                  \/ Finish(r) \/ DbError(r) \/ Crash(r)
           \/ \E m \in Requests : DeleteMerchant(m) \/ \E v \in Edits : UpdateMerchant(m, v)
           \/ Deploy \/ UNCHANGED vars
  BY <1>1, <1>8, SubmitWrites DEF Analyze, Match, CommitRejected, Finish,
                    DbError, Crash, DeleteMerchant, UpdateMerchant, Deploy, vars
<1> QED  BY <1>3, <1>4, <1>6, <1>7, <1>8 DEF Next, Progress

\* The merchant a commit saves is a row of the request's account, flagged as planned.
LEMMA SavedMerchant ==
  ASSUME TypeOK, LocalsInStep, NEW r \in Requests, CommitSave(r)
  PROVE  /\ Saved(r) \in Requests
         /\ merchants'[Saved(r)] # NULL
         /\ merchants'[Saved(r)] = SavedRow(r)
         /\ merchants'[Saved(r)].user = req[r].user
         /\ merchants'[Saved(r)].rev = req[r].plan.rev
         /\ \A m \in Requests \ {Saved(r)} : merchants'[m] = merchants[m]
<1>1. /\ req[r].plan \in Plan /\ req[r].data \in Data
      /\ req[r].user \in Users /\ req[r].file \in Files
  BY DEF CommitSave, LocalsInStep, LocalsOf, Req, InFlight, TypeOK
<1>2. req[r].plan.entity # NULL =>
        req[r].plan.entity \in Requests /\ merchants[req[r].plan.entity] \in Merchant
  BY <1>1 DEF CommitSave, Plan, TypeOK
<1>d. StatementDate(r) \in Dates \cup {NULL}
  BY <1>1, StatementDateIsDate
<1>3. SavedRow(r) \in Merchant /\ Saved(r) \in Requests
  BY <1>1, <1>2, <1>d DEF SavedRow, Saved, Merchant, Data, Plan, TypeOK
<1>4. merchants' = [merchants EXCEPT ![Saved(r)] = SavedRow(r)]
  BY DEF CommitSave
<1>5. merchants'[Saved(r)] = SavedRow(r) /\ \A m \in Requests \ {Saved(r)} : merchants'[m] = merchants[m]
  BY <1>3, <1>4 DEF TypeOK
<1>6. SavedRow(r).user = req[r].user /\ SavedRow(r).rev = req[r].plan.rev
  BY DEF SavedRow
<1> QED  BY <1>3, <1>5, <1>6, RecordAssumption

\* The merchant stays as it was, but for an editor's figure.
SameMerchant(m) ==
  /\ merchants'[m].user = merchants[m].user   /\ merchants'[m].file = merchants[m].file
  /\ merchants'[m].mid = merchants[m].mid     /\ merchants'[m].date = merchants[m].date
  /\ merchants'[m].group = merchants[m].group /\ merchants'[m].rev = merchants[m].rev
  /\ Edits = {} => merchants'[m].figure = merchants[m].figure

\* A merchant is created or rewritten by a commit of its account, edited
\* in its figure alone, or deleted while no job refers to it.
LEMMA MerchantChange ==
  ASSUME TypeOK, LocalsInStep, [Next]_vars, NEW m \in Requests
  PROVE  \/ merchants'[m] = NULL /\ (merchants[m] = NULL \/ DeleteMerchant(m))
         \/ /\ merchants[m] # NULL /\ merchants'[m] # NULL
            /\ SameMerchant(m)
         \/ \E r \in Requests :
              /\ CommitSave(r) /\ m = Saved(r)
              /\ merchants'[m] # NULL /\ merchants'[m] = SavedRow(r)
              /\ merchants'[m].user = req[r].user /\ merchants'[m].rev = req[r].plan.rev
<1>1. CASE merchants'[m] = merchants[m]
  BY <1>1 DEF SameMerchant
<1>2. ASSUME NEW r \in Requests, CommitSave(r)
      PROVE  \/ merchants'[m] = merchants[m]
             \/ /\ m = Saved(r) /\ merchants'[m] # NULL /\ merchants'[m] = SavedRow(r)
                /\ merchants'[m].user = req[r].user /\ merchants'[m].rev = req[r].plan.rev
  BY <1>2, SavedMerchant
<1>3. ASSUME NEW x \in Requests, DeleteMerchant(x)
      PROVE  merchants'[m] = merchants[m] \/ (merchants'[m] = NULL /\ DeleteMerchant(m))
  BY <1>3 DEF DeleteMerchant, TypeOK
<1>4. ASSUME NEW x \in Requests, NEW v \in Edits, UpdateMerchant(x, v)
      PROVE  \/ merchants'[m] = merchants[m]
             \/ /\ merchants[m] # NULL /\ merchants'[m] # NULL
                /\ SameMerchant(m)
  <2>1. CASE m = x
    <3>1. merchants[x] \in Merchant /\ merchants'[x] = [merchants[x] EXCEPT !.figure = v]
      BY <1>4 DEF UpdateMerchant, TypeOK
    <3>2. [merchants[x] EXCEPT !.figure = v] \in Merchant
      BY <3>1, FigureAssumption DEF Merchant
    <3> QED  BY <1>4, <2>1, <3>1, <3>2, RecordAssumption DEF UpdateMerchant, Merchant, SameMerchant
  <2>2. CASE m # x
    BY <1>4, <2>2 DEF UpdateMerchant, TypeOK
  <2> QED  BY <2>1, <2>2
<1>5. CASE \/ \E r \in Requests : \/ Submit(r) \/ OpenJob(r) \/ Analyze(r) \/ AnalyzeFails(r)
                                  \/ Match(r) \/ CommitHit(r) \/ CommitRejected(r)
                                  \/ Finish(r) \/ FinishFails(r) \/ DbError(r) \/ Crash(r)
           \/ Deploy \/ UNCHANGED vars
  BY <1>1, <1>5, SubmitWrites DEF OpenJob, Analyze, AnalyzeFails, Match,
                    CommitHit, CommitRejected, Finish, FinishFails, DbError, Crash, Deploy, vars
<1> QED  BY <1>1, <1>2, <1>3, <1>4, <1>5 DEF Next, Progress

\* The audit log only grows (audit_log.py: INSERT only).
LEMMA LogGrows ==
  ASSUME [Next]_vars
  PROVE  /\ log \subseteq log'
         /\ \A a, r : Logged(a, r) => Logged(a, r)'
<1>1. log \subseteq log'
  BY SubmitWrites DEF Next, Progress, OpenJob, Analyze, AnalyzeFails, Match,
         CommitHit, CommitSave, CommitRejected, Finish, FinishFails, DbError, Crash,
         DeleteMerchant, UpdateMerchant, Deploy, vars
<1> QED  BY <1>1 DEF Logged

-----------------------------------------------------------------------------
(* Accounts *)

\* A request of the account of another stays one.
LEMMA SameOwner ==
  ASSUME TypeOK, LocalsInStep, [Next]_vars, NEW x \in Requests, NEW y \in Requests,
         req[x].user # NULL, req[y].user = req[x].user
  PROVE  req'[y].user = req'[x].user /\ req'[x].user = req[x].user
  BY OwnerKept

\* What a job refers to is there after a step, and of the job's account.
LEMMA JobReach ==
  ASSUME TypeOK, LocalsInStep, OneOwner, [Next]_vars, NEW j \in Requests, jobs[j] # NULL
  PROVE  /\ req[j].user # NULL /\ req'[j].user = jobs[j].user
         /\ jobs[j].merchant # NULL =>
              /\ jobs[j].merchant \in Requests
              /\ merchants'[jobs[j].merchant] # NULL
              /\ req'[jobs[j].merchant].user = jobs[j].user
         /\ jobs[j].data # NULL =>
              /\ jobs[j].data.src \in Requests
              /\ req'[jobs[j].data.src].user = jobs[j].user
<1>1. /\ jobs[j].user \in Users /\ jobs[j].merchant \in Requests \cup {NULL}
      /\ jobs[j].data \in Data \cup {NULL}
  BY DEF TypeOK, Job
<1>2. JobOwned(j)
  BY DEF OneOwner
<1>3. req[j].user = jobs[j].user /\ jobs[j].user # NULL
  BY <1>1, <1>2, NullAssumption DEF JobOwned
<1>4. req'[j].user = jobs[j].user
  BY <1>3, OwnerKept
<1>5. ASSUME jobs[j].merchant # NULL
      PROVE  /\ merchants'[jobs[j].merchant] # NULL
             /\ req'[jobs[j].merchant].user = jobs[j].user
  <2> DEFINE m == jobs[j].merchant
  <2>1. m \in Requests /\ merchants[m] # NULL /\ req[m].user = jobs[j].user
    BY <1>1, <1>2, <1>5 DEF JobOwned
  <2>2. ~DeleteMerchant(m)
    BY DEF DeleteMerchant
  <2>3. req'[m].user = jobs[j].user
    BY <1>3, <2>1, OwnerKept
  <2> QED  BY <2>1, <2>2, <2>3, MerchantChange DEF SameMerchant
<1>6. ASSUME jobs[j].data # NULL
      PROVE  /\ jobs[j].data.src \in Requests
             /\ req'[jobs[j].data.src].user = jobs[j].user
  <2>1. jobs[j].data.src \in Requests
    BY <1>1, <1>6 DEF Data
  <2>2. req[jobs[j].data.src].user = jobs[j].user
    BY <1>2, <1>6 DEF JobOwned
  <2> QED  BY <1>3, <2>1, <2>2, OwnerKept
<1> QED  BY <1>1, <1>3, <1>4, <1>5, <1>6

\* A plan refers to rows of the account.
LEMMA PlanIsOwn ==
  ASSUME TypeOK, LocalsInStep, OneOwner, NEW r \in Requests, req[r].pc = "match"
  PROVE  /\ PlanOf(r).entity # NULL => req[PlanOf(r).entity].user = req[r].user
         /\ PlanOf(r).data # NULL   => req[PlanOf(r).data.src].user = req[r].user
<1> DEFINE e == EntityMatch(r)
<1>1. RequestOwned(r)
  BY DEF OneOwner
<1>2. e # NULL => e \in Requests /\ req[e].user = req[r].user
  BY EntityMatchIsOwn DEF OneOwner, MerchantOwned
<1>3. ASSUME e # NULL, EntityData(e) # NULL
      PROVE  req[EntityData(e).src].user = req[r].user
  <2>1. PICK k \in Requests : jobs[k] # NULL /\ jobs[k].merchant = e /\ jobs[k].data = EntityData(e)
    BY <1>2, <1>3, EntityDataIsOfJob
  <2>2. JobOwned(k)
    BY DEF OneOwner
  <2>3. req[EntityData(e).src].user = jobs[k].user /\ req[e].user = jobs[k].user
    BY <1>3, <2>1, <2>2 DEF JobOwned
  <2> QED  BY <1>2, <1>3, <2>3
<1>4. CASE PlanOf(r).kind = "hit"
  BY <1>2, <1>3, <1>4, PlanIsTyped
<1>5. CASE PlanOf(r).kind = "save"
  BY <1>1, <1>2, <1>5, PlanIsTyped DEF RequestOwned
<1>6. PlanOf(r).kind \in {"hit", "save"}
  BY PlanIsTyped DEF Plan
<1> QED  BY <1>4, <1>5, <1>6

\* Every step leaves every job with its account.
LEMMA JobOwnedStep ==
  ASSUME TypeOK, LocalsInStep, OneOwner, [Next]_vars, NEW j \in Requests
  PROVE  JobOwned(j)'
<1> SUFFICES ASSUME jobs'[j] # NULL
             PROVE  JobOwned(j)'
  BY DEF JobOwned
<1>1. CASE SameJob(j)
  BY <1>1, JobReach DEF SameJob, JobOwned
<1>2. CASE /\ OpenJob(j) /\ jobs'[j].user = req[j].user
           /\ jobs'[j].merchant = NULL /\ jobs'[j].data = NULL
  BY <1>2, OpenJobGoes DEF Goes, JobOwned
<1>3. ASSUME NEW r \in Requests, NEW d, Fills(r, j, req[r].plan.entity, d), d # NULL,
             req[r].pc = "persist",
             d.src \in Requests, req[d.src].user = req[r].user,
             req[r].plan.entity # NULL => merchants'[req[r].plan.entity] # NULL
      PROVE  JobOwned(j)'
  <2>1. /\ req[r].job = j /\ req[r].job # NULL /\ req[r].plan # NULL
        /\ req[r].user \in Users /\ req[r].plan.entity \in Requests \cup {NULL}
    BY <1>3, NullAssumption DEF Fills, LocalsInStep, LocalsOf, InFlight, TypeOK, Req, Plan
  <2>2. /\ req[j].user = req[r].user
        /\ req[r].plan.entity # NULL => req[req[r].plan.entity].user = req[r].user
    BY <2>1 DEF OneOwner, RequestOwned
  <2>3. req[r].user # NULL
    BY <2>1, NullAssumption
  <2>4. req'[j].user = jobs[j].user /\ req'[j].user = req'[r].user /\ req'[d.src].user = req'[r].user
    BY <1>3, <2>2, <2>3, JobReach, SameOwner DEF Fills
  <2>5. req[r].plan.entity # NULL => req'[req[r].plan.entity].user = req'[r].user
    BY <2>1, <2>2, <2>3, SameOwner
  <2> QED  BY <1>3, <2>4, <2>5 DEF Fills, JobOwned
<1>4. ASSUME NEW r \in Requests, CommitHit(r), Fills(r, j, req[r].plan.entity, req[r].plan.data)
      PROVE  JobOwned(j)'
  <2>1. /\ req[r].plan # NULL /\ req[r].plan \in Plan
        /\ req[r].plan.data # NULL /\ req[r].plan.data \in Data
    BY <1>4 DEF CommitHit, LocalsInStep, LocalsOf, TypeOK, Req, Plan
  <2>2. req[r].plan.data.src \in Requests /\ req[req[r].plan.data.src].user = req[r].user
    BY <2>1 DEF OneOwner, RequestOwned, Data
  <2>3. merchants'[req[r].plan.entity] # NULL
    BY <1>4 DEF CommitHit
  <2> QED  BY <1>3, <1>4, <2>1, <2>2, <2>3 DEF CommitHit
<1>5. ASSUME NEW r \in Requests, CommitSave(r), Fills(r, j, req[r].plan.entity, req[r].data)
      PROVE  JobOwned(j)'
  <2>1. req[r].data # NULL /\ req[r].data.src = r
    BY <1>5 DEF CommitSave, LocalsInStep, LocalsOf
  <2>2. req[r].plan.entity # NULL => merchants'[req[r].plan.entity] # NULL
    BY <1>5, SavedMerchant DEF Saved
  <2> QED  BY <1>3, <1>5, <2>1, <2>2 DEF CommitSave
<1> QED  BY <1>1, <1>2, <1>4, <1>5, JobChange

\* Every step leaves every merchant with its account.
LEMMA MerchantOwnedStep ==
  ASSUME TypeOK, LocalsInStep, OneOwner, [Next]_vars, NEW m \in Requests
  PROVE  MerchantOwned(m)'
<1>1. CASE merchants'[m] = NULL
  BY <1>1 DEF MerchantOwned
<1>2. CASE merchants[m] # NULL /\ merchants'[m].user = merchants[m].user
  <2>1. req[m].user = merchants[m].user /\ merchants[m].user \in Users
    BY <1>2 DEF OneOwner, MerchantOwned, TypeOK, Merchant
  <2> QED  BY <1>2, <2>1, NullAssumption, OwnerKept DEF MerchantOwned
<1>3. ASSUME NEW r \in Requests, CommitSave(r), m = Saved(r), merchants'[m].user = req[r].user
      PROVE  MerchantOwned(m)'
  <2>1. req[r].user \in Users /\ req[r].plan # NULL
    BY <1>3 DEF CommitSave, LocalsInStep, LocalsOf
  <2>2. req[m].user = req[r].user
    BY <1>3, <2>1 DEF Saved, OneOwner, RequestOwned
  <2> QED  BY <1>3, <2>1, <2>2, NullAssumption, SameOwner DEF MerchantOwned
<1> QED  BY <1>1, <1>2, <1>3, MerchantChange DEF SameMerchant

\* Every step leaves every request with rows of its account.
LEMMA RequestOwnedStep ==
  ASSUME TypeOK, LocalsInStep, OneOwner, [Next]_vars, NEW x \in Requests
  PROVE  RequestOwned(x)'
<1>0. RequestOwned(x) /\ LocalsOf(x) /\ req[x] \in Req
  BY DEF OneOwner, LocalsInStep, TypeOK
<1>1. ASSUME req[x].pc # "idle", req'[x].user = req[x].user,
             NEW job \in Requests \cup {NULL}, NEW linked \in Requests \cup {NULL},
             NEW plan, NEW served,
             req'[x].job = job, req'[x].linked = linked,
             req'[x].plan = plan, req'[x].served = served,
             job # NULL => req[job].user = req[x].user,
             linked # NULL => req[linked].user = req[x].user,
             plan # NULL =>
               /\ plan.entity # NULL =>
                    plan.entity \in Requests /\ req[plan.entity].user = req[x].user
               /\ plan.data # NULL =>
                    plan.data.src \in Requests /\ req[plan.data.src].user = req[x].user,
             served # NULL => served.src \in Requests /\ req[served.src].user = req[x].user
      PROVE  RequestOwned(x)'
  <2>1. req[x].user # NULL
    BY <1>0, <1>1, NullAssumption DEF LocalsOf
  <2>2. \A y \in Requests : req[y].user = req[x].user => req'[y].user = req'[x].user
    BY <2>1, SameOwner
  <2> QED  BY <1>1, <2>2 DEF RequestOwned
<1>2. /\ req[x].job \in Requests \cup {NULL} /\ req[x].linked \in Requests \cup {NULL}
      /\ req[x].job # NULL => req[req[x].job].user = req[x].user
      /\ req[x].linked # NULL => req[req[x].linked].user = req[x].user
      /\ req[x].plan # NULL =>
           /\ req[x].plan.entity # NULL =>
                req[x].plan.entity \in Requests /\ req[req[x].plan.entity].user = req[x].user
           /\ req[x].plan.data # NULL =>
                req[x].plan.data.src \in Requests /\ req[req[x].plan.data.src].user = req[x].user
      /\ req[x].served # NULL =>
           req[x].served.src \in Requests /\ req[req[x].served.src].user = req[x].user
  BY <1>0 DEF RequestOwned, Req, Plan, Data
<1>3. CASE req'[x] = req[x]
  <2>1. CASE req[x].pc = "idle"
    <3>1. req'[x] = IdleReq
      BY <1>0, <1>3, <2>1 DEF LocalsOf
    <3> QED  BY <3>1 DEF RequestOwned, IdleReq
  <2>2. CASE req[x].pc # "idle"
    BY <1>1, <1>2, <1>3, <2>2
  <2> QED  BY <2>1, <2>2
<1>4. CASE Submit(x)
  <2>1. ASSUME NEW p \in Requests, jobs[p] # NULL
        PROVE  /\ jobs[p].data # NULL => req'[jobs[p].data.src].user = jobs[p].user
               /\ jobs[p].merchant # NULL => req'[jobs[p].merchant].user = jobs[p].user
               /\ req'[p].user = jobs[p].user
    BY <2>1, JobReach
  <2> QED  BY <1>4, <2>1, SubmitGoes DEF RequestOwned
<1>5. CASE OpenJob(x)
  <2> DEFINE j == IF req[x].reused THEN req[x].job ELSE x
  <2>1. Goes(x, "analyze", j, req[x].linked, req[x].plan, "none", NULL)
    BY <1>5, OpenJobGoes
  <2>2. j \in Requests \cup {NULL} /\ (j # NULL => req[j].user = req[x].user)
    BY <1>2
  <2> HIDE DEF j
  <2> QED  BY <1>1, <1>2, <2>1, <2>2 DEF Goes
<1>6. CASE Analyze(x)
  BY <1>1, <1>2, <1>6, AnalyzeGoes DEF Goes
<1>7. CASE Match(x)
  <2> DEFINE p == PlanOf(x)
  <2>1. Goes(x, "persist", req[x].job, req[x].linked, p, "none", NULL)
    BY <1>7, MatchGoes
  <2>2. /\ p \in Plan
        /\ p.entity # NULL => req[p.entity].user = req[x].user
        /\ p.data # NULL => req[p.data.src].user = req[x].user
    BY <1>7, PlanIsOwn, PlanIsTyped DEF Match
  <2> HIDE DEF p
  <2>3. /\ p.entity # NULL => p.entity \in Requests
        /\ p.data # NULL => p.data.src \in Requests
    BY <2>2 DEF Plan, Data
  <2> QED  BY <1>1, <1>2, <2>1, <2>2, <2>3 DEF Goes
<1>8. CASE CommitSave(x)
  BY <1>1, <1>2, <1>8, CommitSaveGoes DEF Goes
<1>9. CASE CommitHit(x)
  <2>1. Goes(x, "done", req[x].job, NULL, NULL, "matched", req[x].plan.data)
    BY <1>9, EndsGoes
  <2>2. req[x].plan # NULL
    BY <1>0, <1>9 DEF CommitHit, LocalsOf
  <2> QED  BY <1>1, <1>2, <2>1, <2>2 DEF Goes
<1>10. CASE Finish(x)
  <2>1. Goes(x, "done", req[x].job, NULL, NULL, "analyzed", req[x].data)
    BY <1>10, EndsGoes
  <2>2. req[x].data # NULL => req[x].data.src = x
    BY <1>0 DEF LocalsOf
  <2> QED  BY <1>1, <1>2, <2>1, <2>2 DEF Goes
<1>11. CASE AnalyzeFails(x) \/ CommitRejected(x) \/ FinishFails(x) \/ DbError(x) \/ Crash(x)
  <2>1. /\ req[x].pc # "idle" /\ req'[x].user = req[x].user /\ req'[x].job = req[x].job
        /\ req'[x].linked = NULL /\ req'[x].plan = NULL /\ req'[x].served = NULL
    BY <1>11, EndsGoes DEF Goes
  <2> QED  BY <1>1, <1>2, <2>1
<1> QED
  BY <1>3, <1>4, <1>5, <1>6, <1>7, <1>8, <1>9, <1>10, <1>11, OthersStay DEF Next, Progress

\* Whatever rows refer to each other, and requests to rows, is of one account.
LEMMA OwnersKept == Spec => []OneOwner
<1>1. Init => OneOwner
  BY DEF Init, OneOwner, JobOwned, MerchantOwned, RequestOwned, IdleReq
<1>2. TypeOK /\ LocalsInStep /\ OneOwner /\ [Next]_vars => OneOwner'
  BY JobOwnedStep, MerchantOwnedStep, RequestOwnedStep DEF OneOwner
<1> QED  BY <1>1, <1>2, TypeCorrect, PTL DEF Spec

\* Every account sees its own records only: neither cache crosses accounts,
\* and a job points at an existing merchant of its account.
THEOREM RecordsAreOwn == Spec => []OwnRecordsOnly
<1>1. TypeOK /\ OneOwner => OwnRecordsOnly
  <2> SUFFICES ASSUME TypeOK, OneOwner PROVE OwnRecordsOnly
    OBVIOUS
  <2>1. \A r \in Requests : req[r].served # NULL => req[req[r].served.src].user = req[r].user
    BY DEF OneOwner, RequestOwned
  <2>2. ASSUME NEW j \in Requests, jobs[j] # NULL, jobs[j].merchant # NULL
        PROVE  /\ merchants[jobs[j].merchant] # NULL
               /\ merchants[jobs[j].merchant].user = jobs[j].user
    <3>1. jobs[j].merchant \in Requests
      BY <2>2 DEF TypeOK, Job
    <3>2. JobOwned(j) /\ MerchantOwned(jobs[j].merchant)
      BY <3>1 DEF OneOwner
    <3> QED  BY <2>2, <3>2 DEF JobOwned, MerchantOwned
  <2> QED  BY <2>1, <2>2 DEF OwnRecordsOnly
<1> QED  BY <1>1, TypeCorrect, OwnersKept, PTL

-----------------------------------------------------------------------------
(* Evidence *)

\* A commit writes the rows of the request's own work.
LEMMA CommitLogs ==
  ASSUME NEW r \in Requests
  PROVE  /\ AnalyzeFails(r) => Logged("upload", r)'
         /\ CommitHit(r) => Logged("upload", r)' /\ Logged("dedup_hit", r)'
         /\ CommitSave(r) => /\ Logged("upload", r)' /\ Logged("analyze", r)'
                             /\ req[r].plan.rev => Logged("revision_flagged", r)'
<1>1. ASSUME AnalyzeFails(r) PROVE Logged("upload", r)'
  <2>1. Row("upload", r, req[r].job) \in log'
    BY <1>1 DEF AnalyzeFails, PendingRows
  <2> QED  BY <2>1 DEF Logged, Row
<1>2. ASSUME CommitHit(r) PROVE Logged("upload", r)' /\ Logged("dedup_hit", r)'
  <2>1. /\ Row("upload", r, req[r].job) \in log'
        /\ Row("dedup_hit", r, req[r].plan.entity) \in log'
    BY <1>2 DEF CommitHit, PendingRows
  <2> QED  BY <2>1 DEF Logged, Row
<1>3. ASSUME CommitSave(r)
      PROVE  /\ Logged("upload", r)' /\ Logged("analyze", r)'
             /\ req[r].plan.rev => Logged("revision_flagged", r)'
  <2>1. /\ Row("upload", r, req[r].job) \in log'
        /\ Row("analyze", r, IdBeforeFlush(r)) \in log'
        /\ req[r].plan.rev => Row("revision_flagged", r, req[r].job) \in log'
    BY <1>3 DEF CommitSave, PendingRows
  <2> QED  BY <2>1 DEF Logged, Row
<1> QED  BY <1>1, <1>2, <1>3

\* Every step leaves the data of every job logged.
LEMMA JobLoggedStep ==
  ASSUME TypeOK, LocalsInStep, LoggedSource, [Next]_vars, NEW j \in Requests
  PROVE  JobLogged(j)'
<1>1. CASE SameJob(j)
  BY <1>1, LogGrows DEF SameJob, LoggedSource, JobLogged
<1>2. CASE jobs'[j].data = NULL
  BY <1>2 DEF JobLogged
<1>3. ASSUME NEW r \in Requests, CommitHit(r), Fills(r, j, req[r].plan.entity, req[r].plan.data)
      PROVE  JobLogged(j)'
  <2>1. Logged("analyze", req[r].plan.data.src)
    BY <1>3 DEF CommitHit, LoggedSource, RequestLogged
  <2> QED  BY <1>3, <2>1, LogGrows DEF Fills, JobLogged
<1>4. ASSUME NEW r \in Requests, CommitSave(r), Fills(r, j, req[r].plan.entity, req[r].data)
      PROVE  JobLogged(j)'
  <2>1. req[r].data.src = r
    BY <1>4 DEF CommitSave, LocalsInStep, LocalsOf
  <2> QED  BY <1>4, <2>1, CommitLogs DEF Fills, JobLogged
<1> QED  BY <1>1, <1>2, <1>3, <1>4, JobChange

\* Every step leaves every request with fresh, logged data to answer from, and
\* with the rows of what it committed.
LEMMA RequestLoggedStep ==
  ASSUME TypeOK, LocalsInStep, LoggedSource, [Next]_vars, NEW x \in Requests
  PROVE  RequestLogged(x)'
<1>1. CASE req'[x] = req[x]
  BY <1>1, LogGrows DEF LoggedSource, RequestLogged, CacheIsFresh
<1>2. CASE Submit(x)
  BY <1>2, SubmitGoes DEF RequestLogged
<1>3. CASE OpenJob(x) \/ Analyze(x)
  BY <1>3, OpenJobGoes, AnalyzeGoes DEF RequestLogged, Goes
<1>4. CASE Match(x)
  <2> DEFINE p == PlanOf(x)
  <2>1. Goes(x, "persist", req[x].job, req[x].linked, p, "none", NULL)
    BY <1>4, MatchGoes
  <2>2. ASSUME p.kind = "hit"
        PROVE  CacheIsFresh(p.data, req[x].ver) /\ Logged("analyze", p.data.src)
    <3>1. /\ CacheIsFresh(p.data, req[x].ver) /\ p.data # NULL
          /\ p.data = EntityData(EntityMatch(x)) /\ EntityMatch(x) # NULL
      BY <1>4, <2>2, PlanIsTyped DEF Match
    <3>2. EntityMatch(x) \in Requests
      BY <3>1, EntityMatchIsOwn
    <3>3. PICK k \in Requests : jobs[k] # NULL /\ jobs[k].data = p.data
      BY <3>1, <3>2, EntityDataIsOfJob
    <3>4. Logged("analyze", jobs[k].data.src)
      BY <3>1, <3>3 DEF LoggedSource, JobLogged
    <3> QED  BY <3>1, <3>3, <3>4
  <2> HIDE DEF p
  <2> QED  BY <2>1, <2>2, LogGrows DEF Goes, RequestLogged, CacheIsFresh
<1>5. CASE CommitSave(x)
  BY <1>5, CommitSaveGoes, CommitLogs DEF Goes, RequestLogged
<1>6. CASE \/ AnalyzeFails(x) \/ CommitHit(x) \/ CommitRejected(x) \/ Finish(x)
           \/ FinishFails(x) \/ DbError(x) \/ Crash(x)
  <2>1. req'[x].pc \in {"done", "dead"}
    BY <1>6, EndsGoes DEF Goes
  <2> QED  BY <2>1 DEF RequestLogged
<1> QED  BY <1>1, <1>2, <1>3, <1>4, <1>5, <1>6, OthersStay DEF Next, Progress

\* Every step serves from a cache only a fresh result with its evidence.
LEMMA AuthorityStep ==
  ASSUME TypeOK, LocalsInStep, LoggedSource, CacheAuthority, [Next]_vars
  PROVE  CacheAuthority'
<1> SUFFICES ASSUME NEW x \in Requests, req'[x].answer \in {"cached", "matched"}
             PROVE  /\ req'[x].served.clean /\ req'[x].served.ver = req'[x].ver
                    /\ Logged("analyze", req[x].served.src)'
  BY DEF CacheAuthority, Logged
<1>1. CASE req'[x] = req[x]
  BY <1>1, LogGrows DEF CacheAuthority
<1>2. CASE Submit(x)
  <2>1. PICK p \in Requests :
          /\ jobs[p] # NULL /\ jobs[p].data # NULL /\ CacheIsFresh(jobs[p].data, engine)
          /\ req'[x].served = jobs[p].data /\ req'[x].ver = engine
    BY <1>2, SubmitGoes
  <2>2. Logged("analyze", jobs[p].data.src)
    BY <2>1 DEF LoggedSource, JobLogged
  <2> QED  BY <2>1, <2>2, LogGrows DEF CacheIsFresh
<1>3. CASE CommitHit(x)
  <2>1. Goes(x, "done", req[x].job, NULL, NULL, "matched", req[x].plan.data)
    BY <1>3, EndsGoes
  <2>2. CacheIsFresh(req[x].plan.data, req[x].ver) /\ Logged("analyze", req[x].plan.data.src)
    BY <1>3 DEF CommitHit, LoggedSource, RequestLogged
  <2> QED  BY <2>1, <2>2, LogGrows DEF Goes, CacheIsFresh
<1>4. CASE \/ OpenJob(x) \/ Analyze(x) \/ AnalyzeFails(x) \/ Match(x) \/ CommitSave(x)
           \/ CommitRejected(x) \/ Finish(x) \/ FinishFails(x) \/ DbError(x) \/ Crash(x)
  <2>1. req'[x].answer \notin {"cached", "matched"}
    BY <1>4, OpenJobGoes, AnalyzeGoes, MatchGoes, CommitSaveGoes, EndsGoes DEF Goes
  <2> QED  BY <2>1
<1> QED  BY <1>1, <1>2, <1>3, <1>4, OthersStay DEF Next, Progress

\* Every step answers and flags only with the rows that evidence it.
LEMMA EvidenceStep ==
  ASSUME TypeOK, LocalsInStep, LoggedSource, EvidenceComplete, [Next]_vars
  PROVE  EvidenceComplete'
<1>1. ASSUME NEW x \in Requests
      PROVE  /\ req'[x].answer \in {"cached", "matched"} => Logged("dedup_hit", x)'
             /\ req'[x].answer \in {"matched", "analyzed", "failed"} => Logged("upload", x)'
             /\ req'[x].answer = "analyzed" => Logged("analyze", x)'
  <2>1. CASE req'[x] = req[x]
    BY <2>1, LogGrows DEF EvidenceComplete
  <2>2. CASE Submit(x)
    <3>1. CASE req'[x].answer = "cached"
      <4>1. PICK m : Row("dedup_hit", x, m) \in log'
        BY <2>2, <3>1, SubmitGoes
      <4> QED  BY <3>1, <4>1 DEF Logged, Row
    <3>2. CASE req'[x].answer # "cached"
      BY <2>2, <3>2, SubmitGoes
    <3> QED  BY <3>1, <3>2
  <2>3. CASE AnalyzeFails(x) \/ CommitHit(x)
    BY <2>3, EndsGoes, CommitLogs DEF Goes
  <2>4. CASE Finish(x) \/ FinishFails(x)
    <3>1. Logged("upload", x)' /\ Logged("analyze", x)'
      BY <2>4, LogGrows DEF Finish, FinishFails, LoggedSource, RequestLogged
    <3>2. req'[x].answer \in {"analyzed", "failed"}
      BY <2>4, EndsGoes DEF Goes
    <3> QED  BY <3>1, <3>2
  <2>5. CASE \/ OpenJob(x) \/ Analyze(x) \/ Match(x) \/ CommitSave(x)
             \/ CommitRejected(x) \/ DbError(x) \/ Crash(x)
    <3>1. req'[x].answer \in {"none", "error"}
      BY <2>5, OpenJobGoes, AnalyzeGoes, MatchGoes, CommitSaveGoes, EndsGoes DEF Goes
    <3> QED  BY <3>1
  <2> QED  BY <2>1, <2>2, <2>3, <2>4, <2>5, OthersStay DEF Next, Progress
<1>2. ASSUME NEW m \in Requests, merchants'[m] # NULL, merchants'[m].rev
      PROVE  Logged("revision_flagged", m)'
  <2>1. CASE merchants[m] # NULL /\ merchants'[m].rev = merchants[m].rev
    BY <1>2, <2>1, LogGrows DEF EvidenceComplete
  <2>2. ASSUME NEW r \in Requests, CommitSave(r), m = Saved(r),
               merchants'[m].rev = req[r].plan.rev
        PROVE  Logged("revision_flagged", m)'
    <3>1. req[r].plan.rev /\ req[r].plan.entity = NULL
      BY <1>2, <2>2 DEF CommitSave, LocalsInStep, LocalsOf
    <3> QED  BY <2>2, <3>1, CommitLogs DEF Saved
  <2> QED  BY <1>2, <2>1, <2>2, MerchantChange DEF SameMerchant
<1> QED  BY <1>1, <1>2 DEF EvidenceComplete, Logged

\* Data that is copied from job to job stays fresh and logged.
LEMMA SourcesLogged == Spec => []LoggedSource
<1>1. Init => LoggedSource
  BY DEF Init, LoggedSource, JobLogged, RequestLogged, IdleReq
<1>2. TypeOK /\ LocalsInStep /\ LoggedSource /\ [Next]_vars => LoggedSource'
  BY JobLoggedStep, RequestLoggedStep DEF LoggedSource
<1> QED  BY <1>1, <1>2, TypeCorrect, PTL DEF Spec

\* Both caches serve only clean results of the serving engine version, whose
\* extraction is in the audit log.
THEOREM CacheIsAuthority == Spec => []CacheAuthority
<1>1. Init => CacheAuthority
  BY DEF Init, CacheAuthority, IdleReq
<1>2. TypeOK /\ LocalsInStep /\ LoggedSource /\ CacheAuthority /\ [Next]_vars => CacheAuthority'
  BY AuthorityStep
<1> QED  BY <1>1, <1>2, TypeCorrect, SourcesLogged, PTL DEF Spec

\* No client has an answer, and no merchant a flag, without its audit rows.
THEOREM EvidenceIsComplete == Spec => []EvidenceComplete
<1>1. Init => EvidenceComplete
  BY DEF Init, EvidenceComplete, IdleReq
<1>2. /\ TypeOK /\ LocalsInStep /\ LoggedSource /\ EvidenceComplete /\ [Next]_vars
      => EvidenceComplete'
  BY EvidenceStep
<1> QED  BY <1>1, <1>2, TypeCorrect, SourcesLogged, PTL DEF Spec

-----------------------------------------------------------------------------
(* Statements *)

\* Likeness of files is reflexive, symmetric and transitive.
LEMMA LikeSame ==
  ASSUME NEW f, NEW u
  PROVE  Like(f, f, u)
  BY DEF Like

LEMMA LikeTurned ==
  ASSUME NEW f, NEW g, NEW u, Like(f, g, u)
  PROVE  Like(g, f, u)
  BY DEF Like

LEMMA LikeChain ==
  ASSUME NEW f, NEW g, NEW h, NEW u, Like(f, g, u), Like(g, h, u)
  PROVE  Like(f, h, u)
  BY DEF Like

\* A named extraction and a record of its number are of files of one number,
\* and of files alike if the record's period is the extraction's.
LEMMA NamedAlike ==
  ASSUME NEW r \in Requests, req[r].file \in Files, ReadFrom(req[r].file, req[r].data),
         NEW a, a.file \in Files, a.user = req[r].user, RecordRead(a),
         req[r].data.mid # NULL, a.mid = req[r].data.mid, a.date = StatementDate(r)
  PROVE  /\ Statement[a.file].mid = Statement[req[r].file].mid
         /\ a.date # NULL => Like(a.file, req[r].file, req[r].user)
<1>1. PICK x \in Readings[req[r].file] :
        /\ req[r].data.mid \in {x.mid, NULL} /\ req[r].data.date = x.date
  BY DEF ReadFrom
<1>2. PICK y \in Readings[a.file] :
        /\ a.mid \in {y.mid, NULL}
        /\ Careful(a.user) => a.date \in {y.date, Statement[a.file].date}
  BY DEF RecordRead
<1>3. /\ x.mid \in {Statement[req[r].file].mid, NULL} /\ x.date \in {Statement[req[r].file].date, NULL}
      /\ y.mid \in {Statement[a.file].mid, NULL} /\ y.date \in {Statement[a.file].date, NULL}
  BY ReadingsAssumption
<1>4. Statement[a.file].mid = Statement[req[r].file].mid
  BY <1>1, <1>2, <1>3
<1>5. ASSUME a.date # NULL, Careful(req[r].user)
      PROVE  Statement[a.file].date = Statement[req[r].file].date
  <2>1. a.date = Statement[a.file].date
    BY <1>2, <1>3, <1>5
  <2>2. req[r].typed \in {NULL, Statement[req[r].file].date}
    BY <1>5 DEF Careful
  <2>3. a.date \in {req[r].typed, x.date}
    BY <1>1 DEF StatementDate
  <2> QED  BY <1>3, <1>5, <2>1, <2>2, <2>3
<1> QED  BY <1>4, <1>5 DEF Like

-----------------------------------------------------------------------------
(* What a step does to the bytes and the data of a request *)

\* x goes on with the same bytes and form, and with data of its own or none.
Holds(x, data) ==
  req'[x].file = req[x].file /\ req'[x].typed = req[x].typed /\ req'[x].data = data

\* Opening a job, planning and saving leave a request its bytes and its data.
LEMMA GoesHolds ==
  ASSUME TypeOK, LocalsInStep, NEW x \in Requests,
         OpenJob(x) \/ Match(x) \/ CommitSave(x)
  PROVE  Holds(x, req[x].data)
<1>1. req[x] \in Req /\ LocalsOf(x)
  BY DEF TypeOK, LocalsInStep
<1>2. CASE OpenJob(x) /\ req[x].reused
  <2>1. req'[x] = [req[x] EXCEPT !.pc = "analyze"]
    BY <1>2 DEF OpenJob, TypeOK
  <2> QED  BY <1>1, <2>1 DEF Holds, Req
<1>3. CASE OpenJob(x) /\ ~req[x].reused
  <2> DEFINE n == [req[x] EXCEPT !.pc = "analyze", !.job = x]
  <2>1. req'[x] = n
    BY <1>3 DEF OpenJob, TypeOK
  <2>2. n.file = req[x].file /\ n.typed = req[x].typed /\ n.data = req[x].data
    BY <1>1, OpenedIsReq
  <2> HIDE DEF n
  <2> QED  BY <2>1, <2>2 DEF Holds
<1>4. CASE Match(x)
  <2> DEFINE p == PlanOf(x)
             n == [req[x] EXCEPT !.pc = "persist", !.plan = p]
  <2>1. req'[x] = n /\ p \in Plan
    BY <1>4, PlanIsTyped DEF Match, TypeOK
  <2> HIDE DEF p
  <2>2. n.file = req[x].file /\ n.typed = req[x].typed /\ n.data = req[x].data
    BY ONLY <1>1, <2>1, PlannedIsReq
  <2> HIDE DEF n
  <2> QED  BY <2>1, <2>2 DEF Holds
<1>5. CASE CommitSave(x)
  <2>1. req'[x] = [req[x] EXCEPT !.pc = "refresh"]
    BY <1>5 DEF CommitSave, TypeOK
  <2> QED  BY <1>1, <2>1 DEF Holds, Req
<1> QED  BY <1>2, <1>3, <1>4, <1>5

\* What an extraction leaves a request with was read from its bytes.
LEMMA AnalyzeHolds ==
  ASSUME TypeOK, LocalsInStep, NEW x \in Requests, Analyze(x)
  PROVE  \E d \in Data : Holds(x, d) /\ ReadFrom(req[x].file, d)
<1>1. req[x] \in Req /\ LocalsOf(x) /\ req[x].pc = "analyze"
  BY DEF TypeOK, LocalsInStep, Analyze
<1>2. PICK y \in Readings[req[x].file] :
        req' = [req EXCEPT ![x] = [@ EXCEPT !.pc = "match", !.data = Extracted(x, y)]]
  BY DEF Analyze
<1> DEFINE d == Extracted(x, y)
           n == [req[x] EXCEPT !.pc = "match", !.data = d]
<1>3. req'[x] = n
  BY <1>2 DEF TypeOK
<1>4. d \in Data /\ ReadFrom(req[x].file, d)
  BY <1>1, ExtractedIsData DEF ReadFrom, Extracted
<1> HIDE DEF d
<1>5. n.file = req[x].file /\ n.typed = req[x].typed /\ n.data = d
  BY ONLY <1>1, <1>4, AnalyzedIsReq
<1> HIDE DEF n
<1> QED  BY <1>3, <1>4, <1>5 DEF Holds

\* A request that ends keeps its bytes and drops its data.
LEMMA EndsHolds ==
  ASSUME TypeOK, NEW x \in Requests,
         \/ AnalyzeFails(x) \/ CommitHit(x) \/ CommitRejected(x) \/ Finish(x)
         \/ FinishFails(x) \/ DbError(x) \/ Crash(x)
  PROVE  Holds(x, NULL)
<1>1. ASSUME NEW a, NEW s, req' = [req EXCEPT ![x] = Answered(@, a, s)]
      PROVE  Holds(x, NULL)
  BY <1>1 DEF TypeOK, Answered, Holds
<1>2. ASSUME Crash(x)
      PROVE  Holds(x, NULL)
  <2>1. req'[x] = [Answered(req[x], "none", NULL) EXCEPT !.pc = "dead"]
    BY <1>2 DEF Crash, TypeOK
  <2> QED  BY <2>1 DEF Answered, Holds
<1> QED
  BY <1>1, <1>2 DEF AnalyzeFails, CommitHit, CommitRejected, Finish, FinishFails, DbError

\* A new request looks its own bytes up: what it takes over, or is answered
\* from, is a job of the same bytes.
LEMMA SubmitHolds ==
  ASSUME TypeOK, LocalsInStep, NEW x \in Requests, Submit(x)
  PROVE  /\ req'[x].file \in Files /\ req'[x].data = NULL /\ req'[x].plan = NULL
         /\ \/ /\ req'[x].job = NULL /\ req'[x].linked = NULL /\ req'[x].served = NULL
            \/ \E p \in Requests :
                 /\ jobs[p] # NULL /\ jobs[p].file = req'[x].file
                 /\ jobs[p].user = req'[x].user
                 /\ req'[x].job \in {p, NULL}
                 /\ req'[x].linked \in {jobs[p].merchant, NULL}
                 /\ req'[x].served \in {jobs[p].data, NULL}
<1>1. PICK u \in Users, f \in Files :
        \E t \in Typed[f] \cup {NULL} : DedupHit(x, u, f, t) \/ DedupMiss(x, u, f, t)
  BY DEF Submit
<1>t. PICK t \in Typed[f] \cup {NULL} : DedupHit(x, u, f, t) \/ DedupMiss(x, u, f, t)
  BY <1>1
<1> DEFINE p == PriorJob(u, f)
           S == {j \in Requests : /\ jobs[j] # NULL
                                  /\ jobs[j].file = f
                                  /\ jobs[j].user = u
                                  /\ jobs[j].status = "complete"}
<1>2. p # NULL => p \in Requests /\ jobs[p] # NULL /\ jobs[p].file = f /\ jobs[p].user = u
  <2>1. S \subseteq Requests /\ \A j \in S : jobs[j].born \in Nat
    BY DEF TypeOK, Job
  <2>2. Newest(S, jobs) \in S \cup {NULL}
    <3> HIDE DEF S
    <3> QED  BY <2>1, LookupInRows
  <2> QED  BY <2>2 DEF PriorJob
<1>3. CASE DedupHit(x, u, f, t)
  <2>1. p # NULL /\ req'[x] = Answered(Received(u, f, t), "cached", jobs[p].data)
    BY <1>3 DEF DedupHit, TypeOK
  <2> HIDE DEF p
  <2>2. /\ req'[x].file = f /\ req'[x].user = u /\ req'[x].data = NULL /\ req'[x].plan = NULL
        /\ req'[x].job = NULL /\ req'[x].linked = NULL /\ req'[x].served = jobs[p].data
    BY <2>1 DEF Answered, Received
  <2> QED  BY <1>2, <2>1, <2>2
<1>4. CASE DedupMiss(x, u, f, t) /\ p = NULL
  <2>1. req'[x] = Received(u, f, t)
    BY <1>4 DEF DedupMiss, TypeOK
  <2> QED  BY <2>1 DEF Received
<1>5. CASE DedupMiss(x, u, f, t) /\ p # NULL
  <2>1. req'[x] = [Received(u, f, t) EXCEPT !.job = p, !.reused = TRUE,
                                          !.linked = jobs[p].merchant]
    BY <1>5 DEF DedupMiss, TypeOK
  <2> HIDE DEF p
  <2>2. /\ req'[x].file = f /\ req'[x].user = u /\ req'[x].data = NULL /\ req'[x].plan = NULL
        /\ req'[x].job = p /\ req'[x].linked = jobs[p].merchant /\ req'[x].served = NULL
    BY <2>1 DEF Received
  <2> QED  BY <1>2, <1>5, <2>2
<1> QED  BY <1>t, <1>3, <1>4, <1>5

\* Once a request is received its bytes and its form are fixed, and once it may
\* have saved a merchant it stays so.
LEMMA FileKept ==
  ASSUME TypeOK, LocalsInStep, [Next]_vars, NEW x \in Requests, req[x].user # NULL
  PROVE  /\ req'[x].user = req[x].user /\ req'[x].file = req[x].file
         /\ req'[x].typed = req[x].typed
         /\ Past(x) => Past(x)'
<1>1. req[x].pc # "idle"
  BY DEF LocalsInStep, LocalsOf, IdleReq
<1>2. CASE Submit(x)
  BY <1>2, SubmitGoes
<1>3. CASE Progress(x) \/ DbError(x) \/ Crash(x)
  <2>1. req'[x].file = req[x].file /\ req'[x].typed = req[x].typed
    BY <1>3, GoesHolds, AnalyzeHolds, EndsHolds DEF Progress, Holds
  <2>2. Past(x) => Past(x)'
    <3>1. CASE OpenJob(x) \/ Analyze(x) \/ Match(x)
      BY <3>1 DEF OpenJob, Analyze, Match, Past
    <3>2. CASE CommitSave(x)
      BY <3>2, CommitSaveGoes DEF Goes, Past
    <3>3. CASE \/ AnalyzeFails(x) \/ CommitHit(x) \/ CommitRejected(x) \/ Finish(x)
               \/ FinishFails(x) \/ DbError(x) \/ Crash(x)
      BY <3>3, EndsGoes DEF Goes, Past
    <3> QED  BY <1>3, <3>1, <3>2, <3>3 DEF Progress
  <2> QED  BY <2>1, <2>2, OwnerKept
<1>4. CASE ~(Submit(x) \/ Progress(x) \/ DbError(x) \/ Crash(x))
  <2>1. req'[x] = req[x]
    BY <1>4, OthersStay DEF Next
  <2> QED  BY <2>1 DEF Past
<1> QED  BY <1>2, <1>3, <1>4


-----------------------------------------------------------------------------
(* Every step keeps rows and requests with files alike *)

\* A request that has an account has bytes, and keeps both.
LEMMA FileKnown ==
  ASSUME TypeOK, LocalsInStep, [Next]_vars, NEW x \in Requests, req[x].user # NULL
  PROVE  /\ req[x].user \in Users /\ req[x].file \in Files
         /\ req'[x].user = req[x].user /\ req'[x].file = req[x].file
         /\ Past(x) => Past(x)'
<1>1. req[x].user \in Users /\ req[x].file \in Files
  BY DEF LocalsInStep, LocalsOf, IdleReq
<1> QED  BY <1>1, FileKept

\* Whoever has typed no wrong period after a step had typed none before it.
LEMMA CarefulKept ==
  ASSUME TypeOK, LocalsInStep, [Next]_vars, NEW u \in Users, Careful(u)'
  PROVE  Careful(u)
<1> SUFFICES ASSUME NEW r \in Requests, req[r].user = u
             PROVE  req[r].typed \in {NULL, Statement[req[r].file].date}
  BY DEF Careful
<1>1. /\ req'[r].user = u /\ req'[r].file = req[r].file
      /\ req'[r].typed = req[r].typed
  BY FileKept, NullAssumption
<1>2. req'[r].typed \in {NULL, Statement[req'[r].file].date}
  BY <1>1 DEF Careful
<1> QED  BY <1>1, <1>2

\* So files stay alike.
LEMMA LikeKept ==
  ASSUME TypeOK, LocalsInStep, [Next]_vars, NEW u \in Users, NEW f, NEW g, Like(f, g, u)
  PROVE  Like(f, g, u)'
  BY CarefulKept DEF Like

\* What a job refers to has bytes like the job's, and keeps them.
LEMMA JobFiles ==
  ASSUME TypeOK, LocalsInStep, OneOwner, OneStatement, [Next]_vars,
         NEW j \in Requests, jobs[j] # NULL
  PROVE  /\ jobs[j].user \in Users /\ jobs[j].file \in Files
         /\ req[j].user = jobs[j].user
         /\ req[j].file = jobs[j].file /\ req'[j].file = jobs[j].file
         /\ jobs[j].merchant # NULL =>
              LET m == jobs[j].merchant IN
                /\ m \in Requests /\ req'[m].file = req[m].file
                /\ Like(req[m].file, jobs[j].file, jobs[j].user)
         /\ jobs[j].data # NULL =>
              LET x == jobs[j].data.src IN
                /\ x \in Requests /\ req'[x].file = req[x].file
                /\ Like(req[x].file, jobs[j].file, jobs[j].user)
<1>1. jobs[j] \in Job /\ JobOwned(j) /\ JobAlike(j)
  BY DEF TypeOK, OneOwner, OneStatement
<1>2. /\ jobs[j].user \in Users /\ jobs[j].file \in Files
      /\ jobs[j].merchant # NULL => jobs[j].merchant \in Requests
      /\ jobs[j].data # NULL => jobs[j].data.src \in Requests
  BY <1>1 DEF Job, Data
<1>3. jobs[j].user # NULL
  BY <1>2, NullAssumption
<1>4. req[j].file = jobs[j].file /\ req'[j].file = jobs[j].file /\ req[j].user = jobs[j].user
  BY <1>1, <1>3, FileKnown DEF JobOwned, JobAlike
<1>5. ASSUME jobs[j].merchant # NULL
      PROVE  /\ req'[jobs[j].merchant].file = req[jobs[j].merchant].file
             /\ Like(req[jobs[j].merchant].file, jobs[j].file, jobs[j].user)
  BY <1>1, <1>2, <1>3, <1>5, FileKnown DEF JobOwned, JobAlike
<1>6. ASSUME jobs[j].data # NULL
      PROVE  /\ req'[jobs[j].data.src].file = req[jobs[j].data.src].file
             /\ Like(req[jobs[j].data.src].file, jobs[j].file, jobs[j].user)
  BY <1>1, <1>2, <1>3, <1>6, FileKnown DEF JobOwned, JobAlike
<1> QED  BY <1>2, <1>4, <1>5, <1>6

\* What a request refers to has bytes like the request's, and keeps them.
LEMMA RequestFiles ==
  ASSUME TypeOK, LocalsInStep, OneOwner, OneStatement, [Next]_vars,
         NEW r \in Requests, req[r].user # NULL
  PROVE  LET q == req[r] IN
         /\ q.user \in Users /\ q.file \in Files /\ req'[r].file = q.file /\ req'[r].user = q.user
         /\ q.job # NULL => /\ q.job \in Requests /\ req[q.job].file = q.file
                            /\ req[q.job].user = q.user /\ req'[q.job].file = q.file
         /\ q.linked # NULL => /\ q.linked \in Requests
                               /\ req'[q.linked].file = req[q.linked].file
                               /\ Like(req[q.linked].file, q.file, q.user)
         /\ q.served # NULL => LET x == q.served.src IN
                               /\ x \in Requests /\ req'[x].file = req[x].file
                               /\ Like(req[x].file, q.file, q.user)
<1>1. req[r] \in Req /\ RequestOwned(r) /\ RequestAlike(r)
  BY DEF TypeOK, OneOwner, OneStatement
<1>2. /\ req[r].job # NULL => req[r].job \in Requests
      /\ req[r].linked # NULL => req[r].linked \in Requests
      /\ req[r].served # NULL => req[r].served.src \in Requests
  BY <1>1 DEF Req, Data
<1>3. /\ req[r].user \in Users /\ req[r].file \in Files
      /\ req'[r].file = req[r].file /\ req'[r].user = req[r].user
  BY FileKnown
<1>4. ASSUME NEW y \in Requests, req[y].user = req[r].user
      PROVE  req[y].file \in Files /\ req'[y].file = req[y].file
  BY <1>4, FileKnown
<1> QED  BY <1>1, <1>2, <1>3, <1>4 DEF RequestOwned, RequestAlike

\* So has what its plan refers to.
LEMMA PlanFiles ==
  ASSUME TypeOK, LocalsInStep, OneOwner, OneStatement, [Next]_vars,
         NEW r \in Requests, req[r].user # NULL, req[r].plan # NULL
  PROVE  LET q == req[r] p == req[r].plan IN
         /\ p.entity # NULL =>
              /\ p.entity \in Requests
              /\ req'[p.entity].file = req[p.entity].file
              /\ Like(req[p.entity].file, q.file, q.user)
         /\ p.data # NULL => LET x == p.data.src IN
              /\ x \in Requests /\ req'[x].file = req[x].file
              /\ Like(req[x].file, q.file, q.user)
<1>1. req[r].plan \in Plan /\ RequestOwned(r) /\ RequestAlike(r)
  BY DEF TypeOK, Req, OneOwner, OneStatement
<1>2. /\ req[r].plan.entity # NULL => req[r].plan.entity \in Requests
      /\ req[r].plan.data # NULL => req[r].plan.data.src \in Requests
  BY <1>1 DEF Plan, Data
<1>3. ASSUME NEW y \in Requests, req[y].user = req[r].user
      PROVE  req[y].file \in Files /\ req'[y].file = req[y].file
  BY <1>3, FileKnown
<1> QED  BY <1>1, <1>2, <1>3 DEF RequestOwned, RequestAlike

\* Every step leaves every job with files alike.
LEMMA JobAlikeStep ==
  ASSUME TypeOK, LocalsInStep, OneOwner, OneStatement, [Next]_vars, NEW j \in Requests
  PROVE  JobAlike(j)'
<1> SUFFICES ASSUME jobs'[j] # NULL
             PROVE  JobAlike(j)'
  BY DEF JobAlike
<1>1. CASE SameJob(j)
  BY <1>1, JobFiles, LikeKept DEF SameJob, JobAlike
<1>2. CASE /\ OpenJob(j) /\ jobs'[j].file = req[j].file
           /\ jobs'[j].merchant = NULL /\ jobs'[j].data = NULL
  BY <1>2, GoesHolds DEF Holds, JobAlike
<1>3. ASSUME NEW r \in Requests, NEW d, Fills(r, j, req[r].plan.entity, d),
             req[r].pc = "persist",
             d.src \in Requests, req'[d.src].file = req[d.src].file,
             Like(req[d.src].file, req[r].file, req[r].user)
      PROVE  JobAlike(j)'
  <2>1. req[r].user # NULL /\ req[r].plan # NULL /\ req[r].job = j
    BY <1>3, NullAssumption DEF Fills, LocalsInStep, LocalsOf
  <2>2. /\ jobs[j] # NULL /\ jobs[j].user \in Users /\ jobs[j].user = req[j].user
        /\ jobs[j].file = req[j].file /\ req'[j].file = jobs[j].file
    BY <1>3, JobFiles DEF Fills
  <2>3. req[j].file = req[r].file /\ req[j].user = req[r].user
    BY <2>1, RequestFiles, NullAssumption
  <2>4. req[r].plan.entity # NULL =>
          /\ req'[req[r].plan.entity].file = req[req[r].plan.entity].file
          /\ Like(req[req[r].plan.entity].file, jobs[j].file, jobs[j].user)
    BY <2>1, <2>2, <2>3, PlanFiles
  <2>5. Like(req[d.src].file, jobs[j].file, jobs[j].user)
    BY <1>3, <2>2, <2>3
  <2> QED  BY <1>3, <2>2, <2>4, <2>5, LikeKept DEF Fills, JobAlike
<1>4. ASSUME NEW r \in Requests, CommitHit(r), Fills(r, j, req[r].plan.entity, req[r].plan.data)
      PROVE  JobAlike(j)'
  <2>1. req[r].pc = "persist" /\ req[r].user # NULL /\ req[r].plan # NULL /\ req[r].plan.data # NULL
    BY <1>4, NullAssumption DEF CommitHit, LocalsInStep, LocalsOf
  <2> QED  BY <1>3, <1>4, <2>1, PlanFiles
<1>5. ASSUME NEW r \in Requests, CommitSave(r), Fills(r, j, req[r].plan.entity, req[r].data)
      PROVE  JobAlike(j)'
  <2>1. /\ req[r].pc = "persist" /\ req[r].user # NULL
        /\ req[r].data # NULL /\ req[r].data.src = r
    BY <1>5, NullAssumption DEF CommitSave, LocalsInStep, LocalsOf
  <2> QED  BY <1>3, <1>5, <2>1, LikeSame, FileKnown
<1> QED  BY <1>1, <1>2, <1>4, <1>5, JobChange

\* A group stays one.
LEMMA GroupsKept ==
  ASSUME TypeOK, LocalsInStep, [Next]_vars, NEW r \in Requests, req[r].user # NULL,
         NEW g \in Requests, NEW d, Groups(r, g, d)
  PROVE  Groups(r, g, d)'
<1>1. /\ g # r /\ Past(g) /\ req[g].user = req[r].user
      /\ Statement[req[g].file].mid = Statement[req[r].file].mid
      /\ d # NULL => Like(req[g].file, req[r].file, req[r].user)
  BY DEF Groups
<1>2. /\ req'[g].user = req[g].user /\ req'[g].file = req[g].file /\ Past(g)'
      /\ req'[r].user = req[r].user /\ req'[r].file = req[r].file /\ req[r].user \in Users
  BY <1>1, FileKnown
<1>3. d # NULL => Like(req[g].file, req[r].file, req[r].user)'
  BY <1>1, <1>2, LikeKept
<1> QED  BY <1>1, <1>2, <1>3 DEF Groups

\* What was saved of a reading stays that of a reading.
LEMMA RecordKept ==
  ASSUME TypeOK, LocalsInStep, [Next]_vars, NEW a, NEW b, a.user \in Users, RecordRead(a),
         b.file = a.file, b.user = a.user, b.mid = a.mid, b.date = a.date,
         Edits = {} => b.figure = a.figure
  PROVE  RecordRead(b)'
  BY CarefulKept DEF RecordRead

\* What is saved is of a reading.
LEMMA SavedIsRead ==
  ASSUME TypeOK, LocalsInStep, [Next]_vars, NEW r \in Requests, req[r].user \in Users,
         ReadFrom(req[r].file, req[r].data), req[r].file \in Files,
         NEW b, b.file = req[r].file, b.user = req[r].user, b.mid = req[r].data.mid,
         b.date = StatementDate(r), b.figure = req[r].data.figure
  PROVE  RecordRead(b)'
<1>1. PICK x \in Readings[req[r].file] :
        /\ b.mid = (IF x.results = 1 THEN x.mid ELSE NULL)
        /\ req[r].data.date = x.date /\ b.figure = x.figure
  BY DEF ReadFrom
<1>2. Careful(b.user) => b.date \in {x.date, Statement[b.file].date}
  BY <1>1 DEF Careful, StatementDate
<1>3. Careful(b.user)' => Careful(b.user)
  BY CarefulKept
<1> QED  BY <1>1, <1>2, <1>3 DEF RecordRead

\* Every step leaves every merchant with a file and a group of its statement.
LEMMA MerchantAlikeStep ==
  ASSUME TypeOK, LocalsInStep, OneOwner, OneStatement, [Next]_vars, NEW m \in Requests
  PROVE  MerchantAlike(m)'
<1>1. CASE merchants'[m] = NULL
  BY <1>1 DEF MerchantAlike
<1>2. CASE merchants[m] # NULL /\ SameMerchant(m)
  <2> DEFINE a == merchants[m]
  <2>1. MerchantAlike(m) /\ MerchantOwned(m) /\ a \in Merchant
    BY <1>2 DEF OneStatement, OneOwner, TypeOK
  <2>2. req[m].user # NULL /\ a.user \in Users /\ a.user = req[m].user
    BY <1>2, <2>1, NullAssumption DEF MerchantOwned, Merchant
  <2>3. req'[m].file = req[m].file /\ Past(m)'
    BY <1>2, <2>1, <2>2, FileKnown DEF MerchantAlike
  <2>4. PICK b \in {merchants'[m]}, f \in {req'[m].file} : TRUE
    OBVIOUS
  <2>5. /\ merchants'[m] = b /\ req'[m].file = f
        /\ b.file = a.file /\ b.user = a.user /\ b.mid = a.mid /\ b.date = a.date
        /\ b.group = a.group /\ b.rev = a.rev /\ (Edits = {} => b.figure = a.figure)
    BY <1>2, <2>4 DEF SameMerchant
  <2>6. RecordRead(b)'
    BY <1>2, <2>1, <2>2, <2>5, RecordKept DEF MerchantAlike
  <2>7. Like(f, b.file, b.user)'
    <3>1. Like(f, b.file, b.user)
      BY <1>2, <2>1, <2>3, <2>5 DEF MerchantAlike
    <3> QED  BY <2>2, <2>5, <3>1, LikeKept
  <2>8. ASSUME b.group # NULL
        PROVE  Groups(m, b.group, b.date)'
    <3>1. b.group \in Requests
      BY <2>1, <2>5, <2>8 DEF Merchant
    <3>2. Groups(m, b.group, b.date)
      BY <1>2, <2>1, <2>5, <2>8 DEF MerchantAlike
    <3> QED  BY <2>2, <3>1, <3>2, GroupsKept
  <2>9. b.rev => b.group # NULL
    BY <1>2, <2>1, <2>5 DEF MerchantAlike
  <2> HIDE DEF a
  <2> QED  BY <2>3, <2>5, <2>6, <2>7, <2>8, <2>9 DEF MerchantAlike
<1>3. ASSUME NEW r \in Requests, CommitSave(r), m = Saved(r), merchants'[m] = SavedRow(r)
      PROVE  MerchantAlike(m)'
  <2> DEFINE d == req[r].data
             p == req[r].plan
  <2>1. /\ req[r].pc = "persist" /\ req[r].user # NULL /\ d # NULL
        /\ p # NULL /\ p \in Plan
    BY <1>3, NullAssumption DEF CommitSave, LocalsInStep, LocalsOf, InFlight, TypeOK, Req
  <2>2. /\ RequestAlike(r) /\ req[r].user \in Users /\ req[r].file \in Files
        /\ req'[r].file = req[r].file
    BY <2>1, FileKnown DEF OneStatement
  <2>3. PICK b \in {SavedRow(r)} : TRUE
    OBVIOUS
  <2>4. /\ merchants'[m] = b
        /\ b.file = req[r].file /\ b.user = req[r].user /\ b.mid = d.mid
        /\ b.date = StatementDate(r) /\ b.figure = d.figure
        /\ b.group = p.group /\ b.rev = p.rev
    BY <1>3, <2>3 DEF SavedRow
  <2>5. PICK f \in {req'[m].file} : TRUE
    OBVIOUS
  <2>6. Past(m)' /\ Like(f, b.file, b.user)
    <3>1. CASE p.entity = NULL
      <4>1. m = r
        BY <1>3, <3>1 DEF Saved
      <4>2. Past(r)'
        BY <1>3, CommitSaveGoes DEF Goes, Past
      <4> QED  BY <2>2, <2>4, <2>5, <4>1, <4>2, LikeSame
    <3>2. CASE p.entity # NULL
      <4>1. m = p.entity /\ merchants[m] # NULL
        BY <1>3, <3>2 DEF Saved, CommitSave
      <4>2. Past(m) /\ MerchantOwned(m) /\ merchants[m] \in Merchant
        BY <4>1 DEF OneStatement, MerchantAlike, OneOwner, TypeOK
      <4>3. req[m].user # NULL
        BY <4>1, <4>2, NullAssumption DEF MerchantOwned, Merchant
      <4>4. Past(m)' /\ req'[m].file = req[m].file
        BY <4>2, <4>3, FileKnown
      <4>5. Like(req[m].file, req[r].file, req[r].user)
        BY <2>1, <3>2, <4>1, PlanFiles
      <4> QED  BY <2>4, <2>5, <4>4, <4>5
    <3> QED  BY <3>1, <3>2
  <2>7. Like(f, b.file, b.user)'
    BY <2>2, <2>4, <2>6, LikeKept
  <2>8. RecordRead(b)'
    BY <2>1, <2>2, <2>4, SavedIsRead DEF RequestAlike
  <2>9. b.rev => b.group # NULL
    BY <2>1, <2>2, <2>4 DEF RequestAlike
  <2>10. ASSUME b.group # NULL
         PROVE  Groups(m, b.group, b.date)'
    <3>1. b.group \in Requests
      BY <2>1, <2>4, <2>10 DEF Plan
    <3>2. Groups(r, b.group, b.date) /\ m = r
      BY <1>3, <2>1, <2>2, <2>4, <2>10 DEF RequestAlike, Saved
    <3> QED  BY <2>1, <3>1, <3>2, GroupsKept
  <2> HIDE DEF d, p
  <2> QED  BY <2>4, <2>5, <2>6, <2>7, <2>8, <2>9, <2>10 DEF MerchantAlike
<1> QED  BY <1>1, <1>2, <1>3, MerchantChange


-----------------------------------------------------------------------------
(* What a plan refers to *)

\* The matched entity has the merchant number and the period of the request.
LEMMA EntityIsNamed ==
  ASSUME TypeOK, NEW r \in Requests, EntityMatch(r) # NULL
  PROVE  /\ req[r].data.mid # NULL /\ StatementDate(r) # NULL
         /\ merchants[EntityMatch(r)].mid = req[r].data.mid
         /\ merchants[EntityMatch(r)].date = StatementDate(r)
<1> DEFINE S == {m \in SameStatement(r) :
                   WithinPct(req[r].data.figure, merchants[m].figure)}
<1>1. /\ req[r].data.mid # NULL /\ StatementDate(r) # NULL
      /\ EntityMatch(r) = Newest(S, merchants)
  BY DEF EntityMatch, Matchable
<1>2. /\ S \subseteq Requests
      /\ \A m \in S : /\ merchants[m].born \in Nat
                      /\ merchants[m].mid = req[r].data.mid
                      /\ merchants[m].date = StatementDate(r)
  BY SameStatementRows DEF SameStatement
<1>3. Newest(S, merchants) \in S \cup {NULL}
  <2> HIDE DEF S
  <2> QED  BY <1>2, LookupInRows
<1> QED  BY <1>1, <1>2, <1>3

\* A revision is grouped with the original record of its account, number and
\* period, or with that one's group.
LEMMA PlanGroups ==
  ASSUME TypeOK, NEW r \in Requests
  PROVE  LET p == PlanOf(r) d == req[r].data IN
         /\ p.rev => p.group # NULL
         /\ p.group # NULL =>
              /\ p.entity = NULL /\ d.mid # NULL
              /\ \E o \in Requests :
                   /\ merchants[o] # NULL /\ merchants[o].user = req[r].user
                   /\ merchants[o].mid = d.mid /\ merchants[o].date = StatementDate(r)
                   /\ \/ p.group = o
                      \/ p.group = merchants[o].group /\ merchants[o].group # NULL
<1> DEFINE d    == req[r].data
           e    == EntityMatch(r)
           keep == IF e # NULL THEN e ELSE req[r].linked
           S    == SameStatement(r)
           orig == IF keep = NULL /\ d.mid # NULL THEN Oldest(S, merchants) ELSE NULL
           rev  == orig # NULL /\ merchants[orig].file # req[r].file
           grp  == CASE ~rev -> NULL
                     [] rev /\ merchants[orig].group = NULL -> orig
                     [] OTHER -> merchants[orig].group
           hit  == e # NULL /\ CacheIsFresh(EntityData(e), req[r].ver)
           kept == IF keep # NULL /\ merchants[keep] # NULL THEN keep ELSE NULL
<1>1. orig # NULL => /\ orig \in Requests /\ keep = NULL /\ d.mid # NULL
                     /\ merchants[orig] # NULL /\ merchants[orig].user = req[r].user
                     /\ merchants[orig].mid = d.mid /\ merchants[orig].date = StatementDate(r)
  <2>1. Oldest(S, merchants) \in S \cup {NULL}
    <3>1. S \subseteq Requests /\ \A m \in S : merchants[m].born \in Nat
      BY SameStatementRows
    <3> HIDE DEF S
    <3> QED  BY <3>1, LookupInRows
  <2> QED  BY <2>1 DEF SameStatement
<1>2. keep = NULL => kept = NULL
  OBVIOUS
<1>3. PlanOf(r) = IF hit
                  THEN [kind |-> "hit", entity |-> e, data |-> EntityData(e),
                        group |-> NULL, rev |-> FALSE]
                  ELSE [kind |-> "save", entity |-> kept, data |-> NULL,
                        group |-> grp, rev |-> rev]
  BY DEF PlanOf
<1> HIDE DEF kept, orig, keep, hit, e, d
<1>4. /\ rev => grp # NULL
      /\ grp # NULL => /\ orig # NULL
                       /\ \/ grp = orig
                          \/ grp = merchants[orig].group /\ merchants[orig].group # NULL
  OBVIOUS
<1> HIDE DEF rev, grp
<1>5. CASE hit
  BY <1>3, <1>5
<1>6. CASE ~hit
  <2>1. PlanOf(r).entity = kept /\ PlanOf(r).group = grp /\ PlanOf(r).rev = rev
    BY <1>3, <1>6
  <2> QED  BY <1>1, <1>2, <1>4, <2>1 DEF d
<1> QED  BY <1>5, <1>6

\* A plan refers to rows of files like the request's, and groups it with
\* records of other requests of its statement.
LEMMA PlanIsAlike ==
  ASSUME TypeOK, LocalsInStep, OneOwner, OneStatement, [Next]_vars,
         NEW r \in Requests, req[r].pc = "match"
  PROVE  LET q == req[r] p == PlanOf(r) IN
         /\ p.entity # NULL => Like(req[p.entity].file, q.file, q.user) /\ p.group = NULL
         /\ p.data # NULL   => Like(req[p.data.src].file, q.file, q.user)
         /\ p.rev => p.group # NULL
         /\ p.group # NULL  => Groups(r, p.group, StatementDate(r))
<1> DEFINE q == req[r]
           p == PlanOf(r)
           e == EntityMatch(r)
<1>1. /\ RequestAlike(r) /\ q.user # NULL /\ q.user \in Users /\ q.file \in Files
      /\ q.data # NULL
  BY NullAssumption DEF OneStatement, LocalsInStep, LocalsOf
<1>2. ReadFrom(q.file, q.data)
  BY <1>1 DEF RequestAlike
<1>3. \* a merchant of the account: its row was read from a file like its request's
      ASSUME NEW m \in Requests, merchants[m] # NULL, merchants[m].user = q.user
      PROVE  /\ MerchantAlike(m) /\ RecordRead(merchants[m])
             /\ Like(req[m].file, merchants[m].file, q.user)
             /\ req[m].user = q.user /\ merchants[m].file \in Files
  <2>1. MerchantAlike(m) /\ MerchantOwned(m) /\ merchants[m] \in Merchant
    BY <1>3 DEF OneStatement, OneOwner, TypeOK
  <2> QED  BY <1>1, <1>3, <2>1 DEF MerchantOwned, MerchantAlike, Merchant
<1>4. ASSUME e # NULL
      PROVE  e \in Requests /\ Like(req[e].file, q.file, q.user)
  <2>1. /\ e \in Requests /\ merchants[e] # NULL /\ merchants[e].user = q.user
        /\ q.data.mid # NULL /\ StatementDate(r) # NULL
        /\ merchants[e].mid = q.data.mid /\ merchants[e].date = StatementDate(r)
    BY <1>4, EntityMatchIsOwn, EntityIsNamed
  <2> HIDE DEF e
  <2>2. Like(req[e].file, merchants[e].file, q.user)
    BY <1>3, <2>1
  <2>3. Like(merchants[e].file, q.file, q.user)
    BY <1>1, <1>2, <1>3, <2>1, NamedAlike
  <2> QED  BY <2>1, <2>2, <2>3, LikeChain
<1>5. p.entity # NULL => Like(req[p.entity].file, q.file, q.user)
  <2>1. p.entity \in {e, q.linked, NULL}
    BY PlanIsTyped DEF Plan
  <2> HIDE DEF p, e
  <2> QED  BY <1>1, <1>4, <2>1 DEF RequestAlike
<1>6. ASSUME p.data # NULL
      PROVE  Like(req[p.data.src].file, q.file, q.user)
  <2>1. e # NULL /\ EntityData(e) = p.data
    BY <1>6, PlanIsTyped DEF Plan
  <2>2. /\ e \in Requests /\ Like(req[e].file, q.file, q.user)
        /\ merchants[e] # NULL /\ merchants[e].user = q.user
    BY <1>4, <2>1, EntityMatchIsOwn
  <2>3. PICK k \in Requests : jobs[k] # NULL /\ jobs[k].merchant = e /\ jobs[k].data = p.data
    BY <1>6, <2>1, <2>2, EntityDataIsOfJob
  <2> HIDE DEF p, e
  <2> DEFINE f == req[p.data.src].file
  <2>4. jobs[k].user = q.user
    <3>1. JobOwned(k) /\ req[e].user = q.user
      BY <1>3, <2>2 DEF OneOwner
    <3> QED  BY <2>1, <2>3, <3>1 DEF JobOwned
  <2>5. Like(f, jobs[k].file, q.user) /\ Like(req[e].file, jobs[k].file, q.user)
    BY <1>6, <2>1, <2>3, <2>4, JobFiles
  <2>6. Like(jobs[k].file, q.file, q.user)
    BY <2>2, <2>5, LikeTurned, LikeChain
  <2> QED  BY <2>5, <2>6, LikeChain
<1>7. ASSUME p.group # NULL
      PROVE  Groups(r, p.group, StatementDate(r))
  <2>1. PICK o \in Requests :
          /\ merchants[o] # NULL /\ merchants[o].user = q.user /\ q.data.mid # NULL
          /\ merchants[o].mid = q.data.mid /\ merchants[o].date = StatementDate(r)
          /\ \/ p.group = o
             \/ p.group = merchants[o].group /\ merchants[o].group # NULL
    BY <1>7, PlanGroups
  <2> HIDE DEF p
  <2>2. /\ MerchantAlike(o) /\ req[o].user = q.user
        /\ Like(req[o].file, merchants[o].file, q.user)
    BY <1>3, <2>1
  <2>3. ~Past(r)
    BY DEF Past
  <2>4. /\ Statement[merchants[o].file].mid = Statement[q.file].mid
        /\ StatementDate(r) # NULL => Like(merchants[o].file, q.file, q.user)
    BY <1>1, <1>2, <1>3, <2>1, NamedAlike
  <2>5. /\ Statement[req[o].file].mid = Statement[q.file].mid
        /\ StatementDate(r) # NULL => Like(req[o].file, q.file, q.user)
    BY <2>2, <2>4, LikeChain DEF Like
  <2>6. CASE p.group = o
    BY <2>1, <2>2, <2>3, <2>5, <2>6 DEF MerchantAlike, Groups
  <2>7. CASE p.group = merchants[o].group /\ merchants[o].group # NULL
    <3>1. Groups(o, p.group, StatementDate(r))
      BY <2>1, <2>2, <2>7 DEF MerchantAlike
    <3> QED  BY <2>2, <2>3, <2>5, <3>1, LikeChain DEF Groups
  <2> QED  BY <2>1, <2>6, <2>7
<1>8. (p.rev => p.group # NULL) /\ (p.entity # NULL => p.group = NULL)
  BY PlanGroups
<1> QED  BY <1>5, <1>6, <1>7, <1>8

\* Every step leaves every request with what was read from bytes like its own.
LEMMA RequestAlikeStep ==
  ASSUME TypeOK, LocalsInStep, OneOwner, OneStatement, [Next]_vars, NEW x \in Requests
  PROVE  RequestAlike(x)'
<1>0. RequestAlike(x) /\ RequestOwned(x) /\ LocalsOf(x) /\ req[x] \in Req
  BY DEF OneStatement, OneOwner, LocalsInStep, TypeOK
<1>1. \* whatever x holds of its account, of files like its own, stays so
      ASSUME req[x].user # NULL,
             NEW job \in Requests \cup {NULL}, NEW linked \in Requests \cup {NULL},
             NEW data, NEW plan, NEW served, NEW date,
             req'[x].job = job, req'[x].linked = linked, req'[x].data = data,
             req'[x].plan = plan, req'[x].served = served,
             job # NULL => req'[job].file = req[x].file,
             linked # NULL => /\ req'[linked].file = req[linked].file
                              /\ Like(req[linked].file, req[x].file, req[x].user),
             data # NULL => ReadFrom(req[x].file, data),
             plan # NULL =>
               /\ plan \in Plan /\ StatementDate(x)' = date
               /\ plan.entity # NULL => /\ req'[plan.entity].file = req[plan.entity].file
                                        /\ Like(req[plan.entity].file, req[x].file, req[x].user)
                                        /\ plan.group = NULL
               /\ plan.data # NULL => /\ req'[plan.data.src].file = req[plan.data.src].file
                                      /\ Like(req[plan.data.src].file, req[x].file, req[x].user)
               /\ plan.rev => plan.group # NULL
               /\ plan.group # NULL => Groups(x, plan.group, date),
             served # NULL => /\ req'[served.src].file = req[served.src].file
                              /\ Like(req[served.src].file, req[x].file, req[x].user)
      PROVE  RequestAlike(x)'
  <2>1. /\ req'[x].file = req[x].file /\ req'[x].user = req[x].user
        /\ req[x].user \in Users
    BY <1>1, FileKnown
  <2>2. ASSUME plan # NULL, plan.group # NULL
        PROVE  Groups(x, plan.group, date)'
    <3>1. plan.group \in Requests
      BY <1>1, <2>2 DEF Plan
    <3> QED  BY <1>1, <2>2, <3>1, GroupsKept
  <2>3. data # NULL => ReadFrom(req'[x].file, data)
    BY <1>1, <2>1
  <2>4. \A f, g, u : f = req[x].file /\ u = req[x].user /\ Like(g, f, u) => Like(g, f, u)'
    BY <2>1, LikeKept
  <2> QED  BY <1>1, <2>1, <2>2, <2>3, <2>4 DEF RequestAlike, ReadFrom
<1>2. \* what x holds is of its account, of files like its own
      ASSUME req[x].user # NULL
      PROVE  LET q == req[x] IN
             /\ q.job \in Requests \cup {NULL} /\ q.linked \in Requests \cup {NULL}
             /\ q.job # NULL => req'[q.job].file = q.file
             /\ q.linked # NULL => /\ req'[q.linked].file = req[q.linked].file
                                   /\ Like(req[q.linked].file, q.file, q.user)
             /\ q.data # NULL => ReadFrom(q.file, q.data)
             /\ q.plan # NULL =>
                  /\ q.plan \in Plan
                  /\ q.plan.entity # NULL => /\ req'[q.plan.entity].file = req[q.plan.entity].file
                                             /\ Like(req[q.plan.entity].file, q.file, q.user)
                                             /\ q.plan.group = NULL
                  /\ q.plan.data # NULL => /\ req'[q.plan.data.src].file = req[q.plan.data.src].file
                                           /\ Like(req[q.plan.data.src].file, q.file, q.user)
                  /\ q.plan.rev => q.plan.group # NULL
                  /\ q.plan.group # NULL => Groups(x, q.plan.group, StatementDate(x))
             /\ q.served # NULL => /\ req'[q.served.src].file = req[q.served.src].file
                                   /\ Like(req[q.served.src].file, q.file, q.user)
  <2>1. /\ req[x].job \in Requests \cup {NULL} /\ req[x].linked \in Requests \cup {NULL}
        /\ req[x].plan \in Plan \cup {NULL}
    BY <1>0 DEF Req
  <2> QED  BY <1>0, <1>2, <2>1, RequestFiles, PlanFiles DEF RequestAlike
<1>3. req[x].pc # "idle" => req[x].user # NULL
  BY <1>0, NullAssumption DEF LocalsOf
<1>h. Holds(x, req[x].data) => StatementDate(x)' = StatementDate(x)
  BY DEF Holds, StatementDate
<1>4. CASE req'[x] = req[x]
  <2>1. CASE req[x].user = NULL
    <3>1. req'[x] = IdleReq
      BY <1>0, <1>3, <1>4, <2>1 DEF LocalsOf
    <3> QED  BY <3>1 DEF RequestAlike, IdleReq
  <2>2. CASE req[x].user # NULL
    BY <1>1, <1>2, <1>4, <1>h, <2>2 DEF Holds
  <2> QED  BY <2>1, <2>2
<1>5. CASE Submit(x)
  <2>1. req'[x].data = NULL /\ req'[x].plan = NULL
    BY <1>5, SubmitHolds
  <2>2. CASE req'[x].job = NULL /\ req'[x].linked = NULL /\ req'[x].served = NULL
    BY <2>1, <2>2 DEF RequestAlike
  <2>3. ASSUME NEW p \in Requests, jobs[p] # NULL, jobs[p].file = req'[x].file,
               jobs[p].user = req'[x].user,
               req'[x].job \in {p, NULL},
               req'[x].linked \in {jobs[p].merchant, NULL},
               req'[x].served \in {jobs[p].data, NULL}
        PROVE  RequestAlike(x)'
    <3>1. /\ req'[p].file = jobs[p].file /\ jobs[p].user \in Users
          /\ jobs[p].merchant # NULL =>
               /\ req'[jobs[p].merchant].file = req[jobs[p].merchant].file
               /\ Like(req[jobs[p].merchant].file, jobs[p].file, jobs[p].user)
          /\ jobs[p].data # NULL =>
               /\ req'[jobs[p].data.src].file = req[jobs[p].data.src].file
               /\ Like(req[jobs[p].data.src].file, jobs[p].file, jobs[p].user)
      BY <2>3, JobFiles
    <3>2. \A f, g, u : f = jobs[p].file /\ u = jobs[p].user /\ Like(g, f, u) => Like(g, f, u)'
      BY <3>1, LikeKept
    <3> QED  BY <2>1, <2>3, <3>1, <3>2 DEF RequestAlike
  <2> QED  BY <1>5, <2>2, <2>3, SubmitHolds
<1>6. CASE OpenJob(x)
  <2> DEFINE j == IF req[x].reused THEN req[x].job ELSE x
  <2>1. Goes(x, "analyze", j, req[x].linked, req[x].plan, "none", NULL) /\ Holds(x, req[x].data)
    BY <1>6, OpenJobGoes, GoesHolds
  <2>2. req[x].user # NULL
    BY <1>3, <2>1 DEF Goes
  <2>3. j \in Requests \cup {NULL} /\ (j # NULL => req'[j].file = req[x].file)
    BY <1>2, <2>2, FileKnown
  <2> HIDE DEF j
  <2> QED  BY <1>1, <1>2, <1>h, <2>1, <2>2, <2>3 DEF Goes, Holds
<1>7. CASE Analyze(x)
  <2>1. PICK d \in Data : Holds(x, d) /\ ReadFrom(req[x].file, d)
    BY <1>7, AnalyzeHolds
  <2>2. Goes(x, "match", req[x].job, req[x].linked, req[x].plan, "none", NULL)
    BY <1>7, AnalyzeGoes
  <2>3. req[x].user # NULL /\ req[x].plan = NULL
    BY <1>0, <1>3, <1>7, <2>2 DEF Goes, Analyze, LocalsOf
  <2> QED  BY <1>1, <1>2, <2>1, <2>2, <2>3 DEF Goes, Holds
<1>8. CASE Match(x)
  <2> DEFINE p == PlanOf(x)
  <2>1. Goes(x, "persist", req[x].job, req[x].linked, p, "none", NULL) /\ Holds(x, req[x].data)
    BY <1>8, MatchGoes, GoesHolds
  <2>2. req[x].user # NULL
    BY <1>3, <2>1 DEF Goes
  <2>3. /\ p \in Plan
        /\ p.entity # NULL => Like(req[p.entity].file, req[x].file, req[x].user) /\ p.group = NULL
        /\ p.data # NULL => Like(req[p.data.src].file, req[x].file, req[x].user)
        /\ p.rev => p.group # NULL
        /\ p.group # NULL => Groups(x, p.group, StatementDate(x))
    BY <1>8, PlanIsAlike, PlanIsTyped DEF Match
  <2>4. /\ p.entity # NULL => p.entity \in Requests /\ req[p.entity].user = req[x].user
        /\ p.data # NULL => p.data.src \in Requests /\ req[p.data.src].user = req[x].user
    BY <1>8, <2>3, PlanIsOwn DEF Match, Plan, Data
  <2> HIDE DEF p
  <2>5. /\ p.entity # NULL => req'[p.entity].file = req[p.entity].file
        /\ p.data # NULL => req'[p.data.src].file = req[p.data.src].file
    BY <2>2, <2>4, FileKnown
  <2> QED  BY <1>1, <1>2, <1>h, <2>1, <2>2, <2>3, <2>5 DEF Goes, Holds
<1>9. CASE CommitSave(x)
  <2>1. Goes(x, "refresh", req[x].job, req[x].linked, req[x].plan, "none", NULL)
        /\ Holds(x, req[x].data)
    BY <1>9, CommitSaveGoes, GoesHolds
  <2> QED  BY <1>1, <1>2, <1>3, <1>h, <2>1 DEF Goes, Holds
<1>10. CASE CommitHit(x)
  <2>1. Goes(x, "done", req[x].job, NULL, NULL, "matched", req[x].plan.data) /\ Holds(x, NULL)
    BY <1>10, EndsGoes, EndsHolds
  <2>2. req[x].plan # NULL
    BY <1>0, <1>10 DEF CommitHit, LocalsOf
  <2> QED  BY <1>1, <1>2, <1>3, <2>1, <2>2 DEF Goes, Holds
<1>11. CASE Finish(x)
  <2>1. Goes(x, "done", req[x].job, NULL, NULL, "analyzed", req[x].data) /\ Holds(x, NULL)
    BY <1>11, EndsGoes, EndsHolds
  <2>2. req[x].user # NULL /\ (req[x].data # NULL => req[x].data.src = x)
    BY <1>0, <1>3, <2>1 DEF LocalsOf, Goes
  <2>3. req'[x].file = req[x].file /\ Like(req[x].file, req[x].file, req[x].user)
    BY <2>1, LikeSame DEF Holds
  <2> QED  BY <1>1, <1>2, <2>1, <2>2, <2>3 DEF Goes, Holds
<1>12. CASE AnalyzeFails(x) \/ CommitRejected(x) \/ FinishFails(x) \/ DbError(x) \/ Crash(x)
  <2>1. /\ req[x].pc # "idle" /\ req'[x].job = req[x].job
        /\ req'[x].linked = NULL /\ req'[x].plan = NULL /\ req'[x].served = NULL
    BY <1>12, EndsGoes DEF Goes
  <2>2. Holds(x, NULL)
    BY <1>12, EndsHolds
  <2> QED  BY <1>1, <1>2, <1>3, <2>1, <2>2 DEF Holds
<1> QED
  BY <1>4, <1>5, <1>6, <1>7, <1>8, <1>9, <1>10, <1>11, <1>12, OthersStay DEF Next, Progress


-----------------------------------------------------------------------------
(* What follows of statements *)

\* Whatever rows and requests refer to each other are of files alike.
LEMMA StatementsKept == Spec => []OneStatement
<1>1. Init => OneStatement
  BY DEF Init, OneStatement, JobAlike, MerchantAlike, RequestAlike, IdleReq
<1>2. TypeOK /\ LocalsInStep /\ OneOwner /\ OneStatement /\ [Next]_vars => OneStatement'
  BY JobAlikeStep, MerchantAlikeStep, RequestAlikeStep DEF OneStatement
<1> QED  BY <1>1, <1>2, TypeCorrect, OwnersKept, PTL DEF Spec

\* A user served from either cache is served the merchant number, and unless a
\* wrong period was typed the statement, of the uploaded file, whatever chain of
\* jobs and merchants the result came along.
THEOREM ServedIsOfStatement == Spec => []SameStatementServed
<1>1. LocalsInStep /\ OneStatement => SameStatementServed
  BY DEF LocalsInStep, LocalsOf, OneStatement, RequestAlike, SameStatementServed
<1> QED  BY <1>1, TypeCorrect, StatementsKept, PTL

\* Records that are grouped as revisions are of one account, one merchant number
\* and, where it is known, one period, also after either has been refreshed.
THEOREM RevisionsShareStatement == Spec => []RevisionGroupsOneStatement
<1>1. TypeOK /\ LocalsInStep /\ OneOwner /\ OneStatement => RevisionGroupsOneStatement
  <2> SUFFICES ASSUME TypeOK, LocalsInStep, OneOwner, OneStatement,
                      NEW m \in Requests, merchants[m] # NULL, merchants[m].rev
               PROVE  /\ merchants[m].group # NULL /\ merchants[m].group # m
                      /\ LET a == merchants[m] b == merchants[merchants[m].group] IN
                           b # NULL =>
                             /\ a.user = b.user
                             /\ Statement[a.file].mid = Statement[b.file].mid
                             /\ a.date # NULL => Like(a.file, b.file, a.user)
    BY DEF RevisionGroupsOneStatement
  <2> DEFINE a == merchants[m]
             g == merchants[m].group
             b == merchants[g]
  <2>1. MerchantAlike(m) /\ MerchantOwned(m) /\ a \in Merchant
    BY DEF OneStatement, OneOwner, TypeOK
  <2>2. g \in Requests /\ Groups(m, g, a.date) /\ a.user = req[m].user
    BY <2>1 DEF MerchantAlike, MerchantOwned, Merchant
  <2>3. ASSUME b # NULL
        PROVE  /\ a.user = b.user
               /\ Statement[a.file].mid = Statement[b.file].mid
               /\ a.date # NULL => Like(a.file, b.file, a.user)
    <3> HIDE DEF g
    <3>1. MerchantAlike(g) /\ MerchantOwned(g)
      BY <2>2 DEF OneStatement, OneOwner
    <3>2. a.user = b.user
      BY <2>2, <2>3, <3>1 DEF MerchantOwned, Groups
    <3>3. Like(req[g].file, b.file, a.user) /\ Like(req[m].file, a.file, a.user)
      BY <2>1, <2>3, <3>1, <3>2 DEF MerchantAlike
    <3>4. /\ Statement[req[g].file].mid = Statement[req[m].file].mid
          /\ a.date # NULL => Like(req[g].file, req[m].file, a.user)
      BY <2>2 DEF Groups
    <3> QED  BY <3>2, <3>3, <3>4 DEF Like
  <2> QED  BY <2>1, <2>2, <2>3 DEF MerchantAlike, Groups
<1> QED  BY <1>1, TypeCorrect, OwnersKept, StatementsKept, PTL

\* No step, and no refresh in place in particular, gives a merchant to another
\* account or to another merchant number, nor turns it into the record of
\* another period for an account that typed no wrong one.
THEOREM RefreshIsOfStatement == Spec => RefreshKeepsStatement
<1>1. ASSUME TypeOK, LocalsInStep, OneOwner, OneStatement, [Next]_vars,
             NEW m \in Requests, merchants[m] # NULL, merchants'[m] # NULL
      PROVE  /\ merchants'[m].user = merchants[m].user
             /\ Like(merchants[m].file, merchants'[m].file, merchants[m].user)
  <2>1. CASE SameMerchant(m)
    BY <2>1, LikeSame DEF SameMerchant
  <2>2. ASSUME NEW r \in Requests, CommitSave(r), m = Saved(r), merchants'[m] = SavedRow(r)
        PROVE  /\ merchants'[m].user = merchants[m].user
               /\ Like(merchants[m].file, merchants'[m].file, merchants[m].user)
    <3>1. MerchantAlike(m) /\ MerchantOwned(m)
      BY <1>1 DEF OneStatement, OneOwner
    <3>2. req[r].plan # NULL /\ RequestAlike(r) /\ RequestOwned(r)
      BY <1>1, <2>2 DEF CommitSave, LocalsInStep, LocalsOf, OneStatement, OneOwner
    <3>3. req[m].user = req[r].user /\ Like(req[m].file, req[r].file, req[r].user)
      BY <2>2, <3>2, LikeSame DEF Saved, RequestOwned, RequestAlike
    <3>4. /\ merchants[m].user = req[r].user
          /\ Like(req[m].file, merchants[m].file, req[r].user)
      BY <1>1, <3>1, <3>3 DEF MerchantAlike, MerchantOwned
    <3>5. Like(merchants[m].file, req[r].file, req[r].user)
      BY <3>3, <3>4, LikeTurned, LikeChain
    <3> QED  BY <2>2, <3>4, <3>5 DEF SavedRow
  <2> QED  BY <1>1, <2>1, <2>2, MerchantChange
<1>2. /\ TypeOK /\ LocalsInStep /\ OneOwner /\ OneStatement /\ [Next]_vars
      => [\A m \in Requests : merchants[m] # NULL /\ merchants'[m] # NULL =>
            /\ merchants'[m].user = merchants[m].user
            /\ Like(merchants[m].file, merchants'[m].file, merchants[m].user)]_vars
  BY <1>1
<1> QED
  BY <1>2, TypeCorrect, OwnersKept, StatementsKept, PTL DEF Spec, RefreshKeepsStatement

\* A plan names the matched entity, whenever there is one.
LEMMA MatchIsPlanned ==
  ASSUME TypeOK, NEW r \in Requests, EntityMatch(r) # NULL
  PROVE  PlanOf(r).entity = EntityMatch(r)
<1> DEFINE e == EntityMatch(r)
<1>1. merchants[e] # NULL
  BY EntityMatchIsOwn
<1> HIDE DEF e
<1> QED  BY <1>1 DEF PlanOf, e

\* Step 6b of the handler with one provider, whose answer is the result, and no
\* editor: a rescan of a stored statement never plans a new merchant for an
\* account that typed no wrong period.
THEOREM RescanIsRecognised ==
  ASSUME Configured = 1, Edits = {}
  PROVE  Spec => RescanRecognised
<1> DEFINE Planned(r) ==
      /\ req[r].pc = "match" /\ ~req[r].reused
      /\ req'[r].pc = "persist" /\ req'[r].plan.entity = NULL
<1>1. ASSUME NEW f \in Files, NEW x \in Readings[f]
      PROVE  /\ x.results = 1
             /\ x.date # NULL => x.date = Statement[f].date
  BY ReadingsAssumption DEF Reading, Quorum
<1>2. ASSUME TypeOK, LocalsInStep, OneOwner, OneStatement, [Next]_vars,
             NEW r \in Requests, Planned(r),
             NEW m \in Requests, merchants[m] # NULL, merchants[m].user = req[r].user,
             Careful(req[r].user),
             Rescans(req[r].file, merchants[m].file)
      PROVE  FALSE
  <2>1. Match(r)
    <3>1. ~(Submit(r) \/ OpenJob(r) \/ Analyze(r) \/ CommitSave(r))
      BY <1>2, SubmitGoes DEF OpenJob, Analyze, CommitSave
    <3>2. ~(\/ AnalyzeFails(r) \/ CommitHit(r) \/ CommitRejected(r) \/ Finish(r)
            \/ FinishFails(r) \/ DbError(r) \/ Crash(r))
      BY <1>2, EndsGoes DEF Goes
    <3>3. req'[r] # req[r]
      BY <1>2
    <3> QED  BY <1>2, <3>1, <3>2, <3>3, OthersStay DEF Next, Progress
  <2>2. req'[r].plan = PlanOf(r)
    BY <1>2, <2>1, MatchGoes DEF Goes
  <2> DEFINE d == req[r].data
             a == merchants[m]
             S == {k \in SameStatement(r) : WithinPct(d.figure, merchants[k].figure)}
  <2>3. ReadFrom(req[r].file, d) /\ RecordRead(a) /\ req[r].file \in Files /\ a.file \in Files
    BY <1>2 DEF OneStatement, RequestAlike, MerchantAlike, LocalsInStep, LocalsOf, TypeOK, Merchant
  <2>4. PICK x \in Readings[req[r].file] : d.mid = x.mid /\ d.date = x.date /\ d.figure = x.figure
    BY <1>1, <2>3 DEF ReadFrom
  <2>5. PICK y \in Readings[a.file] :
          /\ a.mid = y.mid /\ a.figure = y.figure
          /\ a.date \in {y.date, Statement[a.file].date}
    BY <1>1, <1>2, <2>3 DEF RecordRead
  <2>6. /\ x.mid = y.mid /\ x.mid # NULL /\ x.date = y.date /\ x.date # NULL
        /\ WithinPct(x.figure, y.figure)
    BY <1>2, <2>4, <2>5 DEF Rescans
  <2>7. a.date = x.date /\ Statement[req[r].file].date = x.date
    BY <1>1, <2>3, <2>4, <2>5, <2>6
  <2>8. StatementDate(r) = x.date
    BY <1>2, <2>4, <2>7 DEF Careful, StatementDate
  <2>9. Matchable(r) /\ m \in S
    BY <1>2, <2>4, <2>5, <2>6, <2>7, <2>8 DEF Matchable, SameStatement
  <2>10. Newest(S, merchants) \in Requests
    <3>1. S \subseteq Requests /\ \A k \in S : merchants[k].born \in Nat
      BY <1>2, SameStatementRows
    <3>2. S # {}
      BY <2>9
    <3> HIDE DEF S
    <3>3. IsFiniteSet(S)
      BY <3>1, RequestsAssumption, FS_Subset
    <3> QED  BY <3>1, <3>2, <3>3, NewestExists DEF Newest
  <2>11. EntityMatch(r) = Newest(S, merchants)
    BY <2>9 DEF EntityMatch
  <2>12. EntityMatch(r) # NULL
    BY <2>10, <2>11, NullAssumption
  <2> QED  BY <1>2, <2>2, <2>12, MatchIsPlanned
<1>3. /\ TypeOK /\ LocalsInStep /\ OneOwner /\ OneStatement /\ [Next]_vars
      => [\A r \in Requests :
            /\ req[r].pc = "match" /\ ~req[r].reused
            /\ req'[r].pc = "persist" /\ req'[r].plan.entity = NULL
            => ~\E m \in Requests : /\ merchants[m] # NULL
                                   /\ merchants[m].user = req[r].user
                                   /\ merchants[m].file # req[r].file
                                   /\ Careful(req[r].user)
                                   /\ Rescans(req[r].file, merchants[m].file)]_vars
  BY <1>2
<1> QED
  BY <1>3, TypeCorrect, OwnersKept, StatementsKept, PTL DEF Spec, RescanRecognised

-----------------------------------------------------------------------------
(* The whole invariant *)

\* The conjunction that TLC checks as IndInv is invariant, each part on the
\* strength of the parts before it.
THEOREM Inductive == Spec => []IndInv
<1>1. /\ TypeOK /\ LocalsInStep /\ OneOwner /\ OneStatement /\ LoggedSource
      /\ CacheAuthority /\ EvidenceComplete /\ NoOrphanProcessing
      => IndInv
  BY DEF IndInv
<1> QED
  BY <1>1, TypeCorrect, OwnersKept, StatementsKept, SourcesLogged, CacheIsAuthority,
     EvidenceIsComplete, NoOrphan, PTL
=============================================================================
