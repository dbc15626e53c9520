------------------------- MODULE StatementLeadProofs -------------------------
(***************************************************************************)
(* Proofs about StatementLead for every set of providers and of readings.  *)
(***************************************************************************)
EXTENDS StatementLead, FiguresProofs, SequenceTheorems

\* An answer is always of one form, and names a merchant when it is given one.
LEMMA Answers ==
  /\ Refused \in [ok: BOOLEAN, key: BOOLEAN, merchant: BOOLEAN]
  /\ ~Refused.ok /\ ~Refused.merchant
  /\ \A k \in BOOLEAN : \A m \in BOOLEAN :
       /\ Given(k, m) \in [ok: BOOLEAN, key: BOOLEAN, merchant: BOOLEAN]
       /\ Given(k, m).merchant => m
  BY DEF Refused, Given

\* A request starts with nothing added and nothing answered.
LEMMA InitInvariant == Init => LeadInv
<1> SUFFICES ASSUME Init PROVE LeadInv
  OBVIOUS
<1>1. /\ stage \in {"store", "run"} /\ kind \in {"staff", "public"} /\ answer = Refused
      /\ pending = Providers /\ added = {} /\ rows = {} /\ failed = {}
      /\ stored = FALSE /\ key = FALSE /\ broken = FALSE
  BY DEF Init
<1>2. TypeOK
  BY <1>1, Answers DEF TypeOK, Stages, Kinds
<1>3. LeadWhole
  BY <1>1, Answers DEF LeadWhole
<1> QED  BY <1>1, <1>2, <1>3 DEF LeadInv

\* What the swallowed failures of a save leave behind.
LEMMA SaveStep ==
  ASSUME LeadInv, NEW row \in Kinds, NEW converts, Save(row, converts)
  PROVE  /\ broken' \in BOOLEAN /\ added' \subseteq Kinds /\ failed' \subseteq Kinds
         /\ failed' # {} => broken' /\ added' = {}
  BY DEF LeadInv, TypeOK, Save, FlushFails

LEMMA StoreStep == LeadInv /\ Store => LeadInv'
  BY DEF LeadInv, TypeOK, LeadWhole, Store, Stages

LEMMA ReadsStep == ASSUME LeadInv, NEW p \in Providers, Reads(p) PROVE LeadInv'
  BY DEF LeadInv, TypeOK, LeadWhole, Reads

LEMMA EndRunStep == LeadInv /\ EndRun => LeadInv'
<1> SUFFICES ASSUME LeadInv, EndRun PROVE LeadInv'
  OBVIOUS
<1>1. /\ stage = "run" /\ pending' = {}
      /\ UNCHANGED <<kind, stored, key, broken, added, rows, failed>>
      /\ failed = {} /\ rows = {} /\ answer = Refused
  BY DEF EndRun, LeadInv
<1>2. \/ stage' = "done" /\ answer' = answer
      \/ stage' = "done" /\ answer' = Given(key, FALSE)
      \/ stage' = "lead" /\ answer' = answer
  BY DEF EndRun
<1>3. answer' \in [ok: BOOLEAN, key: BOOLEAN, merchant: BOOLEAN] /\ ~answer'.merchant
  <2>1. key \in BOOLEAN /\ FALSE \in BOOLEAN
    BY DEF LeadInv, TypeOK
  <2>2. /\ Given(key, FALSE) \in [ok: BOOLEAN, key: BOOLEAN, merchant: BOOLEAN]
        /\ ~Given(key, FALSE).merchant
    BY <2>1, Answers
  <2> QED  BY <1>1, <1>2, <2>2, Answers
<1>4. TypeOK'
  BY <1>1, <1>2, <1>3 DEF LeadInv, TypeOK, Stages
<1>5. LeadWhole'
  BY <1>1, <1>3 DEF LeadWhole
<1> QED  BY <1>1, <1>2, <1>4, <1>5 DEF LeadInv

\* The two saves differ in the row and in where they lead.
LEMMA AddStep ==
  ASSUME LeadInv, NEW row \in Kinds, NEW converts, Save(row, converts),
         \/ stage = "lead" /\ stage' = "merchant"
         \/ stage = "merchant" /\ stage' = "commit",
         UNCHANGED <<kind, pending, stored, key, rows, answer>>
  PROVE  LeadInv'
<1>1. /\ broken' \in BOOLEAN /\ added' \subseteq Kinds /\ failed' \subseteq Kinds
      /\ failed' # {} => broken' /\ added' = {}
  BY SaveStep
<1>2. rows = {} /\ answer = Refused
  BY DEF LeadInv
<1>3. TypeOK'
  BY <1>1 DEF LeadInv, TypeOK, Stages
<1>4. LeadWhole'
  BY <1>2, Answers DEF LeadWhole
<1> QED  BY <1>1, <1>2, <1>3, <1>4 DEF LeadInv

LEMMA CommitStep == LeadInv /\ Commit => LeadInv'
<1> SUFFICES ASSUME LeadInv, Commit PROVE LeadInv'
  OBVIOUS
<1>1. /\ stage = "commit" /\ stage' \in {"grade", "done"} /\ answer = Refused /\ rows = {}
      /\ UNCHANGED <<kind, pending, stored, key, broken, added, answer, failed>>
  BY DEF Commit, LeadInv
<1>2. \/ rows' = added /\ failed = {}
      \/ stage' = "done" /\ rows' = {}
  BY <1>1 DEF Commit, LeadInv
<1>3. TypeOK'
  BY <1>1, <1>2 DEF LeadInv, TypeOK, Stages
<1>4. LeadWhole'
  BY <1>1, <1>2, Answers DEF LeadWhole
<1> QED  BY <1>1, <1>2, <1>3, <1>4 DEF LeadInv

LEMMA GradeStep == LeadInv /\ Grade => LeadInv'
<1> SUFFICES ASSUME LeadInv, Grade PROVE LeadInv'
  OBVIOUS
<1>1. /\ stage = "grade" /\ stage' = "done" /\ rows = added /\ failed = {} /\ answer = Refused
      /\ UNCHANGED <<kind, pending, stored, key, broken, added, rows, failed>>
  BY DEF Grade, LeadInv
<1>2. answer' \in {Given(FALSE, "merchant" \in added), Refused}
  BY <1>1 DEF Grade
<1>3. ("merchant" \in added) \in BOOLEAN
  OBVIOUS
<1>4. /\ answer' \in [ok: BOOLEAN, key: BOOLEAN, merchant: BOOLEAN]
      /\ answer'.merchant => "merchant" \in added
  <2>1. /\ Given(FALSE, "merchant" \in added) \in [ok: BOOLEAN, key: BOOLEAN, merchant: BOOLEAN]
        /\ Given(FALSE, "merchant" \in added).merchant => "merchant" \in added
    BY <1>3, Answers, ZenonT(30)
  <2> QED  BY <1>2, <2>1, Answers
<1>5. TypeOK'
  BY <1>1, <1>4 DEF LeadInv, TypeOK, Stages
<1>6. LeadWhole'
  BY <1>1, <1>4 DEF LeadWhole
<1> QED  BY <1>1, <1>5, <1>6 DEF LeadInv

LEMMA NextStep == LeadInv /\ [Next]_vars => LeadInv'
<1> SUFFICES ASSUME LeadInv, [Next]_vars PROVE LeadInv'
  OBVIOUS
<1>1. CASE Store
  BY <1>1, StoreStep
<1>2. ASSUME NEW p \in Providers, Reads(p) PROVE LeadInv'
  BY <1>2, ReadsStep
<1>3. CASE EndRun
  BY <1>3, EndRunStep
<1>4. CASE AddVisitor
  BY <1>4, AddStep DEF AddVisitor, Kinds
<1>5. CASE AddMerchant
  BY <1>5, AddStep DEF AddMerchant, Kinds
<1>6. CASE Commit
  BY <1>6, CommitStep
<1>7. CASE Grade
  BY <1>7, GradeStep
<1>8. CASE UNCHANGED vars
  BY <1>8 DEF vars, LeadInv, TypeOK, LeadWhole
<1> QED  BY <1>1, <1>2, <1>3, <1>4, <1>5, <1>6, <1>7, <1>8 DEF Next

\* The inductive invariant of an upload, whatever the providers read
\* (pricing_tool.py: public_extract_statement).
THEOREM UploadInvariant == Spec => []LeadInv
<1> QED  BY InitInvariant, NextStep, PTL DEF Spec

\* A database error while the lead is saved leaves no row, and a merchant the
\* caller is told of is there (pricing_tool.py: public_extract_statement).
THEOREM LeadsAreWhole == Spec => []LeadWhole
<1>1. LeadInv => LeadWhole
  BY DEF LeadInv
<1> QED  BY <1>1, UploadInvariant, PTL

-----------------------------------------------------------------------------
(* The extraction: it is the merge of the readings that arrived.           *)

\* The steps of the run leave the extraction alone, and its end merges.
LEMMA MergeStep == DataInv /\ [Next]_vars => DataInv'
<1> SUFFICES ASSUME DataInv, [Next]_vars PROVE DataInv'
  OBVIOUS
<1>0. results \in Seq(Readings)
  BY DEF DataInv
<1>1. CASE Store
  BY <1>1 DEF Store, DataInv
<1>2. ASSUME NEW p \in Providers, Reads(p) PROVE DataInv'
  <2>1. stage = "run" /\ stage' = "run" /\ data' = data /\ data = NULL
    BY <1>2 DEF Reads, DataInv
  <2>2. results' \in Seq(Readings)
    BY <1>0, <1>2 DEF Reads
  <2> QED  BY <2>1, <2>2 DEF DataInv
<1>3. CASE EndRun
  <2>1. results' = results /\ stage = "run" /\ data = NULL
    BY <1>3 DEF EndRun, DataInv
  <2>2. CASE data' = data /\ stage' = "done"
    BY <1>0, <2>1, <2>2 DEF DataInv
  <2>3. CASE /\ results # <<>> /\ Mergeable(results) /\ stage' \in {"done", "lead"}
             /\ data' = IF Len(results) = 1 THEN Single(results[1]) ELSE Merged(results)
    <3>1. CASE Len(results) = 1
      <4>1. data'.count = 1
        BY <2>3, <3>1 DEF Single
      <4> QED  BY <1>0, <2>1, <2>3, <4>1 DEF DataInv
    <3>2. CASE Len(results) # 1
      <4>1. Len(results) >= 2
        <5>1. results # <<>>
          BY <2>3
        <5>2. Len(results) # 0
          BY <1>0, <5>1, EmptySeq
        <5>3. Len(results) \in Nat
          BY <1>0
        <5> QED  BY <3>2, <5>2, <5>3
      <4>2. data' = Merged(results)'
        <5>1. data' = Merged(results)
          BY <2>3, <3>2
        <5>2. PICK s : s = results
          OBVIOUS
        <5>3. Merged(results) = Merged(s) /\ Merged(results') = Merged(s)
          BY <2>1, <5>2
        <5> QED  BY <5>1, <5>3
      <4>3. Mergeable(results)'
        BY <2>1, <2>3 DEF Mergeable, Shared, Values, Count, Range
      <4> QED  BY <1>0, <2>1, <2>3, <4>1, <4>2, <4>3 DEF DataInv
    <3> QED  BY <3>1, <3>2
  <2> QED  BY <1>3, <2>2, <2>3 DEF EndRun
<1>4. CASE AddVisitor \/ AddMerchant \/ Commit \/ Grade \/ UNCHANGED vars
  <2>1. /\ results' = results /\ data' = data
        /\ stage' = stage \/ stage' \notin {"store", "run"}
    BY <1>4 DEF AddVisitor, AddMerchant, Commit, Grade, vars
  <2>2. PICK s : s = results
    OBVIOUS
  <2>3. (Mergeable(s) <=> Mergeable(results)') /\ Merged(s) = Merged(results)'
    BY <2>1, <2>2
  <2> QED  BY <2>1, <2>2, <2>3 DEF DataInv
<1> QED  BY <1>1, <1>2, <1>3, <1>4 DEF Next

\* A consensus of several providers is the merge of two or more readings that
\* can be merged (run_audit_all_providers).
THEOREM MergeInvariant == Spec => []DataInv
<1>1. Init => DataInv
  BY DEF Init, DataInv
<1> QED  BY <1>1, MergeStep, PTL DEF Spec

LEMMA MergeOfSeveral ==
  ASSUME DataInv, Several
  PROVE  /\ results \in Seq(Readings) /\ Len(results) >= 2
         /\ Mergeable(results) /\ data = Merged(results)
  BY DEF DataInv, Several

-----------------------------------------------------------------------------
(* The figures of a merge                                                  *)

\* The values of a field are the readings of it, less those without one.
LEMMA ValuesOf ==
  ASSUME NEW reports \in Seq(Readings), NEW f \in Fields
  PROVE  LET v == Values(reports, f) IN
         /\ DOMAIN v \subseteq DOMAIN reports /\ IsFiniteSet(DOMAIN v)
         /\ \A i \in DOMAIN v : v[i] = reports[i].figures[f] /\ v[i] \in Int \cup {TEXT}
         /\ Range(v) = {reports[i].figures[f] : i \in DOMAIN reports} \ {NULL}
<1> DEFINE given == {i \in DOMAIN reports : reports[i].figures[f] # NULL}
           v == Values(reports, f)
<1>1. v = [i \in given |-> reports[i].figures[f]]
  BY DEF Values
<1>2. DOMAIN reports = 1..Len(reports) /\ Len(reports) \in Nat
  BY LenProperties
<1>3. IsFiniteSet(given)
  <2>1. IsFiniteSet(DOMAIN reports) /\ given \in SUBSET DOMAIN reports
    BY <1>2, FS_Interval
  <2> HIDE DEF given
  <2> QED  BY <2>1, FS_Subset
<1>4. \A i \in DOMAIN reports : reports[i].figures[f] \in Int \cup {NULL, TEXT}
  <2>1. \A i \in DOMAIN reports : reports[i] \in Readings
    BY ElementOfSeq, <1>2
  <2> QED  BY <2>1, ReadingsAssumption
<1>5. DOMAIN v = given /\ \A i \in given : v[i] = reports[i].figures[f] /\ v[i] \in Int \cup {TEXT}
  BY <1>1, <1>4
<1>6. Range(v) = {reports[i].figures[f] : i \in DOMAIN reports} \ {NULL}
  <2> HIDE DEF v
  <2> QED  BY <1>5 DEF Range
<1> QED  BY <1>3, <1>5, <1>6

\* A field that two providers report is merged from two integers or more.
LEMMA SharedValues ==
  ASSUME NEW reports \in Seq(Readings), Mergeable(reports), NEW f \in Shared(reports)
  PROVE  LET v == Values(reports, f) IN
         /\ f \in Fields /\ IsFiniteSet(DOMAIN v) /\ DOMAIN v # {} /\ Count(v) \in Nat
         /\ Count(v) >= 2 /\ \A i \in DOMAIN v : v[i] \in Int
<1> DEFINE v == Values(reports, f)
<1>1. f \in Fields /\ Count(v) >= 2
  BY DEF Shared
<1>2. IsFiniteSet(DOMAIN v) /\ \A i \in DOMAIN v : v[i] \in Int \cup {TEXT}
  BY <1>1, ValuesOf
<1>3. TEXT \notin Range(v)
  BY DEF Mergeable
<1> HIDE DEF v
<1>4. \A i \in DOMAIN v : v[i] \in Range(v)
  BY DEF Range
<1>5. Count(v) \in Nat /\ DOMAIN v # {}
  BY <1>1, <1>2, FS_CardinalityType, FS_EmptySet DEF Count
<1> QED  BY <1>1, <1>2, <1>3, <1>4, <1>5 DEF v

\* What the rounding to hundredths adds or takes: half of one at most.
LEMMA HundredthsWithinHalf ==
  ASSUME NEW x \in Int, NEW n \in Nat, n > 0
  PROVE  LET t == ToHundredths(x, n) IN
         /\ t \in Int
         /\ 2 * (n * t) <= 2 * x + n * Fine
         /\ 2 * x <= 2 * (n * t) + n * Fine
<1> DEFINE m == n * Fine
           r == Rounded(x, m)
<1>1. Fine \in Nat /\ Fine > 0
  BY FieldsAssumption
<1>2. m \in Nat /\ m > 0
  BY <1>1
<1>3. r \in Int /\ 2 * (m * r) <= 2 * x + m /\ 2 * x <= 2 * (m * r) + m
  <2> HIDE DEF m
  <2> QED  BY <1>2, RoundedWithinHalf
<1>4. ToHundredths(x, n) = Fine * r
  BY DEF ToHundredths
<1> HIDE DEF r
<1>5. m * r = n * (Fine * r) /\ Fine * r \in Int
  BY <1>1, <1>3
<1> QED  BY <1>3, <1>4, <1>5

\* A factor that is positive can be dropped.
LEMMA Cancels ==
  ASSUME NEW n \in Nat, n > 0, NEW a \in Int, NEW b \in Int, n * a <= n * b
  PROVE  a <= b
<1> SUFFICES ASSUME b + 1 <= a PROVE FALSE
  OBVIOUS
<1>1. n * (b + 1) <= n * a /\ n * (b + 1) = n * b + n /\ n * a \in Int /\ n * b \in Int
  OBVIOUS
<1> QED  BY <1>1

\* A rounded share stays between integers that enclose it, up to the rounding.
LEMMA HundredthsBetween ==
  ASSUME NEW x \in Int, NEW n \in Nat, n > 0, NEW lo \in Int, NEW hi \in Int,
         n * lo <= x, x <= n * hi
  PROVE  LET t == ToHundredths(x, n) IN
         t \in Int /\ 2 * (lo - t) <= Fine /\ 2 * (t - hi) <= Fine
<1> DEFINE t == ToHundredths(x, n)
<1>1. t \in Int /\ 2 * (n * t) <= 2 * x + n * Fine /\ 2 * x <= 2 * (n * t) + n * Fine
  BY HundredthsWithinHalf
<1>2. Fine \in Nat
  BY FieldsAssumption
<1> HIDE DEF t
<1>3. n * (2 * lo) = 2 * (n * lo) /\ n * (2 * hi) = 2 * (n * hi) /\ n * (2 * t) = 2 * (n * t)
      /\ n * (2 * t + Fine) = 2 * (n * t) + n * Fine
      /\ n * (2 * hi + Fine) = 2 * (n * hi) + n * Fine
      /\ n * lo \in Int /\ n * hi \in Int /\ n * t \in Int /\ n * Fine \in Int
  BY <1>1, <1>2
<1>4. 2 * lo <= 2 * t + Fine
  <2>1. n * (2 * lo) <= n * (2 * t + Fine)
    BY <1>1, <1>3
  <2>2. 2 * lo \in Int /\ 2 * t + Fine \in Int
    BY <1>1, <1>2
  <2> QED  BY <2>1, <2>2, Cancels
<1>5. 2 * t <= 2 * hi + Fine
  <2>1. n * (2 * t) <= n * (2 * hi + Fine)
    BY <1>1, <1>3
  <2>2. 2 * t \in Int /\ 2 * hi + Fine \in Int
    BY <1>1, <1>2
  <2> QED  BY <2>1, <2>2, Cancels
<1> QED  BY <1>1, <1>2, <1>4, <1>5 DEF t

\* So does the average of some numbers,
LEMMA AverageBetween ==
  ASSUME NEW v, IsFiniteSet(DOMAIN v), DOMAIN v # {}, \A i \in DOMAIN v : v[i] \in Int,
         NEW lo \in Int, NEW hi \in Int, \A i \in DOMAIN v : lo <= v[i] /\ v[i] <= hi
  PROVE  Average(v) \in Int /\ 2 * (lo - Average(v)) <= Fine /\ 2 * (Average(v) - hi) <= Fine
<1>1. Sum(v) \in Int /\ Count(v) \in Nat /\ Count(v) * lo <= Sum(v) /\ Sum(v) <= Count(v) * hi
  BY SumsBounded
<1>2. Count(v) > 0
  BY <1>1, FS_EmptySet DEF Count
<1> QED  BY <1>1, <1>2, HundredthsBetween DEF Average

\* and so does their median.
LEMMA MedianBetween ==
  ASSUME NEW v, IsFiniteSet(DOMAIN v), Count(v) >= 2, \A i \in DOMAIN v : v[i] \in Int,
         NEW lo \in Int, NEW hi \in Int, \A i \in DOMAIN v : lo <= v[i] /\ v[i] <= hi
  PROVE  Median(v) \in Int /\ 2 * (lo - Median(v)) <= Fine /\ 2 * (Median(v) - hi) <= Fine
<1> DEFINE n == Count(v)
           m == n \div 2
<1>1. n \in Nat /\ n >= 2
  BY FS_CardinalityType DEF Count
<1>2. \A k \in Nat : 1 <= k /\ k <= n => Ranked(v, k) \in lo..hi
  <2> SUFFICES ASSUME NEW k \in Nat, 1 <= k, k <= Count(v) PROVE Ranked(v, k) \in lo..hi
    OBVIOUS
  <2>1. Ranked(v, k) \in Range(v)
    BY RankExists
  <2>2. PICK i \in DOMAIN v : Ranked(v, k) = v[i]
    BY <2>1 DEF Range
  <2> QED  BY <2>2
<1>3. Median(v) = IF n % 2 = 1 THEN ToHundredths(Ranked(v, m + 1), 1)
                  ELSE ToHundredths(Ranked(v, m) + Ranked(v, m + 1), 2)
  BY DEF Median
<1> HIDE DEF n
<1>4. m \in Nat /\ 1 <= m /\ m + 1 <= n
  BY <1>1
<1> HIDE DEF m
<1> DEFINE a == Ranked(v, m)
           b == Ranked(v, m + 1)
<1>5. a \in lo..hi /\ b \in lo..hi
  <2>1. m \in Nat /\ m + 1 \in Nat /\ 1 <= m /\ m <= n /\ 1 <= m + 1 /\ m + 1 <= n
    BY <1>1, <1>4
  <2> QED  BY <1>2, <2>1
<1>6. CASE n % 2 = 1
  <2>1. b \in Int /\ 1 * lo <= b /\ b <= 1 * hi /\ 1 \in Nat /\ 1 > 0
    BY <1>5
  <2>2. Median(v) = ToHundredths(b, 1)
    BY <1>3, <1>6
  <2> HIDE DEF b
  <2> QED  BY <2>1, <2>2, HundredthsBetween
<1>7. CASE n % 2 # 1
  <2> DEFINE c == a + b
  <2>1. c \in Int /\ 2 * lo <= c /\ c <= 2 * hi /\ 2 \in Nat /\ 2 > 0
    BY <1>5
  <2>2. Median(v) = ToHundredths(c, 2)
    BY <1>3, <1>7
  <2> HIDE DEF c
  <2> QED  BY <2>1, <2>2, HundredthsBetween
<1> QED  BY <1>6, <1>7

\* A figure of the consensus that several providers read lies between their
\* readings, up to the rounding; one that a single provider reads is kept
\* (_build_consensus).
THEOREM FiguresStayBetween == Spec => []FiguresBetweenReadings
<1>1. DataInv => FiguresBetweenReadings
  <2> SUFFICES ASSUME DataInv, Several, NEW f \in Fields
               PROVE  LET merged == data.figures[f] IN
                      IF Cardinality(Readers(f)) <= 1
                      THEN IF Read(f) = {} THEN merged = NULL ELSE Read(f) = {merged}
                      ELSE /\ 2 * (Smallest(Read(f)) - merged) <= Fine
                           /\ 2 * (merged - Largest(Read(f))) <= Fine
    BY DEF FiguresBetweenReadings
  <2> DEFINE v == Values(results, f)
  <2>1. results \in Seq(Readings) /\ Mergeable(results) /\ data = Merged(results)
    BY DEF DataInv, Several
  <2>2. IsFiniteSet(DOMAIN v) /\ Read(f) = Range(v) /\ Cardinality(Readers(f)) = Count(v)
    <3>1. DOMAIN v = Readers(f)
      BY DEF Values, Readers
    <3> QED  BY <2>1, <3>1, ValuesOf DEF Read, Readers, Count
  <2>3. data.figures[f] = Figure(v)
    BY <2>1 DEF Merged
  <2>4. Count(v) >= 2 => DOMAIN v # {} /\ \A i \in DOMAIN v : v[i] \in Int
    BY <2>1, SharedValues DEF Shared
  <2> HIDE DEF v
  <2>5. Count(v) \in Nat /\ (Count(v) = 0 <=> DOMAIN v = {})
    BY <2>2, FS_CardinalityType, FS_EmptySet DEF Count
  <2>6. CASE Count(v) = 0
    <3>1. Range(v) = {} /\ Figure(v) = NULL
      BY <2>5, <2>6 DEF Range, Figure
    <3> QED  BY <2>2, <2>3, <2>6, <3>1
  <2>7. CASE Count(v) = 1
    <3>1. PICK a : DOMAIN v = {a}
      BY <2>2, <2>7, FS_Singleton DEF Count
    <3>2. Figure(v) = v[CHOOSE i \in DOMAIN v : TRUE]
      BY <2>7 DEF Figure
    <3>3. (CHOOSE i \in DOMAIN v : TRUE) = a
      BY <3>1
    <3>4. Range(v) = {v[a]}
      BY <3>1 DEF Range
    <3>5. Read(f) = {data.figures[f]}
      BY <2>2, <2>3, <3>2, <3>3, <3>4
    <3>6. Cardinality(Readers(f)) <= 1 /\ Read(f) # {}
      BY <2>2, <2>7, <3>5
    <3> QED  BY <3>5, <3>6
  <2>8. CASE Count(v) >= 2
    <3> DEFINE lo == Smallest(Range(v))
               hi == Largest(Range(v))
    <3>1. lo \in Int /\ hi \in Int /\ \A i \in DOMAIN v : lo <= v[i] /\ v[i] <= hi
      BY <2>2, <2>4, <2>8, Bounds
    <3> HIDE DEF lo, hi
    <3>2. Figure(v) \in {Average(v), Median(v)}
      BY <2>5, <2>8 DEF Figure
    <3>3. 2 * (lo - Figure(v)) <= Fine /\ 2 * (Figure(v) - hi) <= Fine
      BY <2>2, <2>4, <2>8, <3>1, <3>2, AverageBetween, MedianBetween
    <3> QED  BY <2>2, <2>3, <2>5, <2>8, <3>3 DEF lo, hi
  <2> QED  BY <2>5, <2>6, <2>7, <2>8
<1> QED  BY <1>1, MergeInvariant, PTL

-----------------------------------------------------------------------------
(* What a certified consensus says                                         *)

\* The fields that the providers disagree on, of those that several read.
Disputed == Shared(results) \ Agreed(results)

\* Of up to 28 fields, nine tenths after rounding is nine tenths.
LEMMA CertifiedAgreesOnNine ==
  ASSUME Level(AgreePct(results)) = "certified"
  PROVE  /\ IsFiniteSet(Disputed) /\ Cardinality(Shared(results)) \in Nat
         /\ 10 * Cardinality(Disputed) <= Cardinality(Shared(results))
<1> DEFINE S == Shared(results)
           A == Agreed(results)
           n == Cardinality(S)
           a == Cardinality(A)
           m == Cardinality(Disputed)
<1>1. IsFiniteSet(S) /\ A \subseteq S /\ n <= 28
  BY FieldsAssumption, FS_Subset, FS_CardinalityType DEF Shared, Agreed
<1>2. IsFiniteSet(A) /\ n \in Nat /\ a \in Nat /\ a <= n
  BY <1>1, FS_CardinalityType, FS_Subset
<1>3. IsFiniteSet(Disputed) /\ m = n - a
  <2>1. S \cap A = A
    BY <1>1
  <2> HIDE DEF S, A
  <2>2. IsFiniteSet(S \ A) /\ Cardinality(S \ A) = Cardinality(S) - Cardinality(S \cap A)
    BY <1>1, FS_Difference
  <2> QED  BY <2>1, <2>2 DEF Disputed, S, A
<1>4. CASE S = {}
  <2>1. n = 0
    BY <1>4, FS_EmptySet
  <2> HIDE DEF n, a, m
  <2> QED  BY <1>2, <1>3, <2>1 DEF n, a, m
<1>5. CASE S # {}
  <2>1. n > 0
    BY <1>1, <1>2, <1>5, FS_EmptySet
  <2>2. AgreePct(results) = Rounded(100 * a, n)
    BY <1>5 DEF AgreePct
  <2> HIDE DEF n, a, m
  <2> DEFINE r == Rounded(100 * a, n)
  <2>3. r \in Int /\ 2 * (n * r) <= 2 * (100 * a) + n
    <3>1. 100 * a \in Int
      BY <1>2
    <3> QED  BY <1>2, <2>1, <3>1, RoundedWithinHalf
  <2>4. r >= 90
    BY <2>2, <2>3 DEF Level
  <2> HIDE DEF r
  <2>5. n * 90 <= n * r /\ n * r \in Int
    BY <1>2, <2>3, <2>4
  <2>6. 200 * m <= 21 * n
    BY <1>2, <1>3, <2>3, <2>5
  <2>7. m \in Nat /\ m <= 2
    BY <1>1, <1>2, <1>3, <2>6 DEF n
  <2>8. m \in {0, 1, 2}
    BY <2>7
  <2>9. 10 * m <= n
    BY <1>2, <2>6, <2>8
  <2> QED  BY <1>2, <1>3, <2>9 DEF n, m
<1> QED  BY <1>4, <1>5

\* The average of close values is as close to each of them.
LEMMA CloseToAverage ==
  ASSUME NEW v, IsFiniteSet(DOMAIN v), \A i \in DOMAIN v : v[i] \in Int,
         Close(v), NEW k \in DOMAIN v
  PROVE  InBand(Average(v), v[k])
<1> DEFINE lo == Smallest(Range(v))
           hi == Largest(Range(v))
           n == Count(v)
           s == Sum(v)
           q == Average(v)
           x == v[k]
<1>1. lo \in Int /\ hi \in Int /\ x \in Int /\ lo <= x /\ x <= hi
      /\ \A i \in DOMAIN v : lo <= v[i] /\ v[i] <= hi
  BY Bounds
<1>2. hi - lo <= 500 * Fine \/ 100 * n * (hi - lo) <= 5 * Size(s)
  BY DEF Close
<1> HIDE DEF lo, hi
<1>3. s \in Int /\ n \in Nat
  BY <1>1, SumsBounded
<1>4. n > 0
  BY <1>3, FS_EmptySet DEF Count
<1>5. q \in Int /\ 2 * (lo - q) <= Fine /\ 2 * (q - hi) <= Fine /\ Fine \in Nat
  BY <1>1, AverageBetween, FieldsAssumption
<1>6. 2 * (n * q) <= 2 * s + n * Fine /\ 2 * s <= 2 * (n * q) + n * Fine
  <2> HIDE DEF n, s
  <2>1. LET t == ToHundredths(s, n) IN 2 * (n * t) <= 2 * s + n * Fine /\ 2 * s <= 2 * (n * t) + n * Fine
    BY <1>3, <1>4, HundredthsWithinHalf
  <2> QED  BY <2>1 DEF Average, n, s
<1> HIDE DEF n, s, q, x
<1> DEFINE d == Size(q - x)
           z == Size(q)
           w == hi - lo
<1>7. d \in Int /\ 2 * d <= 2 * w + Fine /\ z \in Nat /\ w \in Nat
  BY <1>1, <1>5 DEF Size
<1>8. CASE w <= 500 * Fine
  <2>1. 2 * d <= 1001 * Fine
    <3> HIDE DEF d, w
    <3> QED  BY <1>5, <1>7, <1>8
  <2> QED  BY <2>1 DEF InBand, q, x
<1>9. CASE 100 * n * w <= 5 * Size(s)
  <2>1. 2 * Size(s) <= 2 * (n * z) + n * Fine
    <3>1. n * (-q) = -(n * q) /\ n * q \in Int /\ n * Fine \in Nat
      BY <1>3, <1>5
    <3>2. (q < 0 => n * q <= 0) /\ (q >= 0 => n * q >= 0)
      BY <1>3, <1>5
    <3>3. CASE q < 0
      <4>1. n * z = -(n * q)
        BY <3>1, <3>3 DEF Size
      <4> HIDE DEF z
      <4> QED  BY <1>3, <1>6, <3>1, <3>2, <3>3, <4>1 DEF Size
    <3>4. CASE q >= 0
      <4>1. n * z = n * q
        BY <1>5, <3>4 DEF Size
      <4> HIDE DEF z
      <4> QED  BY <1>3, <1>6, <3>1, <3>2, <3>4, <4>1 DEF Size
    <3> QED  BY <1>5, <3>3, <3>4
  <2>2. Size(s) \in Nat
    BY <1>3 DEF Size
  <2> HIDE DEF d, z, w
  <2>3. 100 * n * w = 100 * (n * w) /\ n * w \in Int /\ n * z \in Int /\ n * Fine \in Int
        /\ n * (40 * w) = 40 * (n * w) /\ n * (2 * z + Fine) = 2 * (n * z) + n * Fine
    BY <1>3, <1>5, <1>7
  <2>4. 200 * (n * w) <= 10 * (n * z) + 5 * (n * Fine)
    BY <1>9, <2>1, <2>2, <2>3
  <2>5. 40 * (n * w) <= 2 * (n * z) + n * Fine
    BY <2>3, <2>4
  <2>6. 40 * w <= 2 * z + Fine
    <3>1. n * (40 * w) <= n * (2 * z + Fine)
      BY <2>3, <2>5
    <3>2. 40 * w \in Int /\ 2 * z + Fine \in Int
      BY <1>5, <1>7
    <3> QED  BY <1>3, <1>4, <3>1, <3>2, Cancels
  <2>7. 40 * d <= 2 * z + 21 * Fine
    BY <1>5, <1>7, <2>6
  <2> QED  BY <2>7 DEF InBand, d, z, q, x
<1> QED  BY <1>2, <1>8, <1>9

\* In a certified consensus at most one in ten of the fields in common strays
\* from one of its readings (_build_consensus).
THEOREM CertifiedMeansClose == Spec => []CertifiedNearAll
<1>1. DataInv => CertifiedNearAll
  <2> SUFFICES ASSUME DataInv, Several, data.confidence = "certified"
               PROVE  10 * Cardinality(Astray) <= Cardinality(Shared(results))
    BY DEF CertifiedNearAll
  <2>1. results \in Seq(Readings) /\ Mergeable(results) /\ data = Merged(results)
    BY DEF DataInv, Several
  <2>2. Level(AgreePct(results)) = "certified"
    BY <2>1 DEF Merged
  <2>3. IsFiniteSet(Disputed) /\ 10 * Cardinality(Disputed) <= Cardinality(Shared(results))
        /\ Cardinality(Shared(results)) \in Nat
    BY <2>2, CertifiedAgreesOnNine
  <2>4. Astray \subseteq Disputed
    <3> SUFFICES ASSUME NEW f \in Agreed(results), NEW x \in Read(f)
                 PROVE  InBand(data.figures[f], x)
      BY DEF Astray, Disputed
    <3> DEFINE v == Values(results, f)
    <3>1. f \in Shared(results) /\ Close(v)
      BY DEF Agreed
    <3>2. f \in Fields /\ IsFiniteSet(DOMAIN v) /\ Count(v) \in Nat /\ Count(v) >= 2
          /\ \A i \in DOMAIN v : v[i] \in Int
      BY <2>1, <3>1, SharedValues
    <3>3. data.figures[f] = Figure(v)
      BY <2>1, <3>2 DEF Merged
    <3>4. PICK k \in DOMAIN v : x = v[k]
      <4>1. x \in Range(v)
        BY <2>1, <3>2, ValuesOf DEF Read, Readers
      <4> HIDE DEF v
      <4> QED  BY <4>1 DEF Range
    <3> HIDE DEF v
    <3>5. data.figures[f] = Average(v)
      BY <3>1, <3>2, <3>3 DEF Figure
    <3> QED  BY <3>1, <3>2, <3>4, <3>5, CloseToAverage
  <2>5. Cardinality(Astray) <= Cardinality(Disputed) /\ Cardinality(Astray) \in Nat
        /\ Cardinality(Disputed) \in Nat
    BY <2>3, <2>4, FS_Subset, FS_CardinalityType
  <2> QED  BY <2>3, <2>5
<1> QED  BY <1>1, MergeInvariant, PTL

-----------------------------------------------------------------------------
(* The order of arrival                                                    *)

\* Renumbering does not change the figure they are merged into.
LEMMA RenumberedFigure ==
  ASSUME NEW p, NEW w, NEW v, Renumbers(p, w, v), IsFiniteSet(DOMAIN w),
         Count(v) >= 2 => \A i \in DOMAIN v : v[i] \in Int
  PROVE  Figure(w) = Figure(v) /\ (Count(v) >= 2 => (Close(w) <=> Close(v)))
<1>1. /\ IsFiniteSet(DOMAIN v) /\ Count(w) = Count(v) /\ Range(w) = Range(v)
      /\ \A k : Ranked(w, k) = Ranked(v, k)
  BY RenumberedSame
<1>2. Count(v) \in Nat
  BY <1>1, FS_CardinalityType DEF Count
<1>3. CASE Count(v) = 0
  BY <1>1, <1>3 DEF Figure
<1>4. CASE Count(v) = 1
  <2>1. PICK a : DOMAIN w = {a}
    BY <1>1, <1>4, FS_Singleton DEF Count
  <2>2. PICK b : DOMAIN v = {b}
    BY <1>1, <1>4, FS_Singleton DEF Count
  <2>3. Figure(w) = w[a] /\ Figure(v) = v[b]
    <3>1. (CHOOSE i \in DOMAIN w : TRUE) = a /\ (CHOOSE i \in DOMAIN v : TRUE) = b
      BY <2>1, <2>2
    <3>2. /\ Figure(w) = w[CHOOSE i \in DOMAIN w : TRUE]
          /\ Figure(v) = v[CHOOSE i \in DOMAIN v : TRUE]
      <4>1. Count(w) = 1 /\ Count(v) = 1 /\ 1 # 0
        BY <1>1, <1>4
      <4> QED  BY <4>1, Zenon DEF Figure
    <3> QED  BY <3>1, <3>2
  <2>4. w[a] = v[b]
    BY <2>1, <2>2 DEF Renumbers
  <2> QED  BY <1>4, <2>3, <2>4
<1>5. CASE Count(v) >= 2
  <2>1. Sum(w) = Sum(v)
    BY <1>5, RenumberedSum
  <2>2. Close(w) <=> Close(v)
    BY <1>1, <2>1 DEF Close
  <2>3. Average(w) = Average(v) /\ Median(w) = Median(v)
    BY <1>1, <2>1 DEF Average, Median
  <2>4. Figure(w) = Figure(v)
    <3>1. CASE Close(v)
      BY <1>1, <1>5, <2>2, <2>3, <3>1 DEF Figure
    <3>2. CASE ~Close(v)
      BY <1>1, <1>5, <2>2, <2>3, <3>2 DEF Figure
    <3> QED  BY <3>1, <3>2
  <2> QED  BY <2>2, <2>4
<1> QED  BY <1>2, <1>3, <1>4, <1>5

\* An order has every place.
LEMMA OrdersOnto ==
  ASSUME NEW n \in Nat, NEW o \in Orders(n)
  PROVE  /\ o \in [1..n -> 1..n] /\ \A i, j \in 1..n : o[i] = o[j] => i = j
         /\ \A k \in 1..n : \E i \in 1..n : o[i] = k
<1> DEFINE N == 1..n
<1>1. o \in [1..n -> 1..n] /\ \A i, j \in 1..n : o[i] = o[j] => i = j
  BY DEF Orders
<1>2. IsFiniteSet(N) /\ N \in SUBSET DOMAIN o /\ \A i \in N : o[i] \in N
  <2>1. IsFiniteSet(N)
    BY FS_Interval
  <2> QED  BY <1>1, <2>1
<1>3. \A i, j \in N : o[i] = o[j] => i = j
  BY <1>1
<1> HIDE DEF N
<1>4. Cardinality({o[i] : i \in N}) = Cardinality(N)
  BY <1>2, <1>3, ImageSize
<1>5. {o[i] : i \in N} = N
  BY <1>2, <1>4, FS_Subset
<1>6. \A k \in N : \E i \in N : o[i] = k
  BY <1>5
<1> QED  BY <1>1, <1>6 DEF N

\* Readings that arrive in another order are renumbered in each field.
LEMMA ReorderedValues ==
  ASSUME NEW reports \in Seq(Readings), NEW o \in Orders(Len(reports)), NEW f \in Fields
  PROVE  LET other == [i \in DOMAIN reports |-> reports[o[i]]]
             w == Values(other, f)
             v == Values(reports, f) IN
         \E p : Renumbers(p, w, v) /\ IsFiniteSet(DOMAIN w)
<1> DEFINE n == Len(reports)
           other == [i \in DOMAIN reports |-> reports[o[i]]]
           w == Values(other, f)
           v == Values(reports, f)
           p == [i \in DOMAIN w |-> o[i]]
<1>1. n \in Nat /\ DOMAIN reports = 1..n /\ IsFiniteSet(1..n) /\ DOMAIN other = 1..n
  BY LenProperties, FS_Interval
<1>2. o \in [1..n -> 1..n] /\ \A i, j \in 1..n : o[i] = o[j] => i = j
  BY <1>1, OrdersOnto
<1>3. \A k \in 1..n : \E i \in 1..n : o[i] = k
  BY <1>1, OrdersOnto
<1>4. /\ DOMAIN w = {i \in 1..n : reports[o[i]].figures[f] # NULL}
      /\ \A i \in DOMAIN w : w[i] = reports[o[i]].figures[f]
  BY <1>1 DEF Values
<1>5. /\ DOMAIN v = {i \in 1..n : reports[i].figures[f] # NULL}
      /\ \A i \in DOMAIN v : v[i] = reports[i].figures[f]
  BY <1>1 DEF Values
<1> HIDE DEF w, v, other
<1>6. p \in [DOMAIN w -> DOMAIN v] /\ \A i \in DOMAIN w : p[i] = o[i] /\ w[i] = v[p[i]]
  BY <1>2, <1>4, <1>5
<1>7. \A i, j \in DOMAIN w : p[i] = p[j] => i = j
  BY <1>2, <1>4
<1>8. \A k \in DOMAIN v : \E i \in DOMAIN w : p[i] = k
  BY <1>3, <1>4, <1>5
<1>9. IsFiniteSet(DOMAIN w)
  <2>1. DOMAIN w \in SUBSET (1..n)
    BY <1>4
  <2> QED  BY <1>1, <2>1, FS_Subset
<1> HIDE DEF p
<1>10. Renumbers(p, w, v)
  BY <1>6, <1>7, <1>8 DEF Renumbers
<1> QED  BY <1>9, <1>10 DEF w, v, other

\* In another order they give the same figures, and agree as well.
LEMMA SameFigures ==
  ASSUME results \in Seq(Readings), Mergeable(results), NEW o \in Orders(Len(results))
  PROVE  LET other == [i \in DOMAIN results |-> results[o[i]]] IN
         /\ Merged(other).figures = Merged(results).figures
         /\ Merged(other).confidence = Merged(results).confidence
<1> DEFINE other == [i \in DOMAIN results |-> results[o[i]]]
<1>2. \A f \in Fields : \E p : /\ Renumbers(p, Values(other, f), Values(results, f))
                               /\ IsFiniteSet(DOMAIN Values(other, f))
  BY ReorderedValues
<1> HIDE DEF other
<1>3. ASSUME NEW f \in Fields
      PROVE  /\ Count(Values(other, f)) = Count(Values(results, f))
             /\ Figure(Values(other, f)) = Figure(Values(results, f))
             /\ Count(Values(results, f)) >= 2 => (Close(Values(other, f)) <=> Close(Values(results, f)))
  <2> DEFINE w == Values(other, f)
             v == Values(results, f)
  <2>1. PICK p : Renumbers(p, w, v) /\ IsFiniteSet(DOMAIN w)
    BY <1>2
  <2>2. Count(v) >= 2 => \A i \in DOMAIN v : v[i] \in Int
    BY SharedValues DEF Shared
  <2> HIDE DEF w, v
  <2>3. Count(w) = Count(v)
    BY <2>1, RenumberedSame
  <2>4. Figure(w) = Figure(v) /\ (Count(v) >= 2 => (Close(w) <=> Close(v)))
    BY <2>1, <2>2, RenumberedFigure
  <2> QED  BY <2>3, <2>4 DEF w, v
<1>4. Shared(other) = Shared(results)
  BY <1>3 DEF Shared
<1>5. Agreed(other) = Agreed(results)
  BY <1>3, <1>4 DEF Agreed, Shared
<1>6. AgreePct(other) = AgreePct(results)
  BY <1>4, <1>5 DEF AgreePct
<1>7. [f \in Fields |-> Figure(Values(other, f))] = [f \in Fields |-> Figure(Values(results, f))]
  BY <1>3
<1>8. /\ \A r : Merged(r).figures = [f \in Fields |-> Figure(Values(r, f))]
      /\ \A r : Merged(r).confidence = Level(AgreePct(r))
  BY DEF Merged
<1> QED  BY <1>6, <1>7, <1>8 DEF other

\* Which provider finishes first decides neither the figures nor how sure the
\* consensus says it is (_build_consensus).
THEOREM OrderDecidesNothing == Spec => []ArrivalDecidesNothing
<1>1. DataInv => ArrivalDecidesNothing
  BY SameFigures DEF ArrivalDecidesNothing, DataInv, Several
<1> QED  BY <1>1, MergeInvariant, PTL

-----------------------------------------------------------------------------
(* The lines of a merge                                                    *)

\* Where the lines of some readings are, and what is there.
Places(r) == UNION {{p} \X DOMAIN r[p].items : p \in DOMAIN r}
LineAt(r, x) == r[x[1]].items[x[2]]
Before(y, x) == y[1] < x[1] \/ (y[1] = x[1] /\ y[2] < x[2])

LEMMA PlacesAre ==
  ASSUME NEW r \in Seq(Readings)
  PROVE  /\ IsFiniteSet(Places(r))
         /\ \A x \in Places(r) : /\ x = <<x[1], x[2]>> /\ x[1] \in DOMAIN r
                                 /\ x[2] \in DOMAIN r[x[1]].items
                                 /\ x[1] \in Nat /\ x[2] \in Nat /\ LineAt(r, x) \in Item
         /\ \A p \in DOMAIN r : \A i \in DOMAIN r[p].items : <<p, i>> \in Places(r)
<1>1. DOMAIN r = 1..Len(r) /\ Len(r) \in Nat /\ \A p \in DOMAIN r : r[p] \in Readings
  BY LenProperties, ElementOfSeq
<1>2. \A p \in DOMAIN r : /\ r[p].items \in Seq(Item)
                          /\ DOMAIN r[p].items = 1..Len(r[p].items)
                          /\ Len(r[p].items) \in Nat
                          /\ \A i \in DOMAIN r[p].items : r[p].items[i] \in Item
  <2> SUFFICES ASSUME NEW p \in DOMAIN r
               PROVE  /\ r[p].items \in Seq(Item)
                      /\ DOMAIN r[p].items = 1..Len(r[p].items)
                      /\ Len(r[p].items) \in Nat
                      /\ \A i \in DOMAIN r[p].items : r[p].items[i] \in Item
    OBVIOUS
  <2>1. r[p].items \in Seq(Item)
    BY <1>1, ReadingsAssumption
  <2> QED  BY <2>1, LenProperties, ElementOfSeq
<1>3. IsFiniteSet(Places(r))
  <2> DEFINE Of(p) == {p} \X DOMAIN r[p].items
             T == {Of(p) : p \in DOMAIN r}
  <2>1. IsFiniteSet(DOMAIN r)
    BY <1>1, FS_Interval
  <2>2. \A p \in DOMAIN r : IsFiniteSet(Of(p))
    <3> SUFFICES ASSUME NEW p \in DOMAIN r PROVE IsFiniteSet(Of(p))
      OBVIOUS
    <3>1. IsFiniteSet({p})
      BY FS_Singleton
    <3>2. IsFiniteSet(DOMAIN r[p].items)
      <4>1. Len(r[p].items) \in Int /\ DOMAIN r[p].items = 1..Len(r[p].items) /\ 1 \in Int
        BY <1>2
      <4> QED  BY <4>1, FS_Interval
    <3> QED  BY <3>1, <3>2, FS_Product
  <2>3. IsFiniteSet(T)
    <3> DEFINE g == [p \in DOMAIN r |-> Of(p)]
    <3>1. g \in [DOMAIN r -> T] /\ \A t \in T : \E p \in DOMAIN r : g[p] = t
      OBVIOUS
    <3> HIDE DEF g, T
    <3>2. g \in Surjection(DOMAIN r, T)
      BY <3>1 DEF Surjection
    <3> QED  BY <2>1, <3>2, FS_Surjection
  <2>4. \A S \in T : IsFiniteSet(S)
    BY <2>2
  <2> HIDE DEF T
  <2>5. IsFiniteSet(UNION T)
    BY <2>3, <2>4, FS_UNION
  <2> QED  BY <2>5 DEF Places, T
<1>4. ASSUME NEW x \in Places(r)
      PROVE  /\ x = <<x[1], x[2]>> /\ x[1] \in DOMAIN r /\ x[2] \in DOMAIN r[x[1]].items
             /\ x[1] \in Nat /\ x[2] \in Nat /\ LineAt(r, x) \in Item
  <2>1. PICK p \in DOMAIN r : x \in {p} \X DOMAIN r[p].items
    BY <1>4 DEF Places
  <2>2. x = <<x[1], x[2]>> /\ x[1] = p /\ x[2] \in DOMAIN r[p].items
    BY <2>1
  <2> QED  BY <1>1, <1>2, <2>2 DEF LineAt
<1>5. ASSUME NEW p \in DOMAIN r, NEW i \in DOMAIN r[p].items PROVE <<p, i>> \in Places(r)
  BY <1>5 DEF Places
<1> QED  BY <1>3, <1>4, <1>5

LEMMA LinesAre ==
  ASSUME NEW r \in Seq(Readings)
  PROVE  /\ DOMAIN Lines(r) = {x \in Places(r) :
               \A y \in Places(r) : Before(y, x) => LineAt(r, y).name # LineAt(r, x).name}
         /\ \A x \in DOMAIN Lines(r) : Lines(r)[x] = LineAt(r, x) /\ Lines(r)[x] \in Item
         /\ IsFiniteSet(DOMAIN Lines(r))
<1> DEFINE first == {x \in Places(r) :
               \A y \in Places(r) : Before(y, x) => LineAt(r, y).name # LineAt(r, x).name}
<1>1. Lines(r) = [x \in first |-> LineAt(r, x)]
  BY DEF Lines, Places, Before, LineAt
<1>2. IsFiniteSet(first) /\ first \subseteq Places(r)
  <2>1. first \in SUBSET Places(r)
    OBVIOUS
  <2> HIDE DEF first
  <2> QED  BY <2>1, PlacesAre, FS_Subset
<1>3. \A x \in first : LineAt(r, x) \in Item
  BY <1>2, PlacesAre
<1>4. DOMAIN Lines(r) = first /\ \A x \in first : Lines(r)[x] = LineAt(r, x)
  BY <1>1
<1> QED  BY <1>2, <1>3, <1>4

\* Each name that is listed is listed somewhere first.
LEMMA FirstOf ==
  ASSUME NEW r \in Seq(Readings), NEW x \in Places(r)
  PROVE  \E y \in DOMAIN Lines(r) : Lines(r)[y].name = LineAt(r, x).name
<1> DEFINE a == LineAt(r, x).name
           Of(p) == {i \in DOMAIN r[p].items : r[p].items[i].name = a}
           P == {p \in DOMAIN r : Of(p) # {}}
<1>1. /\ x[1] \in DOMAIN r /\ x[2] \in DOMAIN r[x[1]].items /\ r[x[1]].items[x[2]].name = a
      /\ DOMAIN r \subseteq Nat
  <2>1. DOMAIN r \subseteq Nat
    BY LenProperties
  <2> QED  BY <2>1, PlacesAre DEF LineAt
<1>2. P \subseteq Nat /\ P # {}
  BY <1>1
<1>3. PICK p \in P : \A k \in P : p <= k
  <2> HIDE DEF P
  <2> QED  BY <1>2, LeastOf
<1>4. Of(p) \subseteq Nat /\ Of(p) # {} /\ p \in DOMAIN r /\ p \in Nat
  <2>1. p \in DOMAIN r /\ Of(p) # {}
    BY <1>3
  <2>2. \A i \in DOMAIN r[p].items : <<p, i>> \in Places(r) /\ <<p, i>>[2] \in Nat
    BY <2>1, PlacesAre
  <2> QED  BY <1>1, <2>1, <2>2
<1>5. PICK i \in Of(p) : \A k \in Of(p) : i <= k
  <2> HIDE DEF Of
  <2> QED  BY <1>4, LeastOf
<1> DEFINE y == <<p, i>>
<1>6. y \in Places(r) /\ LineAt(r, y).name = a /\ i \in Nat
  BY <1>4, <1>5, PlacesAre DEF LineAt
<1>7. ASSUME NEW z \in Places(r), Before(z, y), LineAt(r, z).name = a PROVE FALSE
  <2>1. z[1] \in DOMAIN r /\ z[2] \in DOMAIN r[z[1]].items /\ z[1] \in Nat /\ z[2] \in Nat
    BY PlacesAre
  <2>2. z[2] \in Of(z[1]) /\ z[1] \in P
    BY <1>7, <2>1 DEF LineAt
  <2>3. p <= z[1]
    BY <1>3, <2>2
  <2>4. z[1] = p /\ z[2] < i
    BY <1>4, <1>7, <2>1, <2>3 DEF Before
  <2>5. i <= z[2]
    BY <1>5, <2>2, <2>4
  <2> QED  BY <1>6, <2>1, <2>4, <2>5
<1>8. y \in DOMAIN Lines(r)
  BY <1>6, <1>7, LinesAre
<1> HIDE DEF y, a
<1> QED  BY <1>6, <1>8, LinesAre DEF a

\* No name is kept twice.
LEMMA OnlyOnce ==
  ASSUME NEW r \in Seq(Readings), NEW x \in DOMAIN Lines(r), NEW y \in DOMAIN Lines(r),
         Lines(r)[x].name = Lines(r)[y].name
  PROVE  x = y
<1>1. x \in Places(r) /\ y \in Places(r) /\ LineAt(r, x).name = LineAt(r, y).name
      /\ ~Before(y, x) /\ ~Before(x, y)
  BY LinesAre
<1>2. x = <<x[1], x[2]>> /\ y = <<y[1], y[2]>>
      /\ x[1] \in Nat /\ x[2] \in Nat /\ y[1] \in Nat /\ y[2] \in Nat
  BY <1>1, PlacesAre
<1>3. x[1] = y[1] /\ x[2] = y[2]
  BY <1>1, <1>2 DEF Before
<1> QED  BY <1>2, <1>3

\* Readings that agree on their lines and arrive in another order give the same
\* lines, renumbered.
LEMMA ReorderedLines ==
  ASSUME results \in Seq(Readings), LinesAgree, NEW o \in Orders(Len(results))
  PROVE  LET other == [i \in DOMAIN results |-> results[o[i]]] IN
         /\ IsFiniteSet(DOMAIN Lines(other))
         /\ \E p : Renumbers(p, Lines(other), Lines(results))
         /\ \A x \in DOMAIN Lines(results) : Lines(results)[x] \in Item
<1> DEFINE n == Len(results)
           other == [i \in DOMAIN results |-> results[o[i]]]
           w == Lines(other)
           v == Lines(results)
           p == [x \in DOMAIN w |-> CHOOSE y \in DOMAIN v : v[y].name = w[x].name]
<1>1. n \in Nat /\ DOMAIN results = 1..n
  BY LenProperties
<1>2. /\ o \in [1..n -> 1..n] /\ \A i, j \in 1..n : o[i] = o[j] => i = j
      /\ \A k \in 1..n : \E i \in 1..n : o[i] = k
  BY <1>1, OrdersOnto
<1>3. DOMAIN other = 1..n /\ other \in Seq(Readings) /\ \A i \in 1..n : other[i] = results[o[i]]
  <2>1. \A i \in 1..n : results[o[i]] \in Readings
    BY <1>1, <1>2, ElementOfSeq
  <2>2. other \in [1..n -> Readings]
    BY <1>1, <2>1
  <2>3. other \in Seq(Readings)
    BY <1>1, <2>2, SeqDef
  <2> QED  BY <1>1, <2>3
<1> HIDE DEF other, n
<1>4. ASSUME NEW x \in Places(other)
      PROVE  /\ <<o[x[1]], x[2]>> \in Places(results)
             /\ LineAt(results, <<o[x[1]], x[2]>>) = LineAt(other, x)
  <2>1. x[1] \in 1..n /\ x[2] \in DOMAIN other[x[1]].items
    BY <1>3, PlacesAre
  <2>2. o[x[1]] \in DOMAIN results /\ x[2] \in DOMAIN results[o[x[1]]].items
    BY <1>1, <1>2, <1>3, <2>1
  <2> QED  BY <1>3, <2>1, <2>2, PlacesAre DEF LineAt
<1>5. /\ \A x \in DOMAIN w : x \in Places(other) /\ w[x] = LineAt(other, x)
      /\ \A x \in DOMAIN w : \A y \in Places(other) :
           Before(y, x) => LineAt(other, y).name # LineAt(other, x).name
      /\ IsFiniteSet(DOMAIN w)
  BY <1>3, LinesAre
<1>6. /\ \A x \in DOMAIN v : x \in Places(results) /\ v[x] = LineAt(results, x) /\ v[x] \in Item
      /\ \A x \in DOMAIN v : \A y \in Places(results) :
           Before(y, x) => LineAt(results, y).name # LineAt(results, x).name
  BY LinesAre
<1>7. \A x \in DOMAIN w : \E y \in DOMAIN v : v[y].name = w[x].name
  <2> SUFFICES ASSUME NEW x \in DOMAIN w PROVE \E y \in DOMAIN v : v[y].name = w[x].name
    OBVIOUS
  <2>1. x \in Places(other)
    BY <1>5
  <2>2. <<o[x[1]], x[2]>> \in Places(results)
        /\ LineAt(results, <<o[x[1]], x[2]>>).name = w[x].name
    BY <1>4, <1>5, <2>1
  <2> QED  BY <2>2, FirstOf
<1>8. \A x, y \in DOMAIN w : w[x].name = w[y].name => x = y
  BY <1>3, OnlyOnce
<1>9. \A x, y \in DOMAIN v : v[x].name = v[y].name => x = y
  BY OnlyOnce
<1>10. \A y \in DOMAIN v : \E x \in DOMAIN w : w[x].name = v[y].name
  <2> SUFFICES ASSUME NEW y \in DOMAIN v PROVE \E x \in DOMAIN w : w[x].name = v[y].name
    OBVIOUS
  <2>1. y \in Places(results) /\ y[1] \in 1..n /\ y[2] \in DOMAIN results[y[1]].items
    BY <1>1, <1>6, PlacesAre
  <2>2. PICK i \in 1..n : o[i] = y[1]
    BY <1>2, <2>1
  <2>3. y[2] \in DOMAIN other[i].items /\ other[i].items[y[2]] = v[y]
    BY <1>3, <1>6, <2>1, <2>2 DEF LineAt
  <2>4. <<i, y[2]>> \in Places(other) /\ LineAt(other, <<i, y[2]>>) = v[y]
    BY <1>3, <2>3, PlacesAre DEF LineAt
  <2> QED  BY <1>3, <2>4, FirstOf
<1>11. ASSUME NEW x \in DOMAIN w, NEW y \in DOMAIN v, v[y].name = w[x].name PROVE v[y] = w[x]
  <2> DEFINE q == o[x[1]]
             i == x[2]
  <2>1. x \in Places(other) /\ y \in Places(results) /\ v[y] = LineAt(results, y)
    BY <1>5, <1>6
  <2>2. <<q, i>> \in Places(results) /\ w[x] = results[q].items[i]
    BY <1>4, <1>5, <2>1 DEF LineAt
  <2>3. /\ q \in DOMAIN results /\ i \in DOMAIN results[q].items /\ q \in Nat /\ i \in Nat
        /\ y[1] \in DOMAIN results /\ y[2] \in DOMAIN results[y[1]].items
        /\ y = <<y[1], y[2]>> /\ y[1] \in Nat /\ y[2] \in Nat
    <3> DEFINE t == <<q, i>>
    <3>1. t \in Places(results) /\ t[1] = q /\ t[2] = i
      BY <2>2
    <3> HIDE DEF t, q, i
    <3> QED  BY <2>1, <3>1, PlacesAre
  <2>4. v[y] = results[y[1]].items[y[2]]
    BY <2>1 DEF LineAt
  <2>5. CASE q # y[1]
    <3> HIDE DEF w, v, q, i
    <3>1. results[q].items[i].name = results[y[1]].items[y[2]].name
      BY <1>11, <2>2, <2>4
    <3>2. results[q].items[i] = results[y[1]].items[y[2]]
      BY <2>3, <2>5, <3>1 DEF LinesAgree
    <3> QED  BY <2>2, <2>4, <3>2
  <2>6. CASE q = y[1]
    <3>1. ~(i < y[2])
      <4>1. LineAt(results, <<q, i>>).name = v[y].name /\ LineAt(results, y) = v[y]
        BY <1>11, <2>1, <2>2 DEF LineAt
      <4>2. ~Before(<<q, i>>, y)
        BY <1>6, <2>2, <4>1
      <4> QED  BY <2>6, <4>2 DEF Before
    <3>2. ~(y[2] < i)
      <4> DEFINE t == <<x[1], y[2]>>
      <4>1. x[1] \in 1..n /\ other[x[1]] = results[q] /\ x = <<x[1], x[2]>>
        BY <1>3, <2>1, PlacesAre
      <4>2. t \in Places(other) /\ LineAt(other, t).name = LineAt(other, x).name
        <5>1. t \in Places(other)
          BY <1>3, <2>3, <2>6, <4>1, PlacesAre
        <5>2. LineAt(other, t) = v[y]
          BY <2>4, <2>6, <4>1 DEF LineAt
        <5> QED  BY <1>5, <1>11, <5>1, <5>2
      <4>3. ~Before(t, x)
        BY <1>5, <4>2
      <4> QED  BY <4>3 DEF Before
    <3>3. i = y[2]
      <4> HIDE DEF q, i
      <4> QED  BY <2>3, <3>1, <3>2
    <3> QED  BY <2>2, <2>4, <2>6, <3>3
  <2> QED  BY <2>5, <2>6
<1> HIDE DEF w, v
<1>12. \A x \in DOMAIN w : p[x] \in DOMAIN v /\ v[p[x]].name = w[x].name
  <2> SUFFICES ASSUME NEW x \in DOMAIN w PROVE p[x] \in DOMAIN v /\ v[p[x]].name = w[x].name
    OBVIOUS
  <2>1. p[x] = CHOOSE y \in DOMAIN v : v[y].name = w[x].name
    OBVIOUS
  <2> HIDE DEF p
  <2> QED  BY <1>7, <2>1
<1>13. p \in [DOMAIN w -> DOMAIN v]
  BY <1>12
<1> HIDE DEF p
<1>14. Renumbers(p, w, v)
  <2>1. \A x \in DOMAIN w : w[x] = v[p[x]]
    BY <1>11, <1>12
  <2>2. \A x, y \in DOMAIN w : p[x] = p[y] => x = y
    BY <1>8, <1>12
  <2>3. \A k \in DOMAIN v : \E x \in DOMAIN w : p[x] = k
    BY <1>9, <1>10, <1>12
  <2> QED  BY <1>13, <2>1, <2>2, <2>3 DEF Renumbers
<1> QED  BY <1>5, <1>6, <1>14 DEF w, v, other

\* Lines that are renumbered by p, and what the renumbering keeps.
Moved(p, w, v) ==
  /\ Renumbers(p, w, v) /\ IsFiniteSet(DOMAIN w)
  /\ \A x \in DOMAIN v : v[x].amount \in Int \cup {NULL}

Image(p, S) == {p[x] : x \in S}

LEMMA MovedRecategorized ==
  ASSUME NEW p, NEW w, NEW v, Renumbers(p, w, v), IsFiniteSet(DOMAIN w),
         \A x \in DOMAIN v : v[x] \in Item
  PROVE  Moved(p, Recategorized(w), Recategorized(v))
<1> DEFINE a == Recategorized(w)
           b == Recategorized(v)
<1>1. DOMAIN a = DOMAIN w /\ DOMAIN b = DOMAIN v
  BY DEF Recategorized
<1>2. \A x \in DOMAIN w : p[x] \in DOMAIN v /\ w[x] = v[p[x]]
  BY DEF Renumbers
<1>3. \A x \in DOMAIN w : a[x] = b[p[x]]
  BY <1>2 DEF Recategorized
<1>4. \A x \in DOMAIN v : b[x].amount \in Int \cup {NULL}
  <2> SUFFICES ASSUME NEW x \in DOMAIN v PROVE b[x].amount \in Int \cup {NULL}
    OBVIOUS
  <2>1. v[x] \in Item
    OBVIOUS
  <2>2. b[x].amount = v[x].amount
    BY <2>1 DEF Recategorized, Item
  <2> QED  BY <2>1, <2>2 DEF Item
<1> HIDE DEF a, b
<1>5. /\ p \in [DOMAIN a -> DOMAIN b] /\ \A x \in DOMAIN a : a[x] = b[p[x]]
      /\ \A x, y \in DOMAIN a : p[x] = p[y] => x = y
      /\ \A k \in DOMAIN b : \E x \in DOMAIN a : p[x] = k
  BY <1>1, <1>3, Zenon DEF Renumbers
<1>6. Renumbers(p, a, b)
  BY <1>5 DEF Renumbers
<1>7. IsFiniteSet(DOMAIN a) /\ \A x \in DOMAIN b : b[x].amount \in Int \cup {NULL}
  BY <1>1, <1>4
<1> QED  BY <1>6, <1>7 DEF Moved, a, b

\* The sums over some lines, and how many they are, stay.
LEMMA MovedTotal ==
  ASSUME NEW p, NEW w, NEW v, Moved(p, w, v), NEW S \in SUBSET DOMAIN w
  PROVE  /\ Image(p, S) \in SUBSET DOMAIN v
         /\ Total(w, S) = Total(v, Image(p, S)) /\ Cardinality(S) = Cardinality(Image(p, S))
         /\ \A x \in DOMAIN w : x \in S <=> p[x] \in Image(p, S)
<1> DEFINE T == Image(p, S)
           a == [x \in S |-> Amount(w[x])]
           b == [y \in T |-> Amount(v[y])]
<1>1. /\ p \in [DOMAIN w -> DOMAIN v] /\ \A x \in DOMAIN w : w[x] = v[p[x]]
      /\ \A x, y \in DOMAIN w : p[x] = p[y] => x = y
      /\ \A x \in DOMAIN v : v[x].amount \in Int \cup {NULL}
  BY DEF Moved, Renumbers
<1>2. IsFiniteSet(S) /\ S \in SUBSET DOMAIN p
  BY <1>1, FS_Subset DEF Moved
<1>3. T \in SUBSET DOMAIN v /\ \A x \in DOMAIN w : x \in S <=> p[x] \in T
  BY <1>1 DEF Image
<1>4. Cardinality(S) = Cardinality(T)
  <2>1. \A x, y \in S : p[x] = p[y] => x = y
    BY <1>1
  <2> QED  BY <1>2, <2>1, ImageSize DEF Image
<1>5. Sum(a) = Sum(b)
  <2> DEFINE c == [x \in S |-> p[x]]
  <2>1. DOMAIN a = S /\ DOMAIN b = T /\ \A x \in S : a[x] = b[c[x]] /\ c[x] \in T
    BY <1>1, <1>3
  <2>2. \A y \in T : b[y] \in Int
    <3> SUFFICES ASSUME NEW y \in T PROVE Amount(v[y]) \in Int
      OBVIOUS
    <3>1. v[y].amount \in Int \cup {NULL}
      BY <1>1, <1>3
    <3> QED  BY <3>1 DEF Amount
  <2>3. c \in [S -> T] /\ (\A x, y \in S : c[x] = c[y] => x = y) /\ \A y \in T : \E x \in S : c[x] = y
    BY <1>1, <2>1 DEF Image
  <2> HIDE DEF a, b, c, T
  <2>4. Renumbers(c, a, b)
    BY <2>1, <2>3 DEF Renumbers
  <2> QED  BY <1>2, <2>1, <2>2, <2>4, RenumberedSum
<1>6. Total(w, S) = Total(v, T)
  BY <1>5 DEF Total
<1> QED  BY <1>3, <1>4, <1>6 DEF T

\* A line is among the lines of a category, or one that sums the others, as
\* before.
LEMMA MovedRows ==
  ASSUME NEW p, NEW w, NEW v, Moved(p, w, v), NEW total, NEW c
  PROVE  /\ Rows(w, total, c) \in SUBSET DOMAIN w
         /\ Image(p, Rows(w, total, c)) = Rows(v, total, c)
  BY DEF Moved, Renumbers, Rows, Image

LEMMA MovedSums ==
  ASSUME NEW p, NEW w, NEW v, Moved(p, w, v), NEW S \in SUBSET DOMAIN w, NEW x \in S
  PROVE  SumsTheOthers(w, S, x) <=> SumsTheOthers(v, Image(p, S), p[x])
<1> DEFINE R == S \ {x}
<1>1. /\ p \in [DOMAIN w -> DOMAIN v] /\ \A y \in DOMAIN w : w[y] = v[p[y]]
      /\ \A y, z \in DOMAIN w : p[y] = p[z] => y = z
  BY DEF Moved, Renumbers
<1>2. Image(p, R) = Image(p, S) \ {p[x]}
  BY <1>1 DEF Image
<1>3. R \in SUBSET DOMAIN w
  OBVIOUS
<1>4. Total(w, R) = Total(v, Image(p, R)) /\ Cardinality(R) = Cardinality(Image(p, R))
  BY <1>3, MovedTotal
<1>5. (\A y \in R : w[x].amount >= Amount(w[y])) <=>
        (\A y \in Image(p, R) : v[p[x]].amount >= Amount(v[y]))
  BY <1>1, <1>3 DEF Image
<1>6. w[x] = v[p[x]]
  BY <1>1
<1>7. SumsTheOthers(w, S, x) <=>
        /\ Cardinality(R) >= 2 /\ w[x].amount # NULL /\ Total(w, R) > 0
        /\ \A y \in R : w[x].amount >= Amount(w[y])
        /\ Near(Total(w, R), w[x].amount)
  BY DEF SumsTheOthers
<1>8. SumsTheOthers(v, Image(p, S), p[x]) <=>
        /\ Cardinality(Image(p, R)) >= 2 /\ v[p[x]].amount # NULL /\ Total(v, Image(p, R)) > 0
        /\ \A y \in Image(p, R) : v[p[x]].amount >= Amount(v[y])
        /\ Near(Total(v, Image(p, R)), v[p[x]].amount)
  BY <1>2 DEF SumsTheOthers
<1> HIDE DEF R
<1> QED  BY <1>4, <1>5, <1>6, <1>7, <1>8

\* The same lines are taken for totals.
LEMMA MovedSubtotals ==
  ASSUME NEW p, NEW w, NEW v, Moved(p, w, v), NEW S \in SUBSET DOMAIN w
  PROVE  /\ Subtotals(w, S) \in SUBSET S
         /\ Image(p, Subtotals(w, S)) = Subtotals(v, Image(p, S))
<1> DEFINE T == Image(p, S)
           f == {x \in S : w[x].name \in Rollups \/ SumsTheOthers(w, S, x)}
           g == {y \in T : v[y].name \in Rollups \/ SumsTheOthers(v, T, y)}
           Repeats(i, j) == i.amount # NULL /\ Size(i.amount - Amount(j)) <= 2 * Fine
<1>1. /\ p \in [DOMAIN w -> DOMAIN v] /\ \A y \in DOMAIN w : w[y] = v[p[y]]
      /\ \A y, z \in DOMAIN w : p[y] = p[z] => y = z
  BY DEF Moved, Renumbers
<1>2. \A x \in S : SumsTheOthers(w, S, x) <=> SumsTheOthers(v, T, p[x])
  BY MovedSums
<1>3. \A x \in S : p[x] \in T /\ (x \in f <=> p[x] \in g)
  BY <1>1, <1>2 DEF Image
<1>4. \A y \in T : \E x \in S : y = p[x]
  BY DEF Image
<1>5. Subtotals(w, S) = f \cup {x \in S : \E z \in f : Repeats(w[x], w[z])}
  BY DEF Subtotals
<1>6. Subtotals(v, T) = g \cup {y \in T : \E z \in g : Repeats(v[y], v[z])}
  BY DEF Subtotals
<1>7. f \subseteq S /\ g \subseteq T
  OBVIOUS
<1> HIDE DEF f, g, Repeats, T
<1>8. \A x \in S : (\E z \in f : Repeats(w[x], w[z])) <=> (\E z \in g : Repeats(v[p[x]], v[z]))
  <2> SUFFICES ASSUME NEW x \in S
               PROVE  (\E z \in f : Repeats(w[x], w[z])) <=> (\E z \in g : Repeats(v[p[x]], v[z]))
    OBVIOUS
  <2>1. ASSUME NEW z \in f, Repeats(w[x], w[z]) PROVE \E y \in g : Repeats(v[p[x]], v[y])
    <3>1. w[x] = v[p[x]] /\ w[z] = v[p[z]] /\ p[z] \in g
      BY <1>1, <1>3, <1>7, <2>1
    <3> QED  BY <2>1, <3>1
  <2>2. ASSUME NEW y \in g, Repeats(v[p[x]], v[y]) PROVE \E z \in f : Repeats(w[x], w[z])
    <3>1. PICK z \in S : y = p[z]
      BY <1>4, <1>7, <2>2
    <3>2. w[x] = v[p[x]] /\ w[z] = v[p[z]] /\ z \in f
      BY <1>1, <1>3, <2>2, <3>1
    <3> QED  BY <2>2, <3>1, <3>2
  <2> QED  BY <2>1, <2>2
<1>9. \A x \in S : x \in Subtotals(w, S) <=> p[x] \in Subtotals(v, T)
  BY <1>3, <1>5, <1>6, <1>8
<1>10. Subtotals(w, S) \subseteq S /\ Subtotals(v, T) \subseteq T
  BY <1>5, <1>6, <1>7
<1>11. Image(p, Subtotals(w, S)) = Subtotals(v, T)
  BY <1>4, <1>9, <1>10 DEF Image
<1> QED  BY <1>10, <1>11 DEF T

\* A line keeps its role,
LEMMA MovedRoles ==
  ASSUME NEW p, NEW w, NEW v, Moved(p, w, v), NEW total, NEW x \in DOMAIN w
  PROVE  Roles(w, total)[x] = Roles(v, total)[p[x]]
<1> DEFINE c == Category(w[x])
           S == Rows(w, total, c)
<1>1. p[x] \in DOMAIN v /\ w[x] = v[p[x]]
  BY DEF Moved, Renumbers
<1>2. S \in SUBSET DOMAIN w /\ Image(p, S) = Rows(v, total, c)
  BY MovedRows
<1>3. Subtotals(w, S) \in SUBSET DOMAIN w /\ Image(p, Subtotals(w, S)) = Subtotals(v, Rows(v, total, c))
  <2> HIDE DEF S
  <2> QED  BY <1>2, MovedSubtotals
<1>4. x \in Subtotals(w, S) <=> p[x] \in Subtotals(v, Rows(v, total, c))
  <2> HIDE DEF S
  <2> QED  BY <1>3, MovedTotal
<1>5. Roles(w, total)[x] =
        IF IsGrandTotal(w[x], total) THEN "grand_total"
        ELSE IF c \notin Categories THEN NULL
        ELSE IF x \in Subtotals(w, S) THEN "subtotal" ELSE "detail"
  BY DEF Roles
<1>6. Roles(v, total)[p[x]] =
        IF IsGrandTotal(v[p[x]], total) THEN "grand_total"
        ELSE IF Category(v[p[x]]) \notin Categories THEN NULL
        ELSE IF p[x] \in Subtotals(v, Rows(v, total, Category(v[p[x]]))) THEN "subtotal" ELSE "detail"
  BY <1>1 DEF Roles
<1> QED  BY <1>1, <1>4, <1>5, <1>6

\* and a category its total.
LEMMA MovedSummary ==
  ASSUME NEW p, NEW w, NEW v, Moved(p, w, v), NEW figures
  PROVE  Summary(w, figures) = Summary(v, figures)
<1> DEFINE R(u, c) == Rows(u, AsFloat(figures["total_fees"]), c)
           Subs(u, c) == Subtotals(u, R(u, c))
           Details(u, c) == Total(u, R(u, c) \ Subs(u, c))
           Amounts(u, c) == {Amount(u[i]) : i \in Subs(u, c)}
<1>1. ASSUME NEW c
      PROVE  Details(w, c) = Details(v, c) /\ Amounts(w, c) = Amounts(v, c)
             /\ (Subs(w, c) = {} <=> Subs(v, c) = {})
  <2> DEFINE S == R(w, c)
             T == R(v, c)
             f == Subs(w, c)
             g == Subs(v, c)
  <2>1. S \in SUBSET DOMAIN w /\ Image(p, S) = T
    BY MovedRows
  <2>2. f \in SUBSET S /\ Image(p, f) = g
    <3> HIDE DEF R
    <3> QED  BY <2>1, MovedSubtotals
  <2> HIDE DEF R, Subs
  <2>3. /\ \A y \in DOMAIN w : w[y] = v[p[y]]
        /\ \A y, z \in DOMAIN w : p[y] = p[z] => y = z
    BY DEF Moved, Renumbers
  <2>4. Image(p, S \ f) = T \ g /\ S \ f \in SUBSET DOMAIN w
    <3> HIDE DEF S, T, f, g
    <3> QED  BY <2>1, <2>2, <2>3 DEF Image
  <2>5. Details(w, c) = Details(v, c)
    <3>1. Total(w, S \ f) = Total(v, Image(p, S \ f))
      BY <2>4, MovedTotal
    <3> QED  BY <2>4, <3>1
  <2>6. Amounts(w, c) = Amounts(v, c)
    <3>1. \A i \in f : Amount(w[i]) = Amount(v[p[i]])
      BY <2>1, <2>2, <2>3
    <3>2. g = {p[i] : i \in f}
      BY <2>2 DEF Image
    <3> QED  BY <3>1, <3>2
  <2>7. f = {} <=> g = {}
    BY <2>2 DEF Image
  <2> QED  BY <2>5, <2>6, <2>7
<1> DEFINE Stated(c) == IF c \in DOMAIN Scalar THEN AsFloat(figures[Scalar[c]]) ELSE NULL
           All(subs, amounts, details, c) ==
             IF Stated(c) # NULL THEN Stated(c)
             ELSE IF subs THEN Largest(amounts) ELSE details
           Of(subs, amounts, details, c) ==
             [total |-> ToHundredths(All(subs, amounts, details, c), 1), details |-> details,
              differs |-> /\ Stated(c) # NULL \/ subs
                          /\ details > 0
                          /\ Size(All(subs, amounts, details, c) - details) > 2500 * Fine
                          /\ 100 * Size(All(subs, amounts, details, c) - details)
                               > 15 * Size(All(subs, amounts, details, c))]
           Row(u, c) == Of(Subs(u, c) # {}, Amounts(u, c), Details(u, c), c)
<1>2. \A u : Summary(u, figures) = [c \in Categories |-> Row(u, c)]
  BY DEF Summary
<1>3. \A c : Row(w, c) = Row(v, c)
  <2> SUFFICES ASSUME NEW c PROVE Row(w, c) = Row(v, c)
    OBVIOUS
  <2>1. Details(w, c) = Details(v, c) /\ Amounts(w, c) = Amounts(v, c)
        /\ (Subs(w, c) = {} <=> Subs(v, c) = {})
    BY <1>1
  <2>2. (Subs(w, c) # {}) = (Subs(v, c) # {})
    BY <2>1
  <2> HIDE DEF Details, Amounts, Subs, Of
  <2> QED  BY <2>1, <2>2
<1> HIDE DEF Row
<1> QED  BY <1>2, <1>3

\* As long as the providers do not contradict each other on a line, the order
\* they finish in decides neither the totals nor what is taken for one
\* (_build_consensus, _reconcile_line_items).
THEOREM OrderDecidesNoTotal == Spec => []ArrivalDecidesNoTotal
<1>1. DataInv => ArrivalDecidesNoTotal
  <2> DEFINE Other(o) == [i \in DOMAIN results |-> results[o[i]]]
  <2> SUFFICES ASSUME DataInv, Several, LinesAgree, NEW o \in Orders(Len(results))
               PROVE  /\ Merged(Other(o)).summary = data.summary
                      /\ Tagged(Merged(Other(o))) = Tagged(data)
    BY DEF ArrivalDecidesNoTotal
  <2> DEFINE other == Other(o)
             mine == Merged(results)
             theirs == Merged(other)
  <2>1. results \in Seq(Readings) /\ Mergeable(results) /\ data = mine
    BY DEF DataInv, Several
  <2>2. mine.figures = theirs.figures
    BY <2>1, SameFigures
  <2>3. PICK p : Renumbers(p, Lines(other), Lines(results))
    BY <2>1, ReorderedLines
  <2>4. IsFiniteSet(DOMAIN Lines(other)) /\ \A x \in DOMAIN Lines(results) : Lines(results)[x] \in Item
    BY <2>1, ReorderedLines
  <2> HIDE DEF other
  <2>5. Moved(p, Recategorized(Lines(other)), Recategorized(Lines(results)))
    BY <2>3, <2>4, MovedRecategorized
  <2>6. \A r : /\ Merged(r).items = Recategorized(Lines(r))
               /\ Merged(r).roles = Roles(Merged(r).items, AsFloat(Merged(r).figures["total_fees"]))
               /\ Merged(r).summary = Summary(Merged(r).items, Merged(r).figures)
    BY DEF Merged
  <2> DEFINE w == theirs.items
             v == mine.items
             total == AsFloat(mine.figures["total_fees"])
  <2>7. /\ Moved(p, w, v)
        /\ mine.roles = Roles(v, total) /\ theirs.roles = Roles(w, total)
        /\ mine.summary = Summary(v, mine.figures) /\ theirs.summary = Summary(w, mine.figures)
    BY <2>2, <2>5, <2>6
  <2> HIDE DEF mine, theirs, w, v, total
  <2>8. theirs.summary = mine.summary
    BY <2>7, MovedSummary
  <2>9. Tagged(theirs) = Tagged(mine)
    <3>1. \A x \in DOMAIN w : w[x] = v[p[x]] /\ p[x] \in DOMAIN v
                              /\ theirs.roles[x] = mine.roles[p[x]]
      <4> SUFFICES ASSUME NEW x \in DOMAIN w
                   PROVE  w[x] = v[p[x]] /\ p[x] \in DOMAIN v /\ theirs.roles[x] = mine.roles[p[x]]
        OBVIOUS
      <4>1. w[x] = v[p[x]] /\ p[x] \in DOMAIN v
        BY <2>7 DEF Moved, Renumbers
      <4>2. Roles(w, total)[x] = Roles(v, total)[p[x]]
        BY <2>7, MovedRoles
      <4> QED  BY <2>7, <4>1, <4>2
    <3>2. \A y \in DOMAIN v : \E x \in DOMAIN w : p[x] = y
      BY <2>7 DEF Moved, Renumbers
    <3>3. /\ Tagged(theirs) = {<<w[x], theirs.roles[x]>> : x \in DOMAIN w}
          /\ Tagged(mine) = {<<v[y], mine.roles[y]>> : y \in DOMAIN v}
      BY DEF Tagged, w, v
    <3>4. {<<w[x], theirs.roles[x]>> : x \in DOMAIN w} \subseteq {<<v[y], mine.roles[y]>> : y \in DOMAIN v}
      BY <3>1
    <3>5. {<<v[y], mine.roles[y]>> : y \in DOMAIN v} \subseteq {<<w[x], theirs.roles[x]>> : x \in DOMAIN w}
      BY <3>1, <3>2
    <3> QED  BY <3>3, <3>4, <3>5
  <2> QED  BY <2>1, <2>8, <2>9 DEF mine, theirs, other
<1> QED  BY <1>1, MergeInvariant, PTL
=============================================================================
