---------------------------- MODULE StatementLead ----------------------------
(* One upload to the pricing tool (routers/pricing_tool.py): the extraction  *)
(* for staff, which first stores the file, and the public one, which saves a *)
(* lead and a merchant.  The providers' readings arrive in any order and are *)
(* merged by Consensus; ProviderQuorum has their caps, retries and timeouts. *)
EXTENDS Consensus

CONSTANTS Providers,  \* the providers with a key
          Readings,   \* what one of them may read: [figures, items]
          Printed,    \* fields the lead's message prints as numbers
          Columns     \* fields that become columns of the merchant

\* What a complete reading holds, after the parsing of the provider's answer.
Item == [name: DOMAIN Rule, amount: Int \cup {NULL}, category: STRING \cup {NULL}]

ASSUME ReadingsAssumption ==
  /\ IsFiniteSet(Providers)
  /\ {"effective_rate", "monthly_volume"} \subseteq Fields
  /\ \A r \in Readings : /\ r.figures \in [Fields -> Int \cup {NULL, TEXT}]
                         /\ r.items \in Seq(Item)

VARIABLES kind,       \* "staff" or "public"
          stage,      \* where the request is
          pending,    \* providers still running
          results,    \* complete readings, in order of arrival
          data,       \* the extraction, or NULL
          stored,     \* the file is in R2
          key,        \* r2_key was set
          broken,     \* a flush failed: the session refuses all further work
          added,      \* rows flushed in the open transaction
          rows,       \* rows that are committed
          answer,     \* what the caller is told
          failed      \* history: rows whose flush failed

vars == <<kind, stage, pending, results, data, stored, key, broken, added, rows, answer, failed>>

Stages == {"store", "run", "lead", "merchant", "commit", "grade", "done"}
Kinds == {"visitor", "merchant"}
Refused == [ok |-> FALSE, key |-> FALSE, merchant |-> FALSE]
Given(k, m) == [ok |-> TRUE, key |-> k, merchant |-> m]

RoundOver(done) == Len(done) >= Smallest({3, Cardinality(Providers)})

\* A run of one provider is its reading as it is, without roles or summary.
Single(r) ==
  [figures |-> r.figures, items |-> r.items, roles |-> <<>>,
   summary |-> NULL, confidence |-> "single", count |-> 1]

TypeOK ==
  /\ kind \in {"staff", "public"} /\ stage \in Stages
  /\ pending \subseteq Providers
  /\ stored \in BOOLEAN /\ key \in BOOLEAN /\ broken \in BOOLEAN
  /\ added \subseteq Kinds /\ rows \subseteq Kinds /\ failed \subseteq Kinds
  /\ answer \in [ok: BOOLEAN, key: BOOLEAN, merchant: BOOLEAN]

Init ==
  /\ kind \in {"staff", "public"}
  /\ stage = IF kind = "staff" THEN "store" ELSE "run"
  /\ pending = Providers /\ results = <<>> /\ data = NULL
  /\ stored = FALSE /\ key = FALSE /\ broken = FALSE
  /\ added = {} /\ rows = {} /\ failed = {} /\ answer = Refused

\* The key is kept when the upload fails: upload_to_r2 returns False, and only
\* an exception (a file that is not base64) clears it.
Store ==
  /\ stage = "store"
  /\ stage' = "run"
  /\ \/ key' = TRUE /\ stored' \in BOOLEAN
     \/ key' = FALSE /\ UNCHANGED stored
  /\ UNCHANGED <<kind, pending, results, data, broken, added, rows, answer, failed>>

\* A provider ends, with a complete reading or without one.
Reads(p) ==
  /\ stage = "run" /\ p \in pending /\ ~RoundOver(results)
  /\ pending' = pending \ {p}
  /\ results' \in {results} \cup {Append(results, r) : r \in Readings}
  /\ UNCHANGED <<kind, stage, data, stored, key, broken, added, rows, answer, failed>>

\* The loop ends; what is still running is cancelled.
EndRun ==
  /\ stage = "run" /\ (pending = {} \/ RoundOver(results))
  /\ pending' = {}
  /\ \/ /\ results = <<>> \/ ~Mergeable(results)
        /\ stage' = "done" /\ UNCHANGED <<data, answer>>
     \/ /\ results # <<>> /\ Mergeable(results)
        /\ data' = IF Len(results) = 1 THEN Single(results[1]) ELSE Merged(results)
        /\ IF kind = "staff"
           THEN stage' = "done" /\ answer' = Given(key, FALSE)
           ELSE stage' = "lead" /\ UNCHANGED answer
  /\ UNCHANGED <<kind, results, stored, key, broken, added, rows, failed>>

\* Variant: the failed flush is rolled back on its own and the session goes on.
FlushFails_Savepoint == FALSE

\* A failed flush rolls the whole transaction back and breaks the session.
FlushFails == TRUE

\* A row is built and flushed; every failure on the way is swallowed.
Save(row, converts) ==
  \/ /\ ~converts \/ broken
     /\ UNCHANGED <<broken, added, failed>>
  \/ /\ converts /\ ~broken
     /\ added' = added \cup {row} /\ UNCHANGED <<broken, failed>>
  \/ /\ converts /\ ~broken
     /\ failed' = failed \cup {row}
     /\ broken' = FlushFails
     /\ added' = IF FlushFails THEN {} ELSE added

Converts(fields) == \A f \in fields : data.figures[f] # TEXT

AddVisitor ==
  /\ stage = "lead" /\ stage' = "merchant"
  /\ Save("visitor", Converts(Printed))
  /\ UNCHANGED <<kind, pending, results, data, stored, key, rows, answer>>

AddMerchant ==
  /\ stage = "merchant" /\ stage' = "commit"
  /\ Save("merchant", Converts(Columns))
  /\ UNCHANGED <<kind, pending, results, data, stored, key, rows, answer>>

\* A broken session refuses the commit; the answer of a commit may be lost.
Commit ==
  /\ stage = "commit"
  /\ \/ ~broken /\ rows' = added /\ stage' \in {"grade", "done"}
     \/ stage' = "done" /\ UNCHANGED rows
  /\ UNCHANGED <<kind, pending, results, data, stored, key, broken, added, answer, failed>>

\* float(eff) and float(vol) are not guarded: a rate or a volume in words fails
\* the request here.
Grade ==
  /\ stage = "grade" /\ stage' = "done"
  /\ answer' = IF Converts({"effective_rate", "monthly_volume"})
               THEN Given(FALSE, "merchant" \in added) ELSE answer
  /\ UNCHANGED <<kind, pending, results, data, stored, key, broken, added, rows, failed>>

Next ==
  \/ Store
  \/ \E p \in Providers : Reads(p)
  \/ EndRun
  \/ AddVisitor
  \/ AddMerchant
  \/ Commit
  \/ Grade

Spec == Init /\ [][Next]_vars

-----------------------------------------------------------------------------
Several == data # NULL /\ data.count >= 2

Readers(f) == {i \in DOMAIN results : results[i].figures[f] # NULL}
Read(f) == {results[i].figures[f] : i \in Readers(f)}

\* A figure that one provider alone reads is kept as it is; one that several
\* read lies between their readings, or at most half a hundredth outside; and
\* there is none when nobody has one (_build_consensus).
FiguresBetweenReadings ==
  Several => \A f \in Fields :
    LET merged == data.figures[f] IN
    IF Cardinality(Readers(f)) <= 1
    THEN IF Read(f) = {} THEN merged = NULL ELSE Read(f) = {merged}
    ELSE /\ 2 * (Smallest(Read(f)) - merged) <= Fine
         /\ 2 * (merged - Largest(Read(f))) <= Fine

Orders(n) == {o \in [1..n -> 1..n] : \A i, j \in 1..n : o[i] = o[j] => i = j}

\* Which provider finishes first decides neither the figures nor how sure the
\* consensus says it is (_build_consensus, over results in order of arrival).
ArrivalDecidesNothing ==
  Several => \A o \in Orders(Len(results)) :
    LET other == Merged([i \in DOMAIN results |-> results[o[i]]]) IN
    other.figures = data.figures /\ other.confidence = data.confidence

\* Two providers that list a line of one name list the same line.
LinesAgree ==
  \A p, q \in DOMAIN results :
    \A i \in DOMAIN results[p].items, j \in DOMAIN results[q].items :
      p # q /\ results[p].items[i].name = results[q].items[j].name =>
        results[p].items[i] = results[q].items[j]

\* The lines of a merge, each with its role.
Tagged(merge) == {<<merge.items[x], merge.roles[x]>> : x \in DOMAIN merge.items}

\* As long as the providers do not contradict each other on a line, the order
\* they finish in decides neither the total of a category nor which lines are
\* taken for totals (_reconcile_line_items, over lines in order of arrival).
ArrivalDecidesNoTotal ==
  Several /\ LinesAgree => \A o \in Orders(Len(results)) :
    LET other == Merged([i \in DOMAIN results |-> results[o[i]]]) IN
    other.summary = data.summary /\ Tagged(other) = Tagged(data)

\* m is within 5% of x, or within 5, up to the rounding to hundredths.
InBand(m, x) ==
  LET gap == Size(m - x) IN
  2 * gap <= 1001 * Fine \/ 40 * gap <= 2 * Size(m) + 21 * Fine

Astray == {f \in Shared(results) : \E x \in Read(f) : ~InBand(data.figures[f], x)}

\* In a certified consensus at most one in ten of the fields that several
\* providers read has a reading further from the merged figure than 5%, or 5:
\* the rounding of the percentage lets no more through, with the 28 fields of
\* _build_consensus.
CertifiedNearAll ==
  Several /\ data.confidence = "certified" =>
    10 * Cardinality(Astray) <= Cardinality(Shared(results))

\* A database error while the lead is saved leaves no row behind, and a caller
\* who is told of a merchant finds it (public_extract swallows both errors and
\* commits on the same session).
LeadWhole ==
  /\ failed # {} => rows = {} /\ ~answer.ok
  /\ answer.merchant => "merchant" \in rows

\* What the properties of a merge need to know of it: it is made of the
\* readings that arrived, once, when the run ends.
DataInv ==
  /\ results \in Seq(Readings)
  /\ stage \in {"store", "run"} => data = NULL
  /\ data # NULL =>
       \/ data.count = 1
       \/ Len(results) >= 2 /\ Mergeable(results) /\ data = Merged(results)

\* The inductive invariant behind LeadWhole: where the request is says what
\* is committed, and a failed flush leaves nothing to commit.
LeadInv ==
  /\ TypeOK /\ LeadWhole
  /\ failed # {} => broken /\ added = {}
  /\ stage \in {"store", "run", "lead"} => failed = {}
  /\ stage \notin {"grade", "done"} => rows = {}
  /\ stage = "grade" => rows = added /\ failed = {}
  /\ stage # "done" => answer = Refused
=============================================================================
