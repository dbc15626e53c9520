------------------------------ MODULE Consensus ------------------------------
(* The merge of several providers' readings of one statement                 *)
(* (services/ai_providers.py: _build_consensus, _recategorize_line_items,    *)
(* _reconcile_line_items).  A figure is in units finer than the hundredths   *)
(* it is rounded to.  A line name stands for what the patterns see in it, up *)
(* to its case and its blanks.  The merchant's name, findings and verbatim   *)
(* quotes are left out.                                                      *)
EXTENDS Figures, Sequences

CONSTANTS Fields,        \* numeric_fields
          Fine,          \* units of a figure in a hundredth
          Rule,          \* _RECAT_RULES: line name -> category, or NULL
          Rollups,       \* line names of _ROLLUP_NAME_RE
          GrandTotals,   \* line names of _GRAND_TOTAL_NAME_RE
          TEXT,          \* a figure read as words
          NULL

\* _LINE_ITEM_CATS and _CATEGORY_SCALAR
Categories == {"interchange", "processor", "monthly", "misc"}
Scalar == [interchange |-> "interchange_cost", processor |-> "processor_markup",
           monthly |-> "monthly_fees"]

ASSUME FieldsAssumption ==
  /\ {"total_fees"} \cup {Scalar[c] : c \in DOMAIN Scalar} \subseteq Fields
  /\ IsFiniteSet(Fields) /\ Cardinality(Fields) <= 28
  /\ Fine \in Nat \ {0}

-----------------------------------------------------------------------------
(* Figures *)

\* Variant: a field a provider leaves out is read as zero.
Values_Zeros(reports, f) ==
  [i \in DOMAIN reports |-> IF reports[i].figures[f] = NULL THEN 0 ELSE reports[i].figures[f]]

Values(reports, f) ==
  LET given == {i \in DOMAIN reports : reports[i].figures[f] # NULL} IN
  [i \in given |-> reports[i].figures[f]]

\* Values within 5% of their mean, or within 5, of each other.
Close(v) ==
  LET spread == Largest(Range(v)) - Smallest(Range(v)) IN
  spread <= 500 * Fine \/ 100 * Count(v) * spread <= 5 * Size(Sum(v))

\* round(x / n, 2)
ToHundredths(x, n) == Fine * Rounded(x, n * Fine)

Average(v) == ToHundredths(Sum(v), Count(v))

\* Variant: the middle of the values as they came.
Median_AsTheyCame(v) ==
  ToHundredths(
    v[CHOOSE i \in DOMAIN v : Cardinality({j \in DOMAIN v : j <= i}) = Count(v) \div 2 + 1], 1)

Median(v) ==
  LET m == Count(v) \div 2 IN
  IF Count(v) % 2 = 1 THEN ToHundredths(Ranked(v, m + 1), 1)
  ELSE ToHundredths(Ranked(v, m) + Ranked(v, m + 1), 2)

\* A single reading is kept as it is.
Figure(v) ==
  IF Count(v) = 0 THEN NULL
  ELSE IF Count(v) = 1 THEN v[CHOOSE i \in DOMAIN v : TRUE]
  ELSE IF Close(v) THEN Average(v) ELSE Median(v)

Shared(reports) == {f \in Fields : Count(Values(reports, f)) >= 2}
Agreed(reports) == {f \in Shared(reports) : Close(Values(reports, f))}

AgreePct(reports) ==
  IF Shared(reports) = {} THEN 100
  ELSE Rounded(100 * Cardinality(Agreed(reports)), Cardinality(Shared(reports)))

\* Variant: a majority of the fields is enough.
Level_Majority(pct) == IF pct >= 50 THEN "certified" ELSE "review"

Level(pct) ==
  IF pct >= 90 THEN "certified"
  ELSE IF pct >= 70 THEN "high"
  ELSE IF pct >= 50 THEN "moderate" ELSE "review"

-----------------------------------------------------------------------------
(* Line items: [name, amount, category], with NULL for what is missing *)

\* Each line name once, as the first provider to finish reads it; a line stays
\* where it was: <<provider, line>>.
Lines(reports) ==
  LET places == UNION {{p} \X DOMAIN reports[p].items : p \in DOMAIN reports}
      line(x) == reports[x[1]].items[x[2]]
      before(y, x) == y[1] < x[1] \/ (y[1] = x[1] /\ y[2] < x[2])
      first == {x \in places : \A y \in places : before(y, x) => line(y).name # line(x).name} IN
  [x \in first |-> line(x)]

\* The first rule that matches the name decides; a name without a rule, and a
\* network fee that looks like an authorization, keep their category.
Recategorized(items) ==
  [i \in DOMAIN items |->
     IF Rule[items[i].name] = NULL THEN items[i]
     ELSE [items[i] EXCEPT !.category = Rule[items[i].name]]]

Category(it) == IF it.category = NULL THEN "misc" ELSE it.category
AsFloat(v) == IF v = TEXT THEN NULL ELSE v
Amount(it) == IF it.amount = NULL THEN 0 ELSE it.amount

\* Within 1, or 1% of b.
Near(a, b) == Size(a - b) <= 100 * Fine \/ 100 * Size(a - b) <= Size(b)

IsGrandTotal(it, total) ==
  \/ total # NULL /\ it.amount # NULL /\ Near(it.amount, total)
  \/ it.name \in GrandTotals

Rows(items, total, c) ==
  {i \in DOMAIN items : Category(items[i]) = c /\ ~IsGrandTotal(items[i], total)}

Total(items, S) == Sum([i \in S |-> Amount(items[i])])

\* Variant: a row is compared with those listed before it.
SumsTheOthers_SoFar(items, rows, i) ==
  LET others == {j \in rows : j[1] < i[1] \/ (j[1] = i[1] /\ j[2] < i[2])} IN
  /\ Cardinality(others) >= 2 /\ items[i].amount # NULL
  /\ Total(items, others) > 0
  /\ \A j \in others : items[i].amount >= Amount(items[j])
  /\ Near(Total(items, others), items[i].amount)

\* A row that is the sum of the others, and no smaller than any of them.
SumsTheOthers(items, rows, i) ==
  LET others == rows \ {i} IN
  /\ Cardinality(others) >= 2 /\ items[i].amount # NULL
  /\ Total(items, others) > 0
  /\ \A j \in others : items[i].amount >= Amount(items[j])
  /\ Near(Total(items, others), items[i].amount)

\* Rows named a total, rows that sum the others, and rows that repeat either.
Subtotals(items, rows) ==
  LET found == {i \in rows : items[i].name \in Rollups \/ SumsTheOthers(items, rows, i)} IN
  found \cup {i \in rows : \E j \in found : items[i].amount # NULL
                                           /\ Size(items[i].amount - Amount(items[j])) <= 2 * Fine}

\* A row of a category that is not one of the four gets no role.
Roles(items, total) ==
  [i \in DOMAIN items |->
     IF IsGrandTotal(items[i], total) THEN "grand_total"
     ELSE IF Category(items[i]) \notin Categories THEN NULL
     ELSE IF i \in Subtotals(items, Rows(items, total, Category(items[i])))
     THEN "subtotal" ELSE "detail"]

\* The stated figure of a category, or its largest subtotal, or its details.
Summary(items, figures) ==
  [c \in Categories |->
     LET rows == Rows(items, AsFloat(figures["total_fees"]), c)
         subs == Subtotals(items, rows)
         details == Total(items, rows \ subs)
         stated == IF c \in DOMAIN Scalar THEN AsFloat(figures[Scalar[c]]) ELSE NULL
         total == IF stated # NULL THEN stated
                  ELSE IF subs # {} THEN Largest({Amount(items[i]) : i \in subs})
                  ELSE details IN
     [total |-> ToHundredths(total, 1), details |-> details,
      differs |-> /\ stated # NULL \/ subs # {}
                  /\ details > 0
                  /\ Size(total - details) > 2500 * Fine
                  /\ 100 * Size(total - details) > 15 * Size(total)]]

\* Words among the values of a field that two providers report raise.
Mergeable(reports) == \A f \in Shared(reports) : TEXT \notin Range(Values(reports, f))

Merged(reports) ==
  LET figures == [f \in Fields |-> Figure(Values(reports, f))]
      items == Recategorized(Lines(reports)) IN
  [figures |-> figures, items |-> items,
   roles |-> Roles(items, AsFloat(figures["total_fees"])), summary |-> Summary(items, figures),
   confidence |-> Level(AgreePct(reports)), count |-> Len(reports)]
=============================================================================
