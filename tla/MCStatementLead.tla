-------------------------- MODULE MCStatementLead --------------------------
(* Values of StatementLead's constants for TLC. *)
EXTENDS StatementLead, TLC

CONSTANTS p1, p2, p3

Volumes == {"monthly_volume", "credit_volume", "debit_volume", "visa_volume", "mc_volume",
            "amex_volume", "disc_volume"}
MCFields == Volumes \cup {"total_fees", "interchange_cost", "processor_markup",
                          "monthly_fees", "effective_rate"}

\* Line names: a fee of the processor, two that keep their category, a total
\* by name and the grand total.
MCRule == ("auth" :> "processor") @@ ("card charges" :> NULL) @@ ("discount" :> NULL)
       @@ ("total charges" :> NULL) @@ ("total fees due" :> NULL)

\* Figures are in half hundredths; the volumes are all the same.
Reading(fees, interchange, markup, rate, volume, items) ==
  [items |-> items,
   figures |-> ("total_fees" :> fees) @@ ("interchange_cost" :> interchange)
            @@ ("processor_markup" :> markup) @@ ("monthly_fees" :> NULL)
            @@ ("effective_rate" :> rate) @@ [f \in Volumes |-> volume]]

Line(name, amount, category) == [name |-> name, amount |-> amount, category |-> category]

Detailed == <<Line("auth", 2000, "misc"), Line("discount", 4000, "processor"),
              Line("total charges", 6000, "processor"), Line("total fees due", NULL, NULL)>>
Relabelled == <<Line("card charges", 6000, "processor"), Line("discount", 4000, "processor"),
                Line("total fees due", NULL, NULL)>>
Details == <<Line("discount", 4000, "processor"), Line("auth", 2000, "misc")>>
Whole == <<Line("card charges", 6000, "processor")>>
Contrary == <<Line("card charges", 6004, "processor"), Line("discount", 6000, NULL),
              Line("auth", 6000, NULL), Line("total charges", 6000, "interchange")>>

\* Two readings that agree, two that agree with one of them but on a figure or
\* on the volumes, and two with words for a figure; the lines of all but one
\* fit together.
MCReadings ==
  {Reading(20000, 12000, 6000, 575, 40000, Detailed),
   Reading(20800, 12100, 6200, 575, 40400, Relabelled),
   Reading(20000, 30000, NULL, 577, 40200, Details),
   Reading(20800, NULL, NULL, 601, 90000, Whole),
   Reading(200000, NULL, NULL, 620, TEXT, Contrary),
   Reading(20000, TEXT, NULL, 599, NULL, Relabelled)}

Interchangeable == Permutations(Providers)
=============================================================================
