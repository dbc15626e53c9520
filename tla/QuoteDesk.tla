------------------------------ MODULE QuoteDesk ------------------------------
(* Quotes (routers/quotes.py): internal staff store priced deals, change     *)
(* their status and look at them, administrators also get a PDF of a new     *)
(* quote and delete quotes; prices are validated and deals analysed without  *)
(* touching a quote.  Every database step may fail and every answer may be   *)
(* lost; requests interleave at their database and storage calls.            *)
EXTENDS Pricing

CONSTANTS Tokens,     \* the bearer tokens in use: [user, role]
          Requests,   \* bounds the requests under way at once
          Ids,        \* bounds the ids the quotes' sequence gives out
          Statuses,   \* the statuses of a quote
          Deals,      \* prices to validate or to analyse
          Opinions    \* what the providers may answer together, in order

\* analyze_deal has four providers to ask.
ASSUME DeskAssumption ==
  /\ "draft" \in Statuses
  /\ Deals \subseteq [program: STRING, risk: STRING, state: STRING, model: STRING,
                     markup: Int, auth: Int]
  /\ \A s \in Opinions :
       /\ s \in Seq([program: STRING \cup {NULL}, win: Int \cup {NULL}, tips: BOOLEAN])
       /\ Len(s) <= 4

VARIABLES quotes,     \* the row of each id, or NULL
          used,       \* ids given out
          files,      \* quotes whose PDF is in R2
          req,        \* what each request is doing
          advice      \* the last answer about a price or a deal

vars == <<quotes, used, files, req, advice>>

Idle == [op |-> "none"]
Stages == {"refresh", "pdf", "write", "remove", "told"}
Quote == [by: {t.user : t \in Tokens}, status: Statuses, pdf: BOOLEAN]
View == [id: Ids, by: {t.user : t \in Tokens}, sponsor: BOOLEAN, pdf: BOOLEAN]
\* held: the statuses the row had since the request read it.
Request == [op: {"create", "status", "delete", "look"}, stage: Stages, token: Tokens,
            id: Ids \cup {NULL}, row: Quote \cup {NULL}, new: Statuses \cup {NULL},
            held: SUBSET Statuses, views: SUBSET View]

Internal(t) == t.role \in {"admin", "employee", "ic"}
IsAdmin(t) == t.role = "admin"
MayOpen(t, quote) == t.role \in {"employee", "ic"} => quote.by = t.user

\* Variant: the link to the PDF is left in a redacted answer.
Redacted_PdfKept(view) == [view EXCEPT !.sponsor = FALSE]

Redacted(view) == [view EXCEPT !.sponsor = FALSE, !.pdf = FALSE]

\* _to_response: only an administrator sees the sponsors and the PDF.
Response(t, id, row) ==
  LET full == [id |-> id, by |-> row.by, sponsor |-> TRUE, pdf |-> row.pdf] IN
  IF IsAdmin(t) THEN full ELSE Redacted(full)

\* A request on the row of an id, read or just stored.
On(op, stage, t, id, row, new) ==
  [op |-> op, stage |-> stage, token |-> t, id |-> id, row |-> row, new |-> new,
   held |-> {row.status}, views |-> {}]

Told(r, views) == [req EXCEPT ![r].stage = "told", ![r].views = views]
End(r) == [req EXCEPT ![r] = Idle]

\* The requests once the row of an id has a new status.
Noting(R, id, status) ==
  [r \in Requests |-> IF R[r] # Idle /\ R[r].id = id
                      THEN [R[r] EXCEPT !.held = @ \cup {status}] ELSE R[r]]

TypeOK ==
  /\ quotes \in [Ids -> Quote \cup {NULL}]
  /\ used \subseteq Ids /\ files \subseteq Ids
  /\ req \in [Requests -> Request \cup {Idle}]

Init ==
  /\ quotes = [id \in Ids |-> NULL] /\ used = {} /\ files = {}
  /\ req = [r \in Requests |-> Idle] /\ advice = NULL

-----------------------------------------------------------------------------
\* create_quote up to its first commit, which may fail, and whose answer may
\* be lost; the floors of a price are not looked at.
Create(r, t, id) ==
  /\ req[r] = Idle /\ Internal(t) /\ id \in Ids \ used
  /\ used' = used \cup {id}
  /\ LET row == [by |-> t.user, status |-> "draft", pdf |-> FALSE] IN
     \/ /\ quotes' = [quotes EXCEPT ![id] = row]
        /\ req' \in {req, [req EXCEPT ![r] = On("create", "refresh", t, id, row, NULL)]}
     \/ UNCHANGED <<quotes, req>>
  /\ UNCHANGED <<files, advice>>

\* db.refresh: a row that is gone, or a failure, ends the request.
Refresh(r) ==
  /\ req[r] # Idle /\ req[r].stage = "refresh"
  /\ LET q == req[r]
         row == quotes[q.id] IN
     \/ req' = End(r)
     \/ /\ row # NULL /\ IsAdmin(q.token)
        /\ req' = [req EXCEPT ![r] = On("create", "pdf", q.token, q.id, row, NULL)]
     \/ /\ row # NULL /\ ~IsAdmin(q.token)
        /\ req' = [req EXCEPT ![r] = [On("create", "told", q.token, q.id, row, NULL)
                                       EXCEPT !.views = {Response(q.token, q.id, row)}]]
  /\ UNCHANGED <<quotes, used, files, advice>>

\* Variant: what upload_quote_pdf returns is not looked at.
Uploaded_Unchecked(id, kept) == TRUE

\* upload_quote_pdf returns a key only when the object is stored.
Uploaded(id, kept) == id \in kept

\* The PDF of a new quote.  An upload may be stored and still count as failed.
\* Every failure is swallowed; one of the flush expires the row, so that the
\* answer fails too, one of the commit does not.
Pdf(r) ==
  /\ req[r] # Idle /\ req[r].stage = "pdf"
  /\ LET q == req[r]
         link == [q.row EXCEPT !.pdf = TRUE] IN
     \E kept \in {files, files \cup {q.id}} :
       /\ files' = kept
       /\ \/ /\ req' = Told(r, {Response(q.token, q.id, q.row)})
             /\ UNCHANGED quotes
          \/ /\ Uploaded(q.id, kept)
             /\ \/ quotes[q.id] # NULL /\ quotes' = [quotes EXCEPT ![q.id].pdf = TRUE]
                \/ UNCHANGED quotes
             /\ \/ quotes[q.id] # NULL /\ req' = Told(r, {Response(q.token, q.id, link)})
                \/ req' = End(r)
  /\ UNCHANGED <<used, advice>>

\* update_quote_status and delete_quote read the row, and refuse without it.
OpenStatus(r, t, id, new) ==
  /\ req[r] = Idle /\ Internal(t) /\ quotes[id] # NULL /\ MayOpen(t, quotes[id])
  /\ req' = [req EXCEPT ![r] = On("status", "write", t, id, quotes[id], new)]
  /\ UNCHANGED <<quotes, used, files, advice>>

OpenDelete(r, t, id) ==
  /\ req[r] = Idle /\ IsAdmin(t) /\ quotes[id] # NULL
  /\ req' = [req EXCEPT ![r] = On("delete", "remove", t, id, quotes[id], NULL)]
  /\ UNCHANGED <<quotes, used, files, advice>>

\* Variant: the object is merged, so that the row is inserted when it is gone
\* and takes every column from the object.
Written_Merge(id, row, new) == [row EXCEPT !.status = new]

\* The UPDATE sets the status alone, and fails when the row is gone.
Written(id, row, new) ==
  IF quotes[id] = NULL THEN NULL ELSE [quotes[id] EXCEPT !.status = new]

\* Variant: a failure of the commit is swallowed, as that of the PDF's is.
Acknowledges_Swallowed(wrote) == TRUE

Acknowledges(wrote) == wrote

\* A status equal to the one read is answered without an UPDATE.
SetStatus(r) ==
  /\ req[r] # Idle /\ req[r].stage = "write"
  /\ LET q == req[r]
         row == Written(q.id, q.row, q.new) IN
     \/ /\ q.new = q.row.status
        /\ req' = Told(r, {}) /\ UNCHANGED quotes
     \/ /\ q.new # q.row.status
        /\ \E wrote \in {row # NULL, FALSE}, R \in {Told(r, {}), End(r)} :
             /\ R = Told(r, {}) => Acknowledges(wrote)
             /\ quotes' = IF wrote THEN [quotes EXCEPT ![q.id] = row] ELSE quotes
             /\ req' = IF wrote THEN Noting(R, q.id, q.new) ELSE R
  /\ UNCHANGED <<used, files, advice>>

\* A row that is already gone is deleted without an error; the PDF stays.
Delete(r) ==
  /\ req[r] # Idle /\ req[r].stage = "remove"
  /\ \/ /\ quotes' = [quotes EXCEPT ![req[r].id] = NULL]
        /\ req' \in {Told(r, {}), End(r)}
     \/ UNCHANGED quotes /\ req' = End(r)
  /\ UNCHANGED <<used, files, advice>>

\* get_quote and list_quotes; a page or a filter leaves quotes out.
Look(r, t, S) ==
  /\ req[r] = Idle /\ Internal(t)
  /\ \A id \in S : quotes[id] # NULL /\ MayOpen(t, quotes[id])
  /\ req' = [req EXCEPT ![r] =
       [op |-> "look", stage |-> "told", token |-> t, id |-> NULL, row |-> NULL, new |-> NULL,
        held |-> {}, views |-> {Response(t, id, quotes[id]) : id \in S}]]
  /\ UNCHANGED <<quotes, used, files, advice>>

Leave(r) ==
  /\ req[r] # Idle /\ req[r].stage = "told"
  /\ req' = End(r)
  /\ UNCHANGED <<quotes, used, files, advice>>

\* validate_quote_pricing.
Validate(t, d) ==
  /\ Internal(t)
  /\ advice' = [token |-> t, deal |-> d, valid |-> Valid(t.role, d),
                review |-> NeedsApproval(t.role, d), opinions |-> <<>>, result |-> NULL]
  /\ UNCHANGED <<quotes, used, files, req>>

\* analyze_quote validates the price as that of any program, sold in Colorado
\* at interchange plus, and leaves the program out for all but administrators.
Analyze(t, deal, s) ==
  /\ Internal(t) /\ Answered(s)
  /\ LET d == [deal EXCEPT !.program = "all", !.state = "CO", !.model = "interchange_plus"]
         result == IF IsAdmin(t) THEN Advice(s) ELSE [Advice(s) EXCEPT !.program = NULL] IN
     advice' = [token |-> t, deal |-> d, valid |-> Valid(t.role, d),
                review |-> NeedsApproval(t.role, d), opinions |-> s, result |-> result]
  /\ UNCHANGED <<quotes, used, files, req>>

Work(r) ==
  \/ \E t \in Tokens, id \in Ids : Create(r, t, id)
  \/ Refresh(r)
  \/ Pdf(r)
  \/ \E t \in Tokens, id \in Ids, new \in Statuses : OpenStatus(r, t, id, new)
  \/ SetStatus(r)
  \/ \E t \in Tokens, id \in Ids : OpenDelete(r, t, id)
  \/ Delete(r)
  \/ \E t \in Tokens, S \in SUBSET Ids : Look(r, t, S)
  \/ Leave(r)

Advise ==
  \/ \E t \in Tokens, d \in Deals : Validate(t, d)
  \/ \E t \in Tokens, d \in Deals, s \in Opinions : Analyze(t, d, s)

Next == (\E r \in Requests : Work(r)) \/ Advise

Spec == Init /\ [][Next]_vars

-----------------------------------------------------------------------------
Telling == {r \in Requests : req[r] # Idle /\ req[r].stage = "told"}

\* Who is told of a status was right at some moment of the request, who is
\* told of a deletion finds no quote, and a PDF that a quote or an answer
\* names is stored, whatever other requests and failures come in between
\* (create_quote, update_quote_status and delete_quote).
AnswersTrue ==
  /\ \A r \in Telling :
       /\ req[r].op = "status" => req[r].new \in req[r].held
       /\ req[r].op = "delete" => quotes[req[r].id] = NULL
       /\ \A v \in req[r].views : v.pdf => v.id \in files
  /\ \A id \in Ids : quotes[id] # NULL /\ quotes[id].pdf => id \in files

\* An employee or an independent consultant is shown quotes of their own
\* alone, and neither sponsors, nor their sheet, nor the program of an
\* analysis, whoever they were when the quote was made (_to_response,
\* _redact_analysis, list_quotes and get_quote).
StaffSeeOwnTerms ==
  /\ \A r \in Telling : ~IsAdmin(req[r].token) =>
       \A v \in req[r].views : v.by = req[r].token.user /\ ~v.sponsor /\ ~v.pdf
  /\ advice # NULL /\ ~IsAdmin(advice.token) /\ advice.result # NULL =>
       advice.result.program = NULL

\* A change of status, which writes what it read before other requests wrote,
\* neither brings a deleted quote back nor undoes what they did: its author
\* stays and so does the link to its PDF (update_quote_status).
WritesKeepOthers ==
  [][\A id \in used :
       /\ quotes[id] = NULL => quotes'[id] = NULL
       /\ quotes[id] # NULL /\ quotes'[id] # NULL =>
            /\ quotes'[id].by = quotes[id].by
            /\ quotes[id].pdf => quotes'[id].pdf]_vars

\* A price that is valid for any of the staff is valid for an administrator,
\* for every program, risk, state and pricing model: no table of floors lets
\* staff sell below what the other counts as a loss (EMP_FLOORS, ADMIN_FLOORS,
\* validate_pricing).
FloorsNested == advice # NULL /\ advice.valid => Valid("admin", advice.deal)

\* The program that several providers recommend is one that no other program
\* has more of them behind; it is certified only when all of them are for it,
\* and the chance of winning lies between their answers, none of them 0
\* (_build_pricing_consensus).
ProgramBacked ==
  advice # NULL /\ Len(advice.opinions) > 1 =>
    LET s == advice.opinions
        chances == {s[i].win : i \in Chances(s)} IN
    /\ IsAdmin(advice.token) => \A i \in Named(s) :
         Cardinality(Backers(s, s[i].program)) <= Cardinality(Backers(s, advice.result.program))
    /\ advice.result.confidence = "certified" =>
         \A i, j \in DOMAIN s : s[i].program # NULL /\ s[i].program = s[j].program
    /\ chances # {} => \E low, high \in chances : low <= advice.result.win /\ advice.result.win <= high

\* The inductive invariant: the row that a request has read was given an id and
\* has kept its author, the status it read is among those it has held since,
\* and a request that makes a PDF is an administrator's.
IndInv ==
  /\ TypeOK /\ AnswersTrue /\ StaffSeeOwnTerms
  /\ \A id \in Ids : quotes[id] # NULL => id \in used
  /\ \A r \in Requests : req[r] # Idle /\ (req[r].op # "look" \/ req[r].stage # "told") =>
       /\ req[r].id \in used /\ req[r].row \in Quote
       /\ quotes[req[r].id] # NULL => quotes[req[r].id].by = req[r].row.by
       /\ req[r].row.status \in req[r].held
       /\ req[r].row.pdf => req[r].id \in files
       /\ req[r].stage = "refresh" => req[r].row.by = req[r].token.user
       /\ req[r].stage = "write" => req[r].op = "status" /\ req[r].new \in Statuses
       /\ req[r].stage = "remove" => req[r].op = "delete"
       /\ req[r].stage \in {"refresh", "pdf"} => req[r].op = "create"
       /\ req[r].stage = "pdf" => IsAdmin(req[r].token)
=============================================================================
