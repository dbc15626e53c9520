--------------------------- MODULE QuoteDeskProofs ---------------------------
(***************************************************************************)
(* Proofs about QuoteDesk for every set of tokens, quotes and prices.      *)
(***************************************************************************)
EXTENDS QuoteDesk, FiguresProofs, SequenceTheorems

\* What the invariant asks of one request, given the quotes, the ids given out
\* and the PDFs.
Fits(q, Q, U, F) ==
  \/ q = Idle
  \/ /\ q \in Request
     /\ q.stage = "told" =>
          /\ q.op = "status" => q.new \in q.held
          /\ q.op = "delete" => Q[q.id] = NULL
          /\ \A v \in q.views :
               /\ v.pdf => v.id \in F
               /\ ~IsAdmin(q.token) => v.by = q.token.user /\ ~v.sponsor /\ ~v.pdf
     /\ q.op # "look" \/ q.stage # "told" =>
          /\ q.id \in U /\ q.row \in Quote
          /\ Q[q.id] # NULL => Q[q.id].by = q.row.by
          /\ q.row.status \in q.held
          /\ q.row.pdf => q.id \in F
          /\ q.stage = "refresh" => q.row.by = q.token.user
          /\ q.stage = "write" => q.op = "status" /\ q.new \in Statuses
          /\ q.stage = "remove" => q.op = "delete"
          /\ q.stage \in {"refresh", "pdf"} => q.op = "create"
          /\ q.stage = "pdf" => IsAdmin(q.token)

\* ... and what it asks of the quotes.
RowsFit ==
  /\ quotes \in [Ids -> Quote \cup {NULL}] /\ used \subseteq Ids /\ files \subseteq Ids
  /\ \A id \in Ids : quotes[id] # NULL => id \in used /\ (quotes[id].pdf => id \in files)

AllFit ==
  /\ req \in [Requests -> Request \cup {Idle}]
  /\ \A r \in Requests : Fits(req[r], quotes, used, files)

AdviceFits ==
  advice # NULL /\ ~IsAdmin(advice.token) /\ advice.result # NULL => advice.result.program = NULL

\* The invariant, request by request.
LEMMA InParts == IndInv <=> RowsFit /\ AllFit /\ AdviceFits
<1>1. ASSUME IndInv PROVE RowsFit /\ AllFit /\ AdviceFits
  <2>1. RowsFit
    BY <1>1 DEF IndInv, TypeOK, AnswersTrue, RowsFit
  <2>2. AllFit
    <3> SUFFICES ASSUME NEW r \in Requests, req[r] # Idle
                 PROVE  Fits(req[r], quotes, used, files)
      BY <1>1 DEF IndInv, TypeOK, AllFit, Fits
    <3>1. req[r] \in Request
      BY <1>1 DEF IndInv, TypeOK
    <3>2. req[r].stage = "told" => r \in Telling
      BY DEF Telling
    <3>3. req[r].stage = "told" =>
            /\ req[r].op = "status" => req[r].new \in req[r].held
            /\ req[r].op = "delete" => quotes[req[r].id] = NULL
            /\ \A v \in req[r].views :
                 /\ v.pdf => v.id \in files
                 /\ ~IsAdmin(req[r].token) => v.by = req[r].token.user /\ ~v.sponsor /\ ~v.pdf
      BY <1>1, <3>2 DEF IndInv, AnswersTrue, StaffSeeOwnTerms
    <3> QED  BY <1>1, <3>1, <3>3 DEF IndInv, Fits
  <2>3. AdviceFits
    BY <1>1 DEF IndInv, StaffSeeOwnTerms, AdviceFits
  <2> QED  BY <2>1, <2>2, <2>3
<1>2. ASSUME RowsFit, AllFit, AdviceFits PROVE IndInv
  <2>1. TypeOK
    BY <1>2 DEF TypeOK, RowsFit, AllFit
  <2>2. AnswersTrue
    BY <1>2 DEF AnswersTrue, RowsFit, AllFit, Fits, Telling
  <2>3. StaffSeeOwnTerms
    BY <1>2 DEF StaffSeeOwnTerms, AdviceFits, AllFit, Fits, Telling
  <2>4. \A id \in Ids : quotes[id] # NULL => id \in used
    BY <1>2 DEF RowsFit
  <2> QED  BY <1>2, <2>1, <2>2, <2>3, <2>4 DEF IndInv, AllFit, Fits
<1> QED  BY <1>1, <1>2

\* Quotes that are gone stay gone, and the others keep their authors.
Follows(Q, Q2, U) == \A id \in U : Q2[id] # NULL => Q[id] # NULL /\ Q2[id].by = Q[id].by

\* A request that does nothing itself fits as long as ids and PDFs only grow
\* in number and the quotes follow the earlier ones.
LEMMA StillFits ==
  ASSUME NEW q, NEW Q, NEW U, NEW F, NEW Q2, NEW U2, NEW F2, Fits(q, Q, U, F),
         U \subseteq U2, F \subseteq F2, Follows(Q, Q2, U)
  PROVE  Fits(q, Q2, U2, F2)
<1>1. CASE q.op = "look" /\ q.stage = "told"
  BY <1>1 DEF Fits
<1>2. CASE q.op # "look" \/ q.stage # "told"
  BY <1>2 DEF Fits, Follows
<1> QED  BY <1>1, <1>2

\* ... also when it hears of one more status.
LEMMA FitsNoting ==
  ASSUME NEW q, NEW Q, NEW U, NEW F, NEW s \in Statuses, q # Idle, Fits(q, Q, U, F)
  PROVE  LET n == [q EXCEPT !.held = @ \cup {s}] IN
         n \in Request /\ Fits(n, Q, U, F)
<1> DEFINE n == [q EXCEPT !.held = @ \cup {s}]
<1>1. q \in Request
  BY DEF Fits
<1>2. /\ n \in Request
      /\ n.op = q.op /\ n.stage = q.stage /\ n.token = q.token /\ n.id = q.id
      /\ n.row = q.row /\ n.new = q.new /\ n.views = q.views /\ n.held = q.held \cup {s}
  BY <1>1 DEF Request
<1> HIDE DEF n
<1>3. Fits(n, Q, U, F)
  BY <1>2 DEF Fits
<1> QED  BY <1>2, <1>3 DEF n

\* The fields of a request that has just read or stored a row.
LEMMA OnFields ==
  ASSUME NEW op \in {"create", "status", "delete"}, NEW stage \in Stages,
         NEW t \in Tokens, NEW id \in Ids, NEW row \in Quote, NEW new \in Statuses \cup {NULL}
  PROVE  LET q == On(op, stage, t, id, row, new) IN
         /\ q \in Request /\ q.op = op /\ q.stage = stage /\ q.token = t /\ q.id = id
         /\ q.row = row /\ q.new = new /\ q.held = {row.status} /\ q.views = {}
  BY DEF On, Request, Quote

\* What a caller is shown of a quote they may open.
LEMMA ResponseFits ==
  ASSUME NEW t \in Tokens, Internal(t), NEW id \in Ids, NEW row \in Quote, MayOpen(t, row)
  PROVE  LET v == Response(t, id, row) IN
         /\ v \in View /\ v.id = id /\ (v.pdf => row.pdf)
         /\ ~IsAdmin(t) => v.by = t.user /\ ~v.sponsor /\ ~v.pdf
  BY DEF Response, Redacted, View, Quote, Internal, IsAdmin, MayOpen

\* A step of one request that leaves the others as they are.
LEMMA OneFits ==
  ASSUME IndInv, NEW r \in Requests, NEW q, q \in Request \cup {Idle},
         req' = [req EXCEPT ![r] = q], Fits(q, quotes', used', files'),
         used \subseteq used', files \subseteq files',
         Follows(quotes, quotes', used), RowsFit', AdviceFits'
  PROVE  IndInv'
<1>1. RowsFit /\ AllFit /\ AdviceFits
  BY InParts
<1>2. req' \in [Requests -> Request \cup {Idle}]
  BY <1>1 DEF AllFit
<1>3. ASSUME NEW x \in Requests PROVE Fits(req'[x], quotes', used', files')
  <2>1. CASE x = r
    BY <1>1, <2>1 DEF AllFit
  <2>2. CASE x # r
    <3>1. req'[x] = req[x] /\ Fits(req[x], quotes, used, files)
      BY <1>1, <2>2 DEF AllFit
    <3> QED  BY <3>1, StillFits
  <2> QED  BY <2>1, <2>2
<1>4. AllFit'
  BY <1>2, <1>3 DEF AllFit
<1> QED  BY <1>4, InParts, PTL


\* What an invariant says of the quotes and the requests of a step.
LEMMA Facts ==
  ASSUME IndInv, NEW r \in Requests
  PROVE  /\ RowsFit /\ AdviceFits /\ req \in [Requests -> Request \cup {Idle}]
         /\ Fits(req[r], quotes, used, files)
         /\ Idle \notin Request
  BY InParts DEF AllFit, Idle, Request

LEMMA InitInvariant == Init => IndInv
<1> SUFFICES ASSUME Init PROVE IndInv
  OBVIOUS
<1>1. RowsFit
  BY DEF Init, RowsFit
<1>2. AllFit
  BY DEF Init, AllFit, Fits
<1>3. AdviceFits
  BY DEF Init, AdviceFits
<1> QED  BY <1>1, <1>2, <1>3, InParts

\* A request that has just read a row fits.
LEMMA ReadFits ==
  ASSUME NEW op \in {"create", "status", "delete"}, NEW stage \in Stages \ {"told"},
         NEW t \in Tokens, NEW id \in Ids, NEW row \in Quote, NEW new \in Statuses \cup {NULL},
         NEW Q, NEW U, NEW F,
         id \in U, Q[id] # NULL => Q[id].by = row.by, row.pdf => id \in F,
         stage = "refresh" => row.by = t.user,
         stage = "write" => op = "status" /\ new \in Statuses, stage = "remove" => op = "delete",
         stage \in {"refresh", "pdf"} => op = "create", stage = "pdf" => IsAdmin(t)
  PROVE  /\ On(op, stage, t, id, row, new) \in Request
         /\ Fits(On(op, stage, t, id, row, new), Q, U, F)
<1> DEFINE q == On(op, stage, t, id, row, new)
<1>1. /\ q \in Request /\ q.op = op /\ q.stage = stage /\ q.token = t /\ q.id = id
      /\ q.row = row /\ q.new = new /\ q.held = {row.status} /\ q.views = {}
  BY OnFields
<1> HIDE DEF q
<1>2. Fits(q, Q, U, F)
  BY <1>1 DEF Fits
<1> QED  BY <1>1, <1>2 DEF q

\* A request is told something it may be shown, and true.
LEMMA ToldFits ==
  ASSUME NEW q \in Request, NEW views \in SUBSET View, NEW Q, NEW U, NEW F,
         Fits(q, Q, U, F), q.stage # "told", q.op # "look",
         \A v \in views : /\ v.pdf => v.id \in F
                          /\ ~IsAdmin(q.token) => v.by = q.token.user /\ ~v.sponsor /\ ~v.pdf,
         q.op = "status" => q.new \in q.held,
         q.op = "delete" => Q[q.id] = NULL
  PROVE  LET n == [q EXCEPT !.stage = "told", !.views = views] IN
         n \in Request /\ Fits(n, Q, U, F)
<1> DEFINE n == [q EXCEPT !.stage = "told", !.views = views]
<1>1. /\ n \in Request
      /\ n.op = q.op /\ n.stage = "told" /\ n.token = q.token /\ n.id = q.id
      /\ n.row = q.row /\ n.new = q.new /\ n.views = views /\ n.held = q.held
  BY DEF Request, Stages
<1> HIDE DEF n
<1>2. q # Idle
  BY DEF Idle, Request
<1>3. Fits(n, Q, U, F)
  BY <1>1, <1>2 DEF Fits
<1> QED  BY <1>1, <1>3 DEF n

LEMMA CreateStep ==
  ASSUME IndInv, NEW r \in Requests, NEW t \in Tokens, NEW id \in Ids, Create(r, t, id)
  PROVE  IndInv'
<1> DEFINE row == [by |-> t.user, status |-> "draft", pdf |-> FALSE]
           q == On("create", "refresh", t, id, row, NULL)
<1>0. RowsFit /\ AdviceFits /\ req \in [Requests -> Request \cup {Idle}]
  BY Facts
<1>1. /\ used' = used \cup {id} /\ id \notin used /\ files' = files /\ advice' = advice
      /\ req[r] = Idle
  BY DEF Create
<1>2. row \in Quote /\ ~row.pdf /\ row.by = t.user
  BY DeskAssumption DEF Quote
<1>3. quotes' \in {quotes, [quotes EXCEPT ![id] = row]}
  BY DEF Create
<1>4. RowsFit'
  BY <1>0, <1>1, <1>2, <1>3 DEF RowsFit
<1>5. AdviceFits'
  BY <1>0, <1>1 DEF AdviceFits
<1>6. Follows(quotes, quotes', used)
  BY <1>0, <1>1, <1>3 DEF RowsFit, Follows
<1>7. \/ req' = req
      \/ quotes' = [quotes EXCEPT ![id] = row] /\ req' = [req EXCEPT ![r] = q]
  BY DEF Create
<1>8. CASE req' = req
  <2>1. req' = [req EXCEPT ![r] = Idle]
    BY <1>0, <1>1, <1>8
  <2>2. Fits(Idle, quotes', used', files')
    BY DEF Fits
  <2> QED  BY <1>1, <1>4, <1>5, <1>6, <2>1, <2>2, OneFits
<1>9. CASE quotes' = [quotes EXCEPT ![id] = row] /\ req' = [req EXCEPT ![r] = q]
  <2>0. quotes'[id] = row
    BY <1>0, <1>9 DEF RowsFit
  <2>1. id \in used' /\ NULL \in Statuses \cup {NULL} /\ "refresh" \in Stages \ {"told"}
    BY <1>1 DEF Stages
  <2>2. q \in Request /\ Fits(q, quotes', used', files')
    <3> HIDE DEF row
    <3> QED  BY <1>2, <2>0, <2>1, ReadFits
  <2> HIDE DEF q
  <2> QED  BY <1>1, <1>4, <1>5, <1>6, <1>9, <2>2, OneFits
<1> QED  BY <1>7, <1>8, <1>9


\* What a request that is not yet told anything has read.
LEMMA Reading ==
  ASSUME IndInv, NEW r \in Requests, req[r] # Idle, req[r].stage # "told"
  PROVE  /\ req[r] \in Request /\ req[r].op \in {"create", "status", "delete"}
         /\ req[r].token \in Tokens /\ req[r].id \in Ids /\ req[r].id \in used
         /\ req[r].new \in Statuses \cup {NULL} /\ req[r].held \subseteq Statuses
         /\ req[r].row \in Quote /\ req[r].row.status \in req[r].held
         /\ req[r].row.pdf => req[r].id \in files
         /\ quotes[req[r].id] # NULL =>
              quotes[req[r].id] \in Quote /\ quotes[req[r].id].by = req[r].row.by
         /\ req[r].stage = "refresh" => req[r].row.by = req[r].token.user
         /\ req[r].stage \in {"refresh", "pdf"} => req[r].op = "create"
         /\ req[r].stage = "write" => req[r].op = "status" /\ req[r].new \in Statuses
         /\ req[r].stage = "remove" => req[r].op = "delete"
         /\ req[r].stage = "pdf" => IsAdmin(req[r].token)
<1> DEFINE q == req[r]
<1>1. RowsFit /\ q \in Request /\ Fits(q, quotes, used, files)
  BY Facts
<1>2. /\ q.op \in {"create", "status", "delete", "look"} /\ q.token \in Tokens
      /\ q.stage \in Stages /\ q.new \in Statuses \cup {NULL} /\ q.held \subseteq Statuses
  BY <1>1 DEF Request
<1>3. /\ q.id \in used /\ q.row \in Quote /\ q.row.status \in q.held
      /\ quotes[q.id] # NULL => quotes[q.id].by = q.row.by
      /\ q.row.pdf => q.id \in files
      /\ q.stage = "refresh" => q.row.by = q.token.user
      /\ q.stage = "write" => q.op = "status" /\ q.new \in Statuses
      /\ q.stage = "remove" => q.op = "delete"
      /\ q.stage \in {"refresh", "pdf"} => q.op = "create"
      /\ q.stage = "pdf" => IsAdmin(q.token)
  BY <1>1 DEF Fits
<1>4. q.id \in Ids /\ (quotes[q.id] # NULL => quotes[q.id] \in Quote)
  BY <1>1, <1>3 DEF RowsFit
<1>5. q.op # "look"
  BY <1>2, <1>3 DEF Stages
<1> QED  BY <1>1, <1>2, <1>3, <1>4, <1>5

\* The end of a request changes nothing else.
LEMMA EndFits ==
  ASSUME IndInv, NEW r \in Requests, req' = [req EXCEPT ![r] = Idle],
         used' = used, files \subseteq files', RowsFit', AdviceFits',
         Follows(quotes, quotes', used)
  PROVE  IndInv'
<1>1. Fits(Idle, quotes', used', files')
  BY DEF Fits
<1> QED  BY <1>1, OneFits

LEMMA SameRows ==
  ASSUME IndInv, quotes' = quotes, used' = used, advice' = advice
  PROVE  /\ files \subseteq files' /\ files' \subseteq Ids => RowsFit'
         /\ AdviceFits' /\ Follows(quotes, quotes', used)
  BY InParts DEF RowsFit, AdviceFits, Follows

LEMMA RefreshStep ==
  ASSUME IndInv, NEW r \in Requests, Refresh(r) PROVE IndInv'
<1> DEFINE q == req[r]
           row == quotes[q.id]
           pdf == On("create", "pdf", q.token, q.id, row, NULL)
           shown == On("create", "told", q.token, q.id, row, NULL)
           told == [shown EXCEPT !.views = {Response(q.token, q.id, row)}]
<1>0. RowsFit
  BY Facts
<1>1. /\ quotes' = quotes /\ used' = used /\ files' = files /\ advice' = advice
      /\ q # Idle /\ q.stage = "refresh" /\ q.stage # "told"
  BY DEF Refresh
<1>2. /\ RowsFit' /\ AdviceFits' /\ Follows(quotes, quotes', used)
      /\ used \subseteq used' /\ files \subseteq files'
  BY <1>0, <1>1, SameRows DEF RowsFit
<1>3. /\ q.token \in Tokens /\ q.id \in Ids /\ q.id \in used
      /\ row # NULL => row \in Quote /\ row.by = q.token.user /\ (row.pdf => q.id \in files)
  BY <1>0, <1>1, Reading DEF RowsFit
<1>4. \/ req' = [req EXCEPT ![r] = Idle]
      \/ row # NULL /\ IsAdmin(q.token) /\ req' = [req EXCEPT ![r] = pdf]
      \/ row # NULL /\ ~IsAdmin(q.token) /\ req' = [req EXCEPT ![r] = told]
  BY DEF Refresh, End
<1>5. CASE req' = [req EXCEPT ![r] = Idle]
  BY <1>1, <1>2, <1>5, EndFits
<1>6. CASE row # NULL /\ IsAdmin(q.token) /\ req' = [req EXCEPT ![r] = pdf]
  <2>1. "pdf" \in Stages \ {"told"} /\ NULL \in Statuses \cup {NULL}
    BY DEF Stages
  <2>2. pdf \in Request /\ Fits(pdf, quotes', used', files')
    BY <1>1, <1>3, <1>6, <2>1, ReadFits
  <2> HIDE DEF pdf
  <2> QED  BY <1>2, <1>6, <2>2, OneFits
<1>7. CASE row # NULL /\ ~IsAdmin(q.token) /\ req' = [req EXCEPT ![r] = told]
  <2>1. "told" \in Stages /\ NULL \in Statuses \cup {NULL}
    BY DEF Stages
  <2>2. /\ shown \in Request /\ shown.op = "create" /\ shown.stage = "told"
        /\ shown.token = q.token /\ shown.id = q.id /\ shown.row = row
        /\ shown.held = {row.status} /\ shown.views = {}
    BY <1>3, <1>7, <2>1, OnFields
  <2>3. LET v == Response(q.token, q.id, row) IN
        /\ v \in View /\ v.id = q.id /\ (v.pdf => row.pdf)
        /\ ~IsAdmin(q.token) => v.by = q.token.user /\ ~v.sponsor /\ ~v.pdf
    BY <1>3, <1>7, ResponseFits DEF IsAdmin, MayOpen, Internal, Response, Redacted, View, Quote
  <2>4. /\ told \in Request /\ told.op = "create" /\ told.stage = "told"
        /\ told.token = q.token /\ told.id = q.id /\ told.row = row
        /\ told.held = {row.status} /\ told.views = {Response(q.token, q.id, row)}
    <3> HIDE DEF shown
    <3> QED  BY <2>2, <2>3 DEF Request
  <2> HIDE DEF told
  <2>5. Fits(told, quotes', used', files')
    BY <1>1, <1>3, <1>7, <2>3, <2>4 DEF Fits
  <2> QED  BY <1>2, <1>7, <2>4, <2>5, OneFits
<1> QED  BY <1>4, <1>5, <1>6, <1>7


LEMMA OpenStep ==
  ASSUME IndInv, NEW r \in Requests, NEW t \in Tokens, NEW id \in Ids,
         NEW op \in {"status", "delete"}, NEW new \in Statuses \cup {NULL}, quotes[id] # NULL,
         NEW stage \in {"write", "remove"}, stage = "write" <=> op = "status",
         op = "status" => new \in Statuses,
         req' = [req EXCEPT ![r] = On(op, stage, t, id, quotes[id], new)],
         UNCHANGED <<quotes, used, files, advice>>
  PROVE  IndInv'
<1> DEFINE q == On(op, stage, t, id, quotes[id], new)
<1>0. RowsFit
  BY Facts
<1>1. /\ RowsFit' /\ AdviceFits' /\ Follows(quotes, quotes', used)
      /\ used \subseteq used' /\ files \subseteq files'
  BY <1>0, SameRows DEF RowsFit
<1>2. /\ quotes[id] \in Quote /\ id \in used /\ (quotes[id].pdf => id \in files)
      /\ stage \in Stages \ {"told"} /\ op \in {"create", "status", "delete"}
      /\ stage \notin {"refresh", "pdf"}
  BY <1>0 DEF RowsFit, Stages
<1>3. q \in Request /\ Fits(q, quotes', used', files')
  <2> DEFINE row == quotes[id]
  <2>1. /\ row \in Quote /\ (quotes'[id] # NULL => quotes'[id].by = row.by)
        /\ id \in used' /\ (row.pdf => id \in files')
    BY <1>2
  <2>2. q = On(op, stage, t, id, row, new)
    OBVIOUS
  <2> HIDE DEF row
  <2>3. /\ stage = "refresh" => row.by = t.user
        /\ stage = "write" => op = "status" /\ new \in Statuses
        /\ stage = "remove" => op = "delete"
        /\ stage \in {"refresh", "pdf"} => op = "create"
        /\ stage = "pdf" => IsAdmin(t)
    BY <1>2
  <2> QED  BY <1>2, <2>1, <2>2, <2>3, ReadFits
<1> HIDE DEF q
<1> QED  BY <1>1, <1>3, OneFits DEF q

LEMMA DeleteStep ==
  ASSUME IndInv, NEW r \in Requests, Delete(r) PROVE IndInv'
<1> DEFINE q == req[r]
           told == [q EXCEPT !.stage = "told", !.views = {}]
<1>0. RowsFit /\ AdviceFits /\ req \in [Requests -> Request \cup {Idle}]
  BY Facts
<1>1. /\ used' = used /\ files' = files /\ advice' = advice
      /\ q # Idle /\ q.stage = "remove" /\ q.stage # "told"
      /\ quotes' \in {quotes, [quotes EXCEPT ![q.id] = NULL]}
  BY DEF Delete
<1>2. /\ q \in Request /\ q.op = "delete" /\ q.id \in Ids
      /\ Fits(q, quotes, used, files)
  BY <1>1, Reading, Facts
<1>3. RowsFit' /\ AdviceFits' /\ Follows(quotes, quotes', used)
  BY <1>0, <1>1 DEF RowsFit, AdviceFits, Follows
<1>4. \/ req' = [req EXCEPT ![r] = Idle]
      \/ quotes' = [quotes EXCEPT ![q.id] = NULL] /\ req' = [req EXCEPT ![r] = told]
  BY <1>0, <1>1 DEF Delete, Told, End
<1>5. CASE req' = [req EXCEPT ![r] = Idle]
  BY <1>1, <1>3, <1>5, EndFits
<1>6. CASE quotes' = [quotes EXCEPT ![q.id] = NULL] /\ req' = [req EXCEPT ![r] = told]
  <2>1. quotes'[q.id] = NULL
    BY <1>0, <1>2, <1>6 DEF RowsFit
  <2>2. Fits(q, quotes', used', files')
    BY <1>1, <1>2, <1>3, StillFits
  <2>3. told \in Request /\ Fits(told, quotes', used', files')
    <3>1. {} \in SUBSET View
      OBVIOUS
    <3> QED  BY <1>1, <1>2, <2>1, <2>2, <3>1, ToldFits
  <2> HIDE DEF told
  <2> QED  BY <1>1, <1>3, <1>6, <2>3, OneFits
<1> QED  BY <1>4, <1>5, <1>6

LEMMA LookStep ==
  ASSUME IndInv, NEW r \in Requests, NEW t \in Tokens, NEW S \in SUBSET Ids, Look(r, t, S)
  PROVE  IndInv'
<1> DEFINE views == {Response(t, id, quotes[id]) : id \in S}
           q == [op |-> "look", stage |-> "told", token |-> t, id |-> NULL, row |-> NULL,
                 new |-> NULL, held |-> {}, views |-> views]
<1>0. RowsFit
  BY Facts
<1>1. /\ UNCHANGED <<quotes, used, files, advice>> /\ Internal(t)
      /\ req' = [req EXCEPT ![r] = q]
      /\ \A id \in S : quotes[id] # NULL /\ MayOpen(t, quotes[id])
  BY DEF Look
<1>2. RowsFit' /\ AdviceFits' /\ Follows(quotes, quotes', used)
  BY <1>0, <1>1, SameRows DEF RowsFit
<1>3. ASSUME NEW v \in views
      PROVE  /\ v \in View /\ (v.pdf => v.id \in files)
             /\ ~IsAdmin(t) => v.by = t.user /\ ~v.sponsor /\ ~v.pdf
  <2>1. PICK id \in S : v = Response(t, id, quotes[id])
    OBVIOUS
  <2>2. /\ id \in Ids /\ quotes[id] \in Quote /\ MayOpen(t, quotes[id])
        /\ (quotes[id].pdf => id \in files)
    BY <1>0, <1>1 DEF RowsFit
  <2>3. /\ v \in View /\ v.id = id /\ (v.pdf => quotes[id].pdf)
        /\ ~IsAdmin(t) => v.by = t.user /\ ~v.sponsor /\ ~v.pdf
    BY <1>1, <2>1, <2>2, ResponseFits
  <2> QED  BY <2>2, <2>3
<1>4. views \subseteq View
  BY <1>3
<1> HIDE DEF views
<1>5. /\ q \in Request /\ q.op = "look" /\ q.stage = "told" /\ q.token = t /\ q.views = views
  BY <1>4 DEF Request, Stages
<1> HIDE DEF q
<1>6. Fits(q, quotes', used', files')
  BY <1>1, <1>3, <1>5 DEF Fits
<1> QED  BY <1>1, <1>2, <1>5, <1>6, OneFits

LEMMA LeaveStep ==
  ASSUME IndInv, NEW r \in Requests, Leave(r) PROVE IndInv'
<1>1. UNCHANGED <<quotes, used, files, advice>> /\ req' = [req EXCEPT ![r] = Idle]
  BY DEF Leave, End
<1>2. RowsFit' /\ AdviceFits' /\ Follows(quotes, quotes', used)
  BY <1>1, SameRows, Facts DEF RowsFit
<1> QED  BY <1>1, <1>2, EndFits

\* Advice leaves the quotes and the requests as they are.
LEMMA AdviseStep == IndInv /\ Advise => IndInv'
<1> SUFFICES ASSUME IndInv, Advise PROVE IndInv'
  OBVIOUS
<1>1. UNCHANGED <<quotes, used, files, req>>
  BY DEF Advise, Validate, Analyze
<1>2. AdviceFits'
  <2>1. ASSUME NEW t \in Tokens, NEW d \in Deals, Validate(t, d) PROVE AdviceFits'
    BY <2>1 DEF Validate, AdviceFits
  <2>2. ASSUME NEW t \in Tokens, NEW d \in Deals, NEW s \in Opinions, Analyze(t, d, s)
        PROVE  AdviceFits'
    <3>1. [Advice(s) EXCEPT !.program = NULL].program = NULL
      BY DEF Advice
    <3>2. /\ advice'.token = t
          /\ advice'.result = IF IsAdmin(t) THEN Advice(s) ELSE [Advice(s) EXCEPT !.program = NULL]
      BY <2>2 DEF Analyze
    <3> QED  BY <3>1, <3>2 DEF AdviceFits
  <2> QED  BY <2>1, <2>2 DEF Advise
<1>3. RowsFit' /\ AllFit'
  BY <1>1, InParts DEF RowsFit, AllFit
<1> QED  BY <1>2, <1>3, InParts, PTL


LEMMA PdfStep ==
  ASSUME IndInv, NEW r \in Requests, Pdf(r) PROVE IndInv'
<1> DEFINE q == req[r]
           link == [q.row EXCEPT !.pdf = TRUE]
<1>0. RowsFit /\ AdviceFits /\ req \in [Requests -> Request \cup {Idle}]
  BY Facts
<1>1. /\ used' = used /\ advice' = advice /\ q # Idle /\ q.stage = "pdf" /\ q.stage # "told"
      /\ files' \in {files, files \cup {q.id}}
  BY DEF Pdf
<1>2. /\ q \in Request /\ q.op = "create" /\ q.id \in Ids /\ q.row \in Quote /\ q.token \in Tokens
      /\ IsAdmin(q.token) /\ (q.row.pdf => q.id \in files)
      /\ quotes[q.id] # NULL => quotes[q.id] \in Quote
      /\ Fits(q, quotes, used, files)
  BY <1>1, Reading, Facts
<1>3. /\ quotes' \in {quotes, [quotes EXCEPT ![q.id].pdf = TRUE]}
      /\ quotes' # quotes => quotes[q.id] # NULL /\ q.id \in files'
  BY DEF Pdf, Uploaded
<1>4. /\ files \subseteq files' /\ files' \subseteq Ids
      /\ Follows(quotes, quotes', used) /\ RowsFit'
  <2>0. files \subseteq files' /\ files' \subseteq Ids
    BY <1>0, <1>1, <1>2 DEF RowsFit
  <2>1. CASE quotes' = quotes
    BY <1>1, <2>0, <2>1, SameRows
  <2>2. CASE quotes' # quotes
    <3> DEFINE new == [quotes[q.id] EXCEPT !.pdf = TRUE]
    <3>1. /\ quotes' = [quotes EXCEPT ![q.id] = new] /\ q.id \in files'
          /\ quotes[q.id] # NULL
      BY <1>3, <2>2
    <3>2. new \in Quote /\ new.by = quotes[q.id].by
      BY <1>2, <3>1 DEF Quote
    <3> HIDE DEF new
    <3>3. RowsFit'
      BY <1>0, <1>1, <1>2, <2>0, <3>1, <3>2 DEF RowsFit
    <3>4. Follows(quotes, quotes', used)
      BY <1>0, <1>2, <3>1, <3>2 DEF RowsFit, Follows
    <3> QED  BY <2>0, <3>3, <3>4
  <2> QED  BY <2>1, <2>2
<1>5. AdviceFits'
  BY <1>0, <1>1 DEF AdviceFits
<1>6. Fits(q, quotes', used', files')
  BY <1>1, <1>2, <1>4, StillFits
<1>7. \/ req' = [req EXCEPT ![r] = Idle]
      \/ req' = Told(r, {Response(q.token, q.id, q.row)})
      \/ q.id \in files' /\ req' = Told(r, {Response(q.token, q.id, link)})
  BY DEF Pdf, End, Uploaded
<1>8. ASSUME NEW row \in Quote, row.pdf => q.id \in files',
             req' = Told(r, {Response(q.token, q.id, row)})
      PROVE  IndInv'
  <2> DEFINE v == Response(q.token, q.id, row)
             told == [q EXCEPT !.stage = "told", !.views = {v}]
  <2>1. v \in View /\ (v.pdf => v.id \in files')
    BY <1>2, <1>8 DEF Response, View, Quote, IsAdmin
  <2> HIDE DEF v
  <2>2. told \in Request /\ Fits(told, quotes', used', files')
    <3>1. {v} \in SUBSET View /\ q.op # "look" /\ q.op # "status" /\ q.op # "delete"
      BY <1>2, <2>1
    <3> QED  BY <1>1, <1>2, <1>6, <2>1, <3>1, ToldFits
  <2>3. req' = [req EXCEPT ![r] = told]
    BY <1>0, <1>8 DEF Told, v
  <2> HIDE DEF told
  <2> QED  BY <1>1, <1>4, <1>5, <2>2, <2>3, OneFits
<1>9. CASE req' = [req EXCEPT ![r] = Idle]
  BY <1>1, <1>4, <1>5, <1>9, EndFits
<1>10. CASE req' = Told(r, {Response(q.token, q.id, q.row)})
  BY <1>2, <1>4, <1>8, <1>10
<1>11. CASE q.id \in files' /\ req' = Told(r, {Response(q.token, q.id, link)})
  <2>1. link \in Quote
    BY <1>2 DEF Quote
  <2> HIDE DEF link
  <2> QED  BY <1>8, <1>11, <2>1
<1> QED  BY <1>7, <1>9, <1>10, <1>11

\* Who hears of a new status fits as well.
LEMMA NotedFits ==
  ASSUME NEW R, R \in [Requests -> Request \cup {Idle}], NEW Q, NEW U, NEW F,
         NEW id, NEW s \in Statuses, \A x \in Requests : Fits(R[x], Q, U, F)
  PROVE  /\ Noting(R, id, s) \in [Requests -> Request \cup {Idle}]
         /\ \A x \in Requests : Fits(Noting(R, id, s)[x], Q, U, F)
<1>1. ASSUME NEW x \in Requests
      PROVE  Noting(R, id, s)[x] \in Request \cup {Idle} /\ Fits(Noting(R, id, s)[x], Q, U, F)
  <2>1. CASE R[x] # Idle /\ R[x].id = id
    <3>1. Noting(R, id, s)[x] = [R[x] EXCEPT !.held = @ \cup {s}]
      BY <2>1 DEF Noting
    <3>2. LET n == [R[x] EXCEPT !.held = @ \cup {s}] IN n \in Request /\ Fits(n, Q, U, F)
      BY <2>1, FitsNoting
    <3> QED  BY <3>1, <3>2
  <2>2. CASE ~(R[x] # Idle /\ R[x].id = id)
    <3>1. Noting(R, id, s)[x] = R[x]
      BY <2>2 DEF Noting
    <3> QED  BY <3>1
  <2> QED  BY <2>1, <2>2
<1>2. Noting(R, id, s) = [x \in Requests |-> Noting(R, id, s)[x]]
  BY DEF Noting
<1> QED  BY <1>1, <1>2


LEMMA SetStatusStep ==
  ASSUME IndInv, NEW r \in Requests, SetStatus(r) PROVE IndInv'
<1> DEFINE q == req[r]
           row == Written(q.id, q.row, q.new)
           told == [q EXCEPT !.stage = "told", !.views = {}]
<1>0. RowsFit /\ AllFit /\ AdviceFits /\ req \in [Requests -> Request \cup {Idle}]
  BY Facts, InParts
<1>1. /\ used' = used /\ files' = files /\ advice' = advice /\ q # Idle
      /\ q.stage = "write" /\ q.stage # "told"
  BY DEF SetStatus
<1>2. /\ q \in Request /\ q.op = "status" /\ q.id \in Ids /\ q.id \in used /\ q.new \in Statuses
      /\ q.row \in Quote /\ q.row.status \in q.held /\ Fits(q, quotes, used, files)
      /\ quotes[q.id] # NULL => quotes[q.id] \in Quote
  BY <1>1, Reading, Facts
<1>3. {} \in SUBSET View
  OBVIOUS
<1>4. CASE q.new = q.row.status /\ req' = Told(r, {}) /\ quotes' = quotes
  <2>1. told \in Request /\ Fits(told, quotes', used', files')
    BY <1>1, <1>2, <1>3, <1>4, ToldFits
  <2>2. req' = [req EXCEPT ![r] = told]
    BY <1>0, <1>4 DEF Told
  <2>3. RowsFit' /\ AdviceFits' /\ Follows(quotes, quotes', used)
    BY <1>0, <1>1, <1>4, SameRows DEF RowsFit
  <2> HIDE DEF told
  <2> QED  BY <1>1, <2>1, <2>2, <2>3, OneFits
<1>5. CASE req' = End(r) /\ quotes' = quotes
  <2>1. RowsFit' /\ AdviceFits' /\ Follows(quotes, quotes', used)
    BY <1>0, <1>1, <1>5, SameRows DEF RowsFit
  <2> QED  BY <1>1, <1>5, <2>1, EndFits DEF End
<1>6. ASSUME NEW R \in {Told(r, {}), End(r)}, row # NULL,
             quotes' = [quotes EXCEPT ![q.id] = row], req' = Noting(R, q.id, q.new)
      PROVE  IndInv'
  <2>1. quotes[q.id] # NULL /\ row = [quotes[q.id] EXCEPT !.status = q.new]
    BY <1>6 DEF Written
  <2>2. row \in Quote /\ row.by = quotes[q.id].by /\ row.pdf = quotes[q.id].pdf
    BY <1>2, <2>1 DEF Quote
  <2> HIDE DEF row
  <2>3. RowsFit' /\ Follows(quotes, quotes', used) /\ AdviceFits'
    BY <1>0, <1>1, <1>2, <1>6, <2>1, <2>2 DEF RowsFit, Follows, AdviceFits
  <2>4. \A x \in Requests : Fits(req[x], quotes', used', files')
    BY <1>0, <1>1, <2>3, StillFits DEF AllFit
  <2> DEFINE N == Noting(req, q.id, q.new)
             new == [told EXCEPT !.held = @ \cup {q.new}]
  <2>5. N \in [Requests -> Request \cup {Idle}] /\ \A x \in Requests : Fits(N[x], quotes', used', files')
    BY <1>0, <1>2, <2>4, NotedFits
  <2>6. N[r] = [q EXCEPT !.held = @ \cup {q.new}]
    BY <1>1 DEF Noting
  <2>7. new \in Request /\ Fits(new, quotes', used', files')
    <3> DEFINE n == [q EXCEPT !.held = @ \cup {q.new}]
    <3>1. n \in Request /\ Fits(n, quotes', used', files')
      BY <1>1, <1>2, <2>4, FitsNoting
    <3>2. /\ n.stage # "told" /\ n.op = "status" /\ n.new \in n.held
          /\ new = [n EXCEPT !.stage = "told", !.views = {}]
      BY <1>1, <1>2 DEF Request
    <3> HIDE DEF n, new
    <3> QED  BY <1>3, <3>1, <3>2, ToldFits
  <2>8. req' \in {[N EXCEPT ![r] = new], [N EXCEPT ![r] = Idle]}
    <3>1. CASE R = Told(r, {})
      <4>1. R = [req EXCEPT ![r] = told] /\ told # Idle /\ told.id = q.id
        BY <1>0, <1>2, <3>1 DEF Told, Request, Idle
      <4> HIDE DEF told
      <4>2. ASSUME NEW x \in Requests PROVE Noting(R, q.id, q.new)[x] = [N EXCEPT ![r] = new][x]
        BY <1>0, <4>1 DEF Noting
      <4>3. Noting(R, q.id, q.new) = [x \in Requests |-> Noting(R, q.id, q.new)[x]]
        BY DEF Noting
      <4>4. [N EXCEPT ![r] = new] = [x \in Requests |-> [N EXCEPT ![r] = new][x]]
        BY DEF Noting
      <4> HIDE DEF N, new
      <4> QED  BY <1>6, <4>2, <4>3, <4>4
    <3>2. CASE R = End(r)
      <4>1. R = [req EXCEPT ![r] = Idle]
        BY <3>2 DEF End
      <4>2. ASSUME NEW x \in Requests PROVE Noting(R, q.id, q.new)[x] = [N EXCEPT ![r] = Idle][x]
        BY <1>0, <4>1 DEF Noting
      <4>3. Noting(R, q.id, q.new) = [x \in Requests |-> Noting(R, q.id, q.new)[x]]
        BY DEF Noting
      <4>4. [N EXCEPT ![r] = Idle] = [x \in Requests |-> [N EXCEPT ![r] = Idle][x]]
        BY DEF Noting
      <4> HIDE DEF N
      <4> QED  BY <1>6, <4>2, <4>3, <4>4
    <3> QED  BY <1>6, <3>1, <3>2
  <2>9. Fits(Idle, quotes', used', files')
    BY DEF Fits
  <2> HIDE DEF N, new
  <2>10. AllFit'
    BY <2>5, <2>7, <2>8, <2>9 DEF AllFit
  <2> QED  BY <2>3, <2>10, InParts, PTL
<1> QED  BY <1>4, <1>5, <1>6 DEF SetStatus, Acknowledges


LEMMA NextStep == IndInv /\ [Next]_vars => IndInv'
<1> SUFFICES ASSUME IndInv, [Next]_vars PROVE IndInv'
  OBVIOUS
<1>1. ASSUME NEW r \in Requests, Work(r) PROVE IndInv'
  <2>1. ASSUME NEW t \in Tokens, NEW id \in Ids, Create(r, t, id) PROVE IndInv'
    BY <2>1, CreateStep
  <2>2. CASE Refresh(r)
    BY <2>2, RefreshStep
  <2>3. CASE Pdf(r)
    BY <2>3, PdfStep
  <2>4. ASSUME NEW t \in Tokens, NEW id \in Ids, NEW new \in Statuses, OpenStatus(r, t, id, new)
        PROVE  IndInv'
    <3>1. new \in Statuses \cup {NULL} /\ "status" \in {"status", "delete"}
          /\ "write" \in {"write", "remove"} /\ ("write" = "write" <=> "status" = "status")
      OBVIOUS
    <3>2. /\ quotes[id] # NULL /\ UNCHANGED <<quotes, used, files, advice>>
          /\ req' = [req EXCEPT ![r] = On("status", "write", t, id, quotes[id], new)]
      BY <2>4 DEF OpenStatus
    <3> QED  BY <3>1, <3>2, OpenStep
  <2>5. CASE SetStatus(r)
    BY <2>5, SetStatusStep
  <2>6. ASSUME NEW t \in Tokens, NEW id \in Ids, OpenDelete(r, t, id) PROVE IndInv'
    <3>1. NULL \in Statuses \cup {NULL} /\ "delete" \in {"status", "delete"}
          /\ "remove" \in {"write", "remove"} /\ ("remove" = "write" <=> "delete" = "status")
          /\ ("delete" = "status" => NULL \in Statuses)
      OBVIOUS
    <3>2. /\ quotes[id] # NULL /\ UNCHANGED <<quotes, used, files, advice>>
          /\ req' = [req EXCEPT ![r] = On("delete", "remove", t, id, quotes[id], NULL)]
      BY <2>6 DEF OpenDelete
    <3> QED  BY <3>1, <3>2, OpenStep
  <2>7. CASE Delete(r)
    BY <2>7, DeleteStep
  <2>8. ASSUME NEW t \in Tokens, NEW S \in SUBSET Ids, Look(r, t, S) PROVE IndInv'
    BY <2>8, LookStep
  <2>9. CASE Leave(r)
    BY <2>9, LeaveStep
  <2> QED  BY <1>1, <2>1, <2>2, <2>3, <2>4, <2>5, <2>6, <2>7, <2>8, <2>9 DEF Work
<1>2. CASE Advise
  BY <1>2, AdviseStep
<1>3. CASE UNCHANGED vars
  <2>1. RowsFit' /\ AllFit' /\ AdviceFits'
    BY <1>3, InParts DEF vars, RowsFit, AllFit, AdviceFits
  <2> QED  BY <2>1, InParts, PTL
<1> QED  BY <1>1, <1>2, <1>3 DEF Next

\* The inductive invariant of the quotes, whatever requests interleave and
\* fail (quotes.py).
THEOREM DeskInvariant == Spec => []IndInv
<1> QED  BY InitInvariant, NextStep, PTL DEF Spec

\* Whoever is told of a status, a deletion or a PDF was told the truth
\* (quotes.py: create_quote, update_quote_status, delete_quote).
THEOREM AnswersAreTrue == Spec => []AnswersTrue
<1>1. IndInv => AnswersTrue
  BY DEF IndInv
<1> QED  BY <1>1, DeskInvariant, PTL

\* Staff see their own quotes, without sponsors, PDF or program (quotes.py:
\* _to_response, _redact_analysis).
THEOREM StaffSeeTheirOwn == Spec => []StaffSeeOwnTerms
<1>1. IndInv => StaffSeeOwnTerms
  BY DEF IndInv
<1> QED  BY <1>1, DeskInvariant, PTL

LEMMA StepKeepsOthers ==
  ASSUME IndInv, [Next]_vars, NEW id \in used
  PROVE  /\ quotes[id] = NULL => quotes'[id] = NULL
         /\ quotes[id] # NULL /\ quotes'[id] # NULL =>
              /\ quotes'[id].by = quotes[id].by
              /\ quotes[id].pdf => quotes'[id].pdf
<1> DEFINE Kept == /\ quotes[id] = NULL => quotes'[id] = NULL
                   /\ quotes[id] # NULL /\ quotes'[id] # NULL =>
                        /\ quotes'[id].by = quotes[id].by
                        /\ quotes[id].pdf => quotes'[id].pdf
<1> SUFFICES Kept
  OBVIOUS
<1>0. RowsFit /\ id \in Ids
  BY InParts DEF RowsFit
<1>1. CASE quotes' = quotes
  BY <1>1
<1>2. ASSUME NEW r \in Requests, NEW t \in Tokens, NEW i \in Ids, Create(r, t, i) PROVE Kept
  <2>1. i # id /\ (quotes' = quotes \/ quotes' = [quotes EXCEPT ![i] =
                     [by |-> t.user, status |-> "draft", pdf |-> FALSE]])
    BY <1>2 DEF Create
  <2> QED  BY <1>0, <2>1 DEF RowsFit
<1>3. ASSUME NEW r \in Requests, Pdf(r) PROVE Kept
  <2> DEFINE new == [quotes[req[r].id] EXCEPT !.pdf = TRUE]
  <2>1. quotes' = quotes \/ (quotes[req[r].id] # NULL /\ quotes' = [quotes EXCEPT ![req[r].id] = new])
    BY <1>3 DEF Pdf
  <2>2. quotes[req[r].id] # NULL => new.by = quotes[req[r].id].by /\ new.pdf
    BY <1>3, Reading DEF Pdf, Quote
  <2> HIDE DEF new
  <2> QED  BY <1>0, <2>1, <2>2 DEF RowsFit
<1>4. ASSUME NEW r \in Requests, SetStatus(r) PROVE Kept
  <2> DEFINE new == Written(req[r].id, req[r].row, req[r].new)
  <2>1. quotes' = quotes \/ (new # NULL /\ quotes' = [quotes EXCEPT ![req[r].id] = new])
    BY <1>4 DEF SetStatus
  <2>2. /\ quotes[req[r].id] = NULL => new = NULL
        /\ quotes[req[r].id] # NULL => /\ new.by = quotes[req[r].id].by
                                       /\ new.pdf = quotes[req[r].id].pdf
    BY <1>4, Reading DEF SetStatus, Quote, Written
  <2> HIDE DEF new
  <2> QED  BY <1>0, <2>1, <2>2 DEF RowsFit
<1>5. ASSUME NEW r \in Requests, Delete(r) PROVE Kept
  BY <1>0, <1>5 DEF Delete, RowsFit
<1>6. ASSUME NEW r \in Requests, Work(r) PROVE Kept
  <2>1. \/ quotes' = quotes
        \/ \E t \in Tokens, i \in Ids : Create(r, t, i)
        \/ Pdf(r) \/ SetStatus(r) \/ Delete(r)
    BY <1>6 DEF Work, Refresh, OpenStatus, OpenDelete, Look, Leave
  <2> HIDE DEF Kept
  <2> QED  BY <1>1, <1>2, <1>3, <1>4, <1>5, <2>1
<1> HIDE DEF Kept
<1> QED  BY <1>1, <1>6 DEF Next, Advise, Validate, Analyze, vars

\* A change of status neither revives a quote nor undoes what others wrote
\* (quotes.py: update_quote_status).
THEOREM OthersAreKept == Spec => WritesKeepOthers
<1> DEFINE Kept(id) == /\ quotes[id] = NULL => quotes'[id] = NULL
                       /\ quotes[id] # NULL /\ quotes'[id] # NULL =>
                            /\ quotes'[id].by = quotes[id].by
                            /\ quotes[id].pdf => quotes'[id].pdf
<1>1. IndInv /\ [Next]_vars => [\A id \in used : Kept(id)]_vars
  BY StepKeepsOthers
<1> QED  BY <1>1, DeskInvariant, PTL DEF Spec, WritesKeepOthers

\* What the floors of staff allow, those of administrators allow.
LEMMA FloorsOrdered ==
  ASSUME NEW role, NEW d, d.markup \in Int, d.auth \in Int, Valid(role, d)
  PROVE  Valid("admin", d)
<1>1. Plan(d) \in {"bt", "bf", "ml", "mm", "mh"}
  BY DEF Plan
<1>2. /\ Floor(role, d).markup >= Floor("admin", d).markup
      /\ Floor(role, d).auth >= Floor("admin", d).auth
      /\ Floor(role, d).markup \in Int /\ Floor("admin", d).markup \in Int
      /\ Floor(role, d).auth \in Int /\ Floor("admin", d).auth \in Int
  <2> DEFINE p == Plan(d)
  <2>1. /\ StaffFloors[p].markup >= AdminFloors[p].markup
        /\ StaffFloors[p].auth >= AdminFloors[p].auth
        /\ StaffFloors[p].markup \in Int /\ AdminFloors[p].markup \in Int
        /\ StaffFloors[p].auth \in Int /\ AdminFloors[p].auth \in Int
    BY <1>1 DEF StaffFloors, AdminFloors
  <2> QED  BY <2>1 DEF Floor
<1> QED  BY <1>2 DEF Valid

\* No price that is valid for staff is a loss by the administrators' floors,
\* for every price (pricing_ai.py: validate_pricing).
THEOREM FloorsAreNested == Spec => []FloorsNested
<1>1. Init => FloorsNested
  BY DEF Init, FloorsNested
<1>2. FloorsNested /\ [Next]_vars => FloorsNested'
  <2> SUFFICES ASSUME FloorsNested, [Next]_vars PROVE FloorsNested'
    OBVIOUS
  <2>1. CASE UNCHANGED advice
    BY <2>1 DEF FloorsNested
  <2>2. ASSUME NEW t \in Tokens, NEW d \in Deals, Validate(t, d) PROVE FloorsNested'
    <3>1. d.markup \in Int /\ d.auth \in Int
      BY DeskAssumption
    <3>2. advice'.deal = d /\ advice'.valid = Valid(t.role, d)
      BY <2>2 DEF Validate
    <3> QED  BY <3>1, <3>2, FloorsOrdered DEF FloorsNested
  <2>3. ASSUME NEW t \in Tokens, NEW deal \in Deals, NEW s \in Opinions, Analyze(t, deal, s)
        PROVE  FloorsNested'
    <3> DEFINE d == [deal EXCEPT !.program = "all", !.state = "CO", !.model = "interchange_plus"]
    <3>1. d.markup \in Int /\ d.auth \in Int
      BY DeskAssumption
    <3>2. advice'.deal = d /\ advice'.valid = Valid(t.role, d)
      BY <2>3 DEF Analyze
    <3> HIDE DEF d
    <3> QED  BY <3>1, <3>2, FloorsOrdered DEF FloorsNested
  <2>4. UNCHANGED advice \/ Advise
    BY DEF Next, Work, Create, Refresh, Pdf, OpenStatus, SetStatus, OpenDelete, Delete, Look,
           Leave, vars
  <2> QED  BY <2>1, <2>2, <2>3, <2>4 DEF Advise
<1> QED  BY <1>1, <1>2, PTL DEF Spec

-----------------------------------------------------------------------------
(* The advice of several providers                                         *)

\* What the providers answer, and who names a program.
LEMMA OpinionFacts ==
  ASSUME NEW s \in Opinions
  PROVE  /\ Len(s) \in Nat /\ Len(s) <= 4 /\ DOMAIN s = 1..Len(s)
         /\ \A i \in DOMAIN s : s[i].win \in Int \cup {NULL}
         /\ \A S \in SUBSET DOMAIN s : IsFiniteSet(S) /\ Cardinality(S) \in Nat
         /\ Cardinality(DOMAIN s) = Len(s)
         /\ \A p : Backers(s, p) \in SUBSET DOMAIN s
<1>1. s \in Seq([program: STRING \cup {NULL}, win: Int \cup {NULL}, tips: BOOLEAN]) /\ Len(s) <= 4
  BY DeskAssumption
<1>2. Len(s) \in Nat /\ DOMAIN s = 1..Len(s)
  BY <1>1, LenProperties
<1>3. \A i \in DOMAIN s : s[i].win \in Int \cup {NULL}
  <2>1. \A i \in DOMAIN s : s[i] \in [program: STRING \cup {NULL}, win: Int \cup {NULL}, tips: BOOLEAN]
    BY <1>1, <1>2, ElementOfSeq
  <2> QED  BY <2>1
<1>4. IsFiniteSet(DOMAIN s) /\ Cardinality(DOMAIN s) = Len(s)
  <2> DEFINE n == Len(s)
  <2>1. n \in Nat /\ DOMAIN s = 1..n
    BY <1>2
  <2> HIDE DEF n
  <2>2. IsFiniteSet(1..n) /\ Cardinality(1..n) = n
    BY <2>1, FS_Interval
  <2> QED  BY <2>1, <2>2 DEF n
<1>5. \A S \in SUBSET DOMAIN s : IsFiniteSet(S) /\ Cardinality(S) \in Nat
  BY <1>4, FS_Subset, FS_CardinalityType
<1> QED  BY <1>1, <1>2, <1>3, <1>4, <1>5 DEF Backers

\* The program is one that some provider names, and as often as any.
LEMMA ProgramIsMostNamed ==
  ASSUME NEW s \in Opinions, Named(s) # {}
  PROVE  /\ Program(s) # NULL
         /\ \A i \in Named(s) :
              Cardinality(Backers(s, s[i].program)) <= Cardinality(Backers(s, Program(s)))
<1> DEFINE votes == [i \in Named(s) |-> Cardinality(Backers(s, s[i].program))]
           most == {i \in Named(s) : \A j \in Named(s) :
                      Cardinality(Backers(s, s[j].program)) <= Cardinality(Backers(s, s[i].program))}
<1>1. Named(s) \in SUBSET DOMAIN s
  BY DEF Named
<1>2. DOMAIN votes = Named(s) /\ IsFiniteSet(DOMAIN votes) /\ \A i \in DOMAIN votes : votes[i] \in Int
  BY <1>1, OpinionFacts
<1>3. most # {}
  <2> HIDE DEF votes
  <2>1. PICK i, j \in DOMAIN votes : \A k \in DOMAIN votes : votes[i] <= votes[k] /\ votes[k] <= votes[j]
    BY <1>2, Extremes
  <2>2. j \in most
    BY <1>2, <2>1 DEF votes
  <2> QED  BY <2>2
<1>4. Smallest(most) \in most
  <2>1. most \subseteq Nat
    BY <1>1, OpinionFacts
  <2> HIDE DEF most
  <2>2. \E x \in most : \A y \in most : x <= y
    BY <1>3, <2>1, LeastOf
  <2> QED  BY <2>2 DEF Smallest
<1>5. Program(s) = s[Smallest(most)].program
  BY DEF Program, MostNamed
<1> HIDE DEF votes
<1> QED  BY <1>4, <1>5 DEF Named

\* Of at most four providers, nine tenths are all.
LEMMA CertifiedIsUnanimous ==
  ASSUME NEW s \in Opinions, Len(s) > 1, Confidence(AgreePct(s)) = "certified"
  PROVE  \A i \in DOMAIN s : s[i].program = Program(s) /\ s[i].program # NULL
<1> DEFINE B == Backers(s, Program(s))
           a == Cardinality(B)
           n == Len(s)
<1>1. n \in Nat /\ n > 1 /\ n <= 4 /\ IsFiniteSet(DOMAIN s) /\ Cardinality(DOMAIN s) = n
      /\ B \in SUBSET DOMAIN s /\ a \in Nat
  BY OpinionFacts
<1>2. a <= n /\ (a = n => B = DOMAIN s)
  BY <1>1, FS_Subset
<1>3. AgreePct(s) = Rounded(100 * a, n)
  BY DEF AgreePct
<1>4. a = n
  <2> HIDE DEF a, n
  <2> DEFINE x == 100 * a
  <2>1. x \in Int /\ n \in Nat /\ n > 0
    BY <1>1
  <2> HIDE DEF x
  <2>2. Rounded(x, n) \in Int /\ 2 * (n * Rounded(x, n)) <= 2 * x + n
    BY <2>1, RoundedWithinHalf
  <2>3. Rounded(x, n) >= 90
    BY <1>3, <2>2 DEF Confidence, x
  <2>4. n * 90 <= n * Rounded(x, n)
    BY <1>1, <2>2, <2>3
  <2>5. 179 * n <= 200 * a
    BY <1>1, <2>2, <2>4 DEF x
  <2> QED  BY <1>1, <1>2, <2>5
<1>5. B = DOMAIN s
  BY <1>2, <1>4
<1>6. \A i \in DOMAIN s : s[i].program = Program(s)
  BY <1>5 DEF Backers
<1>7. Program(s) # NULL
  <2>1. CASE Named(s) = {}
    BY <2>1, NullAssumption DEF Program
  <2>2. CASE Named(s) # {}
    BY <2>2, ProgramIsMostNamed
  <2> QED  BY <2>1, <2>2
<1> QED  BY <1>6, <1>7

\* The chance of winning lies between the least and the largest answer.
LEMMA WinIsBetween ==
  ASSUME NEW s \in Opinions, Chances(s) # {}
  PROVE  \E low, high \in {s[i].win : i \in Chances(s)} : low <= Win(s) /\ Win(s) <= high
<1> DEFINE v == [i \in Chances(s) |-> s[i].win]
<1>1. IsFiniteSet(DOMAIN v) /\ DOMAIN v = Chances(s) /\ \A i \in DOMAIN v : v[i] \in Int
  <2>1. Chances(s) \in SUBSET DOMAIN s
    BY DEF Chances
  <2>2. \A i \in Chances(s) : s[i].win \in Int
    BY OpinionFacts DEF Chances
  <2> QED  BY <2>1, <2>2, OpinionFacts
<1>2. Win(s) = Mean(v)
  BY DEF Win
<1>3. \A i \in DOMAIN v : v[i] \in {s[j].win : j \in Chances(s)}
  OBVIOUS
<1> HIDE DEF v
<1>4. PICK i, j \in DOMAIN v : \A k \in DOMAIN v : v[i] <= v[k] /\ v[k] <= v[j]
  BY <1>1, Extremes
<1> DEFINE lo == v[i]
           hi == v[j]
<1>5. lo \in Int /\ hi \in Int /\ \A k \in DOMAIN v : lo <= v[k] /\ v[k] <= hi
  BY <1>1, <1>4
<1> HIDE DEF lo, hi
<1>6. Mean(v) \in lo..hi
  BY <1>1, <1>5, MeanBetween
<1> QED  BY <1>2, <1>3, <1>4, <1>5, <1>6 DEF lo, hi

\* The advice of several providers recommends a program that no other has more
\* of them behind, is certified only when all of them are for it, and gives a
\* chance between theirs (pricing_ai.py: _build_pricing_consensus).
THEOREM ProgramsAreBacked == Spec => []ProgramBacked
<1>1. Init => ProgramBacked
  BY DEF Init, ProgramBacked
<1>2. ProgramBacked /\ [Next]_vars => ProgramBacked'
  <2> SUFFICES ASSUME ProgramBacked, [Next]_vars PROVE ProgramBacked'
    OBVIOUS
  <2>1. CASE UNCHANGED advice
    BY <2>1 DEF ProgramBacked
  <2>2. ASSUME NEW t \in Tokens, NEW d \in Deals, Validate(t, d) PROVE ProgramBacked'
    <3>1. advice'.opinions = <<>>
      BY <2>2 DEF Validate
    <3> QED  BY <3>1 DEF ProgramBacked
  <2>3. ASSUME NEW t \in Tokens, NEW d \in Deals, NEW s \in Opinions, Analyze(t, d, s)
        PROVE  ProgramBacked'
    <3>1. /\ advice'.opinions = s /\ advice'.token = t
          /\ advice'.result = IF IsAdmin(t) THEN Advice(s) ELSE [Advice(s) EXCEPT !.program = NULL]
      BY <2>3 DEF Analyze
    <3> SUFFICES ASSUME Len(s) > 1
                 PROVE  /\ IsAdmin(t) => \A i \in Named(s) :
                             Cardinality(Backers(s, s[i].program))
                               <= Cardinality(Backers(s, advice'.result.program))
                        /\ advice'.result.confidence = "certified" =>
                             \A i, j \in DOMAIN s : s[i].program # NULL /\ s[i].program = s[j].program
                        /\ Chances(s) # {} =>
                             \E low, high \in {s[i].win : i \in Chances(s)} :
                               low <= advice'.result.win /\ advice'.result.win <= high
      BY <3>1 DEF ProgramBacked
    <3>2. Advice(s) = [program |-> Program(s), win |-> Win(s), confidence |-> Confidence(AgreePct(s))]
      <4> DEFINE n == Len(s)
      <4>1. n \in Nat /\ n > 1
        BY OpinionFacts
      <4> HIDE DEF n
      <4>2. n # 1
        BY <4>1
      <4> QED  BY <4>2 DEF Advice, n
    <3>3. /\ IsAdmin(t) => advice'.result.program = Program(s)
          /\ advice'.result.win = Win(s) /\ advice'.result.confidence = Confidence(AgreePct(s))
      BY <3>1, <3>2
    <3> QED  BY <3>3, ProgramIsMostNamed, CertifiedIsUnanimous, WinIsBetween
  <2>4. UNCHANGED advice \/ Advise
    BY DEF Next, Work, Create, Refresh, Pdf, OpenStatus, SetStatus, OpenDelete, Delete, Look,
           Leave, vars
  <2> QED  BY <2>1, <2>2, <2>3, <2>4 DEF Advise
<1> QED  BY <1>1, <1>2, PTL DEF Spec
=============================================================================
