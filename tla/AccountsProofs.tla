--------------------------- MODULE AccountsProofs ---------------------------
(***************************************************************************)
(* Proofs about Accounts for every set of requests and addresses.          *)
(***************************************************************************)
EXTENDS Accounts, TLAPS

\* What no step takes back: that an account was created, what an administrator
\* has set, and a link once sent or spent.  An account only loses its
\* verification to an administrator, and its id only to a new account.
Grows ==
  /\ \A i \in Requests : Created(i) => Created(i)' /\ req'[i].email = req[i].email
  /\ \A i \in Requests, v \in BOOLEAN : SetByAdmin(i, v) => SetByAdmin(i, v)'
  /\ \A l \in Requests : links[l] # NULL =>
       /\ links'[l] # NULL /\ links'[l].purpose = links[l].purpose
       /\ links'[l].user = links[l].user /\ (links[l].used => links'[l].used)
  /\ \A e \in Emails : users'[e] # NULL =>
       \/ /\ users[e] # NULL /\ users'[e].id = users[e].id /\ users'[e].self = users[e].self
          /\ users[e].verified => users'[e].verified \/ SetByAdmin(users[e].id, FALSE)'
       \/ users[e] = NULL /\ ~Created(users'[e].id)

\* The types of what is read from the tables and from the locals.
LEMMA Types ==
  ASSUME TypeOK
  PROVE  /\ \A e \in Emails : users[e] # NULL => users[e] \in User
         /\ \A l \in Requests : links[l] # NULL => links[l] \in Link
         /\ \A r \in Requests : req[r] \in Req
         /\ \A q \in Req : /\ q.email # NULL => q.email \in Emails
                           /\ q.row # NULL => q.row \in User
                           /\ q.new # NULL => q.new \in User
                           /\ q.link # NULL => q.link \in Requests
BY DEF TypeOK, Req

\* A request that moves on takes nothing back, unless it changes its account.
LEMMA Persist ==
  ASSUME TypeOK, NEW r \in Requests, NEW q \in Req, req' = [req EXCEPT ![r] = q],
         req[r].answer # "ok",
         Created(r) => q.op = req[r].op /\ q.email = req[r].email
                       /\ q.pc \notin {"idle", "insert"}
  PROVE  /\ \A i \in Requests : Created(i) => Created(i)' /\ req'[i].email = req[i].email
         /\ \A i \in Requests, v \in BOOLEAN : SetByAdmin(i, v) => SetByAdmin(i, v)'
<1>1. req'[r] = q /\ \A x \in Requests \ {r} : req'[x] = req[x]
  BY DEF TypeOK
<1>2. \A i \in Requests : Created(i) => Created(i)' /\ req'[i].email = req[i].email
  BY <1>1 DEF Created
<1>3. ASSUME NEW i \in Requests, NEW v \in BOOLEAN, SetByAdmin(i, v)
      PROVE  SetByAdmin(i, v)'
  BY <1>1, <1>3 DEF SetByAdmin
<1> QED  BY <1>2, <1>3

\* Locals that fit go on to fit.
LEMMA FitsKept ==
  ASSUME TypeOK, Grows, NEW x \in Requests, NEW q \in Req, Fits(x, q)
  PROVE  Fits(x, q)'
<1> USE DEF Fits
<1>1. q.link # NULL => q.link \in Requests /\ links'[q.link] # NULL
                       /\ links'[q.link].purpose = q.op
                       /\ links'[q.link].user = links[q.link].user
  BY Types DEF Grows
<1>2. q.pc = "link" => Created(q.new.id)'
  <2> SUFFICES ASSUME q.pc = "link" PROVE Created(q.new.id)'
    OBVIOUS
  <2>1. q.new.id \in Requests
    BY Types DEF User
  <2> QED  BY <2>1 DEF Grows
<1>3. ASSUME q.pc = "write"
      PROVE  Loaded(q)'
  <2>1. Loaded(q)
    BY <1>3
  <2>2. /\ q.email \in Emails /\ q.row \in User /\ q.row.id \in Requests
    BY <2>1, Types DEF Loaded, User
  <2>3. Created(q.row.id)' /\ req'[q.row.id].email = q.email
    BY <2>1, <2>2 DEF Loaded, Grows
  <2>4. q.link # NULL => links'[q.link].user = q.row.id
    BY <1>1, <2>1 DEF Loaded
  <2>5. ASSUME q.row.verified, Present(q)'
        PROVE  users'[q.email].verified \/ SetByAdmin(q.row.id, FALSE)'
    <3>1. /\ users[q.email] # NULL /\ users[q.email].id = q.row.id
          /\ users[q.email].verified =>
               users'[q.email].verified \/ SetByAdmin(q.row.id, FALSE)'
      BY <2>1, <2>2, <2>5 DEF Loaded, Grows, Present
    <3>2. users[q.email].verified \/ SetByAdmin(q.row.id, FALSE)
      BY <2>1, <2>5, <3>1 DEF Loaded, Present
    <3> QED  BY <2>2, <3>1, <3>2 DEF Grows
  <2> QED  BY <2>1, <2>3, <2>4, <2>5 DEF Loaded
<1> QED  BY <1>1, <1>2, <1>3

LEMMA InitInvariant == Init => IndInv
<1> SUFFICES ASSUME Init PROVE IndInv
  OBVIOUS
<1>1. /\ \A e \in Emails : users[e] = NULL
      /\ \A r \in Requests : links[r] = NULL /\ req[r] = IdleReq
  BY DEF Init
<1>2. IdleReq \in Req
  BY DEF IdleReq, Req, InFlight
<1>3. TypeOK
  BY <1>2 DEF Init, TypeOK
<1>4. LocalsInStep
  BY <1>1 DEF LocalsInStep, Fits, IdleReq
<1> QED  BY <1>1, <1>3, <1>4 DEF IndInv, AccountsCreated, LinksCreated, VerifiedByProof,
                                 SpentLinkTookEffect, IdleReq

\* The locals of every handler go on to fit, those of r being q now.
LEMMA LocalsKept ==
  ASSUME TypeOK, LocalsInStep, Grows, TypeOK', NEW r \in Requests, NEW q \in Req, Fits(r, q),
         req' = [req EXCEPT ![r] = q]
  PROVE  LocalsInStep'
<1> SUFFICES ASSUME NEW x \in Requests PROVE Fits(x, req[x])'
  BY DEF LocalsInStep
<1>1. PICK p \in Req : p = IF x = r THEN q ELSE req[x]
  BY DEF TypeOK
<1>2. Fits(x, p)
  <2>1. CASE x = r
    BY <1>1, <2>1
  <2>2. CASE x # r
    <3>1. Fits(x, req[x]) /\ p = req[x]
      BY <1>1, <2>2 DEF LocalsInStep
    <3> QED  BY <3>1
  <2> QED  BY <2>1, <2>2
<1>3. Fits(x, p)'
  BY <1>2, FitsKept
<1>4. p = req'[x]
  BY <1>1 DEF TypeOK
<1> QED  BY <1>3, <1>4 DEF Fits, Loaded, Present

\* The account i was verified as it should be.
Proved(i) ==
  \/ \E l \in Requests : /\ links[l] # NULL /\ links[l].used
                         /\ links[l].purpose = "verify" /\ links[l].user = i
  \/ SetByAdmin(i, TRUE)

\* An account that was verified has its proof still.
LEMMA ProofKept ==
  ASSUME TypeOK, Grows, VerifiedByProof,
         \A e \in Emails : users'[e] # NULL /\ users'[e].self /\ users'[e].verified =>
           \/ /\ users[e] # NULL /\ users[e].self /\ users[e].verified
              /\ users[e].id = users'[e].id
           \/ Proved(users[e].id)'
  PROVE  VerifiedByProof'
<1> SUFFICES ASSUME NEW e \in Emails, users'[e] # NULL, users'[e].self, users'[e].verified,
                    users[e] # NULL, users[e].self, users[e].verified,
                    users[e].id = users'[e].id
             PROVE  Proved(users[e].id)'
  BY DEF VerifiedByProof, Proved
<1>1. PICK i \in Requests : i = users[e].id
  BY Types DEF User
<1>2. CASE SetByAdmin(i, TRUE)
  <2>1. SetByAdmin(i, TRUE)'
    BY <1>2 DEF Grows
  <2> QED  BY <1>1, <2>1 DEF SetByAdmin, Proved
<1>3. CASE \E l \in Requests : /\ links[l] # NULL /\ links[l].used
                               /\ links[l].purpose = "verify" /\ links[l].user = i
  BY <1>1, <1>3 DEF Grows, Proved
<1>4. Proved(users[e].id)
  BY DEF VerifiedByProof, Proved
<1> QED  BY <1>1, <1>2, <1>3, <1>4 DEF Proved

\* What an account keeps when its link was spent.
LEMMA EffectKept ==
  ASSUME IndInv, Grows, NEW l \in Requests, links[l] # NULL, links[l].used,
         links[l].purpose = "verify", NEW e \in Emails, users'[e] # NULL,
         users'[e].id = links[l].user
  PROVE  users'[e].verified \/ SetByAdmin(links[l].user, FALSE)'
<1> USE DEF IndInv
<1>1. PICK i \in Requests : i = links[l].user
  BY Types DEF Link
<1>2. Created(i)
  BY <1>1 DEF LinksCreated
<1>3. users[e] # NULL /\ users[e].id = i
  BY <1>1, <1>2 DEF Grows
<1>4. users[e].verified \/ SetByAdmin(i, FALSE)
  BY <1>1, <1>3 DEF SpentLinkTookEffect
<1>5. users'[e].verified \/ SetByAdmin(i, FALSE)'
  <2>1. CASE users[e].verified
    <3>1. users'[e].id = i
      BY <1>1
    <3>2. users'[e].verified \/ SetByAdmin(users[e].id, FALSE)'
      BY <1>1, <1>2, <2>1 DEF Grows
    <3> QED  BY <3>1, <3>2 DEF SetByAdmin
  <2>2. CASE SetByAdmin(i, FALSE)
    BY <2>2 DEF Grows
  <2> QED  BY <1>4, <2>1, <2>2
<1>6. links'[l].user = i
  BY <1>1 DEF Grows
<1> QED  BY <1>5, <1>6 DEF SetByAdmin

\* A step that spends no link leaves those that were spent with their effect.
LEMMA SpentKept ==
  ASSUME IndInv, Grows,
         \A l \in Requests : links'[l] # NULL /\ links'[l].used => links[l] # NULL /\ links[l].used,
         \A x \in Requests :
           \/ req'[x].link = req[x].link /\ req'[x].answer = req[x].answer
           \/ req[x].answer # "ok" /\ (req'[x].answer # "ok" \/ req'[x].link = NULL)
  PROVE  SpentLinkTookEffect'
<1> SUFFICES ASSUME NEW l \in Requests, links'[l] # NULL
             PROVE  /\ links'[l].used <=>
                         \E x \in Requests : req'[x].link = l /\ req'[x].answer = "ok"
                    /\ links'[l].used /\ links'[l].purpose = "verify" =>
                         \A e \in Emails : users'[e] # NULL /\ users'[e].id = links'[l].user =>
                           users'[e].verified \/ SetByAdmin(links[l].user, FALSE)'
  BY DEF SpentLinkTookEffect
<1>1. l # NULL
  BY NoRequestAssumption
<1>2. \A x \in Requests : req[x].link = l => links[l] # NULL
  BY <1>1 DEF IndInv, LocalsInStep, Fits
<1>3. links'[l].used <=> \E x \in Requests : req'[x].link = l /\ req'[x].answer = "ok"
  <2>1. ASSUME links'[l].used
        PROVE  \E x \in Requests : req'[x].link = l /\ req'[x].answer = "ok"
    <3>1. PICK x \in Requests : req[x].link = l /\ req[x].answer = "ok"
      BY <2>1 DEF IndInv, SpentLinkTookEffect
    <3> QED  BY <3>1
  <2>2. ASSUME NEW x \in Requests, req'[x].link = l, req'[x].answer = "ok"
        PROVE  links'[l].used
    <3>1. req[x].link = l /\ req[x].answer = "ok"
      BY <1>1, <2>2
    <3>2. links[l] # NULL /\ links[l].used
      BY <1>2, <3>1 DEF IndInv, SpentLinkTookEffect
    <3>3. links[l] \in Link /\ TypeOK
      BY <3>2, Types DEF IndInv
    <3> QED  BY <3>2 DEF Grows
  <2> QED  BY <2>1, <2>2
<1>4. ASSUME links'[l].used, links'[l].purpose = "verify", NEW e \in Emails,
             users'[e] # NULL, users'[e].id = links'[l].user
      PROVE  users'[e].verified \/ SetByAdmin(links[l].user, FALSE)'
  <2>1. /\ links[l] # NULL /\ links[l].used /\ links[l].purpose = "verify"
        /\ users'[e].id = links[l].user
    BY <1>4 DEF Grows
  <2> QED  BY <1>4, <2>1, EffectKept DEF SetByAdmin
<1> QED  BY <1>3, <1>4

\* Requests and accounts stay with each other.
LEMMA OwnersKept ==
  ASSUME TypeOK, Grows, AccountsCreated, LinksCreated,
         \A x \in Requests : req[x].pc = "done" => req'[x].pc = "done",
         \A e \in Emails : users'[e] # NULL =>
           \/ users[e] # NULL /\ users[e].id = users'[e].id
           \/ Created(users[e].id)' /\ req'[users'[e].id].email = e,
         \A l \in Requests : links'[l] # NULL =>
           \/ links[l] # NULL
           \/ req'[l].pc = "done" /\ links'[l].user \in Requests /\ Created(links[l].user)'
  PROVE  AccountsCreated' /\ LinksCreated'
<1>1. ASSUME NEW e \in Emails, users'[e] # NULL
      PROVE  Created(users[e].id)' /\ req'[users'[e].id].email = e
  <2>1. CASE users[e] # NULL /\ users[e].id = users'[e].id
    <3>1. PICK i \in Requests : i = users[e].id
      BY <2>1, Types DEF User
    <3>2. Created(i) /\ req[i].email = e
      BY <2>1, <3>1 DEF AccountsCreated
    <3>3. Created(i)' /\ req'[i].email = e
      BY <3>2 DEF Grows
    <3> QED  BY <2>1, <3>1, <3>3 DEF Created
  <2> QED  BY <1>1, <2>1
<1>2. ASSUME NEW l \in Requests, links'[l] # NULL
      PROVE  req'[l].pc = "done" /\ Created(links[l].user)'
  <2>1. CASE links[l] # NULL
    <3>1. PICK i \in Requests : i = links[l].user
      BY <2>1, Types DEF Link
    <3>2. Created(i)'
      BY <2>1, <3>1 DEF LinksCreated, Grows
    <3>3. links'[l].user = i
      BY <2>1, <3>1 DEF Grows
    <3> QED  BY <2>1, <3>2, <3>3 DEF LinksCreated, Created
  <2> QED  BY <1>2, <2>1
<1> QED  BY <1>1, <1>2 DEF AccountsCreated, LinksCreated

\* A step that only moves the locals of one handler on, without an answer to
\* a request with a link.
LEMMA Moves ==
  ASSUME IndInv, NEW r \in Requests, NEW q \in Req, req' = [req EXCEPT ![r] = q],
         UNCHANGED <<users, links>>, Fits(r, q), req[r].pc # "done",
         Created(r) => q.op = req[r].op /\ q.email = req[r].email
                       /\ q.pc \notin {"idle", "insert"},
         q.answer = "ok" => q.link = NULL
  PROVE  IndInv' /\ Grows
<1> USE DEF IndInv
<1>1. req[r].answer # "ok"
  BY DEF LocalsInStep, Fits
<1>2. TypeOK'
  BY DEF TypeOK
<1>3. req'[r] = q /\ \A x \in Requests \ {r} : req'[x] = req[x]
  BY DEF TypeOK
<1>4. Grows
  <2>1. \A e \in Emails : users[e] # NULL /\ users[e].verified =>
          users'[e].verified \/ SetByAdmin(users[e].id, FALSE)'
    OBVIOUS
  <2> QED  BY <1>1, <2>1, Persist DEF Grows
<1>5. LocalsInStep'
  BY <1>2, <1>4, LocalsKept
<1>6. VerifiedByProof'
  BY <1>4, ProofKept
<1>7. SpentLinkTookEffect'
  BY <1>1, <1>3, <1>4, SpentKept
<1>8. AccountsCreated' /\ LinksCreated'
  <2>1. ASSUME NEW e \in Emails, users'[e] # NULL
        PROVE  users[e] # NULL /\ users[e].id = users'[e].id
    BY <2>1
  <2>2. \A x \in Requests : req[x].pc = "done" => req'[x].pc = "done"
    BY <1>3
  <2> QED  BY <1>4, <2>1, <2>2, OwnersKept
<1> QED  BY <1>2, <1>4, <1>5, <1>6, <1>7, <1>8

\* A row that is loaded now, with what a handler makes of it.
LEMMA LoadedNow ==
  ASSUME TypeOK, AccountsCreated, NEW e \in Emails, users[e] # NULL,
         NEW q \in Req, q.email = e, q.row = users[e], q.new \in User,
         q.new.id = q.row.id,
         q.op # "update" => q.new.active = q.row.active,
         q.op \notin {"update", "verify"} => q.new.verified = q.row.verified,
         q.op = "verify" => q.new.verified /\ q.link # NULL,
         q.link # NULL => links[q.link].user = q.row.id
  PROVE  Loaded(q)
BY NoRequestAssumption, NoRowAssumption, Types DEF AccountsCreated, Loaded, Present

\* The handlers that load an account.
LEMMA StartKeeps ==
  ASSUME IndInv, NEW r \in Requests, Start(r)
  PROVE  IndInv' /\ Grows
<1> USE DEF IndInv
<1>1. req[r].pc = "idle" /\ ~Created(r)
  BY DEF Start, Create, Ask, ChangePassword, AdminReset, AdminUpdate, Follow, Created
<1>2. ASSUME NEW e \in Emails, NEW op \in Creating, Create(r, e, op)
      PROVE  IndInv' /\ Grows
  <2>1. NewUser(r, op = "register") \in User
    BY DEF NewUser, User
  <2>2. PICK q \in Req : q = Writing("insert", op, e, NULL, NewUser(r, op = "register"), NULL)
    BY <2>1 DEF Writing, Req, InFlight
  <2>3. Fits(r, q)
    BY <2>1, <2>2, NoRequestAssumption, NoRowAssumption DEF Fits, Writing, Creating
  <2> QED  BY <1>1, <1>2, <2>2, <2>3, Moves DEF Create, Writing
<1>3. ASSUME NEW e \in Emails, NEW op \in Asking, Ask(r, e, op)
      PROVE  IndInv' /\ Grows
  <2>1. users[e] \in User /\ users[e] # NULL /\ Created(users[e].id)
    BY <1>3, Types DEF Ask, AccountsCreated
  <2>2. PICK q \in Req : q = Writing("link", op, e, users[e], users[e], NULL)
    BY <2>1 DEF Writing, Req, InFlight
  <2>3. Fits(r, q)
    BY <2>1, <2>2 DEF Fits, Writing, Asking
  <2> QED  BY <1>1, <1>3, <2>2, <2>3, Moves DEF Ask, Writing
<1>4. ASSUME NEW e \in Emails, NEW op \in Editing, NEW u \in User, users[e] # NULL,
             u.id = users[e].id,
             op # "update" => u.active = users[e].active /\ u.verified = users[e].verified,
             req' = [req EXCEPT ![r] = Writing("write", op, e, users[e], u, NULL)],
             UNCHANGED <<users, links>>
      PROVE  IndInv' /\ Grows
  <2>1. users[e] \in User
    BY <1>4, Types
  <2>2. PICK q \in Req : q = Writing("write", op, e, users[e], u, NULL)
    BY <2>1 DEF Writing, Req, InFlight
  <2>3. Loaded(q)
    <3>1. /\ q.email = e /\ q.row = users[e] /\ q.new = u /\ q.op = op /\ q.link = NULL
          /\ op # "verify"
      BY <2>2 DEF Writing, Editing
    <3> QED  BY <1>4, <3>1, LoadedNow
  <2>4. Fits(r, q)
    BY <2>2, <2>3, NoRowAssumption DEF Fits, Writing
  <2> QED  BY <1>1, <1>4, <2>2, <2>4, Moves DEF Writing
<1>5. ASSUME NEW e \in Emails, ChangePassword(r, e)
      PROVE  IndInv' /\ Grows
  <2>1. PICK u \in User : u = [users[e] EXCEPT !.pw = r, !.must = FALSE]
    BY <1>5, Types DEF ChangePassword, User
  <2>2. "change" \in Editing /\ users[e] \in User
    BY <1>5, Types DEF ChangePassword, Editing
  <2>3. u.id = users[e].id /\ u.active = users[e].active /\ u.verified = users[e].verified
    BY <2>1, <2>2 DEF User
  <2> QED  BY <1>4, <1>5, <2>1, <2>2, <2>3 DEF ChangePassword
<1>6. ASSUME NEW e \in Emails, AdminReset(r, e)
      PROVE  IndInv' /\ Grows
  <2>1. PICK u \in User : u = [users[e] EXCEPT !.pw = r, !.must = TRUE]
    BY <1>6, Types DEF AdminReset, User
  <2>2. "admin_reset" \in Editing /\ users[e] \in User
    BY <1>6, Types DEF AdminReset, Editing
  <2>3. u.id = users[e].id /\ u.active = users[e].active /\ u.verified = users[e].verified
    BY <2>1, <2>2 DEF User
  <2> QED  BY <1>4, <1>6, <2>1, <2>2, <2>3 DEF AdminReset
<1>7. ASSUME NEW e \in Emails, NEW active \in BOOLEAN, NEW verified \in BOOLEAN,
             AdminUpdate(r, e, active, verified)
      PROVE  IndInv' /\ Grows
  <2>1. PICK u \in User : u = [users[e] EXCEPT !.active = active, !.verified = verified]
    BY <1>7, Types DEF AdminUpdate, User
  <2>2. "update" \in Editing /\ users[e] \in User
    BY <1>7, Types DEF AdminUpdate, Editing
  <2>3. u.id = users[e].id
    BY <2>1, <2>2 DEF User
  <2> QED  BY <1>4, <1>7, <2>1, <2>2, <2>3 DEF AdminUpdate
<1>8. ASSUME NEW l \in Requests, NEW purpose \in Following, Follow(r, l, purpose)
      PROVE  IndInv' /\ Grows
  <2>1. PICK q \in Req : q = Writing("account", purpose, NULL, NULL, NULL, l)
    BY DEF Writing, Req, InFlight, Following
  <2>2. Fits(r, q)
    BY <1>8, <2>1, NoRequestAssumption DEF Fits, Writing, Follow, Usable, Following
  <2> QED  BY <1>1, <1>8, <2>1, <2>2, Moves DEF Follow, Writing
<1> QED  BY <1>2, <1>3, <1>5, <1>6, <1>7, <1>8 DEF Start

\* The account of a link that is followed.
LEMMA FindAccountKeeps ==
  ASSUME IndInv, NEW r \in Requests, FindAccount(r)
  PROVE  IndInv' /\ Grows
<1> USE DEF IndInv
<1>1. PICK q0 \in Req : q0 = req[r]
  BY Types
<1>2. /\ q0.pc = "account" /\ q0.link \in Requests /\ links[q0.link] # NULL
      /\ links[q0.link].purpose = q0.op /\ q0.answer # "ok" /\ Fits(r, q0)
  BY <1>1, Types DEF FindAccount, LocalsInStep, Fits
<1>3. q0.op \in Following
  BY <1>2, Types DEF Link, Following
<1>4. PICK e \in Emails :
        /\ users[e] # NULL /\ users[e].id = links[q0.link].user
        /\ req' = [req EXCEPT ![r] = Writing("write", q0.op, e, users[e],
              IF q0.op = "verify" THEN [users[e] EXCEPT !.verified = TRUE]
                                  ELSE [users[e] EXCEPT !.pw = r, !.must = FALSE], q0.link)]
  BY <1>1 DEF FindAccount
<1>5. users[e] \in User
  BY <1>4, Types
<1>6. PICK u \in User : u = IF q0.op = "verify" THEN [users[e] EXCEPT !.verified = TRUE]
                                            ELSE [users[e] EXCEPT !.pw = r, !.must = FALSE]
  BY <1>5 DEF User
<1>7. /\ u.id = users[e].id /\ u.active = users[e].active
      /\ IF q0.op = "verify" THEN u.verified ELSE u.verified = users[e].verified
  BY <1>5, <1>6 DEF User
<1>8. PICK q \in Req : q = Writing("write", q0.op, e, users[e], u, q0.link)
  BY <1>2, <1>5 DEF Writing, Req, InFlight
<1>9. /\ q.email = e /\ q.row = users[e] /\ q.new = u /\ q.op = q0.op /\ q.link = q0.link
      /\ q.pc = "write" /\ q.answer = "none" /\ q.op # "update" /\ q.link # NULL
  BY <1>2, <1>3, <1>8, NoRequestAssumption DEF Writing, Following
<1>10. Loaded(q)
  BY <1>3, <1>4, <1>7, <1>9, LoadedNow DEF Following
<1>11. Fits(r, q)
  BY <1>2, <1>9, <1>10 DEF Fits
<1>12. ~Created(r)
  BY <1>1, <1>2, <1>3 DEF Created, Creating, Following
<1> QED  BY <1>1, <1>2, <1>4, <1>6, <1>8, <1>9, <1>11, <1>12, Moves DEF FindAccount

\* A handler that ends without an effect, or with no link to spend.
LEMMA EndKeeps ==
  ASSUME IndInv, NEW r \in Requests,
         NoAccount(r) \/ InsertRejected(r) \/ WriteRejected(r) \/ Lose(r)
  PROVE  IndInv' /\ Grows
<1> USE DEF IndInv
<1>1. PICK q0 \in Req : q0 = req[r]
  BY Types
<1>2. q0.pc \in InFlight /\ q0.answer = "none" /\ Fits(r, q0)
  BY <1>1 DEF NoAccount, InsertRejected, WriteRejected, Lose, InFlight, LocalsInStep, Fits, Req
<1>3. ASSUME NEW pc \in {"done", "dead"}, NEW answer \in {"none", "refused", "error"},
             pc = "dead" => answer = "none",
             req' = [req EXCEPT ![r] = [q0 EXCEPT !.pc = pc, !.answer = answer]],
             UNCHANGED <<users, links>>, q0.pc = "insert" => pc = "dead" \/ answer = "error"
      PROVE  IndInv' /\ Grows
  <2>1. PICK q \in Req : q = [q0 EXCEPT !.pc = pc, !.answer = answer]
    BY DEF Req
  <2>2. /\ q.pc = pc /\ q.answer = answer /\ q.op = q0.op /\ q.email = q0.email
        /\ q.link = q0.link /\ q.new = q0.new
    BY <2>1 DEF Req
  <2>3. q.op = "update" => q.new # NULL
    BY <1>2, <2>2 DEF Fits, InFlight
  <2>4. Fits(r, q)
    BY <1>2, <1>3, <2>2, <2>3 DEF Fits
  <2> QED  BY <1>1, <1>2, <1>3, <2>1, <2>2, <2>4, Moves DEF InFlight
<1>4. CASE NoAccount(r)
  BY <1>1, <1>2, <1>3, <1>4 DEF NoAccount, Ended
<1>5. CASE InsertRejected(r) \/ WriteRejected(r)
  BY <1>1, <1>2, <1>3, <1>5 DEF InsertRejected, WriteRejected, Ended
<1>6. CASE Lose(r)
  <2>1. [q0 EXCEPT !.pc = "dead"] = [q0 EXCEPT !.pc = "dead", !.answer = "none"]
    BY <1>2 DEF Req
  <2>2. req' = [req EXCEPT ![r] = [q0 EXCEPT !.pc = "dead", !.answer = "none"]]
    BY <1>1, <1>6, <2>1 DEF Lose, TypeOK
  <2>3. UNCHANGED <<users, links>>
    BY <1>6 DEF Lose
  <2> QED  BY <1>3, <2>2, <2>3
<1> QED  BY <1>4, <1>5, <1>6

\* A new account: its id is the request's, which has created none before.
LEMMA InsertKeeps ==
  ASSUME IndInv, NEW r \in Requests, Insert(r)
  PROVE  IndInv' /\ Grows
<1> USE DEF IndInv
<1>1. PICK q0 \in Req : q0 = req[r]
  BY Types
<1>2. PICK q \in Req : q = IF q0.op = "register" THEN [q0 EXCEPT !.pc = "link"]
                                                ELSE Ended(q0, "ok")
  BY DEF Req, InFlight, Ended
<1>3. /\ q0.pc = "insert" /\ q0.op \in Creating /\ q0.email \in Emails /\ q0.link = NULL
      /\ q0.answer = "none" /\ q0.new = NewUser(r, q0.op = "register")
  BY <1>1, Types DEF Insert, LocalsInStep, Fits
<1>4. /\ q.op = q0.op /\ q.email = q0.email /\ q.link = NULL /\ q.new = q0.new
      /\ IF q0.op = "register" THEN q.pc = "link" /\ q.answer = "none"
                               ELSE q.pc = "done" /\ q.answer = "ok"
  BY <1>2, <1>3 DEF Req, Ended
<1>5. q0.new \in User /\ q0.new.id = r /\ (q0.new.self => ~q0.new.verified)
  <2>1. NewUser(r, q0.op = "register") \in User
    BY DEF NewUser, User
  <2>2. /\ NewUser(r, q0.op = "register").id = r
        /\ NewUser(r, q0.op = "register").self => ~NewUser(r, q0.op = "register").verified
    BY DEF NewUser
  <2> QED  BY <1>3, <2>1, <2>2
<1>6. /\ users[q0.email] = NULL /\ users' = [users EXCEPT ![q0.email] = q0.new]
      /\ req' = [req EXCEPT ![r] = q] /\ links' = links
  BY <1>1, <1>2 DEF Insert, Free
<1>7. /\ users'[q0.email] = q0.new /\ \A e \in Emails \ {q0.email} : users'[e] = users[e]
      /\ req'[r] = q /\ \A x \in Requests \ {r} : req'[x] = req[x]
  BY <1>3, <1>6 DEF TypeOK
<1>8. TypeOK'
  <2>1. users' \in [Emails -> User \cup {NULL}]
    BY <1>5, <1>6 DEF TypeOK
  <2>2. req' \in [Requests -> Req]
    BY <1>6 DEF TypeOK
  <2> QED  BY <1>6, <2>1, <2>2 DEF TypeOK
<1>9. ~Created(r) /\ Created(r)'
  BY <1>1, <1>3, <1>4, <1>7 DEF Created
<1>10. Grows
  <2>1. \A e \in Emails : users'[e] # NULL =>
          \/ /\ users[e] # NULL /\ users'[e].id = users[e].id /\ users'[e].self = users[e].self
             /\ users[e].verified => users'[e].verified
          \/ users[e] = NULL /\ ~Created(users'[e].id)
    BY <1>5, <1>6, <1>7, <1>9
  <2> QED  BY <1>1, <1>3, <1>6, <1>9, <2>1, Persist DEF Grows
<1>11. LocalsInStep'
  <2>1. ASSUME q.pc = "link" PROVE Fits(r, q)'
    <3>1. q.new # NULL /\ q.new.id = r
      BY <1>4, <1>5, NoRowAssumption
    <3>2. Created(q.new.id)'
      BY <1>9, <3>1 DEF Created
    <3> QED  BY <1>4, <2>1, <3>1, <3>2 DEF Fits
  <2>2. ASSUME q.pc = "done" PROVE Fits(r, q)'
    BY <1>4, <1>3, <2>2 DEF Fits, Creating
  <2>3. Fits(r, q)'
    BY <1>4, <2>1, <2>2
  <2>4. ASSUME NEW x \in Requests, x # r PROVE Fits(x, req[x])'
    <3>1. PICK p \in Req : p = req[x]
      BY Types
    <3>2. Fits(x, p)
      BY <3>1 DEF LocalsInStep
    <3>3. Fits(x, p)'
      BY <1>10, <3>2, FitsKept
    <3> QED  BY <1>7, <2>4, <3>1, <3>3 DEF Fits, Loaded, Present
  <2>5. Fits(r, req[r])'
    BY <1>7, <2>3 DEF Fits, Loaded, Present
  <2> QED  BY <2>4, <2>5 DEF LocalsInStep
<1>12. VerifiedByProof'
  BY <1>5, <1>7, <1>10, ProofKept
<1>13. SpentLinkTookEffect'
  BY <1>1, <1>3, <1>4, <1>6, <1>7, <1>10, SpentKept
<1>14. AccountsCreated' /\ LinksCreated'
  <2>1. ASSUME NEW e \in Emails, users'[e] # NULL
        PROVE  \/ users[e] # NULL /\ users[e].id = users'[e].id
               \/ Created(users[e].id)' /\ req'[users'[e].id].email = e
    <3>1. CASE e = q0.email
      <4>1. users'[e].id = r /\ req'[r].email = e
        BY <1>4, <1>5, <1>7, <3>1
      <4> QED  BY <1>9, <4>1 DEF Created
    <3>2. CASE e # q0.email
      BY <1>7, <2>1, <3>2
    <3> QED  BY <3>1, <3>2
  <2>2. \A x \in Requests : req[x].pc = "done" => req'[x].pc = "done"
    BY <1>1, <1>3, <1>7
  <2>3. \A l \in Requests : links'[l] # NULL => links[l] # NULL
    BY <1>6
  <2> QED  BY <1>10, <2>1, <2>2, <2>3, OwnersKept
<1> QED  BY <1>8, <1>10, <1>11, <1>12, <1>13, <1>14

\* A new link: the request that sends it had sent none before.
LEMMA AddLinkKeeps ==
  ASSUME IndInv, NEW r \in Requests, AddLink(r)
  PROVE  IndInv' /\ Grows
<1> USE DEF IndInv
<1>1. PICK q0 \in Req : q0 = req[r]
  BY Types
<1>2. PICK q \in Req : q = Ended(q0, "ok")
  BY DEF Req, Ended
<1>3. /\ q0.pc = "link" /\ q0.link = NULL /\ q0.answer = "none"
      /\ q0.new \in User /\ q0.new.id \in Requests /\ Created(q0.new.id)
      /\ q0.op = "update" => q0.new # NULL
  BY <1>1, Types DEF AddLink, LocalsInStep, Fits, User
<1>4. /\ q.op = q0.op /\ q.email = q0.email /\ q.link = NULL /\ q.new = q0.new
      /\ q.pc = "done" /\ q.answer = "ok"
  BY <1>2, <1>3 DEF Req, Ended
<1>5. PICK k \in Link : k = [user |-> q0.new.id, used |-> FALSE, expired |-> FALSE,
                             purpose |-> IF q0.op = "forgot" THEN "reset" ELSE "verify"]
  <2>1. PICK purpose \in {"verify", "reset"} :
          purpose = IF q0.op = "forgot" THEN "reset" ELSE "verify"
    OBVIOUS
  <2>2. [user |-> q0.new.id, used |-> FALSE, expired |-> FALSE, purpose |-> purpose] \in Link
    BY <1>3 DEF Link
  <2> QED  BY <2>1, <2>2
<1>6. /\ links' = [links EXCEPT ![r] = k] /\ req' = [req EXCEPT ![r] = q] /\ users' = users
  BY <1>1, <1>2, <1>5 DEF AddLink
<1>7. /\ links[r] = NULL /\ links'[r] = k /\ \A l \in Requests \ {r} : links'[l] = links[l]
      /\ req'[r] = q /\ \A x \in Requests \ {r} : req'[x] = req[x]
  BY <1>1, <1>3, <1>6 DEF TypeOK, LinksCreated
<1>8. TypeOK'
  BY <1>6 DEF TypeOK
<1>9. Grows
  <2>1. \A e \in Emails : users[e] # NULL /\ users[e].verified =>
          users'[e].verified \/ SetByAdmin(users[e].id, FALSE)'
    BY <1>6
  <2> QED  BY <1>1, <1>3, <1>4, <1>6, <1>7, <2>1, Persist DEF Grows
<1>10. LocalsInStep'
  <2>1. Fits(r, q)
    BY <1>3, <1>4 DEF Fits
  <2> QED  BY <1>6, <1>8, <1>9, <2>1, LocalsKept
<1>11. VerifiedByProof'
  BY <1>6, <1>9, ProofKept
<1>12. SpentLinkTookEffect'
  BY <1>1, <1>3, <1>4, <1>5, <1>7, <1>9, SpentKept
<1>13. AccountsCreated' /\ LinksCreated'
  <2>1. \A x \in Requests : req[x].pc = "done" => req'[x].pc = "done"
    BY <1>1, <1>3, <1>7
  <2>2. ASSUME NEW l \in Requests, links'[l] # NULL
        PROVE  \/ links[l] # NULL
               \/ req'[l].pc = "done" /\ links'[l].user \in Requests /\ Created(links[l].user)'
    <3>1. CASE l = r
      <4>1. links'[l].user = q0.new.id /\ req'[l].pc = "done"
        BY <1>4, <1>5, <1>7, <3>1
      <4>2. Created(q0.new.id)'
        BY <1>3, <1>9 DEF Grows
      <4> QED  BY <1>3, <4>1, <4>2 DEF Created
    <3>2. CASE l # r
      BY <1>7, <2>2, <3>2
    <3> QED  BY <3>1, <3>2
  <2>3. \A e \in Emails : users'[e] # NULL => users[e] # NULL /\ users[e].id = users'[e].id
    BY <1>6
  <2> QED  BY <1>9, <2>1, <2>2, <2>3, OwnersKept
<1> QED  BY <1>8, <1>9, <1>10, <1>11, <1>12, <1>13

\* A step that leaves the handlers alone, and to each account and link what
\* the properties are about.
LEMMA TablesKeep ==
  ASSUME IndInv, TypeOK', req' = req,
         \A e \in Emails : users'[e] # NULL => users'[e] = users[e],
         \A l \in Requests : links'[l] # NULL <=> links[l] # NULL,
         \A l \in Requests : links[l] # NULL =>
           /\ links'[l].user = links[l].user /\ links'[l].purpose = links[l].purpose
           /\ links'[l].used = links[l].used
  PROVE  IndInv' /\ Grows
<1> USE DEF IndInv
<1>1. Grows
  <2>1. \A i \in Requests : Created(i) => Created(i)' /\ req'[i].email = req[i].email
    BY DEF Created
  <2>2. \A i \in Requests, v \in BOOLEAN : SetByAdmin(i, v) => SetByAdmin(i, v)'
    BY DEF SetByAdmin
  <2> QED  BY <2>1, <2>2 DEF Grows
<1>2. LocalsInStep'
  <2> SUFFICES ASSUME NEW x \in Requests PROVE Fits(x, req[x])'
    BY DEF LocalsInStep
  <2>1. PICK q \in Req : q = req[x]
    BY Types
  <2>2. Fits(x, q)
    BY <2>1 DEF LocalsInStep
  <2>3. Fits(x, q)'
    BY <1>1, <2>2, FitsKept
  <2> QED  BY <2>1, <2>3 DEF Fits, Loaded, Present
<1>3. VerifiedByProof'
  BY <1>1, ProofKept
<1>4. SpentLinkTookEffect'
  BY <1>1, SpentKept
<1>5. AccountsCreated' /\ LinksCreated'
  BY <1>1, OwnersKept
<1> QED  BY <1>1, <1>2, <1>3, <1>4, <1>5

\* A link expires, an account is deleted.
LEMMA TableStepKeeps ==
  ASSUME IndInv, (\E l \in Requests : Expire(l)) \/ (\E e \in Emails : DeleteUser(e))
  PROVE  IndInv' /\ Grows
<1>1. TypeOK
  BY DEF IndInv
<1>2. ASSUME NEW l \in Requests, Expire(l) PROVE IndInv' /\ Grows
  <2>1. links[l] \in Link
    BY <1>1, <1>2, Types DEF Expire
  <2>2. PICK k \in Link : k = [links[l] EXCEPT !.expired = TRUE]
    BY <2>1 DEF Link
  <2>3. links' = [links EXCEPT ![l] = k] /\ UNCHANGED <<users, req>> /\ links[l] # NULL
    BY <1>1, <1>2, <2>2 DEF Expire, TypeOK
  <2>4. TypeOK'
    BY <1>1, <2>3 DEF TypeOK
  <2>5. k.user = links[l].user /\ k.purpose = links[l].purpose /\ k.used = links[l].used
    BY <2>1, <2>2 DEF Link
  <2>6. links'[l] = k /\ k # NULL /\ \A x \in Requests \ {l} : links'[x] = links[x]
    BY <1>1, <2>3, NoRowAssumption DEF TypeOK
  <2> QED  BY <2>3, <2>4, <2>5, <2>6, TablesKeep
<1>3. ASSUME NEW e \in Emails, DeleteUser(e) PROVE IndInv' /\ Grows
  <2>1. TypeOK' /\ \A x \in Emails : users'[x] # NULL => users'[x] = users[x]
    BY <1>1, <1>3 DEF DeleteUser, TypeOK
  <2> QED  BY <1>3, <2>1, TablesKeep DEF DeleteUser
<1> QED  BY <1>2, <1>3

\* What the flush makes of an account.
LEMMA FlushedRow ==
  ASSUME NEW u \in User, NEW row \in User, NEW new \in User
  PROVE  /\ Flushed(u, row, new) \in User
         /\ Flushed(u, row, new).id = u.id /\ Flushed(u, row, new).self = u.self
         /\ Flushed(u, row, new).active = IF new.active = row.active THEN u.active
                                                                    ELSE new.active
         /\ Flushed(u, row, new).verified = IF new.verified = row.verified THEN u.verified
                                                                          ELSE new.verified
BY DEF Flushed, User

\* The commit of an account and of the link that was followed.
LEMMA WriteKeeps ==
  ASSUME IndInv, NEW r \in Requests, Write(r)
  PROVE  IndInv' /\ Grows
<1> USE DEF IndInv
<1>1. PICK q \in Req : q = req[r]
  BY Types
<1>2. PICK p \in Req : p = Ended(q, "ok")
  BY DEF Req, Ended
<1>3. q.pc = "write" /\ q.answer = "none" /\ Fits(r, q) /\ Loaded(q)
  BY <1>1 DEF Write, LocalsInStep, Fits
<1>4. /\ p.op = q.op /\ p.email = q.email /\ p.link = q.link /\ p.new = q.new
      /\ p.row = q.row /\ p.pc = "done" /\ p.answer = "ok"
  BY <1>2 DEF Req, Ended
<1>5. /\ q.email \in Emails /\ q.row \in User /\ q.new \in User /\ q.row.id \in Requests
      /\ q.new.id = q.row.id /\ req[q.row.id].email = q.email /\ Created(q.row.id)
  BY <1>3, Types DEF Loaded, User
<1>6. /\ users' = IF Present(q) THEN [users EXCEPT ![q.email] = Flushed(@, q.row, q.new)]
                                ELSE users
      /\ links' = SpentLinks(q) /\ req' = [req EXCEPT ![r] = p]
  BY <1>1, <1>2 DEF Write
<1>7. req'[r] = p /\ \A x \in Requests \ {r} : req'[x] = req[x]
  BY <1>6 DEF TypeOK
<1>8. /\ \A e \in Emails \ {q.email} : users'[e] = users[e]
      /\ ~Present(q) => users'[q.email] = users[q.email]
      /\ Present(q) => /\ users[q.email] \in User /\ users[q.email].id = q.row.id
                       /\ users'[q.email] = Flushed(users[q.email], q.row, q.new)
                       /\ users'[q.email] \in User
  BY <1>5, <1>6, FlushedRow, Types DEF TypeOK, Present
<1>9. /\ q.link # NULL => /\ q.link \in Requests /\ links[q.link] \in Link
                          /\ links[q.link].purpose = q.op /\ links[q.link].user = q.row.id
                          /\ links'[q.link] = [links[q.link] EXCEPT !.used = TRUE]
      /\ \A l \in Requests : l # q.link => links'[l] = links[l]
  BY <1>3, <1>6, Types DEF TypeOK, SpentLinks, Fits, Loaded
<1>10. \A l \in Requests : links[l] # NULL =>
         /\ links'[l] \in Link /\ links'[l].purpose = links[l].purpose
         /\ links'[l].user = links[l].user /\ (links[l].used => links'[l].used)
         /\ links'[l].used => links[l].used \/ l = q.link
         /\ l = q.link => links'[l].used
  <2> SUFFICES ASSUME NEW l \in Requests, links[l] # NULL
               PROVE  /\ links'[l] \in Link /\ links'[l].purpose = links[l].purpose
                      /\ links'[l].user = links[l].user
                      /\ links[l].used => links'[l].used
                      /\ links'[l].used => links[l].used \/ l = q.link
                      /\ l = q.link => links'[l].used
    OBVIOUS
  <2>1. CASE l = q.link
    BY <1>9, <2>1, NoRequestAssumption DEF Link
  <2>2. CASE l # q.link
    <3>1. links'[l] = links[l] /\ links[l] \in Link
      BY <1>9, <2>2, Types
    <3> QED  BY <2>2, <3>1
  <2> QED  BY <2>1, <2>2
<1>11. \A l \in Requests : links[l] = NULL => links'[l] = NULL
  BY <1>9, NoRequestAssumption, NoRowAssumption
<1>12. TypeOK'
  <2>1. users' \in [Emails -> User \cup {NULL}]
    BY <1>6, <1>8 DEF TypeOK
  <2>2. links' \in [Requests -> Link \cup {NULL}]
    BY <1>6, <1>10, <1>11 DEF TypeOK, SpentLinks
  <2>3. req' \in [Requests -> Req]
    BY <1>6 DEF TypeOK
  <2> QED  BY <2>1, <2>2, <2>3 DEF TypeOK
<1>13. ASSUME NEW v \in BOOLEAN, q.op = "update", q.new.verified = v
       PROVE  SetByAdmin(q.row.id, v)'
  BY <1>4, <1>5, <1>7, <1>13 DEF SetByAdmin
<1>14. ASSUME Present(q)
       PROVE  /\ users'[q.email].id = q.row.id /\ users'[q.email].self = users[q.email].self
              /\ users'[q.email].verified = IF q.new.verified = q.row.verified
                                              THEN users[q.email].verified
                                              ELSE q.new.verified
              /\ users[q.email].verified =>
                   users'[q.email].verified \/ SetByAdmin(q.row.id, FALSE)'
  <2>1. /\ users'[q.email].id = q.row.id /\ users'[q.email].self = users[q.email].self
        /\ users'[q.email].verified = IF q.new.verified = q.row.verified
                                        THEN users[q.email].verified ELSE q.new.verified
    BY <1>5, <1>8, <1>14, FlushedRow
  <2>2. ASSUME users[q.email].verified, ~users'[q.email].verified
        PROVE  q.new.verified = FALSE /\ q.op = "update"
    BY <1>3, <1>5, <2>1, <2>2 DEF Loaded, User
  <2> QED  BY <1>13, <2>1, <2>2
<1>15. Grows
  <2>1. /\ \A i \in Requests : Created(i) => Created(i)' /\ req'[i].email = req[i].email
        /\ \A i \in Requests, v \in BOOLEAN : SetByAdmin(i, v) => SetByAdmin(i, v)'
    BY <1>1, <1>3, <1>4, <1>6, Persist
  <2>2. \A l \in Requests : links[l] # NULL => links'[l] # NULL
    BY <1>10, NoRowAssumption
  <2>3. ASSUME NEW e \in Emails, users'[e] # NULL
        PROVE  /\ users[e] # NULL /\ users'[e].id = users[e].id /\ users'[e].self = users[e].self
               /\ users[e].verified => users'[e].verified \/ SetByAdmin(users[e].id, FALSE)'
    <3>1. CASE e = q.email /\ Present(q)
      <4>1. users'[e].id = q.row.id
        BY <1>14, <3>1
      <4> QED  BY <1>8, <1>14, <3>1, <4>1, NoRowAssumption DEF SetByAdmin
    <3>2. CASE e # q.email \/ ~Present(q)
      BY <1>8, <2>3, <3>2
    <3> QED  BY <3>1, <3>2
  <2> QED  BY <1>10, <2>1, <2>2, <2>3 DEF Grows
<1>16. LocalsInStep'
  <2>1. Fits(r, p)
    BY <1>3, <1>4 DEF Fits, Loaded
  <2> QED  BY <1>6, <1>12, <1>15, <2>1, LocalsKept
<1>17. VerifiedByProof'
  <2>1. ASSUME NEW e \in Emails, users'[e] # NULL, users'[e].self, users'[e].verified
        PROVE  \/ /\ users[e] # NULL /\ users[e].self /\ users[e].verified
                  /\ users[e].id = users'[e].id
               \/ Proved(users[e].id)'
    <3>1. CASE e # q.email \/ ~Present(q)
      BY <1>8, <2>1, <3>1
    <3>2. CASE e = q.email /\ Present(q) /\ q.new.verified = q.row.verified
      BY <1>8, <1>14, <2>1, <3>2, NoRowAssumption
    <3>3. CASE e = q.email /\ Present(q) /\ q.new.verified # q.row.verified
      <4>1. q.new.verified /\ users'[e].id = q.row.id
        BY <1>14, <2>1, <3>3
      <4>2. CASE q.op = "update"
        <5>1. SetByAdmin(q.row.id, TRUE)'
          BY <1>5, <1>13, <4>1, <4>2 DEF User
        <5> QED  BY <4>1, <5>1 DEF Proved, SetByAdmin
      <4>3. CASE q.op = "verify"
        <5>1. q.link # NULL
          BY <1>3, <4>3 DEF Loaded
        <5>2. /\ q.link \in Requests /\ links'[q.link] # NULL /\ links'[q.link].used
              /\ links'[q.link].purpose = "verify" /\ links'[q.link].user = q.row.id
          BY <1>9, <1>10, <4>3, <5>1, NoRowAssumption
        <5> QED  BY <4>1, <5>2 DEF Proved
      <4> QED  BY <1>3, <3>3, <4>2, <4>3 DEF Loaded
    <3> QED  BY <3>1, <3>2, <3>3
  <2> QED  BY <1>15, <2>1, ProofKept
<1>18. SpentLinkTookEffect'
  <2> SUFFICES ASSUME NEW l \in Requests, links'[l] # NULL
               PROVE  /\ links'[l].used <=>
                           \E x \in Requests : req'[x].link = l /\ req'[x].answer = "ok"
                      /\ links'[l].used /\ links'[l].purpose = "verify" =>
                           \A e \in Emails : users'[e] # NULL /\ users'[e].id = links'[l].user =>
                             users'[e].verified \/ SetByAdmin(links[l].user, FALSE)'
    BY DEF SpentLinkTookEffect
  <2>1. /\ links[l] # NULL /\ links'[l].purpose = links[l].purpose
        /\ links'[l].user = links[l].user
        /\ links'[l].used <=> (links[l].used \/ l = q.link)
    BY <1>10, <1>11
  <2>2. links'[l].used <=> \E x \in Requests : req'[x].link = l /\ req'[x].answer = "ok"
    <3>1. links[l].used <=> \E x \in Requests : req[x].link = l /\ req[x].answer = "ok"
      BY <2>1 DEF SpentLinkTookEffect
    <3> QED  BY <1>1, <1>3, <1>4, <1>7, <2>1, <3>1
  <2>3. ASSUME links'[l].used, links'[l].purpose = "verify", NEW e \in Emails,
               users'[e] # NULL, users'[e].id = links'[l].user
        PROVE  users'[e].verified \/ SetByAdmin(links[l].user, FALSE)'
    <3>1. CASE links[l].used
      <4>1. links[l].purpose = "verify" /\ users'[e].id = links[l].user
        BY <2>1, <2>3
      <4> QED  BY <1>15, <2>1, <2>3, <3>1, <4>1, EffectKept DEF SetByAdmin
    <3>2. CASE ~links[l].used
      <4>1. /\ l = q.link /\ q.link # NULL /\ q.op = "verify" /\ links'[l].user = q.row.id
            /\ q.new.verified
        <5>1. l = q.link /\ q.link # NULL
          BY <2>1, <2>3, <3>2, NoRequestAssumption
        <5>2. q.op = "verify" /\ links'[l].user = q.row.id
          BY <1>9, <2>1, <2>3, <5>1
        <5> QED  BY <1>3, <5>1, <5>2 DEF Loaded
      <4>2. users[e] # NULL /\ users[e].id = q.row.id
        BY <1>5, <1>15, <2>3, <4>1 DEF Grows
      <4>3. e = q.email /\ Present(q)
        BY <1>5, <4>2 DEF AccountsCreated, Present
      <4>4. CASE q.row.verified
        <5>1. users[q.email].verified \/ SetByAdmin(q.row.id, FALSE)
          BY <1>3, <4>3, <4>4 DEF Loaded
        <5>2. users'[q.email].verified \/ SetByAdmin(q.row.id, FALSE)'
          BY <1>5, <1>14, <1>15, <4>3, <5>1 DEF Grows
        <5> QED  BY <4>1, <4>3, <5>2 DEF SetByAdmin
      <4>5. CASE ~q.row.verified
        BY <1>14, <4>1, <4>3, <4>5
      <4> QED  BY <4>4, <4>5
    <3> QED  BY <3>1, <3>2
  <2> QED  BY <2>2, <2>3
<1>19. AccountsCreated' /\ LinksCreated'
  <2>1. \A x \in Requests : req[x].pc = "done" => req'[x].pc = "done"
    BY <1>4, <1>7
  <2>2. \A e \in Emails : users'[e] # NULL => users[e] # NULL /\ users[e].id = users'[e].id
    BY <1>8, <1>14, NoRowAssumption
  <2>3. \A l \in Requests : links'[l] # NULL => links[l] # NULL
    BY <1>11
  <2> QED  BY <1>15, <2>1, <2>2, <2>3, OwnersKept
<1> QED  BY <1>12, <1>15, <1>16, <1>17, <1>18, <1>19

\* Every step keeps the inductive invariant, and takes nothing back.
LEMMA NextInvariant == IndInv /\ [Next]_vars => IndInv' /\ Grows
<1> SUFFICES ASSUME IndInv, [Next]_vars PROVE IndInv' /\ Grows
  OBVIOUS
<1>1. ASSUME NEW r \in Requests, Start(r) PROVE IndInv' /\ Grows
  BY <1>1, StartKeeps
<1>2. ASSUME NEW r \in Requests, Continue(r) PROVE IndInv' /\ Grows
  <2>1. CASE Insert(r)
    BY <2>1, InsertKeeps
  <2>2. CASE AddLink(r)
    BY <2>2, AddLinkKeeps
  <2>3. CASE FindAccount(r)
    BY <2>3, FindAccountKeeps
  <2>4. CASE Write(r)
    BY <2>4, WriteKeeps
  <2>5. CASE NoAccount(r) \/ InsertRejected(r) \/ WriteRejected(r)
    BY <2>5, EndKeeps
  <2> QED  BY <1>2, <2>1, <2>2, <2>3, <2>4, <2>5 DEF Continue
<1>3. ASSUME NEW r \in Requests, Lose(r) PROVE IndInv' /\ Grows
  BY <1>3, EndKeeps
<1>4. CASE (\E l \in Requests : Expire(l)) \/ (\E e \in Emails : DeleteUser(e))
  BY <1>4, TableStepKeeps
<1>5. CASE UNCHANGED vars
  <2>1. users' = users /\ links' = links /\ req' = req
    BY <1>5 DEF vars
  <2>2. TypeOK'
    BY <2>1 DEF IndInv, TypeOK
  <2> QED  BY <2>1, <2>2, TablesKeep
<1> QED  BY <1>1, <1>2, <1>3, <1>4, <1>5 DEF Next

\* The locals of every handler agree with the tables, ids are unique, and the
\* properties below hold, in every reachable state.
THEOREM AccountsInductive == Spec => []IndInv
<1>1. Init => IndInv
  BY InitInvariant
<1>2. IndInv /\ [Next]_vars => IndInv'
  BY NextInvariant
<1> QED  BY <1>1, <1>2, PTL DEF Spec

\* register and verify_email: who registered is verified only by a link sent
\* for that account, or by an administrator.
THEOREM VerifiedWithProof == Spec => []VerifiedByProof
<1>1. IndInv => VerifiedByProof
  BY DEF IndInv
<1> QED  BY <1>1, AccountsInductive, PTL

\* verify_email and reset_password: a link is spent in the commit that gives
\* it its effect, and only there.
THEOREM LinksTakeEffect == Spec => []SpentLinkTookEffect
<1>1. IndInv => SpentLinkTookEffect
  BY DEF IndInv
<1> QED  BY <1>1, AccountsInductive, PTL

\* register and create_user: no address changes accounts but by a deletion.
THEOREM AddressesKept == Spec => AddressKept
<1>1. IndInv /\ [Next]_vars =>
        [\A e \in Emails : users[e] # NULL /\ users'[e] # NULL => users'[e].id = users[e].id]_vars
  BY NextInvariant DEF Grows
<1> QED  BY <1>1, AccountsInductive, PTL DEF Spec, AddressKept

\* What a step may do to the flags of an account.
FlagStep ==
  \A e \in Emails : users[e] # NULL /\ users'[e] # NULL =>
    LET u == users[e] v == users'[e] IN
      \/ u.active = v.active /\ (u.verified => v.verified)
      \/ \E r \in Requests :
           /\ req[r].pc = "write" /\ req[r].op = "update" /\ req[r].row.id = u.id
           /\ u.active # v.active => req[r].row.active = u.active
           /\ u.verified # v.verified => req[r].row.verified = u.verified

LEMMA FlagsStep == IndInv /\ [Next]_vars => [FlagStep]_vars
<1> SUFFICES ASSUME IndInv, Next PROVE FlagStep
  OBVIOUS
<1> USE DEF IndInv
<1>1. ASSUME NEW r \in Requests, Insert(r) PROVE FlagStep
  <2>1. \A e \in Emails : users[e] # NULL => users'[e] = users[e]
    BY <1>1 DEF Insert, Free, TypeOK
  <2> QED  BY <2>1 DEF FlagStep
<1>2. ASSUME NEW r \in Requests, Write(r) PROVE FlagStep
  <2>1. PICK q \in Req : q = req[r]
    BY Types
  <2>2. q.pc = "write" /\ Loaded(q)
    BY <1>2, <2>1 DEF Write, LocalsInStep, Fits
  <2>3. q.row \in User /\ q.new \in User
    BY <2>2, Types DEF Loaded
  <2>4. users' = IF Present(q) THEN [users EXCEPT ![q.email] = Flushed(@, q.row, q.new)]
                               ELSE users
    BY <1>2, <2>1 DEF Write
  <2> SUFFICES ASSUME NEW e \in Emails, users[e] # NULL, users'[e] # NULL,
                      users'[e] # users[e]
               PROVE  \/ /\ users[e].active = users'[e].active
                         /\ users[e].verified => users'[e].verified
                      \/ /\ q.op = "update" /\ q.row.id = users[e].id
                         /\ users[e].active # users'[e].active =>
                              q.row.active = users[e].active
                         /\ users[e].verified # users'[e].verified =>
                              q.row.verified = users[e].verified
    BY <2>1, <2>2 DEF FlagStep
  <2>5. PICK u \in User : u = users[e]
    BY Types
  <2>6. u.id = q.row.id /\ users'[e] = Flushed(u, q.row, q.new)
    BY <2>4, <2>5 DEF Present, TypeOK
  <2>7. /\ users'[e].active = IF q.new.active = q.row.active THEN u.active ELSE q.new.active
        /\ users'[e].verified = IF q.new.verified = q.row.verified THEN u.verified
                                                                  ELSE q.new.verified
    BY <2>3, <2>6, FlushedRow
  <2> QED  BY <2>2, <2>3, <2>5, <2>6, <2>7 DEF Loaded, User
<1>3. CASE users' = users
  BY <1>3 DEF FlagStep
<1>4. ASSUME NEW e \in Emails, DeleteUser(e) PROVE FlagStep
  <2>1. \A x \in Emails : users'[x] # NULL => users'[x] = users[x]
    BY <1>4 DEF DeleteUser, TypeOK
  <2> QED  BY <2>1 DEF FlagStep
<1> QED  BY <1>1, <1>2, <1>3, <1>4
         DEF Next, Start, Continue, Create, Ask, ChangePassword, AdminReset, AdminUpdate,
             Follow, InsertRejected, AddLink, FindAccount, NoAccount, WriteRejected, Lose,
             Expire

\* update_user and the others: no stale row brings back a flag that another
\* request has changed.
THEOREM FlagsStay == Spec => FlagsKept
<1>1. IndInv /\ [Next]_vars => [FlagStep]_vars
  BY FlagsStep
<1>2. Spec => [][FlagStep]_vars
  BY <1>1, AccountsInductive, PTL DEF Spec
<1> QED  BY <1>2 DEF FlagsKept, FlagStep
=============================================================================
