------------------------------ MODULE Accounts ------------------------------
(***************************************************************************)
(* The accounts (app/routers/auth.py, app/routers/users.py): the users and *)
(* email_verification_tokens tables, and the endpoints that write them.    *)
(* An endpoint loads the rows it needs, decides, and flushes its changes   *)
(* in one commit; others commit in between, as no read locks a row.        *)
(*                                                                         *)
(* The flush is SQLAlchemy's: it writes the columns whose value differs    *)
(* from the one loaded, and fails if the row it updates is gone.  A row a  *)
(* request creates, and a password it sets, are named by the request.      *)
(***************************************************************************)
EXTENDS FiniteSets

CONSTANTS
  Requests,  \* calls of the endpoints; a refused call changes nothing
  Emails,    \* addresses, the primary admin's apart
  NULL

ASSUME NoRequestAssumption == NULL \notin Requests /\ NULL \notin Emails

VARIABLES
  users,  \* the account of each address
  links,  \* email_verification_tokens
  req     \* the rows an endpoint has loaded, and what it will write

vars == <<users, links, req>>

-----------------------------------------------------------------------------

User == [id : Requests, pw : Requests, active : BOOLEAN, verified : BOOLEAN,
         must : BOOLEAN, self : BOOLEAN]

Link == [user : Requests, purpose : {"verify", "reset"}, used : BOOLEAN, expired : BOOLEAN]

ASSUME NoRowAssumption == NULL \notin User /\ NULL \notin Link

Creating == {"register", "onboard"}
Following == {"verify", "reset"}
Editing == {"change", "admin_reset", "update"}
Asking == {"forgot", "resend"}

InFlight == {"account", "insert", "link", "write"}

Req == [pc : InFlight \cup {"idle", "done", "dead"},
        op : Creating \cup Following \cup Editing \cup Asking \cup {NULL},
        email : Emails \cup {NULL}, row : User \cup {NULL}, new : User \cup {NULL},
        link : Requests \cup {NULL}, answer : {"none", "ok", "refused", "error"}]

IdleReq == [pc |-> "idle", op |-> NULL, email |-> NULL, row |-> NULL, new |-> NULL,
            link |-> NULL, answer |-> "none"]

\* A handler that has decided what to write.
Writing(pc, op, e, row, new, link) ==
  [pc |-> pc, op |-> op, email |-> e, row |-> row, new |-> new, link |-> link,
   answer |-> "none"]

Ended(q, answer) == [q EXCEPT !.pc = "done", !.answer = answer]

Init ==
  /\ users = [e \in Emails |-> NULL]
  /\ links = [r \in Requests |-> NULL]
  /\ req = [r \in Requests |-> IdleReq]

-----------------------------------------------------------------------------
(* New accounts *)

NewUser(r, self) ==
  [id |-> r, pw |-> r, active |-> TRUE, verified |-> ~self, must |-> ~self, self |-> self]

\* register and create_user: the address is free, and not excluded.
Create(r, e, op) ==
  /\ req[r].pc = "idle" /\ op \in Creating
  /\ users[e] = NULL
  /\ req' = [req EXCEPT ![r] =
               Writing("insert", op, e, NULL, NewUser(r, op = "register"), NULL)]
  /\ UNCHANGED <<users, links>>

\* Variant: the address column has no unique index.
Free_NoIndex(e) == TRUE

\* The unique index on users.email.
Free(e) == users[e] = NULL

\* The account is committed; that of a registration before its link.
Insert(r) ==
  LET q == req[r] IN
  /\ q.pc = "insert"
  /\ Free(q.email)
  /\ users' = [users EXCEPT ![q.email] = q.new]
  /\ req' = [req EXCEPT ![r] = IF q.op = "register" THEN [q EXCEPT !.pc = "link"]
                                                   ELSE Ended(q, "ok")]
  /\ UNCHANGED links

InsertRejected(r) ==
  /\ req[r].pc = "insert"
  /\ ~Free(req[r].email)
  /\ req' = [req EXCEPT ![r] = Ended(@, "error")]
  /\ UNCHANGED <<users, links>>

-----------------------------------------------------------------------------
(* Links *)

\* forgot_password for an active account, resend_verification for one that is
\* not verified; the answer is the same for every other address.
Ask(r, e, op) ==
  /\ req[r].pc = "idle" /\ op \in Asking
  /\ users[e] # NULL
  /\ IF op = "forgot" THEN users[e].active ELSE ~users[e].verified
  /\ req' = [req EXCEPT ![r] = Writing("link", op, e, users[e], users[e], NULL)]
  /\ UNCHANGED <<users, links>>

\* The link is committed, whatever has become of the account by now, and mailed
\* (a registration that finds its account gone when it reads it back is lost).
AddLink(r) ==
  LET q == req[r] IN
  /\ q.pc = "link"
  /\ links' = [links EXCEPT ![r] =
                 [user |-> q.new.id, used |-> FALSE, expired |-> FALSE,
                  purpose |-> IF q.op = "forgot" THEN "reset" ELSE "verify"]]
  /\ req' = [req EXCEPT ![r] = Ended(q, "ok")]
  /\ UNCHANGED users

\* Twenty-four hours pass.
Expire(l) ==
  /\ links[l] # NULL /\ ~links[l].expired
  /\ links' = [links EXCEPT ![l].expired = TRUE]
  /\ UNCHANGED <<users, req>>

\* Variant: a link is good for either purpose.
Usable_AnyPurpose(l, purpose) == links[l] # NULL /\ ~links[l].used /\ ~links[l].expired

Usable(l, purpose) ==
  links[l] # NULL /\ links[l].purpose = purpose /\ ~links[l].used /\ ~links[l].expired

\* verify_email and reset_password: the link is looked up,
Follow(r, l, purpose) ==
  /\ req[r].pc = "idle"
  /\ Usable(l, purpose)
  /\ req' = [req EXCEPT ![r] = Writing("account", purpose, NULL, NULL, NULL, l)]
  /\ UNCHANGED <<users, links>>

\* then its account.
FindAccount(r) ==
  LET q == req[r] IN
  /\ q.pc = "account"
  /\ \E e \in Emails :
       /\ users[e] # NULL /\ users[e].id = links[q.link].user
       /\ req' = [req EXCEPT ![r] = Writing("write", q.op, e, users[e],
             IF q.op = "verify" THEN [users[e] EXCEPT !.verified = TRUE]
                                ELSE [users[e] EXCEPT !.pw = r, !.must = FALSE], q.link)]
  /\ UNCHANGED <<users, links>>

NoAccount(r) ==
  LET q == req[r] IN
  /\ q.pc = "account"
  /\ \A e \in Emails : users[e] # NULL => users[e].id # links[q.link].user
  /\ req' = [req EXCEPT ![r] = Ended(q, "refused")]
  /\ UNCHANGED <<users, links>>

-----------------------------------------------------------------------------
(* Changes of an account *)

\* change_password, by who knows the password of an active account.
ChangePassword(r, e) ==
  /\ req[r].pc = "idle"
  /\ users[e] # NULL /\ users[e].active
  /\ req' = [req EXCEPT ![r] = Writing("write", "change", e, users[e],
                                       [users[e] EXCEPT !.pw = r, !.must = FALSE], NULL)]
  /\ UNCHANGED <<users, links>>

\* reset_user_password: an administrator issues a temporary password.
AdminReset(r, e) ==
  /\ req[r].pc = "idle"
  /\ users[e] # NULL
  /\ req' = [req EXCEPT ![r] = Writing("write", "admin_reset", e, users[e],
                                       [users[e] EXCEPT !.pw = r, !.must = TRUE], NULL)]
  /\ UNCHANGED <<users, links>>

\* update_user: an administrator sets any of the fields of UserUpdate.
AdminUpdate(r, e, active, verified) ==
  /\ req[r].pc = "idle"
  /\ users[e] # NULL
  /\ req' = [req EXCEPT ![r] = Writing("write", "update", e, users[e],
                [users[e] EXCEPT !.active = active, !.verified = verified], NULL)]
  /\ UNCHANGED <<users, links>>

\* Variant: the flush writes every column of the row.
Flushed_WholeRow(current, row, new) == new

\* The flush writes the columns that the handler changed.
Flushed(current, row, new) ==
  [current EXCEPT !.pw       = IF new.pw       = row.pw       THEN @ ELSE new.pw,
                  !.active   = IF new.active   = row.active   THEN @ ELSE new.active,
                  !.verified = IF new.verified = row.verified THEN @ ELSE new.verified,
                  !.must     = IF new.must     = row.must     THEN @ ELSE new.must]

\* The row is there, under its id.
Present(q) == users[q.email] # NULL /\ users[q.email].id = q.row.id

\* update_user stamps updated_at, so it always has something to write.
Dirty(q) == q.new # q.row \/ q.op = "update"

\* Variant: the link is marked as used in a commit of its own.
SpentLinks_Later(q) == links

SpentLinks(q) == IF q.link = NULL THEN links ELSE [links EXCEPT ![q.link].used = TRUE]

\* One commit: the account and, of a link that was followed, its used flag.
Write(r) ==
  LET q == req[r] IN
  /\ q.pc = "write"
  /\ Present(q) \/ ~Dirty(q)
  /\ users' = IF Present(q)
              THEN [users EXCEPT ![q.email] = Flushed(@, q.row, q.new)] ELSE users
  /\ links' = SpentLinks(q)
  /\ req' = [req EXCEPT ![r] = Ended(q, "ok")]

\* The update matches no row: nothing is committed.
WriteRejected(r) ==
  LET q == req[r] IN
  /\ q.pc = "write"
  /\ ~Present(q) /\ Dirty(q)
  /\ req' = [req EXCEPT ![r] = Ended(q, "error")]
  /\ UNCHANGED <<users, links>>

\* delete_user, of an account no row refers to; its links stay.
DeleteUser(e) ==
  /\ users[e] # NULL
  /\ users' = [users EXCEPT ![e] = NULL]
  /\ UNCHANGED <<links, req>>

\* A worker dies, or the database fails a statement: an open session is lost.
Lose(r) ==
  /\ req[r].pc \in InFlight
  /\ req' = [req EXCEPT ![r].pc = "dead"]
  /\ UNCHANGED <<users, links>>

-----------------------------------------------------------------------------

Start(r) ==
  \/ \E e \in Emails :
       \/ \E op \in Creating : Create(r, e, op)
       \/ \E op \in Asking : Ask(r, e, op)
       \/ ChangePassword(r, e) \/ AdminReset(r, e)
       \/ \E active, verified \in BOOLEAN : AdminUpdate(r, e, active, verified)
  \/ \E l \in Requests, purpose \in Following : Follow(r, l, purpose)

Continue(r) ==
  \/ Insert(r) \/ InsertRejected(r) \/ AddLink(r) \/ FindAccount(r) \/ NoAccount(r)
  \/ Write(r) \/ WriteRejected(r)

Next ==
  \/ \E r \in Requests : Start(r) \/ Continue(r) \/ Lose(r) \/ Expire(r)
  \/ \E e \in Emails : DeleteUser(e)

Spec == Init /\ [][Next]_vars

-----------------------------------------------------------------------------
(* Properties *)

TypeOK ==
  /\ users \in [Emails -> User \cup {NULL}]
  /\ links \in [Requests -> Link \cup {NULL}]
  /\ req \in [Requests -> Req]

SetByAdmin(id, verified) ==
  \E r \in Requests : /\ req[r].op = "update" /\ req[r].answer = "ok"
                      /\ req[r].new.id = id /\ req[r].new.verified = verified

\* Who registered is verified only by a link sent for this very account, not
\* for an earlier one of the same address, or by an administrator.
VerifiedByProof ==
  \A e \in Emails : users[e] # NULL /\ users[e].self /\ users[e].verified =>
    \/ \E l \in Requests : /\ links[l] # NULL /\ links[l].used
                           /\ links[l].purpose = "verify" /\ links[l].user = users[e].id
    \/ SetByAdmin(users[e].id, TRUE)

\* A link is spent if and only if it did what it was for: some request with it
\* was answered, and the account it verified stays verified until an
\* administrator says otherwise.
SpentLinkTookEffect ==
  \A l \in Requests : links[l] # NULL =>
    /\ links[l].used <=> \E r \in Requests : req[r].link = l /\ req[r].answer = "ok"
    /\ links[l].used /\ links[l].purpose = "verify" =>
         \A e \in Emails : users[e] # NULL /\ users[e].id = links[l].user =>
           users[e].verified \/ SetByAdmin(links[l].user, FALSE)

\* An account loses its verification, or is opened or closed, only by an
\* administrator who had loaded it as it was before: no other request that has
\* a stale row, and no save of other fields, brings an old value back.
FlagsKept ==
  [][\A e \in Emails : users[e] # NULL /\ users'[e] # NULL =>
       LET u == users[e] v == users'[e] IN
         \/ u.active = v.active /\ (u.verified => v.verified)
         \/ \E r \in Requests :
              /\ req[r].pc = "write" /\ req[r].op = "update" /\ req[r].row.id = u.id
              /\ u.active # v.active => req[r].row.active = u.active
              /\ u.verified # v.verified => req[r].row.verified = u.verified]_vars

\* An address never passes from one account to another but by a deletion,
\* however many registrations of it are under way.
AddressKept ==
  [][\A e \in Emails : users[e] # NULL /\ users'[e] # NULL => users'[e].id = users[e].id]_vars

\* auth.py:361 - a password is reset "using a single-use token": no two
\* requests are answered for one link.
SingleUse ==
  \A r, q \in Requests :
    (/\ req[r].op = "reset" /\ req[r].answer = "ok"
     /\ req[q].op = "reset" /\ req[q].answer = "ok"
     /\ req[r].link = req[q].link) => r = q

\* users.py:173 - "user must change on next login", and 91 - "must change
\* password on first login": an account whose password an administrator issued
\* must change it.
TemporaryMustChange ==
  \A e \in Emails : users[e] # NULL /\ req[users[e].pw].op \in {"onboard", "admin_reset"} =>
    users[e].must


-----------------------------------------------------------------------------
(* The inductive invariant *)

\* The request that gives an account its id has got past its insert.
Created(i) == req[i].op \in Creating /\ req[i].pc \notin {"idle", "insert"}

\* What a handler is about to write to the account it has loaded.
Loaded(q) ==
  /\ q.email # NULL /\ q.row # NULL /\ q.new # NULL
  /\ q.new.id = q.row.id /\ Created(q.row.id) /\ req[q.row.id].email = q.email
  /\ q.op # "update" => q.new.active = q.row.active
  /\ q.op \notin {"update", "verify"} => q.new.verified = q.row.verified
  /\ q.op = "verify" => q.new.verified /\ q.link # NULL
  /\ q.link # NULL => links[q.link].user = q.row.id
  /\ q.row.verified /\ Present(q) =>
       users[q.email].verified \/ SetByAdmin(q.row.id, FALSE)

\* The locals q of handler r agree with the step it is at.
Fits(r, q) ==
  /\ q.pc = "idle" => q = IdleReq
  /\ q.answer # "none" => q.pc = "done"
  /\ q.op = "update" /\ q.pc # "idle" => q.new # NULL
  /\ q.link # NULL => links[q.link] # NULL /\ links[q.link].purpose = q.op
  /\ q.pc = "account" => q.link # NULL
  /\ q.pc = "insert" => /\ q.op \in Creating /\ q.email # NULL /\ q.link = NULL
                        /\ q.new = NewUser(r, q.op = "register")
  /\ q.pc = "link" => q.new # NULL /\ q.link = NULL /\ Created(q.new.id)
  /\ q.pc = "write" => Loaded(q)

LocalsInStep == \A r \in Requests : Fits(r, req[r])

\* An account is where the request that created it put it: ids are unique.
AccountsCreated ==
  \A e \in Emails : users[e] # NULL => /\ Created(users[e].id)
                                       /\ req[users[e].id].email = e

\* A link is of an account that was created, by a request that is over.
LinksCreated ==
  \A l \in Requests : links[l] # NULL => req[l].pc = "done" /\ Created(links[l].user)

IndInv ==
  /\ TypeOK /\ LocalsInStep /\ AccountsCreated /\ LinksCreated
  /\ VerifiedByProof /\ SpentLinkTookEffect
=============================================================================
