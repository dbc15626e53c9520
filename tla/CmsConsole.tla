----------------------------- MODULE CmsConsole -----------------------------
(* The CMS console of app/routers/cms.py: editors read, save, delete and    *)
(* upload files of a site's repository through GitHub's contents API.  The  *)
(* service keeps nothing between two calls: what protects an edit is the    *)
(* blob sha that goes back to GitHub with it.  A blob's sha is a hash of    *)
(* its content, so the content itself stands for it here.                   *)
EXTENDS Naturals

CONSTANTS Editors,       \* browsers signed in to the console
          Paths,         \* files of the repository
          Editable,      \* the files validate_content_path accepts
          Folders,       \* the folders list_folder can show: sets of files
          Filenames,     \* names of image files an editor may upload
          Target,        \* the file each of these names is slugified to
          Contents,      \* contents of a file
          Absent,        \* there is no such file
          NoSha,         \* a write without a version
          MaxWrites,     \* bound: writes started
          MaxPushes      \* bound: commits made outside the console

ASSUME ConsoleAssumption ==
  /\ Editable \subseteq Paths
  /\ Folders \subseteq SUBSET Editable
  /\ Target \in [Filenames -> Editable]
  /\ Absent \notin Contents
  /\ NoSha \notin Contents
  /\ MaxWrites \in Nat /\ MaxPushes \in Nat

VARIABLES site,      \* the content of every file at the head of the branch
          landed,    \* landed[n]: how many commits the n-th write made
          seen,      \* history: contents e was shown, or wrote, per file
          found,     \* history: the file, with its content, the n-th write looked up
          req,       \* the write e's request is at
          sent,      \* number of writes started
          told,      \* told[n]: the answer to the n-th write
          late,      \* writes given up by the service and still on their way
          pushes     \* number of commits from outside

vars == <<site, landed, seen, found, req, sent, told, late, pushes>>

Versions == Contents \cup {Absent}

Write == [by: Editors, n: 1..MaxWrites, op: {"put", "delete", "upload"},
          path: Editable, sha: Contents \cup {NoSha}, to: Versions]

Stages == {"lookup", "sent", "applied", "conflict", "missing", "failed"}

Idle == [stage |-> "idle"]

Answers == {"none", "ok", "conflict", "missing", "failed", "timeout"}

TypeOK ==
  /\ site \in [Paths -> Versions]
  /\ seen \in [Editors -> [Paths -> SUBSET Versions]]
  /\ found \in [1..MaxWrites -> SUBSET (Paths \X Versions)]
  /\ req \in [Editors -> {Idle} \cup [stage: Stages, write: Write]]
  /\ sent \in 0..MaxWrites
  /\ told \in [1..MaxWrites -> Answers]
  /\ late \subseteq Write
  /\ landed \in [1..MaxWrites -> Nat]
  /\ pushes \in 0..MaxPushes

Init ==
  /\ site \in [Paths -> Versions]
  /\ landed = [n \in 1..MaxWrites |-> 0]
  /\ seen = [e \in Editors |-> [p \in Paths |-> {}]]
  /\ found = [n \in 1..MaxWrites |-> {}]
  /\ req = [e \in Editors |-> Idle]
  /\ sent = 0
  /\ told = [n \in 1..MaxWrites |-> "none"]
  /\ late = {}
  /\ pushes = 0

-----------------------------------------------------------------------------
(* Reading: one call to GitHub, whose answer the browser keeps.  A path that *)
(* validate_content_path rejects is answered before GitHub is contacted.    *)

\* Variant: a missing file's sha is sent as null.
Known_Null(p) == site[p]

Known(p) == IF site[p] = Absent THEN NoSha ELSE site[p]

get_file(e, p) ==
  /\ req[e] = Idle
  /\ p \in Editable
  /\ seen' = [seen EXCEPT ![e][p] = @ \cup {site[p]}]
  /\ UNCHANGED <<site, landed, found, req, sent, told, late, pushes>>

list_folder(e, f) ==
  /\ req[e] = Idle
  /\ seen' = [seen EXCEPT ![e] =
                [p \in Paths |-> seen[e][p] \cup IF p \in f THEN {site[p]} ELSE {}]]
  /\ UNCHANGED <<site, landed, found, req, sent, told, late, pushes>>

-----------------------------------------------------------------------------
(* Writing.  The handler builds the write, GitHub decides, and the answer   *)
(* comes back, or does not.                                                 *)

To(e, stage, w) == [req EXCEPT ![e] = [stage |-> stage, write |-> w]]

Start(e, stage, op, p, sha, c) ==
  /\ req[e] = Idle
  /\ p \in Editable
  /\ sent < MaxWrites
  /\ sent' = sent + 1
  /\ req' = To(e, stage,
       [by |-> e, n |-> sent + 1, op |-> op, path |-> p, sha |-> sha, to |-> c])
  /\ UNCHANGED <<site, landed, seen, found, told, late, pushes>>

\* Variant: the service asks GitHub for the version itself.
VersionsToSend_Latest(e, p) == {Known(p)}

\* The console sends a version of one of its tabs; the form of a new file
\* sends none.
VersionsToSend(e, p) == (seen[e][p] \ {Absent}) \cup {NoSha}

put_file(e, p, sha, c) ==
  /\ sha \in VersionsToSend(e, p)
  /\ Start(e, "sent", "put", p, sha, c)

\* A file is deleted only with its sha.
delete_file(e, p, sha) ==
  /\ sha \in VersionsToSend(e, p) \ {NoSha}
  /\ Start(e, "sent", "delete", p, sha, Absent)

\* An upload looks the sha of its target up before it writes; the editor is
\* not shown what is there.
upload_media(e, f, c) == Start(e, "lookup", "upload", Target[f], NoSha, c)

\* Any answer but 200 leaves the write without a sha.
Lookup(e, answered) ==
  LET p == req[e].write.path
      sha == IF answered THEN Known(p) ELSE NoSha IN
  /\ req[e].stage = "lookup"
  /\ req' = To(e, "sent", [req[e].write EXCEPT !.sha = sha])
  /\ found' = [found EXCEPT ![req[e].write.n] = @ \cup IF answered THEN {<<p, site[p]>>} ELSE {}]
  /\ UNCHANGED <<site, landed, seen, sent, told, late, pushes>>

\* GitHub's contents API: a write is made only over the version it names.
Current(w) == IF w.sha = NoSha THEN site[w.path] = Absent ELSE site[w.path] = w.sha

Commit(w) ==
  /\ site' = [site EXCEPT ![w.path] = w.to]
  /\ landed' = [landed EXCEPT ![w.n] = @ + 1]
  /\ seen' = [seen EXCEPT ![w.by][w.path] = @ \cup {w.to}]

Apply(e) ==
  /\ req[e].stage = "sent"
  /\ Current(req[e].write)
  /\ Commit(req[e].write)
  /\ req' = To(e, "applied", req[e].write)
  /\ UNCHANGED <<found, sent, told, late, pushes>>

\* 409 or 422 for another version, 404 for no file, anything for a credential
\* or a fault of GitHub's own.
Reject(e) ==
  /\ req[e].stage = "sent"
  /\ \/ /\ ~Current(req[e].write)
        /\ req' = To(e, IF site[req[e].write.path] = Absent THEN "missing" ELSE "conflict",
                     req[e].write)
     \/ req' = To(e, "failed", req[e].write)
  /\ UNCHANGED <<site, landed, seen, found, sent, told, late, pushes>>

\* Variant: the status of the answer is not looked at.
Outcome_Unchecked(e) == "ok"

Outcome(e) == IF req[e].stage = "applied" THEN "ok" ELSE req[e].stage

Answer(e) ==
  /\ req[e].stage \in {"applied", "conflict", "missing", "failed"}
  /\ told' = [told EXCEPT ![req[e].write.n] = Outcome(e)]
  /\ req' = [req EXCEPT ![e] = Idle]
  /\ UNCHANGED <<site, landed, seen, found, sent, late, pushes>>

\* Variant: the lookup of an upload has no timeout.
CanTimeOut_Writes(e) == req[e] # Idle /\ req[e].stage # "lookup"

CanTimeOut(e) == req[e] # Idle

\* Variant: a write without an answer is sent again.
AfterTimeout_Retry(e) == IF req[e].stage = "applied" THEN [req[e] EXCEPT !.stage = "sent"]
                                                   ELSE Idle

AfterTimeout(e) == Idle

\* _gh_request gives up after GITHUB_TIMEOUT, or the connection breaks: the
\* write may never have left, be done already, or still be on its way.
GiveUp(e) ==
  /\ CanTimeOut(e)
  /\ told' = [told EXCEPT ![req[e].write.n] = "timeout"]
  /\ req' = [req EXCEPT ![e] = AfterTimeout(e)]
  /\ late' \in {late} \cup IF req[e].stage = "sent" THEN {late \cup {req[e].write}} ELSE {}
  /\ UNCHANGED <<site, landed, seen, found, sent, pushes>>

Late(w) ==
  /\ late' = late \ {w}
  /\ IF Current(w) THEN Commit(w) ELSE UNCHANGED <<site, landed, seen>>
  /\ UNCHANGED <<found, req, sent, told, pushes>>

\* A developer commits to the repository.
Push(p, c) ==
  /\ pushes < MaxPushes
  /\ pushes' = pushes + 1
  /\ site' = [site EXCEPT ![p] = c]
  /\ UNCHANGED <<landed, seen, found, req, sent, told, late>>

-----------------------------------------------------------------------------
Browse(e) ==
  \/ \E p \in Paths : get_file(e, p)
  \/ \E f \in Folders : list_folder(e, f)
  \/ \E p \in Paths, sha \in Contents \cup {NoSha}, c \in Contents : put_file(e, p, sha, c)
  \/ \E p \in Paths, sha \in Contents : delete_file(e, p, sha)
  \/ \E f \in Filenames, c \in Contents : upload_media(e, f, c)

Next ==
  \/ \E e \in Editors : Browse(e)
  \/ \E e \in Editors, answered \in BOOLEAN : Lookup(e, answered)
  \/ \E e \in Editors : Apply(e)
  \/ \E e \in Editors : Reject(e)
  \/ \E e \in Editors : Answer(e)
  \/ \E e \in Editors : GiveUp(e)
  \/ \E w \in late : Late(w)
  \/ \E p \in Paths, c \in Versions : Push(p, c)

Spec == Init /\ [][Next]_vars

\* GITHUB_TIMEOUT ends every call that is not answered.
FairSpec == Spec /\ \A e \in Editors : WF_vars(GiveUp(e))

-----------------------------------------------------------------------------
(* The inductive invariant *)

\* The version a write names is one its editor has seen, or, for an upload, the
\* one the upload looked up; an upload has a content.
Named(w) ==
  /\ w.op = "upload" => w.to \in Contents
  /\ \/ w.sha = NoSha
     \/ w.op = "upload" /\ <<w.path, w.sha>> \in found[w.n]
     \/ w.op # "upload" /\ w.sha \in seen[w.by][w.path]

\* A write in hand is its editor's, of its own number, and counts no commit
\* before GitHub applied it.
WritesInHand ==
  \A e \in Editors : req[e] # Idle =>
    LET w == req[e].write IN
    /\ w.by = e
    /\ w.n \in 1..sent
    /\ told[w.n] = "none"
    /\ landed[w.n] = IF req[e].stage = "applied" THEN 1 ELSE 0
    /\ req[e].stage = "lookup" => w.op = "upload" /\ w.sha = NoSha
    /\ Named(w)
    /\ \A f \in Editors \ {e} : req[f] # Idle => req[f].write.n # w.n

LateWrites ==
  \A w \in late :
    /\ w.n \in 1..sent
    /\ told[w.n] = "timeout"
    /\ landed[w.n] = 0
    /\ Named(w)
    /\ \A v \in late : v.n = w.n => v = w

Numbered == \A n \in 1..MaxWrites : n > sent => told[n] = "none" /\ landed[n] = 0

Settled ==
  \A n \in 1..MaxWrites :
    /\ landed[n] \in {0, 1}
    /\ told[n] = "ok" => landed[n] = 1
    /\ told[n] \in {"conflict", "missing"} => landed[n] = 0

IndInv == TypeOK /\ WritesInHand /\ LateWrites /\ Numbered /\ Settled

-----------------------------------------------------------------------------
\* What an editor is told of a write is what happened to it: after an ok it is
\* in the repository, after a conflict or a missing file it is not and never
\* comes.  (The status checks of put_file, delete_file and upload_media, and
\* _gh_error.)
AnswersTrue ==
  \A n \in 1..MaxWrites :
    /\ told[n] = "ok" => landed[n] > 0
    /\ told[n] \in {"conflict", "missing"} =>
         landed[n] = 0 /\ \A w \in late : w.n # n

\* However late it lands and whatever the editor was told, a write makes one
\* commit at most: _gh_request never sends it again.
OneCommitPerWrite == \A n \in 1..MaxWrites : landed[n] <= 1

VS == INSTANCE VersionedStore WITH
        Clients <- Editors, Uploads <- 1..MaxWrites, Keys <- Paths, Values <- Contents,
        store <- site, known <- seen, fetched <- found

\* An edit or a deletion falls only on a version that its author saw or wrote,
\* an upload only on the version its own lookup fetched, which its author need
\* not have seen; none creates a file over another, and none touches a file
\* outside the editable folders, with two editors, late writes and commits from
\* outside: the console implements the versioned store.
ImplementsVersionedStore == VS!Spec

\* Every write is answered, by GitHub or by the timeout of _gh_request.
RequestsEnd == \A e \in Editors : req[e] # Idle ~> req[e] = Idle
=============================================================================
