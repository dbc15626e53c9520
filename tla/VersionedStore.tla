--------------------------- MODULE VersionedStore ---------------------------
(* What the CMS console promises about the site's content, whatever happens *)
(* between the browser, the service and GitHub: a client replaces or        *)
(* removes a file only in a version it has seen or written itself, an       *)
(* upload replaces one only in the version it fetched, and either creates   *)
(* one only where there is none.  Others may commit to the repository at    *)
(* any time.                                                                *)

CONSTANTS Clients,    \* who uses the console
          Uploads,    \* uploads of files, which a client need not have seen
          Keys,       \* the files of the repository
          Editable,   \* the files the console may write
          Values,     \* contents of a file
          Absent      \* there is no such file

VARIABLES store,   \* the content of every file, at the head of the branch
          known,   \* known[c][k]: the contents of k that c has seen or written
          fetched  \* fetched[u]: the files, with their contents, that u fetched

vars == <<store, known, fetched>>

Init == /\ store \in [Keys -> Values \cup {Absent}]
        /\ known = [c \in Clients |-> [k \in Keys |-> {}]]
        /\ fetched = [u \in Uploads |-> {}]

Look(c, K) ==
  /\ known' = [known EXCEPT ![c] =
                 [k \in Keys |-> known[c][k] \cup IF k \in K THEN {store[k]} ELSE {}]]
  /\ UNCHANGED <<store, fetched>>

Fetch(u, k) ==
  /\ fetched' = [fetched EXCEPT ![u] = @ \cup {<<k, store[k]>>}]
  /\ UNCHANGED <<store, known>>

Write(c, k, v) ==
  /\ k \in Editable
  /\ store' = [store EXCEPT ![k] = v]
  /\ known' = [known EXCEPT ![c][k] = @ \cup {v}]
  /\ UNCHANGED fetched

Replace(c, k, v) == store[k] \in known[c][k] \cup {Absent} /\ Write(c, k, v)

Upload(u, c, k, v) ==
  /\ store[k] = Absent \/ <<k, store[k]>> \in fetched[u]
  /\ Write(c, k, v)

Push(k, v) ==
  /\ store' = [store EXCEPT ![k] = v]
  /\ UNCHANGED <<known, fetched>>

Next == \/ \E c \in Clients, K \in SUBSET Keys : Look(c, K)
        \/ \E u \in Uploads, k \in Keys : Fetch(u, k)
        \/ \E c \in Clients, k \in Keys, v \in Values \cup {Absent} : Replace(c, k, v)
        \/ \E u \in Uploads, c \in Clients, k \in Keys, v \in Values : Upload(u, c, k, v)
        \/ \E k \in Keys, v \in Values \cup {Absent} : Push(k, v)

Spec == Init /\ [][Next]_vars
=============================================================================
