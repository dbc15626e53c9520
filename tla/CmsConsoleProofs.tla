-------------------------- MODULE CmsConsoleProofs --------------------------
(***************************************************************************)
(* Proofs about CmsConsole for every set of editors, files and contents.   *)
(***************************************************************************)
EXTENDS CmsConsole, TLAPS

\* A write in hand is well formed and at one of the stages.
LEMMA InHand ==
  ASSUME TypeOK, NEW e \in Editors, req[e] # Idle
  PROVE  req[e] \in [stage: Stages, write: Write]
  BY DEF TypeOK

\* Where a request stands decides whether the editor is waiting.
LEMMA Waiting ==
  ASSUME NEW s \in Stages, NEW w
  PROVE  [stage |-> s, write |-> w] # Idle
  BY DEF Stages, Idle

\* The console starts with nothing in hand.
LEMMA InitInvariant == Init => IndInv
<1> SUFFICES ASSUME Init PROVE IndInv
  OBVIOUS
<1>1. TypeOK
  BY ConsoleAssumption DEF Init, TypeOK, Versions, Answers, Idle
<1>2. WritesInHand
  BY DEF Init, WritesInHand
<1>3. LateWrites
  BY DEF Init, LateWrites
<1>4. Numbered
  BY DEF Init, Numbered
<1>5. Settled
  BY DEF Init, Settled
<1> QED  BY <1>1, <1>2, <1>3, <1>4, <1>5 DEF IndInv

\* What an editor has seen of a file only grows.
LEMMA SeenGrows ==
  ASSUME TypeOK, NEW e \in Editors, NEW p \in Paths, NEW S \in SUBSET Versions,
         seen' = [seen EXCEPT ![e][p] = @ \cup S]
  PROVE  /\ seen' \in [Editors -> [Paths -> SUBSET Versions]]
         /\ \A f \in Editors : \A q \in Paths : seen[f][q] \subseteq seen'[f][q]
         /\ S \subseteq seen'[e][p]
<1> DEFINE s == [seen[e] EXCEPT ![p] = @ \cup S]
<1>1. seen' = [seen EXCEPT ![e] = s]
  OBVIOUS
<1>2. /\ s \in [Paths -> SUBSET Versions] /\ S \subseteq s[p]
      /\ \A q \in Paths : seen[e][q] \subseteq s[q]
  BY DEF TypeOK
<1> HIDE DEF s
<1> QED  BY <1>1, <1>2 DEF TypeOK

\* What was seen and looked up is never forgotten.
Grown ==
  /\ seen' \in [Editors -> [Paths -> SUBSET Versions]]
  /\ \A e \in Editors : \A p \in Paths : seen[e][p] \subseteq seen'[e][p]
  /\ found' \in [1..MaxWrites -> SUBSET (Paths \X Versions)]
  /\ \A n \in 1..MaxWrites : found[n] \subseteq found'[n]

\* So a version that a write may name stays one.
LEMMA NamedStays ==
  ASSUME Grown, NEW w \in Write, Named(w)
  PROVE  Named(w)'
<1>1. w.by \in Editors /\ w.path \in Paths /\ w.n \in 1..MaxWrites
  BY ConsoleAssumption DEF Write
<1> QED  BY <1>1 DEF Named, Grown

\* Reading adds to what one editor has seen and touches nothing else.
LEMMA ReadStep ==
  ASSUME IndInv, Grown,
         site' \in [Paths -> Versions], pushes' \in 0..MaxPushes,
         UNCHANGED <<landed, req, sent, told, late>>
  PROVE  IndInv'
<1> USE DEF IndInv
<1>1. TypeOK'
  BY DEF TypeOK, Grown
<1>2. WritesInHand'
  <2> SUFFICES ASSUME NEW e \in Editors, req[e] # Idle
               PROVE  Named(req[e].write)'
    BY DEF WritesInHand
  <2>1. PICK w \in Write : w = req[e].write
    BY InHand
  <2>2. Named(w)' /\ w = req'[e].write
    BY <2>1, NamedStays DEF WritesInHand
  <2> QED  BY <2>2
<1>3. LateWrites'
  <2> SUFFICES ASSUME NEW w \in late PROVE Named(w)'
    BY DEF LateWrites
  <2>1. w \in Write
    BY DEF TypeOK
  <2> QED  BY <2>1, NamedStays DEF LateWrites
<1>4. Numbered'
  BY DEF Numbered
<1>5. Settled'
  BY DEF Settled
<1> QED  BY <1>1, <1>2, <1>3, <1>4, <1>5

\* A new write takes the next number.
LEMMA StartStep ==
  ASSUME IndInv, NEW e \in Editors, NEW stage \in {"lookup", "sent"},
         NEW op \in {"put", "delete", "upload"}, NEW p \in Paths,
         NEW sha \in seen[e][p] \cup {NoSha}, sha # Absent \/ sha = NoSha, NEW c \in Versions,
         stage = "lookup" => op = "upload",
         op = "upload" => sha = NoSha /\ c \in Contents,
         Start(e, stage, op, p, sha, c)
  PROVE  IndInv'
<1> USE DEF IndInv
<1>w. PICK w : w = [by |-> e, n |-> sent + 1, op |-> op, path |-> p, sha |-> sha, to |-> c]
  OBVIOUS
<1>0. /\ sent' = sent + 1 /\ sent < MaxWrites /\ p \in Editable /\ req[e] = Idle
      /\ req' = [req EXCEPT ![e] = [stage |-> stage, write |-> w]]
      /\ UNCHANGED <<site, landed, seen, found, told, late, pushes>>
  BY <1>w DEF Start, To
<1>1. sent \in Nat /\ sent + 1 \in 1..MaxWrites
  BY <1>0, ConsoleAssumption DEF TypeOK
<1>2. w \in Write
  <2>1. sha \in Contents \cup {NoSha}
    BY DEF TypeOK, Versions
  <2> QED  BY <1>w, <1>0, <1>1, <2>1 DEF Write
<1>3. TypeOK'
  <2>1. [stage |-> stage, write |-> w] \in [stage: Stages, write: Write]
    BY <1>2 DEF Stages
  <2>2. req' \in [Editors -> {Idle} \cup [stage: Stages, write: Write]]
    BY <1>0, <2>1 DEF TypeOK
  <2>3. sent' \in 0..MaxWrites
    BY <1>0, <1>1
  <2> QED  BY <1>0, <2>2, <2>3 DEF TypeOK
<1>4. told[sent + 1] = "none" /\ landed[sent + 1] = 0
  BY <1>1 DEF Numbered
<1>5. WritesInHand'
  <2> SUFFICES ASSUME NEW f \in Editors, req'[f] # Idle
               PROVE  LET v == req'[f].write IN
                      /\ v.by = f
                      /\ v.n \in 1..sent'
                      /\ told'[v.n] = "none"
                      /\ landed'[v.n] = IF req'[f].stage = "applied" THEN 1 ELSE 0
                      /\ req'[f].stage = "lookup" => v.op = "upload" /\ v.sha = NoSha
                      /\ Named(req[f].write)'
                      /\ \A g \in Editors \ {f} : req'[g] # Idle => req'[g].write.n # v.n
    BY DEF WritesInHand
  <2>1. req'[e] = [stage |-> stage, write |-> w]
    BY <1>0 DEF TypeOK
  <2>2. \A g \in Editors \ {e} : req'[g] = req[g]
    BY <1>0 DEF TypeOK
  <2>3. \A g \in Editors \ {e} : req[g] # Idle => req[g].write.n \in 1..sent
    BY DEF WritesInHand
  <2>4. CASE f = e
    <3>1. req'[f].write.n = sent + 1 /\ req'[f].stage = stage
      BY <1>w, <2>1, <2>4
    <3>2. \A g \in Editors \ {f} : req'[g] # Idle => req'[g].write.n # sent + 1
      BY <2>2, <2>3, <2>4, <1>1
    <3>3. Named(req[f].write)'
      BY <1>w, <1>0, <2>1, <2>4 DEF Named
    <3> QED  BY <1>w, <1>0, <1>1, <1>4, <2>1, <2>4, <3>1, <3>2, <3>3
  <2>5. CASE f # e
    <3>1. req'[f] = req[f] /\ req[f].write.n \in 1..sent
      BY <2>2, <2>3, <2>5
    <3>2. \A g \in Editors \ {f} : req'[g] # Idle => req'[g].write.n # req[f].write.n
      BY <1>w, <2>1, <2>2, <3>1, <1>1 DEF WritesInHand
    <3>3. req[f].write.n \in 1..sent'
      BY <3>1, <1>0, <1>1
    <3>4. Named(req[f].write)'
      BY <1>0, <3>1 DEF WritesInHand, Named
    <3> QED  BY <1>0, <3>1, <3>2, <3>3, <3>4 DEF WritesInHand
  <2> QED  BY <2>4, <2>5
<1>6. LateWrites'
  <2>1. ASSUME NEW v \in late PROVE Named(v)'
    BY <1>0, <2>1 DEF LateWrites, Named
  <2>2. \A v \in late : v.n \in 1..sent'
    BY <1>0, <1>1 DEF LateWrites
  <2> QED  BY <1>0, <2>1, <2>2 DEF LateWrites
<1>7. Numbered'
  BY <1>0, <1>1 DEF Numbered
<1>8. Settled'
  BY <1>0 DEF Settled
<1> QED  BY <1>3, <1>5, <1>6, <1>7, <1>8

\* A write that moves on keeps its number; it counts a commit once applied.
LEMMA MoveStep ==
  ASSUME IndInv, NEW e \in Editors, req[e] # Idle,
         NEW stage \in Stages \ {"lookup"}, NEW sha \in Contents \cup {NoSha},
         NEW w, w = [req[e].write EXCEPT !.sha = sha], req' = To(e, stage, w),
         Grown, Named(w)',
         site' \in [Paths -> Versions],
         landed' = [landed EXCEPT ![req[e].write.n] = IF stage = "applied" THEN 1 ELSE 0],
         UNCHANGED <<sent, told, late, pushes>>
  PROVE  IndInv'
<1> USE DEF IndInv
<1>1. /\ req[e].write \in Write
      /\ w \in Write /\ w.by = e /\ w.n = req[e].write.n /\ w.path = req[e].write.path
      /\ w.sha = sha
  <2> DEFINE old == req[e].write
  <2>1. old \in Write /\ old.by = e
    BY InHand DEF WritesInHand
  <2> HIDE DEF old
  <2>2. w = [old EXCEPT !.sha = sha]
    BY DEF old
  <2>3. w \in Write /\ w.by = e /\ w.n = old.n /\ w.path = old.path /\ w.sha = sha
    BY <2>1, <2>2 DEF Write
  <2> QED  BY <2>1, <2>3 DEF old
<1>2. req' = [req EXCEPT ![e] = [stage |-> stage, write |-> w]]
  BY DEF To
<1>3. w.n \in 1..sent /\ w.n \in 1..MaxWrites /\ told[w.n] = "none"
  BY <1>1 DEF WritesInHand, Write
<1>4. TypeOK'
  <2>0. [stage |-> stage, write |-> w] \in [stage: Stages, write: Write]
    BY <1>1
  <2>1. req' \in [Editors -> {Idle} \cup [stage: Stages, write: Write]]
    BY <1>2, <2>0 DEF TypeOK
  <2>2. landed' \in [1..MaxWrites -> Nat]
    BY DEF TypeOK
  <2> QED  BY <2>1, <2>2 DEF TypeOK, Grown
<1>5. /\ landed'[w.n] = IF stage = "applied" THEN 1 ELSE 0
      /\ \A n \in 1..MaxWrites : n # w.n => landed'[n] = landed[n]
  BY <1>1, <1>3 DEF TypeOK
<1>6. WritesInHand'
  <2> SUFFICES ASSUME NEW f \in Editors, req'[f] # Idle
               PROVE  LET v == req'[f].write IN
                      /\ v.by = f
                      /\ v.n \in 1..sent'
                      /\ told'[v.n] = "none"
                      /\ landed'[v.n] = IF req'[f].stage = "applied" THEN 1 ELSE 0
                      /\ req'[f].stage = "lookup" => v.op = "upload" /\ v.sha = NoSha
                      /\ Named(req[f].write)'
                      /\ \A g \in Editors \ {f} : req'[g] # Idle => req'[g].write.n # v.n
    BY DEF WritesInHand
  <2>1. req'[e] = [stage |-> stage, write |-> w]
    BY <1>2 DEF TypeOK
  <2>a. req'[e].write = w /\ req'[e].stage = stage
    BY <2>1
  <2>2. \A g \in Editors \ {e} : req'[g] = req[g]
    BY <1>2 DEF TypeOK
  <2>3. \A g, h \in Editors : req'[g] # Idle /\ req'[h] # Idle /\ g # h =>
          req'[g].write.n # req'[h].write.n
    <3>1. \A g, h \in Editors : req[g] # Idle /\ req[h] # Idle /\ g # h =>
            req[g].write.n # req[h].write.n
      BY DEF WritesInHand
    <3>2. req'[e].write.n = req[e].write.n
      BY <1>1, <2>a
    <3>3. \A g \in Editors : req'[g] # Idle => req[g] # Idle /\ req'[g].write.n = req[g].write.n
      BY <2>2, <3>2
    <3> QED  BY <3>1, <3>3
  <2>4. CASE f = e
    <3>1. Named(req[f].write)'
      BY <2>a, <2>4
    <3>2. stage # "lookup" /\ sent' = sent /\ told' = told /\ w.by = e
      BY <1>1
    <3> QED  BY <1>3, <1>5, <2>a, <2>3, <2>4, <3>1, <3>2
  <2>5. CASE f # e
    <3>1. req'[f] = req[f] /\ req[f] # Idle /\ req[f].write.n # w.n
      BY <1>1, <2>1, <2>2, <2>3, <2>5 DEF WritesInHand
    <3>2. req[f].write.n \in 1..MaxWrites /\ req[f].write.path \in Paths
      BY <3>1, InHand, ConsoleAssumption DEF Write
    <3>3. landed'[req[f].write.n] = landed[req[f].write.n]
      BY <1>5, <3>1, <3>2
    <3>4. Named(req[f].write)'
      <4>1. PICK v \in Write : v = req[f].write
        BY <3>1, InHand
      <4>2. Named(v)'
        BY <3>1, <4>1, NamedStays DEF WritesInHand
      <4> QED  BY <3>1, <4>1, <4>2
    <3> QED  BY <2>3, <3>1, <3>3, <3>4 DEF WritesInHand
  <2> QED  BY <2>4, <2>5
<1>7. LateWrites'
  <2> SUFFICES ASSUME NEW v \in late
               PROVE  landed'[v.n] = 0 /\ Named(v)'
    BY DEF LateWrites
  <2>1. v \in Write
    BY DEF TypeOK
  <2>2. v.n # w.n /\ v.n \in 1..MaxWrites
    BY <1>3, <2>1 DEF LateWrites, Write
  <2> QED  BY <1>5, <2>1, <2>2, NamedStays DEF LateWrites
<1>8. Numbered'
  BY <1>3, <1>5 DEF Numbered, TypeOK
<1>9. Settled'
  BY <1>3, <1>5 DEF Settled
<1> QED  BY <1>4, <1>6, <1>7, <1>8, <1>9

\* A write that is answered is told what became of it; one that is given up
\* may stay on its way, not yet committed.
LEMMA EndStep ==
  ASSUME IndInv, NEW e \in Editors, req[e] # Idle,
         NEW o \in Answers \ {"none"},
         o = "ok" => req[e].stage = "applied",
         o \in {"conflict", "missing"} => req[e].stage # "applied",
         req' = [req EXCEPT ![e] = Idle],
         told' = [told EXCEPT ![req[e].write.n] = o],
         \/ late' = late
         \/ o = "timeout" /\ req[e].stage = "sent" /\ late' = late \cup {req[e].write},
         UNCHANGED <<site, landed, seen, found, sent, pushes>>
  PROVE  IndInv'
<1> USE DEF IndInv
<1> DEFINE w == req[e].write
<1>1. w \in Write /\ w.by = e /\ w.n \in 1..sent /\ w.n \in 1..MaxWrites /\ told[w.n] = "none"
  BY InHand DEF Write, WritesInHand
<1>2. /\ landed[w.n] = IF req[e].stage = "applied" THEN 1 ELSE 0
      /\ Named(w)
  BY DEF WritesInHand
<1>3. told'[w.n] = o /\ \A n \in 1..MaxWrites : n # w.n => told'[n] = told[n]
  BY <1>1 DEF TypeOK
<1>4. req'[e] = Idle /\ \A g \in Editors \ {e} : req'[g] = req[g]
  BY DEF TypeOK
<1>5. TypeOK'
  <2>1. told' \in [1..MaxWrites -> Answers]
    BY DEF TypeOK
  <2>2. late' \subseteq Write
    BY <1>1 DEF TypeOK
  <2>3. req' \in [Editors -> {Idle} \cup [stage: Stages, write: Write]]
    BY DEF TypeOK
  <2> QED  BY <2>1, <2>2, <2>3 DEF TypeOK
<1>6. WritesInHand'
  <2> SUFFICES ASSUME NEW f \in Editors, req'[f] # Idle
               PROVE  /\ f # e /\ req'[f] = req[f] /\ told'[req[f].write.n] = told[req[f].write.n]
    BY <1>4 DEF WritesInHand, Named
  <2>1. f # e /\ req'[f] = req[f] /\ req[f] # Idle
    BY <1>4
  <2>2. req[f].write.n # w.n /\ req[f].write.n \in 1..MaxWrites
    BY <2>1, InHand DEF WritesInHand, Write
  <2> QED  BY <1>3, <2>1, <2>2
<1>7. LateWrites'
  <2>1. \A v \in late : v.n # w.n /\ v.n \in 1..MaxWrites
    BY <1>1 DEF LateWrites, TypeOK, Write
  <2>2. CASE late' = late
    BY <1>3, <2>1, <2>2 DEF LateWrites, Named
  <2>3. CASE o = "timeout" /\ req[e].stage = "sent" /\ late' = late \cup {w}
    BY <1>1, <1>2, <1>3, <2>1, <2>3 DEF LateWrites, Named
  <2> QED  BY <2>2, <2>3
<1>8. Numbered'
  BY <1>1, <1>3 DEF Numbered, TypeOK
<1>9. Settled'
  BY <1>1, <1>2, <1>3 DEF Settled
<1> QED  BY <1>5, <1>6, <1>7, <1>8, <1>9

\* A late write lands once or never.
LEMMA LateStep ==
  ASSUME IndInv, NEW w \in late, Late(w)
  PROVE  IndInv'
<1> USE DEF IndInv
<1>1. w \in Write /\ w.n \in 1..MaxWrites /\ w.path \in Paths /\ w.by \in Editors /\ w.to \in Versions
  BY ConsoleAssumption DEF TypeOK, Write
<1>2. /\ late' = late \ {w}
      /\ UNCHANGED <<found, req, sent, told, pushes>>
      /\ w.n \in 1..sent /\ told[w.n] = "timeout" /\ landed[w.n] = 0
  BY DEF Late, LateWrites
<1>3. /\ site' \in [Paths -> Versions]
      /\ Grown
  <2> SUFFICES /\ site' \in [Paths -> Versions]
               /\ seen' \in [Editors -> [Paths -> SUBSET Versions]]
               /\ \A f \in Editors : \A p \in Paths : seen[f][p] \subseteq seen'[f][p]
    BY <1>2 DEF TypeOK, Grown
  <2>1. CASE Current(w)
    <3>1. /\ site' = [site EXCEPT ![w.path] = w.to]
          /\ seen' = [seen EXCEPT ![w.by][w.path] = @ \cup {w.to}]
      BY <2>1 DEF Late, Commit
    <3>2. site' \in [Paths -> Versions]
      BY <1>1, <3>1 DEF TypeOK
    <3>3. {w.to} \in SUBSET Versions
      BY <1>1
    <3> QED  BY <1>1, <3>1, <3>2, <3>3, SeenGrows
  <2>2. CASE ~Current(w)
    BY <2>2 DEF Late, TypeOK
  <2> QED  BY <2>1, <2>2
<1>4. /\ landed' \in [1..MaxWrites -> Nat]
      /\ landed'[w.n] \in {0, 1}
      /\ \A n \in 1..MaxWrites : n # w.n => landed'[n] = landed[n]
  <2>1. landed \in [1..MaxWrites -> Nat]
    BY DEF TypeOK
  <2>2. CASE landed' = landed
    BY <1>1, <1>2, <2>1, <2>2
  <2>3. CASE landed' = [landed EXCEPT ![w.n] = @ + 1]
    BY <1>1, <1>2, <2>1, <2>3
  <2> QED  BY <2>2, <2>3 DEF Late, Commit
<1>5. TypeOK'
  BY <1>2, <1>3, <1>4 DEF TypeOK, Grown
<1>6. WritesInHand'
  <2> SUFFICES ASSUME NEW f \in Editors, req[f] # Idle
               PROVE  /\ landed'[req[f].write.n] = landed[req[f].write.n]
                      /\ Named(req[f].write)'
    BY <1>2 DEF WritesInHand
  <2>1. req[f].write.n # w.n /\ req[f].write.n \in 1..MaxWrites
    BY <1>2, InHand DEF WritesInHand, Write
  <2>2. PICK v \in Write : v = req[f].write
    BY InHand
  <2>3. Named(v)' /\ v = req'[f].write
    BY <1>2, <1>3, <2>2, NamedStays DEF WritesInHand
  <2> QED  BY <1>4, <2>1, <2>3
<1>7. LateWrites'
  <2> SUFFICES ASSUME NEW v \in late \ {w}
               PROVE  landed'[v.n] = 0 /\ Named(v)'
    BY <1>2 DEF LateWrites
  <2>1. v \in Write /\ v.n # w.n /\ v.n \in 1..MaxWrites
    BY <1>2 DEF LateWrites, TypeOK, Write
  <2> QED  BY <1>3, <1>4, <2>1, NamedStays DEF LateWrites
<1>8. Numbered'
  BY <1>2, <1>4 DEF Numbered, TypeOK
<1>9. Settled'
  BY <1>2, <1>4 DEF Settled
<1> QED  BY <1>5, <1>6, <1>7, <1>8, <1>9


\* Every step keeps the inductive invariant.
LEMMA NextInvariant == IndInv /\ [Next]_vars => IndInv'
<1> SUFFICES ASSUME IndInv, [Next]_vars PROVE IndInv'
  OBVIOUS
<1> USE DEF IndInv
<1>1. ASSUME NEW e \in Editors, NEW p \in Paths, get_file(e, p) PROVE IndInv'
  <2>1. {site[p]} \in SUBSET Versions
    BY DEF TypeOK
  <2>2. seen' = [seen EXCEPT ![e][p] = @ \cup {site[p]}]
    BY <1>1 DEF get_file
  <2> QED  BY <1>1, <2>1, <2>2, SeenGrows, ReadStep DEF get_file, TypeOK, Grown
<1>2. ASSUME NEW e \in Editors, NEW f \in Folders, list_folder(e, f) PROVE IndInv'
  <2> DEFINE s == [p \in Paths |-> seen[e][p] \cup IF p \in f THEN {site[p]} ELSE {}]
  <2>1. seen' = [seen EXCEPT ![e] = s]
    BY <1>2 DEF list_folder
  <2>2. s \in [Paths -> SUBSET Versions] /\ \A p \in Paths : seen[e][p] \subseteq s[p]
    BY DEF TypeOK
  <2> HIDE DEF s
  <2>3. /\ seen' \in [Editors -> [Paths -> SUBSET Versions]]
        /\ \A g \in Editors : \A p \in Paths : seen[g][p] \subseteq seen'[g][p]
    BY <2>1, <2>2 DEF TypeOK
  <2> QED  BY <1>2, <2>3, ReadStep DEF list_folder, TypeOK, Grown
<1>3. ASSUME NEW e \in Editors, NEW p \in Paths, NEW sha \in Contents \cup {NoSha},
             NEW c \in Contents, put_file(e, p, sha, c)
      PROVE  IndInv'
  BY <1>3, StartStep DEF put_file, VersionsToSend, Versions
<1>4. ASSUME NEW e \in Editors, NEW p \in Paths, NEW sha \in Contents, delete_file(e, p, sha)
      PROVE  IndInv'
  BY <1>4, StartStep DEF delete_file, VersionsToSend, Versions
<1>5. ASSUME NEW e \in Editors, NEW f \in Filenames, NEW c \in Contents, upload_media(e, f, c)
      PROVE  IndInv'
  BY <1>5, StartStep, ConsoleAssumption DEF upload_media, Versions
<1>6. ASSUME NEW e \in Editors, NEW answered \in BOOLEAN, Lookup(e, answered) PROVE IndInv'
  <2> DEFINE w == req[e].write
             sha == IF answered THEN Known(w.path) ELSE NoSha
             S == IF answered THEN {<<w.path, site[w.path]>>} ELSE {}
  <2>1. /\ req[e].stage = "lookup" /\ req' = To(e, "sent", [w EXCEPT !.sha = sha])
        /\ found' = [found EXCEPT ![w.n] = @ \cup S]
        /\ UNCHANGED <<site, landed, seen, sent, told, late, pushes>>
    BY <1>6 DEF Lookup
  <2>2. req[e] # Idle /\ w \in Write /\ w.path \in Paths /\ w.n \in 1..MaxWrites /\ Named(w)
    BY <2>1, InHand, ConsoleAssumption DEF Idle, Write, WritesInHand
  <2>3. S \in SUBSET (Paths \X Versions)
    BY <2>2 DEF TypeOK
  <2>4. sha \in Contents \cup {NoSha} /\ (sha # NoSha => <<w.path, sha>> \in S)
    BY <2>2 DEF Known, TypeOK, Versions
  <2>5. landed' = [landed EXCEPT ![w.n] = IF "sent" = "applied" THEN 1 ELSE 0]
    BY <2>1, <2>2 DEF WritesInHand, TypeOK
  <2>6. "sent" \in Stages \ {"lookup"}
    BY DEF Stages
  <2>7. w.op = "upload"
    BY <2>1, <2>2 DEF WritesInHand
  <2> HIDE DEF S, sha
  <2>8. Grown /\ S \subseteq found'[w.n]
    BY <2>1, <2>2, <2>3 DEF Grown, TypeOK
  <2>9. PICK v \in Write : v = [w EXCEPT !.sha = sha]
    BY <2>2, <2>4 DEF Write
  <2>n. Named(v)'
    <3>1. v.sha = sha /\ v.path = w.path /\ v.n = w.n /\ v.op = "upload" /\ v.to = w.to
      BY <2>2, <2>7, <2>9 DEF Write
    <3>2. w.to \in Contents
      BY <2>2, <2>7 DEF Named
    <3> QED  BY <2>4, <2>8, <3>1, <3>2 DEF Named
  <2>10. site' \in [Paths -> Versions]
    BY <2>1 DEF TypeOK
  <2> QED  BY <2>1, <2>2, <2>4, <2>5, <2>6, <2>8, <2>9, <2>10, <2>n, MoveStep
<1>7. ASSUME NEW e \in Editors, Apply(e) PROVE IndInv'
  <2> DEFINE w == req[e].write
  <2>1. /\ req[e].stage = "sent" /\ req' = To(e, "applied", w)
        /\ site' = [site EXCEPT ![w.path] = w.to]
        /\ landed' = [landed EXCEPT ![w.n] = @ + 1]
        /\ seen' = [seen EXCEPT ![w.by][w.path] = @ \cup {w.to}]
        /\ UNCHANGED <<found, sent, told, late, pushes>>
    BY <1>7 DEF Apply, Commit
  <2>2. /\ req[e] # Idle /\ w \in Write /\ w.path \in Paths /\ w.n \in 1..MaxWrites
        /\ w.to \in Versions /\ w.by = e /\ landed[w.n] = 0
        /\ Named(w) /\ w.sha \in Contents \cup {NoSha}
    BY <2>1, InHand, ConsoleAssumption DEF Idle, Write, WritesInHand
  <2>3. w = [w EXCEPT !.sha = w.sha]
    BY <2>2 DEF Write
  <2>4. landed' = [landed EXCEPT ![w.n] = IF "applied" = "applied" THEN 1 ELSE 0]
    BY <2>1, <2>2 DEF TypeOK
  <2>5. "applied" \in Stages \ {"lookup"} /\ {w.to} \in SUBSET Versions
    BY <2>2 DEF Stages
  <2>6. site' \in [Paths -> Versions]
    BY <2>1, <2>2 DEF TypeOK
  <2>7. Grown
    BY <2>1, <2>2, <2>5, SeenGrows DEF Grown, TypeOK
  <2>8. PICK v \in Write : v = w
    BY <2>2
  <2>n. Named(v)'
    BY <2>2, <2>7, <2>8, NamedStays
  <2> HIDE DEF w
  <2> QED  BY <2>1, <2>2, <2>3, <2>4, <2>5, <2>6, <2>7, <2>8, <2>n, MoveStep DEF w
<1>8. ASSUME NEW e \in Editors, Reject(e) PROVE IndInv'
  <2> DEFINE w == req[e].write
  <2>1. PICK stage \in {"conflict", "missing", "failed"} : req' = To(e, stage, w)
    BY <1>8 DEF Reject
  <2>2. /\ req[e].stage = "sent"
        /\ UNCHANGED <<site, landed, seen, found, sent, told, late, pushes>>
    BY <1>8 DEF Reject
  <2>3. /\ req[e] # Idle /\ w \in Write /\ w.n \in 1..MaxWrites /\ landed[w.n] = 0
        /\ Named(w) /\ w.sha \in Contents \cup {NoSha}
    BY <2>2, InHand DEF Idle, Write, WritesInHand
  <2>4. w = [w EXCEPT !.sha = w.sha]
    BY <2>3 DEF Write
  <2>5. landed' = [landed EXCEPT ![w.n] = IF stage = "applied" THEN 1 ELSE 0]
    BY <2>2, <2>3 DEF TypeOK
  <2>6. stage \in Stages \ {"lookup"}
    BY DEF Stages
  <2>7. Grown /\ site' \in [Paths -> Versions]
    BY <2>2 DEF TypeOK, Grown
  <2>8. PICK v \in Write : v = w
    BY <2>3
  <2>n. Named(v)'
    BY <2>3, <2>7, <2>8, NamedStays
  <2> HIDE DEF w
  <2> QED  BY <2>1, <2>2, <2>3, <2>4, <2>5, <2>6, <2>7, <2>8, <2>n, MoveStep DEF w
<1>9. ASSUME NEW e \in Editors, Answer(e) PROVE IndInv'
  <2>1. req[e] # Idle /\ Outcome(e) \in {"ok", "conflict", "missing", "failed"}
    BY <1>9 DEF Answer, Idle, Outcome
  <2>2. Outcome(e) = "ok" <=> req[e].stage = "applied"
    BY <1>9 DEF Answer, Outcome
  <2> QED  BY <1>9, <2>1, <2>2, EndStep DEF Answer, Answers
<1>10. ASSUME NEW e \in Editors, GiveUp(e) PROVE IndInv'
  BY <1>10, EndStep DEF GiveUp, CanTimeOut, AfterTimeout, Answers
<1>11. ASSUME NEW w \in late, Late(w) PROVE IndInv'
  BY <1>11, LateStep
<1>12. ASSUME NEW p \in Paths, NEW c \in Versions, Push(p, c) PROVE IndInv'
  <2>1. pushes' \in 0..MaxPushes /\ site' \in [Paths -> Versions] /\ seen' = seen
    BY <1>12, ConsoleAssumption DEF Push, TypeOK
  <2> QED  BY <1>12, <2>1, ReadStep DEF Push, TypeOK, Grown
<1>13. CASE UNCHANGED vars
  BY <1>13, ReadStep DEF vars, TypeOK, Grown
<1> QED
  BY <1>1, <1>2, <1>3, <1>4, <1>5, <1>6, <1>7, <1>8, <1>9, <1>10, <1>11, <1>12, <1>13
  DEF Next, Browse

\* The console's writes stay accounted for: what TLC checks as IndInv.
THEOREM ConsoleInvariant == Spec => []IndInv
  BY InitInvariant, NextInvariant, PTL DEF Spec

\* What an editor is told of a write is what happened to it (the status checks
\* of put_file, delete_file and upload_media).
THEOREM AnswersAreTrue == Spec => []AnswersTrue
<1>1. IndInv => AnswersTrue
  <2> SUFFICES ASSUME IndInv, NEW n \in 1..MaxWrites
               PROVE  /\ told[n] = "ok" => landed[n] > 0
                      /\ told[n] \in {"conflict", "missing"} =>
                           landed[n] = 0 /\ \A w \in late : w.n # n
    BY DEF AnswersTrue
  <2>1. told[n] = "ok" => landed[n] = 1
    BY DEF IndInv, Settled
  <2>2. told[n] \in {"conflict", "missing"} => landed[n] = 0
    BY DEF IndInv, Settled
  <2>3. \A w \in late : told[w.n] = "timeout"
    BY DEF IndInv, LateWrites
  <2> QED  BY <2>1, <2>2, <2>3
<1> QED  BY <1>1, ConsoleInvariant, PTL

\* A write makes one commit at most, however late it lands (_gh_request).
THEOREM WritesCommitOnce == Spec => []OneCommitPerWrite
<1>1. IndInv => OneCommitPerWrite
  BY DEF IndInv, Settled, OneCommitPerWrite
<1> QED  BY <1>1, ConsoleInvariant, PTL


\* A commit that GitHub accepts replaces a version its author has seen, or the
\* one the upload fetched.
LEMMA CommitReplaces ==
  ASSUME TypeOK, NEW w \in Write, Named(w), Current(w), Commit(w), found' = found
  PROVE  VS!Next
<1>1. w.by \in Editors /\ w.path \in Paths /\ w.path \in Editable /\ w.to \in Contents \cup {Absent}
  BY ConsoleAssumption DEF Write, Versions
<1>2. w.n \in 1..MaxWrites
  BY DEF Write
<1>3. VS!Write(w.by, w.path, w.to)
  BY <1>1 DEF Commit, VS!Write
<1>4. CASE w.op = "upload"
  <2>1. w.to \in Contents /\ (site[w.path] = Absent \/ <<w.path, site[w.path]>> \in found[w.n])
    BY <1>4 DEF Named, Current
  <2>2. VS!Upload(w.n, w.by, w.path, w.to)
    BY <1>3, <2>1 DEF VS!Upload
  <2> QED  BY <1>1, <1>2, <2>1, <2>2 DEF VS!Next
<1>5. CASE w.op # "upload"
  <2>1. site[w.path] \in seen[w.by][w.path] \cup {Absent}
    BY <1>5 DEF Named, Current
  <2>2. VS!Replace(w.by, w.path, w.to)
    BY <1>3, <2>1 DEF VS!Replace
  <2> QED  BY <1>1, <2>2 DEF VS!Next
<1> QED  BY <1>4, <1>5

\* A read, of one file or a folder, is a look at those files.
LEMMA ReadLooks ==
  ASSUME TypeOK, NEW e \in Editors, NEW K \in SUBSET Paths, site' = site, found' = found,
         seen' = [seen EXCEPT ![e] =
                    [p \in Paths |-> seen[e][p] \cup IF p \in K THEN {site[p]} ELSE {}]]
  PROVE  VS!Next
<1>1. VS!Look(e, K)
  BY DEF VS!Look
<1> QED  BY <1>1 DEF VS!Next

LEMMA FileLooks ==
  ASSUME TypeOK, NEW e \in Editors, NEW q \in Paths, site' = site, found' = found,
         seen' = [seen EXCEPT ![e][q] = @ \cup {site[q]}]
  PROVE  VS!Next
<1>1. [seen[e] EXCEPT ![q] = @ \cup {site[q]}] =
        [p \in Paths |-> seen[e][p] \cup IF p \in {q} THEN {site[p]} ELSE {}]
  BY DEF TypeOK
<1>2. seen' = [seen EXCEPT ![e] =
                 [p \in Paths |-> seen[e][p] \cup IF p \in {q} THEN {site[p]} ELSE {}]]
  BY <1>1
<1>3. {q} \in SUBSET Paths
  OBVIOUS
<1> QED  BY <1>2, <1>3, ReadLooks

\* Every step of the console is a step of the versioned store or none.
LEMMA StepRefines == IndInv /\ [Next]_vars => [VS!Next]_VS!vars
<1> SUFFICES ASSUME IndInv, [Next]_vars PROVE [VS!Next]_VS!vars
  OBVIOUS
<1> USE DEF IndInv
<1>1. ASSUME NEW e \in Editors, NEW p \in Paths, get_file(e, p) PROVE VS!Next
  BY <1>1, FileLooks DEF get_file
<1>2. ASSUME NEW e \in Editors, NEW f \in Folders, list_folder(e, f) PROVE VS!Next
  BY <1>2, ReadLooks, ConsoleAssumption DEF list_folder
<1>3. ASSUME NEW e \in Editors, NEW stage, NEW op, NEW p, NEW sha, NEW c,
             Start(e, stage, op, p, sha, c)
      PROVE  UNCHANGED VS!vars
  BY <1>3 DEF Start, VS!vars
<1>4. ASSUME NEW e \in Editors, NEW answered \in BOOLEAN, Lookup(e, answered)
      PROVE  [VS!Next]_VS!vars
  <2> DEFINE q == req[e].write.path
             n == req[e].write.n
  <2>1. req[e] # Idle /\ q \in Paths /\ n \in 1..MaxWrites /\ UNCHANGED <<site, seen>>
    BY <1>4, InHand, ConsoleAssumption DEF Lookup, Idle, Write
  <2>2. CASE answered
    <3>1. VS!Fetch(n, q)
      BY <1>4, <2>1, <2>2 DEF Lookup, VS!Fetch
    <3> QED  BY <2>1, <3>1 DEF VS!Next
  <2>3. CASE ~answered
    <3>1. found' = [found EXCEPT ![n] = @ \cup {}]
      BY <1>4, <2>3 DEF Lookup
    <3>2. found' = found
      BY <2>1, <3>1 DEF TypeOK
    <3> QED  BY <2>1, <3>2 DEF VS!vars
  <2> QED  BY <2>2, <2>3
<1>5. ASSUME NEW e \in Editors, Apply(e) PROVE VS!Next
  <2>1. req[e] # Idle /\ Current(req[e].write) /\ Commit(req[e].write) /\ found' = found
    BY <1>5 DEF Apply, Idle
  <2>2. req[e].write \in Write /\ Named(req[e].write)
    BY <2>1, InHand DEF WritesInHand
  <2> QED  BY <2>1, <2>2, CommitReplaces
<1>6. ASSUME NEW w \in late, Late(w) PROVE [VS!Next]_VS!vars
  <2>1. w \in Write /\ Named(w)
    BY DEF TypeOK, LateWrites
  <2>2. CASE Current(w)
    BY <1>6, <2>1, <2>2, CommitReplaces DEF Late
  <2>3. CASE ~Current(w)
    BY <1>6, <2>3 DEF Late, VS!vars
  <2> QED  BY <2>2, <2>3
<1>7. ASSUME NEW p \in Paths, NEW c \in Versions, Push(p, c) PROVE VS!Next
  <2>1. VS!Push(p, c)
    BY <1>7 DEF Push, VS!Push
  <2> QED  BY <2>1 DEF VS!Next, Versions
<1>8. ASSUME NEW e \in Editors, Reject(e) \/ Answer(e) \/ GiveUp(e) PROVE UNCHANGED VS!vars
  BY <1>8 DEF Reject, Answer, GiveUp, VS!vars
<1>9. CASE UNCHANGED vars
  BY <1>9 DEF vars, VS!vars
<1> QED
  BY <1>1, <1>2, <1>3, <1>4, <1>5, <1>6, <1>7, <1>8, <1>9
  DEF Next, Browse, put_file, delete_file, upload_media

\* The console implements the versioned store: no editor replaces or removes a
\* version that was never shown to it, no upload replaces one that it did not
\* look up itself, and none touches a file outside the editable folders
\* (validate_content_path, and the sha that put_file, delete_file and
\* upload_media send).
THEOREM ConsoleImplementsStore == Spec => ImplementsVersionedStore
<1>1. Init => VS!Init
  BY DEF Init, VS!Init, Versions
<1> QED  BY <1>1, ConsoleInvariant, StepRefines, PTL DEF Spec, ImplementsVersionedStore, VS!Spec
=============================================================================
