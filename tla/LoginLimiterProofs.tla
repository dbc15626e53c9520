------------------------- MODULE LoginLimiterProofs -------------------------
(***************************************************************************)
(* Proofs about LoginLimiter for every number of workers and accounts.     *)
(***************************************************************************)
EXTENDS LoginLimiter, FiguresProofs, SequenceTheorems

\* Which logins are under way depends on the requests alone.
LEMMA UnderWayOfOthers ==
  ASSUME TypeOK, NEW r \in Requests, NEW v, req' = [req EXCEPT ![r] = v],
         NEW g \in Gates, NEW n \in Names
  PROVE  /\ UnderWay(g, n)' \subseteq UnderWay(g, n) \cup {r}
         /\ v = Idle => UnderWay(g, n)' = UnderWay(g, n) \ {r}
         /\ v # Idle /\ (v.stage # "checked" \/ v.gate # g \/ v.name # n)
               => UnderWay(g, n)' = UnderWay(g, n) \ {r}
  BY DEF TypeOK, UnderWay

\* No request is under way, nothing is locked and no worker has seeded.
LEMMA InitLocks == Init => LockInv
<1> SUFFICES ASSUME Init PROVE LockInv
  OBVIOUS
<1>1. TypeOK
  BY LimiterAssumption DEF Init, TypeOK, Gates
<1>2. LockStops /\ SeedsKnown /\ SeedTakes
  BY LimiterAssumption DEF Init, LockStops, SeedsKnown, SeedTakes, Locked, Remaining, Stands, Gates
<1> QED  BY <1>1, <1>2 DEF LockInv

\* What the limiter of one worker does to its own locks.
LEMMA LockAt ==
  ASSUME TypeOK, NEW g \in Gates, NEW n \in Names, NEW t \in Nat,
         lock' = [lock EXCEPT ![g][n] = t]
  PROVE  /\ lock' \in [Gates -> [Names -> Nat]]
         /\ lock'[g][n] = t
         /\ \A h \in Gates : \A m \in Names :
              h # g \/ m # n => lock'[h][m] = lock[h][m]
  BY DEF TypeOK

\* Admit lets a login pass only when its name is not locked.
LEMMA AdmitStep ==
  ASSUME LockInv, NEW r \in Requests, NEW g \in Portal, NEW l \in Login, l.gate = g,
         Admit(r, g, l), now' = now, before' = before
  PROVE  /\ lock' \in [Gates -> [Names -> Nat]]
         /\ req' \in [Requests -> {Idle} \cup Login]
         /\ LockStops'
<1> DEFINE n == l.name
           v == IF Passes(g, l) THEN [l EXCEPT !.stage = "checked"] ELSE Idle
<1>0. g \in Gates /\ n \in Names /\ l.gate \in Portal /\ Portal \subseteq Gates
  BY DEF Login, Gates
<1>1. v \in {Idle} \cup Login /\ (v # Idle => Passes(g, l))
  BY DEF Login
<1>2. req' = [req EXCEPT ![r] = v]
  BY DEF Admit
<1>3. req' \in [Requests -> {Idle} \cup Login]
  BY <1>1, <1>2 DEF LockInv, TypeOK
<1>4. PICK t \in {0, lock[g][n]} :
        lock' = [lock EXCEPT ![g][n] = t] /\ t \in Nat
  <2>1. lock = [lock EXCEPT ![g][n] = lock[g][n]] /\ lock[g][n] \in Nat
    BY <1>0 DEF LockInv, TypeOK
  <2>2. CASE ~RateOk(g, l.ip)
    BY <2>1, <2>2 DEF Admit
  <2>3. CASE RateOk(g, l.ip)
    BY <2>1, <2>3 DEF Admit, Unlocked
  <2> QED  BY <2>2, <2>3
<1>5. /\ lock' \in [Gates -> [Names -> Nat]]
      /\ \A h \in Gates : \A m \in Names : lock'[h][m] \in {0, lock[h][m]}
  <2>1. /\ lock' \in [Gates -> [Names -> Nat]]
        /\ lock'[g][n] = t
        /\ \A h \in Gates : \A m \in Names : h # g \/ m # n => lock'[h][m] = lock[h][m]
    <3>1. TypeOK /\ g \in Gates /\ n \in Names /\ t \in Nat
      BY <1>0, <1>4 DEF LockInv
    <3>2. lock' = [lock EXCEPT ![g][n] = t]
      BY <1>4
    <3> HIDE DEF n
    <3> QED  BY <3>1, <3>2 DEF TypeOK
  <2> QED  BY <1>4, <2>1
<1>6. LockStops'
  <2> SUFFICES ASSUME NEW h \in Portal, NEW m \in Names, Locked(h, m)'
               PROVE  UnderWay(h, m)' \subseteq before[h][m]
    BY DEF LockStops
  <2>0. h \in Gates /\ now \in Nat
    BY <1>0 DEF LockInv, TypeOK
  <2>1. Locked(h, m)
    BY <1>5, <2>0 DEF Locked, Remaining, Stands, LockInv, TypeOK
  <2>2. UnderWay(h, m) \subseteq before[h][m]
    BY <2>1 DEF LockInv, LockStops
  <2>3. v = Idle \/ v.stage # "checked" \/ v.gate # h \/ v.name # m
    <3> SUFFICES ASSUME v # Idle, v.gate = h, v.name = m PROVE FALSE
      OBVIOUS
    <3>1. Passes(g, l) /\ h = g /\ m = n
      BY <1>1 DEF Login
    <3> QED  BY <2>1, <3>1 DEF Passes
  <2> HIDE DEF v
  <2>4. UnderWay(h, m)' = UnderWay(h, m) \ {r}
    BY <1>2, <2>0, <2>3, UnderWayOfOthers DEF LockInv
  <2> QED  BY <2>2, <2>4
<1> QED  BY <1>3, <1>5, <1>6

\* A login that is neither recorded nor cleared leaves the rest under way.
LEMMA EndStep ==
  ASSUME LockInv, NEW r \in Requests, req' = [req EXCEPT ![r] = Idle],
         now' = now, lock' = lock, before' = before
  PROVE  LockStops'
<1> SUFFICES ASSUME NEW h \in Portal, NEW m \in Names, Locked(h, m)
             PROVE  UnderWay(h, m)' \subseteq before[h][m]
  BY DEF LockStops, Locked, Remaining, Stands
<1>1. UnderWay(h, m)' = UnderWay(h, m) \ {r}
  BY UnderWayOfOthers DEF LockInv, Gates
<1> QED  BY <1>1 DEF LockInv, LockStops

\* A step that leaves the seeding alone keeps what it promises.
LEMMA SeedingKept ==
  ASSUME LockInv, NEW r \in Requests, NEW v, v = Idle \/ v.stage # "seeding",
         req' = [req EXCEPT ![r] = v], req[r] = Idle \/ req[r].stage # "seeding",
         accounts' = accounts, seeded' = seeded, fault' = fault
  PROVE  SeedsKnown' /\ SeedTakes'
<1>1. \A q \in Requests :
        (req[q] # Idle /\ req[q].stage = "seeding") <=> (req'[q] # Idle /\ req'[q].stage = "seeding")
  BY DEF LockInv, TypeOK
<1>2. \A q \in Requests : req[q] # Idle /\ req[q].stage = "seeding" => req'[q] = req[q]
  BY DEF LockInv, TypeOK
<1>3. SeedsKnown'
  BY <1>1, <1>2 DEF LockInv, SeedsKnown
<1>4. SeedTakes'
  BY <1>1, <1>2 DEF LockInv, SeedTakes
<1> QED  BY <1>3, <1>4

LEMMA ArriveStep ==
  ASSUME LockInv, NEW r \in Requests, NEW g \in Portal, NEW ip \in Addresses,
         NEW n \in Names, NEW right \in BOOLEAN, Arrive(r, g, ip, n, right)
  PROVE  LockInv'
<1> DEFINE l == [stage |-> "seeding", gate |-> g, ip |-> ip, name |-> n, right |-> right,
                 missing |-> Admin \notin accounts]
<1>0. /\ l \in Login /\ g \in Gates /\ l # Idle /\ l.stage = "seeding" /\ l.gate = g
      /\ l.missing = (Admin \notin accounts)
  BY DEF Login, Gates, Idle
<1>a. /\ now' = now /\ accounts' = accounts /\ fault' = fault /\ before' = before
      /\ req[r] = Idle
  BY DEF Arrive
<1>1. CASE seeded[g] /\ Admit(r, g, l) /\ UNCHANGED seeded
  <2> DEFINE v == IF Passes(g, l) THEN [l EXCEPT !.stage = "checked"] ELSE Idle
  <2>1. /\ lock' \in [Gates -> [Names -> Nat]] /\ req' \in [Requests -> {Idle} \cup Login]
        /\ LockStops'
    <3> HIDE DEF l
    <3> QED  BY <1>0, <1>1, <1>a, AdmitStep
  <2>2. req' = [req EXCEPT ![r] = v] /\ (v = Idle \/ v.stage # "seeding")
    BY <1>1 DEF Admit
  <2>3. SeedsKnown' /\ SeedTakes'
    <3> HIDE DEF v
    <3> QED  BY <1>1, <1>a, <2>2, SeedingKept
  <2>4. TypeOK'
    BY <1>1, <1>a, <2>1 DEF LockInv, TypeOK
  <2> QED  BY <2>1, <2>3, <2>4 DEF LockInv
<1>2. CASE /\ ~seeded[g] /\ seeded' = [seeded EXCEPT ![g] = TRUE]
           /\ req' = [req EXCEPT ![r] = l] /\ UNCHANGED <<bucket, admitted, lock>>
  <2> HIDE DEF l
  <2>1. TypeOK'
    BY <1>0, <1>2, <1>a DEF LockInv, TypeOK
  <2>2. LockStops'
    <3> SUFFICES ASSUME NEW h \in Portal, NEW m \in Names, Locked(h, m)'
                 PROVE  UnderWay(h, m)' \subseteq before'[h][m]
      BY DEF LockStops
    <3>1. UnderWay(h, m)' = UnderWay(h, m) \ {r}
      <4>1. TypeOK /\ h \in Gates /\ l # Idle /\ l.stage # "checked"
        BY <1>0 DEF LockInv, Gates
      <4>2. req' = [req EXCEPT ![r] = l]
        BY <1>2
      <4> QED  BY <4>1, <4>2, UnderWayOfOthers
    <3>2. Locked(h, m)
      BY <1>2, <1>a DEF Locked, Remaining, Stands
    <3> QED  BY <1>a, <3>1, <3>2 DEF LockInv, LockStops
  <2>3. req'[r] = l /\ \A q \in Requests \ {r} : req'[q] = req[q]
    BY <1>2 DEF LockInv, TypeOK
  <2>4. SeedsKnown'
    BY <1>0, <1>a, <2>3 DEF LockInv, SeedsKnown
  <2>5. SeedTakes'
    <3> SUFFICES ASSUME NEW h \in Portal, seeded'[h], ~fault'[h], Admin \notin accounts'
                 PROVE  \E q \in Requests :
                          req'[q] # Idle /\ req'[q].stage = "seeding" /\ req'[q].gate = h
      BY DEF SeedTakes
    <3>1. CASE h = g
      BY <1>0, <2>3, <3>1
    <3>2. CASE h # g
      <4>1. seeded[h] /\ ~fault[h] /\ Admin \notin accounts
        BY <1>2, <1>a, <3>2 DEF LockInv, TypeOK, Gates
      <4>2. PICK q \in Requests : req[q] # Idle /\ req[q].stage = "seeding" /\ req[q].gate = h
        BY <4>1 DEF LockInv, SeedTakes
      <4> QED  BY <1>a, <2>3, <4>2
    <3> QED  BY <3>1, <3>2
  <2> QED  BY <2>1, <2>2, <2>4, <2>5 DEF LockInv
<1> QED  BY <1>1, <1>2 DEF Arrive

LEMMA SeedCommitsStep ==
  ASSUME LockInv, NEW r \in Requests, SeedCommits(r)
  PROVE  LockInv'
<1> DEFINE l == req[r]
           g == l.gate
           v == IF Passes(g, l) THEN [l EXCEPT !.stage = "checked"] ELSE Idle
<1>0. l \in Login /\ g \in Portal /\ g \in Gates /\ l # Idle /\ l.stage = "seeding"
  BY DEF SeedCommits, LockInv, TypeOK, Login, Gates
<1>1. /\ now' = now /\ before' = before /\ fault' = fault /\ seeded' = seeded
      /\ accounts' = accounts \cup Seeds(r) /\ Admit(r, g, l)
  BY DEF SeedCommits
<1>2. /\ lock' \in [Gates -> [Names -> Nat]] /\ req' \in [Requests -> {Idle} \cup Login]
      /\ LockStops'
  <2> HIDE DEF l
  <2> QED  BY <1>0, <1>1, AdmitStep
<1>3. Admin \in accounts' /\ accounts' \subseteq Names /\ accounts \subseteq accounts'
  BY <1>0, <1>1, LimiterAssumption DEF LockInv, SeedsKnown, Seeds, TypeOK
<1>4. TypeOK'
  BY <1>1, <1>2, <1>3 DEF LockInv, TypeOK
<1>5. SeedsKnown' /\ SeedTakes'
  BY <1>3 DEF SeedsKnown, SeedTakes
<1> QED  BY <1>2, <1>4, <1>5 DEF LockInv

LEMMA SeedFailsStep ==
  ASSUME LockInv, NEW r \in Requests, SeedFails(r)
  PROVE  LockInv'
<1> DEFINE g == req[r].gate
<1>0. req[r] \in Login /\ g \in Portal /\ g \in Gates
  BY DEF SeedFails, LockInv, TypeOK, Login, Gates
<1>1. /\ req' = [req EXCEPT ![r] = Idle] /\ accounts' = accounts /\ seeded' = seeded
      /\ fault' = [fault EXCEPT ![g] = @ \/ Seeds(r) \cap accounts = {}]
      /\ now' = now /\ lock' = lock /\ before' = before
  BY DEF SeedFails
<1>2. TypeOK'
  BY <1>0, <1>1 DEF LockInv, TypeOK
<1>3. LockStops'
  BY <1>1, EndStep
<1>4. \A q \in Requests : req'[q] = IF q = r THEN Idle ELSE req[q]
  BY <1>1 DEF LockInv, TypeOK
<1>5. SeedsKnown'
  BY <1>1, <1>4 DEF LockInv, SeedsKnown
<1>6. SeedTakes'
  <2> SUFFICES ASSUME NEW h \in Portal, seeded'[h], ~fault'[h], Admin \notin accounts'
               PROVE  \E q \in Requests :
                        req'[q] # Idle /\ req'[q].stage = "seeding" /\ req'[q].gate = h
    BY DEF SeedTakes
  <2>1. ~fault[h]
    BY <1>0, <1>1 DEF LockInv, TypeOK, Gates
  <2>2. PICK q \in Requests : req[q] # Idle /\ req[q].stage = "seeding" /\ req[q].gate = h
    BY <1>1, <2>1 DEF LockInv, SeedTakes
  <2>3. q # r
    <3> SUFFICES ASSUME q = r PROVE FALSE
      OBVIOUS
    <3>1. h = g /\ Seeds(r) \cap accounts = {}
      <4>1. Seeds(r) \subseteq {Admin}
        BY DEF Seeds
      <4> QED  BY <1>1, <2>2, <4>1
    <3>2. fault'[h]
      BY <1>0, <1>1, <3>1 DEF LockInv, TypeOK
    <3> QED  BY <3>2
  <2> QED  BY <1>4, <2>2, <2>3
<1> QED  BY <1>2, <1>3, <1>5, <1>6 DEF LockInv

\* A lock changed at one name of one worker only.
LEMMA OneName ==
  ASSUME TypeOK, NEW g \in Gates, NEW n \in Names, NEW h \in Gates, NEW m \in Names,
         NEW t, NEW b, h # g \/ m # n
  PROVE  /\ [lock EXCEPT ![g][n] = t][h][m] = lock[h][m]
         /\ [before EXCEPT ![g][n] = b][h][m] = before[h][m]
  BY DEF TypeOK

\* The step that ends a login leaves the rest of that name's logins under way
\* in the history of the lock, and the other names alone.
LEMMA EvaluateStep ==
  ASSUME LockInv, NEW r \in Requests, Evaluate(r)
  PROVE  LockInv'
<1> DEFINE g == req[r].gate
           n == req[r].name
           o == UnderWay(g, n) \ {r}
<1>0. /\ req[r] \in Login /\ g \in Portal /\ g \in Gates /\ n \in Names
      /\ req[r].stage = "checked" /\ now + Window \in Nat /\ now \in Nat
  BY LimiterAssumption DEF Evaluate, LockInv, TypeOK, Login, Gates
<1>1. /\ req' = [req EXCEPT ![r] = Idle] /\ accounts' = accounts /\ seeded' = seeded
      /\ fault' = fault /\ now' = now
  BY DEF Evaluate
<1>2. SeedsKnown' /\ SeedTakes'
  BY <1>0, <1>1, SeedingKept
<1>o. o \subseteq Requests
  BY DEF UnderWay
<1>r. \A h \in Gates : \A m \in Names : UnderWay(h, m)' = UnderWay(h, m) \ {r}
  <2>1. TypeOK /\ req' = [req EXCEPT ![r] = Idle]
    BY <1>1 DEF LockInv
  <2> QED  BY <2>1, UnderWayOfOthers
<1>3. CASE lock' = lock /\ before' = before
  <2>1. TypeOK'
    BY <1>1, <1>3 DEF LockInv, TypeOK
  <2> QED  BY <1>1, <1>2, <1>3, <2>1, EndStep DEF LockInv
<1>4. ASSUME NEW t \in Nat, NEW b \in SUBSET Requests, t = 0 \/ b = o,
             lock' = [lock EXCEPT ![g][n] = t],
             before' = before \/ before' = [before EXCEPT ![g][n] = b],
             t # 0 => before' = [before EXCEPT ![g][n] = b]
      PROVE  LockInv'
  <2> HIDE DEF g, n, o
  <2>1. TypeOK'
    <3>1. lock' \in [Gates -> [Names -> Nat]]
      BY <1>0, <1>4 DEF LockInv, TypeOK
    <3>2. before' \in [Gates -> [Names -> SUBSET Requests]]
      <4>1. before \in [Gates -> [Names -> SUBSET Requests]]
        BY DEF LockInv, TypeOK
      <4>2. before[g] \in [Names -> SUBSET Requests]
        BY <1>0, <4>1
      <4>3. [before[g] EXCEPT ![n] = b] \in [Names -> SUBSET Requests]
        BY <1>0, <4>2, <1>4
      <4>4. [before EXCEPT ![g][n] = b] \in [Gates -> [Names -> SUBSET Requests]]
        BY <1>0, <4>1, <4>3
      <4> QED  BY <1>4, <4>1, <4>4
    <3> QED  BY <1>1, <3>1, <3>2 DEF LockInv, TypeOK
  <2>2. LockStops'
    <3> SUFFICES ASSUME NEW h \in Portal, NEW m \in Names, Locked(h, m)'
                 PROVE  UnderWay(h, m)' \subseteq before'[h][m]
      BY DEF LockStops
    <3>0. h \in Gates /\ TypeOK
      BY DEF Gates, LockInv
    <3>1. UnderWay(h, m)' = UnderWay(h, m) \ {r}
      BY <1>r, <3>0
    <3>2. CASE h = g /\ m = n
      <4>1. lock'[h][m] = t
        BY <1>0, <1>4, <3>0, <3>2 DEF TypeOK
      <4>2. t # 0 /\ b = o
        BY <1>0, <1>1, <1>4, <4>1 DEF Locked, Remaining, Stands
      <4>3. before'[h][m] = b
        BY <1>0, <1>4, <3>0, <3>2, <4>2 DEF TypeOK
      <4> QED  BY <3>1, <3>2, <4>2, <4>3 DEF o
    <3>3. CASE h # g \/ m # n
      <4>1. lock'[h][m] = lock[h][m] /\ before'[h][m] = before[h][m]
        <5>1. [lock EXCEPT ![g][n] = t][h][m] = lock[h][m]
          BY <1>0, <3>0, <3>3, OneName
        <5>2. [before EXCEPT ![g][n] = b][h][m] = before[h][m]
          BY <1>0, <3>0, <3>3, OneName
        <5> QED  BY <1>4, <5>1, <5>2
      <4>2. Locked(h, m)
        BY <1>1, <4>1 DEF Locked, Remaining, Stands
      <4> QED  BY <3>1, <4>1, <4>2 DEF LockInv, LockStops
    <3> QED  BY <3>2, <3>3
  <2> QED  BY <1>2, <2>1, <2>2 DEF LockInv
<1>5. CASE RecordFailure(g, n, o, lock)
  <2>1. CASE Len(Counted(g, n)) >= MaxFails
    <3>1. /\ lock' = [lock EXCEPT ![g][n] = now + Window]
          /\ before' = [before EXCEPT ![g][n] = o]
      BY <1>5, <2>1 DEF RecordFailure
    <3> HIDE DEF g, n, o
    <3> QED  BY <1>0, <1>o, <1>4, <3>1
  <2>2. CASE ~(Len(Counted(g, n)) >= MaxFails)
    BY <1>3, <1>5, <2>2 DEF RecordFailure
  <2> QED  BY <2>1, <2>2
<1>6. CASE UNCHANGED <<fails, lock, misses, before>>
  BY <1>3, <1>6
<1>7. CASE ClearFailures(g, n)
  <2>1. lock' = [lock EXCEPT ![g][n] = 0] /\ before' = before
    BY <1>7 DEF ClearFailures
  <2> HIDE DEF g, n, o
  <2> QED  BY <1>4, <1>o, <2>1
<1> QED  BY <1>5, <1>6, <1>7 DEF Evaluate

\* The limiters of the console and the chatbot are not the portal's.
LEMMA ConsoleLoginStep ==
  ASSUME LockInv, NEW g \in Console, NEW ip \in Addresses, NEW n \in Names,
         NEW right \in BOOLEAN, ConsoleLogin(g, ip, n, right)
  PROVE  LockInv'
<1>0. /\ g \in Gates /\ g \notin Portal /\ Portal \subseteq Gates
      /\ now \in Nat /\ now + Window \in Nat
  BY LimiterAssumption DEF Gates, LockInv, TypeOK
<1>1. /\ now' = now /\ seeded' = seeded /\ accounts' = accounts /\ req' = req
      /\ fault' = fault
  BY DEF ConsoleLogin
<1>2. /\ lock' \in [Gates -> [Names -> Nat]]
      /\ before' \in [Gates -> [Names -> SUBSET Requests]]
      /\ \A h \in Portal : lock'[h] = lock[h] /\ before'[h] = before[h]
  <2>1. CASE UNCHANGED <<fails, lock, misses, before>>
    BY <2>1 DEF LockInv, TypeOK
  <2>2. CASE ClearFailures(g, n)
    BY <1>0, <2>2 DEF ClearFailures, LockInv, TypeOK
  <2>3. CASE RecordFailure(g, n, {}, Unlocked(g, n))
    <3>1. /\ Unlocked(g, n) \in [Gates -> [Names -> Nat]]
          /\ \A h \in Portal : Unlocked(g, n)[h] = lock[h]
      BY <1>0 DEF Unlocked, LockInv, TypeOK
    <3> DEFINE u == Unlocked(g, n)
    <3> HIDE DEF u
    <3>2. CASE Len(Counted(g, n)) >= MaxFails
      <4>1. lock' = [u EXCEPT ![g][n] = now + Window] /\ before' = [before EXCEPT ![g][n] = {}]
        BY <2>3, <3>2 DEF RecordFailure, u
      <4>2. u \in [Gates -> [Names -> Nat]] /\ \A h \in Portal : u[h] = lock[h]
        BY <3>1 DEF u
      <4> QED  BY <1>0, <4>1, <4>2 DEF LockInv, TypeOK
    <3>3. CASE ~(Len(Counted(g, n)) >= MaxFails)
      BY <2>3, <3>1, <3>3 DEF RecordFailure, LockInv, TypeOK
    <3> QED  BY <3>2, <3>3
  <2> QED  BY <2>1, <2>2, <2>3 DEF ConsoleLogin
<1>3. TypeOK'
  BY <1>1, <1>2 DEF LockInv, TypeOK
<1>4. LockStops'
  BY <1>1, <1>2 DEF LockInv, LockStops, Locked, Remaining, Stands, UnderWay
<1>5. SeedsKnown' /\ SeedTakes'
  BY <1>1 DEF LockInv, SeedsKnown, SeedTakes
<1> QED  BY <1>3, <1>4, <1>5 DEF LockInv

LEMMA RestartStep ==
  ASSUME LockInv, NEW g \in Gates, Restart(g)
  PROVE  LockInv'
<1>1. /\ now' = now /\ accounts' = accounts
      /\ lock' = [lock EXCEPT ![g] = [n \in Names |-> 0]]
      /\ before' = [before EXCEPT ![g] = [n \in Names |-> {}]]
      /\ seeded' = [seeded EXCEPT ![g] = FALSE] /\ fault' = [fault EXCEPT ![g] = FALSE]
      /\ req' = [r \in Requests |-> IF req[r] # Idle /\ req[r].gate = g THEN Idle ELSE req[r]]
  BY DEF Restart
<1>2. TypeOK'
  BY <1>1 DEF LockInv, TypeOK
<1>3. LockStops'
  <2> SUFFICES ASSUME NEW h \in Portal, NEW m \in Names, Locked(h, m)'
               PROVE  UnderWay(h, m)' \subseteq before'[h][m]
    BY DEF LockStops
  <2>0. h \in Gates /\ now \in Nat
    BY DEF Gates, LockInv, TypeOK
  <2>1. h # g
    <3>1. h = g => lock'[h][m] = 0
      BY <1>1, <2>0 DEF LockInv, TypeOK
    <3> QED  BY <1>1, <2>0, <3>1 DEF Locked, Remaining, Stands
  <2>2. lock'[h] = lock[h] /\ before'[h] = before[h]
    BY <1>1, <2>0, <2>1 DEF LockInv, TypeOK
  <2>3. UnderWay(h, m)' \subseteq UnderWay(h, m)
    BY <1>1, <2>1 DEF UnderWay
  <2>4. Locked(h, m)
    BY <1>1, <2>2 DEF Locked, Remaining, Stands
  <2> QED  BY <2>2, <2>3, <2>4 DEF LockInv, LockStops
<1>4. SeedsKnown'
  BY <1>1 DEF LockInv, SeedsKnown
<1>5. SeedTakes'
  <2> SUFFICES ASSUME NEW h \in Portal, seeded'[h], ~fault'[h], Admin \notin accounts'
               PROVE  \E q \in Requests :
                        req'[q] # Idle /\ req'[q].stage = "seeding" /\ req'[q].gate = h
    BY DEF SeedTakes
  <2>1. h # g /\ seeded[h] /\ ~fault[h]
    BY <1>1 DEF LockInv, TypeOK, Gates
  <2>2. PICK q \in Requests : req[q] # Idle /\ req[q].stage = "seeding" /\ req[q].gate = h
    BY <1>1, <2>1 DEF LockInv, SeedTakes
  <2> QED  BY <1>1, <2>1, <2>2
<1> QED  BY <1>2, <1>3, <1>4, <1>5 DEF LockInv

\* What has a whole second left has one left a tick earlier.
LEMMA LeftBefore ==
  ASSUME NEW l \in Nat, NEW t \in Nat, NEW n \in Nat \ {0},
         l > t + 1, (l - (t + 1)) \div n # 0
  PROVE  (l - t) \div n # 0
<1> DEFINE a == l - (t + 1)
<1>1. a \in Nat /\ l - t = a + 1
  OBVIOUS
<1> HIDE DEF a
<1>2. ASSUME (a + 1) \div n = 0 PROVE a \div n = 0
  <2>1. a + 1 = n * 0 + ((a + 1) % n) /\ (a + 1) % n < n
    BY <1>1, <1>2, Divides
  <2>2. a < n
    BY <1>1, <2>1
  <2> QED  BY <1>1, <2>2
<1>3. a \div n # 0
  BY DEF a
<1> QED  BY <1>1, <1>2, <1>3

\* Time only ends locks.
LEMMA TickStep ==
  ASSUME LockInv, Tick
  PROVE  LockInv'
<1>1. TypeOK'
  BY DEF Tick, LockInv, TypeOK
<1>2. LockStops'
  <2> SUFFICES ASSUME NEW h \in Portal, NEW m \in Names, Locked(h, m)'
               PROVE  UnderWay(h, m)' \subseteq before'[h][m]
    BY DEF LockStops
  <2>1. UnderWay(h, m)' = UnderWay(h, m) /\ before' = before
    BY DEF Tick, UnderWay
  <2>2. /\ lock[h][m] \in Nat /\ now \in Nat /\ now' = now + 1 /\ lock' = lock
        /\ Second \in Nat \ {0}
    BY LimiterAssumption DEF Tick, LockInv, TypeOK, Gates
  <2>3. lock[h][m] > now + 1 /\ (lock[h][m] - (now + 1)) \div Second # 0
    BY <2>2 DEF Locked, Remaining, Stands
  <2>4. (lock[h][m] - now) \div Second # 0
    BY <2>2, <2>3, LeftBefore
  <2>5. Locked(h, m)
    BY <2>2, <2>3, <2>4 DEF Locked, Remaining, Stands
  <2> QED  BY <2>1, <2>5 DEF LockInv, LockStops
<1>3. SeedsKnown' /\ SeedTakes'
  BY DEF Tick, LockInv, SeedsKnown, SeedTakes
<1> QED  BY <1>1, <1>2, <1>3 DEF LockInv

\* A step that touches only the counts of requests, or nothing.
LEMMA QuietStep ==
  ASSUME LockInv, UNCHANGED <<now, lock, seeded, accounts, req, before, fault>>
  PROVE  LockInv'
  BY DEF LockInv, TypeOK, LockStops, Locked, Remaining, Stands, UnderWay, SeedsKnown, SeedTakes

LEMMA LocksKept == LockInv /\ [Next]_vars => LockInv'
<1> SUFFICES ASSUME LockInv, [Next]_vars PROVE LockInv'
  OBVIOUS
<1>1. ASSUME NEW r \in Requests, NEW g \in Portal, NEW ip \in Addresses, NEW n \in Names,
             NEW right \in BOOLEAN, Arrive(r, g, ip, n, right)
      PROVE  LockInv'
  BY <1>1, ArriveStep
<1>2. ASSUME NEW r \in Requests, SeedCommits(r) PROVE LockInv'
  BY <1>2, SeedCommitsStep
<1>3. ASSUME NEW r \in Requests, SeedFails(r) PROVE LockInv'
  BY <1>3, SeedFailsStep
<1>4. ASSUME NEW r \in Requests, Evaluate(r) PROVE LockInv'
  BY <1>4, EvaluateStep
<1>5. ASSUME NEW g \in Console, NEW ip \in Addresses, NEW n \in Names,
             NEW right \in BOOLEAN, ConsoleLogin(g, ip, n, right)
      PROVE  LockInv'
  BY <1>5, ConsoleLoginStep
<1>6. ASSUME NEW g \in Chat, NEW ip \in Addresses, NEW s \in Sessions, ChatMessage(g, ip, s)
      PROVE  LockInv'
  BY <1>6, QuietStep DEF ChatMessage
<1>7. ASSUME NEW g \in Gates, Restart(g) PROVE LockInv'
  BY <1>7, RestartStep
<1>8. CASE Tick
  BY <1>8, TickStep
<1>9. CASE UNCHANGED vars
  BY <1>9, QuietStep DEF vars
<1> QED  BY <1>1, <1>2, <1>3, <1>4, <1>5, <1>6, <1>7, <1>8, <1>9 DEF Next

\* The inductive invariant behind the locks and the seeding holds however many
\* workers, names and requests there are (auth.py: login, _seed_defaults).
LEMMA LocksInvariant == Spec => []LockInv
<1> QED  BY InitLocks, LocksKept, PTL DEF Spec

\* Once a name is locked, and until the last second of the lock, only logins
\* that were under way at that moment still get their password looked at
\* (auth.py: login, _lock_seconds_remaining, _record_login_failure).
THEOREM LocksStop == Spec => []LockStops
<1>1. LockInv => LockStops
  BY DEF LockInv
<1> QED  BY <1>1, LocksInvariant, PTL

\* A worker marked as seeded has the administrator's account, or a seed under
\* way, or lost its seed to the database (auth.py: _seed_defaults).
THEOREM SeedingTakes == Spec => []SeedTakes
<1>1. LockInv => SeedTakes
  BY DEF LockInv
<1> QED  BY <1>1, LocksInvariant, PTL

-----------------------------------------------------------------------------
(* Counts: what the tables of times say of the requests let in and of the   *)
(* failures.                                                                *)

\* Pruning drops a beginning that is too old and keeps the rest, which starts
\* with a time that is not.
LEMMA RecentDrops ==
  ASSUME NEW s \in Seq(Nat), NEW length \in Nat, now \in Nat
  PROVE  \E d \in 0..Len(s) :
           /\ Recent(s, length) = SubSeq(s, d + 1, Len(s))
           /\ Recent(s, length) \in Seq(Nat)
           /\ Len(Recent(s, length)) = Len(s) - d
           /\ \A i \in 1..(Len(s) - d) : Recent(s, length)[i] = s[d + i]
           /\ \A i \in 1..d : s[i] < now - length
           /\ d < Len(s) => s[d + 1] >= now - length
<1> DEFINE Loop(d) == /\ \A i \in 1..d : s[i] < now - length
                      /\ d < Len(s) => s[d + 1] >= now - length
           Young == {i \in 1..Len(s) : s[i] >= now - length}
<1>1. \E d \in 0..Len(s) : Loop(d)
  <2>1. CASE Young = {}
    <3>1. Loop(Len(s))
      BY <2>1
    <3> QED  BY <3>1
  <2>2. CASE Young # {}
    <3>1. PICK x \in Young : \A y \in Young : x <= y
      <4>1. Young \subseteq Nat
        OBVIOUS
      <4> HIDE DEF Young
      <4> QED  BY <2>2, <4>1, LeastOf
    <3>2. x - 1 \in 0..Len(s) /\ Loop(x - 1)
      BY <3>1
    <3> QED  BY <3>2
  <2> QED  BY <2>1, <2>2
<1> DEFINE d == CHOOSE d \in 0..Len(s) : Loop(d)
<1>2. d \in 0..Len(s) /\ Loop(d)
  BY <1>1
<1>3. Recent(s, length) = SubSeq(s, d + 1, Len(s))
  BY DEF Recent
<1> HIDE DEF d
<1>4. /\ SubSeq(s, d + 1, Len(s)) \in Seq(Nat)
      /\ Len(SubSeq(s, d + 1, Len(s))) = Len(s) - d
      /\ \A i \in 1..(Len(s) - d) : SubSeq(s, d + 1, Len(s))[i] = s[d + i]
  BY <1>2, SubSeqProperties
<1> QED  BY <1>2, <1>3, <1>4

\* A time added to the end of a history and to an end of it.
LEMMA EndGrows ==
  ASSUME NEW s \in Seq(Nat), NEW h \in Seq(Nat), NEW t \in Nat, EndOf(s, h)
  PROVE  EndOf(Append(s, t), Append(h, t))
<1> DEFINE m == Len(s)
           n == Len(h)
           u == Append(s, t)
           v == Append(h, t)
<1>1. /\ m \in Nat /\ n \in Nat /\ m <= n
      /\ \A i \in 1..m : s[i] = h[n - m + i]
  BY DEF EndOf
<1>2. /\ Len(u) = m + 1 /\ u[m + 1] = t /\ \A i \in 1..m : u[i] = s[i]
      /\ Len(v) = n + 1 /\ v[n + 1] = t /\ \A i \in 1..n : v[i] = h[i]
  OBVIOUS
<1> HIDE DEF m, n, u, v
<1>3. ASSUME NEW i \in 1..(m + 1) PROVE u[i] = v[n - m + i]
  <2>1. CASE i = m + 1
    <3>1. n - m + i = n + 1
      BY <1>1, <2>1
    <3> QED  BY <1>2, <2>1, <3>1
  <2>2. CASE i \in 1..m
    <3>1. n - m + i \in 1..n
      BY <1>1, <2>2
    <3> QED  BY <1>1, <1>2, <2>2, <3>1
  <2> QED  BY <1>1, <2>1, <2>2
<1>4. \A i \in Nat : (n + 1) - (m + 1) + i = n - m + i
  BY <1>1
<1>5. m + 1 <= n + 1 /\ \A i \in 1..(m + 1) : u[i] = v[(n + 1) - (m + 1) + i]
  <2>1. ASSUME NEW i \in 1..(m + 1) PROVE u[i] = v[(n + 1) - (m + 1) + i]
    <3>1. i \in Nat /\ u[i] = v[n - m + i]
      BY <1>1, <1>3
    <3>2. (n + 1) - (m + 1) + i = n - m + i
      BY <1>4, <3>1
    <3> QED  BY <3>1, <3>2
  <2> QED  BY <1>1, <2>1
<1>6. EndOf(u, v)
  BY <1>2, <1>5 DEF EndOf
<1> QED  BY <1>6 DEF u, v

\* What is left of an end of a history when its oldest time goes.
LEMMA EndShrinks ==
  ASSUME NEW s \in Seq(Nat), NEW h \in Seq(Nat), EndOf(s, h), s # <<>>
  PROVE  /\ Tail(s) \in Seq(Nat) /\ Len(Tail(s)) = Len(s) - 1
         /\ EndOf(Tail(s), h)
<1>1. /\ Tail(s) \in Seq(Nat) /\ Len(Tail(s)) = Len(s) - 1
      /\ \A i \in 1..Len(Tail(s)) : Tail(s)[i] = s[i + 1]
  BY HeadTailProperties
<1>2. ASSUME NEW i \in 1..Len(Tail(s))
      PROVE  Tail(s)[i] = h[Len(h) - Len(Tail(s)) + i]
  <2>1. s[i + 1] = h[Len(h) - Len(s) + (i + 1)]
    BY <1>1 DEF EndOf
  <2>2. Len(h) - Len(s) + (i + 1) = Len(h) - Len(Tail(s)) + i
    BY <1>1
  <2> QED  BY <1>1, <2>1, <2>2
<1> QED  BY <1>1, <1>2 DEF EndOf

\* Keep adds a time at the end and loses the oldest only when the table is full.
LEMMA KeepEnds ==
  ASSUME NEW s \in Seq(Nat), NEW t \in Nat
  PROVE  /\ Keep(s, t) \in Seq(Nat)
         /\ Len(Keep(s, t)) \in 1..(Len(s) + 1)
         /\ Len(s) < Kept => Keep(s, t) = Append(s, t)
         /\ \A h \in Seq(Nat) : EndOf(s, h) => EndOf(Keep(s, t), Append(h, t))
<1>1. CASE Len(s) < Kept
  BY <1>1, EndGrows DEF Keep
<1>2. CASE ~(Len(s) < Kept)
  <2>1. s # <<>> /\ Keep(s, t) = Append(Tail(s), t)
    BY <1>2, LimiterAssumption DEF Keep
  <2>2. Tail(s) \in Seq(Nat) /\ Len(Tail(s)) = Len(s) - 1
    BY <2>1, HeadTailProperties
  <2>3. ASSUME NEW h \in Seq(Nat), EndOf(s, h)
        PROVE  EndOf(Append(Tail(s), t), Append(h, t))
    BY <2>1, <2>3, EndShrinks, EndGrows
  <2>4. Append(Tail(s), t) \in Seq(Nat) /\ Len(Append(Tail(s), t)) = Len(s) /\ Len(s) \in 1..(Len(s) + 1)
    BY <2>1, <2>2
  <2> QED  BY <1>2, <2>1, <2>3, <2>4
<1> QED  BY <1>1, <1>2

\* A history grows at its end with the clock.
LEMMA OrderGrows ==
  ASSUME NEW h \in Seq(Nat), now \in Nat, InOrder(h)
  PROVE  Append(h, now) \in Seq(Nat) /\ InOrder(Append(h, now))
  BY DEF InOrder

\* What pruning leaves of the end of a history is an end of it too, and its
\* times are all within the window.
LEMMA RecentEnds ==
  ASSUME NEW h \in Seq(Nat), NEW s \in Seq(Nat), NEW length \in Nat, now \in Nat,
         InOrder(h), EndOf(s, h)
  PROVE  /\ Recent(s, length) \in Seq(Nat) /\ EndOf(Recent(s, length), h)
         /\ \A i \in (Len(h) - Len(Recent(s, length)) + 1)..Len(h) : h[i] >= now - length
         /\ \A i \in (Len(h) - Len(s) + 1)..(Len(h) - Len(Recent(s, length))) : h[i] < now - length
<1> DEFINE r == Recent(s, length)
           gone == Len(h) - Len(s)
<1>1. PICK d \in 0..Len(s) : /\ r \in Seq(Nat) /\ Len(r) = Len(s) - d
                             /\ \A i \in 1..(Len(s) - d) : r[i] = s[d + i]
                             /\ \A i \in 1..d : s[i] < now - length
                             /\ d < Len(s) => s[d + 1] >= now - length
  BY RecentDrops
<1> HIDE DEF r
<1>2. Len(h) - Len(r) = gone + d /\ gone \in Nat
  BY <1>1 DEF EndOf
<1>3. EndOf(r, h)
  BY <1>1, <1>2 DEF EndOf
<1>4. ASSUME NEW i \in (gone + d + 1)..Len(h) PROVE h[i] >= now - length
  <2>1. d < Len(s) /\ s[d + 1] = h[gone + d + 1] /\ gone + d + 1 \in 1..Len(h) /\ i \in 1..Len(h)
    BY <1>2, <1>4 DEF EndOf
  <2>2. PICK m \in 1..Len(h) : m = gone + d + 1
    BY <2>1
  <2>3. h[m] <= h[i] /\ h[m] \in Nat /\ h[i] \in Nat
    <3>1. m <= i /\ m \in DOMAIN h /\ i \in DOMAIN h
      BY <2>1, <2>2, <1>4
    <3> QED  BY <3>1 DEF InOrder
  <2>4. h[m] >= now - length
    BY <1>1, <2>1, <2>2
  <2> QED  BY <2>3, <2>4
<1>5. ASSUME NEW i \in (gone + 1)..(gone + d) PROVE h[i] < now - length
  <2>1. PICK k \in 1..d : i = gone + k
    <3>1. gone \in Nat /\ d \in Nat
      BY <1>2
    <3>2. i - gone \in 1..d /\ i = gone + (i - gone)
      BY <1>5, <3>1
    <3> QED  BY <3>2
  <2>2. k \in 1..Len(s) /\ s[k] = h[gone + k]
    <3>1. k \in 1..Len(s)
      BY <1>1
    <3> QED  BY <3>1 DEF EndOf
  <2> QED  BY <1>1, <2>1, <2>2
<1> QED  BY <1>1, <1>2, <1>3, <1>4, <1>5 DEF r

\* One request at the limiter: its table stays metered, whether the request is
\* turned away or let in.
LEMMA MeterStep ==
  ASSUME NEW s \in Seq(Nat), NEW h \in Seq(Nat), NEW limit \in Nat \ {0}, limit <= Kept,
         now \in Nat, Metered(s, h, limit)
  PROVE  /\ Recent(s, Minute) \in Seq(Nat)
         /\ Metered(Recent(s, Minute), h, limit)
         /\ Len(Recent(s, Minute)) < limit =>
              /\ Keep(Recent(s, Minute), now) \in Seq(Nat) /\ Append(h, now) \in Seq(Nat)
              /\ Metered(Keep(Recent(s, Minute), now), Append(h, now), limit)
<1> DEFINE r == Recent(s, Minute)
           v == Append(h, now)
           u == Append(r, now)
<1>0. Minute \in Nat /\ InOrder(h) /\ EndOf(s, h) /\ Kept \in Nat
  BY LimiterAssumption DEF Metered
<1>1. /\ r \in Seq(Nat) /\ EndOf(r, h)
      /\ \A i \in (Len(h) - Len(s) + 1)..(Len(h) - Len(r)) : h[i] < now - Minute
  BY <1>0, RecentEnds
<1> HIDE DEF r
<1>2. /\ Len(r) \in Nat /\ Len(h) \in Nat /\ Len(s) \in Nat /\ Len(r) <= Len(h) /\ Len(s) <= Len(h)
      /\ \A i \in 1..Len(h) : h[i] \in Nat
  BY <1>0, <1>1 DEF EndOf
<1>3. ASSUME NEW i \in 1..(Len(h) - Len(r)) PROVE h[i] < now - Minute
  <2>1. CASE i <= Len(h) - Len(s)
    <3>1. i \in 1..(Len(h) - Len(s))
      BY <1>2, <2>1
    <3> QED  BY <3>1 DEF Metered
  <2>2. CASE ~(i <= Len(h) - Len(s))
    <3>1. i \in (Len(h) - Len(s) + 1)..(Len(h) - Len(r))
      BY <1>2, <2>2
    <3> QED  BY <1>1, <3>1
  <2> QED  BY <2>1, <2>2
<1>4. Metered(r, h, limit)
  BY <1>0, <1>1, <1>3 DEF Metered
<1>5. ASSUME Len(r) < limit
      PROVE  Keep(r, now) \in Seq(Nat) /\ v \in Seq(Nat) /\ Metered(Keep(r, now), v, limit)
  <2>1. Keep(r, now) = u
    BY <1>0, <1>1, <1>2, <1>5, KeepEnds
  <2>2. /\ v \in Seq(Nat) /\ InOrder(v) /\ Len(v) = Len(h) + 1 /\ v[Len(h) + 1] = now
        /\ \A i \in 1..Len(h) : v[i] = h[i]
    BY <1>0, OrderGrows
  <2>3. u \in Seq(Nat) /\ Len(u) = Len(r) + 1 /\ EndOf(u, v)
    BY <1>1, EndGrows
  <2> HIDE DEF u, v
  <2>4. ASSUME NEW i \in 1..(Len(v) - Len(u)) PROVE v[i] < now - Minute
    <3>1. i \in 1..(Len(h) - Len(r)) /\ i \in 1..Len(h)
      BY <1>2, <2>2, <2>3
    <3> QED  BY <1>3, <2>2, <3>1
  <2>5. ASSUME NEW i \in 1..(Len(v) - limit) PROVE v[i] + Minute < v[i + limit]
    <3>1. CASE i + limit = Len(h) + 1
      <4>1. i \in 1..(Len(h) - Len(r)) /\ i \in 1..Len(h)
        BY <1>2, <1>5, <2>2, <3>1
      <4>2. v[i] = h[i] /\ h[i] < now - Minute /\ h[i] \in Nat
        BY <1>2, <1>3, <2>2, <4>1
      <4>3. v[i + limit] = now
        BY <2>2, <3>1
      <4> QED  BY <1>0, <4>2, <4>3
    <3>2. CASE i + limit # Len(h) + 1
      <4>1. i \in 1..(Len(h) - limit) /\ i \in 1..Len(h) /\ i + limit \in 1..Len(h)
        <5>1. limit \in Nat /\ limit >= 1 /\ i \in Nat /\ i >= 1 /\ i + limit <= Len(h) + 1
          BY <1>2, <2>2
        <5>2. Len(h) \in Nat
          BY <1>2
        <5>3. i + limit <= Len(h)
          BY <3>2, <5>1, <5>2
        <5> QED  BY <5>1, <5>2, <5>3
      <4>2. h[i] + Minute < h[i + limit]
        BY <4>1 DEF Metered
      <4> QED  BY <2>2, <4>1, <4>2
    <3> QED  BY <3>1, <3>2
  <2> QED  BY <2>1, <2>2, <2>3, <2>4, <2>5 DEF Metered
<1> QED  BY <1>1, <1>4, <1>5 DEF r, v

\* Tables with a row for every worker and key.
LEMMA RowSet ==
  ASSUME NEW R, NEW C, NEW F \in [R -> [C -> Seq(Nat)]], NEW g \in R, NEW k \in C,
         NEW s \in Seq(Nat)
  PROVE  /\ [F EXCEPT ![g][k] = s] \in [R -> [C -> Seq(Nat)]]
         /\ [F EXCEPT ![g][k] = s][g][k] = s
         /\ \A h \in R, c \in C : h # g \/ c # k => [F EXCEPT ![g][k] = s][h][c] = F[h][c]
  OBVIOUS

\* _rate_ok looks at one table.
LEMMA RatedElsewhere ==
  ASSUME NEW B, B \in [Gates -> [Keys -> Seq(Nat)]], NEW g \in Gates, NEW k \in Keys,
         NEW c \in Keys, c # k
  PROVE  Rated(B, g, k)[g][c] = B[g][c]
  BY DEF Rated

\* _rate_ok keeps the tables metered.
LEMMA RatedKept ==
  ASSUME now \in Nat, bucket \in [Gates -> [Keys -> Seq(Nat)]],
         NEW B, B \in [Gates -> [Keys -> Seq(Nat)]],
         NEW A, A \in [Gates -> [Keys -> Seq(Nat)]],
         \A h \in Gates : \A c \in Keys : Metered(B[h][c], A[h][c], Limit[c]),
         NEW g \in Gates, NEW k \in Keys, B[g][k] = bucket[g][k]
  PROVE  /\ Rated(B, g, k) \in [Gates -> [Keys -> Seq(Nat)]]
         /\ Let(A, g, k) \in [Gates -> [Keys -> Seq(Nat)]]
         /\ \A h \in Gates : \A c \in Keys :
              Metered(Rated(B, g, k)[h][c], Let(A, g, k)[h][c], Limit[c])
<1> DEFINE s == B[g][k]
           a == A[g][k]
           s1 == IF RateOk(g, k) THEN Keep(Recent(s, Minute), now) ELSE Recent(s, Minute)
           a1 == IF RateOk(g, k) THEN Append(a, now) ELSE a
<1>1. s \in Seq(Nat) /\ a \in Seq(Nat) /\ Metered(s, a, Limit[k])
  OBVIOUS
<1>2. Limit[k] \in Nat \ {0} /\ Limit[k] <= Kept
  BY LimiterAssumption
<1>3. RateOk(g, k) <=> Len(Recent(s, Minute)) < Limit[k]
  BY DEF RateOk
<1>4. s1 \in Seq(Nat) /\ a1 \in Seq(Nat) /\ Metered(s1, a1, Limit[k])
  <2>1. /\ Recent(s, Minute) \in Seq(Nat)
        /\ Metered(Recent(s, Minute), a, Limit[k])
        /\ Len(Recent(s, Minute)) < Limit[k] =>
             /\ Keep(Recent(s, Minute), now) \in Seq(Nat) /\ Append(a, now) \in Seq(Nat)
             /\ Metered(Keep(Recent(s, Minute), now), Append(a, now), Limit[k])
    <3> HIDE DEF s, a
    <3> QED  BY <1>1, <1>2, MeterStep
  <2> QED  BY <1>1, <1>3, <2>1
<1>5. Rated(B, g, k) = [B EXCEPT ![g][k] = s1]
  BY DEF Rated
<1>6. Let(A, g, k) = [A EXCEPT ![g][k] = a1]
  BY DEF Let
<1> HIDE DEF s1, a1
<1>7. /\ [B EXCEPT ![g][k] = s1] \in [Gates -> [Keys -> Seq(Nat)]]
      /\ [B EXCEPT ![g][k] = s1][g][k] = s1
      /\ \A h \in Gates, c \in Keys : h # g \/ c # k => [B EXCEPT ![g][k] = s1][h][c] = B[h][c]
  BY <1>4, RowSet
<1>8. /\ [A EXCEPT ![g][k] = a1] \in [Gates -> [Keys -> Seq(Nat)]]
      /\ [A EXCEPT ![g][k] = a1][g][k] = a1
      /\ \A h \in Gates, c \in Keys : h # g \/ c # k => [A EXCEPT ![g][k] = a1][h][c] = A[h][c]
  BY <1>4, RowSet
<1> QED  BY <1>4, <1>5, <1>6, <1>7, <1>8

\* A failure is added to both the table and the history, or ends both.
LEMMA RecordKept ==
  ASSUME CountInv, now \in Nat, NEW g \in Gates, NEW n \in Names, NEW others, NEW locks,
         RecordFailure(g, n, others, locks)
  PROVE  /\ fails' \in [Gates -> [Names -> Seq(Nat)]]
         /\ misses' \in [Gates -> [Names -> Seq(Nat)]]
         /\ \A h \in Gates : \A m \in Names : Tallied(fails'[h][m], misses'[h][m])
<1> DEFINE full == Len(Counted(g, n)) >= MaxFails
           f == IF full THEN <<>> ELSE Counted(g, n)
           m == IF full THEN <<>> ELSE Append(misses[g][n], now)
<1>1. /\ fails \in [Gates -> [Names -> Seq(Nat)]] /\ misses \in [Gates -> [Names -> Seq(Nat)]]
      /\ \A h \in Gates : \A c \in Names : Tallied(fails[h][c], misses[h][c])
  BY DEF CountInv
<1>2. f \in Seq(Nat) /\ m \in Seq(Nat) /\ Tallied(f, m)
  <2> DEFINE s == fails[g][n]
             t == misses[g][n]
             r == Recent(s, Window)
  <2>1. s \in Seq(Nat) /\ t \in Seq(Nat) /\ InOrder(t) /\ EndOf(s, t) /\ Window \in Nat
    BY <1>1, LimiterAssumption DEF Tallied
  <2> HIDE DEF s, t
  <2>2. r \in Seq(Nat) /\ EndOf(r, t)
    BY <2>1, RecentEnds
  <2>3. Append(t, now) \in Seq(Nat) /\ InOrder(Append(t, now))
    BY <2>1, OrderGrows
  <2>4. Keep(r, now) \in Seq(Nat) /\ EndOf(Keep(r, now), Append(t, now))
    <3> HIDE DEF r
    <3> QED  BY <2>1, <2>2, KeepEnds
  <2>5. Counted(g, n) = Keep(r, now)
    BY DEF Counted, s
  <2>6. <<>> \in Seq(Nat) /\ Tallied(<<>>, <<>>)
    BY DEF Tallied, InOrder, EndOf
  <2> QED  BY <2>3, <2>4, <2>5, <2>6 DEF Tallied, t
<1>3. fails' = [fails EXCEPT ![g][n] = f] /\ misses' = [misses EXCEPT ![g][n] = m]
  BY DEF RecordFailure
<1> HIDE DEF f, m
<1>4. /\ [fails EXCEPT ![g][n] = f] \in [Gates -> [Names -> Seq(Nat)]]
      /\ [fails EXCEPT ![g][n] = f][g][n] = f
      /\ \A h \in Gates, c \in Names : h # g \/ c # n => [fails EXCEPT ![g][n] = f][h][c] = fails[h][c]
  BY <1>1, <1>2, RowSet
<1>5. /\ [misses EXCEPT ![g][n] = m] \in [Gates -> [Names -> Seq(Nat)]]
      /\ [misses EXCEPT ![g][n] = m][g][n] = m
      /\ \A h \in Gates, c \in Names : h # g \/ c # n => [misses EXCEPT ![g][n] = m][h][c] = misses[h][c]
  BY <1>1, <1>2, RowSet
<1> QED  BY <1>1, <1>2, <1>3, <1>4, <1>5

LEMMA ClearKept ==
  ASSUME CountInv, NEW g \in Gates, NEW n \in Names, ClearFailures(g, n)
  PROVE  /\ fails' \in [Gates -> [Names -> Seq(Nat)]]
         /\ misses' \in [Gates -> [Names -> Seq(Nat)]]
         /\ \A h \in Gates : \A m \in Names : Tallied(fails'[h][m], misses'[h][m])
<1>1. /\ fails \in [Gates -> [Names -> Seq(Nat)]] /\ misses \in [Gates -> [Names -> Seq(Nat)]]
      /\ \A h \in Gates : \A c \in Names : Tallied(fails[h][c], misses[h][c])
  BY DEF CountInv
<1>2. <<>> \in Seq(Nat) /\ Tallied(<<>>, <<>>)
  BY DEF Tallied, InOrder, EndOf
<1>3. fails' = [fails EXCEPT ![g][n] = <<>>] /\ misses' = [misses EXCEPT ![g][n] = <<>>]
  BY DEF ClearFailures
<1> QED  BY <1>1, <1>2, <1>3, RowSet

\* The clock enters Metered and Tallied: they are kept as it moves on.
LEMMA TimePasses ==
  ASSUME now \in Nat, now' \in Nat, now <= now'
  PROVE  /\ \A h \in Seq(Nat) : InOrder(h) => InOrder(h)'
         /\ \A s \in Seq(Nat) : \A h \in Seq(Nat) : \A m \in Nat : Metered(s, h, m) => Metered(s, h, m)'
         /\ \A s \in Seq(Nat) : \A h \in Seq(Nat) : Tallied(s, h) => Tallied(s, h)'
<1>1. ASSUME NEW h \in Seq(Nat), InOrder(h) PROVE InOrder(h)'
  <2>1. \A i \in DOMAIN h : h[i] \in Nat /\ h[i] <= now
    BY <1>1 DEF InOrder
  <2>2. \A i \in DOMAIN h : h[i] <= now'
    BY <2>1
  <2> QED  BY <1>1, <2>2 DEF InOrder
<1>2. ASSUME NEW s \in Seq(Nat), NEW h \in Seq(Nat), NEW m \in Nat, Metered(s, h, m)
      PROVE  Metered(s, h, m)'
  <2>1. \A i \in 1..(Len(h) - Len(s)) : h[i] < now' - Minute
    <3> SUFFICES ASSUME NEW i \in 1..(Len(h) - Len(s)) PROVE h[i] < now' - Minute
      OBVIOUS
    <3>1. i \in 1..Len(h) /\ h[i] \in Nat
      BY <1>2 DEF Metered, EndOf
    <3>2. h[i] < now - Minute
      BY <1>2 DEF Metered
    <3> QED  BY <3>1, <3>2, LimiterAssumption
  <2> QED  BY <1>1, <1>2, <2>1 DEF Metered, EndOf
<1>3. ASSUME NEW s \in Seq(Nat), NEW h \in Seq(Nat), Tallied(s, h) PROVE Tallied(s, h)'
  BY <1>1, <1>3 DEF Tallied, EndOf
<1> QED  BY <1>1, <1>2, <1>3

LEMMA InitCounts == Init => CountInv
<1> SUFFICES ASSUME Init PROVE CountInv
  OBVIOUS
<1>1. /\ bucket = [g \in Gates |-> [k \in Keys |-> <<>>]] /\ admitted = bucket
      /\ fails = [g \in Gates |-> [n \in Names |-> <<>>]] /\ misses = fails
  BY DEF Init
<1>2. \A limit \in Nat : Metered(<<>>, <<>>, limit)
  BY DEF Metered, InOrder, EndOf
<1>3. <<>> \in Seq(Nat) /\ Tallied(<<>>, <<>>)
  BY DEF Tallied, InOrder, EndOf
<1>4. \A k \in Keys : Limit[k] \in Nat
  BY LimiterAssumption
<1> QED  BY <1>1, <1>2, <1>3, <1>4 DEF CountInv

\* The tables of a state, as the lemmas on steps use them.
LEMMA Counts ==
  ASSUME CountInv
  PROVE  /\ bucket \in [Gates -> [Keys -> Seq(Nat)]] /\ admitted \in [Gates -> [Keys -> Seq(Nat)]]
         /\ fails \in [Gates -> [Names -> Seq(Nat)]] /\ misses \in [Gates -> [Names -> Seq(Nat)]]
         /\ \A h \in Gates : \A c \in Keys : Metered(bucket[h][c], admitted[h][c], Limit[c])
         /\ \A h \in Gates : \A c \in Names : Tallied(fails[h][c], misses[h][c])
  BY DEF CountInv

\* A step that leaves the clock alone and keeps the tables keeps the invariant.
LEMMA CountsOf ==
  ASSUME now' = now,
         bucket' \in [Gates -> [Keys -> Seq(Nat)]], admitted' \in [Gates -> [Keys -> Seq(Nat)]],
         fails' \in [Gates -> [Names -> Seq(Nat)]], misses' \in [Gates -> [Names -> Seq(Nat)]],
         \A h \in Gates : \A c \in Keys : Metered(bucket'[h][c], admitted'[h][c], Limit[c]),
         \A h \in Gates : \A c \in Names : Tallied(fails'[h][c], misses'[h][c])
  PROVE  CountInv'
  BY DEF CountInv, Metered, Tallied, InOrder, EndOf

\* A request at one limiter.
LEMMA OneRated ==
  ASSUME CountInv, now \in Nat, NEW g \in Gates, NEW k \in Keys,
         bucket' = Rated(bucket, g, k), admitted' = Let(admitted, g, k)
  PROVE  /\ bucket' \in [Gates -> [Keys -> Seq(Nat)]]
         /\ admitted' \in [Gates -> [Keys -> Seq(Nat)]]
         /\ \A h \in Gates : \A c \in Keys : Metered(bucket'[h][c], admitted'[h][c], Limit[c])
  BY Counts, RatedKept

LEMMA AdmitCounts ==
  ASSUME CountInv, now \in Nat, now' = now, NEW r, NEW g \in Gates, NEW l, l.ip \in Addresses,
         Admit(r, g, l), UNCHANGED <<fails, misses>>
  PROVE  CountInv'
<1>1. l.ip \in Keys /\ bucket' = Rated(bucket, g, l.ip) /\ admitted' = Let(admitted, g, l.ip)
  BY DEF Keys, Admit
<1>2. /\ bucket' \in [Gates -> [Keys -> Seq(Nat)]] /\ admitted' \in [Gates -> [Keys -> Seq(Nat)]]
      /\ \A h \in Gates : \A c \in Keys : Metered(bucket'[h][c], admitted'[h][c], Limit[c])
  BY <1>1, OneRated
<1>3. /\ fails' \in [Gates -> [Names -> Seq(Nat)]] /\ misses' \in [Gates -> [Names -> Seq(Nat)]]
      /\ \A h \in Gates : \A c \in Names : Tallied(fails'[h][c], misses'[h][c])
  BY Counts
<1> QED  BY <1>2, <1>3, CountsOf

\* A step that touches none of the tables.
LEMMA CountsSame ==
  ASSUME CountInv, UNCHANGED <<now, bucket, admitted, fails, misses>>
  PROVE  CountInv'
<1>1. /\ \A h \in Gates : \A c \in Keys : Metered(bucket'[h][c], admitted'[h][c], Limit[c])
      /\ \A h \in Gates : \A c \in Names : Tallied(fails'[h][c], misses'[h][c])
  BY Counts
<1> QED  BY <1>1, Counts, CountsOf

\* A step that records a failure, clears the failures, or does neither.
LEMMA FailureCounts ==
  ASSUME CountInv, now \in Nat, now' = now, NEW g \in Gates, NEW n \in Names, NEW others, NEW locks,
         bucket' \in [Gates -> [Keys -> Seq(Nat)]], admitted' \in [Gates -> [Keys -> Seq(Nat)]],
         \A h \in Gates : \A c \in Keys : Metered(bucket'[h][c], admitted'[h][c], Limit[c]),
         \/ RecordFailure(g, n, others, locks)
         \/ ClearFailures(g, n)
         \/ UNCHANGED <<fails, misses>>
  PROVE  CountInv'
<1>1. /\ fails' \in [Gates -> [Names -> Seq(Nat)]] /\ misses' \in [Gates -> [Names -> Seq(Nat)]]
      /\ \A h \in Gates : \A c \in Names : Tallied(fails'[h][c], misses'[h][c])
  <2>1. CASE RecordFailure(g, n, others, locks)
    BY <2>1, RecordKept
  <2>2. CASE ClearFailures(g, n)
    BY <2>2, ClearKept
  <2>3. CASE UNCHANGED <<fails, misses>>
    BY <2>3, Counts
  <2> QED  BY <2>1, <2>2, <2>3
<1> QED  BY <1>1, CountsOf

LEMMA ChatCounts ==
  ASSUME CountInv, now \in Nat, NEW g \in Chat, NEW ip \in Addresses, NEW s \in Sessions,
         ChatMessage(g, ip, s)
  PROVE  CountInv'
<1>1. g \in Gates /\ ip \in Keys /\ s \in Keys /\ s # ip
  BY LimiterAssumption DEF Gates, Keys
<1>2. now' = now /\ UNCHANGED <<fails, misses>>
  BY DEF ChatMessage
<1> DEFINE B == Rated(bucket, g, ip)
           A == Let(admitted, g, ip)
<1>3. /\ B \in [Gates -> [Keys -> Seq(Nat)]] /\ A \in [Gates -> [Keys -> Seq(Nat)]]
      /\ \A h \in Gates : \A c \in Keys : Metered(B[h][c], A[h][c], Limit[c])
      /\ \A c \in Keys : c # ip => B[g][c] = bucket[g][c]
  <2>1. /\ bucket \in [Gates -> [Keys -> Seq(Nat)]] /\ admitted \in [Gates -> [Keys -> Seq(Nat)]]
        /\ \A h \in Gates : \A c \in Keys : Metered(bucket[h][c], admitted[h][c], Limit[c])
    BY Counts
  <2>2. now \in Nat /\ bucket[g][ip] = bucket[g][ip]
    OBVIOUS
  <2>3. /\ Rated(bucket, g, ip) \in [Gates -> [Keys -> Seq(Nat)]]
        /\ Let(admitted, g, ip) \in [Gates -> [Keys -> Seq(Nat)]]
        /\ \A h \in Gates : \A c \in Keys :
             Metered(Rated(bucket, g, ip)[h][c], Let(admitted, g, ip)[h][c], Limit[c])
    BY <1>1, <2>1, <2>2, RatedKept
  <2>4. \A c \in Keys : c # ip => Rated(bucket, g, ip)[g][c] = bucket[g][c]
    BY <1>1, <2>1, RatedElsewhere
  <2> QED  BY <2>3, <2>4
<1>4. CASE RateOk(g, ip)
  <2>1. bucket' = Rated(B, g, s) /\ admitted' = Let(A, g, s)
    BY <1>4 DEF ChatMessage
  <2>2. B[g][s] = bucket[g][s]
    BY <1>1, <1>3
  <2> HIDE DEF B, A
  <2>3. /\ Rated(B, g, s) \in [Gates -> [Keys -> Seq(Nat)]]
        /\ Let(A, g, s) \in [Gates -> [Keys -> Seq(Nat)]]
        /\ \A h \in Gates : \A c \in Keys :
             Metered(Rated(B, g, s)[h][c], Let(A, g, s)[h][c], Limit[c])
    BY <1>1, <1>3, <2>2, Counts, RatedKept
  <2> QED  BY <1>1, <1>2, <2>1, <2>3, FailureCounts, LimiterAssumption
<1>5. CASE ~RateOk(g, ip)
  <2>1. bucket' = B
    BY <1>5 DEF ChatMessage
  <2>2. admitted' = A
    BY <1>5 DEF ChatMessage, Let
  <2> HIDE DEF B, A
  <2> QED  BY <1>1, <1>2, <1>3, <2>1, <2>2, FailureCounts, LimiterAssumption
<1> QED  BY <1>4, <1>5

LEMMA RestartCounts ==
  ASSUME CountInv, NEW g \in Gates, Restart(g)
  PROVE  CountInv'
<1>1. /\ now' = now
      /\ bucket' = [bucket EXCEPT ![g] = [k \in Keys |-> <<>>]]
      /\ admitted' = [admitted EXCEPT ![g] = [k \in Keys |-> <<>>]]
      /\ fails' = [fails EXCEPT ![g] = [n \in Names |-> <<>>]]
      /\ misses' = [misses EXCEPT ![g] = [n \in Names |-> <<>>]]
  BY DEF Restart
<1>2. \A limit \in Nat : Metered(<<>>, <<>>, limit)
  BY DEF Metered, InOrder, EndOf
<1>3. <<>> \in Seq(Nat) /\ Tallied(<<>>, <<>>)
  BY DEF Tallied, InOrder, EndOf
<1>4. \A k \in Keys : Limit[k] \in Nat
  BY LimiterAssumption
<1>5. /\ bucket' \in [Gates -> [Keys -> Seq(Nat)]] /\ admitted' \in [Gates -> [Keys -> Seq(Nat)]]
      /\ \A h \in Gates : \A c \in Keys : Metered(bucket'[h][c], admitted'[h][c], Limit[c])
  BY <1>1, <1>2, <1>3, <1>4, Counts
<1>6. /\ fails' \in [Gates -> [Names -> Seq(Nat)]] /\ misses' \in [Gates -> [Names -> Seq(Nat)]]
      /\ \A h \in Gates : \A c \in Names : Tallied(fails'[h][c], misses'[h][c])
  BY <1>1, <1>3, Counts
<1> QED  BY <1>1, <1>5, <1>6, CountsOf

LEMMA TickCounts ==
  ASSUME CountInv, now \in Nat, Tick
  PROVE  CountInv'
<1>1. /\ now' = now + 1 /\ UNCHANGED <<bucket, admitted, fails, misses>>
  BY DEF Tick
<1>2. \A s \in Seq(Nat) : \A h \in Seq(Nat) : \A m \in Nat : Metered(s, h, m) => Metered(s, h, m)'
  BY <1>1, TimePasses
<1>3. \A s \in Seq(Nat) : \A h \in Seq(Nat) : Tallied(s, h) => Tallied(s, h)'
  BY <1>1, TimePasses
<1>4. \A k \in Keys : Limit[k] \in Nat
  BY LimiterAssumption
<1>5. /\ \A h \in Gates : \A c \in Keys : Metered(bucket[h][c], admitted[h][c], Limit[c])'
  <2> SUFFICES ASSUME NEW h \in Gates, NEW c \in Keys
               PROVE  Metered(bucket[h][c], admitted[h][c], Limit[c])'
    OBVIOUS
  <2>1. PICK s \in Seq(Nat), a \in Seq(Nat) : s = bucket[h][c] /\ a = admitted[h][c]
    BY Counts
  <2>2. Metered(s, a, Limit[c])
    BY <2>1, Counts
  <2>3. Metered(s, a, Limit[c])'
    BY <1>2, <1>4, <2>2
  <2> QED  BY <1>1, <2>1, <2>3
<1>6. \A h \in Gates : \A c \in Names : Tallied(fails[h][c], misses[h][c])'
  <2> SUFFICES ASSUME NEW h \in Gates, NEW c \in Names
               PROVE  Tallied(fails[h][c], misses[h][c])'
    OBVIOUS
  <2>1. PICK s \in Seq(Nat), a \in Seq(Nat) : s = fails[h][c] /\ a = misses[h][c]
    BY Counts
  <2>2. Tallied(s, a)
    BY <2>1, Counts
  <2>3. Tallied(s, a)'
    BY <1>3, <2>2
  <2> QED  BY <1>1, <2>1, <2>3
<1>7. /\ bucket' \in [Gates -> [Keys -> Seq(Nat)]] /\ admitted' \in [Gates -> [Keys -> Seq(Nat)]]
      /\ fails' \in [Gates -> [Names -> Seq(Nat)]] /\ misses' \in [Gates -> [Names -> Seq(Nat)]]
  BY <1>1, Counts
<1> QED  BY <1>5, <1>6, <1>7 DEF CountInv

\* Every step keeps the tables true to what was let in and what failed.
LEMMA CountsKept == LockInv /\ CountInv /\ [Next]_vars => CountInv'
<1> SUFFICES ASSUME LockInv, CountInv, [Next]_vars PROVE CountInv'
  OBVIOUS
<1>0. now \in Nat /\ Portal \subseteq Gates /\ Console \subseteq Gates /\ Addresses \subseteq Keys
  BY DEF LockInv, TypeOK, Gates, Keys
<1>1. ASSUME NEW r \in Requests, NEW g \in Portal, NEW ip \in Addresses, NEW n \in Names,
             NEW right \in BOOLEAN, Arrive(r, g, ip, n, right)
      PROVE  CountInv'
  <2> DEFINE l == [stage |-> "seeding", gate |-> g, ip |-> ip, name |-> n, right |-> right,
                   missing |-> Admin \notin accounts]
  <2>1. now' = now /\ UNCHANGED <<fails, misses>> /\ l.ip \in Addresses /\ g \in Gates
    BY <1>0, <1>1 DEF Arrive
  <2>2. CASE Admit(r, g, l)
    <3> HIDE DEF l
    <3> QED  BY <1>0, <2>1, <2>2, AdmitCounts
  <2>3. CASE UNCHANGED <<bucket, admitted, lock>>
    BY <2>1, <2>3, CountsSame
  <2> QED  BY <1>1, <2>2, <2>3 DEF Arrive
<1>2. ASSUME NEW r \in Requests, SeedCommits(r) PROVE CountInv'
  <2>1. req[r] \in Login /\ req[r].gate \in Gates /\ req[r].ip \in Addresses
    BY <1>0, <1>2 DEF SeedCommits, LockInv, TypeOK, Login
  <2>2. now' = now /\ UNCHANGED <<fails, misses>> /\ Admit(r, req[r].gate, req[r])
    BY <1>2 DEF SeedCommits
  <2> QED  BY <1>0, <2>1, <2>2, AdmitCounts
<1>3. ASSUME NEW r \in Requests, SeedFails(r) PROVE CountInv'
  BY <1>3, CountsSame DEF SeedFails
<1>4. ASSUME NEW r \in Requests, Evaluate(r) PROVE CountInv'
  <2>1. req[r].gate \in Gates /\ req[r].name \in Names
    BY <1>0, <1>4 DEF Evaluate, LockInv, TypeOK, Login
  <2>2. now' = now /\ UNCHANGED <<bucket, admitted>>
    BY <1>4 DEF Evaluate
  <2>3. \/ RecordFailure(req[r].gate, req[r].name, UnderWay(req[r].gate, req[r].name) \ {r}, lock)
        \/ ClearFailures(req[r].gate, req[r].name)
        \/ UNCHANGED <<fails, misses>>
    BY <1>4 DEF Evaluate
  <2>4. /\ bucket' \in [Gates -> [Keys -> Seq(Nat)]] /\ admitted' \in [Gates -> [Keys -> Seq(Nat)]]
        /\ \A h \in Gates : \A c \in Keys : Metered(bucket'[h][c], admitted'[h][c], Limit[c])
    BY <2>2, Counts
  <2> QED  BY <1>0, <2>1, <2>2, <2>3, <2>4, FailureCounts
<1>5. ASSUME NEW g \in Console, NEW ip \in Addresses, NEW n \in Names,
             NEW right \in BOOLEAN, ConsoleLogin(g, ip, n, right)
      PROVE  CountInv'
  <2>1. /\ now' = now /\ g \in Gates /\ ip \in Keys
        /\ bucket' = Rated(bucket, g, ip) /\ admitted' = Let(admitted, g, ip)
    BY <1>0, <1>5 DEF ConsoleLogin
  <2>2. \/ RecordFailure(g, n, {}, Unlocked(g, n))
        \/ ClearFailures(g, n)
        \/ UNCHANGED <<fails, misses>>
    BY <1>5 DEF ConsoleLogin
  <2>3. /\ bucket' \in [Gates -> [Keys -> Seq(Nat)]] /\ admitted' \in [Gates -> [Keys -> Seq(Nat)]]
        /\ \A h \in Gates : \A c \in Keys : Metered(bucket'[h][c], admitted'[h][c], Limit[c])
    BY <1>0, <2>1, OneRated
  <2> QED  BY <1>0, <2>1, <2>2, <2>3, FailureCounts
<1>6. ASSUME NEW g \in Chat, NEW ip \in Addresses, NEW s \in Sessions, ChatMessage(g, ip, s)
      PROVE  CountInv'
  BY <1>0, <1>6, ChatCounts
<1>7. ASSUME NEW g \in Gates, Restart(g) PROVE CountInv'
  BY <1>7, RestartCounts
<1>8. CASE Tick
  BY <1>0, <1>8, TickCounts
<1>9. CASE UNCHANGED vars
  BY <1>9, CountsSame DEF vars
<1> QED  BY <1>1, <1>2, <1>3, <1>4, <1>5, <1>6, <1>7, <1>8, <1>9 DEF Next

\* The inductive invariant of the limiters holds however many workers, names
\* and requests there are, and whatever the limits (auth.py, cms.py, chatbot.py).
THEOREM LimiterInvariant == Spec => []IndInv
<1>1. Init => IndInv
  BY InitLocks, InitCounts DEF IndInv
<1>2. IndInv /\ [Next]_vars => IndInv'
  BY LocksKept, CountsKept DEF IndInv
<1> QED  BY <1>1, <1>2, PTL DEF Spec

\* Times that are in order and of which one and the limit-th after it are more
\* than a minute apart: at most limit of them fall in a minute.
LEMMA MinuteHolds ==
  ASSUME NEW a \in Seq(Nat), NEW limit \in Nat \ {0}, NEW t \in Nat, Minute \in Nat,
         \A i, j \in DOMAIN a : i <= j => a[i] <= a[j],
         \A i \in 1..(Len(a) - limit) : a[i] + Minute < a[i + limit]
  PROVE  Cardinality({i \in DOMAIN a : a[i] \in t..(t + Minute)}) <= limit
<1> DEFINE T == {i \in DOMAIN a : a[i] \in t..(t + Minute)}
<1>1. T \subseteq Nat /\ DOMAIN a = 1..Len(a) /\ Len(a) \in Nat /\ limit \in Nat /\ limit >= 1
  OBVIOUS
<1>2. CASE T = {}
  BY <1>1, <1>2, FS_EmptySet
<1>3. CASE T # {}
  <2>1. PICK m \in T : \A i \in T : m <= i
    <3> HIDE DEF T
    <3> QED  BY <1>1, <1>3, LeastOf
  <2>2. T \subseteq m..(m + limit - 1)
    <3> SUFFICES ASSUME NEW i \in T PROVE i <= m + limit - 1
      BY <1>1, <2>1
    <3> SUFFICES ASSUME m + limit <= i PROVE FALSE
      BY <1>1, <2>1
    <3>1. /\ m \in 1..Len(a) /\ i \in 1..Len(a) /\ a[m] \in Nat /\ a[i] \in Nat
          /\ t <= a[m] /\ a[i] <= t + Minute
      BY <1>1
    <3>2. m \in 1..(Len(a) - limit) /\ m + limit \in 1..Len(a)
      BY <1>1, <3>1
    <3>3. a[m] + Minute < a[m + limit] /\ a[m + limit] <= a[i] /\ a[m + limit] \in Nat
      BY <1>1, <3>1, <3>2
    <3> QED  BY <3>1, <3>3
  <2>3. /\ IsFiniteSet(m..(m + limit - 1)) /\ Cardinality(m..(m + limit - 1)) = limit
    <3>1. m \in Int /\ m + limit - 1 \in Int /\ ~(m > m + limit - 1) /\ (m + limit - 1) - m + 1 = limit
      BY <1>1, <2>1
    <3> QED  BY <3>1, FS_Interval
  <2>4. Cardinality(T) <= limit
    <3> HIDE DEF T
    <3> QED  BY <2>2, <2>3, FS_Subset
  <2> QED  BY <2>4
<1> QED  BY <1>2, <1>3

\* In every minute of a worker's life it lets at most Limit requests of one
\* address, or messages of one session, in (_rate_ok, _check_rate_limit).
THEOREM RateIsKept == Spec => []RateKept
<1>1. IndInv => RateKept
  <2> SUFFICES ASSUME IndInv, NEW g \in Gates, NEW k \in Keys, NEW t \in 0..MaxTime
               PROVE  Cardinality({i \in DOMAIN admitted[g][k] :
                                     admitted[g][k][i] \in t..(t + Minute)}) <= Limit[k]
    BY DEF RateKept
  <2> DEFINE a == admitted[g][k]
  <2>1. a \in Seq(Nat) /\ Metered(bucket[g][k], a, Limit[k])
    BY Counts DEF IndInv
  <2>2. Limit[k] \in Nat \ {0} /\ Minute \in Nat /\ t \in Nat
    BY LimiterAssumption
  <2> HIDE DEF a
  <2>3. /\ \A i, j \in DOMAIN a : i <= j => a[i] <= a[j]
        /\ \A i \in 1..(Len(a) - Limit[k]) : a[i] + Minute < a[i + Limit[k]]
    BY <2>1 DEF Metered, InOrder
  <2>4. Cardinality({i \in DOMAIN a : a[i] \in t..(t + Minute)}) <= Limit[k]
    BY <2>1, <2>2, <2>3, MinuteHolds
  <2> QED  BY <2>4 DEF a
<1> QED  BY <1>1, LimiterInvariant, PTL

\* The failures that are counted are failures within the window.
LEMMA FailuresCount ==
  ASSUME NEW s \in Seq(Nat), NEW h \in Seq(Nat), Tallied(s, h), now \in Nat,
         Len(Keep(Recent(s, Window), now)) >= MaxFails
  PROVE  Cardinality({i \in DOMAIN h : h[i] >= now - Window}) + 1 >= MaxFails
<1> DEFINE r == Recent(s, Window)
           T == {i \in DOMAIN h : h[i] >= now - Window}
           n == Len(h)
<1>0. Window \in Nat /\ MaxFails \in Nat /\ InOrder(h) /\ EndOf(s, h)
  BY LimiterAssumption DEF Tallied
<1>1. /\ r \in Seq(Nat) /\ EndOf(r, h)
      /\ \A i \in (n - Len(r) + 1)..n : h[i] >= now - Window
  BY <1>0, RecentEnds
<1>2. Len(Keep(r, now)) \in 1..(Len(r) + 1)
  <2> HIDE DEF r
  <2> QED  BY <1>1, KeepEnds
<1>3. Len(Keep(r, now)) >= MaxFails
  OBVIOUS
<1> HIDE DEF r
<1>4. Len(r) \in Nat /\ n \in Nat /\ Len(r) <= n /\ DOMAIN h = 1..n
  BY <1>1 DEF EndOf
<1> DEFINE W == (n - Len(r) + 1)..n
<1>5. W \subseteq T
  <2> SUFFICES ASSUME NEW i \in W PROVE i \in T
    OBVIOUS
  <2>1. i \in 1..n
    BY <1>4
  <2> QED  BY <1>1, <1>4, <2>1
<1>6. IsFiniteSet(T)
  <2>1. T \subseteq 1..n /\ IsFiniteSet(1..n)
    BY <1>4, FS_Interval
  <2> HIDE DEF T
  <2> QED  BY <2>1, FS_Subset
<1>7. Cardinality(W) = Len(r)
  <2>1. n - Len(r) + 1 \in Int /\ n \in Int /\ n - (n - Len(r) + 1) + 1 = Len(r)
    BY <1>4
  <2>2. n - Len(r) + 1 > n <=> Len(r) = 0
    BY <1>4
  <2> QED  BY <2>1, <2>2, FS_Interval
<1>8. Len(r) <= Cardinality(T) /\ Cardinality(T) \in Nat
  <2> HIDE DEF T, W
  <2>1. Cardinality(T) \in Nat
    BY <1>6, FS_CardinalityType
  <2>2. Cardinality(W) <= Cardinality(T)
    BY <1>5, <1>6, FS_Subset
  <2> QED  BY <1>7, <2>1, <2>2
<1>9. MaxFails <= Len(r) + 1
  BY <1>0, <1>2, <1>3, <1>4
<1> QED  BY <1>0, <1>4, <1>8, <1>9

\* Recording a failure locks the name only when there are enough of them; the
\* other locks are as the check of the lock left them.
LEMMA RecordLocks ==
  ASSUME IndInv, NEW g \in Gates, NEW n \in Names, NEW others,
         NEW locks, locks \in [Gates -> [Names -> Nat]],
         \A h \in Gates : \A m \in Names : locks[h][m] \in {0, lock[h][m]},
         RecordFailure(g, n, others, locks),
         NEW h \in Gates, NEW m \in Names, lock'[h][m] > now, lock'[h][m] # lock[h][m]
  PROVE  Cardinality({i \in DOMAIN misses[h][m] : misses[h][m][i] >= now - Window}) + 1 >= MaxFails
<1>0. now \in Nat
  BY DEF IndInv, LockInv, TypeOK
<1>1. Len(Counted(g, n)) >= MaxFails
  <2> SUFFICES ASSUME ~(Len(Counted(g, n)) >= MaxFails) PROVE FALSE
    OBVIOUS
  <2>1. lock' = locks
    BY DEF RecordFailure
  <2> QED  BY <1>0, <2>1
<1>2. h = g /\ m = n
  <2> SUFFICES ASSUME h # g \/ m # n PROVE FALSE
    OBVIOUS
  <2>1. lock' = [locks EXCEPT ![g][n] = now + Window]
    BY <1>1 DEF RecordFailure
  <2>2. lock'[h][m] = locks[h][m]
    BY <2>1
  <2> QED  BY <1>0, <2>2
<1>3. Len(Keep(Recent(fails[h][m], Window), now)) >= MaxFails
  BY <1>1, <1>2 DEF Counted
<1>4. fails[h][m] \in Seq(Nat) /\ misses[h][m] \in Seq(Nat) /\ Tallied(fails[h][m], misses[h][m])
  BY Counts DEF IndInv
<1> QED  BY <1>0, <1>3, <1>4, FailuresCount

\* A name is locked only after MaxFails failures within the window, with no
\* success among them (_record_login_failure, _clear_login_failures).
THEOREM LocksAreEarned == Spec => LockEarned
<1> DEFINE Earned ==
      \A g \in Gates, n \in Names :
        lock'[g][n] > now /\ lock'[g][n] # lock[g][n] =>
          Cardinality({i \in DOMAIN misses[g][n] : misses[g][n][i] >= now - Window}) + 1
            >= MaxFails
<1>1. ASSUME IndInv, [Next]_vars, NEW h \in Gates, NEW m \in Names,
             lock'[h][m] > now, lock'[h][m] # lock[h][m]
      PROVE  Cardinality({i \in DOMAIN misses[h][m] : misses[h][m][i] >= now - Window}) + 1
               >= MaxFails
  <2>0. /\ now \in Nat /\ lock \in [Gates -> [Names -> Nat]] /\ ~(0 > now)
        /\ Portal \subseteq Gates /\ Console \subseteq Gates
    BY <1>1 DEF IndInv, LockInv, TypeOK, Gates
  <2>1. ASSUME NEW r, NEW g \in Gates, NEW l, Admit(r, g, l) PROVE FALSE
    <3>1. lock' = lock \/ lock' = [lock EXCEPT ![g][l.name] = IF Stands(g, l.name) THEN @ ELSE 0]
      BY <2>1 DEF Admit, Unlocked
    <3>2. lock'[h][m] \in {0, lock[h][m]}
      BY <2>0, <3>1
    <3> QED  BY <1>1, <2>0, <3>2
  <2>2. ASSUME lock' = lock PROVE FALSE
    BY <1>1, <2>2
  <2>3. ASSUME NEW g \in Gates, NEW n \in Names, ClearFailures(g, n) PROVE FALSE
    <3>1. lock'[h][m] \in {0, lock[h][m]}
      BY <2>0, <2>3 DEF ClearFailures
    <3> QED  BY <1>1, <2>0, <3>1
  <2>4. ASSUME NEW r \in Requests, NEW g \in Portal, NEW ip \in Addresses, NEW n \in Names,
               NEW right \in BOOLEAN, Arrive(r, g, ip, n, right)
        PROVE  FALSE
    BY <2>0, <2>1, <2>2, <2>4 DEF Arrive
  <2>5. ASSUME NEW r \in Requests, SeedCommits(r) PROVE FALSE
    <3>1. req[r].gate \in Gates
      BY <1>1, <2>0, <2>5 DEF SeedCommits, IndInv, LockInv, TypeOK, Login
    <3> QED  BY <2>1, <2>5, <3>1 DEF SeedCommits
  <2>6. ASSUME NEW r \in Requests, Evaluate(r)
        PROVE  Cardinality({i \in DOMAIN misses[h][m] : misses[h][m][i] >= now - Window}) + 1
                 >= MaxFails
    <3>1. req[r].gate \in Gates /\ req[r].name \in Names
      BY <1>1, <2>0, <2>6 DEF Evaluate, IndInv, LockInv, TypeOK, Login
    <3>2. RecordFailure(req[r].gate, req[r].name, UnderWay(req[r].gate, req[r].name) \ {r}, lock)
      BY <2>2, <2>3, <2>6, <3>1 DEF Evaluate
    <3>3. \A g \in Gates : \A n \in Names : lock[g][n] \in {0, lock[g][n]}
      OBVIOUS
    <3> QED  BY <1>1, <2>0, <3>1, <3>2, <3>3, RecordLocks
  <2>7. ASSUME NEW g \in Console, NEW ip \in Addresses, NEW n \in Names,
               NEW right \in BOOLEAN, ConsoleLogin(g, ip, n, right)
        PROVE  Cardinality({i \in DOMAIN misses[h][m] : misses[h][m][i] >= now - Window}) + 1
                 >= MaxFails
    <3>1. g \in Gates
      BY <2>0
    <3>2. RecordFailure(g, n, {}, Unlocked(g, n))
      BY <2>2, <2>3, <2>7, <3>1 DEF ConsoleLogin
    <3>3. /\ Unlocked(g, n) \in [Gates -> [Names -> Nat]]
          /\ \A k \in Gates : \A c \in Names : Unlocked(g, n)[k][c] \in {0, lock[k][c]}
      BY <2>0, <3>1 DEF Unlocked
    <3> QED  BY <1>1, <3>1, <3>2, <3>3, RecordLocks
  <2>8. ASSUME NEW g \in Gates, Restart(g) PROVE FALSE
    <3>1. lock'[h][m] \in {0, lock[h][m]}
      BY <2>0, <2>8 DEF Restart
    <3> QED  BY <1>1, <2>0, <3>1
  <2>9. CASE UNCHANGED vars
    BY <2>2, <2>9 DEF vars
  <2> QED  BY <1>1, <2>2, <2>4, <2>5, <2>6, <2>7, <2>8, <2>9
             DEF Next, SeedFails, ChatMessage, Tick
<1>2. IndInv /\ [Next]_vars => [Earned]_vars
  <2> SUFFICES ASSUME IndInv, [Next]_vars PROVE Earned
    OBVIOUS
  <2> QED  BY <1>1
<1> QED  BY <1>2, LimiterInvariant, PTL DEF Spec, LockEarned
=============================================================================
