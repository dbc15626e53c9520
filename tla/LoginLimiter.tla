---------------------------- MODULE LoginLimiter ----------------------------
(* The in-memory limiters in front of the portal login (routers/auth.py),   *)
(* the console login (routers/cms.py) and the chatbot (routers/chatbot.py). *)
(* Each worker process has its own: a gate.  The portal login awaits the    *)
(* database between the check of the lock and the recording of a failure,   *)
(* and seeds the administrator's account on the first request.              *)
(* Times are in ticks, of which a second has several: what is left of a     *)
(* lock is a whole number of seconds, and less than one is none.            *)
EXTENDS Integers, Sequences, FiniteSets

CONSTANTS Portal, Console, Chat,  \* gates: the workers' limiters of each kind
          Addresses,              \* client addresses
          Sessions,               \* sessions of the chatbot
          Names,                  \* account names tried
          Admin,                  \* the account that is seeded
          Editor,                 \* the one account of the console
          Existing,               \* accounts in the database from the start
          Blocked,                \* those that are inactive or not verified
          Requests,               \* concurrent portal logins
          Limit,                  \* requests admitted per minute, by key
          Kept,                   \* maxlen of a bucket
          Second,                 \* ticks of the clock in a second
          Minute, Window,         \* the sliding window, LOGIN_LOCKOUT_MINUTES, in ticks
          MaxFails,               \* LOGIN_MAX_FAILS
          MaxTime, MaxAttempts, MaxRestarts  \* bounds

Gates == Portal \cup Console \cup Chat
Keys == Addresses \cup Sessions

ASSUME LimiterAssumption ==
  /\ Limit \in [Keys -> Nat \ {0}]
  /\ Kept \in Nat \ {0} /\ \A k \in Keys : Limit[k] <= Kept
  /\ Second \in Nat \ {0} /\ Minute \in Nat \ {0} /\ Window \in Nat \ {0} /\ MaxFails \in Nat \ {0}
  /\ MaxTime \in Nat /\ MaxAttempts \in Nat /\ MaxRestarts \in Nat
  /\ {Admin, Editor} \subseteq Names /\ Existing \subseteq Names /\ Blocked \subseteq Existing
  /\ Portal \cap (Console \cup Chat) = {} /\ Addresses \cap Sessions = {}

VARIABLES now,       \* the clock, in ticks
          bucket,    \* bucket[g][k]: times of the requests let in
          fails,     \* fails[g][n]: times of the failures that count
          lock,      \* lock[g][n]: when the lock of n ends; 0 for none
          seeded,    \* seeded[g]: the worker's _seeded
          accounts,  \* rows of the table of users
          req,       \* portal logins under way
          attempts, restarts,
          admitted,  \* history: admitted[g][k]: times of the requests let in
          misses,    \* history: failures of n since it last succeeded or was locked
          before,    \* history: logins of n under way when it was locked
          fault      \* history: a seed of g was lost to a database error

vars == <<now, bucket, fails, lock, seeded, accounts, req, attempts, restarts,
          admitted, misses, before, fault>>

Idle == [stage |-> "idle"]

Login == [stage: {"seeding", "checked"}, gate: Portal, ip: Addresses, name: Names,
          right: BOOLEAN, missing: BOOLEAN]

\* What the tables of times hold is said by CountInv.
TypeOK ==
  /\ now \in Nat \ {0}
  /\ lock \in [Gates -> [Names -> Nat]]
  /\ seeded \in [Gates -> BOOLEAN] /\ fault \in [Gates -> BOOLEAN]
  /\ accounts \subseteq Names
  /\ req \in [Requests -> {Idle} \cup Login]
  /\ before \in [Gates -> [Names -> SUBSET Requests]]

Init ==
  /\ now = 1
  /\ bucket = [g \in Gates |-> [k \in Keys |-> <<>>]] /\ admitted = bucket
  /\ fails = [g \in Gates |-> [n \in Names |-> <<>>]] /\ misses = fails
  /\ lock = [g \in Gates |-> [n \in Names |-> 0]]
  /\ seeded = [g \in Gates |-> FALSE] /\ fault = [g \in Gates |-> FALSE]
  /\ accounts = Existing
  /\ req = [r \in Requests |-> Idle]
  /\ before = [g \in Gates |-> [n \in Names |-> {}]]
  /\ attempts = 0 /\ restarts = 0

-----------------------------------------------------------------------------
(* The operations on the tables of a gate *)

\* Variant: a request leaves the window as the minute ends, not after it.
Recent_Early(s, length) ==
  LET d == CHOOSE d \in 0..Len(s) : /\ \A i \in 1..d : s[i] <= now - length
                                    /\ d < Len(s) => s[d + 1] > now - length
  IN SubSeq(s, d + 1, Len(s))

\* The loop drops what is older than the window from the front, and stops at
\* the first time that is not.
Recent(s, length) ==
  LET d == CHOOSE d \in 0..Len(s) : /\ \A i \in 1..d : s[i] < now - length
                                    /\ d < Len(s) => s[d + 1] >= now - length
  IN SubSeq(s, d + 1, Len(s))

\* deque(maxlen): an append to a full deque drops the oldest.
Keep(s, t) == IF Len(s) < Kept THEN Append(s, t) ELSE Append(Tail(s), t)

RateOk(g, k) == Len(Recent(bucket[g][k], Minute)) < Limit[k]

\* Variant: a request that is refused is counted too.
Rated_Refused(b, g, k) == [b EXCEPT ![g][k] = Keep(Recent(@, Minute), now)]

\* _rate_ok: prune, and count the request if it is let in.
Rated(b, g, k) ==
  [b EXCEPT ![g][k] = IF RateOk(g, k) THEN Keep(Recent(@, Minute), now) ELSE Recent(@, Minute)]

Let(a, g, k) == IF RateOk(g, k) THEN [a EXCEPT ![g][k] = Append(@, now)] ELSE a

Stands(g, n) == lock[g][n] > now

\* What _lock_seconds_remaining returns: the whole seconds that are left.
Remaining(g, n) == IF Stands(g, n) THEN (lock[g][n] - now) \div Second ELSE 0

Locked(g, n) == Remaining(g, n) # 0

\* _lock_seconds_remaining also forgets a lock that has ended.
Unlocked(g, n) == [lock EXCEPT ![g][n] = IF Stands(g, n) THEN @ ELSE 0]

UnderWay(g, n) ==
  {r \in Requests : req[r] # Idle /\ req[r].stage = "checked" /\ req[r].gate = g /\ req[r].name = n}

\* Variant: failures are counted however old they are.
Counted_Forever(g, n) == Append(fails[g][n], now)

Counted(g, n) == Keep(Recent(fails[g][n], Window), now)

\* _record_login_failure, for a login that ends and leaves others under way.
RecordFailure(g, n, others, locks) ==
  LET full == Len(Counted(g, n)) >= MaxFails IN
  /\ fails' = [fails EXCEPT ![g][n] = IF full THEN <<>> ELSE Counted(g, n)]
  /\ lock' = IF full THEN [locks EXCEPT ![g][n] = now + Window] ELSE locks
  /\ misses' = [misses EXCEPT ![g][n] = IF full THEN <<>> ELSE Append(@, now)]
  /\ before' = IF full THEN [before EXCEPT ![g][n] = others] ELSE before

\* _clear_login_failures
ClearFailures(g, n) ==
  /\ fails' = [fails EXCEPT ![g][n] = <<>>]
  /\ lock' = [lock EXCEPT ![g][n] = 0]
  /\ misses' = [misses EXCEPT ![g][n] = <<>>]
  /\ UNCHANGED before

-----------------------------------------------------------------------------
(* The portal login *)

\* Variant: the lock is not looked at.
Passes_Locked(g, l) == RateOk(g, l.ip)

\* The throttle, then the lock; what the request waits for next.
Passes(g, l) == RateOk(g, l.ip) /\ ~Locked(g, l.name)

Admit(r, g, l) ==
  /\ bucket' = Rated(bucket, g, l.ip)
  /\ admitted' = Let(admitted, g, l.ip)
  /\ lock' = IF RateOk(g, l.ip) THEN Unlocked(g, l.name) ELSE lock
  /\ req' = [req EXCEPT ![r] = IF Passes(g, l) THEN [l EXCEPT !.stage = "checked"] ELSE Idle]

\* A worker that has seeded goes on at once; the first request of a worker
\* seeds, and marks it done before the database is asked anything.
Arrive(r, g, ip, n, right) ==
  LET l == [stage |-> "seeding", gate |-> g, ip |-> ip, name |-> n, right |-> right,
            missing |-> Admin \notin accounts] IN
  /\ req[r] = Idle
  /\ attempts < MaxAttempts
  /\ attempts' = attempts + 1
  /\ \/ seeded[g] /\ Admit(r, g, l) /\ UNCHANGED seeded
     \/ /\ ~seeded[g]
        /\ seeded' = [seeded EXCEPT ![g] = TRUE]
        /\ req' = [req EXCEPT ![r] = l]
        /\ UNCHANGED <<bucket, admitted, lock>>
  /\ UNCHANGED <<now, fails, accounts, restarts, misses, before, fault>>

\* Variant: the commit is skipped when there is no demo account to seed.
Seeds_Nothing(r) == {}

\* The rows the seed inserts; the address is unique.
Seeds(r) == IF req[r].missing THEN {Admin} ELSE {}

SeedCommits(r) ==
  /\ req[r] # Idle /\ req[r].stage = "seeding"
  /\ Seeds(r) \cap accounts = {}
  /\ accounts' = accounts \cup Seeds(r)
  /\ Admit(r, req[r].gate, req[r])
  /\ UNCHANGED <<now, fails, seeded, attempts, restarts, misses, before, fault>>

\* Another worker's seed was first, or the database failed: the request ends
\* with an error and the worker does not seed again.
SeedFails(r) ==
  /\ req[r] # Idle /\ req[r].stage = "seeding"
  /\ req' = [req EXCEPT ![r] = Idle]
  /\ fault' = [fault EXCEPT ![req[r].gate] = @ \/ Seeds(r) \cap accounts = {}]
  /\ UNCHANGED <<now, bucket, fails, lock, seeded, accounts, attempts, restarts,
                 admitted, misses, before>>

\* The row is there: a wrong password is recorded, an account that may not
\* sign in is neither recorded nor cleared, a success clears.
Evaluate(r) ==
  LET g == req[r].gate
      n == req[r].name IN
  /\ req[r] # Idle /\ req[r].stage = "checked"
  /\ req' = [req EXCEPT ![r] = Idle]
  /\ \/ ~(n \in accounts /\ req[r].right) /\ RecordFailure(g, n, UnderWay(g, n) \ {r}, lock)
     \/ /\ n \in accounts /\ req[r].right /\ n \in Blocked
        /\ UNCHANGED <<fails, lock, misses, before>>
     \/ n \in accounts /\ req[r].right /\ n \notin Blocked /\ ClearFailures(g, n)
  /\ UNCHANGED <<now, bucket, seeded, accounts, attempts, restarts, admitted, fault>>

-----------------------------------------------------------------------------
(* The console login checks and records in one go, and there is one account *)
(* whose name and password the environment gives.                           *)

ConsoleLogin(g, ip, n, right) ==
  /\ attempts < MaxAttempts
  /\ attempts' = attempts + 1
  /\ right => n = Editor
  /\ bucket' = Rated(bucket, g, ip)
  /\ admitted' = Let(admitted, g, ip)
  /\ \/ ~RateOk(g, ip) /\ UNCHANGED <<fails, lock, misses, before>>
     \/ RateOk(g, ip) /\ Locked(g, n) /\ UNCHANGED <<fails, lock, misses, before>>
     \/ /\ RateOk(g, ip) /\ ~Locked(g, n)
        /\ IF right THEN ClearFailures(g, n) ELSE RecordFailure(g, n, {}, Unlocked(g, n))
  /\ UNCHANGED <<now, seeded, accounts, req, restarts, fault>>

\* A message of the chatbot passes the limit of its address and then the one
\* of its session; the first is used up even when the second refuses.
ChatMessage(g, ip, s) ==
  /\ attempts < MaxAttempts
  /\ attempts' = attempts + 1
  /\ LET in == RateOk(g, ip) IN
     /\ bucket' = IF in THEN Rated(Rated(bucket, g, ip), g, s) ELSE Rated(bucket, g, ip)
     /\ admitted' = IF in THEN Let(Let(admitted, g, ip), g, s) ELSE admitted
  /\ UNCHANGED <<now, fails, lock, seeded, accounts, req, restarts, misses, before, fault>>

Restart(g) ==
  /\ restarts < MaxRestarts
  /\ restarts' = restarts + 1
  /\ bucket' = [bucket EXCEPT ![g] = [k \in Keys |-> <<>>]]
  /\ admitted' = [admitted EXCEPT ![g] = [k \in Keys |-> <<>>]]
  /\ fails' = [fails EXCEPT ![g] = [n \in Names |-> <<>>]]
  /\ misses' = [misses EXCEPT ![g] = [n \in Names |-> <<>>]]
  /\ lock' = [lock EXCEPT ![g] = [n \in Names |-> 0]]
  /\ before' = [before EXCEPT ![g] = [n \in Names |-> {}]]
  /\ seeded' = [seeded EXCEPT ![g] = FALSE]
  /\ fault' = [fault EXCEPT ![g] = FALSE]
  /\ req' = [r \in Requests |-> IF req[r] # Idle /\ req[r].gate = g THEN Idle ELSE req[r]]
  /\ UNCHANGED <<now, accounts, attempts>>

Tick ==
  /\ now < MaxTime
  /\ now' = now + 1
  /\ UNCHANGED <<bucket, fails, lock, seeded, accounts, req, attempts, restarts,
                 admitted, misses, before, fault>>

-----------------------------------------------------------------------------
Next ==
  \/ \E r \in Requests, g \in Portal, ip \in Addresses, n \in Names, right \in BOOLEAN :
       Arrive(r, g, ip, n, right)
  \/ \E r \in Requests : SeedCommits(r)
  \/ \E r \in Requests : SeedFails(r)
  \/ \E r \in Requests : Evaluate(r)
  \/ \E g \in Console, ip \in Addresses, n \in Names, right \in BOOLEAN :
       ConsoleLogin(g, ip, n, right)
  \/ \E g \in Chat, ip \in Addresses, s \in Sessions : ChatMessage(g, ip, s)
  \/ \E g \in Gates : Restart(g)
  \/ Tick

Spec == Init /\ [][Next]_vars

-----------------------------------------------------------------------------
\* In every minute of a worker's life it lets at most Limit requests of one
\* address, or messages of one session, in: _rate_ok and _check_rate_limit.
RateKept ==
  \A g \in Gates, k \in Keys : \A t \in 0..MaxTime :
    Cardinality({i \in DOMAIN admitted[g][k] : admitted[g][k][i] \in t..(t + Minute)}) <= Limit[k]

\* While a name is locked, the only passwords still looked at are those of
\* logins that were under way when it was locked: the lock is checked before
\* the lookup and failures are recorded after it.  The last second of a lock
\* stops nobody: int() in _lock_seconds_remaining leaves none of it.
LockStops ==
  \A g \in Portal, n \in Names : Locked(g, n) => UnderWay(g, n) \subseteq before[g][n]

\* A name is locked only after MaxFails failures within the window, with no
\* success among them (_record_login_failure, _clear_login_failures).
LockEarned ==
  [][\A g \in Gates, n \in Names :
       lock'[g][n] > now /\ lock'[g][n] # lock[g][n] =>
         Cardinality({i \in DOMAIN misses[g][n] : misses[g][n][i] >= now - Window}) + 1
           >= MaxFails]_vars

\* A worker that has seeded has the administrator's account, unless a seed of
\* its own is under way or was lost to a database error: until then, and after
\* a loss until another worker seeds, the right password is refused.
SeedTakes ==
  \A g \in Portal :
    \/ ~seeded[g] \/ fault[g] \/ Admin \in accounts
    \/ \E r \in Requests : req[r] # Idle /\ req[r].stage = "seeding" /\ req[r].gate = g

\* A seed that found the account has nothing to insert, and it is still there.
SeedsKnown ==
  \A r \in Requests :
    req[r] # Idle /\ req[r].stage = "seeding" /\ ~req[r].missing => Admin \in accounts

LockInv == TypeOK /\ LockStops /\ SeedsKnown /\ SeedTakes

\* h lists times that have come, in order.
InOrder(h) ==
  /\ \A i \in DOMAIN h : h[i] <= now
  /\ \A i, j \in DOMAIN h : i <= j => h[i] <= h[j]

\* s is the end of h.
EndOf(s, h) ==
  /\ Len(s) <= Len(h)
  /\ \A i \in 1..Len(s) : s[i] = h[Len(h) - Len(s) + i]

\* A bucket b is the end of what was let in, a; what it has dropped is too old
\* to count; a request and the one that came limit later are more than a minute
\* apart.
Metered(b, a, limit) ==
  /\ InOrder(a) /\ EndOf(b, a)
  /\ \A i \in 1..(Len(a) - Len(b)) : a[i] < now - Minute
  /\ \A i \in 1..(Len(a) - limit) : a[i] + Minute < a[i + limit]

\* The failures that count are the end of those since the last success or lock.
Tallied(f, m) == InOrder(m) /\ EndOf(f, m)

\* What RateKept and LockEarned need to know of the tables of times.
CountInv ==
  /\ bucket \in [Gates -> [Keys -> Seq(Nat)]] /\ admitted \in [Gates -> [Keys -> Seq(Nat)]]
  /\ fails \in [Gates -> [Names -> Seq(Nat)]] /\ misses \in [Gates -> [Names -> Seq(Nat)]]
  /\ \A g \in Gates : /\ \A k \in Keys : Metered(bucket[g][k], admitted[g][k], Limit[k])
                      /\ \A n \in Names : Tallied(fails[g][n], misses[g][n])

\* The inductive invariant behind all of them.
IndInv == LockInv /\ CountInv
=============================================================================
