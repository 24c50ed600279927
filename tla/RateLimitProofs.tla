--------------------------- MODULE RateLimitProofs ---------------------------
(* RateInv is inductive, and implies the safety properties of RateLimit, for *)
(* any number of processes and requests, any limit and any faults.           *)
EXTENDS RateLimit, TLAPS

\* The in-memory window is overrun by less than one request.
LEMMA MemWindow ==
  ASSUME TypeOK, MemOverrunsByOne, NEW d \in Node, NEW c \in 1 .. MaxCount,
         MemRateLimit(d, c)
  PROVE  /\ windows' \in [Node -> [count : Nat, left : 0 .. Window]]
         /\ \A x \in Node : windows'[x].count <= Limit - 1 + MaxCount
<1> USE LimitAssumption
<1> DEFINE w == windows[d]
<1>1. /\ windows \in [Node -> [count : Nat, left : 0 .. Window]]
      /\ \A x \in Node : windows[x].count <= Limit - 1 + MaxCount
  BY DEF TypeOK, MemOverrunsByOne
<1>2. CASE windows' = [windows EXCEPT ![d] = [count |-> c, left |-> Window]]
  BY <1>1, <1>2
<1>3. CASE windows' = windows
  BY <1>1, <1>3
<1>4. CASE ~MemFull(w) /\ windows' = [windows EXCEPT ![d].count = @ + c]
  <2>1. w.count < Limit /\ w.count \in Nat
    BY <1>1, <1>4 DEF MemFull
  <2>2. w.count + c \in Nat /\ w.count + c <= Limit - 1 + MaxCount
    BY <2>1
  <2> QED BY <1>1, <1>4, <2>2
<1> QED BY <1>2, <1>3, <1>4 DEF MemRateLimit

\* A request that goes on or returns leaves every request in a legal state.
LEMMA GotoType ==
  ASSUME TypeOK, NEW r \in Hit, NEW label \in Pc, NEW m \in 0 .. Cap,
         Goto(r, label, m)
  PROVE  /\ pc' \in [Hit -> Pc] /\ n' \in [Hit -> 0 .. Cap]
         /\ count' \in [Hit -> 1 .. MaxCount]
         /\ pc'[r] = label /\ \A x \in Hit \ {r} : pc'[x] = pc[x]
<1> DEFINE N == IF label = "idle" THEN 0 ELSE m
           C == IF label = "idle" THEN 1 ELSE count[r]
<1>1. N \in 0 .. Cap /\ C \in 1 .. MaxCount
  BY LimitAssumption DEF TypeOK
<1>2. /\ pc' = [pc EXCEPT ![r] = label]
      /\ n' = [n EXCEPT ![r] = N]
      /\ count' = [count EXCEPT ![r] = C]
  BY DEF Goto
<1> HIDE DEF N, C
<1> QED BY <1>1, <1>2 DEF TypeOK

\* INCRBY: what its life has let through stays within the counter and the limit,
\* and the request that finds no counter is the one to set its expiry.
LEMMA Counting ==
  ASSUME RateInv, NEW r \in Hit, Count(r)
  PROVE  /\ counter' \in 0 .. Cap
         /\ counter' = Least(counter + count[r], Cap)
         /\ granted' \in Nat /\ granted' <= counter' /\ granted' <= Limit
         /\ counter = 0 => Opens(counter', count[r])
<1> USE LimitAssumption
<1> DEFINE c == count[r]
           m == Least(counter + c, Cap)
<1>1. /\ counter \in 0 .. Cap /\ granted \in Nat /\ c \in 1 .. MaxCount
      /\ granted <= counter /\ granted <= Limit
  BY DEF RateInv, TypeOK, RedisWithinLimit
<1>2. counter' = m /\ granted' = IF Over(m, c) THEN granted ELSE granted + c
  BY DEF Count
<1> HIDE DEF c
<1>3. m \in 0 .. Cap /\ counter <= m /\ (m = Cap \/ m = counter + c) /\ (counter = 0 => m <= c)
  BY <1>1 DEF Least
<1> HIDE DEF m
<1>4. ASSUME Over(m, c)
      PROVE  granted' \in Nat /\ granted' <= m /\ granted' <= Limit
  BY <1>1, <1>2, <1>3, <1>4
<1>5. ASSUME ~Over(m, c)
      PROVE  granted' \in Nat /\ granted' <= m /\ granted' <= Limit
  <2>1. m = counter + c /\ m <= Limit
    BY <1>1, <1>3, <1>5 DEF Over
  <2> QED BY <1>1, <1>2, <1>3, <1>5, <2>1
<1>6. counter = 0 => Opens(m, c)
  BY <1>3 DEF Opens
<1> QED BY <1>2, <1>3, <1>4, <1>5, <1>6 DEF m, c

LEMMA RateInit == Init => RateInv
BY LimitAssumption DEF Init, RateInv, TypeOK, Pc, RedisWithinLimit, MemOverrunsByOne, EveryLifeEnds

LEMMA RateStep == RateInv /\ [Next]_vars => RateInv'
<1> SUFFICES ASSUME RateInv, [Next]_vars PROVE RateInv'
  OBVIOUS
<1> USE LimitAssumption
<1>t. /\ counter \in 0 .. Cap /\ expiry \in 0 .. Window /\ granted \in Nat
      /\ windows \in [Node -> [count : Nat, left : 0 .. Window]]
      /\ redisDownUntil \in [Node -> 0 .. Breaker]
      /\ pc \in [Hit -> Pc] /\ n \in [Hit -> 0 .. Cap]
      /\ count \in [Hit -> 1 .. MaxCount] /\ faults \in Nat
  BY DEF RateInv, TypeOK
<1>p. /\ TypeOK /\ granted <= counter /\ RedisWithinLimit
      /\ MemOverrunsByOne /\ EveryLifeEnds
  BY DEF RateInv
<1>1. ASSUME NEW r \in Hit, NEW c \in 1 .. MaxCount, Begin(r, c) PROVE RateInv'
  <2>1. TypeOK'
    BY <1>t, <1>1 DEF Begin, TypeOK, Pc
  <2>2. EveryLifeEnds'
    BY <1>p, <1>t, <1>1 DEF Begin, EveryLifeEnds
  <2> QED BY <1>p, <1>1, <2>1, <2>2 DEF Begin, RateInv, RedisWithinLimit, MemOverrunsByOne
<1>2. ASSUME NEW r \in Hit, NEW c \in 1 .. MaxCount, BeginInMemory(r, c) PROVE RateInv'
  <2>0. NodeOf[r] \in Node /\ MemRateLimit(NodeOf[r], c)
    BY <1>2 DEF BeginInMemory
  <2>1. /\ windows' \in [Node -> [count : Nat, left : 0 .. Window]]
        /\ \A x \in Node : windows'[x].count <= Limit - 1 + MaxCount
    BY <1>p, <2>0, MemWindow
  <2>2. TypeOK'
    BY <1>t, <1>2, <2>1 DEF BeginInMemory, TypeOK
  <2> QED BY <1>p, <1>2, <2>1, <2>2 DEF BeginInMemory, RateInv, RedisWithinLimit, MemOverrunsByOne, EveryLifeEnds
<1>3. ASSUME NEW r \in Hit, Incr(r) PROVE RateInv'
  <2> DEFINE m == Least(counter + count[r], Cap)
             label == IF Opens(m, count[r]) THEN "expire"
                      ELSE IF Over(m, count[r]) THEN "ttl" ELSE "idle"
  <2>0. /\ pc[r] = "incr" /\ Count(r) /\ Goto(r, label, m) /\ label \in Pc
        /\ expiry' = expiry /\ windows' = windows
        /\ redisDownUntil' = redisDownUntil /\ faults' = faults
    BY <1>3 DEF Incr, Pc
  <2>1. /\ counter' \in 0 .. Cap /\ counter' = m
        /\ granted' \in Nat /\ granted' <= counter' /\ granted' <= Limit
        /\ counter = 0 => label = "expire"
    BY <2>0, Counting
  <2> HIDE DEF label, m
  <2>2. /\ pc' \in [Hit -> Pc] /\ n' \in [Hit -> 0 .. Cap]
        /\ count' \in [Hit -> 1 .. MaxCount]
        /\ pc'[r] = label /\ \A x \in Hit \ {r} : pc'[x] = pc[x]
    BY <1>p, <2>0, <2>1, GotoType
  <2>3. TypeOK'
    BY <1>t, <2>0, <2>1, <2>2 DEF TypeOK
  <2>4. EveryLifeEnds'
    <3> SUFFICES ASSUME expiry' = 0, faults' = 0 PROVE \E x \in Hit : pc'[x] = "expire"
      BY DEF EveryLifeEnds
    <3>1. CASE counter = 0
      BY <2>1, <2>2, <3>1
    <3>2. CASE counter > 0
      <4>1. PICK x \in Hit : pc[x] = "expire"
        BY <1>p, <2>0, <3>2 DEF EveryLifeEnds
      <4> QED BY <2>0, <2>2, <4>1
    <3> QED BY <1>t, <3>1, <3>2
  <2> QED BY <1>p, <2>0, <2>1, <2>3, <2>4 DEF RateInv, RedisWithinLimit, MemOverrunsByOne
<1>4. ASSUME NEW r \in Hit, Expire(r) PROVE RateInv'
  <2> DEFINE label == IF Over(n[r], count[r]) THEN "ttl" ELSE "idle"
  <2>0. /\ expiry' = (IF counter = 0 THEN 0 ELSE Window) /\ Goto(r, label, n[r]) /\ label \in Pc
        /\ counter' = counter /\ granted' = granted /\ windows' = windows
        /\ redisDownUntil' = redisDownUntil /\ faults' = faults
    BY <1>4 DEF Expire, Pc
  <2> HIDE DEF label
  <2>1. /\ pc' \in [Hit -> Pc] /\ n' \in [Hit -> 0 .. Cap]
        /\ count' \in [Hit -> 1 .. MaxCount]
    BY <1>t, <1>p, <2>0, GotoType
  <2>2. TypeOK'
    BY <1>t, <2>0, <2>1 DEF TypeOK
  <2>3. EveryLifeEnds'
    BY <2>0 DEF EveryLifeEnds
  <2> QED BY <1>p, <2>0, <2>2, <2>3 DEF RateInv, RedisWithinLimit, MemOverrunsByOne
<1>5. ASSUME NEW r \in Hit, Ttl(r) PROVE RateInv'
  <2>0. /\ pc[r] = "ttl" /\ Goto(r, "idle", 0) /\ "idle" \in Pc /\ 0 \in 0 .. Cap
        /\ faults' \in Nat /\ (faults' = 0 => faults = 0)
        /\ counter' = counter /\ granted' = granted /\ windows' = windows /\ expiry' = expiry
        /\ redisDownUntil' = redisDownUntil
    BY <1>t, <1>5 DEF Ttl, Pc, Fault
  <2>1. /\ pc' \in [Hit -> Pc] /\ n' \in [Hit -> 0 .. Cap]
        /\ count' \in [Hit -> 1 .. MaxCount]
        /\ \A x \in Hit \ {r} : pc'[x] = pc[x]
    BY <1>p, <2>0, GotoType
  <2>2. TypeOK'
    BY <1>t, <2>0, <2>1 DEF TypeOK
  <2>3. EveryLifeEnds'
    BY <1>p, <2>0, <2>1 DEF EveryLifeEnds
  <2> QED BY <1>p, <2>0, <2>2, <2>3 DEF RateInv, RedisWithinLimit, MemOverrunsByOne
<1>6. ASSUME NEW r \in Hit, FallBack(r), expiry' = expiry, faults' = faults + 1,
             counter' \in 0 .. Cap, granted' \in Nat, granted' <= counter', granted' <= Limit
      PROVE  RateInv'
  <2>0. /\ NodeOf[r] \in Node /\ count[r] \in 1 .. MaxCount /\ MemRateLimit(NodeOf[r], count[r])
        /\ Goto(r, "idle", 0) /\ "idle" \in Pc /\ 0 \in 0 .. Cap
        /\ redisDownUntil' = [redisDownUntil EXCEPT ![NodeOf[r]] = Breaker]
    BY <1>t, <1>6 DEF FallBack, Pc
  <2>1. /\ windows' \in [Node -> [count : Nat, left : 0 .. Window]]
        /\ \A x \in Node : windows'[x].count <= Limit - 1 + MaxCount
    BY <1>p, <2>0, MemWindow
  <2>2. /\ pc' \in [Hit -> Pc] /\ n' \in [Hit -> 0 .. Cap]
        /\ count' \in [Hit -> 1 .. MaxCount]
    BY <1>p, <2>0, GotoType
  <2>3. redisDownUntil' \in [Node -> 0 .. Breaker]
    BY <1>t, <2>0
  <2>4. TypeOK'
    BY <1>t, <1>6, <2>1, <2>2, <2>3 DEF TypeOK
  <2>5. EveryLifeEnds'
    BY <1>t, <1>6 DEF EveryLifeEnds
  <2> QED BY <1>6, <2>1, <2>4, <2>5 DEF RateInv, RedisWithinLimit, MemOverrunsByOne
<1>7. ASSUME NEW r \in Hit, IncrFails(r) PROVE RateInv'
  <2>1. FallBack(r) /\ expiry' = expiry /\ faults' = faults + 1
    BY <1>7 DEF IncrFails, Fault
  <2>2. CASE UNCHANGED <<counter, granted>>
    BY <1>t, <1>p, <1>6, <2>1, <2>2 DEF RedisWithinLimit
  <2>3. CASE Count(r)
    BY <1>6, <2>1, <2>3, Counting
  <2> QED BY <1>7, <2>2, <2>3 DEF IncrFails
<1>8. ASSUME NEW r \in Hit, ExpireFails(r) PROVE RateInv'
  BY <1>t, <1>p, <1>6, <1>8 DEF ExpireFails, Fault, RedisWithinLimit
<1>9. ASSUME NEW d \in Node, Crash(d) PROVE RateInv'
  <2>1. /\ windows' \in [Node -> [count : Nat, left : 0 .. Window]]
        /\ MemOverrunsByOne'
    <3>1. 0 <= Limit - 1 + MaxCount
      OBVIOUS
    <3> QED BY <1>t, <1>p, <1>9, <3>1 DEF Crash, MemOverrunsByOne
  <2>2. /\ redisDownUntil' \in [Node -> 0 .. Breaker]
        /\ pc' \in [Hit -> Pc] /\ n' \in [Hit -> 0 .. Cap]
        /\ count' \in [Hit -> 1 .. MaxCount]
    BY <1>t, <1>9 DEF Crash, Pc
  <2>3. faults' \in Nat /\ faults' > 0 /\ counter' = counter /\ expiry' = expiry /\ granted' = granted
    BY <1>t, <1>9 DEF Crash, Fault
  <2>4. TypeOK'
    BY <1>t, <2>1, <2>2, <2>3 DEF TypeOK
  <2> QED BY <1>p, <2>1, <2>3, <2>4 DEF RateInv, RedisWithinLimit, EveryLifeEnds
<1>10. ASSUME Tick PROVE RateInv'
  <2>1. /\ expiry' \in 0 .. Window /\ (expiry' = 0 => expiry = 0 \/ expiry = 1)
    <3>1. expiry' = Less(expiry)
      BY <1>10 DEF Tick
    <3> QED BY <1>t, <3>1 DEF Less
  <2>2. /\ counter' \in 0 .. Cap /\ granted' \in Nat /\ granted' <= counter' /\ granted' <= Limit
        /\ (expiry = 1 => counter' = 0) /\ (expiry # 1 => counter' = counter)
    BY <1>t, <1>p, <1>10 DEF Tick, RedisWithinLimit
  <2>3. /\ windows' \in [Node -> [count : Nat, left : 0 .. Window]]
        /\ MemOverrunsByOne'
    <3>1. windows' = [d \in Node |-> [windows[d] EXCEPT !.left = Less(windows[d].left)]]
      BY <1>10 DEF Tick
    <3>2. ASSUME NEW d \in Node
          PROVE  Less(windows[d].left) \in 0 .. Window
      <4>1. windows[d].left \in 0 .. Window
        BY <1>t
      <4> QED BY <4>1 DEF Less
    <3> QED BY <1>t, <1>p, <3>1, <3>2 DEF MemOverrunsByOne
  <2>4. redisDownUntil' \in [Node -> 0 .. Breaker]
    <3>1. ASSUME NEW d \in Node
          PROVE  Less(redisDownUntil[d]) \in 0 .. Breaker
      <4>1. redisDownUntil[d] \in 0 .. Breaker
        BY <1>t
      <4> QED BY <4>1 DEF Less
    <3> QED BY <1>10, <3>1 DEF Tick
  <2>5. pc' = pc /\ n' = n /\ count' = count /\ faults' = faults
    BY <1>10 DEF Tick
  <2>6. TypeOK'
    BY <1>t, <2>1, <2>2, <2>3, <2>4, <2>5 DEF TypeOK
  <2>7. EveryLifeEnds'
    BY <1>p, <2>1, <2>2, <2>5 DEF EveryLifeEnds
  <2> QED BY <2>2, <2>3, <2>6, <2>7 DEF RateInv, RedisWithinLimit
<1>11. CASE UNCHANGED vars
  BY <1>p, <1>11 DEF vars, RateInv, TypeOK, RedisWithinLimit, MemOverrunsByOne, EveryLifeEnds
<1> QED BY <1>1, <1>2, <1>3, <1>4, <1>5, <1>7, <1>8, <1>9, <1>10, <1>11 DEF Next, Handle

\* The invariant holds in every state, types included.
THEOREM RateCorrect == Spec => []RateInv
BY RateInit, RateStep, PTL DEF Spec

\* A life of the shared counter lets through no more than the limit.
THEOREM SharedQuota == Spec => []RedisWithinLimit
<1>1. RateInv => RedisWithinLimit
  BY DEF RateInv
<1> QED BY <1>1, RateCorrect, PTL

\* Until something fails, every life of the counter has its end in sight.
THEOREM LivesEnd == Spec => []EveryLifeEnds
<1>1. RateInv => EveryLifeEnds
  BY DEF RateInv
<1> QED BY <1>1, RateCorrect, PTL
=============================================================================
