------------------------------ MODULE RateLimit ------------------------------
(***************************************************************************)
(* app/Errors/limits.ts: one quota key, counted by several processes in a  *)
(* shared Redis counter and, while Redis does not answer one of them, in   *)
(* that process's own memory.  Time passes in ticks; a timer holds what is *)
(* left of it, and a process's calls to Redis are steps of their own.      *)
(***************************************************************************)
EXTENDS Integers, FiniteSets

CONSTANTS
  Node,       \* app processes that share the Redis server
  Hit,        \* requests being counted, each on a process
  NodeOf,
  Limit,      \* hits a window allows
  MaxCount,   \* the largest count of one request (MAX_BATCH)
  Window,     \* ticks a window lasts
  Breaker,    \* ticks a process stays away from Redis after an error
  Cap,        \* bound: the counter is not followed past this value
  Faults,     \* which faults may occur
  MaxFaults   \* bound: how many, between them

FaultKind ==
  {"refused",   \* an INCR is not executed, and its caller is told
   "expire",    \* an EXPIRE is not executed, and its caller is told
   "reply",     \* an INCR is executed and its reply lost
   "ttl",       \* a TTL is not answered
   "crash"}     \* a process dies and is started again

ASSUME LimitAssumption ==
  /\ NodeOf \in [Hit -> Node]
  /\ Limit \in Nat \ {0} /\ MaxCount \in Nat \ {0}
  /\ Window \in Nat \ {0} /\ Breaker \in Nat \ {0}
  /\ Cap \in Nat /\ Cap > Limit /\ Cap > MaxCount
  /\ Faults \subseteq FaultKind
  /\ MaxFaults \in Nat

VARIABLES
  counter,        \* the shared counter, 0 when Redis has no such key
  expiry,         \* ticks it has left, 0 when no EXPIRE was set on it
  granted,        \* history: hits its present life has let through
  windows,        \* per process: hits of its in-memory window, and ticks left
  redisDownUntil, \* per process: ticks left of its circuit breaker
  pc, n, count,   \* where each request is, INCR's answer, and what it counts
  faults          \* faults so far

vars == <<counter, expiry, granted, windows, redisDownUntil, pc, n, count, faults>>

Least(a, b) == IF a <= b THEN a ELSE b
Less(t) == IF t = 0 THEN 0 ELSE t - 1

Pc == {"idle", "incr", "expire", "ttl"}

\* r returns, its locals gone, or goes on to label.
Goto(r, label, m) ==
  /\ pc' = [pc EXCEPT ![r] = label]
  /\ n' = [n EXCEPT ![r] = IF label = "idle" THEN 0 ELSE m]
  /\ count' = [count EXCEPT ![r] = IF label = "idle" THEN 1 ELSE @]

-----------------------------------------------------------------------------
Init ==
  /\ counter = 0 /\ expiry = 0 /\ granted = 0
  /\ windows = [d \in Node |-> [count |-> 0, left |-> 0]]
  /\ redisDownUntil = [d \in Node |-> 0]
  /\ pc = [r \in Hit |-> "idle"]
  /\ n = [r \in Hit |-> 0]
  /\ count = [r \in Hit |-> 1]
  /\ faults = 0

Fault(kind) ==
  /\ kind \in Faults /\ faults < MaxFaults
  /\ faults' = faults + 1

\* The in-memory window has no hit left.
MemFull(w) == w.count >= Limit

\* memRateLimit.  A window that is over counts like none: the sweep that drops
\* it changes nothing here.
MemRateLimit(d, c) ==
  LET w == windows[d] IN
  \/ /\ w.left = 0
     /\ windows' = [windows EXCEPT ![d] = [count |-> c, left |-> Window]]
  \/ /\ w.left > 0 /\ MemFull(w)
     /\ UNCHANGED windows
  \/ /\ w.left > 0 /\ ~MemFull(w)
     /\ windows' = [windows EXCEPT ![d].count = @ + c]

\* A request arrives and is sent to Redis.
Begin(r, c) ==
  /\ pc[r] = "idle"
  /\ redisDownUntil[NodeOf[r]] = 0
  /\ pc' = [pc EXCEPT ![r] = "incr"]
  /\ count' = [count EXCEPT ![r] = c]
  /\ UNCHANGED <<counter, expiry, granted, windows, redisDownUntil, n, faults>>

\* A request arrives while the breaker is open: counted in memory at once.
BeginInMemory(r, c) ==
  /\ pc[r] = "idle"
  /\ redisDownUntil[NodeOf[r]] > 0
  /\ MemRateLimit(NodeOf[r], c)
  /\ UNCHANGED <<counter, expiry, granted, redisDownUntil, pc, n, count, faults>>

\* Mutants: a limit tested against what came before this request, an EXPIRE
\* that follows every INCR, and one that follows only a count of one.
OverBefore(m, c) == m - c >= Limit
OpensAlways(m, c) == m > 0
OpensAtOne(m, c) == m = 1

\* A counter's value refuses the request that brought it there; or is the first
\* of its life.
Over(m, c) == m > Limit
Opens(m, c) == m <= c

\* INCRBY executes: the counter and what its life has let through.
Count(r) ==
  LET m == Least(counter + count[r], Cap) IN
  /\ counter' = m
  /\ granted' = IF Over(m, count[r]) THEN granted ELSE granted + count[r]

\* INCRBY and its answer.
Incr(r) ==
  LET m == Least(counter + count[r], Cap) IN
  /\ pc[r] = "incr"
  /\ Count(r)
  /\ Goto(r, IF Opens(m, count[r]) THEN "expire"
             ELSE IF Over(m, count[r]) THEN "ttl" ELSE "idle", m)
  /\ UNCHANGED <<expiry, windows, redisDownUntil, faults>>

\* EXPIRE, on the key if it is there.
Expire(r) ==
  /\ pc[r] = "expire"
  /\ expiry' = IF counter = 0 THEN 0 ELSE Window
  /\ Goto(r, IF Over(n[r], count[r]) THEN "ttl" ELSE "idle", n[r])
  /\ UNCHANGED <<counter, granted, windows, redisDownUntil, faults>>

\* TTL, answered or not: the request is refused all the same.
Ttl(r) ==
  /\ pc[r] = "ttl"
  /\ UNCHANGED faults \/ Fault("ttl")
  /\ Goto(r, "idle", 0)
  /\ UNCHANGED <<counter, expiry, granted, windows, redisDownUntil>>

\* The catch: the breaker opens and the request is counted in memory.
FallBack(r) ==
  /\ redisDownUntil' = [redisDownUntil EXCEPT ![NodeOf[r]] = Breaker]
  /\ MemRateLimit(NodeOf[r], count[r])
  /\ Goto(r, "idle", 0)

IncrFails(r) ==
  /\ pc[r] = "incr"
  /\ \/ Fault("refused") /\ UNCHANGED <<counter, granted>>
     \/ Fault("reply") /\ Count(r)
  /\ FallBack(r)
  /\ UNCHANGED expiry

ExpireFails(r) ==
  /\ pc[r] = "expire"
  /\ Fault("expire")
  /\ FallBack(r)
  /\ UNCHANGED <<counter, expiry, granted>>

Crash(d) ==
  /\ Fault("crash")
  /\ windows' = [windows EXCEPT ![d] = [count |-> 0, left |-> 0]]
  /\ redisDownUntil' = [redisDownUntil EXCEPT ![d] = 0]
  /\ pc' = [r \in Hit |-> IF NodeOf[r] = d THEN "idle" ELSE pc[r]]
  /\ n' = [r \in Hit |-> IF NodeOf[r] = d THEN 0 ELSE n[r]]
  /\ count' = [r \in Hit |-> IF NodeOf[r] = d THEN 1 ELSE count[r]]
  /\ UNCHANGED <<counter, expiry, granted>>

\* A tick of every timer; Redis drops the counter when its last is over.
Tick ==
  /\ expiry' = Less(expiry)
  /\ counter' = IF expiry = 1 THEN 0 ELSE counter
  /\ granted' = IF expiry = 1 THEN 0 ELSE granted
  /\ windows' = [d \in Node |-> [windows[d] EXCEPT !.left = Less(@)]]
  /\ redisDownUntil' = [d \in Node |-> Less(redisDownUntil[d])]
  /\ UNCHANGED <<pc, n, count, faults>>

Handle(r) == Incr(r) \/ Expire(r) \/ Ttl(r) \/ IncrFails(r) \/ ExpireFails(r)

Next ==
  \/ \E r \in Hit : \/ \E c \in 1 .. MaxCount : Begin(r, c) \/ BeginInMemory(r, c)
                    \/ Handle(r)
  \/ \E d \in Node : Crash(d)
  \/ Tick

Spec == Init /\ [][Next]_vars

\* Time passes, and a call to Redis that was sent is answered or fails.
Fairness == WF_vars(Tick) /\ \A r \in Hit : WF_vars(Handle(r))

FairSpec == Spec /\ Fairness

-----------------------------------------------------------------------------
(* Properties *)

\* Every variable holds a value of its kind.
TypeOK ==
  /\ counter \in 0 .. Cap /\ expiry \in 0 .. Window /\ granted \in Nat
  /\ windows \in [Node -> [count : Nat, left : 0 .. Window]]
  /\ redisDownUntil \in [Node -> 0 .. Breaker]
  /\ pc \in [Hit -> Pc]
  /\ n \in [Hit -> 0 .. Cap]
  /\ count \in [Hit -> 1 .. MaxCount]
  /\ faults \in Nat

\* limits.ts:16-18.  However many processes count at once, and whatever fails or
\* dies between their calls, a life of the shared counter lets through no more
\* hits than the limit.
RedisWithinLimit == granted <= Limit

\* limits.ts:40.  A process's own window is overrun by less than one request:
\* the one that finds a hit left may count for more than it.
MemOverrunsByOne == \A d \in Node : windows[d].count <= Limit - 1 + MaxCount

\* limits.ts:88-90.  As long as nothing has failed, a counter always has an
\* expiry or a request about to set it: the one that opened its life, whatever it
\* counted, and whoever counted in between.
EveryLifeEnds ==
  counter > 0 /\ expiry = 0 /\ faults = 0 => \E r \in Hit : pc[r] = "expire"

\* docs/reference/ingest.md:118.  A window is fixed: once its EXPIRE is set it
\* comes to its end, however much a refused client keeps hitting.
WindowReopens == counter > Limit /\ expiry > 0 ~> counter = 0

-----------------------------------------------------------------------------
(* The inductive invariant: the safety properties need only that what was    *)
(* let through was counted.                                                  *)

RateInv ==
  /\ TypeOK
  /\ granted <= counter
  /\ RedisWithinLimit
  /\ MemOverrunsByOne
  /\ EveryLifeEnds
=============================================================================
