---------------------------- MODULE RateLimiter -----------------------------
(***************************************************************************)
(* The request limiter in front of all API routes but the login: a fixed   *)
(* window of one minute, counted in Redis for all instances of the backend *)
(* together and, when Redis does not answer, in a map of the instance.     *)
(***************************************************************************)
EXTENDS Naturals, FiniteSets

CONSTANTS
  Instances,        \* running backends
  Keys,             \* client address and route
  Requests,         \* each request is made once
  Limit,            \* REQUEST_LIMIT
  Threshold,        \* entries from which the local map is cleaned (512 in the code)
  RedisConfigured,  \* FALSE: REDIS_ADDR is empty
  Faults,           \* TRUE: calls to Redis may fail, or be executed and lost
  MaxWindow,        \* bound: the run ends in this minute
  MaxCount          \* bound on a Redis counter, hence on the client's retries

ASSUME LimiterAssumption ==
  /\ Limit \in Nat /\ Threshold \in Nat /\ MaxWindow \in Nat /\ MaxCount \in Nat
  /\ RedisConfigured \in BOOLEAN /\ Faults \in BOOLEAN
  /\ "redis" \notin Instances
  /\ IsFiniteSet(Keys) /\ IsFiniteSet(Requests)

VARIABLES
  now,    \* the current minute
  redis,  \* the shared counters, by minute and key; 0 is a missing key
  local,  \* the map of each instance: a minute and a count by key; count 0 is no entry
  req     \* the requests: where they are and which counter gave them which number

vars == <<now, redis, local, req>>

Windows == 0..MaxWindow

NoBucket == [window |-> 0, count |-> 0]

Init ==
  /\ now = 0
  /\ redis = [w \in Windows |-> [k \in Keys |-> 0]]
  /\ local = [i \in Instances |-> [k \in Keys |-> NoBucket]]
  /\ req \in [Requests -> [pc : {"new"}, at : Instances, key : Keys, window : {0},
                           source : {"redis"}, number : {0}]]

-----------------------------------------------------------------------------
(* The key is formatted from the clock before the pipeline is sent. *)
Arrive(r) ==
  /\ req[r].pc = "new"
  /\ req' = [req EXCEPT ![r].pc = IF RedisConfigured THEN "redis" ELSE "local",
                        ![r].window = now]
  /\ UNCHANGED <<now, redis, local>>

(* Mutants: the count before this request is compared; the limit itself is too many. *)
VerdictOnCountBefore(number) == IF number - 1 > Limit THEN "rejected" ELSE "passed"
VerdictAtLimit(number) == IF number >= Limit THEN "rejected" ELSE "passed"

(* 429 when the number drawn is above the limit. *)
Verdict(number) == IF number > Limit THEN "rejected" ELSE "passed"

Decide(r, source, window, number) ==
  req' = [req EXCEPT ![r].pc = Verdict(number), ![r].source = source,
                     ![r].window = window, ![r].number = number]

(* Mutant: the increment is queued twice in the pipeline. *)
IncrTwice(r) == redis' = [redis EXCEPT ![req[r].window][req[r].key] = @ + 2]

Incr(r) == redis' = [redis EXCEPT ![req[r].window][req[r].key] = @ + 1]

RedisReply(r) ==
  /\ req[r].pc = "redis"
  /\ redis[req[r].window][req[r].key] < MaxCount
  /\ Incr(r)
  /\ Decide(r, "redis", req[r].window, redis[req[r].window][req[r].key] + 1)
  /\ UNCHANGED <<now, local>>

(* The transaction was executed but its reply is lost, and the client library *)
(* sends it again.                                                            *)
RedisRetry(r) ==
  /\ Faults
  /\ req[r].pc = "redis"
  /\ redis[req[r].window][req[r].key] + 1 < MaxCount
  /\ Incr(r)
  /\ UNCHANGED <<now, local, req>>

(* The pipeline fails for good and the limiter falls back to its own map. *)
RedisFail(r) ==
  /\ Faults
  /\ req[r].pc = "redis"
  /\ req' = [req EXCEPT ![r].pc = "local"]
  /\ UNCHANGED <<now, redis, local>>

Tracked(map) == {k \in Keys : map[k].count > 0}

(* Mutant: cleaning starts one entry too late. *)
CleanedLate(map) ==
  IF Cardinality(Tracked(map)) <= Threshold THEN map
  ELSE [k \in Keys |-> IF map[k].window < now THEN NoBucket ELSE map[k]]

Cleaned(map) ==
  IF Cardinality(Tracked(map)) < Threshold THEN map
  ELSE [k \in Keys |-> IF map[k].window < now THEN NoBucket ELSE map[k]]

(* The next bucket of a key: a bucket of an earlier minute starts afresh. *)
Bumped(bucket) ==
  [window |-> now, count |-> (IF bucket.window = now THEN bucket.count ELSE 0) + 1]

(* Mutant: the map is only made when no Redis is configured. *)
LocalWithoutRedisOnly(r) ==
  LET i == req[r].at
      bucket == Bumped(local[i][req[r].key]) IN
  /\ req[r].pc = "local" /\ ~RedisConfigured
  /\ local' = [local EXCEPT ![i][req[r].key] = bucket]
  /\ Decide(r, i, now, bucket.count)
  /\ UNCHANGED <<now, redis>>

(* All of it under the mutex, the clock is read inside. *)
LocalIncrement(r) ==
  LET i == req[r].at
      map == Cleaned(local[i])
      bucket == Bumped(map[req[r].key]) IN
  /\ req[r].pc = "local"
  /\ local' = [local EXCEPT ![i] = [map EXCEPT ![req[r].key] = bucket]]
  /\ Decide(r, i, now, bucket.count)
  /\ UNCHANGED <<now, redis>>

-----------------------------------------------------------------------------
(* Time.  A call to Redis, its retries included, ends at the latest in the *)
(* minute after the one it started in: dialling and reading time out.      *)
Tick ==
  /\ now < MaxWindow
  /\ \A r \in Requests : req[r].pc = "redis" => req[r].window = now
  /\ now' = now + 1
  /\ UNCHANGED <<redis, local, req>>

(* Mutant: the counter expires with the minute it counts. *)
LifetimeOfItsMinute == 1

(* Minutes a counter lives at least from the start of the minute it counts. *)
Lifetime == 2

Expire(w, k) ==
  /\ now >= w + Lifetime
  /\ redis[w][k] > 0
  /\ redis' = [redis EXCEPT ![w][k] = 0]
  /\ UNCHANGED <<now, local, req>>

Serve(r) == Arrive(r) \/ RedisReply(r) \/ LocalIncrement(r)

Next ==
  \/ \E r \in Requests : Serve(r) \/ RedisRetry(r) \/ RedisFail(r)
  \/ Tick
  \/ \E w \in Windows, k \in Keys : Expire(w, k)

Spec == Init /\ [][Next]_vars

(* Every request that has arrived is served: a goroutine runs on, and the  *)
(* Redis call returns or times out.                                        *)
Fairness == \A r \in Requests : WF_vars(Serve(r)) /\ WF_vars(RedisFail(r))

FairSpec == Spec /\ Fairness

-----------------------------------------------------------------------------
(* Types of the clock, the counters and the requests. *)
TypeOK ==
  /\ now \in Windows
  /\ redis \in [Windows -> [Keys -> 0..MaxCount]]
  /\ local \in [Instances -> [Keys -> [window : Windows, count : Nat]]]
  /\ req \in [Requests ->
       [pc : {"new", "redis", "local", "passed", "rejected"}, at : Instances, key : Keys,
        window : Windows, source : {"redis"} \cup Instances, number : Nat]]

Decided(r) == req[r].pc \in {"passed", "rejected"}

(* Both drew a number from the same counter. *)
SameCounter(r, s) ==
  /\ Decided(r) /\ Decided(s)
  /\ req[r].source = req[s].source /\ req[r].key = req[s].key /\ req[r].window = req[s].window

(* No counter hands out a number twice: not across instances, not across   *)
(* the fallback, not by the expiry of a Redis key that is still in use and  *)
(* not by the cleaning of the local map.                                   *)
NumbersUnique ==
  \A r, s \in Requests : SameCounter(r, s) /\ req[r].number = req[s].number => r = s

(* Each counter lets at most Limit requests of a key through in a minute,  *)
(* so n instances with a failing Redis let at most (n + 1) * Limit through. *)
PerCounterLimit ==
  \A r \in Requests :
    Cardinality({s \in Requests : SameCounter(r, s) /\ req[s].pc = "passed"}) <= Limit

(* The fallback turns nobody away before Limit other requests have passed   *)
(* on the same key in the same minute.  Redis may: a retry counts twice.   *)
NoSpuriousRejection ==
  \A r \in Requests :
    req[r].pc = "rejected" /\ req[r].source \in Instances =>
      Cardinality({s \in Requests : SameCounter(r, s) /\ req[s].pc = "passed"}) >= Limit

(* The local map outgrows the threshold only by keys of one minute: what   *)
(* earlier minutes left is dropped in time.                                *)
MapBounded ==
  \A i \in Instances :
    Cardinality(Tracked(local[i])) > Threshold =>
      \A j, k \in Tracked(local[i]) : local[i][j].window = local[i][k].window

(* Every request that arrives gets a verdict, whether Redis answers or not. *)
EveryRequestDecided ==
  \A r \in Requests : req[r].pc \in {"redis", "local"} ~> Decided(r)

-----------------------------------------------------------------------------
(* The limiter implements the abstract admission. *)

(* A counter: one in Redis per key and minute, one more in every instance. *)
Counters == [source : {"redis"} \cup Instances, key : Keys, window : Windows]

(* A transaction that Redis ran and nobody was told of leaves a number out. *)
RedisCounters == {c \in Counters : c.source = "redis"}

CounterOf(r) == [source |-> req[r].source, key |-> req[r].key, window |-> req[r].window]

Admitting ==
  INSTANCE Admission WITH
    Lossy <- RedisCounters,
    verdict <- [r \in Requests |-> IF Decided(r) THEN <<req[r].pc, CounterOf(r)>> ELSE << >>]

(* Clock, counts, expiry, fallback and cleaning add up to what is promised: *)
(* a request is judged once and for good, it passes only while fewer than  *)
(* Limit have passed by its counter, and a counter of an instance rejects  *)
(* only when Limit have.                                                   *)
KeepsAdmission == Admitting!Spec
=============================================================================
