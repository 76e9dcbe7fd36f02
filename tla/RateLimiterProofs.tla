-------------------------- MODULE RateLimiterProofs ---------------------------
(***************************************************************************)
(* The counters of the limiter are sound for any number of instances, keys *)
(* and requests, any limit and any threshold, while Redis fails, answers   *)
(* late or loses replies.                                                  *)
(***************************************************************************)
EXTENDS RateLimiter, FiniteSetTheorems, TLAPS

-----------------------------------------------------------------------------
(* Types. *)

RequestType ==
  [pc : {"new", "redis", "local", "passed", "rejected"}, at : Instances, key : Keys,
   window : Windows, source : {"redis"} \cup Instances, number : Nat]

BucketType == [window : Windows, count : Nat]

LEMMA WindowsAreNumbers == Windows \subseteq Nat /\ 0 \in Windows
BY LimiterAssumption DEF Windows

(* What Decide makes of a request. *)
LEMMA DecidedRequest ==
  ASSUME TypeOK, NEW r \in Requests, NEW source \in {"redis"} \cup Instances,
         NEW window \in Windows, NEW number \in Nat, Decide(r, source, window, number)
  PROVE  /\ req' \in [Requests -> RequestType]
         /\ \A s \in Requests : s # r => req'[s] = req[s]
         /\ req'[r].pc = Verdict(number) /\ req'[r].pc \in {"passed", "rejected"}
         /\ req'[r].source = source /\ req'[r].window = window /\ req'[r].number = number
         /\ req'[r].at = req[r].at /\ req'[r].key = req[r].key
<1>1. req \in [Requests -> RequestType]
  BY DEF TypeOK, RequestType
<1>2. Verdict(number) \in {"passed", "rejected"}
  BY DEF Verdict
<1> QED BY <1>1, <1>2 DEF Decide, RequestType

(* The map after cleaning and the bucket that is put into it. *)
LEMMA LocalTypes ==
  ASSUME TypeOK, NEW i \in Instances, NEW k \in Keys
  PROVE  /\ Cleaned(local[i]) \in [Keys -> BucketType]
         /\ Bumped(Cleaned(local[i])[k]) \in BucketType
         /\ Bumped(Cleaned(local[i])[k]).window = now
         /\ Bumped(Cleaned(local[i])[k]).count \in Nat \ {0}
<1>1. local[i] \in [Keys -> BucketType] /\ NoBucket \in BucketType /\ now \in Windows
  BY WindowsAreNumbers DEF TypeOK, BucketType, NoBucket
<1>2. Cleaned(local[i]) \in [Keys -> BucketType]
  BY <1>1 DEF Cleaned
<1> DEFINE old == Cleaned(local[i])[k]
<1>3. old \in BucketType
  BY <1>2
<1> HIDE DEF old
<1>4. /\ Bumped(old) \in BucketType /\ Bumped(old).window = now
      /\ Bumped(old).count \in Nat \ {0}
  BY <1>1, <1>3 DEF Bumped, BucketType
<1> QED BY <1>2, <1>4 DEF old

LEMMA InitType == Init => TypeOK
BY LimiterAssumption, WindowsAreNumbers DEF Init, TypeOK, NoBucket, Windows

LEMMA NextType == TypeOK /\ [Next]_vars => TypeOK'
<1> SUFFICES ASSUME TypeOK, [Next]_vars PROVE TypeOK'
  OBVIOUS
<1>0. /\ req \in [Requests -> RequestType] /\ now \in Windows /\ now \in Nat
      /\ redis \in [Windows -> [Keys -> 0..MaxCount]]
  BY WindowsAreNumbers DEF TypeOK, RequestType
<1>1. ASSUME NEW r \in Requests, Arrive(r) PROVE TypeOK'
  <2>1. PICK pc \in {"redis", "local"} :
          req' = [req EXCEPT ![r] = [req[r] EXCEPT !.pc = pc, !.window = now]]
    BY <1>0, <1>1 DEF Arrive
  <2>2. req' \in [Requests -> RequestType]
    BY <1>0, <2>1 DEF RequestType
  <2> QED BY <1>1, <2>2 DEF Arrive, TypeOK, RequestType
<1>2. ASSUME NEW r \in Requests, redis[req[r].window][req[r].key] < MaxCount, Incr(r)
      PROVE  /\ redis' \in [Windows -> [Keys -> 0..MaxCount]]
             /\ redis[req[r].window][req[r].key] + 1 \in Nat
  <2>1. req[r].window \in Windows /\ req[r].key \in Keys
    BY <1>0 DEF RequestType
  <2>2. redis[req[r].window] \in [Keys -> 0..MaxCount]
    BY <1>0, <2>1
  <2> DEFINE counter == redis[req[r].window]
             count == counter[req[r].key]
  <2>3. count \in 0..MaxCount
    BY <2>1, <2>2
  <2> HIDE DEF count
  <2>4. count + 1 \in 0..MaxCount /\ count + 1 \in Nat
    BY <1>2, <2>3, LimiterAssumption DEF count
  <2>5. [counter EXCEPT ![req[r].key] = count + 1] \in [Keys -> 0..MaxCount]
    BY <2>2, <2>4
  <2>6. redis' = [redis EXCEPT ![req[r].window] =
                    [counter EXCEPT ![req[r].key] = count + 1]]
    BY <1>0, <1>2, <2>1 DEF Incr, count
  <2> HIDE DEF counter
  <2>7. redis' \in [Windows -> [Keys -> 0..MaxCount]]
    BY <1>0, <2>1, <2>5, <2>6
  <2> QED BY <2>4, <2>7 DEF count, counter
<1>3. ASSUME NEW r \in Requests, RedisReply(r) PROVE TypeOK'
  <2>1. req' \in [Requests -> RequestType]
    BY <1>0, <1>2, <1>3, DecidedRequest DEF RedisReply, RequestType
  <2> QED BY <1>2, <1>3, <2>1 DEF RedisReply, TypeOK, RequestType
<1>4. ASSUME NEW r \in Requests, RedisRetry(r) PROVE TypeOK'
  <2>0. req[r].window \in Windows /\ req[r].key \in Keys
    BY <1>0 DEF RequestType
  <2>1. redis[req[r].window][req[r].key] \in 0..MaxCount
    BY <1>0, <2>0
  <2>2. redis[req[r].window][req[r].key] < MaxCount
    BY <1>4, <2>1, LimiterAssumption DEF RedisRetry
  <2> QED BY <1>2, <1>4, <2>2 DEF RedisRetry, TypeOK
<1>5. ASSUME NEW r \in Requests, RedisFail(r) PROVE TypeOK'
  BY <1>0, <1>5 DEF RedisFail, TypeOK, RequestType
<1>6. ASSUME NEW r \in Requests, LocalIncrement(r) PROVE TypeOK'
  <2> DEFINE i == req[r].at
             k == req[r].key
             map == Cleaned(local[i])
             bucket == Bumped(map[k])
  <2>1. i \in Instances /\ k \in Keys
    BY <1>0 DEF RequestType
  <2>2. map \in [Keys -> BucketType] /\ bucket \in BucketType
    BY <2>1, LocalTypes
  <2>3. /\ local' = [local EXCEPT ![i] = [map EXCEPT ![k] = bucket]]
        /\ Decide(r, i, now, bucket.count)
    BY <1>6 DEF LocalIncrement
  <2> HIDE DEF i, k, map, bucket
  <2>4. local' \in [Instances -> [Keys -> BucketType]]
    BY <2>1, <2>2, <2>3 DEF TypeOK, BucketType
  <2>5. req' \in [Requests -> RequestType]
    BY <1>0, <2>1, <2>2, <2>3, DecidedRequest DEF BucketType
  <2> QED BY <1>6, <2>4, <2>5 DEF LocalIncrement, TypeOK, RequestType, BucketType
<1>7. CASE Tick
  BY <1>0, <1>7, LimiterAssumption DEF Tick, TypeOK, Windows
<1>8. ASSUME NEW w \in Windows, NEW k \in Keys, Expire(w, k) PROVE TypeOK'
  BY <1>0, <1>8, LimiterAssumption DEF Expire, TypeOK
<1>9. CASE UNCHANGED vars
  BY <1>9 DEF vars, TypeOK
<1> QED BY <1>1, <1>3, <1>4, <1>5, <1>6, <1>7, <1>8, <1>9 DEF Next, Serve

(* Clock, counters, map and requests always have their types. *)
THEOREM LimiterTypes == Spec => []TypeOK
BY InitType, NextType, PTL DEF Spec

-----------------------------------------------------------------------------
(* Numbers. *)

(* A call to Redis belongs to this minute or to the one before. *)
InTime ==
  \A r \in Requests : req[r].pc = "redis" => req[r].window <= now /\ now <= req[r].window + 1

LocalPast == \A i \in Instances, k \in Keys : local[i][k].window <= now

(* A counter has reached every number it has handed out, or it can hand out *)
(* no more: Redis because calls of that minute are over, a map because the  *)
(* minute is.                                                               *)
DrawnFrom(q) ==
  /\ q.number > 0 /\ q.pc = Verdict(q.number) /\ q.window <= now
  /\ q.source = "redis" => q.number <= redis[q.window][q.key] \/ q.window + 1 < now
  /\ q.source # "redis" /\ q.window = now =>
       /\ local[q.source][q.key].window = now
       /\ q.number <= local[q.source][q.key].count

Drawn == \A r \in Requests : Decided(r) => DrawnFrom(req[r])

CountInv == TypeOK /\ InTime /\ LocalPast /\ Drawn /\ NumbersUnique

(* A number above all those of its counter keeps the numbers unique. *)
LEMMA FreshNumber ==
  ASSUME TypeOK, NumbersUnique, NEW r \in Requests, ~Decided(r),
         NEW source \in {"redis"} \cup Instances, NEW window \in Windows, NEW number \in Nat,
         Decide(r, source, window, number),
         \A s \in Requests :
           /\ Decided(s) /\ req[s].source = source /\ req[s].key = req[r].key
           /\ req[s].window = window
           => req[s].number < number
  PROVE  NumbersUnique'
<1>1. /\ \A s \in Requests : s # r => req'[s] = req[s]
      /\ req'[r].source = source /\ req'[r].window = window /\ req'[r].number = number
      /\ req'[r].key = req[r].key
  BY DecidedRequest
<1>2. \A s \in Requests : req[s].number \in Nat
  BY DEF TypeOK
<1> SUFFICES ASSUME NEW x \in Requests, NEW y \in Requests, SameCounter(x, y)',
                    req'[x].number = req'[y].number
             PROVE  x = y
  BY DEF NumbersUnique
<1>3. CASE x # r /\ y # r
  BY <1>1, <1>3 DEF SameCounter, Decided, NumbersUnique
<1>4. CASE x = r /\ y # r
  BY <1>1, <1>2, <1>4 DEF SameCounter, Decided
<1>5. CASE x # r /\ y = r
  BY <1>1, <1>2, <1>5 DEF SameCounter, Decided
<1> QED BY <1>3, <1>4, <1>5

(* What one more number does to a counter in Redis. *)
LEMMA Counted ==
  ASSUME TypeOK, NEW r \in Requests, Incr(r)
  PROVE  /\ redis'[req[r].window][req[r].key] = redis[req[r].window][req[r].key] + 1
         /\ \A w \in Windows, k \in Keys :
              redis[w][k] \in Nat /\ redis'[w][k] \in Nat /\ redis[w][k] <= redis'[w][k]
<1>1. /\ req[r].window \in Windows /\ req[r].key \in Keys
      /\ redis \in [Windows -> [Keys -> 0..MaxCount]]
  BY DEF TypeOK
<1>2. \A w \in Windows : redis[w] \in [Keys -> 0..MaxCount]
  BY <1>1
<1>3. \A w \in Windows, k \in Keys : redis[w][k] \in Nat
  BY <1>2
<1>4. \A w \in Windows, k \in Keys :
        redis'[w][k] = IF w = req[r].window /\ k = req[r].key THEN redis[w][k] + 1
                                                            ELSE redis[w][k]
  BY <1>1, <1>2 DEF Incr
<1> QED BY <1>1, <1>3, <1>4

(* Requests that are decided stay as they are while counters only grow. *)
LEMMA OthersStayDrawn ==
  ASSUME TypeOK, Drawn, NEW s \in Requests, Decided(s), req'[s] = req[s],
         UNCHANGED <<now, local>>,
         \A w \in Windows, k \in Keys :
           redis[w][k] \in Nat /\ redis'[w][k] \in Nat /\ redis[w][k] <= redis'[w][k]
  PROVE  DrawnFrom(req[s])'
<1>1. /\ DrawnFrom(req[s]) /\ req[s].window \in Windows /\ req[s].key \in Keys
      /\ req[s].number \in Nat
  BY DEF Drawn, TypeOK
<1> QED BY <1>1 DEF DrawnFrom

LEMMA ReplyCounts ==
  ASSUME CountInv, NEW r \in Requests, RedisReply(r)
  PROVE  CountInv'
<1> DEFINE q == req[r]
           number == redis[q.window][q.key] + 1
<1>0. /\ TypeOK /\ TypeOK' /\ InTime /\ LocalPast /\ Drawn /\ NumbersUnique
      /\ q.window \in Windows /\ q.key \in Keys /\ q.pc = "redis"
      /\ now \in Nat /\ q.window \in Nat
  BY NextType, WindowsAreNumbers DEF CountInv, RedisReply, TypeOK, Next, Serve
<1>1. Incr(r) /\ Decide(r, "redis", q.window, number) /\ UNCHANGED <<now, local>>
  BY DEF RedisReply
<1>2. /\ redis'[q.window][q.key] = number /\ number \in Nat /\ number > 0
      /\ \A w \in Windows, k \in Keys :
           redis[w][k] \in Nat /\ redis'[w][k] \in Nat /\ redis[w][k] <= redis'[w][k]
  BY <1>0, <1>1, Counted
<1>3. /\ \A s \in Requests : s # r => req'[s] = req[s]
      /\ req'[r].pc = Verdict(number) /\ req'[r].pc \in {"passed", "rejected"}
      /\ req'[r].source = "redis" /\ req'[r].window = q.window /\ req'[r].key = q.key
      /\ req'[r].number = number
  BY <1>0, <1>1, <1>2, DecidedRequest
<1>4. NumbersUnique'
  <2>1. ~Decided(r)
    BY <1>0 DEF Decided
  <2>2. ASSUME NEW s \in Requests, Decided(s), req[s].source = "redis", req[s].key = q.key,
               req[s].window = q.window
        PROVE  req[s].number < number
    <3>1. DrawnFrom(req[s]) /\ now <= q.window + 1 /\ req[s].number \in Nat
      BY <1>0, <2>2 DEF Drawn, InTime, TypeOK
    <3>2. req[s].number <= redis[q.window][q.key] /\ redis[q.window][q.key] \in Nat
      BY <1>0, <1>2, <2>2, <3>1 DEF DrawnFrom
    <3> QED BY <3>1, <3>2
  <2> HIDE DEF number
  <2> QED BY <1>0, <1>1, <1>2, <2>1, <2>2, FreshNumber
<1>5. Drawn'
  <2> SUFFICES ASSUME NEW s \in Requests, Decided(s)' PROVE DrawnFrom(req[s])'
    BY DEF Drawn
  <2>1. CASE s = r
    <3>1. q.window <= now
      BY <1>0 DEF InTime
    <3> HIDE DEF number, q
    <3> QED BY <1>0, <1>1, <1>2, <1>3, <2>1, <3>1 DEF DrawnFrom
  <2>2. CASE s # r
    <3>1. req'[s] = req[s] /\ Decided(s)
      BY <1>3, <2>2 DEF Decided
    <3> QED BY <1>0, <1>1, <1>2, <3>1, OthersStayDrawn
  <2> QED BY <2>1, <2>2
<1>6. InTime' /\ LocalPast'
  <2>1. \A s \in Requests : req'[s].pc = "redis" => req'[s] = req[s]
    BY <1>3
  <2> QED BY <1>0, <1>1, <2>1 DEF InTime, LocalPast
<1> QED BY <1>0, <1>4, <1>5, <1>6 DEF CountInv

LEMMA LocalCounts ==
  ASSUME CountInv, NEW r \in Requests, LocalIncrement(r)
  PROVE  CountInv'
<1> DEFINE i == req[r].at
           key == req[r].key
           map == Cleaned(local[i])
           bucket == Bumped(map[key])
<1>0. /\ TypeOK /\ TypeOK' /\ InTime /\ LocalPast /\ Drawn /\ NumbersUnique
      /\ i \in Instances /\ key \in Keys /\ req[r].pc = "local"
      /\ now \in Nat /\ now \in Windows /\ i # "redis"
  BY NextType, WindowsAreNumbers, LimiterAssumption
     DEF CountInv, LocalIncrement, TypeOK, Next, Serve
<1>1. /\ local' = [local EXCEPT ![i] = [map EXCEPT ![key] = bucket]]
      /\ Decide(r, i, now, bucket.count) /\ UNCHANGED <<now, redis>>
  BY DEF LocalIncrement
<1>2. /\ map \in [Keys -> BucketType] /\ bucket.window = now /\ bucket.count \in Nat
      /\ bucket.count > 0
  BY <1>0, LocalTypes
<1>3. \A k \in Keys : local[i][k].window = now => map[k] = local[i][k]
  <2>1. local[i] \in [Keys -> BucketType]
    BY <1>0 DEF TypeOK, BucketType
  <2> QED BY <1>0, <2>1 DEF Cleaned, BucketType
<1>4. /\ local[i][key].count \in Nat
      /\ local[i][key].window = now => local[i][key].count < bucket.count
  <2>1. local[i][key] \in BucketType
    BY <1>0 DEF TypeOK, BucketType
  <2>2. local[i][key].window = now => bucket.count = local[i][key].count + 1
    BY <1>0, <1>3 DEF Bumped
  <2> QED BY <2>1, <2>2 DEF BucketType
<1>5. /\ local'[i][key] = bucket
      /\ \A j \in Instances, k \in Keys :
           /\ j # i => local'[j][k] = local[j][k]
           /\ j = i /\ k # key => local'[j][k] = map[k]
  BY <1>0, <1>1, <1>2 DEF TypeOK
<1> HIDE DEF map, bucket, i, key
<1>6. /\ \A s \in Requests : s # r => req'[s] = req[s]
      /\ req'[r].pc = Verdict(bucket.count) /\ req'[r].pc \in {"passed", "rejected"}
      /\ req'[r].source = i /\ req'[r].window = now /\ req'[r].key = key
      /\ req'[r].number = bucket.count
  BY <1>0, <1>1, <1>2, DecidedRequest DEF key
<1>7. NumbersUnique'
  <2>1. ~Decided(r)
    BY <1>0 DEF Decided
  <2>2. ASSUME NEW s \in Requests, Decided(s), req[s].source = i, req[s].key = key,
               req[s].window = now
        PROVE  req[s].number < bucket.count
    <3>1. DrawnFrom(req[s]) /\ req[s].number \in Nat
      BY <1>0, <2>2 DEF Drawn, TypeOK
    <3>2. local[i][key].window = now /\ req[s].number <= local[i][key].count
      BY <1>0, <2>2, <3>1 DEF DrawnFrom
    <3> QED BY <1>2, <1>4, <3>1, <3>2
  <2> QED BY <1>0, <1>1, <1>2, <2>1, <2>2, FreshNumber DEF key
<1>8. Drawn'
  <2> SUFFICES ASSUME NEW s \in Requests, Decided(s)' PROVE DrawnFrom(req[s])'
    BY DEF Drawn
  <2>1. CASE s = r
    BY <1>0, <1>1, <1>2, <1>5, <1>6, <2>1 DEF DrawnFrom
  <2>2. CASE s # r
    <3> DEFINE j == req[s].source
               k == req[s].key
    <3>1. req'[s] = req[s] /\ Decided(s)
      BY <1>6, <2>2 DEF Decided
    <3>2. DrawnFrom(req[s]) /\ j \in {"redis"} \cup Instances /\ k \in Keys
          /\ req[s].number \in Nat
      BY <1>0, <3>1 DEF Drawn, TypeOK
    <3>3. ASSUME j # "redis", req[s].window = now
          PROVE  local'[j][k].window = now /\ req[s].number <= local'[j][k].count
      <4>1. local[j][k].window = now /\ req[s].number <= local[j][k].count
        BY <3>2, <3>3 DEF DrawnFrom
      <4>2. CASE j # i
        BY <1>5, <3>2, <3>3, <4>1, <4>2
      <4>3. CASE j = i /\ k # key
        BY <1>3, <1>5, <3>2, <3>3, <4>1, <4>3
      <4>4. CASE j = i /\ k = key
        BY <1>2, <1>4, <1>5, <3>2, <4>1, <4>4
      <4> QED BY <4>2, <4>3, <4>4
    <3> QED BY <1>1, <3>1, <3>2, <3>3 DEF DrawnFrom
  <2> QED BY <2>1, <2>2
<1>9. InTime' /\ LocalPast'
  <2>1. \A s \in Requests : req'[s].pc = "redis" => req'[s] = req[s]
    BY <1>6
  <2>2. ASSUME NEW k \in Keys PROVE map[k].window <= now
    <3>1. map[k] = local[i][k] \/ map[k] = NoBucket
      BY <1>0, <2>2 DEF map, Cleaned, TypeOK
    <3> QED BY <1>0, <3>1 DEF LocalPast, NoBucket
  <2>3. \A j \in Instances, k \in Keys : local'[j][k].window <= now
    BY <1>0, <1>2, <1>5, <2>2 DEF LocalPast
  <2> QED BY <1>0, <1>1, <2>1, <2>3 DEF InTime, LocalPast
<1> QED BY <1>0, <1>7, <1>8, <1>9 DEF CountInv

LEMMA CountKept ==
  ASSUME CountInv, [Next]_vars
  PROVE  CountInv'
<1>0. /\ TypeOK /\ TypeOK' /\ InTime /\ LocalPast /\ Drawn /\ NumbersUnique
      /\ now \in Nat /\ \A s \in Requests : req[s].window \in Nat
      /\ req \in [Requests -> RequestType]
  BY NextType, WindowsAreNumbers DEF CountInv, TypeOK, RequestType
<1>1. ASSUME NEW r \in Requests, req[r].pc \in {"new", "redis"},
             \A s \in Requests : s # r => req'[s] = req[s],
             req'[r].pc \in {"redis", "local"},
             req'[r].pc = "redis" => req'[r].window = now,
             UNCHANGED <<now, redis, local>>
      PROVE  CountInv'
  <2>1. ~Decided(r) /\ ~Decided(r)'
    BY <1>1 DEF Decided
  <2>2. Drawn' /\ NumbersUnique'
    BY <1>0, <1>1, <2>1 DEF Drawn, DrawnFrom, NumbersUnique, SameCounter, Decided
  <2>3. InTime' /\ LocalPast'
    BY <1>0, <1>1 DEF InTime, LocalPast
  <2> QED BY <1>0, <2>2, <2>3 DEF CountInv
<1>2. ASSUME NEW r \in Requests, Arrive(r) PROVE CountInv'
  BY <1>0, <1>1, <1>2 DEF Arrive, RequestType
<1>3. ASSUME NEW r \in Requests, RedisFail(r) PROVE CountInv'
  BY <1>0, <1>1, <1>3 DEF RedisFail, RequestType
<1>4. ASSUME NEW r \in Requests, RedisRetry(r) PROVE CountInv'
  <2>1. Incr(r) /\ UNCHANGED <<now, local, req>>
    BY <1>4 DEF RedisRetry
  <2>2. Drawn'
    BY <1>0, <2>1, Counted, OthersStayDrawn DEF Drawn, Decided
  <2> QED BY <1>0, <2>1, <2>2 DEF CountInv, InTime, LocalPast, NumbersUnique, SameCounter, Decided
<1>5. CASE Tick
  <2>1. now' = now + 1 /\ UNCHANGED <<redis, local, req>>
        /\ \A r \in Requests : req[r].pc = "redis" => req[r].window = now
    BY <1>5 DEF Tick
  <2>2. InTime'
    BY <1>0, <2>1 DEF InTime
  <2>3. LocalPast'
    <3>1. ASSUME NEW i \in Instances, NEW k \in Keys PROVE local[i][k].window \in Nat
      <4>1. local[i][k] \in BucketType
        BY <1>0 DEF TypeOK, BucketType
      <4> QED BY <4>1, WindowsAreNumbers DEF BucketType
    <3> QED BY <1>0, <2>1, <3>1 DEF LocalPast
  <2>4. Drawn'
    <3>1. ASSUME NEW s \in Requests, Decided(s) PROVE DrawnFrom(req[s])'
      BY <1>0, <2>1, <3>1 DEF Drawn, DrawnFrom
    <3> QED BY <2>1, <3>1 DEF Drawn, Decided
  <2> QED BY <1>0, <2>1, <2>2, <2>3, <2>4 DEF CountInv, NumbersUnique, SameCounter, Decided
<1>6. ASSUME NEW w \in Windows, NEW k \in Keys, Expire(w, k) PROVE CountInv'
  <2>1. /\ w + 2 <= now /\ redis' = [redis EXCEPT ![w][k] = 0]
        /\ UNCHANGED <<now, local, req>> /\ w \in Nat
    BY <1>0, <1>6, WindowsAreNumbers DEF Expire, Lifetime
  <2>2. \A v \in Windows, l \in Keys : v # w => redis'[v][l] = redis[v][l]
    BY <1>0, <2>1 DEF TypeOK
  <2>3. ASSUME NEW s \in Requests, Decided(s) PROVE DrawnFrom(req[s])'
    <3>1. DrawnFrom(req[s]) /\ req[s].window \in Windows /\ req[s].key \in Keys
      BY <1>0, <2>3 DEF Drawn, RequestType
    <3>2. CASE req[s].window = w
      BY <1>0, <2>1, <3>1, <3>2 DEF DrawnFrom
    <3>3. CASE req[s].window # w
      BY <2>1, <2>2, <3>1, <3>3 DEF DrawnFrom
    <3> QED BY <3>2, <3>3
  <2>4. Drawn'
    BY <2>1, <2>3 DEF Drawn, Decided
  <2> QED BY <1>0, <2>1, <2>4 DEF CountInv, InTime, LocalPast, NumbersUnique, SameCounter, Decided
<1>7. CASE UNCHANGED vars
  BY <1>0, <1>7 DEF vars, CountInv, InTime, LocalPast, Drawn, DrawnFrom, NumbersUnique,
                    SameCounter, Decided
<1> QED BY <1>2, <1>3, <1>4, <1>5, <1>6, <1>7, ReplyCounts, LocalCounts DEF Next, Serve

LEMMA CountInvariant == Spec => []CountInv
<1>1. Init => CountInv
  <2> SUFFICES ASSUME Init PROVE CountInv
    OBVIOUS
  <2>1. \A r \in Requests : req[r].pc = "new"
    BY DEF Init
  <2>2. LocalPast
    BY DEF Init, LocalPast, NoBucket
  <2> QED BY <2>1, <2>2, InitType DEF CountInv, InTime, Drawn, NumbersUnique, SameCounter, Decided
<1>2. CountInv /\ [Next]_vars => CountInv'
  BY CountKept
<1> QED BY <1>1, <1>2, PTL DEF Spec

(* No counter hands out a number twice, whether a reply is lost, a call is  *)
(* late, a key expires or the map is cleaned.                               *)
THEOREM NumbersAreUnique == Spec => []NumbersUnique
<1>1. CountInv => NumbersUnique
  BY DEF CountInv
<1> QED BY <1>1, CountInvariant, PTL

-----------------------------------------------------------------------------
(* The limit. *)

(* The requests that have passed on the counter of r. *)
PassedWith(r) == {s \in Requests : SameCounter(r, s) /\ req[s].pc = "passed"}

(* Each counter lets at most Limit requests through: those it has let      *)
(* through hold different numbers up to Limit.                             *)
THEOREM CountersLimit == Spec => []PerCounterLimit
<1>1. CountInv => PerCounterLimit
  <2> SUFFICES ASSUME CountInv, NEW r \in Requests PROVE Cardinality(PassedWith(r)) <= Limit
    BY DEF PerCounterLimit, PassedWith
  <2> DEFINE S == PassedWith(r)
             f == [s \in S |-> req[s].number]
  <2>1. ASSUME NEW s \in S PROVE req[s].number \in 1..Limit
    <3>1. s \in Requests /\ Decided(s) /\ req[s].pc = "passed"
      BY DEF PassedWith, SameCounter
    <3>2. DrawnFrom(req[s]) /\ req[s].number \in Nat
      BY <3>1 DEF CountInv, Drawn, TypeOK
    <3> QED BY <3>1, <3>2, LimiterAssumption DEF DrawnFrom, Verdict
  <2>2. ASSUME NEW s \in S, NEW t \in S, req[s].number = req[t].number PROVE s = t
    <3>1. s \in Requests /\ t \in Requests /\ SameCounter(s, t)
      BY DEF PassedWith, SameCounter
    <3> QED BY <2>2, <3>1 DEF CountInv, NumbersUnique
  <2> HIDE DEF S
  <2>3. f \in Injection(S, 1..Limit)
    BY <2>1, <2>2 DEF Injection, IsInjective
  <2>4. IsFiniteSet(1..Limit) /\ Cardinality(1..Limit) = Limit
    BY LimiterAssumption, FS_Interval
  <2> HIDE DEF f
  <2>5. Cardinality(S) <= Cardinality(1..Limit)
    BY <2>3, <2>4, FS_Injection
  <2> QED BY <2>4, <2>5 DEF S
<1> QED BY <1>1, CountInvariant, PTL

-----------------------------------------------------------------------------
(* The fallback is fair. *)

(* A request drew number m from the counter of instance i for key k in minute w. *)
Drew(q, i, k, w, m) ==
  /\ q.pc \in {"passed", "rejected"} /\ q.source = i /\ q.key = k /\ q.window = w
  /\ q.number = m

(* The numbers of a map begin at one and leave none out. *)
NoGaps ==
  /\ \A i \in Instances, k \in Keys : \A m \in 1..local[i][k].count :
       \E s \in Requests : Drew(req[s], i, k, local[i][k].window, m)
  /\ \A r \in Requests : Decided(r) /\ req[r].source \in Instances =>
       \A m \in 1..req[r].number :
         \E s \in Requests : Drew(req[s], req[r].source, req[r].key, req[r].window, m)

LEMMA DrewStays ==
  ASSUME TypeOK, [Next]_vars, NEW s \in Requests, Decided(s)
  PROVE  req'[s] = req[s]
<1>1. req \in [Requests -> RequestType] /\ req[s].pc \in {"passed", "rejected"}
  BY DEF TypeOK, RequestType, Decided
<1>2. ASSUME NEW r \in Requests, Serve(r) \/ RedisRetry(r) \/ RedisFail(r)
      PROVE  req'[s] = req[s]
  <2>1. CASE r # s
    BY <1>1, <1>2, <2>1
       DEF Serve, Arrive, RedisReply, LocalIncrement, RedisRetry, RedisFail, Decide
  <2>2. CASE r = s
    BY <1>1, <1>2, <2>2 DEF Serve, Arrive, RedisReply, LocalIncrement, RedisRetry, RedisFail
  <2> QED BY <2>1, <2>2
<1> QED BY <1>2 DEF Next, Tick, Expire, vars

LEMMA GapsKept ==
  ASSUME CountInv, NoGaps, [Next]_vars
  PROVE  NoGaps'
<1>0. TypeOK
  BY DEF CountInv
<1>1. ASSUME NEW s \in Requests, NEW i, NEW k, NEW w, NEW m, Drew(req[s], i, k, w, m)
      PROVE  Drew(req'[s], i, k, w, m)
  BY <1>0, <1>1, DrewStays DEF Drew, Decided
<1>2. ASSUME UNCHANGED local,
             \A r \in Requests : Decided(r)' /\ req'[r].source \in Instances => Decided(r)
      PROVE  NoGaps'
  <2>1. ASSUME NEW i \in Instances, NEW k \in Keys, NEW m \in 1..local'[i][k].count
        PROVE  \E s \in Requests : Drew(req'[s], i, k, local'[i][k].window, m)
    BY <1>1, <1>2, <2>1 DEF NoGaps
  <2>2. ASSUME NEW r \in Requests, Decided(r)', req'[r].source \in Instances,
               NEW m \in 1..req'[r].number
        PROVE  \E s \in Requests : Drew(req'[s], req'[r].source, req'[r].key, req'[r].window, m)
    <3>1. req'[r] = req[r] /\ Decided(r)
      BY <1>0, <1>2, <2>2, DrewStays
    <3> QED BY <1>1, <2>2, <3>1 DEF NoGaps
  <2> QED BY <2>1, <2>2 DEF NoGaps, Decided
<1>3. ASSUME NEW r \in Requests, LocalIncrement(r) PROVE NoGaps'
  <2> DEFINE i == req[r].at
             key == req[r].key
             map == Cleaned(local[i])
             bucket == Bumped(map[key])
  <2>1. /\ i \in Instances /\ key \in Keys /\ now \in Windows /\ req[r].pc = "local"
        /\ local' = [local EXCEPT ![i] = [map EXCEPT ![key] = bucket]]
        /\ Decide(r, i, now, bucket.count)
    BY <1>0, <1>3 DEF TypeOK, LocalIncrement
  <2>2. /\ map \in [Keys -> BucketType] /\ bucket.window = now /\ bucket.count \in Nat
        /\ bucket.count > 0
    BY <1>0, <2>1, LocalTypes
  <2>3. ASSUME NEW k \in Keys PROVE map[k] = local[i][k] \/ map[k].count = 0
    BY <2>1, <1>0 DEF Cleaned, TypeOK, NoBucket
  <2>4. ASSUME NEW k \in Keys, NEW m \in 1..map[k].count
        PROVE  \E s \in Requests : Drew(req[s], i, k, map[k].window, m)
    BY <2>1, <2>3, <2>4 DEF NoGaps
  <2>5. \/ bucket.count = 1
        \/ bucket.count = map[key].count + 1 /\ map[key].window = now
    <3>1. map[key] \in BucketType
      BY <2>1, <2>2
    <3> HIDE DEF map
    <3> QED BY <2>1, <3>1 DEF Bumped, BucketType
  <2>6. map[key].count \in Nat
    BY <2>1, <2>2 DEF BucketType
  <2>7. /\ local'[i][key] = bucket
        /\ \A j \in Instances, k \in Keys :
             /\ j # i => local'[j][k] = local[j][k]
             /\ j = i /\ k # key => local'[j][k] = map[k]
    BY <1>0, <2>1, <2>2 DEF TypeOK
  <2> HIDE DEF map, bucket, i, key
  <2>8. /\ \A s \in Requests : s # r => req'[s] = req[s]
        /\ req'[r].pc \in {"passed", "rejected"} /\ req'[r].source = i
        /\ req'[r].window = now /\ req'[r].key = key /\ req'[r].number = bucket.count
    BY <1>0, <2>1, <2>2, DecidedRequest DEF key
  <2>9. ASSUME NEW m \in 1..bucket.count
        PROVE  \E s \in Requests : Drew(req'[s], i, key, now, m)
    <3>1. CASE m = bucket.count
      <4>1. Drew(req'[r], i, key, now, m)
        BY <2>8, <3>1 DEF Drew, Decided
      <4> QED BY <4>1
    <3>2. CASE m # bucket.count
      <4>1. m \in 1..map[key].count /\ map[key].window = now
        BY <2>2, <2>5, <2>6, <3>2
      <4> QED BY <1>1, <2>1, <2>4, <4>1
    <3> QED BY <3>1, <3>2
  <2>10. ASSUME NEW j \in Instances, NEW k \in Keys, NEW m \in 1..local'[j][k].count
         PROVE  \E s \in Requests : Drew(req'[s], j, k, local'[j][k].window, m)
    <3>1. CASE j # i
      BY <1>1, <2>7, <2>10, <3>1 DEF NoGaps
    <3>2. CASE j = i /\ k # key
      BY <1>1, <2>4, <2>7, <2>10, <3>2
    <3>3. CASE j = i /\ k = key
      BY <2>2, <2>7, <2>9, <2>10, <3>3
    <3> QED BY <3>1, <3>2, <3>3
  <2>11. ASSUME NEW q \in Requests, Decided(q)', req'[q].source \in Instances,
                NEW m \in 1..req'[q].number
         PROVE  \E s \in Requests : Drew(req'[s], req'[q].source, req'[q].key, req'[q].window, m)
    <3>1. CASE q = r
      BY <2>8, <2>9, <2>11, <3>1
    <3>2. CASE q # r
      <4>1. req'[q] = req[q] /\ Decided(q)
        BY <2>8, <2>11, <3>2 DEF Decided
      <4> QED BY <1>1, <2>11, <4>1 DEF NoGaps
    <3> QED BY <3>1, <3>2
  <2> QED BY <2>10, <2>11 DEF NoGaps, Decided
<1>4. ASSUME NEW r \in Requests, RedisReply(r) PROVE NoGaps'
  <2>1. \A s \in Requests : s # r => req'[s] = req[s]
    BY <1>0, <1>4 DEF RedisReply, Decide, TypeOK
  <2>2. req'[r].source = "redis"
    BY <1>0, <1>4 DEF RedisReply, Decide, TypeOK
  <2> QED BY <1>2, <1>4, <2>1, <2>2, LimiterAssumption DEF RedisReply, Decided
<1>5. ASSUME NEW r \in Requests, Arrive(r) \/ RedisFail(r) PROVE NoGaps'
  <2>1. \A s \in Requests : s # r => req'[s] = req[s]
    BY <1>0, <1>5 DEF Arrive, RedisFail, TypeOK
  <2>2. req'[r].pc \in {"redis", "local"}
    BY <1>0, <1>5 DEF Arrive, RedisFail, TypeOK
  <2> QED BY <1>2, <1>5, <2>1, <2>2 DEF Arrive, RedisFail, Decided
<1>6. CASE UNCHANGED <<local, req>>
  BY <1>2, <1>6 DEF Decided
<1> QED BY <1>3, <1>4, <1>5, <1>6 DEF Next, Serve, RedisRetry, Tick, Expire, vars

(* The fallback rejects a request only when Limit others have passed before *)
(* it on its counter.                                                       *)
THEOREM RejectionsAreEarned == Spec => []NoSpuriousRejection
<1>1. Init => NoGaps
  <2> SUFFICES ASSUME Init PROVE NoGaps
    OBVIOUS
  <2>1. \A r \in Requests : ~Decided(r)
    BY DEF Init, Decided
  <2>2. \A i \in Instances, k \in Keys : local[i][k].count = 0
    BY DEF Init, NoBucket
  <2> QED BY <2>1, <2>2 DEF NoGaps
<1>2. CountInv /\ NoGaps /\ [Next]_vars => NoGaps'
  BY GapsKept
<1>3. CountInv /\ NoGaps => NoSpuriousRejection
  <2> SUFFICES ASSUME CountInv, NoGaps, NEW r \in Requests, req[r].pc = "rejected",
                      req[r].source \in Instances
               PROVE  Cardinality(PassedWith(r)) >= Limit
    BY DEF NoSpuriousRejection, PassedWith
  <2> DEFINE S == PassedWith(r)
             with(m) == CHOOSE s \in S : req[s].number = m
             f == [m \in 1..Limit |-> with(m)]
  <2>1. Decided(r) /\ req[r].number \in Nat /\ req[r].number > Limit
    BY LimiterAssumption DEF Decided, CountInv, Drawn, DrawnFrom, Verdict, TypeOK
  <2>2. ASSUME NEW m \in 1..Limit PROVE \E s \in S : req[s].number = m
    <3>1. m \in 1..req[r].number
      BY <2>1, LimiterAssumption
    <3>2. PICK s \in Requests : Drew(req[s], req[r].source, req[r].key, req[r].window, m)
      BY <2>1, <3>1 DEF NoGaps
    <3>3. Decided(s) /\ req[s].number = m
      BY <3>2 DEF Drew, Decided
    <3>4. req[s].pc = "passed"
      BY <3>3, LimiterAssumption DEF CountInv, Drawn, DrawnFrom, Verdict
    <3> QED BY <2>1, <3>2, <3>3, <3>4 DEF PassedWith, SameCounter, Drew
  <2>3. IsFiniteSet(S)
    <3>1. S \in SUBSET Requests
      BY DEF PassedWith
    <3> HIDE DEF S
    <3> QED BY <3>1, LimiterAssumption, FS_Subset
  <2> HIDE DEF S
  <2>4. \A m \in 1..Limit : with(m) \in S /\ req[with(m)].number = m
    BY <2>2
  <2> HIDE DEF with
  <2>5. f \in Injection(1..Limit, S)
    BY <2>4 DEF Injection, IsInjective
  <2>6. Cardinality(1..Limit) = Limit
    BY LimiterAssumption, FS_Interval
  <2> HIDE DEF f
  <2>7. Cardinality(1..Limit) <= Cardinality(S)
    BY <2>3, <2>5, FS_Injection
  <2>8. Cardinality(S) \in Nat
    BY <2>3, FS_CardinalityType
  <2> QED BY <2>6, <2>7, <2>8, LimiterAssumption DEF S
<1> QED BY <1>1, <1>2, <1>3, CountInvariant, PTL DEF Spec

-----------------------------------------------------------------------------
(* The map. *)

LEMMA TrackedFinite ==
  ASSUME NEW map
  PROVE  IsFiniteSet(Tracked(map)) /\ Cardinality(Tracked(map)) \in Nat
<1>1. Tracked(map) \in SUBSET Keys
  BY DEF Tracked
<1> QED BY <1>1, LimiterAssumption, FS_Subset, FS_CardinalityType

(* The local map holds more than Threshold keys only if all are of one minute. *)
THEOREM MapsAreBounded == Spec => []MapBounded
<1>1. Init => MapBounded
  <2> SUFFICES ASSUME Init PROVE MapBounded
    OBVIOUS
  <2>1. \A i \in Instances : Tracked(local[i]) = {}
    BY DEF Init, Tracked, NoBucket
  <2> QED BY <2>1 DEF MapBounded
<1>2. CountInv /\ MapBounded /\ [Next]_vars => MapBounded'
  <2> SUFFICES ASSUME CountInv, MapBounded, [Next]_vars PROVE MapBounded'
    OBVIOUS
  <2>0. TypeOK /\ LocalPast
    BY DEF CountInv
  <2>1. ASSUME NEW r \in Requests, LocalIncrement(r) PROVE MapBounded'
    <3> DEFINE i == req[r].at
               key == req[r].key
               map == Cleaned(local[i])
               bucket == Bumped(map[key])
               next == [map EXCEPT ![key] = bucket]
    <3>1. /\ i \in Instances /\ key \in Keys /\ now \in Nat
          /\ local' = [local EXCEPT ![i] = next]
      BY <2>0, <2>1, WindowsAreNumbers DEF TypeOK, LocalIncrement
    <3>2. map \in [Keys -> BucketType] /\ bucket.window = now
      BY <2>0, <3>1, LocalTypes
    <3>3. ASSUME NEW k \in Keys PROVE next[k] = IF k = key THEN bucket ELSE map[k]
      BY <3>1, <3>2
    <3>4. ASSUME Cardinality(Tracked(local[i])) < Threshold
          PROVE  Cardinality(Tracked(next)) <= Threshold
      <4>1. map = local[i]
        BY <3>4 DEF Cleaned
      <4>2. Tracked(next) \in SUBSET (Tracked(map) \cup {key})
        BY <3>3 DEF Tracked
      <4>3. IsFiniteSet(Tracked(map) \cup {key})
            /\ Cardinality(Tracked(map) \cup {key}) <= Cardinality(Tracked(map)) + 1
            /\ Cardinality(Tracked(map)) \in Nat
        <5>1. IsFiniteSet(Tracked(map)) /\ Cardinality(Tracked(map)) \in Nat
          BY TrackedFinite
        <5> HIDE DEF map
        <5> QED BY <5>1, FS_AddElement
      <4>4. Cardinality(Tracked(next)) <= Cardinality(Tracked(map) \cup {key})
        BY <4>2, <4>3, FS_Subset
      <4> HIDE DEF map, next
      <4>5. Cardinality(Tracked(next)) \in Nat
            /\ Cardinality(Tracked(map) \cup {key}) \in Nat
        BY <4>3, TrackedFinite, FS_CardinalityType
      <4> QED BY <3>4, <4>1, <4>3, <4>4, <4>5, LimiterAssumption
    <3>5. ASSUME ~(Cardinality(Tracked(local[i])) < Threshold), NEW k \in Tracked(next)
          PROVE  next[k].window = now
      <4>1. k \in Keys /\ next[k].count > 0
        BY DEF Tracked
      <4>2. CASE k = key
        BY <3>2, <3>3, <4>1, <4>2
      <4>3. CASE k # key
        <5>0. map[k] = next[k] /\ ~(map[k].count = 0)
          BY <3>3, <4>1, <4>3
        <5>1. map[k] = local[i][k] /\ ~(local[i][k].window < now)
          BY <3>5, <4>1, <5>0 DEF Cleaned, NoBucket
        <5>2. local[i][k].window \in Nat /\ local[i][k].window <= now
          <6>1. local[i][k] \in BucketType
            BY <2>0, <3>1, <4>1 DEF TypeOK, BucketType
          <6> QED BY <2>0, <3>1, <4>1, <6>1, WindowsAreNumbers DEF BucketType, LocalPast
        <5> HIDE DEF map, i, bucket, next
        <5> QED BY <3>1, <3>3, <4>1, <4>3, <5>1, <5>2
      <4> QED BY <4>2, <4>3
    <3> HIDE DEF next, map, bucket
    <3>6. ASSUME NEW j \in Instances, Cardinality(Tracked(local'[j])) > Threshold,
                 NEW k \in Tracked(local'[j]), NEW l \in Tracked(local'[j])
          PROVE  local'[j][k].window = local'[j][l].window
      <4>1. CASE j # i
        <5>1. local'[j] = local[j]
          BY <2>0, <3>1, <4>1 DEF TypeOK
        <5> QED BY <3>6, <5>1 DEF MapBounded
      <4>2. CASE j = i
        <5>1. local'[j] = next
          BY <2>0, <3>1, <4>2 DEF TypeOK
        <5>2. Cardinality(Tracked(next)) \in Nat
          BY TrackedFinite
        <5>3. ~(Cardinality(Tracked(local[i])) < Threshold)
          BY <3>4, <3>6, <5>1, <5>2, LimiterAssumption
        <5> QED BY <3>5, <3>6, <5>1, <5>3
      <4> QED BY <4>1, <4>2
    <3> QED BY <3>6 DEF MapBounded, Tracked
  <2>2. CASE UNCHANGED local
    BY <2>2 DEF MapBounded, Tracked
  <2> QED BY <2>1, <2>2 DEF Next, Serve, Arrive, RedisReply, RedisRetry, RedisFail, Tick,
                            Expire, vars
<1> QED BY <1>1, <1>2, CountInvariant, PTL DEF Spec

-----------------------------------------------------------------------------
(* Implementation of the abstract admission. *)

(* The verdict the abstract module sees. *)
VerdictOf(r) == IF Decided(r) THEN <<req[r].pc, CounterOf(r)>> ELSE << >>

Verdicts == [r \in Requests |-> VerdictOf(r)]

LEMMA OpenIsNoVerdict == \A says, c : << >> # <<says, c>>
OBVIOUS

LEMMA SameVerdicts == \A a, b, c, d : <<a, b>> = <<c, d>> <=> a = c /\ b = d
OBVIOUS

(* A step leaves all verdicts alone, or speaks one that was open. *)
LEMMA JudgingSteps ==
  ASSUME TypeOK, [Next]_vars
  PROVE  \/ \A s \in Requests : Decided(s)' = Decided(s) /\ (Decided(s) => req'[s] = req[s])
         \/ \E r \in Requests : /\ ~Decided(r) /\ Decided(r)'
                                /\ \A s \in Requests : s # r => req'[s] = req[s]
<1>0. req \in [Requests -> RequestType]
  BY DEF TypeOK, RequestType
<1>1. ASSUME NEW r \in Requests, Arrive(r) \/ RedisFail(r)
      PROVE  \A s \in Requests : Decided(s)' = Decided(s) /\ (Decided(s) => req'[s] = req[s])
  BY <1>0, <1>1 DEF Arrive, RedisFail, Decided, RequestType
<1>2. ASSUME NEW r \in Requests, RedisReply(r) \/ LocalIncrement(r)
      PROVE  /\ ~Decided(r) /\ Decided(r)'
             /\ \A s \in Requests : s # r => req'[s] = req[s]
  <2>1. PICK source, window, number : Decide(r, source, window, number)
    BY <1>2 DEF RedisReply, LocalIncrement
  <2>2. req'[r].pc = Verdict(number) /\ \A s \in Requests : s # r => req'[s] = req[s]
    BY <1>0, <2>1 DEF Decide, RequestType
  <2>3. req[r].pc \in {"redis", "local"}
    BY <1>2 DEF RedisReply, LocalIncrement
  <2> QED BY <2>2, <2>3 DEF Verdict, Decided
<1>3. CASE UNCHANGED req
  BY <1>3 DEF Decided
<1> QED BY <1>1, <1>2, <1>3 DEF Next, Serve, RedisRetry, Tick, Expire, vars

(* Both modules count alike. *)
LEMMA SameCardinality == \A S : Admitting!Cardinality(S) = Cardinality(S)
BY DEF Admitting!Cardinality, Cardinality

(* The requests passed by a counter, in the terms of both modules. *)
LEMMA PassesBy ==
  ASSUME NEW c
  PROVE  Admitting!PassedBy(c) =
           {s \in Requests : Decided(s) /\ req[s].pc = "passed" /\ CounterOf(s) = c}
<1>1. Admitting!PassedBy(c) = {s \in Requests : VerdictOf(s) = <<"passed", c>>}
  BY DEF Admitting!PassedBy, VerdictOf
<1>2. ASSUME NEW s
      PROVE  VerdictOf(s) = <<"passed", c>>
             <=> Decided(s) /\ req[s].pc = "passed" /\ CounterOf(s) = c
  BY OpenIsNoVerdict, SameVerdicts, Zenon DEF VerdictOf
<1> QED BY <1>1, <1>2

LEMMA CounterEquality ==
  \A r, s : CounterOf(r)' = CounterOf(s)'
            <=> /\ req'[r].source = req'[s].source /\ req'[r].key = req'[s].key
                /\ req'[r].window = req'[s].window
BY DEF CounterOf

(* A verdict is allowed by the verdicts before it: the new one is counted   *)
(* by the invariants of the state it leads to.                              *)
LEMMA VerdictIsAllowed ==
  ASSUME TypeOK, TypeOK', PerCounterLimit', NoSpuriousRejection',
         NEW r \in Requests, ~Decided(r), Decided(r)',
         \A s \in Requests : s # r => req'[s] = req[s]
  PROVE  LET c == CounterOf(r)'
             earlier == Admitting!PassedBy(c) IN
         /\ c \in Counters
         /\ req'[r].pc = "passed" => Cardinality(earlier) < Limit
         /\ req'[r].pc = "rejected" =>
              c \in RedisCounters \/ Cardinality(earlier) >= Limit
<1> DEFINE c == CounterOf(r)'
           earlier == Admitting!PassedBy(c)
           now_ == {s \in Requests : SameCounter(r, s)' /\ req'[s].pc = "passed"}
<1>1. c \in Counters /\ c.source = req'[r].source
  BY DEF CounterOf, Counters, TypeOK
<1>2. earlier = {s \in Requests : Decided(s) /\ req[s].pc = "passed" /\ CounterOf(s) = c}
  BY PassesBy
<1>3. r \notin earlier
  BY <1>2
<1>4. ASSUME NEW s \in Requests, s # r PROVE s \in earlier <=> s \in now_
  <2>1. req'[s] = req[s] /\ Decided(s)' = Decided(s) /\ CounterOf(s)' = CounterOf(s)
    BY <1>4 DEF Decided, CounterOf
  <2>2. s \in earlier <=> Decided(s)' /\ req'[s].pc = "passed" /\ CounterOf(s)' = c
    BY <1>2, <2>1
  <2> QED BY <2>2, CounterEquality DEF SameCounter
<1>5. r \in now_ <=> req'[r].pc = "passed"
  BY DEF SameCounter
<1>6. now_ = IF req'[r].pc = "passed" THEN earlier \cup {r} ELSE earlier
  <2>1. earlier \subseteq Requests /\ now_ \subseteq Requests
    BY <1>2
  <2> HIDE DEF earlier, now_
  <2> QED BY <1>3, <1>4, <1>5, <2>1
<1>7. IsFiniteSet(earlier) /\ Cardinality(earlier) \in Nat
  <2>1. earlier \in SUBSET Requests
    BY <1>2
  <2> HIDE DEF earlier
  <2> QED BY <2>1, LimiterAssumption, FS_Subset, FS_CardinalityType
<1>8. Cardinality(now_) <= Limit
  BY DEF PerCounterLimit
<1>9. req'[r].pc = "rejected" /\ req'[r].source \in Instances => Cardinality(now_) >= Limit
  BY DEF NoSpuriousRejection
<1>10. req'[r].source \in {"redis"} \cup Instances
  BY DEF TypeOK
<1> HIDE DEF earlier, now_, c
<1>11. req'[r].pc = "passed" => Cardinality(earlier) < Limit
  <2>1. Cardinality(earlier \cup {r}) = Cardinality(earlier) + 1
    BY <1>3, <1>7, FS_AddElement
  <2> QED BY <1>6, <1>7, <1>8, <2>1, LimiterAssumption
<1>12. ASSUME req'[r].pc = "rejected", c \notin RedisCounters
       PROVE  Cardinality(earlier) >= Limit
  <2>1. req'[r].source \in Instances
    BY <1>1, <1>10, <1>12 DEF RedisCounters
  <2>2. now_ = earlier
    BY <1>6, <1>12
  <2> QED BY <1>9, <1>12, <2>1, <2>2
<1> QED BY <1>1, <1>11, <1>12 DEF c, earlier

LEMMA StepAdmission ==
  ASSUME TypeOK, TypeOK', PerCounterLimit', NoSpuriousRejection', [Next]_vars
  PROVE  [Admitting!Next]_Verdicts
<1>1. CASE \A s \in Requests : Decided(s)' = Decided(s) /\ (Decided(s) => req'[s] = req[s])
  <2>1. \A s \in Requests : VerdictOf(s)' = VerdictOf(s)
    BY <1>1 DEF VerdictOf, CounterOf
  <2> QED BY <2>1 DEF Verdicts
<1>2. ASSUME NEW r \in Requests, ~Decided(r), Decided(r)',
             \A s \in Requests : s # r => req'[s] = req[s]
      PROVE  Admitting!Next
  <2> DEFINE c == CounterOf(r)'
             says == req'[r].pc
  <2>1. /\ c \in Counters /\ says \in {"passed", "rejected"}
        /\ says = "passed" => Cardinality(Admitting!PassedBy(c)) < Limit
        /\ says = "rejected" =>
             c \in RedisCounters \/ Cardinality(Admitting!PassedBy(c)) >= Limit
    BY <1>2, VerdictIsAllowed DEF Decided
  <2>2. /\ \A s \in Requests : s # r => VerdictOf(s)' = VerdictOf(s)
        /\ VerdictOf(r) = << >> /\ VerdictOf(r)' = <<says, c>>
    BY <1>2 DEF VerdictOf, CounterOf, Decided
  <2>3. Verdicts' = [Verdicts EXCEPT ![r] = <<says, c>>]
    BY <2>2 DEF Verdicts
  <2>4. Verdicts[r] = << >> /\ Verdicts'[r] # << >>
    BY <2>2, OpenIsNoVerdict DEF Verdicts
  <2>5. Admitting!Judge(r, says, c)
    BY <2>3 DEF Admitting!Judge, Verdicts, VerdictOf
  <2> HIDE DEF c, says
  <2>6. Admitting!Pass(r, c) \/ Admitting!Reject(r, c)
    BY <2>1, <2>5, SameCardinality DEF Admitting!Pass, Admitting!Reject
  <2> QED BY <2>1, <2>4, <2>6 DEF Admitting!Next, Admitting!Open, Verdicts, VerdictOf
<1> QED BY <1>1, <1>2, JudgingSteps

(* For any number of instances, keys, requests and minutes, and whatever    *)
(* Redis does, the limiter is a limiter: every verdict is the one step of   *)
(* an admission that knows all verdicts before it.                          *)
THEOREM LimiterKeepsAdmission == Spec => KeepsAdmission
<1>1. Init => Admitting!Init
  BY DEF Init, Admitting!Init, Admitting!Open, Decided
<1>2. TypeOK /\ TypeOK' /\ PerCounterLimit' /\ NoSpuriousRejection' /\ [Next]_vars
      => [Admitting!Next]_Verdicts
  BY StepAdmission
<1>3. TypeOK /\ TypeOK' /\ PerCounterLimit' /\ NoSpuriousRejection' /\ [Next]_vars
      => [Admitting!Next]_([r \in Requests |-> IF Decided(r) THEN <<req[r].pc, CounterOf(r)>>
                                                             ELSE << >>])
  BY <1>2 DEF Verdicts, VerdictOf
<1> QED BY <1>1, <1>3, LimiterTypes, CountersLimit, RejectionsAreEarned, PTL
        DEF Spec, KeepsAdmission, Admitting!Spec

-----------------------------------------------------------------------------
(* The limit of the system. *)

(* With n instances at most (n + 1) * Limit requests of a key pass in a     *)
(* minute, whichever of them Redis answers: no more than if each instance   *)
(* and Redis each had the whole limit.                                      *)
THEOREM SystemLimit ==
  ASSUME IsFiniteSet(Instances)
  PROVE  Spec => [](\A k \in Keys, w \in Windows :
                      LET passed == {r \in Requests : /\ req[r].pc = "passed"
                                                      /\ req[r].key = k /\ req[r].window = w} IN
                      Cardinality(passed) <= (Cardinality(Instances) + 1) * Limit)
<1> DEFINE Passed(k, w) == {r \in Requests : /\ req[r].pc = "passed"
                                             /\ req[r].key = k /\ req[r].window = w}
<1>1. ASSUME CountInv, NEW k \in Keys, NEW w \in Windows
      PROVE  Cardinality(Passed(k, w)) <= (Cardinality(Instances) + 1) * Limit
  <2> DEFINE S == Passed(k, w)
             sources == Instances \cup {"redis"}
             T == sources \X (1..Limit)
             f == [s \in S |-> <<req[s].source, req[s].number>>]
  <2>1. ASSUME NEW s \in S
        PROVE  s \in Requests /\ Decided(s) /\ <<req[s].source, req[s].number>> \in T
    <3>1. s \in Requests /\ Decided(s) /\ req[s].pc = "passed"
      BY DEF Decided
    <3>2. DrawnFrom(req[s]) /\ req[s].number \in Nat /\ req[s].source \in sources
      BY <1>1, <3>1 DEF CountInv, Drawn, TypeOK
    <3>3. req[s].number \in 1..Limit
      BY <3>1, <3>2, LimiterAssumption DEF DrawnFrom, Verdict
    <3> QED BY <3>1, <3>2, <3>3
  <2>2. ASSUME NEW s \in S, NEW t \in S, req[s].source = req[t].source,
               req[s].number = req[t].number
        PROVE  s = t
    BY <1>1, <2>1, <2>2 DEF CountInv, NumbersUnique, SameCounter
  <2>3. IsFiniteSet(sources) /\ Cardinality(sources) = Cardinality(Instances) + 1
    BY LimiterAssumption, FS_AddElement
  <2>4. IsFiniteSet(1..Limit) /\ Cardinality(1..Limit) = Limit
    BY LimiterAssumption, FS_Interval
  <2> HIDE DEF sources
  <2>5. IsFiniteSet(T) /\ Cardinality(T) = (Cardinality(Instances) + 1) * Limit
    BY <2>3, <2>4, FS_Product
  <2> HIDE DEF S, T
  <2>6. f \in Injection(S, T)
    BY <2>1, <2>2, SameVerdicts DEF Injection, IsInjective
  <2> HIDE DEF f
  <2> QED BY <2>5, <2>6, FS_Injection DEF S
<1>2. CountInv => \A k \in Keys, w \in Windows :
                    Cardinality(Passed(k, w)) <= (Cardinality(Instances) + 1) * Limit
  BY <1>1
<1> QED BY <1>2, CountInvariant, PTL
=============================================================================
