--------------------------- MODULE MCRateLimiter ----------------------------
(***************************************************************************)
(* Model values for the runs of RateLimiter.                               *)
(***************************************************************************)
EXTENDS RateLimiter, TLC

CONSTANTS q1, q2, q3,      \* requests
          k1, k2,          \* keys
          a, b             \* instances

ThreeRequests == {q1, q2, q3}
TwoKeys == {k1, k2}
TwoInstances == {a, b}

(* Instances, keys and requests are interchangeable, and of three requests two  *)
(* have the same key: of the starts that differ only in their names, one each,  *)
(* and none with a request that shares neither instance nor key with another.   *)
(* SYMMETRY would not do, as one property of the run is about liveness.         *)
StartUpToNames ==
  /\ Init
  /\ req[q1].at = a /\ req[q1].key = k1 /\ req[q2].key = k1
  /\ req[q2].at = b => req[q3].at = a /\ req[q3].key = k2
  /\ req[q3].at = b => req[q3].key = k1

FairSpecUpToNames == StartUpToNames /\ [][Next]_vars /\ Fairness
=============================================================================
