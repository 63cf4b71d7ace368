---------------------------- MODULE MCObservation -----------------------------
\* Instances of Observation for TLC.
EXTENDS Observation, TLC

CONSTANTS q1, q2, h1, h2, v1, v2, p1, s1, s2, s3

\* One person whose first two searches share a scope; the third has its own.
Owners == [s \in Search |-> p1]
Scopes == (s1 :> q1) @@ (s2 :> q1) @@ (s3 :> q2)
Wanted == (s1 :> {v1}) @@ (s2 :> {v1, v2}) @@ (s3 :> {v1, v2})
Ranks == (s1 :> 1) @@ (s2 :> 2) @@ (s3 :> 3)

\* Nothing, or a listing in both of its versions and another one.
Results == {<<>>, <<<<h1, v2>>, <<h1, v1>>, <<h2, v1>>>>}
=============================================================================
