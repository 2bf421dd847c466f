---------------------------- MODULE MCCacheQuery ----------------------------
(* Model-checking instance of CacheQuery: two bars at the cache server, up to *)
(* two bars of the day, queries on both sides of every boundary.              *)
EXTENDS CacheQuery

AllAsks ==
    {CountAsk(0, 4), CountAsk(1, 4), CountAsk(3, 4),
     TimeAsk(2, 4), TimeAsk(3, 4), TimeAsk(4, 3)}

\* The second query is one that the cache server has to complete.
MCAsks ==
    LET first == CHOOSE r \in Requests : TRUE
    IN  [r \in Requests |->
            IF r = first THEN AllAsks ELSE {CountAsk(3, 4), TimeAsk(2, 4)}]
=============================================================================
