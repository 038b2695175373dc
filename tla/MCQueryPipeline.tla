-------------------------- MODULE MCQueryPipeline --------------------------
EXTENDS QueryPipeline, TLC

CONSTANTS c1, c2, c3, p1

\* Two children of one parent and a chunk of its own that repeats one of them.
MCParent == c1 :> p1 @@ c2 :> p1 @@ c3 :> None
MCTwins == {{c2, c3}}
MCCost == c1 :> 2 @@ c2 :> 1 @@ c3 :> 2 @@ p1 :> 3

Simple == [advanced |-> FALSE, expand |-> FALSE, dedup |-> TRUE, fallback |-> TRUE,
           topk |-> 3, rescue |-> 0, window |-> 9]
Advanced == [Simple EXCEPT !.advanced = TRUE, !.expand = TRUE, !.rescue = 2]

\* A window that holds no chunk, one that holds every chunk but not with its
\* parent's text, and one without rescue, deduplication or a fallback model.
MCConfigs ==
    {Simple, Advanced,
     [Simple EXCEPT !.dedup = FALSE, !.fallback = FALSE, !.window = 3],
     [Advanced EXCEPT !.dedup = FALSE, !.window = 12]}

\* For two queries at once, over one chunk.
ThinConfigs == {[Simple EXCEPT !.topk = 1], [Advanced EXCEPT !.topk = 1]}
NoTwins == {}

Symmetry == Permutations(Queries)
=============================================================================
