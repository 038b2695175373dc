---------------------------- MODULE HybridSearch ----------------------------
(***************************************************************************)
(* Search over the stored chunks in the pgvector store: the dense list,    *)
(* the sparse list, and their reciprocal rank fusion                       *)
(* (vektra_index/providers/pgvector.py).  The similarities are data: a     *)
(* search meets any order of the rows it may return.                       *)
(***************************************************************************)
EXTENDS Chunking, SequencesExt

CONSTANTS
  TopKs,        \* values of a request's top_k
  FetchCap,     \* what either list may hold at most (100 in the code)
  RrfK,         \* the constant of the fusion (60 in the code)
  MaxSearched   \* bound: searchable rows of a document that is searched

(* The request models keep top_k within 1..100 (vektra_core/api.py:76).     *)
ASSUME SearchAssumption ==
  /\ FetchCap \in Nat \ {0} /\ RrfK \in Nat /\ MaxSearched \in Nat
  /\ TopKs \subseteq 1..FetchCap

VARIABLE
  search    \* the request: its step, top_k, the two lists and the answer

allVars == <<chunkVars, search>>

Idle == [step |-> "idle", k |-> 0, dense |-> <<>>, sparse |-> <<>>, answer |-> <<>>]

SearchInit == ChunkInit /\ search = Idle

-----------------------------------------------------------------------------
(* Parents are fetched by id only and are never search results.             *)
SearchableRows == {i \in DOMAIN rows : Searchable(rows[i])}

(* ORDER BY similarity LIMIT n over the rows that qualify, in any order.    *)
Lists(qualify, n) == {SubSeq(s, 1, MinOf(n, Len(s))) : s \in SetToSeqs(qualify)}

(* Both lists are fetched twice as deep as the answer. *)
FetchK(k) == MinOf(2 * k, FetchCap)

DefaultRankFirst(k) == 0
(* 1-based rank; what is not in a list counts as coming just after it.      *)
DefaultRank(k) == FetchK(k) + 1
RankIn(list, i, k) ==
  IF \E r \in DOMAIN list : list[r] = i THEN CHOOSE r \in DOMAIN list : list[r] = i
  ELSE DefaultRank(k)

(* 1/(K + a) + 1/(K + b) > 1/(K + c) + 1/(K + d), without fractions.        *)
Better(a, b, c, d) ==
  (2 * RrfK + a + b) * (RrfK + c) * (RrfK + d) > (2 * RrfK + c + d) * (RrfK + a) * (RrfK + b)

(* Where a list has a row; not found comes after everything found.          *)
Place(list, i) ==
  IF \E r \in DOMAIN list : list[r] = i THEN CHOOSE r \in DOMAIN list : list[r] = i
  ELSE Len(list) + 1

(* all_chunks is filled from the dense list, then from the sparse list.     *)
AllChunks(dense, sparse) == Range(dense) \cup Range(sparse)
FilledBefore(dense, sparse, i, j) ==
  \/ Place(dense, i) < Place(dense, j)
  \/ Place(dense, i) = Place(dense, j) /\ Place(sparse, i) < Place(sparse, j)

(* The order of the answer: by descending score, what has the same score    *)
(* in the order of all_chunks, because the sort is stable.                  *)
Beats(dense, sparse, k, i, j) ==
  Better(RankIn(dense, i, k), RankIn(sparse, i, k), RankIn(dense, j, k), RankIn(sparse, j, k))
Ahead(dense, sparse, k, i, j) ==
  \/ Beats(dense, sparse, k, i, j)
  \/ ~Beats(dense, sparse, k, j, i) /\ FilledBefore(dense, sparse, i, j)

(* The n-th of the answer is the one with n - 1 ahead of it; cut at top_k.  *)
Fused(dense, sparse, k) ==
  LET all == AllChunks(dense, sparse) IN
  [n \in 1..MinOf(k, Cardinality(all)) |->
     CHOOSE i \in all : Cardinality({j \in all : Ahead(dense, sparse, k, j, i)}) = n - 1]

-----------------------------------------------------------------------------
(* The bound on the searched documents: few rows, all of which decoded. *)
SmallEnough == Cardinality(SearchableRows) <= MaxSearched /\ failed = {}

(* The dense read; without a query sparse vector it is the whole answer. *)
DenseOnly(k) ==
  /\ phase = "stored" /\ search.step = "idle" /\ SmallEnough
  /\ \E d \in Lists(SearchableRows, k) :
       search' = [step |-> "answered", k |-> k, dense |-> d, sparse |-> <<>>, answer |-> d]
  /\ UNCHANGED chunkVars

SearchDense(k) ==
  /\ phase = "stored" /\ search.step = "idle" /\ SmallEnough
  /\ \E d \in Lists(SearchableRows, FetchK(k)) :
       search' = [step |-> "dense", k |-> k, dense |-> d, sparse |-> <<>>, answer |-> <<>>]
  /\ UNCHANGED chunkVars

(* The sparse read keeps the rows that have a sparse vector, which is all   *)
(* of a document's or, if it came in without a sparse provider, none; then  *)
(* the lists are fused.                                                     *)
SearchSparse ==
  /\ search.step = "dense"
  /\ \E s \in Lists(SearchableRows, FetchK(search.k)) \cup {<<>>} :
       search' = [search EXCEPT !.step = "answered", !.sparse = s,
                                !.answer = Fused(search.dense, s, search.k)]
  /\ UNCHANGED chunkVars

SearchNext ==
  \/ ChunkNext /\ UNCHANGED search
  \/ \E k \in TopKs : DenseOnly(k) \/ SearchDense(k)
  \/ SearchSparse

SearchSpec == SearchInit /\ [][SearchNext]_allVars /\ WF_chunkVars(ChunkNext)

-----------------------------------------------------------------------------
(* The fused answer never inverts what both lists agree on: a chunk that    *)
(* each list ranks no lower than another (not found counting as lowest) is  *)
(* answered whenever the other is, and before it.  It is as full as top_k   *)
(* and the document allow, repeats nothing and holds no parent chunk.       *)
(* (pgvector.py:316)                                                        *)
AnswerIsFair ==
  search.step = "answered" =>
    LET ans == search.answer
        Agreed(i, j) == /\ Place(search.dense, i) <= Place(search.dense, j)
                        /\ Place(search.sparse, i) <= Place(search.sparse, j)
                        /\ \/ Place(search.dense, i) < Place(search.dense, j)
                           \/ Place(search.sparse, i) < Place(search.sparse, j)
    IN
    /\ \A i, j \in SearchableRows : Agreed(i, j) => Place(ans, i) <= Place(ans, j)
    /\ Len(ans) = MinOf(search.k, Cardinality(SearchableRows))
    /\ IsInjective(ans) /\ Range(ans) \subseteq SearchableRows

(* What makes it inductive: only a stored document is searched, and until   *)
(* the sparse read the dense list is one the dense read could return.       *)
SearchInv ==
  /\ search \in [step : {"idle", "dense", "answered"}, k : Nat,
                 dense : Seq(Nat), sparse : Seq(Nat), answer : Seq(Nat)]
  /\ search.step # "idle" => phase = "stored"
  /\ search.step = "dense" =>
       /\ search.k \in TopKs
       /\ search.dense \in Lists(SearchableRows, FetchK(search.k))
  /\ AnswerIsFair
=============================================================================
