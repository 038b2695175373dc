---------------------------- MODULE TokenBudget ----------------------------
(***************************************************************************)
(* allocate_token_budget (vektra-core/budget.py): which chunks and which   *)
(* history turns go into a prompt.                                         *)
(***************************************************************************)
EXTENDS Integers

Remaining(window, fixed) == IF window > fixed THEN window - fixed ELSE 0

\* int(remaining * chunk_ratio), the ratio in percent.
ChunkBudget(window, fixed, ratio) == (Remaining(window, fixed) * ratio) \div 100

HistoryBudget(window, fixed, ratio) ==
    Remaining(window, fixed) - ChunkBudget(window, fixed, ratio)

\* Mutant of Admitted: each item is held against the whole budget.
AdmittedAlone(items, rank, last, cost, budget) == {x \in items : cost[x] <= budget}

\* One pass over items in order of rank (1 is looked at first): an item is
\* admitted when it still fits, and a smaller one may follow one that did not.
Admitted(items, rank, last, cost, budget) ==
    LET fits(x, spent) == spent + cost[x] <= budget
        spent[k \in 0..last] ==
            IF k = 0 THEN 0
            ELSE IF \E x \in items : rank[x] = k /\ fits(x, spent[k - 1])
                 THEN spent[k - 1] + cost[CHOOSE x \in items : rank[x] = k]
                 ELSE spent[k - 1]
    IN  {x \in items : fits(x, spent[rank[x] - 1])}
=============================================================================
