--------------------------- MODULE QueryPipeline ---------------------------
(***************************************************************************)
(* Queries in flight (vektra-core): the route POST /api/v1/query with both *)
(* pipelines, SimpleQueryPipeline and AdvancedQueryPipeline, each as one   *)
(* answer and as a stream of events.  Queries meet in the conversation     *)
(* they belong to (ConversationLog), and any call they make may fail.      *)
(*                                                                         *)
(* Scores are abstracted to the order of the results and to how many of    *)
(* them reach the rescue floor and the relevance threshold; texts to the   *)
(* chunks whose words they hold; answers to where they come from.          *)
(***************************************************************************)
EXTENDS TokenBudget, SequencesExt

CONSTANTS
    Queries,
    Convs,
    Chunks,       \* what the index holds, under any score
    Parent,       \* chunk |-> the parent chunk it was cut from, or None
    Twins,        \* the pairs {c, d} whose words overlap by more than 80%
    Cost,         \* chunk or parent |-> tokens of its text
    TurnCost,     \* tokens of one turn of the history
    Fixed,        \* tokens of system prompt, question and response reserve
    Ratio,        \* context_chunk_ratio in percent
    Configs,      \* the deployments looked at, see Config
    MaxTurns,     \* turns kept by the conversation store
    MaxTokens,    \* bound: tokens of a streamed answer
    Earlier,      \* queries answered before the run starts
    None

N == Cardinality(Chunks)

\* advanced: VEKTRA_QUERY_PIPELINE; topk: SearchResults after rerank;
\* rescue: retrieval_rescue_top_k; fallback: a fallback_model is configured.
Config == [advanced : BOOLEAN, expand : BOOLEAN, dedup : BOOLEAN, fallback : BOOLEAN,
           topk : Nat, rescue : Nat, window : Nat]

ASSUME ConfigAssumption ==
    /\ IsFiniteSet(Chunks)
    /\ Configs \subseteq Config
    /\ Twins \subseteq SUBSET Chunks
    /\ None \notin Convs \cup Queries \cup Chunks
    /\ MaxTurns \in Nat \ {0}
    /\ MaxTokens \in Nat
    /\ Earlier \subseteq Queries /\ IsFiniteSet(Earlier)
    /\ Cardinality(Earlier) <= MaxTurns

\* Token counts, and a ratio validated when the settings are read.
ASSUME BudgetAssumption ==
    /\ \A c \in Chunks : /\ Cost[c] \in Nat
                         /\ Parent[c] # None => Cost[Parent[c]] \in Nat
    /\ TurnCost \in Nat /\ Fixed \in Nat /\ Ratio \in 0..100

\* "text": what the model wrote; "empty": a reply without content; "clean":
\* what the pre_response hook put in its place.
Answers == {"text", "empty", "clean"}
Turns == [query : Queries, answer : Answers \cup {None}]
Events == {"sources", "error", "trace", "done"}
Places == {"idle", "pre", "history", "retrieve", "screen", "expand", "build", "ask",
           "fallback", "stream", "check", "save", "emit"}
Ended == {"rejected", "failed", "closed", "returned"}
Orders == {o \in [Chunks -> 1..N] : \A c, d \in Chunks : o[c] = o[d] => c = d}

VARIABLES
    config,   \* the deployment: fixed when the process starts
    pc,       \* per query
    loc,      \* per query: its locals
    gone,     \* the clients that have disconnected
    log       \* the conversations

vars == <<config, pc, loc, gone, log>>

Log == INSTANCE ConversationLog WITH Questions <- Turns

Locals ==
    [stream : BOOLEAN, strict : BOOLEAN, conv : Convs \cup {None},
     hist : Seq(Turns),               \* history
     rank : Orders,                   \* the order of the scores, best first
     ctx : SUBSET Chunks,             \* filtered
     whole : SUBSET Chunks,           \* those whose snippet is their parent's text
     excl : SUBSET Chunks,            \* filtered_ids of the safeguard
     bare : BOOLEAN,                  \* no_relevant_context
     refused : {"no", "query", "results"},  \* the safeguard that blocked, if any
     prompt : SUBSET Chunks, recall : SUBSET Turns,
     answer : Answers \cup {None},
     made : 0..MaxTokens, got : 0..MaxTokens, \* tokens generated, and forwarded
     todo : Seq(Events),              \* what the stream has left to yield
     sources : SUBSET Chunks,         \* what the client was told it rests on
     only : BOOLEAN,                  \* context_only
     kept : BOOLEAN]                  \* its turn was stored

AnyOrder == CHOOSE o \in Orders : TRUE
Fresh ==
    [stream |-> FALSE, strict |-> TRUE, conv |-> None, hist |-> <<>>,
     rank |-> AnyOrder, ctx |-> {}, whole |-> {}, excl |-> {}, bare |-> FALSE,
     refused |-> "no", prompt |-> {}, recall |-> {}, answer |-> None, made |-> 0,
     got |-> 0, todo |-> <<>>, sources |-> {}, only |-> FALSE, kept |-> FALSE]

\* The conversations are empty but for the turns of the earlier queries, the
\* newest of which may have no answer.
Init ==
    /\ config \in Configs
    /\ pc = [q \in Queries |-> IF q \in Earlier THEN "returned" ELSE "idle"]
    /\ gone = {}
    /\ \E h \in SetToSeqs(Earlier), c \in Convs, last \in {"text", None} :
          LET said(q) == IF q = h[Len(h)] THEN last ELSE "text"
          IN  /\ loc = [q \in Queries |-> IF q \notin Earlier THEN Fresh
                            ELSE [Fresh EXCEPT !.conv = c, !.kept = TRUE, !.answer = said(q)]]
              /\ log = [d \in Convs |-> IF d # c THEN <<>> ELSE
                            [i \in DOMAIN h |-> [query |-> h[i], answer |-> said(h[i])]]]
-----------------------------------------------------------------------------
(* One step of query q: where it goes and what becomes of its locals.      *)

Step(q, from, to, new) ==
    /\ pc[q] = from
    /\ pc' = [pc EXCEPT ![q] = to]
    /\ loc' = [loc EXCEPT ![q] = new]
    /\ UNCHANGED <<config, gone>>

\* A QueryResponse without an answer, or the three events of a stream.
Decline(q, from, l) ==
    IF l.stream
    THEN Step(q, from, "emit", [l EXCEPT !.todo = <<"sources", "trace", "done">>])
    ELSE Step(q, from, "returned",
              IF config.advanced
              THEN [l EXCEPT !.bare = @ /\ l.refused = "no"]
              ELSE [l EXCEPT !.only = l.refused = "results"])

\* Mutant of Proceed: hybrid grounding overrides the safeguard.
ProceedHybrid(q, from, l) ==
    IF l.bare /\ l.strict
    THEN Decline(q, from, l)
    ELSE Step(q, from, IF config.advanced THEN "build" ELSE "history", l)

\* Blocked, or nothing to ground a strict answer on: the model is not asked.
Proceed(q, from, l) ==
    IF l.refused # "no" \/ (l.bare /\ l.strict)
    THEN Decline(q, from, l)
    ELSE Step(q, from, IF config.advanced THEN "build" ELSE "history", l)

\* The route: a query the pre_query hook rejects is answered 400.
Submit(q, stream, strict, c) ==
    /\ \E to \in {"pre", "rejected"} :
          Step(q, "idle", to, [Fresh EXCEPT !.stream = stream, !.strict = strict, !.conv = c])
    /\ UNCHANGED log

\* The pipeline asks the hook again; a hook that raises is skipped.
PreQuery(q) ==
    /\ \/ Decline(q, "pre", [loc[q] EXCEPT !.refused = "query"])
       \/ Step(q, "pre", IF config.advanced THEN "history" ELSE "retrieve", loc[q])
    /\ UNCHANGED log

\* get_history: before the rewrite in the advanced pipeline, before the
\* prompt in the simple one.
ReadHistory(q) ==
    LET c == loc[q].conv IN
    /\ Step(q, "history", IF config.advanced THEN "retrieve" ELSE "build",
            [loc[q] EXCEPT !.hist = IF c = None THEN <<>> ELSE log[c]])
    /\ UNCHANGED log

\* An exception before the prompt ends the query: 5xx, or a stream cut off.
Raise(q) ==
    /\ \E from \in {"history", "retrieve"} : Step(q, from, "failed", loc[q])
    /\ UNCHANGED log
-----------------------------------------------------------------------------
(* Retrieval.                                                              *)

Best(rank, n) == {c \in Chunks : rank[c] <= n}

\* A near-duplicate of a better chunk that is kept goes.
Distinct(S, rank) ==
    LET kept[k \in 0..N] ==
            IF k = 0 THEN {}
            ELSE kept[k - 1] \cup {c \in S : rank[c] = k
                                        /\ \A d \in kept[k - 1] : {c, d} \notin Twins}
    IN  kept[N]

\* _apply_retrieval_filter: fair of the results reach the floor, good of
\* those the threshold.
Filtered(rank, good, fair) ==
    LET S == IF good = 0 /\ config.rescue > 0
             THEN Best(rank, fair) \cap Best(rank, config.rescue)
             ELSE Best(rank, good)
    IN  IF config.dedup THEN Distinct(S, rank) ELSE S

\* Rewrite, embed, search, rerank (what fails of these without an exception
\* only changes the results), then the filter.
Retrieve(q) ==
    /\ pc[q] = "retrieve"
    /\ \E rank \in Orders, fair \in 0..config.topk : \E good \in 0..fair :
          LET S == Filtered(rank, good, fair)
              l == [loc[q] EXCEPT !.rank = rank, !.ctx = S, !.bare = S = {}]
          IN  IF S # {} \/ (l.stream /\ ~l.strict /\ ~config.advanced)
              THEN Step(q, "retrieve", "screen", l)
              ELSE Proceed(q, "retrieve", l)
    /\ UNCHANGED log

\* Mutant of Screened: no recheck of what the safeguard left.
ScreenedOnce(q, l) ==
    IF config.advanced /\ config.expand /\ l.ctx # {}
    THEN Step(q, "screen", "expand", l)
    ELSE Proceed(q, "screen", l)

\* post_retrieval, then the recheck of what is left.
Screened(q, l) ==
    LET r == [l EXCEPT !.bare = @ \/ l.ctx = {}] IN
    IF config.advanced /\ config.expand /\ r.ctx # {}
    THEN Step(q, "screen", "expand", r)
    ELSE Proceed(q, "screen", r)

PostRetrieval(q) ==
    /\ \/ Screened(q, [loc[q] EXCEPT !.ctx = {}, !.refused = "results"])
       \/ \E out \in SUBSET loc[q].ctx :
             Screened(q, [loc[q] EXCEPT !.ctx = @ \ out, !.excl = out])
    /\ UNCHANGED log

\* Mutant of Leaders: every child with a parent gets its text.
LeadersAll(l, found) == {c \in l.ctx : Parent[c] \in found}

\* Of the children of one parent found, the best one is the result that stays.
Leaders(l, found) ==
    {c \in l.ctx : /\ Parent[c] \in found
                   /\ \A d \in l.ctx : Parent[d] = Parent[c] => l.rank[c] <= l.rank[d]}

\* _expand_parents: its siblings go, and it has the text of the parent.  A
\* failed fetch finds none.
ExpandParents(q) ==
    LET l == loc[q] IN
    /\ pc[q] = "expand"
    /\ \E found \in SUBSET ({Parent[c] : c \in l.ctx} \ {None}) :
          LET best == Leaders(l, found) IN
          Proceed(q, "expand",
                  [l EXCEPT !.ctx = {c \in @ : Parent[c] \in found => c \in best},
                            !.whole = best])
    /\ UNCHANGED log
-----------------------------------------------------------------------------
(* Prompt and model.                                                       *)

Tokens(l) ==
    [c \in Chunks |-> Cost[IF c \in l.whole THEN Parent[c] ELSE c]]

\* Best chunks and newest turns first; turns without an answer take room but
\* are left out of the messages.
BuildPrompt(q) ==
    LET l == loc[q]
        age == [i \in DOMAIN l.hist |-> Len(l.hist) + 1 - i]
        turns == Admitted(DOMAIN l.hist, age, Len(l.hist), [i \in DOMAIN l.hist |-> TurnCost],
                          HistoryBudget(config.window, Fixed, Ratio))
    IN
    /\ Step(q, "build", IF l.stream THEN "stream" ELSE "ask",
            [l EXCEPT !.prompt = Admitted(l.ctx, l.rank, N, Tokens(l),
                                          ChunkBudget(config.window, Fixed, Ratio)),
                      !.recall = {l.hist[i] : i \in turns}
                                    \cap {t \in Turns : t.answer \in {"text", "clean"}}])
    /\ UNCHANGED log

\* complete() with the configured model, cut off after fallback_timeout_ms.
Ask(q) ==
    /\ \/ \E a \in {"text", "empty"} : Step(q, "ask", "check", [loc[q] EXCEPT !.answer = a])
       \/ Step(q, "ask", IF config.fallback THEN "fallback" ELSE "check", loc[q])
    /\ UNCHANGED log

AskFallback(q) ==
    /\ \E a \in {"text", "empty", None} :
          Step(q, "fallback", "check", [loc[q] EXCEPT !.answer = a])
    /\ UNCHANGED log

\* Mutant of Token: the generator is not closed.
TokenUnread(q) ==
    LET l == loc[q] IN
    /\ l.made < MaxTokens
    /\ Step(q, "stream", "stream", [l EXCEPT !.made = @ + 1,
                                            !.got = IF q \in gone THEN @ ELSE @ + 1])
    /\ UNCHANGED log

\* A token is generated and yielded; _sse_generator finds the client gone
\* and closes the stream, or forwards it.
Token(q) ==
    LET l == loc[q] IN
    /\ l.made < MaxTokens
    /\ IF q \in gone
       THEN Step(q, "stream", "closed", [l EXCEPT !.made = @ + 1])
       ELSE Step(q, "stream", "stream", [l EXCEPT !.made = @ + 1, !.got = @ + 1])
    /\ UNCHANGED log

StreamEnd(q) ==
    /\ Step(q, "stream", "check",
            [loc[q] EXCEPT !.answer = IF loc[q].made = 0 THEN None ELSE "text"])
    /\ UNCHANGED log

StreamFail(q) ==
    /\ Step(q, "stream", "emit", [loc[q] EXCEPT !.todo = <<"error", "trace", "done">>])
    /\ UNCHANGED log
-----------------------------------------------------------------------------
(* Answer.                                                                 *)

PreResponse(q) ==
    /\ \E a \in {loc[q].answer, None, "clean"} :
          Step(q, "check", "save", [loc[q] EXCEPT !.answer = a])
    /\ UNCHANGED log

\* A full response keeps its turn even without an answer, a stream only with
\* one; a store that fails is logged.
Keeps(l) == l.conv # None /\ (l.stream => l.answer \in {"text", "clean"})

Deliver(q, l) ==
    IF l.stream
    THEN Step(q, "save", "emit", [l EXCEPT !.todo = <<"sources", "trace", "done">>])
    ELSE Step(q, "save", "returned",
              [l EXCEPT !.sources = l.prompt, !.only = l.answer = None /\ ~l.bare])

SaveTurn(q) ==
    LET l == loc[q] IN
    \/ /\ Keeps(l)
       /\ Deliver(q, [l EXCEPT !.kept = TRUE])
       /\ Log!AddTurn(l.conv, [query |-> q, answer |-> l.answer])
    \/ /\ Deliver(q, l)
       /\ UNCHANGED log

\* The last events of a stream; the sources of one that never built a prompt
\* are empty.
Emit(q) ==
    LET l == loc[q] IN
    /\ IF q \in gone
       THEN Step(q, "emit", "closed", l)
       ELSE Step(q, "emit", IF Len(l.todo) = 1 THEN "returned" ELSE "emit",
                 [l EXCEPT !.todo = Tail(@),
                           !.sources = IF Head(l.todo) = "sources" THEN l.prompt ELSE @])
    /\ UNCHANGED log

\* The client of a stream goes away.
Disconnect(q) ==
    /\ pc[q] \notin Ended \cup {"idle"} /\ loc[q].stream /\ q \notin gone
    /\ gone' = gone \cup {q}
    /\ UNCHANGED <<config, pc, loc, log>>
\* ... and the server may cancel the response at whatever it awaits.
Cancel(q) ==
    /\ q \in gone
    /\ \E from \in Places \ {"idle"} : Step(q, from, "closed", loc[q])
    /\ UNCHANGED log
-----------------------------------------------------------------------------
\* Steps that end by themselves: calls that return, raise or time out.
Run(q) ==
    \/ PreQuery(q) \/ ReadHistory(q) \/ Raise(q) \/ Retrieve(q) \/ PostRetrieval(q)
    \/ ExpandParents(q) \/ BuildPrompt(q) \/ Ask(q) \/ AskFallback(q)
    \/ PreResponse(q) \/ SaveTurn(q) \/ Emit(q)

\* What a stream gets from the model; no timeout guards it.
Receive(q) == Token(q) \/ StreamEnd(q) \/ StreamFail(q)

Next ==
    \E q \in Queries :
        \/ \E stream, strict \in BOOLEAN, c \in Convs \cup {None} : Submit(q, stream, strict, c)
        \/ Run(q)
        \/ Receive(q)
        \/ Disconnect(q)
        \/ Cancel(q)

Spec == Init /\ [][Next]_vars
-----------------------------------------------------------------------------
(* Properties.                                                             *)

\* Has the prompt been built?
Prompted(q) == pc[q] \in {"ask", "fallback", "stream", "check", "save"}

\* A safeguard's verdict holds for good: after a refusal the model is not
\* asked, no turn is stored and no source is cited, with either grounding mode,
\* and what post_retrieval filtered out is not cited either.
RefusedIsSilent ==
    \A q \in Queries :
        LET l == loc[q] IN
        /\ l.refused # "no" => /\ ~Prompted(q) /\ pc[q] # "build" /\ ~l.kept
                              /\ l.prompt = {} /\ l.sources = {}
        /\ l.excl \cap (l.prompt \cup l.sources) = {}

\* With strict grounding the model is asked only if some chunk came through the
\* filter, the safeguard and the expansion, and the prompt has none only if each
\* of them is too long by itself.
StrictIsGrounded ==
    \A q \in Queries :
        LET l == loc[q] IN
        Prompted(q) /\ l.strict =>
            /\ l.ctx # {}
            /\ l.prompt = {} => \A c \in l.ctx :
                                 Tokens(l)[c] > ChunkBudget(config.window, Fixed, Ratio)

\* ARCH-055: chunks and history stay within their shares of the window, and a
\* chunk is left out only because the better ones in the prompt leave no room
\* for it, also when its text was replaced by its parent's.
WithinBudget ==
    \A q \in Queries :
        LET l == loc[q]
            cost == Tokens(l)
            room == ChunkBudget(config.window, Fixed, Ratio)
            spent == SumFunctionOnSet(cost, l.prompt)
            better(c) == {d \in l.prompt : l.rank[d] < l.rank[c]}
        IN  Prompted(q) =>
                /\ spent <= room
                /\ \A c \in l.ctx \ l.prompt : SumFunctionOnSet(cost, better(c)) + cost[c] > room
                /\ config.window >= Fixed =>
                      Fixed + spent + TurnCost * Cardinality(l.recall) <= config.window

\* No passage stands twice in a prompt: neither near-duplicates, nor a parent's
\* text next to the text of another of its children.
NothingTwice ==
    \A q \in Queries :
        LET l == loc[q]
            words(c) == IF c \in l.whole THEN {d \in Chunks : Parent[d] = Parent[c]} ELSE {c}
        IN  \A c, d \in l.prompt : c # d =>
                /\ words(c) \cap words(d) = {}
                /\ config.dedup => {c, d} \notin Twins

\* A turn is stored once, in the conversation of its query; an answer that was
\* streamed is stored only if the client was sent all of it, and nobody's
\* history holds a turn of a query still before its own answer.
RememberedWasShown ==
    /\ \A c \in Convs : \A i \in DOMAIN log[c] :
          LET q == log[c][i].query
              l == loc[q]
          IN  /\ l.conv = c /\ l.kept /\ l.got = l.made
              /\ l.stream => log[c][i].answer \in {"text", "clean"}
              /\ \A j \in DOMAIN log[c] : log[c][j].query = q => j = i
    /\ \A q \in Queries : \A t \in loc[q].recall :
          loc[t.query].kept /\ loc[t.query].conv = loc[q].conv

-----------------------------------------------------------------------------
\* REQ-059 (.s2s/requirements.md:565): when the models fail "the client always
\* receives value (relevant sources at minimum)".
ContextOnlyHasSources ==
    \A q \in Queries :
        pc[q] = "returned" /\ loc[q].only /\ loc[q].refused = "no" => loc[q].sources # {}
=============================================================================
