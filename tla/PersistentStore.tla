-------------------------- MODULE PersistentStore --------------------------
(***************************************************************************)
(* PersistentConversationStore (vektra-core): the conversations row with   *)
(* its turn_count, and the conversation_turns rows, under concurrent calls *)
(* of add_turn, soft_delete, clear, create and ensure_conversation.        *)
(*                                                                         *)
(* Postgres runs at READ COMMITTED: what a transaction writes shows at its *)
(* commit, and a statement that updates or locks a row waits for the row   *)
(* lock another transaction holds, then looks at the row again.            *)
(* get_history is the refinement mapping to ConversationLog; the other     *)
(* reads are left out.                                                     *)
(***************************************************************************)
EXTENDS Integers, FiniteSets

CONSTANTS
    Convs,      \* conversation ids
    Calls,      \* concurrent add_turn calls
    Questions,  \* what a turn holds
    None,
    MaxTurns,   \* VEKTRA_CONVERSATION_MAX_TURNS
    MaxCount    \* bound: add_turn is called while turn_count is below it

ASSUME MaxTurnsAssumption == MaxTurns \in Nat \ {0}
ASSUME NoneAssumption == None \notin Calls \cup Convs \cup Questions

VARIABLES
    row,     \* none, live, or deleted (deleted_at is set)
    count,   \* turn_count
    turns,   \* turn_number -> what the turn holds
    holder,  \* the call that holds the row lock
    pc, arg  \* add_turn: control; its arguments and the count it read

rowVars == <<row, count, turns>>
callVars == <<holder, pc, arg>>
vars == <<rowVars, callVars>>

Args == [conv : Convs \cup {None}, question : Questions \cup {None}, count : Nat]
NoArgs == [conv |-> None, question |-> None, count |-> 0]

TypeOK ==
    /\ row \in [Convs -> {"none", "live", "deleted"}]
    /\ count \in [Convs -> Nat]
    /\ \A c \in Convs : /\ DOMAIN turns[c] \subseteq Nat
                        /\ turns[c] \in [DOMAIN turns[c] -> Questions]
    /\ DOMAIN turns = Convs
    /\ holder \in [Convs -> Calls \cup {None}]
    /\ pc \in [Calls -> {"idle", "lock", "write"}]
    /\ arg \in [Calls -> Args]

NoTurns == [n \in {} |-> None]

Init ==
    /\ row = [c \in Convs |-> "none"]
    /\ count = [c \in Convs |-> 0]
    /\ turns = [c \in Convs |-> NoTurns]
    /\ holder = [c \in Convs |-> None]
    /\ pc = [k \in Calls |-> "idle"]
    /\ arg = [k \in Calls |-> NoArgs]

-----------------------------------------------------------------------------
\* Mutant of Ensure: the upsert revives a deleted row.
EnsureRevives(c) ==
    /\ row[c] # "live"
    /\ row' = [row EXCEPT ![c] = "live"]
    /\ UNCHANGED <<count, turns, callVars>>

\* create_conversation with a new id, or ensure_conversation, whose INSERT does
\* nothing when the row exists, deleted or not.
Ensure(c) ==
    /\ row[c] = "none"
    /\ row' = [row EXCEPT ![c] = "live"]
    /\ UNCHANGED <<count, turns, callVars>>

\* A query calls add_turn.
AddTurn(k, c, q) ==
    /\ pc[k] = "idle"
    /\ count[c] < MaxCount
    /\ pc' = [pc EXCEPT ![k] = "lock"]
    /\ arg' = [arg EXCEPT ![k] = [conv |-> c, question |-> q, count |-> 0]]
    /\ UNCHANGED <<rowVars, holder>>

Return(k) ==
    /\ pc' = [pc EXCEPT ![k] = "idle"]
    /\ arg' = [arg EXCEPT ![k] = NoArgs]

LockFree(c) == holder[c] = None

\* SELECT turn_count ... WHERE deleted_at IS NULL FOR UPDATE finds the row.
Lock(k) ==
    LET c == arg[k].conv IN
    /\ pc[k] = "lock"
    /\ LockFree(c) /\ row[c] = "live"
    /\ holder' = [holder EXCEPT ![c] = k]
    /\ pc' = [pc EXCEPT ![k] = "write"]
    /\ arg' = [arg EXCEPT ![k] = [@ EXCEPT !.count = count[c]]]
    /\ UNCHANGED rowVars

\* ... or no live row: a warning, and the turn is dropped.
NotFound(k) ==
    LET c == arg[k].conv IN
    /\ pc[k] = "lock"
    /\ LockFree(c) /\ row[c] # "live"
    /\ Return(k)
    /\ UNCHANGED <<rowVars, holder>>

\* Mutant of Pruned: the comparison is strict.
PrunedStrict(n) == 1..(n - MaxTurns - 1)

\* The numbers pruned once turn n is written: turn_number <= n - max_turns.
Pruned(n) == 1..(n - MaxTurns)

\* INSERT, UPDATE turn_count, prune, COMMIT.  The unique constraint on
\* (conversation_id, turn_number) would refuse a number already stored.
Write(k) ==
    LET c == arg[k].conv
        n == arg[k].count + 1
    IN  /\ pc[k] = "write"
        /\ n \notin DOMAIN turns[c]
        /\ turns' = [turns EXCEPT ![c] =
                       [m \in (DOMAIN turns[c] \cup {n}) \ Pruned(n) |->
                           IF m = n THEN arg[k].question ELSE turns[c][m]]]
        /\ count' = [count EXCEPT ![c] = n]
        /\ holder' = [holder EXCEPT ![c] = None]
        /\ Return(k)
        /\ UNCHANGED row

\* A statement fails or the process dies: rolled back, the lock is released.
\* The caller logs a warning and goes on.
Abort(k) ==
    /\ pc[k] # "idle"
    /\ holder' = [c \in Convs |-> IF holder[c] = k THEN None ELSE holder[c]]
    /\ Return(k)
    /\ UNCHANGED rowVars

\* UPDATE conversations SET deleted_at WHERE deleted_at IS NULL.
SoftDelete(c) ==
    /\ LockFree(c) /\ row[c] = "live"
    /\ row' = [row EXCEPT ![c] = "deleted"]
    /\ UNCHANGED <<count, turns, callVars>>

\* DELETE FROM conversations, CASCADE to the turns.
Clear(c) ==
    /\ LockFree(c) /\ row[c] # "none"
    /\ row' = [row EXCEPT ![c] = "none"]
    /\ count' = [count EXCEPT ![c] = 0]
    /\ turns' = [turns EXCEPT ![c] = NoTurns]
    /\ UNCHANGED callVars

Step(k) == Lock(k) \/ NotFound(k) \/ Write(k)

Next ==
    \/ \E c \in Convs : Ensure(c) \/ SoftDelete(c) \/ Clear(c)
    \/ \E k \in Calls, c \in Convs, q \in Questions : AddTurn(k, c, q)
    \/ \E k \in Calls : Step(k) \/ Abort(k)

Spec == Init /\ [][Next]_vars

-----------------------------------------------------------------------------
\* The stored turns of a conversation are always the last MaxTurns of those
\* ever added, without a gap or a repetition, whatever calls overlap.
Window == \A c \in Convs : DOMAIN turns[c] = {n \in 1..count[c] : n + MaxTurns > count[c]}

\* The count read under the row lock is still the count when the turn is
\* inserted, so two calls never compete for one turn_number and no turn is lost
\* to the unique index (conversation.py:232, "prevent duplicate turn_numbers").
CountIsCurrent ==
    \A k \in Calls : pc[k] = "write" =>
        /\ arg[k].count = count[arg[k].conv]
        /\ row[arg[k].conv] = "live"

\* A stored turn is never rewritten and leaves only when MaxTurns newer ones
\* exist or the conversation is cleared; nothing is added to a deleted one.
TurnsPersist ==
    [][\A c \in Convs :
         /\ row[c] = "deleted" => row'[c] \in {"deleted", "none"}
         /\ row'[c] = "deleted" => turns'[c] = turns[c]
         /\ \A n \in DOMAIN turns[c] :
               \/ n \in DOMAIN turns'[c] /\ turns'[c][n] = turns[c][n]
               \/ n + MaxTurns <= count'[c]
               \/ row'[c] = "none"]_vars

-----------------------------------------------------------------------------
\* A lock holder is the one call about to write to that conversation.
HoldersOK ==
    /\ \A k \in Calls : pc[k] # "idle" => arg[k].conv \in Convs /\ arg[k].question \in Questions
    /\ \A k \in Calls : pc[k] = "write" => holder[arg[k].conv] = k
    /\ \A c \in Convs : holder[c] # None =>
          pc[holder[c]] = "write" /\ arg[holder[c]].conv = c

IInv == TypeOK /\ HoldersOK /\ CountIsCurrent /\ Window

-----------------------------------------------------------------------------
\* ORDER BY turn_number.
InOrder(f) ==
    [i \in 1..Cardinality(DOMAIN f) |->
        f[CHOOSE n \in DOMAIN f : Cardinality({m \in DOMAIN f : m <= n}) = i]]

\* get_history: nothing for a deleted conversation.
History(c) == IF row[c] = "live" THEN InOrder(turns[c]) ELSE <<>>

Log == INSTANCE ConversationLog WITH log <- [c \in Convs |-> History(c)]

\* Either store can stand behind a pipeline: what get_history returns from the
\* Postgres store changes exactly as the in-memory list does.
ImplementsLog == Log!Spec
=============================================================================
