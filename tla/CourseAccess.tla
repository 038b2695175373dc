----------------------------- MODULE CourseAccess -----------------------------
(***************************************************************************)
(* Courses (vektra-learn) on top of namespaces (vektra-admin): students    *)
(* are enrolled in a course, which lives in a namespace; their widget      *)
(* holds a token, asks questions and shows the conversation again; and     *)
(* administrators create, configure and delete the namespaces meanwhile.   *)
(*                                                                         *)
(* A slot is one handler at work, from one database session to the next; a *)
(* handler that is a single transaction is one action and takes no slot.   *)
(***************************************************************************)
EXTENDS Naturals, FiniteSets

CONSTANTS
    Slots,              \* handlers that may overlap
    Seats,              \* a student in a course
    Namespaces,
    Tokens,             \* dashboard tokens, issued again when they have expired
    Convs,              \* conversation ids
    None,
    CourseNs,           \* the namespace named after the seat's course
    Defaults,           \* app.state: what the environment sets
    Claims,             \* what tokens claim of the namespace, None included
    Uploads,            \* namespaces documents are ingested into
    Patches,            \* PATCH requests: a namespace, one setting and its value
    RequireEnrollment,  \* VEKTRA_LEARN_REQUIRE_ENROLLMENT
    Faults              \* "db": database calls may fail

Settings == {"grounding_mode", "show_sources", "citations_enabled"}
Values == {"on", "off"}

ASSUME NoneAssumption == None \notin Namespaces
ASSUME PeopleAssumption == Seats # {} /\ Convs # {}
ASSUME CourseAssumption == CourseNs \in [Seats -> Namespaces]
ASSUME DefaultsAssumption ==
    Defaults \in [Settings -> Values] /\ Defaults["citations_enabled"] = "off"
ASSUME RequestsAssumption ==
    /\ Uploads \subseteq Namespaces
    /\ Patches \subseteq Namespaces \X Settings \X (Values \cup {"unset"})
ASSUME ClaimsAssumption == Claims \subseteq Namespaces \cup {None}
ASSUME SwitchesAssumption == RequireEnrollment \in BOOLEAN /\ Faults \subseteq {"db"}

VARIABLES
    config,     \* namespaces: the config column of each row, None without a row
    maker,      \* the transaction that inserted a row and has not committed
    used,       \* namespaces with rows of source_documents
    enrolled,   \* enrollments: the namespace of each seat, or None
    token,      \* dashboard tokens
    conv,       \* conversations
    slot        \* handlers at work, and the last answer of each slot

vars == <<config, maker, used, enrolled, token, conv, slot>>

-----------------------------------------------------------------------------
Config == [Settings -> Values \cup {"unset"}]
NoConfig == [k \in Settings |-> "unset"]  \* '{}'::jsonb
Reads == <<"grounding_mode", "show_sources", "citations_enabled">>

\* No handler at work: of the last answer only what the properties are about is
\* kept. A setting as label: the session that reads it is next.
Ended == {"idle", "answered", "mismatch"}
Labels == Ended \cup Settings \cup {"insert", "drop", "write", "lookup", "ensure", "run",
                                    "metadata", "turns"}

\* What is known of a handler at work.
Handler ==
    [pc : Labels, seat : Seats, ns : Namespaces \cup {None}, conv : Convs,
     got : [Settings -> Values \cup {"unset"}],
     body : Settings \X (Values \cup {"unset"}), copy : Config,
     kept : BOOLEAN, shaky : BOOLEAN, raced : BOOLEAN]

TypeOK ==
    /\ config \in [Namespaces -> Config \cup {None}]
    /\ maker \in [Namespaces -> Slots \cup {None}]
    /\ used \subseteq Namespaces
    /\ enrolled \in [Seats -> Namespaces \cup {None}]
    /\ token \in [Tokens -> [state : {"none", "valid"}, seat : Seats,
                             claim : Namespaces \cup {None}]]
    /\ conv \in [Convs -> [state : {"absent", "live", "deleted"}, ns : Namespaces \cup {None},
                           seat : Seats]]
    /\ slot \in [Slots -> Handler]

\* A slot that does nothing; handlers fill in what they use.
Empty == [pc |-> "idle", seat |-> CHOOSE a \in Seats : TRUE, ns |-> None,
          conv |-> CHOOSE c \in Convs : TRUE, got |-> NoConfig,
          body |-> <<"grounding_mode", "unset">>, copy |-> NoConfig, kept |-> FALSE, shaky |-> FALSE, raced |-> FALSE]

Init ==
    /\ config = [n \in Namespaces |-> None]
    /\ maker = [n \in Namespaces |-> None]
    /\ used = {}
    /\ enrolled = [a \in Seats |-> None]
    /\ token \in {[t \in Tokens |-> [state |-> "none", seat |-> a, claim |-> None]] : a \in Seats}
    /\ conv \in {[c \in Convs |-> [state |-> "absent", ns |-> None, seat |-> a]] : a \in Seats}
    /\ slot = [s \in Slots |-> Empty]

\* The handler answers, and what it answers is not looked at.
Answer(s) == slot' = [slot EXCEPT ![s] = Empty]

-----------------------------------------------------------------------------
(* Namespaces.                                                             *)

Exists(n) == config[n] # None

\* Mutant of Effective: a setting that is off does not override the default.
EffectiveTruthy(n, k) ==
    IF Exists(n) /\ config[n][k] = "on" THEN "on" ELSE Defaults[k]

\* resolve_grounding_mode, resolve_show_sources, resolve_citations_enabled: the
\* JSONB value of a row that is there and has one, else the default.
Effective(n, k) ==
    IF Exists(n) /\ config[n] # NoConfig /\ config[n][k] \in Values
    THEN config[n][k] ELSE Defaults[k]

\* _resolved_from_stored: what GET config answers for the stored column.
Resolved(stored) == [k \in Settings |-> IF stored[k] = "unset" THEN Defaults[k] ELSE stored[k]]

\* The row of n is written or gone: what others hold of it is out of date.
Outdate(s, n) ==
    slot' = [r \in Slots |->
        CASE r = s -> Empty
          [] r # s /\ slot[r].ns = n /\ slot[r].pc \in Settings \cup {"write", "run"} ->
               [slot[r] EXCEPT !.raced = TRUE]
          [] OTHER -> slot[r]]

\* An insert of n waits for a transaction that has inserted it.
Insertable(n) == maker[n] = None

CreateNamespace(n) ==
    /\ Insertable(n) /\ ~Exists(n)
    /\ config' = [config EXCEPT ![n] = NoConfig]
    /\ UNCHANGED <<maker, used, enrolled, token, conv, slot>>

\* Content ingestion creates the namespace with the document's row.
Ingest(n) ==
    /\ Insertable(n)
    /\ config' = [config EXCEPT ![n] = IF Exists(n) THEN @ ELSE NoConfig]
    /\ used' = used \cup {n}
    /\ UNCHANGED <<maker, enrolled, token, conv, slot>>

\* Rows that name n and keep it from being deleted, deleted conversations too.
Referenced(n) ==
    \/ n \in used
    \/ \E a \in Seats : enrolled[a] = n
    \/ \E c \in Convs : conv[c].state # "absent" /\ conv[c].ns = n

BeginDelete(s, n) ==
    /\ slot[s].pc \in Ended /\ Exists(n)
    /\ slot' = [slot EXCEPT ![s] = [Empty EXCEPT !.pc = "drop", !.ns = n]]
    /\ UNCHANGED <<config, maker, used, enrolled, token, conv>>

\* A namespace somebody else deleted meanwhile is reported as deleted.
Drop(s) ==
    LET n == slot[s].ns IN
    /\ slot[s].pc = "drop"
    /\ IF Referenced(n)
       THEN /\ Answer(s)
            /\ UNCHANGED config
       ELSE /\ config' = [config EXCEPT ![n] = None]
            /\ Outdate(s, n)
    /\ UNCHANGED <<maker, used, enrolled, token, conv>>

\* PATCH: load the row, whose config the body is merged into; 404 without it.
BeginPatch(s, p) ==
    /\ slot[s].pc \in Ended /\ Exists(p[1])
    /\ slot' = [slot EXCEPT ![s] = [Empty EXCEPT !.pc = "write", !.ns = p[1],
                                        !.body = <<p[2], p[3]>>, !.copy = config[p[1]]]]
    /\ UNCHANGED <<config, maker, used, enrolled, token, conv>>

\* Mutant of Merged: the body replaces the config.
MergedReplaces(copy, b) == [NoConfig EXCEPT ![b[1]] = b[2]]

Merged(copy, b) == [copy EXCEPT ![b[1]] = b[2]]

\* UPDATE of the whole column; without a row the ORM raises StaleDataError.
Patch(s) ==
    LET n == slot[s].ns IN
    /\ slot[s].pc = "write"
    /\ config' = IF Exists(n) THEN [config EXCEPT ![n] = Merged(slot[s].copy, slot[s].body)]
                 ELSE config
    /\ Outdate(s, n)
    /\ UNCHANGED <<maker, used, enrolled, token, conv>>

-----------------------------------------------------------------------------
(* Enrolments and tokens.                                                  *)

\* INSERT INTO namespaces ... ON CONFLICT DO NOTHING.
BeginEnroll(s, a, n) ==
    /\ slot[s].pc \in Ended /\ Insertable(n)
    /\ maker' = IF Exists(n) THEN maker ELSE [maker EXCEPT ![n] = s]
    /\ slot' = [slot EXCEPT ![s] = [Empty EXCEPT !.pc = "insert",
                                                 !.seat = a, !.ns = n]]
    /\ UNCHANGED <<config, used, enrolled, token, conv>>

\* The transaction of s is over, and with it its claim on a namespace.
EndTransaction(s) == maker' = [n \in Namespaces |-> IF maker[n] = s THEN None ELSE maker[n]]

\* The flush of the row and the commit: the namespace becomes visible with it.
Enroll(s) ==
    LET a == slot[s].seat
        n == slot[s].ns
    IN  /\ slot[s].pc = "insert"
        /\ enrolled[a] = None
        /\ Exists(n) \/ maker[n] = s
        /\ enrolled' = [enrolled EXCEPT ![a] = n]
        /\ config' = [config EXCEPT ![n] = IF Exists(n) THEN @ ELSE NoConfig]
        /\ EndTransaction(s)
        /\ Answer(s)
        /\ UNCHANGED <<used, token, conv>>

\* Mutant of RefuseEnroll: the namespace's insert was committed first.
RefuseEnrollCommits(s) ==
    /\ slot[s].pc = "insert"
    /\ \/ enrolled[slot[s].seat] # None
       \/ ~Exists(slot[s].ns) /\ maker[slot[s].ns] # s
       \/ "db" \in Faults
    /\ config' = [n \in Namespaces |-> IF maker[n] = s THEN NoConfig ELSE config[n]]
    /\ EndTransaction(s)
    /\ Answer(s)
    /\ UNCHANGED <<used, enrolled, token, conv>>

\* A second enrolment of the seat (23505), a namespace deleted since the first
\* statement (23503), or another error of the flush: all is rolled back.
RefuseEnroll(s) ==
    /\ slot[s].pc = "insert"
    /\ \/ enrolled[slot[s].seat] # None
       \/ ~Exists(slot[s].ns) /\ maker[slot[s].ns] # s
       \/ "db" \in Faults
    /\ EndTransaction(s)
    /\ Answer(s)
    /\ UNCHANGED <<config, used, enrolled, token, conv>>

Unenroll(a) ==
    /\ enrolled[a] # None
    /\ enrolled' = [enrolled EXCEPT ![a] = None]
    /\ UNCHANGED <<config, maker, used, token, conv, slot>>

\* A token is signed for any seat, enrolled or not, with a namespace or without.
IssueToken(t, a, claim) ==
    /\ token[t].state = "none"
    /\ token' = [token EXCEPT ![t] = [state |-> "valid", seat |-> a, claim |-> claim]]
    /\ UNCHANGED <<config, maker, used, enrolled, conv, slot>>

Expire(t) ==
    /\ token[t].state = "valid"
    /\ token' = [token EXCEPT ![t] = [@ EXCEPT !.state = "none", !.claim = None]]
    /\ UNCHANGED <<config, maker, used, enrolled, conv, slot>>

-----------------------------------------------------------------------------
(* POST /learn/query.                                                      *)

\* _resolve_namespace_from_token: the claim, else the course's own name.
TokenNs(t) == IF token[t].claim # None THEN token[t].claim ELSE CourseNs[token[t].seat]

\* A widget names no conversation but one of its own seat, or a new one.
Known(c, a) == conv[c].state = "absent" \/ conv[c].seat = a

BeginQuery(s, t, c) ==
    LET a == token[t].seat IN
    /\ slot[s].pc \in Ended
    /\ token[t].state = "valid" /\ Known(c, a)
    /\ slot' = [slot EXCEPT ![s] =
         [Empty EXCEPT !.seat = a, !.conv = c,
            !.pc = IF RequireEnrollment THEN "lookup" ELSE "ensure",
            !.ns = IF RequireEnrollment THEN None ELSE TokenNs(t)]]
    /\ UNCHANGED <<config, maker, used, enrolled, token, conv>>

Lookup(s) ==
    LET n == enrolled[slot[s].seat] IN
    /\ slot[s].pc = "lookup"
    /\ IF n = None THEN Answer(s)
       ELSE slot' = [slot EXCEPT ![s] = [@ EXCEPT !.pc = "ensure", !.ns = n]]
    /\ UNCHANGED <<config, maker, used, enrolled, token, conv>>

\* Mutant of Ensure: only a conversation the widget names is looked for (BUG-014).
EnsureKnownOnly(s) ==
    /\ slot[s].pc = "ensure"
    /\ slot' = [slot EXCEPT ![s] = [@ EXCEPT !.pc = Reads[1],
                  !.shaky = conv[slot[s].conv].state = "absent" /\ ~Exists(slot[s].ns)]]
    /\ UNCHANGED <<config, maker, used, enrolled, token, conv>>

\* ensure_conversation, whose failure is only logged: without the namespace's
\* row the foreign key refuses a new conversation.
Ensure(s) ==
    LET c == slot[s].conv
        n == slot[s].ns
        new == conv[c].state = "absent"
    IN  /\ slot[s].pc = "ensure"
        /\ \/ /\ conv' = IF new /\ Exists(n)
                         THEN [conv EXCEPT ![c] = [state |-> "live", ns |-> n, seat |-> slot[s].seat]]
                         ELSE conv
              /\ slot' = [slot EXCEPT ![s] = [@ EXCEPT !.pc = Reads[1], !.shaky = new /\ ~Exists(n)]]
           \/ /\ "db" \in Faults
              /\ slot' = [slot EXCEPT ![s] = [@ EXCEPT !.pc = Reads[1], !.shaky = TRUE]]
              /\ UNCHANGED conv
        /\ UNCHANGED <<config, maker, used, enrolled, token>>

\* One session per setting; a failed read counts as the default.
Resolve(s, i) ==
    LET k == Reads[i]
        next == IF i = 3 THEN "run" ELSE Reads[i + 1]
    IN  /\ slot[s].pc = k
        /\ \/ slot' = [slot EXCEPT ![s] =
                [@ EXCEPT !.pc = next, !.got[k] = Effective(slot[s].ns, k)]]
           \/ /\ "db" \in Faults
              /\ slot' = [slot EXCEPT ![s] =
                   [@ EXCEPT !.pc = next, !.got[k] = Defaults[k], !.shaky = TRUE]]
        /\ UNCHANGED <<config, maker, used, enrolled, token, conv>>

\* The pipeline answers, in one piece or as a stream, having added the turn to
\* a conversation that is there and not deleted.
Run(s) ==
    /\ slot[s].pc = "run"
    /\ slot' = [slot EXCEPT ![s] =
         [Empty EXCEPT !.pc = "answered", !.conv = slot[s].conv,
            !.shaky = slot[s].shaky, !.kept = conv[slot[s].conv].state = "live"]]
    /\ UNCHANGED <<config, maker, used, enrolled, token, conv>>

\* DELETE /conversations: the row stays, marked.
DeleteConversation(c) ==
    /\ conv[c].state = "live"
    /\ conv' = [conv EXCEPT ![c].state = "deleted"]
    /\ UNCHANGED <<config, maker, used, enrolled, token, slot>>

-----------------------------------------------------------------------------
(* GET /learn/conversations/{id}/turns.                                    *)

BeginTurns(s, t, c) ==
    /\ slot[s].pc \in Ended
    /\ token[t].state = "valid" /\ Known(c, token[t].seat)
    /\ slot' = [slot EXCEPT ![s] =
         [Empty EXCEPT !.seat = token[t].seat, !.conv = c, !.ns = TokenNs(t),
            !.pc = "metadata"]]
    /\ UNCHANGED <<config, maker, used, enrolled, token, conv>>

\* 404 for a conversation that is gone, 403 for another namespace's, which
\* tells the widget to forget it.
Metadata(s) ==
    LET c == conv[slot[s].conv] IN
    /\ slot[s].pc = "metadata"
    /\ IF c.state # "live" THEN Answer(s)
       ELSE slot' = [slot EXCEPT ![s].pc = IF c.ns = slot[s].ns THEN "turns" ELSE "mismatch"]
    /\ UNCHANGED <<config, maker, used, enrolled, token, conv>>

Turns(s) ==
    /\ slot[s].pc = "turns"
    /\ Answer(s)
    /\ UNCHANGED <<config, maker, used, enrolled, token, conv>>

\* A call raises where the handler does not catch: 500, rolled back.
Fail(s) ==
    /\ "db" \in Faults
    /\ slot[s].pc \in {"drop", "write", "lookup", "run", "metadata", "turns"}
    /\ Answer(s)
    /\ UNCHANGED <<config, maker, used, enrolled, token, conv>>

-----------------------------------------------------------------------------
Step(s) ==
    \/ Drop(s) \/ Patch(s)
    \/ Enroll(s) \/ RefuseEnroll(s)
    \/ Lookup(s) \/ Ensure(s)
    \/ \E i \in 1..3 : Resolve(s, i)
    \/ Run(s)
    \/ Metadata(s) \/ Turns(s)
    \/ Fail(s)

Next ==
    \/ \E n \in Namespaces : CreateNamespace(n)
    \/ \E n \in Uploads : Ingest(n)
    \/ \E a \in Seats : Unenroll(a)
    \/ \E t \in Tokens : Expire(t)
    \/ \E t \in Tokens, a \in Seats, n \in Claims : IssueToken(t, a, n)
    \/ \E c \in Convs : DeleteConversation(c)
    \/ \E s \in Slots :
         \/ \E n \in Namespaces : BeginDelete(s, n)
         \/ \E p \in Patches : BeginPatch(s, p)
         \/ \E a \in Seats, n \in Namespaces : BeginEnroll(s, a, n)
         \/ \E t \in Tokens, c \in Convs : BeginQuery(s, t, c) \/ BeginTurns(s, t, c)
         \/ Step(s)

Spec == Init /\ [][Next]_vars

-----------------------------------------------------------------------------
(* Properties.                                                             *)

\* get_namespace_config: "resolved is what queries actually see at runtime".
\* The two are computed by different code, and a query reads its settings one
\* by one: they agree as long as nobody writes the row meanwhile.
QueriesSeeResolved ==
    \A s \in Slots :
      slot[s].pc = "run" /\ ~slot[s].raced /\ ~slot[s].shaky /\ Exists(slot[s].ns)
      => slot[s].got = Resolved(config[slot[s].ns])

\* BUG-010, BUG-014: the answer's conversation id leads to a conversation that
\* holds its turn, the first one included, unless that was deleted or could
\* not be created when the query began.
TurnIsKept ==
    \A s \in Slots : slot[s].pc = "answered" =>
        slot[s].kept \/ slot[s].shaky \/ conv[slot[s].conv].state = "deleted"

\* A namespace appears by the hand of an administrator or together with the
\* enrolment or the document it was created for: a refused enrolment takes its
\* namespace back.
NamespaceHasReason ==
    [][\A n \in Namespaces : ~Exists(n) /\ config'[n] # None =>
         \/ CreateNamespace(n)
         \/ n \in used'
         \/ \E a \in Seats : enrolled[a] = None /\ enrolled'[a] = n]_vars

\* patch_namespace_config: "keys not present in the body are preserved", when
\* nobody else wrote the row since the PATCH loaded it.
PatchKeepsOthers ==
    [][\A s \in Slots :
         slot[s].pc = "write" /\ slot'[s].pc # "write" /\ Exists(slot[s].ns) /\ ~slot[s].raced
         => \A k \in Settings \ {slot[s].body[1]} :
              config'[slot[s].ns][k] = config[slot[s].ns][k]]_vars

\* _resolve_namespace_from_token: "Same fallback chain used by /query", so a
\* student is not told that a conversation of the namespace the enrolment
\* names belongs to a different course.
OwnTurnsShown ==
    \A s \in Slots : slot[s].pc = "mismatch" => conv[slot[s].conv].ns # enrolled[slot[s].seat]
=============================================================================
