--------------------------- MODULE AtomicLibrary ---------------------------
(***************************************************************************)
(* What ingestion promises (BR-003, REQ-033): every name stands for at     *)
(* most one content, a content stands under at most one name, and an       *)
(* ingest either puts its content there in one step or changes nothing.    *)
(***************************************************************************)
CONSTANTS Files, Hashes, None

VARIABLE shelf   \* the content a name stands for, or None

Init == shelf = [f \in Files |-> None]

Publish(f, h) ==
    /\ \A g \in Files : shelf[g] # h
    /\ shelf' = [shelf EXCEPT ![f] = h]

Next == \E f \in Files, h \in Hashes : Publish(f, h)

Spec == Init /\ [][Next]_shelf
=============================================================================
