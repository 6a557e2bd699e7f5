----------------------------- MODULE Documents ------------------------------
(***************************************************************************)
(* Storing documents of one owner: the bytes in object storage, named by   *)
(* their checksum, and a row in the database that points at them.          *)
(*                                                                         *)
(* Every caller asks for an immutable document, and nothing deletes one or *)
(* replaces it by a version.  The row is committed with the rest of the    *)
(* caller's transaction, or not at all; the bytes stay where they are put. *)
(***************************************************************************)
EXTENDS FiniteSets

CONSTANTS
    Uploads,        \* requests that store a document
    Contents,       \* by checksum
    Hints           \* the rest of the storage key, with the document's metadata

\* storage_ref, and all there is to tell two rows apart: the owner may have
\* one row per checksum, and one per reference.
Ref == Hints \X Contents

VARIABLES
    objects,    \* references the storage holds
    rows,       \* rows committed, by storage_ref
    request,    \* what each request stores, and how far it got
    answered    \* references a finished request was told are stored

documentVars == <<objects, rows, request, answered>>

Phases == {"new", "checked", "put", "inserted", "done", "refused"}

DocumentInit ==
    /\ objects = {} /\ rows = {} /\ answered = {}
    /\ request \in [Uploads -> [phase : {"new"}, ref : Ref]]

Become(r, phase) == request' = [request EXCEPT ![r].phase = phase]

\* get_by_checksum, and by reference.
RowFor(ref) == {s \in rows : s[2] = ref[2]}

\* What a request makes of the row that already has its checksum.
Settle(r, row) ==
    IF row = request[r].ref
    THEN Become(r, "done") /\ answered' = answered \cup {row}
    ELSE Become(r, "refused") /\ UNCHANGED answered

----------------------------------------------------------------------------

\* The same content is stored already: with the same metadata, that is it.
Find(r) ==
    /\ request[r].phase = "new"
    /\ IF RowFor(request[r].ref) = {}
       THEN Become(r, "checked") /\ UNCHANGED answered
       ELSE \E row \in RowFor(request[r].ref) : Settle(r, row)
    /\ UNCHANGED <<objects, rows>>

\* put: an object that is there is never overwritten.
Put(r) ==
    /\ request[r].phase = "checked"
    /\ objects' = objects \cup {request[r].ref}
    /\ Become(r, "put")
    /\ UNCHANGED <<rows, answered>>

\* A unique index makes the insert wait while another transaction's row has
\* the checksum.
MustWait(r) ==
    \E q \in Uploads \ {r} : /\ request[q].phase = "inserted"
                             /\ request[q].ref[2] = request[r].ref[2]

Insert(r) ==
    /\ request[r].phase = "put" /\ ~ MustWait(r)
    /\ RowFor(request[r].ref) = {}
    /\ Become(r, "inserted")
    /\ UNCHANGED <<objects, rows, answered>>

\* Seeded fault: The object is removed although the row points at it.
CleanUpAlways(ref, row) == objects \ {ref}

\* What a refused insert cleans up: its own object, unless the row that was
\* there first points at it.
CleanUp(ref, row) == IF row # ref THEN objects \ {ref} ELSE objects

\* IntegrityError: roll back, and settle for the row that was there first.
InsertConflicts(r) ==
    /\ request[r].phase = "put" /\ ~ MustWait(r)
    /\ \E row \in RowFor(request[r].ref) :
        /\ Settle(r, row)
        /\ objects' = CleanUp(request[r].ref, row)
    /\ UNCHANGED rows

Commit(r) ==
    /\ request[r].phase = "inserted"
    /\ rows' = rows \cup {request[r].ref}
    /\ answered' = answered \cup {request[r].ref}
    /\ Become(r, "done")
    /\ UNCHANGED objects

\* The caller fails, or the process dies.
RollBack(r) ==
    /\ request[r].phase \in {"checked", "put", "inserted"}
    /\ Become(r, "refused")
    /\ UNCHANGED <<objects, rows, answered>>

DocumentNext ==
    \E r \in Uploads :
        \/ Find(r)
        \/ Put(r)
        \/ Insert(r)
        \/ InsertConflicts(r)
        \/ Commit(r)
        \/ RollBack(r)

DocumentSpec == DocumentInit /\ [][DocumentNext]_documentVars

----------------------------------------------------------------------------

DocumentTypeOK ==
    /\ objects \subseteq Ref /\ rows \subseteq Ref /\ answered \subseteq Ref
    /\ request \in [Uploads -> [phase : Phases, ref : Ref]]

\* Whatever requests do at the same time, what a request was told is stored
\* has its row and its bytes, and a checksum has one row: services/document.py
\* store_document, uq_documents_owner_checksum.
StoredIsThere ==
    /\ answered \subseteq rows
    /\ rows \subseteq objects
    /\ \A s, t \in rows : s[2] = t[2] => s = t

=============================================================================
