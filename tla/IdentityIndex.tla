---------------------------- MODULE IdentityIndex -----------------------------
(***************************************************************************)
(* The controller's index of what one edge node should hold and holds      *)
(* (node_cache_sessions and user_node_cache, in internal/db/               *)
(* user_node_cache.go and identity_page.go) and the page of users that its *)
(* session has in flight, with the statements that change them. They are   *)
(* the same for the durable protocol, IdentityOutbox, and for the          *)
(* goroutines and messages that carry it out, IdentitySync.                *)
(***************************************************************************)
EXTENDS Integers

CONSTANTS
    Users,   \* user ids
    Values,  \* contents a user's identity can have on the node
    Absent   \* the node is not authorised for the user, or no such user

VARIABLES
    identity,   \* what the controller's tables say the node should hold
    revision,   \* identity_sync_sequence.revision
    dbSession,  \* node_cache_sessions.session_id
    desired,    \* user_node_cache.desired_revision, 0 when there is no row
    applied,    \* user_node_cache.applied_revision
    epoch,      \* cacheSessionID of the registered session
    page,       \* users of the page in flight, updated and removed
    pageValue,  \* what the page says of each user
    pageRev,    \* pendingRevision, 0 when no page is in flight
    pageLast,   \* pendingCursor
    pageEnd     \* BaselineEnd of the page

pageVars == <<page, pageValue, pageRev, pageLast, pageEnd>>

Contents == Values \cup {Absent}
Empty == [u \in Users |-> Absent]
NoRows == [u \in Users |-> 0]
Max2(a, b) == IF a < b THEN b ELSE a

HasRow(u) == desired[u] > 0
Pending(u) == desired[u] > applied[u]

\* The outbox row: nodes that already have a row, and nodes authorised now.
MarkDirty(u) ==
    desired' = [desired EXCEPT ![u] = IF HasRow(u) \/ identity'[u] # Absent THEN revision' ELSE @]

\* The index is emptied and belongs to the session's epoch.
ResetRows == dbSession' = epoch /\ desired' = NoRows /\ applied' = NoRows

\* The rows of a page's users, written before the page is sent.
PrepareRows(U) ==
    /\ revision' = revision + 1
    /\ desired' = [u \in Users |-> IF u \in U THEN revision + 1 ELSE desired[u]]

\* Mutant of ConfirmedRow: a removed user's row is dropped even when the user
\* has changed since the page was read.
ConfirmedRowDropped(u) ==
    IF u \notin page \/ ~HasRow(u) THEN <<desired[u], applied[u]>>
    ELSE IF pageValue[u] = Absent THEN <<0, 0>>
    ELSE <<desired[u], Max2(applied[u], pageRev)>>

\* The row of a user after its page is acknowledged.
ConfirmedRow(u) ==
    IF u \notin page \/ ~HasRow(u) THEN <<desired[u], applied[u]>>
    ELSE IF pageValue[u] = Absent /\ desired[u] <= pageRev THEN <<0, 0>>
    ELSE <<desired[u], Max2(applied[u], pageRev)>>

NoPage == page' = {} /\ pageValue' = Empty /\ pageRev' = 0 /\ pageLast' = 0 /\ pageEnd' = FALSE
=============================================================================
