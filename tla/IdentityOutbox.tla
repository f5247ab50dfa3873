---------------------------- MODULE IdentityOutbox ----------------------------
(***************************************************************************)
(* The durable side of identity synchronisation between the controller and *)
(* one edge node: the controller's cache index (internal/db/               *)
(* user_node_cache.go, identity_page.go), the cursor of the session that   *)
(* fills it (internal/cluster/push.go, identity_transfer.go) and the       *)
(* edge's SQLite cache (internal/edgestate/edge_runtime.go,                *)
(* identity_reset.go).                                                     *)
(*                                                                         *)
(* Every change of a user commits, with the change itself, a row saying    *)
(* which revision the node should have; a row stays pending until the edge *)
(* has acknowledged that revision. An epoch starts with an empty edge      *)
(* cache and an empty index, fills the edge with a baseline read page by   *)
(* page in id order, and continues with incremental pages of pending       *)
(* users. The lock syncMu makes each controller operation atomic with      *)
(* respect to changes; messages, connections and threads are those of      *)
(* IdentitySync, which refines this module.                                *)
(***************************************************************************)
EXTENDS IdentityIndex

CONSTANTS
    MaxChanges,  \* bound on identity changes
    MaxEpoch,    \* bound on cache sessions
    MaxLost      \* bound on operations that fail after their commit

ASSUME OutboxAssumption ==
    /\ Users \subseteq Nat \ {0}
    /\ Absent \notin Values
    /\ MaxChanges \in Nat /\ MaxEpoch \in Nat /\ MaxLost \in Nat

VARIABLES
    changes,       \* number of changes so far
    ready,         \* cacheReady
    baseline,      \* baselineActive
    cursor,        \* baselineCursor
    edgeEpoch,     \* the last epoch whose cache reset the edge has carried out
    joined,        \* the edge is still connected in that epoch
    cache,         \* the edge's cached_users and the rows that hang on them
    lastRevision,  \* sync_state.last_revision, 0 when there is none
    resetPending,  \* identityResetPending
    lost           \* number of failures after a commit so far

indexVars   == <<dbSession, desired, applied>>
sessionVars == <<epoch, ready, baseline, cursor>>
edgeVars    == <<edgeEpoch, joined, cache, lastRevision, resetPending>>
sourceVars  == <<identity, changes, revision>>
vars        == <<indexVars, sessionVars, pageVars, edgeVars, sourceVars, lost>>

Ahead(u) == baseline /\ u > cursor

Init ==
    /\ identity \in [Users -> Contents]
    /\ changes = 0 /\ revision = 0
    /\ dbSession = 0 /\ desired = NoRows /\ applied = NoRows
    /\ epoch = 0 /\ ready = FALSE /\ baseline = FALSE /\ cursor = 0
    /\ page = {} /\ pageValue = Empty /\ pageRev = 0 /\ pageLast = 0 /\ pageEnd = FALSE
    /\ edgeEpoch = 0 /\ joined = FALSE /\ cache = Empty /\ lastRevision = 0 /\ resetPending = TRUE
    /\ lost = 0

-----------------------------------------------------------------------------
(* Controller *)

\* A user, token, policy or access change, committed with its outbox row.
Mutate(u, v) ==
    /\ changes < MaxChanges
    /\ identity[u] # v
    /\ identity' = [identity EXCEPT ![u] = v]
    /\ changes' = changes + 1
    /\ revision' = revision + 1
    /\ MarkDirty(u)
    /\ UNCHANGED <<dbSession, applied, sessionVars, pageVars, edgeVars, lost>>

\* A new session's hello, or a full refresh of the registered one: the edge is
\* told to clear its cache under a fresh epoch.
StartEpoch ==
    /\ epoch < MaxEpoch
    /\ epoch' = epoch + 1
    /\ ready' = FALSE /\ baseline' = FALSE /\ cursor' = 0
    /\ NoPage
    /\ UNCHANGED <<sourceVars, indexVars, edgeVars, lost>>

\* The edge reported the committed reset: the index is emptied after it.
AcceptCacheCleared ==
    /\ ~ready /\ epoch > 0 /\ edgeEpoch = epoch
    /\ ResetRows
    /\ ready' = TRUE /\ baseline' = TRUE /\ cursor' = 0
    /\ NoPage
    /\ UNCHANGED <<sourceVars, epoch, edgeVars, lost>>

\* The reset commits but its reply is lost; the job is retried.
ResetLost ==
    /\ lost < MaxLost /\ lost' = lost + 1
    /\ ~ready /\ epoch > 0 /\ edgeEpoch = epoch
    /\ ResetRows
    /\ UNCHANGED <<sourceVars, sessionVars, pageVars, edgeVars>>

\* Mutant of SendPage: the rows of the page are not written before it is sent.
SendPageUnprepared(U, last, end) ==
    /\ revision' = revision + 1
    /\ desired' = desired
    /\ page' = U
    /\ pageValue' = [u \in Users |-> IF u \in U THEN identity[u] ELSE Absent]
    /\ pageRev' = revision + 1 /\ pageLast' = last /\ pageEnd' = end
    /\ UNCHANGED <<identity, changes, dbSession, applied, sessionVars, edgeVars, lost>>

\* Prepare the rows of the page's users, then hand the page to the session.
SendPage(U, last, end) ==
    /\ PrepareRows(U)
    /\ page' = U
    /\ pageValue' = [u \in Users |-> IF u \in U THEN identity[u] ELSE Absent]
    /\ pageRev' = revision + 1 /\ pageLast' = last /\ pageEnd' = end
    /\ UNCHANGED <<identity, changes, dbSession, applied, sessionVars, edgeVars, lost>>

\* A baseline page: the next authorised users in id order, at most a limit.
PushBaseline(last) ==
    LET U == {u \in Users : cursor < u /\ u <= last /\ identity[u] # Absent}
        end == \A u \in Users : u > last => identity[u] = Absent
    IN  /\ ready /\ dbSession = epoch /\ pageRev = 0
        /\ baseline
        /\ last \in U \/ (U = {} /\ last = cursor /\ end)
        /\ SendPage(U, last, end)

\* A page is given up after its revision or its rows are committed: an error, a
\* lost reply, or a session that was superseded meanwhile.
PrepareLost(U) ==
    /\ lost < MaxLost /\ lost' = lost + 1
    /\ ready /\ dbSession = epoch /\ pageRev = 0
    /\ \A u \in U : Ahead(u) \/ (~baseline /\ Pending(u))
    /\ PrepareRows(U)
    /\ UNCHANGED <<identity, changes, dbSession, applied, sessionVars, pageVars, edgeVars>>

\* Mutant of PushPending: users that were never applied are left out.
PushPendingKnown(U) ==
    /\ ready /\ dbSession = epoch /\ pageRev = 0
    /\ ~baseline
    /\ U # {} /\ \A u \in U : Pending(u) /\ applied[u] > 0
    /\ SendPage(U, 0, FALSE)

\* An incremental page: some pending users, as they are now.
PushPending(U) ==
    /\ ready /\ dbSession = epoch /\ pageRev = 0
    /\ ~baseline
    /\ U # {} /\ \A u \in U : Pending(u)
    /\ SendPage(U, 0, FALSE)

\* The acknowledgement of the page in flight is committed. An edge still in this
\* epoch has applied the page; one that left it has lost the cache with it.
ConfirmRows ==
    /\ pageRev # 0 /\ dbSession = epoch
    /\ joined /\ edgeEpoch = epoch => lastRevision >= pageRev
    /\ desired' = [u \in Users |-> ConfirmedRow(u)[1]]
    /\ applied' = [u \in Users |-> ConfirmedRow(u)[2]]

Confirm ==
    /\ ConfirmRows
    /\ cursor' = IF baseline THEN pageLast ELSE cursor
    /\ baseline' = (baseline /\ ~pageEnd)
    /\ NoPage
    /\ UNCHANGED <<sourceVars, dbSession, epoch, ready, edgeVars, lost>>

\* The rows are confirmed but the reply is lost: the page stays in flight and
\* its acknowledgement is carried out again.
ConfirmLost ==
    /\ lost < MaxLost /\ lost' = lost + 1
    /\ ConfirmRows
    /\ UNCHANGED <<sourceVars, dbSession, sessionVars, pageVars, edgeVars>>

-----------------------------------------------------------------------------
(* Edge *)

Cleared == cache' = Empty /\ lastRevision' = 0 /\ resetPending' = TRUE

\* Disconnecting or restarting discards the cache.
EdgeDiscard ==
    /\ joined /\ epoch < MaxEpoch
    /\ joined' = FALSE
    /\ Cleared
    /\ UNCHANGED <<edgeEpoch, sourceVars, indexVars, sessionVars, pageVars, lost>>

\* Mutant of EdgeReset: a reset during a connection keeps the cached users.
EdgeResetKeepsCache(e) ==
    /\ edgeEpoch < e
    /\ edgeEpoch' = e /\ joined' = TRUE
    /\ lastRevision' = 0 /\ resetPending' = TRUE
    /\ UNCHANGED <<cache, sourceVars, indexVars, sessionVars, pageVars, lost>>

\* The edge carries out the reset that opens epoch e.
EdgeReset(e) ==
    /\ edgeEpoch < e
    /\ edgeEpoch' = e /\ joined' = TRUE
    /\ Cleared
    /\ UNCHANGED <<sourceVars, indexVars, sessionVars, pageVars, lost>>

\* Mutant of Apply: the cache counts as complete after any baseline page.
ApplyCompletesEarly ==
    /\ joined /\ edgeEpoch = epoch
    /\ pageRev # 0 /\ lastRevision < pageRev
    /\ cache' = [u \in Users |-> IF u \in page THEN pageValue[u] ELSE cache[u]]
    /\ lastRevision' = pageRev
    /\ resetPending' = (resetPending /\ ~baseline)
    /\ UNCHANGED <<edgeEpoch, joined, sourceVars, indexVars, sessionVars, pageVars, lost>>

\* The edge commits the page in flight.
Apply ==
    /\ joined /\ edgeEpoch = epoch
    /\ pageRev # 0 /\ lastRevision < pageRev
    /\ cache' = [u \in Users |-> IF u \in page THEN pageValue[u] ELSE cache[u]]
    /\ lastRevision' = pageRev
    /\ resetPending' = (resetPending /\ ~(baseline /\ pageEnd))
    /\ UNCHANGED <<edgeEpoch, joined, sourceVars, indexVars, sessionVars, pageVars, lost>>

\* The edge commits a page of an epoch the controller has already left.
ApplyStale(c, rev, pending) ==
    /\ joined /\ edgeEpoch < epoch
    /\ lastRevision < rev
    /\ cache' = c /\ lastRevision' = rev /\ resetPending' = pending
    /\ UNCHANGED <<edgeEpoch, joined, sourceVars, indexVars, sessionVars, pageVars, lost>>

-----------------------------------------------------------------------------
Next ==
    \/ \E u \in Users, v \in Contents : Mutate(u, v)
    \/ StartEpoch \/ AcceptCacheCleared \/ Confirm
    \/ ResetLost \/ ConfirmLost \/ \E U \in SUBSET Users : PrepareLost(U)
    \/ \E last \in Users \cup {cursor} : PushBaseline(last)
    \/ \E U \in SUBSET Users : PushPending(U)
    \/ EdgeDiscard \/ Apply
    \/ \E e \in 1..epoch : EdgeReset(e)
    \/ \E c \in [Users -> Contents], rev \in 1..revision, b \in BOOLEAN : ApplyStale(c, rev, b)

\* The delivery worker wakes every two seconds and the edge reconnects for
\* ever, so every operation that stays possible is carried out.
Fairness ==
    /\ WF_vars(AcceptCacheCleared) /\ WF_vars(Confirm) /\ WF_vars(Apply)
    /\ WF_vars(\E last \in Users \cup {cursor} : PushBaseline(last))
    /\ WF_vars(\E U \in SUBSET Users : PushPending(U))
    /\ WF_vars(EdgeReset(epoch))
    /\ WF_vars(~joined /\ StartEpoch)

Spec == Init /\ [][Next]_vars /\ Fairness

-----------------------------------------------------------------------------
(* Properties *)

\* The index, the session, the page and the edge's cache have their types.
TypeOK ==
    /\ identity \in [Users -> Contents]
    /\ changes \in Nat /\ revision \in Nat /\ dbSession \in Nat /\ epoch \in Nat
    /\ desired \in [Users -> Nat] /\ applied \in [Users -> Nat]
    /\ ready \in BOOLEAN /\ baseline \in BOOLEAN /\ cursor \in Nat
    /\ page \subseteq Users /\ pageValue \in [Users -> Contents]
    /\ pageRev \in Nat /\ pageLast \in Nat /\ pageEnd \in BOOLEAN
    /\ edgeEpoch \in Nat /\ joined \in BOOLEAN
    /\ cache \in [Users -> Contents] /\ lastRevision \in Nat /\ resetPending \in BOOLEAN
    /\ lost \in Nat

\* The edge and the session talk about the same epoch, and the index is open.
Linked == joined /\ ready /\ edgeEpoch = epoch

\* No change is lost: a user the edge holds wrongly is pending in the index or
\* still ahead of the baseline cursor, whatever happened between the read of a
\* page, its application and its acknowledgement.
NoLostUpdate == Linked => \A u \in Users : cache[u] = identity[u] \/ Pending(u) \/ Ahead(u)

\* A user the edge holds has a row, so that a later revocation or deletion
\* finds every edge that cached the user.
CachedHasRow == Linked => \A u \in Users : cache[u] # Absent => HasRow(u)

\* Once the edge counts its cache as complete, being ahead of the cursor is no
\* excuse any more: what differs is a change that is pending.
CompleteCache == Linked /\ ~resetPending => \A u \in Users : cache[u] = identity[u] \/ Pending(u)

\* A baseline page inserts users the edge does not hold yet: the INSERTs of
\* ApplyIdentitySnapshot meet no existing row.
BaselineDisjoint ==
    Linked /\ baseline /\ lastRevision < pageRev => \A u \in page : cache[u] = Absent

\* When changes and reconnections stop, the edge ends up with exactly the
\* identities of the controller and counts its cache as complete.
Converges == <>[](Linked /\ ~resetPending /\ cache = identity)
=============================================================================
