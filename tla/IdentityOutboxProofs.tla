------------------------ MODULE IdentityOutboxProofs ------------------------
(***************************************************************************)
(* Proofs about IdentityOutbox for any set of users, any page limit and    *)
(* any number of changes and epochs: no change of an identity is lost, the *)
(* index knows every user the edge holds, and a cache that counts as       *)
(* complete differs from the controller only by pending changes.           *)
(***************************************************************************)
EXTENDS IdentityOutbox, TLAPS

\* Leaves without a pragma are Zenon's; the ones about arithmetic cite SMT, with Z3 as a
\* second attempt.
USE ZenonT(30), ZenonT(60)

\* Epochs: the edge never runs ahead of the controller, and an open index
\* belongs to the session's epoch, which the edge has entered with an empty
\* cache.
EpochOK ==
    /\ edgeEpoch <= epoch
    /\ ready => dbSession = epoch /\ edgeEpoch = epoch
    /\ ~ready => pageRev = 0 /\ ~baseline
    /\ pageRev = 0 => page = {}
    /\ joined /\ edgeEpoch = epoch /\ ~ready =>
          lastRevision = 0 /\ resetPending /\ \A u \in Users : cache[u] = Absent

\* Revisions: the rows never run ahead of the counter, the rows of a page the
\* edge has still to apply are pending, and ahead of the cursor nothing is
\* acknowledged but, by a commit whose reply was lost, the page in flight.
IndexOK ==
    /\ pageRev <= revision
    /\ \A u \in Users : desired[u] <= revision /\ applied[u] <= desired[u]
    /\ pageRev # 0 => \A u \in Users : applied[u] <= pageRev
    /\ \A u \in page : desired[u] >= pageRev \/ (desired[u] = 0 /\ pageValue[u] = Absent)
    /\ joined /\ lastRevision < pageRev =>
         /\ \A u \in Users : applied[u] < pageRev
         /\ \A u \in page : desired[u] >= pageRev
    /\ baseline => \A u \in Users : u > cursor /\ applied[u] # 0 => pageRev # 0 /\ u \in page

\* Contents: what a page says of a user is the truth or has been superseded by
\* a pending change; a baseline page speaks for all ids up to its last one.
PageOK ==
    /\ \A u \in page : pageValue[u] = identity[u] \/ desired[u] > pageRev
    /\ baseline /\ pageRev # 0 =>
         /\ cursor <= pageLast
         /\ \A u \in page : cursor < u /\ u <= pageLast
         /\ \A u \in Users : u > cursor /\ u \notin page /\ (u <= pageLast \/ pageEnd) =>
               identity[u] = Absent \/ desired[u] > pageRev

\* The edge's cache follows the pages of the epoch.
CacheOK ==
    /\ lastRevision <= revision
    /\ pageRev # 0 => lastRevision <= pageRev
    /\ pageRev # 0 /\ lastRevision = pageRev => \A u \in page : cache[u] = pageValue[u]
    /\ \A u \in Users : cache[u] # Absent => desired[u] > 0
    /\ \A u \in Users : baseline /\ u > cursor /\ cache[u] # Absent =>
          pageRev # 0 /\ lastRevision = pageRev /\ u \in page
    /\ \A u \in Users : cache[u] = identity[u] \/ desired[u] > applied[u] \/ (baseline /\ u > cursor)
    /\ ~resetPending => ~baseline \/ (pageRev # 0 /\ pageEnd /\ lastRevision = pageRev)

\* The inductive invariant.
OutboxInv == TypeOK /\ EpochOK /\ IndexOK /\ PageOK /\ (Linked => CacheOK)
-----------------------------------------------------------------------------
(* Preservation, one lemma per action *)

\* The empty cache and the empty index are well typed.
LEMMA EmptyTypes ==
    /\ Empty \in [Users -> Contents] /\ NoRows \in [Users -> Nat]
    /\ \A u \in Users : Empty[u] = Absent /\ NoRows[u] = 0
BY DEF Empty, NoRows, Contents

\* Before the first connection there is neither an index nor a cache.
LEMMA InitOutboxInv == Init => OutboxInv
<1> SUFFICES ASSUME Init PROVE OutboxInv
  OBVIOUS
<1>1. TypeOK
  BY EmptyTypes DEF Init, TypeOK
<1>2. EpochOK /\ IndexOK /\ PageOK /\ ~Linked
  BY SMT, Z3 DEF Init, EpochOK, IndexOK, PageOK, Linked, NoRows
<1> QED
  BY <1>1, <1>2 DEF OutboxInv

\* A change either marks a row beyond every page in flight, or concerns a user
\* the node neither holds nor is being sent.
LEMMA MutateInv ==
    ASSUME OutboxInv, NEW u \in Users, NEW v \in Contents, Mutate(u, v)
    PROVE  OutboxInv'
<1> USE OutboxAssumption DEF OutboxInv
<1>1. /\ revision' = revision + 1 /\ changes' = changes + 1
      /\ UNCHANGED <<dbSession, applied, epoch, ready, baseline, cursor, page, pageValue, pageRev,
                     pageLast, pageEnd, edgeEpoch, joined, cache, lastRevision, resetPending, lost>>
      /\ identity' = [identity EXCEPT ![u] = v]
      /\ desired' = [desired EXCEPT ![u] = IF HasRow(u) \/ v # Absent THEN revision + 1 ELSE @]
  BY DEF Mutate, MarkDirty, sessionVars, pageVars, edgeVars, TypeOK
<1>2. TypeOK'
  BY <1>1, SMT, Z3 DEF TypeOK
<1>3. /\ \A w \in Users : w # u => identity'[w] = identity[w] /\ desired'[w] = desired[w]
      /\ identity'[u] = v
      /\ \/ desired'[u] = revision + 1
         \/ v = Absent /\ desired'[u] = desired[u] /\ desired[u] = 0
  BY <1>1, SMT, Z3 DEF TypeOK, HasRow
<1>4. EpochOK'
  BY <1>1 DEF EpochOK
<1>5. IndexOK'
  BY <1>1, <1>3, SMT, Z3 DEF IndexOK, TypeOK
<1>6. PageOK'
  BY <1>1, <1>3, SMT, Z3 DEF PageOK, IndexOK, EpochOK, TypeOK
<1>7. Linked' => CacheOK'
  BY <1>1, <1>3, SMT, Z3 DEF Linked, CacheOK, IndexOK, TypeOK
<1> QED
  BY <1>2, <1>4, <1>5, <1>6, <1>7

\* A new epoch closes the index and forgets the page in flight.
LEMMA StartEpochInv ==
    ASSUME OutboxInv, StartEpoch
    PROVE  OutboxInv'
<1>1. /\ epoch' = epoch + 1 /\ ready' = FALSE /\ baseline' = FALSE /\ cursor' = 0
      /\ page' = {} /\ pageValue' = Empty /\ pageRev' = 0 /\ pageLast' = 0 /\ pageEnd' = FALSE
      /\ UNCHANGED <<identity, changes, revision, dbSession, desired, applied,
                     edgeEpoch, joined, cache, lastRevision, resetPending, lost>>
  BY DEF StartEpoch, NoPage, sourceVars, indexVars, edgeVars
<1>2. TypeOK /\ EpochOK /\ IndexOK
  BY DEF OutboxInv
<1>3. TypeOK'
  <2>1. epoch' \in Nat /\ cursor' \in Nat /\ pageRev' \in Nat /\ pageLast' \in Nat
    BY <1>1, <1>2, SMT, Z3 DEF TypeOK
  <2>2. /\ ready' \in BOOLEAN /\ baseline' \in BOOLEAN /\ pageEnd' \in BOOLEAN
        /\ page' \subseteq Users /\ pageValue' \in [Users -> Contents]
    BY <1>1, EmptyTypes
  <2>3. /\ identity' \in [Users -> Contents] /\ changes' \in Nat /\ revision' \in Nat
        /\ dbSession' \in Nat /\ desired' \in [Users -> Nat] /\ applied' \in [Users -> Nat]
        /\ edgeEpoch' \in Nat /\ joined' \in BOOLEAN /\ cache' \in [Users -> Contents]
        /\ lastRevision' \in Nat /\ resetPending' \in BOOLEAN /\ lost' \in Nat
    BY <1>1, <1>2 DEF TypeOK
  <2> QED
    BY <2>1, <2>2, <2>3 DEF TypeOK
<1>4. EpochOK' /\ IndexOK' /\ PageOK'
  BY <1>1, <1>2, SMT, Z3 DEF EpochOK, IndexOK, PageOK, TypeOK
<1>5. ~Linked'
  BY <1>1 DEF Linked
<1> QED
  BY <1>3, <1>4, <1>5 DEF OutboxInv

\* The index opens on an edge whose cache is still empty: every user is ahead
\* of the cursor.
LEMMA AcceptCacheClearedInv ==
    ASSUME OutboxInv, AcceptCacheCleared
    PROVE  OutboxInv'
<1> USE OutboxAssumption DEF OutboxInv, AcceptCacheCleared, ResetRows, NoPage, sourceVars, edgeVars
<1>1. TypeOK'
  BY EmptyTypes DEF TypeOK
<1>2. EpochOK' /\ PageOK'
  BY DEF EpochOK, PageOK, TypeOK
<1>3. IndexOK'
  BY EmptyTypes, SMT, Z3 DEF IndexOK, TypeOK
<1>4. Linked' => CacheOK'
  BY EmptyTypes, SMT, Z3 DEF Linked, CacheOK, EpochOK, TypeOK
<1> QED
  BY <1>1, <1>2, <1>3, <1>4

\* A page gets a revision beyond all earlier ones and makes its rows pending.
LEMMA SendPageInv ==
    ASSUME OutboxInv, NEW U \in SUBSET Users, NEW last \in Nat, NEW end \in BOOLEAN,
           ready, pageRev = 0, SendPage(U, last, end),
           baseline => /\ cursor <= last
                       /\ \A u \in U : cursor < u /\ u <= last
                       /\ \A u \in Users : u > cursor /\ u \notin U /\ (u <= last \/ end) => identity[u] = Absent
    PROVE  OutboxInv'
<1> USE OutboxAssumption DEF OutboxInv
<1>1. /\ revision' = revision + 1 /\ pageRev' = revision + 1
      /\ page' = U /\ pageLast' = last /\ pageEnd' = end
      /\ desired' = [u \in Users |-> IF u \in U THEN revision + 1 ELSE desired[u]]
      /\ pageValue' = [u \in Users |-> IF u \in U THEN identity[u] ELSE Absent]
      /\ UNCHANGED <<identity, changes, dbSession, applied, epoch, ready, baseline, cursor,
                     edgeEpoch, joined, cache, lastRevision, resetPending, lost>>
  BY DEF SendPage, PrepareRows, sessionVars, edgeVars
<1>2. TypeOK'
  BY <1>1, SMT, Z3 DEF TypeOK, Contents
<1>3. \A u \in Users : /\ u \in U => desired'[u] = revision + 1 /\ pageValue'[u] = identity[u]
                       /\ u \notin U => desired'[u] = desired[u]
  BY <1>1
<1>4. EpochOK'
  BY <1>1, SMT, Z3 DEF EpochOK, TypeOK
<1>5. IndexOK'
  BY <1>1, <1>3, SMT, Z3 DEF IndexOK, TypeOK
<1>6. PageOK'
  BY <1>1, <1>3 DEF PageOK
<1>7. Linked' => CacheOK'
  BY <1>1, <1>3, SMT, Z3 DEF Linked, CacheOK, IndexOK, TypeOK
<1> QED
  BY <1>2, <1>4, <1>5, <1>6, <1>7

\* A baseline page speaks for every id up to its last one.
LEMMA PushBaselineInv ==
    ASSUME OutboxInv, NEW last \in Users \cup {cursor}, PushBaseline(last)
    PROVE  OutboxInv'
<1> DEFINE U == {u \in Users : cursor < u /\ u <= last /\ identity[u] # Absent}
           end == \A u \in Users : u > last => identity[u] = Absent
<1>1. /\ ready /\ pageRev = 0
      /\ last \in U \/ (U = {} /\ last = cursor /\ end)
      /\ SendPage(U, last, end)
  BY DEF PushBaseline
<1>2. last \in Nat /\ cursor \in Nat /\ cursor <= last
  BY <1>1, OutboxAssumption, SMT, Z3 DEF OutboxInv, TypeOK
<1>3. U \in SUBSET Users /\ end \in BOOLEAN
  OBVIOUS
<1>4. /\ \A u \in U : cursor < u /\ u <= last
      /\ \A u \in Users : u > cursor /\ u \notin U /\ (u <= last \/ end) => identity[u] = Absent
  BY <1>2, OutboxAssumption, SMT, Z3
<1> HIDE DEF U, end
<1> QED
  BY <1>1, <1>2, <1>3, <1>4, SendPageInv

\* An incremental page is sent only when the baseline is over.
LEMMA PushPendingInv ==
    ASSUME OutboxInv, NEW U \in SUBSET Users, PushPending(U)
    PROVE  OutboxInv'
<1>1. ready /\ pageRev = 0 /\ ~baseline /\ SendPage(U, 0, FALSE)
  BY DEF PushPending
<1> QED
  BY <1>1, SendPageInv

\* An acknowledgement settles the rows of its page except those changed since
\* the page was read, and leaves all other rows alone.
LEMMA ConfirmRowsFacts ==
    ASSUME TypeOK, IndexOK, ConfirmRows
    PROVE  /\ pageRev # 0
           /\ desired' \in [Users -> Nat] /\ applied' \in [Users -> Nat]
           /\ \A u \in Users : u \notin page => desired'[u] = desired[u] /\ applied'[u] = applied[u]
           /\ \A u \in page :
                \/ desired'[u] = desired[u] /\ applied'[u] = pageRev /\ desired[u] >= pageRev
                \/ /\ pageValue[u] = Absent /\ desired[u] <= pageRev
                   /\ desired'[u] = 0 /\ applied'[u] = 0
<1>1. /\ pageRev # 0
      /\ desired' = [u \in Users |-> ConfirmedRow(u)[1]]
      /\ applied' = [u \in Users |-> ConfirmedRow(u)[2]]
  BY DEF ConfirmRows
<1>2. \A u \in Users : u \notin page => desired'[u] = desired[u] /\ applied'[u] = applied[u]
  BY <1>1 DEF ConfirmedRow
<1>3. ASSUME NEW u \in page
      PROVE  \/ desired'[u] = desired[u] /\ applied'[u] = pageRev /\ desired[u] >= pageRev
             \/ /\ pageValue[u] = Absent /\ desired[u] <= pageRev
                /\ desired'[u] = 0 /\ applied'[u] = 0
  <2>1. /\ u \in Users /\ desired[u] \in Nat /\ applied[u] \in Nat /\ pageRev \in Nat
        /\ applied[u] <= pageRev /\ applied[u] <= desired[u]
        /\ desired[u] >= pageRev \/ (desired[u] = 0 /\ pageValue[u] = Absent)
    BY <1>1 DEF TypeOK, IndexOK
  <2>2. desired'[u] = ConfirmedRow(u)[1] /\ applied'[u] = ConfirmedRow(u)[2]
    BY <1>1, <2>1
  <2> QED
    BY <1>1, <2>1, <2>2, SMT, Z3 DEF ConfirmedRow, HasRow, Max2
<1>4. desired' \in [Users -> Nat] /\ applied' \in [Users -> Nat]
  <2>1. pageRev \in Nat /\ \A u \in Users : desired[u] \in Nat /\ applied[u] \in Nat
    BY DEF TypeOK
  <2>2. \A u \in Users : desired'[u] \in Nat /\ applied'[u] \in Nat
    BY <1>2, <1>3, <2>1, SMT, Z3
  <2> QED
    BY <1>1, <2>2
<1> QED
  BY <1>1, <1>2, <1>3, <1>4

\* What the confirmed rows say of the cache, before the session takes notice.
LEMMA ConfirmedCache ==
    ASSUME OutboxInv, ConfirmRows, Linked
    PROVE  /\ CacheOK /\ lastRevision = pageRev
           /\ \A u \in Users : cache[u] # Absent => desired'[u] > 0
           /\ \A u \in Users : \/ cache[u] = identity[u] \/ desired'[u] > applied'[u]
                               \/ (baseline /\ u > cursor /\ u \notin page)
<1>1. TypeOK /\ IndexOK /\ PageOK /\ CacheOK
  BY DEF OutboxInv
<1>2. lastRevision = pageRev /\ pageRev \in Nat /\ pageRev # 0
  BY <1>1, SMT, Z3 DEF ConfirmRows, Linked, CacheOK, TypeOK
<1>3. ASSUME NEW u \in Users
      PROVE  /\ cache[u] # Absent => desired'[u] > 0
             /\ \/ cache[u] = identity[u] \/ desired'[u] > applied'[u]
                \/ (baseline /\ u > cursor /\ u \notin page)
  <2>1. desired[u] \in Nat /\ applied[u] \in Nat
    BY <1>1 DEF TypeOK
  <2>2. CASE u \in page
    <3>1. cache[u] = pageValue[u] /\ (pageValue[u] = identity[u] \/ desired[u] > pageRev)
      BY <1>1, <1>2, <2>2 DEF CacheOK, PageOK
    <3> QED
      BY <1>1, <1>2, <2>1, <2>2, <3>1, ConfirmRowsFacts, SMTT(30), Z3T(30)
  <2>3. CASE u \notin page
    <3>1. desired'[u] = desired[u] /\ applied'[u] = applied[u]
      BY <1>1, <2>3, ConfirmRowsFacts
    <3> QED
      BY <1>1, <2>3, <3>1 DEF CacheOK
  <2> QED
    BY <2>2, <2>3
<1> QED
  BY <1>1, <1>2, <1>3

\* The session takes notice: the cursor moves over ids that are settled.
LEMMA ConfirmInv ==
    ASSUME OutboxInv, Confirm
    PROVE  OutboxInv'
<1> USE OutboxAssumption
<1>1. /\ ConfirmRows
      /\ cursor' = IF baseline THEN pageLast ELSE cursor
      /\ baseline' = (baseline /\ ~pageEnd)
      /\ page' = {} /\ pageValue' = Empty /\ pageRev' = 0 /\ pageLast' = 0 /\ pageEnd' = FALSE
      /\ UNCHANGED <<identity, changes, revision, dbSession, epoch, ready,
                     edgeEpoch, joined, cache, lastRevision, resetPending, lost>>
  BY DEF Confirm, NoPage, sourceVars, edgeVars
<1>2. TypeOK /\ EpochOK /\ IndexOK /\ PageOK
  BY DEF OutboxInv
<1>3. /\ pageRev # 0
      /\ desired' \in [Users -> Nat] /\ applied' \in [Users -> Nat]
      /\ \A u \in Users : u \notin page => desired'[u] = desired[u] /\ applied'[u] = applied[u]
      /\ \A u \in page :
           \/ desired'[u] = desired[u] /\ applied'[u] = pageRev /\ desired[u] >= pageRev
           \/ /\ pageValue[u] = Absent /\ desired[u] <= pageRev
              /\ desired'[u] = 0 /\ applied'[u] = 0
  BY <1>1, <1>2, ConfirmRowsFacts
<1>4. ready
  BY <1>2, <1>3 DEF EpochOK
<1>5. TypeOK'
  BY <1>1, <1>2, <1>3, EmptyTypes DEF TypeOK
<1>6. EpochOK'
  BY <1>1, <1>2, <1>4 DEF EpochOK
<1>7. baseline' => \A u \in Users : u > cursor' => u \notin page /\ u > cursor
  BY <1>1, <1>2, <1>3, SMT, Z3 DEF PageOK, TypeOK
<1>8. IndexOK'
  <2>1. \A u \in Users : desired'[u] <= revision /\ applied'[u] <= desired'[u]
    BY <1>2, <1>3, SMT, Z3 DEF IndexOK, TypeOK
  <2>2. baseline' => \A u \in Users : u > cursor' => applied'[u] = 0
    BY <1>1, <1>2, <1>3, <1>7 DEF IndexOK
  <2>3. revision \in Nat /\ lastRevision \in Nat
    BY <1>2 DEF TypeOK
  <2> QED
    BY <1>1, <2>1, <2>2, <2>3, SMT, Z3 DEF IndexOK
<1>9. PageOK'
  BY <1>1 DEF PageOK
<1>10. ASSUME Linked' PROVE CacheOK'
  <2>1. Linked
    BY <1>1, <1>10 DEF Linked
  <2>2. /\ CacheOK /\ lastRevision = pageRev
        /\ \A u \in Users : cache[u] # Absent => desired'[u] > 0
        /\ \A u \in Users : \/ cache[u] = identity[u] \/ desired'[u] > applied'[u]
                            \/ (baseline /\ u > cursor /\ u \notin page)
    BY <1>1, <2>1, ConfirmedCache
  <2>3. \A u \in Users : baseline' /\ u > cursor' => cache[u] = Absent
    BY <1>1, <1>7, <2>2 DEF CacheOK
  <2>4. ASSUME NEW u \in Users
        PROVE  cache[u] = identity[u] \/ desired'[u] > applied'[u] \/ (baseline' /\ u > cursor')
    <3>1. CASE baseline /\ u > cursor /\ u \notin page
      <4>1. cache[u] = Absent /\ desired'[u] = desired[u] /\ applied'[u] = applied[u]
        BY <1>3, <2>2, <3>1 DEF CacheOK
      <4>2. applied[u] = 0
        BY <1>2, <3>1 DEF IndexOK
      <4>3. u \in Nat /\ pageLast \in Nat /\ pageRev \in Nat /\ desired[u] \in Nat
        BY <1>2 DEF TypeOK
      <4>4. CASE u <= pageLast \/ pageEnd
        BY <1>2, <1>3, <3>1, <4>1, <4>2, <4>3, <4>4, SMT, Z3 DEF PageOK
      <4>5. CASE ~(u <= pageLast) /\ ~pageEnd
        <5>1. baseline' /\ cursor' = pageLast
          BY <1>1, <3>1, <4>5
        <5> QED
          BY <4>3, <4>5, <5>1, SMT, Z3
      <4> QED
        BY <4>4, <4>5
    <3> QED
      BY <2>2, <3>1
  <2>5. ~resetPending' => ~baseline'
    BY <1>1, <2>2 DEF CacheOK
  <2> QED
    BY <1>1, <2>2, <2>3, <2>4, <2>5 DEF CacheOK
<1> QED
  BY <1>5, <1>6, <1>8, <1>9, <1>10 DEF OutboxInv

\* A confirmation whose reply is lost leaves the page in flight.
LEMMA ConfirmLostInv ==
    ASSUME OutboxInv, ConfirmLost
    PROVE  OutboxInv'
<1>1. /\ ConfirmRows /\ lost' = lost + 1
      /\ UNCHANGED <<identity, changes, revision, dbSession, epoch, ready, baseline, cursor, page,
                     pageValue, pageRev, pageLast, pageEnd, edgeEpoch, joined, cache,
                     lastRevision, resetPending>>
  BY DEF ConfirmLost, sourceVars, sessionVars, pageVars, edgeVars
<1>2. TypeOK /\ EpochOK /\ IndexOK /\ PageOK
  BY DEF OutboxInv
<1>3. /\ pageRev # 0
      /\ desired' \in [Users -> Nat] /\ applied' \in [Users -> Nat]
      /\ \A u \in Users : u \notin page => desired'[u] = desired[u] /\ applied'[u] = applied[u]
      /\ \A u \in page :
           \/ desired'[u] = desired[u] /\ applied'[u] = pageRev /\ desired[u] >= pageRev
           \/ /\ pageValue[u] = Absent /\ desired[u] <= pageRev
              /\ desired'[u] = 0 /\ applied'[u] = 0
  BY <1>1, <1>2, ConfirmRowsFacts
<1>4. ready /\ edgeEpoch = epoch /\ (joined => lastRevision >= pageRev)
  BY <1>1, <1>2, <1>3 DEF EpochOK, ConfirmRows
<1>5. TypeOK'
  <2>1. lost' \in Nat
    BY <1>1, <1>2, SMT, Z3 DEF TypeOK
  <2> QED
    BY <1>1, <1>2, <1>3, <2>1 DEF TypeOK
<1>6. EpochOK'
  BY <1>1, <1>2 DEF EpochOK
<1>7. pageRev \in Nat /\ lastRevision \in Nat /\ page \subseteq Users
  BY <1>2 DEF TypeOK
<1>8. IndexOK'
  <2>1. \A u \in Users : desired'[u] <= revision /\ applied'[u] <= desired'[u] /\ applied'[u] <= pageRev
    BY <1>2, <1>3, SMTT(30), Z3T(30) DEF IndexOK, TypeOK
  <2>2. \A u \in page : desired'[u] >= pageRev \/ (desired'[u] = 0 /\ pageValue[u] = Absent)
    BY <1>3
  <2>3. ~(joined /\ lastRevision < pageRev)
    BY <1>4, <1>7, SMTT(30), Z3T(30)
  <2>4. baseline => \A u \in Users : u > cursor /\ applied'[u] # 0 => u \in page
    BY <1>2, <1>3 DEF IndexOK
  <2>5. pageRev <= revision
    BY <1>2 DEF IndexOK
  <2> QED
    BY <1>1, <1>3, <2>1, <2>2, <2>3, <2>4, <2>5 DEF IndexOK
<1>9. PageOK'
  <2>1. \A u \in page : pageValue[u] = identity[u] \/ desired'[u] > pageRev
    BY <1>2, <1>3, <1>7, SMTT(30), Z3T(30) DEF PageOK, TypeOK
  <2> QED
    BY <1>1, <1>2, <1>3, <2>1 DEF PageOK
<1>10. ASSUME Linked' PROVE CacheOK'
  <2>1. Linked
    BY <1>1, <1>10 DEF Linked
  <2>2. /\ CacheOK /\ lastRevision = pageRev
        /\ \A u \in Users : cache[u] # Absent => desired'[u] > 0
        /\ \A u \in Users : \/ cache[u] = identity[u] \/ desired'[u] > applied'[u]
                            \/ (baseline /\ u > cursor /\ u \notin page)
    BY <1>1, <2>1, ConfirmedCache
  <2> QED
    BY <1>1, <2>2 DEF CacheOK
<1> QED
  BY <1>5, <1>6, <1>8, <1>9, <1>10 DEF OutboxInv

\* A reset whose reply is lost empties the index of an epoch that is not open.
LEMMA ResetLostInv ==
    ASSUME OutboxInv, ResetLost
    PROVE  OutboxInv'
<1>1. /\ ~ready /\ lost' = lost + 1
      /\ dbSession' = epoch /\ desired' = NoRows /\ applied' = NoRows
      /\ UNCHANGED <<identity, changes, revision, epoch, ready, baseline, cursor, page, pageValue,
                     pageRev, pageLast, pageEnd, edgeEpoch, joined, cache, lastRevision, resetPending>>
  BY DEF ResetLost, ResetRows, sourceVars, sessionVars, pageVars, edgeVars
<1>2. TypeOK /\ EpochOK /\ IndexOK /\ PageOK
  BY DEF OutboxInv
<1>3. pageRev = 0 /\ page = {} /\ ~baseline
  BY <1>1, <1>2 DEF EpochOK
<1>4. TypeOK'
  <2>1. lost' \in Nat /\ dbSession' \in Nat
    BY <1>1, <1>2, SMTT(30), Z3T(30) DEF TypeOK
  <2> QED
    BY <1>1, <1>2, <2>1, EmptyTypes DEF TypeOK
<1>5. EpochOK' /\ PageOK' /\ ~Linked'
  BY <1>1, <1>2, <1>3 DEF EpochOK, PageOK, Linked
<1>6. IndexOK'
  BY <1>1, <1>2, <1>3, EmptyTypes, SMT, Z3 DEF IndexOK, TypeOK
<1> QED
  BY <1>4, <1>5, <1>6 DEF OutboxInv

\* A page given up after its rows were written leaves them pending.
LEMMA PrepareLostInv ==
    ASSUME OutboxInv, NEW U \in SUBSET Users, PrepareLost(U)
    PROVE  OutboxInv'
<1>1. /\ ready /\ pageRev = 0 /\ lost' = lost + 1 /\ revision' = revision + 1
      /\ desired' = [u \in Users |-> IF u \in U THEN revision + 1 ELSE desired[u]]
      /\ UNCHANGED <<identity, changes, dbSession, applied, epoch, ready, baseline, cursor, page,
                     pageValue, pageRev, pageLast, pageEnd, edgeEpoch, joined, cache,
                     lastRevision, resetPending>>
  BY DEF PrepareLost, PrepareRows, sessionVars, pageVars, edgeVars
<1>2. TypeOK /\ EpochOK /\ IndexOK /\ PageOK
  BY DEF OutboxInv
<1>3. revision \in Nat /\ page = {} /\ lastRevision \in Nat
  BY <1>1, <1>2 DEF EpochOK, TypeOK
<1>4. \A u \in Users : desired'[u] = desired[u] \/ desired'[u] = revision + 1
  BY <1>1
<1>5. TypeOK'
  <2>1. lost' \in Nat /\ revision' \in Nat /\ desired' \in [Users -> Nat]
    BY <1>1, <1>2, SMTT(30), Z3T(30) DEF TypeOK
  <2> QED
    BY <1>1, <1>2, <2>1 DEF TypeOK
<1>6. EpochOK' /\ PageOK'
  BY <1>1, <1>2, <1>3 DEF EpochOK, PageOK
<1>7. IndexOK'
  <2>1. \A u \in Users : desired'[u] <= revision' /\ applied[u] <= desired'[u]
    BY <1>1, <1>2, <1>3, <1>4, SMTT(30), Z3T(30) DEF IndexOK, TypeOK
  <2> QED
    BY <1>1, <1>2, <1>3, <2>1, SMTT(30), Z3T(30) DEF IndexOK
<1>8. Linked' => CacheOK'
  BY <1>1, <1>2, <1>3, <1>4, SMTT(30), Z3T(30) DEF OutboxInv, Linked, CacheOK, IndexOK, TypeOK
<1> QED
  BY <1>5, <1>6, <1>7, <1>8 DEF OutboxInv

\* An edge that disconnects leaves the epoch.
LEMMA EdgeDiscardInv ==
    ASSUME OutboxInv, EdgeDiscard
    PROVE  OutboxInv'
<1>1. /\ joined' = FALSE /\ cache' = Empty /\ lastRevision' = 0 /\ resetPending' = TRUE
      /\ UNCHANGED <<identity, changes, revision, dbSession, desired, applied, epoch, ready, baseline,
                     cursor, page, pageValue, pageRev, pageLast, pageEnd, edgeEpoch, lost>>
  BY DEF EdgeDiscard, Cleared, sourceVars, indexVars, sessionVars, pageVars
<1>2. TypeOK /\ EpochOK /\ IndexOK /\ PageOK
  BY DEF OutboxInv
<1>3. TypeOK'
  BY <1>1, <1>2, EmptyTypes DEF TypeOK
<1>4. EpochOK' /\ IndexOK' /\ PageOK'
  BY <1>1, <1>2 DEF EpochOK, IndexOK, PageOK
<1>5. ~Linked'
  BY <1>1 DEF Linked
<1> QED
  BY <1>3, <1>4, <1>5 DEF OutboxInv

\* An edge that enters an epoch does so before the index opens.
LEMMA EdgeResetInv ==
    ASSUME OutboxInv, NEW e \in 1..epoch, EdgeReset(e)
    PROVE  OutboxInv'
<1>1. /\ edgeEpoch < e /\ edgeEpoch' = e /\ joined' = TRUE
      /\ cache' = Empty /\ lastRevision' = 0 /\ resetPending' = TRUE
      /\ UNCHANGED <<identity, changes, revision, dbSession, desired, applied, epoch, ready, baseline,
                     cursor, page, pageValue, pageRev, pageLast, pageEnd, lost>>
  BY DEF EdgeReset, Cleared, sourceVars, indexVars, sessionVars, pageVars
<1>2. TypeOK /\ EpochOK /\ IndexOK /\ PageOK
  BY DEF OutboxInv
<1>3. epoch \in Nat /\ e \in Nat /\ e <= epoch /\ edgeEpoch \in Nat
  BY <1>2, SMTT(30), Z3T(30) DEF TypeOK
<1>4. ~ready
  BY <1>1, <1>2, <1>3, SMTT(30), Z3T(30) DEF EpochOK
<1>5. TypeOK'
  BY <1>1, <1>2, <1>3, EmptyTypes DEF TypeOK
<1>6. EpochOK'
  BY <1>1, <1>2, <1>3, <1>4, EmptyTypes DEF EpochOK
<1>7. pageRev = 0 /\ page = {} /\ ~baseline
  BY <1>2, <1>4 DEF EpochOK
<1>8. IndexOK' /\ PageOK' /\ ~Linked'
  BY <1>1, <1>2, <1>4, <1>7, SMTT(30), Z3T(30) DEF IndexOK, PageOK, Linked
<1> QED
  BY <1>5, <1>6, <1>8 DEF OutboxInv

\* A page the edge applies makes its users equal to the page.
LEMMA ApplyInv ==
    ASSUME OutboxInv, Apply
    PROVE  OutboxInv'
<1> USE OutboxAssumption
<1>1. /\ joined /\ edgeEpoch = epoch /\ pageRev # 0 /\ lastRevision < pageRev
      /\ cache' = [u \in Users |-> IF u \in page THEN pageValue[u] ELSE cache[u]]
      /\ lastRevision' = pageRev /\ resetPending' = (resetPending /\ ~(baseline /\ pageEnd))
      /\ UNCHANGED <<identity, changes, revision, dbSession, desired, applied, epoch, ready, baseline,
                     cursor, page, pageValue, pageRev, pageLast, pageEnd, edgeEpoch, joined, lost>>
  BY DEF Apply, sourceVars, indexVars, sessionVars, pageVars
<1>2. TypeOK /\ EpochOK /\ IndexOK /\ PageOK
  BY DEF OutboxInv
<1>3. ready /\ Linked /\ CacheOK
  BY <1>1, <1>2 DEF OutboxInv, Linked, EpochOK
<1>4. \A u \in Users : cache'[u] = IF u \in page THEN pageValue[u] ELSE cache[u]
  BY <1>1
<1>5. TypeOK'
  <2>1. cache' \in [Users -> Contents]
    BY <1>1, <1>2 DEF TypeOK
  <2>2. resetPending' \in BOOLEAN
    BY <1>1
  <2> QED
    BY <1>1, <1>2, <2>1, <2>2 DEF TypeOK
<1>6. EpochOK' /\ IndexOK' /\ PageOK'
  BY <1>1, <1>2, <1>3 DEF EpochOK, IndexOK, PageOK
<1>7. CacheOK'
  <2>1. \A u \in page : cache'[u] = pageValue[u] /\ desired[u] >= pageRev /\ desired[u] > applied[u]
    <3> SUFFICES ASSUME NEW u \in page
                 PROVE  cache'[u] = pageValue[u] /\ desired[u] >= pageRev /\ desired[u] > applied[u]
      OBVIOUS
    <3>1. u \in Users /\ desired[u] \in Nat /\ applied[u] \in Nat /\ pageRev \in Nat
      BY <1>2 DEF TypeOK
    <3>2. desired[u] >= pageRev /\ applied[u] < pageRev
      BY <1>1, <1>2, <3>1 DEF IndexOK
    <3> QED
      BY <1>4, <3>1, <3>2, SMTT(30), Z3T(30)
  <2>2. \A u \in Users : u \notin page => cache'[u] = cache[u]
    BY <1>4
  <2>3. \A u \in Users : cache'[u] # Absent => desired[u] > 0
    BY <1>1, <1>2, <1>3, <2>1, <2>2, SMTT(30), Z3T(30) DEF CacheOK, TypeOK
  <2>4. \A u \in Users : baseline /\ u > cursor /\ cache'[u] # Absent => u \in page
    BY <1>1, <1>3, <2>2, <1>2 DEF CacheOK, TypeOK
  <2>5. \A u \in Users : cache'[u] = identity[u] \/ desired[u] > applied[u] \/ (baseline /\ u > cursor)
    BY <1>3, <2>1, <2>2 DEF CacheOK
  <2>6. ~resetPending' => ~baseline \/ pageEnd
    BY <1>1, <1>2, <1>3 DEF CacheOK, TypeOK
  <2>7. pageRev <= revision /\ pageRev \in Nat
    BY <1>2 DEF IndexOK, TypeOK
  <2>8. /\ lastRevision' = pageRev /\ pageRev # 0
        /\ UNCHANGED <<identity, revision, desired, applied, baseline, cursor, page, pageValue,
                       pageRev, pageEnd>>
    BY <1>1
  <2>9. /\ lastRevision' <= revision' /\ lastRevision' <= pageRev'
        /\ \A u \in page' : cache'[u] = pageValue'[u]
    <3>1. \A n \in Nat : n <= n
      BY SMT, Z3
    <3> QED
      BY <2>1, <2>7, <2>8, <3>1
  <2> QED
    BY <2>3, <2>4, <2>5, <2>6, <2>8, <2>9 DEF CacheOK
<1> QED
  BY <1>5, <1>6, <1>7 DEF OutboxInv

\* What happens in an epoch the controller has left concerns no open index.
LEMMA ApplyStaleInv ==
    ASSUME OutboxInv, NEW c \in [Users -> Contents], NEW rev \in 1..revision, NEW b \in BOOLEAN,
           ApplyStale(c, rev, b)
    PROVE  OutboxInv'
<1>1. /\ edgeEpoch < epoch /\ cache' = c /\ lastRevision' = rev /\ resetPending' = b
      /\ UNCHANGED <<identity, changes, revision, dbSession, desired, applied, epoch, ready, baseline,
                     cursor, page, pageValue, pageRev, pageLast, pageEnd, edgeEpoch, joined, lost>>
  BY DEF ApplyStale, sourceVars, indexVars, sessionVars, pageVars
<1>2. TypeOK /\ EpochOK /\ IndexOK /\ PageOK
  BY DEF OutboxInv
<1>3. edgeEpoch # epoch
  BY <1>1, <1>2, SMTT(30), Z3T(30) DEF TypeOK
<1>4. TypeOK'
  BY <1>1, <1>2, SMTT(30), Z3T(30) DEF TypeOK
<1>5. EpochOK' /\ IndexOK' /\ PageOK' /\ ~Linked'
  BY <1>1, <1>2, <1>3, SMTT(30), Z3T(30) DEF EpochOK, IndexOK, PageOK, Linked
<1> QED
  BY <1>4, <1>5 DEF OutboxInv

\* A step that changes no variable preserves the invariant.
LEMMA StutterInv ==
    ASSUME OutboxInv, UNCHANGED vars
    PROVE  OutboxInv'
<1>1. UNCHANGED <<identity, changes, revision, dbSession, desired, applied, epoch, ready, baseline,
                  cursor, page, pageValue, pageRev, pageLast, pageEnd, edgeEpoch, joined, cache,
                  lastRevision, resetPending, lost>>
  BY DEF vars, sourceVars, indexVars, sessionVars, pageVars, edgeVars
<1> QED
  BY <1>1 DEF OutboxInv, TypeOK, EpochOK, IndexOK, PageOK, Linked, CacheOK

LEMMA OutboxKept ==
    ASSUME OutboxInv, [Next]_vars
    PROVE  OutboxInv'
BY MutateInv, StartEpochInv, AcceptCacheClearedInv, ConfirmInv, PushBaselineInv, PushPendingInv,
   ResetLostInv, PrepareLostInv, ConfirmLostInv,
   EdgeDiscardInv, ApplyInv, EdgeResetInv, ApplyStaleInv, StutterInv DEF Next
-----------------------------------------------------------------------------
(* Theorems *)

\* The inductive invariant holds in every reachable state.
THEOREM OutboxInvariant == Spec => []OutboxInv
<1>1. Init => OutboxInv
  BY InitOutboxInv
<1>2. OutboxInv /\ [Next]_vars => OutboxInv'
  BY OutboxKept
<1> QED
  BY <1>1, <1>2, PTL DEF Spec

\* Every variable keeps its type (the schema of the index and of the cache).
THEOREM OutboxTypeCorrect == Spec => []TypeOK
<1>1. OutboxInv => TypeOK
  BY DEF OutboxInv
<1> QED
  BY <1>1, OutboxInvariant, PTL

\* No change of an identity is lost between the read of a page in
\* ReadNodeIdentityPage, its application by ApplyIdentitySnapshot and its
\* acknowledgement in ConfirmNodeIdentityCache.
THEOREM NoChangeIsLost == Spec => []NoLostUpdate
<1>1. OutboxInv => NoLostUpdate
  BY DEF OutboxInv, CacheOK, NoLostUpdate, Pending, Ahead
<1> QED
  BY <1>1, OutboxInvariant, PTL

\* The index of user_node_cache has a row for every user the edge holds, which
\* is what a deletion or a revocation relies on.
THEOREM IndexCoversCache == Spec => []CachedHasRow
<1>1. OutboxInv => CachedHasRow
  BY DEF OutboxInv, CacheOK, CachedHasRow, HasRow
<1> QED
  BY <1>1, OutboxInvariant, PTL

\* Beyond the cursor the last page speaks for every id.
LEMMA CompleteInv == OutboxInv => CompleteCache
<1> SUFFICES ASSUME OutboxInv, Linked, ~resetPending, NEW u \in Users
             PROVE  cache[u] = identity[u] \/ Pending(u)
  BY DEF CompleteCache
<1> USE OutboxAssumption DEF Pending
<1>1. TypeOK /\ IndexOK /\ PageOK /\ CacheOK
  BY DEF OutboxInv
<1>2. CASE ~(baseline /\ u > cursor)
  BY <1>1, <1>2 DEF CacheOK
<1>3. CASE baseline /\ u > cursor
  <2>1. pageRev # 0 /\ pageEnd /\ lastRevision = pageRev
    BY <1>1, <1>3 DEF CacheOK
  <2>2. /\ desired[u] \in Nat /\ applied[u] \in Nat /\ pageRev \in Nat
        /\ applied[u] <= pageRev /\ (u \notin page => applied[u] = 0)
    BY <1>1, <1>3, <2>1 DEF IndexOK, TypeOK
  <2>3. CASE u \in page
    BY <1>1, <2>1, <2>2, <2>3, SMTT(30), Z3T(30) DEF PageOK, CacheOK
  <2>4. CASE u \notin page
    BY <1>1, <1>3, <2>1, <2>2, <2>4, SMTT(30), Z3T(30) DEF PageOK, CacheOK
  <2> QED
    BY <2>3, <2>4
<1> QED
  BY <1>2, <1>3

\* An edge that has cleared identityResetPending differs from the controller
\* only in users whose change is pending.
THEOREM CompleteMeansPending == Spec => []CompleteCache
BY CompleteInv, OutboxInvariant, PTL

\* A page that is not applied brings ids beyond the cursor, where the cache is empty.
LEMMA DisjointInv == OutboxInv => BaselineDisjoint
<1> SUFFICES ASSUME OutboxInv, Linked, baseline, lastRevision < pageRev, NEW u \in page
             PROVE  cache[u] = Absent
  BY DEF BaselineDisjoint
<1>1. TypeOK /\ PageOK /\ CacheOK /\ lastRevision # pageRev /\ pageRev # 0 /\ u \in Users
  BY SMT, Z3 DEF OutboxInv, TypeOK
<1>2. u > cursor
  BY <1>1 DEF PageOK, TypeOK
<1> QED
  BY <1>1, <1>2 DEF CacheOK

\* A baseline page only brings users the edge does not hold: the INSERTs of
\* ApplyIdentitySnapshot cannot collide.
THEOREM BaselineNeverCollides == Spec => []BaselineDisjoint
BY DisjointInv, OutboxInvariant, PTL
=============================================================================
