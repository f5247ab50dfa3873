----------------------------- MODULE IdentitySync -----------------------------
(***************************************************************************)
(* Identity synchronisation between the controller and one edge node over  *)
(* control streams that break, are replaced and overtake each other:       *)
(* internal/cluster/server.go, push.go and identity_transfer.go on the     *)
(* controller, internal/cluster/client.go on the edge, cache protocol 3.   *)
(*                                                                         *)
(* Controller: the handler of the registered stream greets the edge, reads *)
(* fragment acknowledgements itself and leaves cache_cleared and           *)
(* identity_ack to a worker; the delivery loop pushes pages. All index     *)
(* operations hold syncMu, so each of them is one step, taken when its     *)
(* check of the registered session succeeds; what may happen between that  *)
(* check and the release (a stream registering, the edge moving) does not  *)
(* touch the index, and an operation that stops half way is a step of its  *)
(* own (the Lost actions).                                                 *)
(*                                                                         *)
(* Edge: one connection at a time, with a receiver and an apply worker     *)
(* joined before the cache is discarded and the next stream is opened.     *)
(***************************************************************************)
EXTENDS IdentityIndex, Sequences, FiniteSets

CONSTANTS
    MaxChanges, MaxEpoch,
    PageSize,    \* users per page
    MaxStreams,  \* bound on control streams the edge opens
    MaxTrouble,  \* bound on requests for a full refresh and lost answers together
    None         \* no job

\* The jobs of the edge's apply worker, and what is left of one it gave up.
Jobs ==
    LET bodies == [users : SUBSET Users, value : [Users -> Contents], baseline : BOOLEAN, end : BOOLEAN]
    IN  [type : {"reset"}, epoch : Nat] \cup [type : {"page"}, epoch : Nat, rev : Nat, body : bodies]
          \cup {[type |-> "given up"]}

ASSUME SyncAssumption ==
    /\ Users \subseteq Nat \ {0} /\ IsFiniteSet(Users) /\ Absent \notin Values
    /\ PageSize \in Nat \ {0} /\ MaxStreams \in Nat /\ MaxTrouble \in Nat
    /\ MaxChanges \in Nat /\ MaxEpoch \in Nat
    /\ None \notin Jobs

VARIABLES
    changes, lost, ready, baseline, cursor, edgeEpoch, cache, lastRevision, resetPending,
    current,       \* stream of the registered session, 0 when there is none
    unregistered,  \* streams opened by the edge whose handler has not registered
    stage,         \* how far the handler is: "hello", "greet" or "open"
    welcomeEpoch,  \* the epoch the handler's welcome will announce
    crossed,       \* a refresh was announced before the handler's welcome
    needsFull,     \* needsFull
    fulls,         \* requests for a full refresh so far
    appliedRev,    \* appliedRevision
    chunkIndex,    \* chunkIndex
    chunkTotal,    \* chunkTotal
    stuck,         \* a fragment found the send queue full
    up,            \* messages of the edge to the registered session
    jobs,          \* identityJobs
    down,          \* messages of the controller on the edge's stream
    streams,       \* streams opened so far
    conn,          \* the edge's stream, 0 when it has none
    phase,         \* "idle", "up", "fencing" or "down"
    failed,        \* the receiver or the worker has given up
    recvEpoch,     \* cacheSessionID of the receiver
    fragments,     \* fragments in chunkBuffer
    buffer,        \* the slot of applyJobs
    worker,        \* the job in work
    localRev,      \* locallyAppliedRevision
    entered,       \* the cache belongs to edgeEpoch on this connection
    syncReady      \* syncReady

indexVars   == <<identity, changes, revision, dbSession, desired, applied, lost>>
epochVars   == <<epoch, ready, baseline, cursor>>
handlerVars == <<current, unregistered, stage, welcomeEpoch, crossed>>
chunkVars   == <<appliedRev, chunkIndex, chunkTotal, stuck>>
refreshVars == <<needsFull, fulls>>
cacheVars   == <<edgeEpoch, entered, cache, lastRevision, resetPending>>
linkVars    == <<streams, conn, phase>>
recvVars    == <<failed, recvEpoch, fragments, syncReady>>
workVars    == <<buffer, worker, localRev>>
ctlVars     == <<indexVars, pageVars, epochVars, handlerVars, chunkVars, refreshVars, jobs>>
edgeVars    == <<cacheVars, linkVars, recvVars, workVars>>
vars        == <<ctlVars, edgeVars, up, down>>

Live == phase \in {"up", "fencing"}

Welcome(e) == [type |-> "welcome", epoch |-> e]
Chunk(e, rev, index, total, body) ==
    [type |-> "chunk", epoch |-> e, rev |-> rev, index |-> index, total |-> total, body |-> body]
Confirmed(e, rev, complete) == [type |-> "confirmed", epoch |-> e, rev |-> rev, complete |-> complete]
ChunkAck(e, rev, index) == [type |-> "chunk_ack", epoch |-> e, rev |-> rev, index |-> index]
Cleared(e) == [type |-> "cleared", epoch |-> e]
Ack(e, rev) == [type |-> "ack", epoch |-> e, rev |-> rev]

SendDown(m) == down' = IF conn = current THEN Append(down, m) ELSE down
SendUp(m) == up' = IF conn = current THEN Append(up, m) ELSE up

Init ==
    /\ identity \in [Users -> Contents]
    /\ changes = 0 /\ revision = 0 /\ lost = 0
    /\ dbSession = 0 /\ desired = NoRows /\ applied = NoRows
    /\ epoch = 0 /\ ready = FALSE /\ baseline = FALSE /\ cursor = 0
    /\ page = {} /\ pageValue = Empty /\ pageRev = 0 /\ pageLast = 0 /\ pageEnd = FALSE
    /\ edgeEpoch = 0 /\ entered = FALSE
    /\ cache = Empty /\ lastRevision = 0 /\ resetPending = TRUE
    /\ current = 0 /\ unregistered = {} /\ stage = "hello" /\ welcomeEpoch = 0 /\ crossed = FALSE
    /\ needsFull = FALSE /\ fulls = 0
    /\ appliedRev = 0 /\ chunkIndex = 0 /\ chunkTotal = 0 /\ stuck = FALSE
    /\ up = <<>> /\ jobs = <<>> /\ down = <<>>
    /\ streams = 0 /\ conn = 0 /\ phase = "idle"
    /\ failed = FALSE /\ recvEpoch = 0 /\ fragments = 0 /\ syncReady = FALSE
    /\ buffer = None /\ worker = None /\ localRev = 0

-----------------------------------------------------------------------------
(* Controller: sessions *)

\* An identity change commits under syncMu, whatever the sessions do.
Mutate(u, v) ==
    /\ changes < MaxChanges
    /\ identity[u] # v
    /\ identity' = [identity EXCEPT ![u] = v]
    /\ changes' = changes + 1
    /\ revision' = revision + 1
    /\ MarkDirty(u)
    /\ UNCHANGED <<dbSession, applied, lost, pageVars, epochVars, handlerVars, chunkVars,
                   refreshVars, jobs, edgeVars, up, down>>

\* The handler of a stream registers and supersedes the session before it.
Register(s) ==
    /\ s \in unregistered
    /\ unregistered' = unregistered \ {s}
    /\ current' = s /\ stage' = "hello" /\ needsFull' = FALSE
    /\ up' = <<>> /\ jobs' = <<>>
    /\ UNCHANGED <<indexVars, pageVars, epochVars, welcomeEpoch, crossed, chunkVars, fulls,
                   edgeVars, down>>

\* The hello is read and the session gets its cache epoch.
Hello ==
    /\ current # 0 /\ stage = "hello" /\ epoch < MaxEpoch
    /\ epoch' = epoch + 1 /\ ready' = FALSE /\ baseline' = FALSE /\ cursor' = 0
    /\ NoPage
    /\ appliedRev' = 0 /\ chunkIndex' = 0 /\ chunkTotal' = 0 /\ stuck' = FALSE
    /\ stage' = "greet" /\ welcomeEpoch' = epoch + 1 /\ crossed' = FALSE
    /\ UNCHANGED <<indexVars, current, unregistered, refreshVars, jobs, edgeVars, up, down>>

\* The welcome is queued, a moment after the epoch became visible.
SendWelcome ==
    /\ current # 0 /\ stage = "greet"
    /\ stage' = "open"
    /\ SendDown(Welcome(welcomeEpoch))
    /\ UNCHANGED <<indexVars, pageVars, epochVars, current, unregistered, welcomeEpoch, crossed,
                   chunkVars, refreshVars, jobs, edgeVars, up>>

\* The handler returns: the stream broke, the edge is silent, a watchdog fired
\* or a message was refused.
EndSession ==
    /\ current # 0
    /\ current' = 0 /\ up' = <<>> /\ jobs' = <<>>
    /\ UNCHANGED <<indexVars, pageVars, epochVars, unregistered, stage, welcomeEpoch, crossed,
                   chunkVars, refreshVars, edgeVars, down>>

\* A recovery of the database, or a change no index can express.
NeedFull ==
    /\ current # 0 /\ lost + fulls < MaxTrouble
    /\ needsFull' = TRUE /\ fulls' = fulls + 1
    /\ UNCHANGED <<indexVars, pageVars, epochVars, handlerVars, chunkVars, jobs, edgeVars, up, down>>

-----------------------------------------------------------------------------
(* Controller: the delivery loop *)

Deliverable == current # 0 /\ stage # "hello" /\ pageRev = 0

\* A full refresh opens a new epoch on the same stream.
RequestReset ==
    /\ Deliverable /\ needsFull /\ (~ready \/ ~baseline) /\ epoch < MaxEpoch
    /\ epoch' = epoch + 1 /\ ready' = FALSE /\ needsFull' = FALSE
    /\ crossed' = (crossed \/ stage = "greet")
    /\ SendDown(Welcome(epoch + 1))
    /\ UNCHANGED <<indexVars, pageVars, baseline, cursor, current, unregistered, stage, welcomeEpoch,
                   chunkVars, fulls, jobs, edgeVars, up>>

\* The first PageSize members in id order.
FirstPage(S) == {u \in S : Cardinality({w \in S : w < u}) < PageSize}

\* The users of the next page: authorised ones past the cursor, or pending ones.
NextPage ==
    FirstPage(IF baseline THEN {u \in Users : u > cursor /\ identity[u] # Absent}
                          ELSE {u \in Users : Pending(u)})

\* Mutant of PageDue: an empty baseline page is not sent.
PageDueNonEmpty ==
    /\ Deliverable /\ ready /\ dbSession = epoch
    /\ baseline \/ ~needsFull
    /\ NextPage # {}

\* Something is to be sent: a baseline page even when it is empty, or pending
\* users unless a full refresh is due.
PageDue ==
    /\ Deliverable /\ ready /\ dbSession = epoch
    /\ baseline \/ (~needsFull /\ NextPage # {})

LastID ==
    IF ~baseline THEN 0
    ELSE IF NextPage = {} THEN cursor
    ELSE CHOOSE u \in NextPage : \A w \in NextPage : u >= w

\* What a page says, of whom, and whether it ends the baseline.
Body == [users |-> page, value |-> pageValue, baseline |-> baseline, end |-> pageEnd]

\* Read a page, prepare its rows and make it the page in flight.
TakePage(total) ==
    /\ PageDue
    /\ UNCHANGED lost
    /\ PrepareRows(NextPage)
    /\ page' = NextPage
    /\ pageValue' = [u \in Users |-> IF u \in NextPage THEN identity[u] ELSE Absent]
    /\ pageRev' = revision + 1
    /\ pageLast' = LastID
    /\ pageEnd' = (baseline /\ \A u \in Users : u > LastID => identity[u] = Absent)
    /\ chunkIndex' = 0 /\ chunkTotal' = total
    /\ UNCHANGED <<identity, changes, dbSession, applied, epochVars, handlerVars, appliedRev,
                   refreshVars, jobs, edgeVars, up>>

\* The page is sent in one or more fragments, the first one now.
PushPage(total) ==
    /\ TakePage(total)
    /\ SendDown(Chunk(epoch, pageRev', 0, total, Body'))
    /\ UNCHANGED stuck

\* The page is in flight but its first fragment found the send queue full.
PushStuck(total) ==
    /\ ~stuck /\ stuck' = TRUE
    /\ TakePage(total)
    /\ UNCHANGED down

\* The push stops after its revision or its rows are committed.
PushLost(U) ==
    /\ lost + fulls < MaxTrouble /\ lost' = lost + 1
    /\ PageDue
    /\ U \in {{}, NextPage}
    /\ PrepareRows(U)
    /\ UNCHANGED <<identity, changes, dbSession, applied, pageVars, epochVars, handlerVars, chunkVars,
                   refreshVars, jobs, edgeVars, up, down>>

-----------------------------------------------------------------------------
(* Controller: messages of the edge *)

\* What acceptIdentityProgress ignores, and what it accepts; anything else ends
\* the session.
AckIgnored(m) == m.epoch # epoch \/ m.rev <= appliedRev \/ (m.rev = pageRev /\ m.index < chunkIndex)
AckAccepted(m) == m.epoch = epoch /\ m.rev = pageRev /\ m.index = chunkIndex /\ chunkIndex < chunkTotal

Receiving == current # 0 /\ stage = "open" /\ up # <<>>

\* Mutant of CountAck: the last fragment's acknowledgement is not counted.
CountAckButLast(m) == IF AckIgnored(m) \/ chunkIndex + 1 = chunkTotal THEN chunkIndex ELSE chunkIndex + 1

CountAck(m) == IF AckIgnored(m) THEN chunkIndex ELSE chunkIndex + 1

\* Mutant of FragmentsLeft: an off-by-one forgets the last fragment.
FragmentsLeftButOne(m) == ~AckIgnored(m) /\ chunkIndex + 2 < chunkTotal

FragmentsLeft(m) == ~AckIgnored(m) /\ chunkIndex + 1 < chunkTotal

\* An acknowledged fragment is followed by the next one.
RecvChunkAck ==
    LET m == Head(up)
    IN  /\ Receiving /\ m.type = "chunk_ack"
        /\ AckIgnored(m) \/ AckAccepted(m)
        /\ up' = Tail(up)
        /\ chunkIndex' = CountAck(m)
        /\ IF FragmentsLeft(m)
           THEN SendDown(Chunk(epoch, pageRev, chunkIndex + 1, chunkTotal, Body))
           ELSE UNCHANGED down
        /\ UNCHANGED <<indexVars, pageVars, epochVars, handlerVars, appliedRev, chunkTotal, stuck,
                       refreshVars, jobs, edgeVars>>

\* Resets and acknowledgements are left to the worker.
RecvJob ==
    /\ Receiving /\ Head(up).type # "chunk_ack"
    /\ up' = Tail(up) /\ jobs' = Append(jobs, Head(up))
    /\ UNCHANGED <<indexVars, pageVars, epochVars, handlerVars, chunkVars, refreshVars, edgeVars, down>>

JobIs(type) == current # 0 /\ jobs # <<>> /\ Head(jobs).type = type

\* Mutant of ClearedNow: the epoch of the report is not compared.
ClearedAnyEpoch(m) == ~ready

\* The report concerns the session's epoch and is the first one.
ClearedNow(m) == m.epoch = epoch /\ ~ready

\* The edge has committed its reset: the index is emptied and the baseline
\* begins. A report of an earlier epoch is ignored.
AcceptCacheCleared ==
    /\ JobIs("cleared")
    /\ jobs' = Tail(jobs)
    /\ IF ClearedNow(Head(jobs))
       THEN /\ ResetRows /\ NoPage
            /\ ready' = TRUE /\ needsFull' = FALSE /\ baseline' = TRUE /\ cursor' = 0
            /\ appliedRev' = 0
       ELSE UNCHANGED <<dbSession, desired, applied, pageVars, ready, needsFull, baseline, cursor, appliedRev>>
    /\ UNCHANGED <<identity, changes, revision, lost, epoch, handlerVars, chunkIndex, chunkTotal, stuck, fulls,
                   edgeVars, up, down>>

\* The reset commits, its reply is lost, and the job is tried again.
ResetLost ==
    /\ lost + fulls < MaxTrouble /\ lost' = lost + 1
    /\ JobIs("cleared") /\ ClearedNow(Head(jobs))
    /\ ResetRows
    /\ UNCHANGED <<identity, changes, revision, pageVars, epochVars, handlerVars, chunkVars, refreshVars,
                   jobs, edgeVars, up, down>>

AckStale(m) == m.epoch # epoch \/ m.rev <= appliedRev
AckDue(m) == m.rev = pageRev /\ chunkIndex = chunkTotal

ConfirmRows ==
    /\ dbSession = epoch
    /\ desired' = [u \in Users |-> ConfirmedRow(u)[1]]
    /\ applied' = [u \in Users |-> ConfirmedRow(u)[2]]

\* The acknowledged page is confirmed in the index, in the session and to the
\* edge.
ConfirmIdentity ==
    LET m == Head(jobs)
    IN  /\ JobIs("ack")
        /\ jobs' = Tail(jobs)
        /\ \/ /\ AckStale(m)
              /\ UNCHANGED <<desired, applied, appliedRev, cursor, baseline, pageVars, down>>
           \/ /\ ~AckStale(m) /\ AckDue(m)
              /\ ConfirmRows
              /\ appliedRev' = m.rev
              /\ cursor' = IF baseline THEN pageLast ELSE cursor
              /\ baseline' = (baseline /\ ~pageEnd)
              /\ NoPage
              /\ SendDown(Confirmed(epoch, m.rev, ~baseline \/ pageEnd))
        /\ UNCHANGED <<identity, changes, revision, dbSession, lost, epoch, ready, handlerVars,
                       chunkIndex, chunkTotal, stuck, refreshVars, edgeVars, up>>

\* The confirmation commits, its reply is lost, and the job is tried again.
ConfirmLost ==
    /\ lost + fulls < MaxTrouble /\ lost' = lost + 1
    /\ JobIs("ack") /\ ~AckStale(Head(jobs)) /\ AckDue(Head(jobs))
    /\ ConfirmRows
    /\ UNCHANGED <<identity, changes, revision, dbSession, pageVars, epochVars, handlerVars, chunkVars,
                   refreshVars, jobs, edgeVars, up, down>>

-----------------------------------------------------------------------------
(* Edge: the connection *)

\* A cleared cache and a new stream; its hello waits for the handler.
Connect ==
    /\ phase = "idle" /\ streams < MaxStreams
    /\ phase' = "up" /\ streams' = streams + 1 /\ conn' = streams + 1
    /\ unregistered' = unregistered \cup {streams + 1}
    /\ recvEpoch' = 0 /\ fragments' = 0 /\ localRev' = 0 /\ down' = <<>>
    /\ UNCHANGED <<indexVars, pageVars, epochVars, current, stage, welcomeEpoch, crossed, chunkVars,
                   refreshVars, jobs, cacheVars, failed, syncReady, buffer, worker, up>>

\* connect() is about to return, for whatever reason: logins are fenced before
\* the receiver and the workers are waited for.
Fence ==
    /\ phase = "up"
    /\ phase' = "fencing" /\ syncReady' = FALSE
    /\ UNCHANGED <<ctlVars, cacheVars, streams, conn, failed, recvEpoch, fragments, workVars, up, down>>

\* What is gone once the receiver and the workers have ended.
ConnectionGone ==
    /\ phase' = "down" /\ conn' = 0 /\ failed' = FALSE
    /\ buffer' = None /\ worker' = None /\ down' = <<>>
    /\ entered' = FALSE

\* Mutant of Join: the flags are cleared only by the fence.
JoinOnce ==
    /\ phase = "fencing"
    /\ ConnectionGone
    /\ UNCHANGED <<ctlVars, edgeEpoch, cache, lastRevision, resetPending, streams, recvEpoch, fragments,
                   syncReady, localRev, up>>

\* The workers have ended, with or without the job they had, and Run clears the
\* flags once more.
Join ==
    /\ phase = "fencing"
    /\ ConnectionGone
    /\ syncReady' = FALSE
    /\ UNCHANGED <<ctlVars, edgeEpoch, cache, lastRevision, resetPending, streams, recvEpoch, fragments,
                   localRev, up>>

\* The process dies: identityResetPending is only in memory.
Crash ==
    /\ Live
    /\ ConnectionGone
    /\ syncReady' = FALSE /\ resetPending' = FALSE
    /\ UNCHANGED <<ctlVars, edgeEpoch, cache, lastRevision, streams, recvEpoch, fragments, localRev, up>>

ClearCache == cache' = Empty /\ lastRevision' = 0 /\ resetPending' = TRUE

\* No stream is opened before the cache is discarded.
Discard ==
    /\ phase = "down"
    /\ phase' = "idle"
    /\ ClearCache
    /\ UNCHANGED <<ctlVars, edgeEpoch, entered, streams, conn, recvVars, workVars, up, down>>

-----------------------------------------------------------------------------
(* Edge: the receiver *)

Arrives(type) == Live /\ ~failed /\ down # <<>> /\ Head(down).type = type

\* One job may wait while another is in work.
QueueApply(job) ==
    IF buffer = None
    THEN buffer' = job /\ failed' = FALSE
    ELSE buffer' = buffer /\ failed' = TRUE

\* A welcome opens an epoch: the edge is not ready until it is filled.
RecvWelcome ==
    /\ Arrives("welcome")
    /\ down' = Tail(down)
    /\ recvEpoch' = Head(down).epoch /\ fragments' = 0 /\ syncReady' = FALSE
    /\ QueueApply([type |-> "reset", epoch |-> Head(down).epoch])
    /\ UNCHANGED <<ctlVars, cacheVars, linkVars, worker, localRev, up>>

ChunkFits(m) == m.epoch = recvEpoch /\ m.index = fragments

FragmentsAfter(m) == IF m.index + 1 = m.total THEN 0 ELSE fragments + 1

\* Fragments are acknowledged one by one; the last one makes a job.
RecvChunk ==
    LET m == Head(down)
    IN  /\ Arrives("chunk")
        /\ down' = Tail(down)
        /\ syncReady' = (syncReady /\ ~(m.epoch = recvEpoch /\ m.index = 0))
        /\ IF ~ChunkFits(m)
           THEN failed' = TRUE /\ UNCHANGED <<fragments, buffer, up>>
           ELSE /\ SendUp(ChunkAck(m.epoch, m.rev, m.index))
                /\ fragments' = FragmentsAfter(m)
                /\ IF m.index + 1 = m.total
                   THEN QueueApply([type |-> "page", epoch |-> m.epoch, rev |-> m.rev, body |-> m.body])
                   ELSE UNCHANGED <<failed, buffer>>
        /\ UNCHANGED <<ctlVars, cacheVars, linkVars, recvEpoch, worker, localRev>>

ConfirmedFits(m) == m.epoch = recvEpoch /\ m.rev = localRev

\* Only the controller's confirmation of the last page makes the edge ready.
RecvConfirmed ==
    LET m == Head(down)
    IN  /\ Arrives("confirmed")
        /\ down' = Tail(down)
        /\ failed' = ~ConfirmedFits(m)
        /\ syncReady' = IF ConfirmedFits(m) THEN m.complete ELSE syncReady
        /\ UNCHANGED <<ctlVars, cacheVars, linkVars, recvEpoch, fragments, workVars, up>>

-----------------------------------------------------------------------------
(* Edge: the apply worker *)

TakeJob ==
    /\ Live /\ worker = None /\ buffer # None
    /\ worker' = buffer /\ buffer' = None
    /\ UNCHANGED <<ctlVars, cacheVars, linkVars, recvVars, localRev, up, down>>

Working(type) == Live /\ worker # None /\ worker.type = type

\* The reset commits and is reported under the epoch that asked for it.
DoReset ==
    /\ Working("reset")
    /\ ClearCache
    /\ edgeEpoch' = Max2(edgeEpoch, worker.epoch) /\ entered' = TRUE
    /\ localRev' = 0 /\ worker' = None
    /\ SendUp(Cleared(worker.epoch))
    /\ UNCHANGED <<ctlVars, linkVars, recvVars, buffer, down>>

\* What ApplyIdentitySnapshot demands: a baseline page follows a reset, carries
\* a new revision and brings only unknown users; an incremental page follows
\* another page.
PageAcceptable(job) ==
    /\ lastRevision < job.rev
    /\ IF job.body.baseline
       THEN resetPending /\ \A u \in job.body.users : cache[u] = Absent
       ELSE lastRevision # 0

\* The page commits in one transaction and is acknowledged.
DoApply ==
    /\ Working("page") /\ PageAcceptable(worker)
    /\ cache' = [u \in Users |-> IF u \in worker.body.users THEN worker.body.value[u] ELSE cache[u]]
    /\ lastRevision' = worker.rev
    /\ resetPending' = (resetPending /\ ~(worker.body.baseline /\ worker.body.end))
    /\ localRev' = worker.rev /\ worker' = None
    /\ SendUp(Ack(worker.epoch, worker.rev))
    /\ UNCHANGED <<ctlVars, edgeEpoch, entered, linkVars, recvVars, buffer, down>>

\* The transaction fails and the worker gives up; a reset has by then raised
\* identityResetPending.
JobFails ==
    /\ Live /\ ~failed /\ worker # None
    /\ failed' = TRUE /\ entered' = FALSE
    /\ resetPending' = (resetPending \/ worker.type = "reset")
    /\ worker' = [type |-> "given up"]
    /\ UNCHANGED <<ctlVars, edgeEpoch, cache, lastRevision, linkVars, recvEpoch, fragments, syncReady,
                   buffer, localRev, up, down>>

-----------------------------------------------------------------------------
PushAny == \E total \in 1..2 : PushPage(total)

Next ==
    \/ \E u \in Users, v \in Contents : Mutate(u, v)
    \/ \E s \in unregistered : Register(s)
    \/ Hello \/ SendWelcome \/ EndSession \/ NeedFull
    \/ RequestReset \/ PushAny \/ PushStuck(1) \/ \E U \in SUBSET Users : PushLost(U)
    \/ RecvChunkAck \/ RecvJob \/ AcceptCacheCleared \/ ResetLost \/ ConfirmIdentity \/ ConfirmLost
    \/ Connect \/ Fence \/ Join \/ Crash \/ Discard
    \/ RecvWelcome \/ RecvChunk \/ RecvConfirmed
    \/ TakeJob \/ DoReset \/ DoApply \/ JobFails

Spec == Init /\ [][Next]_vars

Quiet ==
    /\ phase = "up" /\ conn = current /\ stage = "open" /\ ~failed
    /\ up = <<>> /\ jobs = <<>> /\ down = <<>> /\ worker = None /\ buffer = None

\* What the controller's goroutines do by themselves. A handler whose stream is
\* gone returns, and the watchdog ends a session that makes no progress.
ControllerStep ==
    \/ \E s \in unregistered : Register(s)
    \/ Hello \/ SendWelcome
    \/ RequestReset \/ PushAny
    \/ RecvChunkAck \/ RecvJob \/ AcceptCacheCleared \/ ConfirmIdentity
    \/ conn # current /\ EndSession
    \/ Quiet /\ (~ready \/ pageRev # 0) /\ EndSession

\* What the edge's goroutines do by themselves. A connection that has failed, or
\* whose session is gone, is left and opened again.
EdgeStep ==
    \/ Connect \/ Join \/ Discard
    \/ (failed \/ (conn # current /\ conn \notin unregistered)) /\ Fence
    \/ RecvWelcome \/ RecvChunk \/ RecvConfirmed
    \/ TakeJob \/ DoReset \/ DoApply

FairSpec == Spec /\ WF_vars(ControllerStep) /\ WF_vars(EdgeStep)

-----------------------------------------------------------------------------
(* Properties *)

\* An edge that admits clients holds a complete cache: the baseline is applied
\* and neither a reset nor a page is queued or in work. Its connection lives: a
\* confirmation read while it is being torn down does not make the edge ready.
ReadyIsComplete == syncReady => Live /\ entered /\ ~resetPending /\ worker = None /\ buffer = None

\* Neither side ends a session for a message of the other. The controller, however
\* far its worker lags behind its receiver, never meets an acknowledgement that does
\* not fit; the edge never meets such a fragment, confirmation or page, unless a
\* refresh overtook the welcome of its stream.
MessagesFit ==
    /\ Receiving /\ Head(up).type = "chunk_ack" => AckIgnored(Head(up)) \/ AckAccepted(Head(up))
    /\ JobIs("ack") => AckStale(Head(jobs)) \/ AckDue(Head(jobs))
    /\ ~crossed /\ conn = current =>
        /\ Arrives("chunk") => ChunkFits(Head(down))
        /\ Arrives("confirmed") => ConfirmedFits(Head(down))
        /\ Working("page") => PageAcceptable(worker) /\ buffer = None

\* The two sides do not wait for each other: only a fragment that never entered
\* the send queue leaves the watchdog to break a silent session.
NoSilentStall == Quiet => ready /\ (pageRev = 0 \/ stuck)

\* An edge that stays connected ends up ready and with exactly the identities
\* of the controller, once changes stop.
Converges == <>[](phase = "up") => <>[](syncReady /\ conn = current /\ cache = identity)
=============================================================================
