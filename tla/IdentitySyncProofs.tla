------------------------- MODULE IdentitySyncProofs -------------------------
(***************************************************************************)
(* Proofs about IdentitySync, for any users, page size, streams and epochs. *)
(*                                                                         *)
(* Three invariants, each resting on the ones before it. EpochInv: nothing  *)
(* of an epoch reaches an edge before the edge has committed the reset that *)
(* opens it. No clause of it speaks of the order of messages. StreamInv:    *)
(* for the epoch that the session serves, one thing is under way at a time, *)
(* the reset, a fragment, a page at work, or the answer to one. FitInv: the *)
(* two ends of a stream agree on what comes next, and one of them moves.    *)
(*                                                                         *)
(* They show that the goroutines implement IdentityOutbox, whose invariant  *)
(* then holds of them too.                                                  *)
(***************************************************************************)
EXTENDS IdentitySync, TLAPS

\* Most leaves are first-order and left to Zenon; the ones about arithmetic or records
\* cite SMT, with Z3 as a second attempt.
USE ZenonT(30), ZenonT(60)

Elements(s) == {s[i] : i \in DOMAIN s}
GivenUp == [type |-> "given up"]
Answers == Elements(up) \cup Elements(jobs)

\* The epochs of the session, of its welcome and of the edge.
Epochs ==
    /\ epoch \in Nat /\ edgeEpoch \in 0..epoch /\ recvEpoch \in 0..epoch
    /\ stage # "hello" => welcomeEpoch \in 1..epoch

\* What is on its way to the edge, at work there, and on its way back.
Ordered ==
    /\ down \in Seq(Elements(down))
    /\ \A m \in Elements(down) : m.type \in {"welcome", "chunk", "confirmed"}
    /\ \A m \in Elements(down) : m.epoch \in 1..epoch /\ (m.type # "welcome" => m.epoch <= edgeEpoch)
Queued ==
    \A w \in {buffer, worker} \ {None} :
      /\ w.type = "reset" => w.epoch \in 1..epoch
      /\ w.type = "page" => w.epoch \in 1..edgeEpoch
Answered ==
    /\ up \in Seq(Elements(up)) /\ jobs \in Seq(Elements(jobs))
    /\ \A m \in Answers : m.epoch \in 1..edgeEpoch

\* The session's epoch is open, and the revisions of its pages.
Opened ==
    /\ ready => epoch # 0 /\ edgeEpoch = epoch /\ dbSession = epoch
    /\ pageRev # 0 \/ baseline => ready
    /\ revision \in Nat /\ pageRev \in 0..revision /\ appliedRev \in 0..revision
    /\ pageRev # 0 => appliedRev < pageRev

\* The edge admits clients.
Admitting == syncReady => Live /\ recvEpoch \in 1..edgeEpoch

EpochInv == Epochs /\ Ordered /\ Queued /\ Answered /\ Opened /\ Admitting

KeepsEpochs(A) == EpochInv /\ A => EpochInv'

\* An identity changes; a push stops half way.
Changing == \E u \in Users, v \in Contents : Mutate(u, v)
Losing == \E U \in SUBSET Users : PushLost(U)

-----------------------------------------------------------------------------
(* Queues *)

\* A queue that is read holds what it held but its head.
LEMMA TailFacts ==
    ASSUME NEW s, s \in Seq(Elements(s)), s # <<>>
    PROVE  Head(s) \in Elements(s) /\ Tail(s) \in Seq(Elements(Tail(s))) /\ Elements(Tail(s)) \subseteq Elements(s)
<1>1. Len(s) \in Nat \ {0} /\ DOMAIN s = 1..Len(s) /\ Head(s) = s[1]
  BY SMT, Z3
<1>2. DOMAIN Tail(s) = 1..(Len(s) - 1) /\ \A i \in 1..(Len(s) - 1) : Tail(s)[i] = s[i + 1] /\ i + 1 \in 1..Len(s)
  BY <1>1, SMT, Z3
<1>3. \A i \in DOMAIN Tail(s) : Tail(s)[i] \in Elements(Tail(s))
  BY DEF Elements
<1>4. ASSUME NEW S, NEW T, NEW t \in Seq(S), \A i \in DOMAIN t : t[i] \in T PROVE t \in Seq(T)
  BY <1>4, SMT, Z3
<1>5. Tail(s) \in Seq(Elements(Tail(s)))
  <2>1. Tail(s) \in Seq(Elements(s))
    BY SMT, Z3
  <2> QED BY <1>3, <1>4, <2>1
<1>6. Head(s) \in Elements(s) /\ Elements(Tail(s)) \subseteq Elements(s)
  BY <1>1, <1>2, SMT, Z3 DEF Elements
<1> QED BY <1>5, <1>6

\* A queue that is written holds what it held and the new message.
LEMMA AppendFacts ==
    ASSUME NEW s, s \in Seq(Elements(s)), NEW x
    PROVE  Append(s, x) \in Seq(Elements(Append(s, x))) /\ Elements(Append(s, x)) = Elements(s) \cup {x}
<1>1. Len(s) \in Nat /\ DOMAIN s = 1..Len(s) /\ s \in Seq(Elements(s) \cup {x})
  BY SMT, Z3
<1>2. /\ DOMAIN Append(s, x) = 1..(Len(s) + 1) /\ Append(s, x)[Len(s) + 1] = x
      /\ \A i \in 1..Len(s) : Append(s, x)[i] = s[i]
      /\ Append(s, x) \in Seq(Elements(s) \cup {x})
  BY <1>1, SMT, Z3
<1>3. 1..(Len(s) + 1) = 1..Len(s) \cup {Len(s) + 1}
  BY <1>1, SMT, Z3
<1>4. Elements(Append(s, x)) = Elements(s) \cup {x}
  BY <1>1, <1>2, <1>3, SMT, Z3 DEF Elements
<1> QED BY <1>2, <1>4

\* An empty queue holds nothing.
LEMMA EmptyFacts == <<>> \in Seq(Elements(<<>>)) /\ Elements(<<>>) = {}
BY SMT, Z3 DEF Elements

\* A queue of one message.
LEMMA SingleFacts == ASSUME NEW x PROVE Append(<<>>, x) = <<x>> /\ DOMAIN <<x>> = {1}
BY SMT, Z3

\* The next revision or epoch is beyond all there are.
LEMMA NextIsBeyond ==
    ASSUME NEW n \in Nat
    PROVE  n + 1 \in Nat \ {0} /\ \A k \in 0..n : k < n + 1 /\ k <= n + 1 /\ k # n + 1
BY SMT, Z3

\* A revision or an epoch that was given out is a positive number.
LEMMA GivenOut == ASSUME NEW n \in Nat, NEW k \in 1..n PROVE k \in 0..n /\ k \in Nat \ {0}
BY SMT, Z3

\* What is before the last epoch is not behind it.
LEMMA BeforeOrBehind == ASSUME NEW n \in Nat, NEW k \in 1..n, k < n, n < k PROVE FALSE
BY SMT, Z3

\* An epoch later than another is none of those up to it.
LEMMA LaterEpoch ==
    ASSUME NEW n \in Nat, NEW e \in 0..n, NEW j \in 1..n, NEW k \in 1..e, e < j
    PROVE  k # j
BY SMT, Z3

-----------------------------------------------------------------------------
(* The first invariant holds *)

\* The clauses bound epochs from above, so they survive when epochs grow.
Grows == epoch' \in Nat /\ edgeEpoch' \in Nat /\ epoch <= epoch' /\ edgeEpoch <= edgeEpoch'
\* What a step of the controller leaves alone at the edge.
SameEdge == UNCHANGED <<edgeEpoch, recvEpoch, syncReady, phase, buffer, worker>>

\* The first invariant holds at the start, with no stream and no epoch.
LEMMA EpochsStart == ASSUME Init PROVE EpochInv
BY EmptyFacts, SMT, Z3
DEF Init, EpochInv, Epochs, Ordered, Queued, Answered, Answers, Opened, Admitting

\* Every step of either side keeps the epochs in order.
LEMMA EpochsKept == EpochInv /\ [Next]_vars => EpochInv'
<1>OrderedStays. ASSUME Epochs, Ordered, Grows, UNCHANGED down PROVE Ordered'
  BY <1>OrderedStays, SMT, Z3 DEF Epochs, Ordered, Grows, Elements
<1>OrderedSends.
    ASSUME Epochs, Ordered, Grows, NEW m, SendDown(m), m.type \in {"welcome", "chunk", "confirmed"},
           m.epoch \in 1..epoch', m.type # "welcome" => m.epoch <= edgeEpoch'
    PROVE  Ordered'
  <2> USE <1>OrderedSends
  <2>1. CASE down' = down
    BY <2>1, <1>OrderedStays
  <2>2. CASE down' = Append(down, m)
    <3>1. down' \in Seq(Elements(down')) /\ Elements(down') = Elements(down) \cup {m}
      BY <2>2, AppendFacts DEF Ordered
    <3> QED BY <3>1, SMT, Z3 DEF Epochs, Ordered, Grows
  <2> QED BY <2>1, <2>2 DEF SendDown
<1>OrderedTakes.
    ASSUME Epochs, Ordered, Grows, down # <<>>, down' = Tail(down)
    PROVE  Ordered' /\ Head(down) \in Elements(down)
  <2> USE <1>OrderedTakes
  <2>1. Head(down) \in Elements(down) /\ down' \in Seq(Elements(down')) /\ Elements(down') \subseteq Elements(down)
    BY TailFacts DEF Ordered
  <2> QED BY <2>1, SMT, Z3 DEF Epochs, Ordered, Grows
<1>OrderedEmpty. ASSUME down' = <<>> PROVE Ordered'
  BY <1>OrderedEmpty, EmptyFacts DEF Ordered
<1>QueuedStays.
    ASSUME Epochs, Queued, Grows, {buffer', worker'} \subseteq {buffer, worker, None, GivenUp}
    PROVE  Queued'
  <2> USE <1>QueuedStays
  <2>1. GivenUp.type = "given up"
    BY DEF GivenUp
  <2>2. SUFFICES ASSUME NEW w \in {buffer', worker'} \ {None}
                 PROVE  (w.type = "reset" => w.epoch \in 1..epoch') /\ (w.type = "page" => w.epoch \in 1..edgeEpoch')
    BY DEF Queued
  <2>3. CASE w = GivenUp
    BY <2>1, <2>3
  <2>4. CASE w \in {buffer, worker} \ {None}
    <3>1. (w.type = "reset" => w.epoch \in 1..epoch) /\ (w.type = "page" => w.epoch \in 1..edgeEpoch)
      BY <2>4 DEF Queued
    <3>2. 1..epoch \subseteq 1..epoch' /\ 1..edgeEpoch \subseteq 1..edgeEpoch'
      BY SMT, Z3 DEF Epochs, Grows
    <3> QED BY <3>1, <3>2
  <2> QED BY <2>2, <2>3, <2>4
<1>AnsweredStays. ASSUME Epochs, Answered, Grows, UNCHANGED <<up, jobs>> PROVE Answered'
  BY <1>AnsweredStays, SMTT(30), Z3T(30) DEF Epochs, Answered, Answers, Grows, Elements
<1>AnsweredSends.
    ASSUME Epochs, Answered, Grows, NEW m, SendUp(m), UNCHANGED jobs, m.epoch \in 1..edgeEpoch'
    PROVE  Answered'
  <2> USE <1>AnsweredSends
  <2>1. CASE up' = up
    BY <2>1, <1>AnsweredStays
  <2>2. CASE up' = Append(up, m)
    <3>1. up' \in Seq(Elements(up')) /\ Elements(up') = Elements(up) \cup {m}
      BY <2>2, AppendFacts DEF Answered
    <3>2. jobs' \in Seq(Elements(jobs')) /\ Elements(jobs') = Elements(jobs)
      BY DEF Answered, Elements
    <3> QED BY <3>1, <3>2, SMT, Z3 DEF Epochs, Answered, Answers, Grows
  <2> QED BY <2>1, <2>2 DEF SendUp
<1>OpenedStays.
    ASSUME Opened, UNCHANGED <<ready, epoch, edgeEpoch, dbSession, pageRev, baseline, revision, appliedRev>>
    PROVE  Opened'
  BY <1>OpenedStays DEF Opened
<1>EdgeUntouched.
    ASSUME Epochs, Queued, Admitting, SameEdge, Grows
    PROVE  Queued' /\ Admitting'
  BY <1>EdgeUntouched, <1>QueuedStays DEF SameEdge, Admitting, Live, Grows
<1>SourceKeeps. KeepsEpochs(Changing \/ NeedFull \/ Losing)
  <2> SUFFICES ASSUME EpochInv, Changing \/ NeedFull \/ Losing PROVE EpochInv'
    BY DEF KeepsEpochs
  <2>1. /\ UNCHANGED <<epoch, edgeEpoch, recvEpoch, stage, welcomeEpoch, down, buffer, worker, up,
                       jobs, syncReady, phase>>
        /\ UNCHANGED <<ready, dbSession, pageRev, baseline, appliedRev>> /\ (revision' = revision \/ revision' = revision + 1)
    BY
    DEF Changing, Losing, Mutate, NeedFull, PushLost, PrepareRows, indexVars, pageVars, epochVars,
        handlerVars, chunkVars, edgeVars, cacheVars, linkVars, recvVars, workVars
  <2>2. Grows /\ Epochs'
    BY <2>1, SMT, Z3 DEF EpochInv, Epochs, Grows
  <2>3. Ordered' /\ Answered'
    BY <2>1, <2>2, <1>OrderedStays, <1>AnsweredStays DEF EpochInv
  <2>4. Queued' /\ Admitting'
    BY <2>1, <2>2, <1>EdgeUntouched DEF EpochInv, SameEdge
  <2>5. Opened'
    BY <2>1, SMT, Z3 DEF EpochInv, Opened
  <2> QED BY <2>2, <2>3, <2>4, <2>5 DEF EpochInv
<1>RegisterKeeps. KeepsEpochs(EndSession \/ \E s \in unregistered : Register(s))
  <2> SUFFICES ASSUME EpochInv, EndSession \/ \E s \in unregistered : Register(s) PROVE EpochInv'
    BY DEF KeepsEpochs
  <2>1. /\ UNCHANGED <<epoch, edgeEpoch, recvEpoch, welcomeEpoch, down, buffer, worker, syncReady, phase>>
        /\ UNCHANGED <<ready, dbSession, pageRev, baseline, revision, appliedRev>>
        /\ up' = <<>> /\ jobs' = <<>> /\ (stage' = stage \/ stage' = "hello")
    BY
    DEF Register, EndSession, indexVars, pageVars, epochVars, chunkVars, edgeVars, cacheVars,
        linkVars, recvVars, workVars
  <2>2. Grows /\ Epochs'
    BY <2>1, SMT, Z3 DEF EpochInv, Epochs, Grows
  <2>3. Answered'
    BY <2>1, EmptyFacts DEF Answered, Answers
  <2>4. Ordered' /\ Queued' /\ Admitting' /\ Opened'
    BY <2>1, <2>2, <1>OrderedStays, <1>EdgeUntouched, <1>OpenedStays DEF EpochInv, SameEdge
  <2> QED BY <2>2, <2>3, <2>4 DEF EpochInv
<1>HelloKeeps. KeepsEpochs(Hello)
  <2> SUFFICES ASSUME EpochInv, Hello PROVE EpochInv'
    BY DEF KeepsEpochs
  <2>1. /\ epoch' = epoch + 1 /\ ready' = FALSE /\ baseline' = FALSE /\ pageRev' = 0 /\ appliedRev' = 0
        /\ stage' = "greet" /\ welcomeEpoch' = epoch + 1
        /\ UNCHANGED <<edgeEpoch, recvEpoch, down, buffer, worker, up, jobs, syncReady, phase, revision>>
    BY DEF Hello, NoPage, indexVars, edgeVars, cacheVars, linkVars, recvVars, workVars
  <2>2. Grows /\ Epochs'
    BY <2>1, SMT, Z3 DEF EpochInv, Epochs, Grows
  <2>3. Ordered' /\ Answered' /\ Queued' /\ Admitting'
    BY <2>1, <2>2, <1>OrderedStays, <1>AnsweredStays, <1>EdgeUntouched DEF EpochInv, SameEdge
  <2>4. Opened'
    BY <2>1, SMT, Z3 DEF EpochInv, Opened
  <2> QED BY <2>2, <2>3, <2>4 DEF EpochInv
<1>SendWelcomeKeeps. KeepsEpochs(SendWelcome)
  <2> SUFFICES ASSUME EpochInv, SendWelcome PROVE EpochInv'
    BY DEF KeepsEpochs
  <2>1. /\ stage = "greet" /\ stage' = "open" /\ SendDown(Welcome(welcomeEpoch))
        /\ UNCHANGED <<epoch, edgeEpoch, recvEpoch, welcomeEpoch, buffer, worker, up, jobs, syncReady, phase>>
        /\ UNCHANGED <<ready, dbSession, pageRev, baseline, revision, appliedRev>>
    BY
    DEF SendWelcome, indexVars, pageVars, epochVars, chunkVars, edgeVars, cacheVars, linkVars,
        recvVars, workVars
  <2>2. Grows /\ Epochs'
    BY <2>1, SMT, Z3 DEF EpochInv, Epochs, Grows
  <2>3. Welcome(welcomeEpoch).epoch \in 1..epoch' /\ Welcome(welcomeEpoch).type = "welcome"
    BY <2>1 DEF EpochInv, Epochs, Welcome
  <2>4. Ordered'
    BY <2>1, <2>2, <2>3, <1>OrderedSends DEF EpochInv
  <2>5. Answered' /\ Queued' /\ Admitting' /\ Opened'
    BY <2>1, <2>2, <1>AnsweredStays, <1>EdgeUntouched, <1>OpenedStays DEF EpochInv, SameEdge
  <2> QED BY <2>2, <2>4, <2>5 DEF EpochInv
<1>RequestResetKeeps. KeepsEpochs(RequestReset)
  <2> SUFFICES ASSUME EpochInv, RequestReset PROVE EpochInv'
    BY DEF KeepsEpochs
  <2>1. /\ epoch' = epoch + 1 /\ ready' = FALSE /\ pageRev = 0 /\ (~ready \/ ~baseline) /\ SendDown(Welcome(epoch + 1))
        /\ UNCHANGED <<edgeEpoch, recvEpoch, stage, welcomeEpoch, buffer, worker, up, jobs, syncReady, phase>>
        /\ UNCHANGED <<dbSession, pageRev, baseline, revision, appliedRev>>
    BY
    DEF RequestReset, Deliverable, indexVars, pageVars, chunkVars, edgeVars, cacheVars, linkVars,
        recvVars, workVars
  <2>2. Grows /\ Epochs'
    BY <2>1, SMT, Z3 DEF EpochInv, Epochs, Grows
  <2>3. Welcome(epoch + 1).epoch \in 1..epoch' /\ Welcome(epoch + 1).type = "welcome"
    BY <2>1, SMT, Z3 DEF EpochInv, Epochs, Welcome
  <2>4. Ordered'
    BY <2>1, <2>2, <2>3, <1>OrderedSends DEF EpochInv
  <2>5. Answered' /\ Queued' /\ Admitting'
    BY <2>1, <2>2, <1>AnsweredStays, <1>EdgeUntouched DEF EpochInv, SameEdge
  <2>6. Opened'
    BY <2>1 DEF EpochInv, Opened
  <2> QED BY <2>2, <2>4, <2>5, <2>6 DEF EpochInv
\* A page is only taken in an open epoch, so its fragment is of the edge's.
<1>TakePageKeeps. \A total \in Nat : KeepsEpochs(PushPage(total) \/ PushStuck(total))
  <2> SUFFICES ASSUME NEW total \in Nat, EpochInv, PushPage(total) \/ PushStuck(total) PROVE EpochInv'
    BY DEF KeepsEpochs
  <2>1. /\ ready /\ TakePage(total) /\ pageRev' = revision + 1 /\ revision' = revision + 1
        /\ UNCHANGED <<epoch, edgeEpoch, recvEpoch, stage, welcomeEpoch, buffer, worker, up, jobs,
                       syncReady, phase>>
        /\ UNCHANGED <<ready, dbSession, baseline, appliedRev>>
    BY
    DEF PushPage, PushStuck, TakePage, PageDue, PrepareRows, epochVars, handlerVars, edgeVars,
        cacheVars, linkVars, recvVars, workVars
  <2>2. Grows /\ Epochs'
    BY <2>1, SMT, Z3 DEF EpochInv, Epochs, Grows
  <2>3. Ordered'
    <3>1. CASE PushStuck(total)
      BY <2>2, <3>1, <1>OrderedStays DEF EpochInv, PushStuck
    <3>2. CASE PushPage(total)
      <4> DEFINE m == Chunk(epoch, pageRev', 0, total, Body')
      <4>1. m.epoch = epoch /\ m.type = "chunk"
        BY DEF Chunk
      <4>2. epoch \in 1..epoch' /\ epoch <= edgeEpoch'
        BY <2>1, SMT, Z3 DEF EpochInv, Epochs, Opened
      <4>3. SendDown(m)
        BY <3>2 DEF PushPage
      <4> HIDE DEF m
      <4> QED BY <2>2, <4>1, <4>2, <4>3, <1>OrderedSends DEF EpochInv
    <3> QED BY <3>1, <3>2
  <2>4. Answered' /\ Queued' /\ Admitting'
    BY <2>1, <2>2, <1>AnsweredStays, <1>EdgeUntouched DEF EpochInv, SameEdge
  <2>5. Opened'
    BY <2>1, SMT, Z3 DEF EpochInv, Opened
  <2> QED BY <2>2, <2>3, <2>4, <2>5 DEF EpochInv
<1>RecvChunkAckKeeps. KeepsEpochs(RecvChunkAck)
  <2> SUFFICES ASSUME EpochInv, RecvChunkAck PROVE EpochInv'
    BY DEF KeepsEpochs
  <2>1. /\ up # <<>> /\ up' = Tail(up) /\ Head(up).type = "chunk_ack" /\ (AckIgnored(Head(up)) \/ AckAccepted(Head(up)))
        /\ \/ UNCHANGED down
           \/ ~AckIgnored(Head(up)) /\ SendDown(Chunk(epoch, pageRev, chunkIndex + 1, chunkTotal, Body))
        /\ UNCHANGED <<epoch, edgeEpoch, recvEpoch, stage, welcomeEpoch, buffer, worker, jobs,
                       syncReady, phase>>
        /\ UNCHANGED <<ready, dbSession, pageRev, baseline, revision, appliedRev>>
    BY
    DEF RecvChunkAck, Receiving, FragmentsLeft, indexVars, pageVars, epochVars, handlerVars,
        edgeVars, cacheVars, linkVars, recvVars, workVars
  <2>2. Grows /\ Epochs'
    BY <2>1, SMT, Z3 DEF EpochInv, Epochs, Grows
  <2>3. /\ Head(up) \in Elements(up) /\ up' \in Seq(Elements(up')) /\ Elements(up') \subseteq Elements(up)
    BY <2>1, TailFacts DEF EpochInv, Answered
  <2>4. Answered'
    <3>1. jobs' \in Seq(Elements(jobs')) /\ Elements(jobs') = Elements(jobs)
      BY <2>1 DEF EpochInv, Answered, Elements
    <3> QED BY <2>1, <2>3, <3>1 DEF EpochInv, Answered, Answers
  <2>5. Ordered'
    <3>1. CASE UNCHANGED down
      BY <2>2, <3>1, <1>OrderedStays DEF EpochInv
    <3>2. CASE ~AckIgnored(Head(up)) /\ SendDown(Chunk(epoch, pageRev, chunkIndex + 1, chunkTotal, Body))
      <4> DEFINE m == Chunk(epoch, pageRev, chunkIndex + 1, chunkTotal, Body)
      <4>1. m.epoch = epoch /\ m.type = "chunk"
        BY DEF Chunk
      <4>2. Head(up).epoch = epoch /\ Head(up).epoch \in 1..edgeEpoch
        BY <2>3, <3>2 DEF EpochInv, Answered, Answers, AckIgnored
      <4>3. epoch \in 1..epoch' /\ epoch <= edgeEpoch'
        BY <2>1, <4>2, SMT, Z3 DEF EpochInv, Epochs
      <4>4. SendDown(m)
        BY <3>2
      <4> HIDE DEF m
      <4> QED BY <2>2, <4>1, <4>3, <4>4, <1>OrderedSends DEF EpochInv
    <3> QED BY <2>1, <3>1, <3>2
  <2>6. Queued' /\ Admitting' /\ Opened'
    BY <2>1, <2>2, <1>EdgeUntouched, <1>OpenedStays DEF EpochInv, SameEdge
  <2> QED BY <2>2, <2>4, <2>5, <2>6 DEF EpochInv
<1>RecvJobKeeps. KeepsEpochs(RecvJob)
  <2> SUFFICES ASSUME EpochInv, RecvJob PROVE EpochInv'
    BY DEF KeepsEpochs
  <2>1. /\ up # <<>> /\ up' = Tail(up) /\ jobs' = Append(jobs, Head(up))
        /\ UNCHANGED <<epoch, edgeEpoch, recvEpoch, stage, welcomeEpoch, down, buffer, worker,
                       syncReady, phase>>
        /\ UNCHANGED <<ready, dbSession, pageRev, baseline, revision, appliedRev>>
    BY
    DEF RecvJob, Receiving, indexVars, pageVars, epochVars, handlerVars, chunkVars, edgeVars,
        cacheVars, linkVars, recvVars, workVars
  <2>2. Grows /\ Epochs'
    BY <2>1, SMT, Z3 DEF EpochInv, Epochs, Grows
  <2>3. /\ Head(up) \in Elements(up) /\ up' \in Seq(Elements(up')) /\ Elements(up') \subseteq Elements(up)
    BY <2>1, TailFacts DEF EpochInv, Answered
  <2>4. jobs' \in Seq(Elements(jobs')) /\ Elements(jobs') = Elements(jobs) \cup {Head(up)}
    BY <2>1, AppendFacts DEF EpochInv, Answered
  <2>5. Answered'
    BY <2>1, <2>3, <2>4 DEF EpochInv, Answered, Answers
  <2>6. Ordered' /\ Queued' /\ Admitting' /\ Opened'
    BY <2>1, <2>2, <1>OrderedStays, <1>EdgeUntouched, <1>OpenedStays DEF EpochInv, SameEdge
  <2> QED BY <2>2, <2>5, <2>6 DEF EpochInv
<1>JobTaken.
    ASSUME EpochInv, jobs # <<>>
    PROVE  /\ Head(jobs).epoch \in 1..edgeEpoch
           /\ jobs' = Tail(jobs) /\ UNCHANGED <<up, edgeEpoch>> => Answered'
  <2> USE <1>JobTaken
  <2>1. Head(jobs) \in Elements(jobs) /\ Tail(jobs) \in Seq(Elements(Tail(jobs))) /\ Elements(Tail(jobs)) \subseteq Elements(jobs)
    BY TailFacts DEF EpochInv, Answered
  <2>2. UNCHANGED up => Elements(up') = Elements(up)
    BY DEF Elements
  <2> QED BY <2>1, <2>2 DEF EpochInv, Answered, Answers
\* The report that opens the epoch is of the edge's durable epoch, which no
\* report exceeds and which does not exceed the session's.
<1>AcceptCacheClearedKeeps. KeepsEpochs(AcceptCacheCleared \/ ResetLost)
  <2> SUFFICES ASSUME EpochInv, AcceptCacheCleared \/ ResetLost PROVE EpochInv'
    BY DEF KeepsEpochs
  <2>1. /\ jobs # <<>>
        /\ UNCHANGED <<epoch, edgeEpoch, recvEpoch, stage, welcomeEpoch, down, buffer, worker, up,
                       syncReady, phase, revision>>
        /\ jobs' = jobs \/ jobs' = Tail(jobs)
        /\ \/ UNCHANGED <<ready, dbSession, pageRev, baseline, appliedRev>>
           \/ /\ ClearedNow(Head(jobs)) /\ dbSession' = epoch
              /\ \/ ready' = TRUE /\ baseline' = TRUE /\ pageRev' = 0 /\ appliedRev' = 0
                 \/ UNCHANGED <<ready, pageRev, baseline, appliedRev>>
    BY
    DEF AcceptCacheCleared, ResetLost, JobIs, ResetRows, NoPage, pageVars, epochVars, handlerVars,
        chunkVars, edgeVars, cacheVars, linkVars, recvVars, workVars
  <2>2. Grows /\ Epochs'
    BY <2>1, SMT, Z3 DEF EpochInv, Epochs, Grows
  <2>3. Head(jobs).epoch \in 1..edgeEpoch /\ Answered'
    BY <2>1, <2>2, <1>JobTaken, <1>AnsweredStays DEF EpochInv
  <2>4. Opened'
    BY <2>1, <2>3, SMT, Z3 DEF EpochInv, Epochs, Opened, ClearedNow
  <2>5. Ordered' /\ Queued' /\ Admitting'
    BY <2>1, <2>2, <1>OrderedStays, <1>EdgeUntouched DEF EpochInv, SameEdge
  <2> QED BY <2>2, <2>3, <2>4, <2>5 DEF EpochInv
<1>ConfirmIdentityKeeps. KeepsEpochs(ConfirmIdentity \/ ConfirmLost)
  <2> SUFFICES ASSUME EpochInv, ConfirmIdentity \/ ConfirmLost PROVE EpochInv'
    BY DEF KeepsEpochs
  <2> DEFINE m == Confirmed(epoch, Head(jobs).rev, ~baseline \/ pageEnd)
  <2>1. /\ jobs # <<>>
        /\ UNCHANGED <<epoch, edgeEpoch, recvEpoch, stage, welcomeEpoch, buffer, worker, up,
                       syncReady, phase, revision>>
        /\ UNCHANGED <<ready, dbSession>> /\ (jobs' = jobs \/ jobs' = Tail(jobs))
        /\ \/ UNCHANGED <<pageRev, baseline, appliedRev, down>>
           \/ /\ ~AckStale(Head(jobs)) /\ AckDue(Head(jobs)) /\ SendDown(m)
              /\ appliedRev' = Head(jobs).rev /\ pageRev' = 0 /\ baseline' = (baseline /\ ~pageEnd)
    BY
    DEF ConfirmIdentity, ConfirmLost, JobIs, NoPage, pageVars, epochVars, handlerVars, chunkVars,
        edgeVars, cacheVars, linkVars, recvVars, workVars
  <2>2. Grows /\ Epochs'
    BY <2>1, SMT, Z3 DEF EpochInv, Epochs, Grows
  <2>3. Head(jobs).epoch \in 1..edgeEpoch /\ Answered'
    BY <2>1, <2>2, <1>JobTaken, <1>AnsweredStays DEF EpochInv
  <2>4. m.epoch = epoch /\ m.type = "confirmed"
    BY DEF Confirmed
  <2> HIDE DEF m
  <2>5. Ordered'
    <3>1. CASE UNCHANGED down
      BY <2>2, <3>1, <1>OrderedStays DEF EpochInv
    <3>2. CASE ~AckStale(Head(jobs)) /\ SendDown(m)
      <4>1. epoch \in 1..epoch' /\ epoch <= edgeEpoch'
        BY <2>1, <2>3, <3>2, SMT, Z3 DEF EpochInv, Epochs, AckStale
      <4> QED BY <2>2, <2>4, <3>2, <4>1, <1>OrderedSends DEF EpochInv
    <3> QED BY <2>1, <3>1, <3>2
  <2>6. Opened'
    <3>1. CASE UNCHANGED <<pageRev, baseline, appliedRev>>
      BY <2>1, <3>1, <1>OpenedStays DEF EpochInv
    <3>2. CASE AckDue(Head(jobs)) /\ appliedRev' = Head(jobs).rev /\ pageRev' = 0 /\ baseline' = (baseline /\ ~pageEnd)
      <4>1. baseline' => baseline
        BY <3>2
      <4>2. appliedRev' = pageRev
        BY <3>2 DEF AckDue
      <4> QED BY <2>1, <3>2, <4>1, <4>2, SMT, Z3 DEF EpochInv, Opened
    <3> QED BY <2>1, <3>1, <3>2
  <2>7. Queued' /\ Admitting'
    BY <2>1, <2>2, <1>EdgeUntouched DEF EpochInv, SameEdge
  <2> QED BY <2>2, <2>3, <2>5, <2>6, <2>7 DEF EpochInv

(* Edge *)
<1>LinkKeeps. KeepsEpochs(Connect \/ Fence \/ Join \/ Crash \/ Discard)
  <2> SUFFICES ASSUME EpochInv, Connect \/ Fence \/ Join \/ Crash \/ Discard PROVE EpochInv'
    BY DEF KeepsEpochs
  <2>1. /\ UNCHANGED <<epoch, edgeEpoch, stage, welcomeEpoch, up, jobs>>
        /\ UNCHANGED <<ready, dbSession, pageRev, baseline, revision, appliedRev>>
        /\ recvEpoch' = recvEpoch \/ recvEpoch' = 0
        /\ down' = down \/ down' = <<>>
        /\ {buffer', worker'} \subseteq {buffer, worker, None}
        /\ syncReady' = FALSE \/ (syncReady' = syncReady /\ ~Live)
    BY
    DEF Connect, Fence, Join, Crash, Discard, ConnectionGone, ClearCache, Live, ctlVars, indexVars,
        pageVars, epochVars, handlerVars, chunkVars, cacheVars, recvVars, workVars
  <2>2. Grows /\ Epochs'
    BY <2>1, SMT, Z3 DEF EpochInv, Epochs, Grows
  <2>3. Ordered' /\ Answered' /\ Opened'
    BY <2>1, <2>2, <1>OrderedStays, <1>OrderedEmpty, <1>AnsweredStays, <1>OpenedStays DEF EpochInv
  <2>4. Queued'
    BY <2>1, <2>2, <1>QueuedStays DEF EpochInv
  <2>5. Admitting'
    BY <2>1 DEF EpochInv, Admitting
  <2> QED BY <2>2, <2>3, <2>4, <2>5 DEF EpochInv
<1>RecvWelcomeKeeps. KeepsEpochs(RecvWelcome)
  <2> SUFFICES ASSUME EpochInv, RecvWelcome PROVE EpochInv'
    BY DEF KeepsEpochs
  <2> DEFINE job == [type |-> "reset", epoch |-> Head(down).epoch]
  <2>1. /\ UNCHANGED <<epoch, edgeEpoch, stage, welcomeEpoch, up, jobs, phase, worker>>
        /\ UNCHANGED <<ready, dbSession, pageRev, baseline, revision, appliedRev>>
        /\ down # <<>> /\ down' = Tail(down) /\ recvEpoch' = Head(down).epoch /\ syncReady' = FALSE
        /\ buffer' \in {buffer, job}
    BY
    DEF RecvWelcome, Arrives, QueueApply, ctlVars, indexVars, pageVars, epochVars, handlerVars,
        chunkVars, cacheVars, linkVars
  <2>2. Grows
    BY <2>1, SMT, Z3 DEF EpochInv, Epochs, Grows
  <2>3. Ordered' /\ Head(down).epoch \in 1..epoch
    BY <2>1, <2>2, <1>OrderedTakes DEF EpochInv, Ordered
  <2>4. Epochs'
    BY <2>1, <2>3, SMT, Z3 DEF EpochInv, Epochs
  <2>5. job.type = "reset" /\ job.epoch \in 1..epoch
    BY <2>3
  <2> HIDE DEF job
  <2>6. Queued'
    BY <2>1, <2>5 DEF EpochInv, Queued
  <2>7. Answered' /\ Opened' /\ Admitting'
    BY <2>1, <2>2, <1>AnsweredStays, <1>OpenedStays DEF EpochInv, Admitting
  <2> QED BY <2>3, <2>4, <2>6, <2>7 DEF EpochInv
<1>RecvChunkKeeps. KeepsEpochs(RecvChunk)
  <2> SUFFICES ASSUME EpochInv, RecvChunk PROVE EpochInv'
    BY DEF KeepsEpochs
  <2> DEFINE m == Head(down)
             job == [type |-> "page", epoch |-> m.epoch, rev |-> m.rev, body |-> m.body]
             ack == ChunkAck(m.epoch, m.rev, m.index)
  <2>1. /\ UNCHANGED <<epoch, edgeEpoch, recvEpoch, stage, welcomeEpoch, jobs, phase, worker>>
        /\ UNCHANGED <<ready, dbSession, pageRev, baseline, revision, appliedRev>>
        /\ down # <<>> /\ down' = Tail(down) /\ m.type = "chunk" /\ (syncReady' => syncReady)
        /\ buffer' \in {buffer, job} /\ (SendUp(ack) \/ UNCHANGED up)
    BY
    DEF RecvChunk, Arrives, QueueApply, ctlVars, indexVars, pageVars, epochVars, handlerVars,
        chunkVars, cacheVars, linkVars
  <2>2. Grows /\ Epochs'
    BY <2>1, SMT, Z3 DEF EpochInv, Epochs, Grows
  <2>3. Ordered' /\ m.epoch \in 1..edgeEpoch
    BY <2>1, <2>2, <1>OrderedTakes, SMT, Z3 DEF EpochInv, Epochs, Ordered
  <2>4. job.type = "page" /\ job.epoch \in 1..edgeEpoch /\ ack.epoch \in 1..edgeEpoch
    BY <2>3 DEF ChunkAck
  <2> HIDE DEF m, job, ack
  <2>5. Queued'
    BY <2>1, <2>4 DEF EpochInv, Queued
  <2>6. Answered'
    BY <2>1, <2>2, <2>4, <1>AnsweredSends, <1>AnsweredStays DEF EpochInv
  <2>7. Opened' /\ Admitting'
    BY <2>1, <1>OpenedStays DEF EpochInv, Admitting, Live
  <2> QED BY <2>2, <2>3, <2>5, <2>6, <2>7 DEF EpochInv
\* A confirmation that fits is of the receiver's epoch, and the edge has reset
\* itself for every confirmation on its way.
<1>RecvConfirmedKeeps. KeepsEpochs(RecvConfirmed)
  <2> SUFFICES ASSUME EpochInv, RecvConfirmed PROVE EpochInv'
    BY DEF KeepsEpochs
  <2>1. /\ UNCHANGED <<epoch, edgeEpoch, recvEpoch, stage, welcomeEpoch, up, jobs, phase, buffer, worker>>
        /\ UNCHANGED <<ready, dbSession, pageRev, baseline, revision, appliedRev>>
        /\ down # <<>> /\ down' = Tail(down) /\ Head(down).type = "confirmed" /\ Live
        /\ syncReady' => syncReady \/ Head(down).epoch = recvEpoch
    BY
    DEF RecvConfirmed, Arrives, ConfirmedFits, ctlVars, indexVars, pageVars, epochVars, handlerVars,
        chunkVars, cacheVars, linkVars, workVars
  <2>2. Grows /\ Epochs'
    BY <2>1, SMT, Z3 DEF EpochInv, Epochs, Grows
  <2>3. Ordered' /\ Head(down).epoch \in 1..edgeEpoch
    BY <2>1, <2>2, <1>OrderedTakes, SMT, Z3 DEF EpochInv, Epochs, Ordered
  <2>4. Admitting'
    BY <2>1, <2>3 DEF EpochInv, Admitting, Live
  <2>5. Queued' /\ Answered' /\ Opened'
    BY <2>1, <2>2, <1>QueuedStays, <1>AnsweredStays, <1>OpenedStays DEF EpochInv
  <2> QED BY <2>2, <2>3, <2>4, <2>5 DEF EpochInv
<1>WorkKeeps. KeepsEpochs(TakeJob \/ JobFails)
  <2> SUFFICES ASSUME EpochInv, TakeJob \/ JobFails PROVE EpochInv'
    BY DEF KeepsEpochs
  <2>1. /\ UNCHANGED <<epoch, edgeEpoch, recvEpoch, stage, welcomeEpoch, up, jobs, down, phase, syncReady>>
        /\ UNCHANGED <<ready, dbSession, pageRev, baseline, revision, appliedRev>>
        /\ {buffer', worker'} \subseteq {buffer, worker, None, GivenUp}
    BY
    DEF TakeJob, JobFails, GivenUp, ctlVars, indexVars, pageVars, epochVars, handlerVars, chunkVars,
        cacheVars, linkVars, recvVars
  <2>2. Grows /\ Epochs'
    BY <2>1, SMT, Z3 DEF EpochInv, Epochs, Grows
  <2>3. Ordered' /\ Answered' /\ Opened' /\ Queued'
    BY <2>1, <2>2, <1>OrderedStays, <1>AnsweredStays, <1>OpenedStays, <1>QueuedStays DEF EpochInv
  <2>4. Admitting'
    BY <2>1 DEF EpochInv, Admitting, Live
  <2> QED BY <2>2, <2>3, <2>4 DEF EpochInv
\* A reset moves the edge's epoch forward, at most to the session's. It does not
\* touch an open epoch, whose reset is behind the edge.
<1>DoResetKeeps. KeepsEpochs(DoReset)
  <2> SUFFICES ASSUME EpochInv, DoReset PROVE EpochInv'
    BY DEF KeepsEpochs
  <2>1. /\ UNCHANGED <<epoch, recvEpoch, stage, welcomeEpoch, jobs, down, phase, syncReady, buffer>>
        /\ UNCHANGED <<ready, dbSession, pageRev, baseline, revision, appliedRev>>
        /\ worker # None /\ worker.type = "reset" /\ worker' = None /\ SendUp(Cleared(worker.epoch))
        /\ edgeEpoch' = Max2(edgeEpoch, worker.epoch)
    BY
    DEF DoReset, Working, ctlVars, indexVars, pageVars, epochVars, handlerVars, chunkVars, linkVars,
        recvVars
  <2>2. worker.epoch \in 1..epoch
    BY <2>1 DEF EpochInv, Queued
  <2>3. edgeEpoch' \in edgeEpoch..epoch /\ worker.epoch \in 1..edgeEpoch' /\ (ready => edgeEpoch' = edgeEpoch)
    BY <2>1, <2>2, SMT, Z3 DEF EpochInv, Epochs, Opened, Max2
  <2>4. Grows /\ Epochs'
    BY <2>1, <2>3, SMT, Z3 DEF EpochInv, Epochs, Grows
  <2>5. Cleared(worker.epoch).epoch = worker.epoch
    BY DEF Cleared
  <2>6. Answered'
    BY <2>1, <2>3, <2>4, <2>5, <1>AnsweredSends DEF EpochInv
  <2>7. Ordered' /\ Queued'
    BY <2>1, <2>4, <1>OrderedStays, <1>QueuedStays DEF EpochInv
  <2>8. Opened' /\ Admitting'
    BY <2>1, <2>3, SMT, Z3 DEF EpochInv, Epochs, Opened, Admitting, Live
  <2> QED BY <2>4, <2>6, <2>7, <2>8 DEF EpochInv
<1>DoApplyKeeps. KeepsEpochs(DoApply)
  <2> SUFFICES ASSUME EpochInv, DoApply PROVE EpochInv'
    BY DEF KeepsEpochs
  <2>1. /\ UNCHANGED <<epoch, edgeEpoch, recvEpoch, stage, welcomeEpoch, jobs, down, phase,
                       syncReady, buffer>>
        /\ UNCHANGED <<ready, dbSession, pageRev, baseline, revision, appliedRev>>
        /\ worker # None /\ worker.type = "page" /\ worker' = None /\ SendUp(Ack(worker.epoch, worker.rev))
    BY
    DEF DoApply, Working, ctlVars, indexVars, pageVars, epochVars, handlerVars, chunkVars, linkVars,
        recvVars
  <2>2. worker.epoch \in 1..edgeEpoch /\ Ack(worker.epoch, worker.rev).epoch = worker.epoch
    BY <2>1 DEF EpochInv, Queued, Ack
  <2>3. Grows /\ Epochs'
    BY <2>1, SMT, Z3 DEF EpochInv, Epochs, Grows
  <2>4. Answered'
    BY <2>1, <2>2, <2>3, <1>AnsweredSends DEF EpochInv
  <2>5. Ordered' /\ Opened' /\ Queued'
    BY <2>1, <2>3, <1>OrderedStays, <1>OpenedStays, <1>QueuedStays DEF EpochInv
  <2>6. Admitting'
    BY <2>1 DEF EpochInv, Admitting, Live
  <2> QED BY <2>3, <2>4, <2>5, <2>6 DEF EpochInv

(* One step *)
<1> SUFFICES ASSUME EpochInv, [Next]_vars PROVE EpochInv'
  OBVIOUS
<1>1. CASE UNCHANGED vars
  <2>1. UNCHANGED <<epoch, edgeEpoch, recvEpoch, stage, welcomeEpoch, down, up, jobs, buffer, worker,
                    syncReady, phase>>
        /\ UNCHANGED <<ready, dbSession, pageRev, baseline, revision, appliedRev>>
    BY <1>1
    DEF vars, ctlVars, edgeVars, indexVars, pageVars, epochVars, handlerVars, chunkVars, cacheVars,
        linkVars, recvVars, workVars
  <2>2. Grows /\ Epochs'
    BY <2>1, SMT, Z3 DEF EpochInv, Epochs, Grows
  <2> QED
    BY <2>1, <2>2, <1>OrderedStays, <1>AnsweredStays, <1>OpenedStays, <1>EdgeUntouched
    DEF EpochInv, SameEdge
<1>2. CASE PushAny \/ PushStuck(1)
  BY <1>2, <1>TakePageKeeps, SMT, Z3 DEF PushAny, KeepsEpochs
<1>3. CASE Next /\ ~(PushAny \/ PushStuck(1))
  BY <1>3, <1>SourceKeeps, <1>RegisterKeeps, <1>HelloKeeps, <1>SendWelcomeKeeps,
     <1>RequestResetKeeps,
     <1>RecvChunkAckKeeps, <1>RecvJobKeeps, <1>AcceptCacheClearedKeeps, <1>ConfirmIdentityKeeps, <1>LinkKeeps,
     <1>RecvWelcomeKeeps, <1>RecvChunkKeeps, <1>RecvConfirmedKeeps, <1>WorkKeeps, <1>DoResetKeeps, <1>DoApplyKeeps
  DEF Next, KeepsEpochs, Changing, Losing
<1> QED BY <1>1, <1>2, <1>3

\* What is under way never runs ahead of the durable epoch: AcceptCacheCleared opens
\* an epoch only when the edge's SQLite has it, and fragments, pages and answers are of
\* an epoch the edge has been reset for.
THEOREM EpochInvariant == Spec => []EpochInv
BY EpochsStart, EpochsKept, PTL DEF Spec

-----------------------------------------------------------------------------
(* The second invariant: one thing after the other *)

Bodies == [users : SUBSET Users, value : [Users -> Contents], baseline : BOOLEAN, end : BOOLEAN]

IsReset(w) == w # None /\ w.type = "reset"
IsPage(w) == w # None /\ w.type = "page"
Resets == {w \in {buffer, worker} : IsReset(w)}
Pages == {w \in {buffer, worker} : IsPage(w)}
ChunkSent == \E m \in Elements(down) : m.type = "chunk"

Idle == down = <<>> /\ buffer = None /\ worker = None /\ ~entered
Fresh == cache = Empty /\ lastRevision = 0 /\ resetPending
Attached == current # 0 /\ conn = current
Superseded == Live /\ conn # current /\ conn \notin unregistered

Typed ==
    /\ identity \in [Users -> Contents] /\ pageValue \in [Users -> Contents] /\ cache \in [Users -> Contents]
    /\ page \subseteq Users /\ lastRevision \in 0..revision /\ epoch <= MaxEpoch
    /\ baseline \in BOOLEAN /\ pageEnd \in BOOLEAN /\ ready \in BOOLEAN /\ (pageEnd => baseline)
    /\ chunkIndex \in Nat /\ chunkTotal \in Nat /\ fragments \in Nat
    /\ pageRev = 0 => page = {} /\ pageValue = Empty /\ pageLast = 0 /\ ~pageEnd

\* Nothing is under way at an edge without a stream, nor before the hello of its
\* stream is read; a session gets answers only from the edge it serves.
Life ==
    /\ streams \in Nat /\ unregistered \subseteq 1..streams /\ current \in 0..streams /\ current \notin unregistered
    /\ conn = (IF Live THEN streams ELSE 0) /\ (Live => conn # 0)
    /\ ~Live => Idle
    /\ conn \in unregistered \/ (Attached /\ stage = "hello") => Idle /\ recvEpoch = 0 /\ fragments = 0
    /\ stage = "hello" \/ current = 0 \/ Superseded => up = <<>> /\ jobs = <<>>
    /\ stage # "open" => jobs = <<>>

\* A reset that a later one overtook finds the cache still empty.
Overtaken ==
    \/ \E m \in Elements(down) : m.type = "welcome" /\ m.epoch <= edgeEpoch
    \/ \E w \in Resets : w.epoch <= edgeEpoch
Behind == Overtaken => worker = GivenUp \/ (entered /\ Fresh)

\* Between the hello and the welcome.
Greeting ==
    current # 0 /\ stage = "greet" =>
      /\ ~ready
      /\ welcomeEpoch = epoch =>
           edgeEpoch < epoch /\ (\A m \in Elements(down) : m.epoch < epoch) /\ (\A w \in Resets : w.epoch < epoch)
      /\ conn = current => ~ChunkSent /\ Pages = {} /\ (edgeEpoch < welcomeEpoch \/ worker = GivenUp \/ (entered /\ Fresh))

\* The reset of the session's epoch is carried out once.
Once ==
    /\ \A i, j \in DOMAIN down :
         down[i].type = "welcome" /\ down[i].epoch = epoch /\ down[j].type = "welcome" /\ down[j].epoch = epoch => i = j
    /\ \A w \in Resets : w.epoch = epoch =>
         edgeEpoch < epoch /\ \A m \in Elements(down) : ~(m.type = "welcome" /\ m.epoch = epoch)
    /\ IsReset(buffer) /\ IsReset(worker) => ~(buffer.epoch = epoch /\ worker.epoch = epoch)
    /\ \A m \in Elements(down) : m.type = "welcome" /\ m.epoch = epoch => edgeEpoch < epoch

\* The last job queued is that of the last welcome; none is left when it is done.
Queue ==
    /\ failed \in BOOLEAN /\ (worker = GivenUp => failed)
    /\ buffer = None \/ IsReset(buffer) \/ IsPage(buffer)
    /\ worker = None \/ IsReset(worker) \/ IsPage(worker) \/ worker = GivenUp
    /\ Live /\ ~failed =>
         /\ IsReset(buffer) => buffer.epoch = recvEpoch
         /\ buffer = None /\ IsReset(worker) => worker.epoch = recvEpoch
         /\ buffer = None /\ worker = None /\ recvEpoch # 0 => entered

\* Fragments and confirmations are of the edge's epoch. The resets ahead of them are
\* of an older one, the welcomes behind them of a newer one.
Passing ==
    ~failed => \A i \in DOMAIN down : down[i].type # "welcome" =>
      /\ down[i].epoch = edgeEpoch /\ Pages = {} /\ (\A w \in Resets : w.epoch < edgeEpoch)
      /\ \A j \in DOMAIN down : down[j].type = "welcome" =>
           (j < i => down[j].epoch < edgeEpoch) /\ (i < j => edgeEpoch < down[j].epoch)

\* The page in flight is not applied.
Current(rev, body) == rev = pageRev /\ pageRev # 0 /\ body = Body /\ lastRevision < pageRev

Chunked ==
    ~failed => \A i \in DOMAIN down : down[i].type = "chunk" =>
      /\ \A j \in DOMAIN down : down[j].type = "chunk" => j = i
      /\ down[i].rev \in 1..revision /\ down[i].body \in Bodies
      /\ down[i].epoch = epoch =>
           /\ Current(down[i].rev, down[i].body)
           /\ down[i].index = chunkIndex /\ chunkIndex < chunkTotal /\ down[i].total = chunkTotal

Paged ==
    worker # GivenUp =>
      /\ IsPage(buffer) => ~IsPage(worker) /\ ~IsReset(worker)
      /\ \A w \in Pages :
           /\ entered /\ w.epoch = edgeEpoch /\ ~Overtaken /\ w.rev \in 1..revision /\ w.body \in Bodies
           /\ w.epoch = epoch => Current(w.rev, w.body)

\* An acknowledged page is applied, unless the edge has left its epoch.
Acked ==
    \A m \in Answers : m.type = "ack" =>
      /\ m.rev \in 1..revision
      /\ entered /\ m.epoch = edgeEpoch => m.rev <= lastRevision
      /\ Attached /\ ~failed => entered

\* A fragment is acknowledged before the next one is sent.
Fragmented ==
    \A m \in Elements(up) : m.type = "chunk_ack" =>
      /\ m.rev \in 1..revision
      /\ Attached /\ ~failed /\ m.epoch = epoch /\ m.rev = pageRev =>
           /\ m.index <= chunkIndex /\ m.index \in Nat
           /\ m.index = chunkIndex =>
                /\ ~ChunkSent /\ (recvEpoch = epoch => fragments \in {0, chunkIndex + 1})
                /\ chunkIndex + 1 < chunkTotal => Pages = {} /\ lastRevision < pageRev

\* Fragments are collected for the page in flight, which is not complete.
Collecting ==
    Attached /\ ~failed /\ recvEpoch = epoch /\ fragments # 0 =>
      pageRev # 0 /\ chunkIndex <= fragments /\ fragments < chunkTotal

\* A confirmation meets the edge as its acknowledgement left it.
Confirming ==
    ~failed => \A i \in DOMAIN down : down[i].type = "confirmed" =>
      /\ \A j \in DOMAIN down : down[j].type = "chunk" => i < j
      /\ entered /\ lastRevision # 0 /\ (down[i].complete => ~resetPending)
      /\ down[i].epoch = recvEpoch => fragments = 0

\* The cache is complete when the baseline is confirmed, or its last page applied.
Filled ==
    entered /\ ready /\ edgeEpoch = epoch =>
      /\ ~baseline => ~resetPending
      /\ pageRev # 0 /\ pageEnd /\ pageRev <= lastRevision => ~resetPending

Admits == syncReady => entered /\ ~resetPending /\ worker = None /\ buffer = None /\ fragments = 0

StreamInv ==
    /\ Typed /\ Life /\ Behind /\ Greeting /\ Once /\ Queue /\ Passing /\ Chunked /\ Paged /\ Acked /\ Fragmented
    /\ Collecting /\ Confirming /\ Filled /\ Admits

KeepsStreams(A) == EpochInv /\ StreamInv /\ A => StreamInv'

-----------------------------------------------------------------------------
(* What the clauses depend on *)

SameCache == UNCHANGED <<edgeEpoch, entered, cache, lastRevision, resetPending>>
SameWork == UNCHANGED <<buffer, worker, failed, recvEpoch, fragments, phase>>
SamePage == UNCHANGED <<page, pageValue, pageRev, pageEnd, baseline>>

\* A message joins the stream behind the others, or leaves it in front of them.
LEMMA DownGrows ==
    ASSUME Ordered, NEW m, down' = Append(down, m)
    PROVE  /\ Elements(down') = Elements(down) \cup {m}
           /\ \E n \in Nat : /\ DOMAIN down' = DOMAIN down \cup {n} /\ down'[n] = m
                             /\ \A i \in DOMAIN down : i \in Nat /\ i < n /\ down'[i] = down[i]
<1>1. Elements(down') = Elements(down) \cup {m}
  BY AppendFacts DEF Ordered
<1>2. Len(down) \in Nat /\ DOMAIN down = 1..Len(down)
  BY SMT, Z3 DEF Ordered
<1>3. /\ DOMAIN Append(down, m) = 1..(Len(down) + 1) /\ Append(down, m)[Len(down) + 1] = m
      /\ \A i \in 1..Len(down) : Append(down, m)[i] = down[i]
  BY <1>2, SMT, Z3 DEF Ordered
<1>4. 1..(Len(down) + 1) = 1..Len(down) \cup {Len(down) + 1} /\ \A i \in 1..Len(down) : i \in Nat /\ i < Len(down) + 1
  BY <1>2, SMT, Z3
<1>5. Len(down) + 1 \in Nat
  BY <1>2, SMT, Z3
<1> QED BY <1>1, <1>2, <1>3, <1>4, <1>5

\* The edge reads the first message of the stream.
LEMMA DownShrinks ==
    ASSUME Ordered, down # <<>>, down' = Tail(down)
    PROVE  /\ Head(down) \in Elements(down) /\ Elements(down') \subseteq Elements(down)
           /\ 1 \in DOMAIN down /\ Head(down) = down[1]
           /\ \A i \in DOMAIN down' : i \in Nat /\ 0 < i /\ i + 1 \in DOMAIN down /\ down'[i] = down[i + 1]
<1>1. Head(down) \in Elements(down) /\ Elements(down') \subseteq Elements(down)
  BY TailFacts DEF Ordered
<1>2. Len(down) \in Nat \ {0} /\ DOMAIN down = 1..Len(down) /\ Head(down) = down[1]
  BY SMT, Z3 DEF Ordered
<1>3. DOMAIN Tail(down) = 1..(Len(down) - 1) /\ \A i \in 1..(Len(down) - 1) : Tail(down)[i] = down[i + 1]
  BY <1>2, SMT, Z3 DEF Ordered
<1> QED BY <1>1, <1>2, <1>3, SMT, Z3

\* A page carries the users, contents and flags that the session holds for it.
LEMMA BodyFields == Body.users = page /\ Body.value = pageValue /\ Body.baseline = baseline /\ Body.end = pageEnd
BY DEF Body

\* At an edge that has entered the session's epoch the welcomes and resets left are
\* of older ones.
LEMMA LeftIsOlder ==
    ASSUME EpochInv, StreamInv, edgeEpoch = epoch
    PROVE  /\ \A w \in Resets : w.epoch < edgeEpoch
           /\ \A k \in Elements(down) : k.type = "welcome" => k.epoch < edgeEpoch
<1>1. epoch \in Nat /\ \A e \in 1..epoch : e # epoch => e < epoch
  BY SMT, Z3 DEF EpochInv, Epochs
<1>2. ~(edgeEpoch < epoch)
  BY <1>1, SMT, Z3
<1>3. \A w \in Resets : w.epoch \in 1..epoch /\ w.epoch # epoch
  BY <1>2 DEF EpochInv, Queued, StreamInv, Once, Resets, IsReset
<1>4. \A k \in Elements(down) : k.epoch \in 1..epoch /\ (k.type = "welcome" => k.epoch # epoch)
  BY <1>2 DEF EpochInv, Ordered, StreamInv, Once
<1> QED BY <1>1, <1>3, <1>4

\* In an open epoch without a page in flight no fragment and no page is under way.
LEMMA NothingUnderWay ==
    ASSUME EpochInv, StreamInv, ready, pageRev = 0, worker # GivenUp
    PROVE  /\ Pages = {} /\ (~failed => ~ChunkSent)
           /\ \A w \in Resets : w.epoch < edgeEpoch
           /\ \A k \in Elements(down) : k.type = "welcome" => k.epoch < edgeEpoch
<1>1. edgeEpoch = epoch /\ epoch \in Nat
  BY DEF EpochInv, Opened, Epochs
<1>2. Pages = {}
  BY <1>1 DEF StreamInv, Paged, Current
<1>3. ~failed => \A i \in DOMAIN down : down[i].type # "chunk"
  BY <1>1 DEF StreamInv, Passing, Chunked, Current
<1>4. ~failed => ~ChunkSent
  BY <1>3 DEF ChunkSent, Elements
<1> QED BY <1>1, <1>2, <1>4, LeftIsOlder

\* The acknowledgement of the page in flight: the edge has applied the page, and
\* nothing of it is left on its way.
LEMMA AckMeansApplied ==
    ASSUME EpochInv, StreamInv, NEW m \in Answers, m.type = "ack", m.epoch = epoch, m.rev = pageRev
    PROVE  /\ edgeEpoch = epoch /\ epoch \in Nat /\ pageRev \in 1..revision /\ ready
           /\ entered => pageRev <= lastRevision
           /\ Attached /\ ~failed => entered
           /\ worker # GivenUp => Pages = {}
<1>1. edgeEpoch = epoch /\ epoch \in Nat /\ pageRev \in 1..revision
  BY SMT, Z3 DEF EpochInv, Epochs, Answered, StreamInv, Acked
<1>2. ready /\ (entered => pageRev <= lastRevision) /\ (Attached /\ ~failed => entered)
  BY <1>1, SMT, Z3 DEF EpochInv, Opened, StreamInv, Acked
<1>3. worker # GivenUp => Pages = {}
  BY <1>1, <1>2, SMT, Z3 DEF StreamInv, Paged, Current, Typed, EpochInv, Opened
<1> QED BY <1>1, <1>2, <1>3

\* A job of the worker, or one it has given up, is not the absence of one.
LEMMA JobsAreSomething ==
    /\ GivenUp # None
    /\ \A e \in Nat : [type |-> "reset", epoch |-> e] # None
    /\ \A e \in Nat, r \in Nat, b \in Bodies : [type |-> "page", epoch |-> e, rev |-> r, body |-> b] # None
<1>1. None \notin Jobs
  BY SyncAssumption
<1>2. Jobs = [type : {"reset"}, epoch : Nat] \cup [type : {"page"}, epoch : Nat, rev : Nat, body : Bodies] \cup {GivenUp}
  BY DEF Jobs, Bodies, Contents, GivenUp
<1>3. /\ None \notin [type : {"reset"}, epoch : Nat] /\ None # GivenUp
      /\ None \notin [type : {"page"}, epoch : Nat, rev : Nat, body : Bodies]
  BY <1>1, <1>2
<1>4. \A e \in Nat : [type |-> "reset", epoch |-> e] # None
  <2>1. SUFFICES ASSUME NEW e \in Nat PROVE [type |-> "reset", epoch |-> e] # None
    OBVIOUS
  <2> DEFINE j == [type |-> "reset", epoch |-> e]
  <2>2. j \in [type : {"reset"}, epoch : Nat]
    OBVIOUS
  <2> HIDE DEF j
  <2>3. j # None
    BY <1>3, <2>2
  <2> QED BY <2>3 DEF j
<1>5. \A e \in Nat, r \in Nat, b \in Bodies : [type |-> "page", epoch |-> e, rev |-> r, body |-> b] # None
  <2>1. SUFFICES ASSUME NEW e \in Nat, NEW r \in Nat, NEW b \in Bodies
                 PROVE  [type |-> "page", epoch |-> e, rev |-> r, body |-> b] # None
    OBVIOUS
  <2> DEFINE j == [type |-> "page", epoch |-> e, rev |-> r, body |-> b]
  <2>2. j \in [type : {"page"}, epoch : Nat, rev : Nat, body : Bodies]
    OBVIOUS
  <2> HIDE DEF j
  <2>3. j # None
    BY <1>3, <2>2
  <2> QED BY <2>3 DEF j
<1> QED BY <1>3, <1>4, <1>5

\* The edge adds at most one answer.
LEMMA UpGrows ==
    ASSUME Answered, NEW a, up' = up \/ up' = Append(up, a), UNCHANGED jobs
    PROVE  Elements(up') \subseteq Elements(up) \cup {a} /\ Answers' \subseteq Answers \cup {a}
<1>1. CASE up' = up
  BY <1>1 DEF Answers, Elements
<1>2. CASE up' = Append(up, a)
  <2>1. Elements(up') = Elements(up) \cup {a}
    BY <1>2, AppendFacts DEF Answered
  <2>2. Elements(jobs') = Elements(jobs)
    BY DEF Elements
  <2> QED BY <2>1, <2>2 DEF Answers
<1> QED BY <1>1, <1>2

-----------------------------------------------------------------------------
(* The second invariant holds *)

\* The second invariant holds at the start: nothing is under way.
LEMMA StreamStarts == ASSUME Init PROVE StreamInv
<1>1. /\ down = <<>> /\ up = <<>> /\ jobs = <<>> /\ buffer = None /\ worker = None /\ ~entered /\ failed = FALSE
      /\ pageRev = 0 /\ epoch = 0 /\ recvEpoch = 0 /\ fragments = 0 /\ phase = "idle" /\ current = 0 /\ ~syncReady
  BY DEF Init
<1>2. Elements(down) = {} /\ Elements(up) = {} /\ Answers = {} /\ Resets = {} /\ Pages = {} /\ DOMAIN down = {}
  BY <1>1, EmptyFacts, SMT, Z3 DEF Answers, Resets, Pages, IsReset, IsPage
<1>3. Typed
  <2>1. epoch <= MaxEpoch
    BY <1>1, SyncAssumption, SMT, Z3
  <2>2. Empty \in [Users -> Contents]
    BY DEF Empty, Contents
  <2>3. identity \in [Users -> Contents] /\ pageValue = Empty /\ cache = Empty /\ page = {}
    BY DEF Init, Contents
  <2>4. lastRevision \in 0..revision /\ chunkIndex \in Nat /\ chunkTotal \in Nat /\ fragments \in Nat /\ pageLast = 0
    BY SMT, Z3 DEF Init
  <2>5. baseline \in BOOLEAN /\ pageEnd \in BOOLEAN /\ ready \in BOOLEAN /\ ~pageEnd
    BY DEF Init
  <2> QED BY <2>1, <2>2, <2>3, <2>4, <2>5 DEF Typed
<1>4. Life
  BY SMT, Z3 DEF Init, Life, Idle, Attached, Superseded, Live
<1>5. Behind /\ Greeting /\ Passing /\ Chunked /\ Acked /\ Fragmented /\ Confirming /\ Filled /\ Admits /\ Collecting
  BY <1>1, <1>2
  DEF Behind, Overtaken, Greeting, Passing, Chunked, Acked, Fragmented, Confirming, Filled, Admits,
      Collecting
<1>6. Once /\ Queue /\ Paged
  BY <1>1, <1>2, JobsAreSomething DEF Once, Queue, Paged, IsReset, IsPage
<1> QED BY <1>3, <1>4, <1>5, <1>6 DEF StreamInv

\* Every step keeps one thing under way at a time.
LEMMA StreamKept == EpochInv /\ StreamInv /\ [Next]_vars => StreamInv'
\* The edge, whatever the session does.
<1>EdgeFrame.
    ASSUME Behind, Queue, Passing, Confirming, Admits, SameCache, SameWork, UNCHANGED <<down, syncReady>>
    PROVE  Behind' /\ Queue' /\ Passing' /\ Confirming' /\ Admits'
  <2> USE <1>EdgeFrame
  <2>1. Behind' /\ Admits'
    BY DEF SameCache, SameWork, Behind, Admits, Overtaken, Resets, IsReset, Fresh, Empty, Elements
  <2>2. Queue' /\ Passing' /\ Confirming'
    BY DEF SameCache, SameWork, Queue, Passing, Confirming, Resets, Pages, IsReset, IsPage, Live
  <2> QED BY <2>1, <2>2
<1>OnceFrame. ASSUME Once, SameCache, SameWork, UNCHANGED <<down, epoch>> PROVE Once'
  BY <1>OnceFrame, SMT, Z3 DEF SameCache, SameWork, Once, Resets, IsReset, Elements
<1>GreetingFrame.
    ASSUME Greeting, SameCache, SameWork, UNCHANGED <<down, epoch, current, conn, stage, ready, welcomeEpoch>>
    PROVE  Greeting'
  BY <1>GreetingFrame
  DEF SameCache, SameWork, Greeting, ChunkSent, Pages, Resets, IsPage, IsReset, Fresh, Empty,
      Elements
<1>LifeFrame.
    ASSUME Life, SameCache, SameWork, UNCHANGED <<down, up, jobs, current, conn, stage, unregistered,
                                                  streams>>
    PROVE  Life'
  BY <1>LifeFrame DEF SameCache, SameWork, Life, Idle, Attached, Superseded, Live
\* The page in flight, on its way and at the edge.
<1>PageFrame.
    ASSUME Opened, Chunked, Paged, SameCache, SameWork, SamePage, UNCHANGED <<down, epoch,
                                                                              chunkIndex, chunkTotal>>,
           revision' \in Nat, revision <= revision'
    PROVE  Chunked' /\ Paged'
  <2> USE <1>PageFrame
  <2>1. \A k : k \in 1..revision => k \in 1..revision'
    BY SMT, Z3 DEF Opened
  <2>2. (\A k, b : Current(k, b)' <=> Current(k, b)) /\ (Overtaken' <=> Overtaken) /\ Pages' = Pages
    BY
    DEF SameCache, SameWork, SamePage, Current, Body, Overtaken, Resets, Pages, IsReset, IsPage,
        Elements
  <2>3. Chunked'
    BY <2>1, <2>2 DEF SameWork, Chunked
  <2>4. Paged'
    BY <2>1, <2>2 DEF SameCache, SameWork, Paged, IsReset, IsPage
  <2> QED BY <2>3, <2>4
\* Acknowledgements.
<1>AckedFrame.
    ASSUME Opened, Acked, SameCache, SameWork, UNCHANGED <<conn, current>>, revision' \in Nat, revision <= revision',
           Answers' \subseteq Answers
    PROVE  Acked'
  BY <1>AckedFrame, SMT, Z3 DEF Opened, SameCache, SameWork, Acked, Attached
<1>FragmentedFrame.
    ASSUME Opened, Fragmented, SameCache, SameWork,
           UNCHANGED <<conn, current, epoch, pageRev, chunkIndex, chunkTotal>>, ChunkSent' => ChunkSent,
           revision' \in Nat, revision <= revision', Elements(up)' \subseteq Elements(up)
    PROVE  Fragmented'
  <2> USE <1>FragmentedFrame
  <2>1. Pages' = Pages
    BY DEF SameWork, Pages, IsPage
  <2>2. \A k : k \in 1..revision => k \in 1..revision'
    BY SMT, Z3 DEF Opened
  <2> QED BY <2>1, <2>2 DEF SameCache, SameWork, Fragmented, Attached
<1>CollectingFrame.
    ASSUME Collecting, SameWork, UNCHANGED <<conn, current, epoch, pageRev, chunkIndex, chunkTotal>>
    PROVE  Collecting'
  BY <1>CollectingFrame DEF SameWork, Collecting, Attached
<1>AnswerFrame.
    ASSUME Opened, Acked, Fragmented, Collecting, SameCache, SameWork,
           UNCHANGED <<down, up, jobs, conn, current, epoch, pageRev, chunkIndex, chunkTotal>>,
           revision' \in Nat, revision <= revision'
    PROVE  Acked' /\ Fragmented' /\ Collecting'
  <2> USE <1>AnswerFrame
  <2>1. Elements(up') \subseteq Elements(up) /\ Answers' \subseteq Answers /\ (ChunkSent' => ChunkSent)
    BY DEF Answers, ChunkSent, Elements
  <2> QED BY <2>1, <1>AckedFrame, <1>FragmentedFrame, <1>CollectingFrame
<1>TypedFrame.
    ASSUME Typed, SameCache, SamePage,
           UNCHANGED <<identity, revision, epoch, ready, chunkIndex, chunkTotal, fragments, pageLast>>
    PROVE  Typed'
  BY <1>TypedFrame DEF SameCache, SamePage, Typed, Empty
<1>FilledFrame. ASSUME Filled, SameCache, SamePage, UNCHANGED <<epoch, ready>> PROVE Filled'
  BY <1>FilledFrame DEF SameCache, SamePage, Filled

(* Controller *)
<1>TablesKeep. KeepsStreams(Changing \/ NeedFull \/ Losing)
  <2> SUFFICES ASSUME EpochInv, StreamInv, Changing \/ NeedFull \/ Losing PROVE StreamInv'
    BY DEF KeepsStreams
  <2>1. /\ SameCache /\ SameWork /\ SamePage
        /\ UNCHANGED <<down, up, jobs, epoch, current, conn, stage, unregistered, streams, ready,
                       welcomeEpoch, syncReady>>
        /\ UNCHANGED <<chunkIndex, chunkTotal, cursor, pageLast>>
        /\ revision' = revision \/ revision' = revision + 1
        /\ identity' = identity \/ \E u \in Users, v \in Contents : identity' = [identity EXCEPT ![u] = v]
    BY
    DEF Changing, Losing, Mutate, NeedFull, PushLost, PrepareRows, Contents, SameCache, SameWork,
        SamePage, indexVars, pageVars, epochVars, handlerVars, chunkVars, edgeVars, cacheVars,
        linkVars, recvVars, workVars
  <2>2. revision' \in Nat /\ revision <= revision'
    BY <2>1, SMT, Z3 DEF EpochInv, Opened
  <2>3. identity' \in [Users -> Contents]
    BY <2>1 DEF StreamInv, Typed
  <2>4. Typed'
    BY <2>1, <2>2, <2>3, SMT, Z3
    DEF EpochInv, Opened, StreamInv, Typed, SameCache, SameWork, SamePage, Empty
  <2>5. Life' /\ Greeting' /\ Once' /\ Behind' /\ Queue' /\ Passing' /\ Confirming' /\ Admits'
    BY <2>1, <1>LifeFrame, <1>GreetingFrame, <1>OnceFrame, <1>EdgeFrame DEF StreamInv
  <2>6. Chunked' /\ Paged' /\ Filled'
    BY <2>1, <2>2, <1>PageFrame, <1>FilledFrame DEF StreamInv, EpochInv
  <2>7. Acked' /\ Fragmented' /\ Collecting'
    BY <2>1, <2>2, <1>AnswerFrame DEF StreamInv, EpochInv, SamePage
  <2> QED BY <2>4, <2>5, <2>6, <2>7 DEF StreamInv
<1>SessionKeeps. KeepsStreams(EndSession \/ \E s \in unregistered : Register(s))
  <2> SUFFICES ASSUME EpochInv, StreamInv, EndSession \/ \E s \in unregistered : Register(s) PROVE StreamInv'
    BY DEF KeepsStreams
  <2>1. /\ SameCache /\ SameWork /\ SamePage
        /\ UNCHANGED <<down, epoch, conn, streams, ready, welcomeEpoch, syncReady, revision, identity>>
        /\ UNCHANGED <<chunkIndex, chunkTotal, cursor, pageLast>> /\ up' = <<>> /\ jobs' = <<>>
        /\ \/ current' = 0 /\ UNCHANGED <<stage, unregistered>>
           \/ current' \in unregistered /\ unregistered' = unregistered \ {current'} /\ stage' = "hello"
    BY
    DEF Register, EndSession, SameCache, SameWork, SamePage, indexVars, pageVars, epochVars,
        chunkVars, edgeVars, cacheVars, linkVars, recvVars, workVars
  <2>2. Typed'
    BY <2>1, <1>TypedFrame DEF StreamInv, SameWork
  <2>3. Elements(up)' = {} /\ Answers' = {}
    BY <2>1, EmptyFacts DEF Answers
  <2>4. Acked' /\ Fragmented'
    BY <2>3 DEF Acked, Fragmented
  <2>5. (Idle' <=> Idle) /\ (Live' <=> Live)
    BY <2>1 DEF SameCache, SameWork, Idle, Live
  <2>6. Life'
    <3>1. CASE current' = 0 /\ UNCHANGED <<stage, unregistered>>
      BY <2>1, <2>5, <3>1, SMT, Z3 DEF StreamInv, Life, SameWork, Attached
    <3>2. CASE current' \in unregistered /\ unregistered' = unregistered \ {current'} /\ stage' = "hello"
      BY <2>1, <2>5, <3>2, SMT, Z3 DEF StreamInv, Life, SameWork, Attached
    <3> QED BY <2>1, <3>1, <3>2
  <2>7. Greeting'
    BY <2>1 DEF Greeting
  <2>8. Attached' => fragments = 0
    BY <2>1 DEF StreamInv, Life, Attached
  <2>9. Collecting'
    BY <2>1, <2>8 DEF Collecting, SameWork
  <2>10. Once' /\ Behind' /\ Queue' /\ Passing' /\ Confirming' /\ Admits'
    BY <2>1, <1>OnceFrame, <1>EdgeFrame DEF StreamInv
  <2>11. Chunked' /\ Paged' /\ Filled'
    BY <2>1, <1>PageFrame, <1>FilledFrame, SMT, Z3 DEF StreamInv, EpochInv, Opened
  <2> QED BY <2>2, <2>4, <2>6, <2>7, <2>9, <2>10, <2>11 DEF StreamInv
\* A new epoch leaves what is under way in an older one.
<1>NewEpoch.
    ASSUME Epochs, Opened, Ordered, Queued, Chunked, Paged, SameCache, SameWork, epoch' = epoch + 1,
           UNCHANGED <<down, revision>>
    PROVE  Once' /\ Chunked' /\ Paged'
  <2> USE <1>NewEpoch
  <2>1. /\ \A m \in Elements(down) : m.epoch < epoch'
        /\ \A w \in Resets : w.epoch < epoch'
        /\ \A w \in Pages : w.epoch < epoch'
    BY SMT, Z3 DEF Epochs, Ordered, Queued, Resets, Pages, IsReset, IsPage
  <2>2. /\ Elements(down') = Elements(down) /\ Resets' = Resets /\ Pages' = Pages
        /\ (\A w : IsPage(w)' <=> IsPage(w)) /\ (Overtaken' <=> Overtaken)
    BY DEF SameCache, SameWork, Resets, Pages, IsReset, IsPage, Overtaken, Elements
  <2>3. \A i \in DOMAIN down : down[i] \in Elements(down)
    BY DEF Elements
  <2>4. Once'
    BY <2>1, <2>2, <2>3, SMT, Z3 DEF Once, Resets, Epochs, SameCache, SameWork
  <2>5. Chunked'
    BY <2>1, <2>3, SMT, Z3 DEF Chunked, SameWork, Epochs
  <2>6. Paged'
    BY <2>1, <2>2, SMT, Z3 DEF Paged, SameWork, SameCache, Epochs, IsReset
  <2> QED BY <2>4, <2>5, <2>6
<1>HelloStreams. KeepsStreams(Hello)
  <2> SUFFICES ASSUME EpochInv, StreamInv, Hello PROVE StreamInv'
    BY DEF KeepsStreams
  <2>1. /\ SameCache /\ SameWork /\ epoch' = epoch + 1 /\ epoch' <= MaxEpoch
        /\ UNCHANGED <<down, up, jobs, current, conn, streams, unregistered, syncReady, revision, identity>>
        /\ current # 0 /\ stage = "hello" /\ stage' = "greet" /\ welcomeEpoch' = epoch'
        /\ ready' = FALSE /\ baseline' = FALSE /\ cursor' = 0 /\ chunkIndex' = 0 /\ chunkTotal' = 0
        /\ page' = {} /\ pageValue' = Empty /\ pageRev' = 0 /\ pageLast' = 0 /\ pageEnd' = FALSE
    BY SyncAssumption, SMT, Z3
    DEF Hello, NoPage, SameCache, SameWork, indexVars, edgeVars, cacheVars, linkVars, recvVars,
        workVars, EpochInv, Epochs
  <2>2. Typed'
    BY <2>1 DEF StreamInv, Typed, SameCache, SameWork, Empty, Contents
  <2>3. up = <<>> /\ jobs = <<>> /\ (Attached => Idle)
    BY <2>1 DEF StreamInv, Life
  <2>4. Elements(up') = {} /\ Answers' = {}
    BY <2>1, <2>3, EmptyFacts DEF Answers
  <2>5. Acked' /\ Fragmented'
    BY <2>4 DEF Acked, Fragmented
  <2>6. Collecting' /\ Filled'
    BY <2>1, SMT, Z3 DEF EpochInv, Epochs, Collecting, Filled, SameWork
  <2>7. Life'
    BY <2>1, <2>3 DEF StreamInv, Life, SameCache, SameWork, Idle, Attached, Superseded, Live
  <2>8. Once' /\ Chunked' /\ Paged'
    BY <2>1, <1>NewEpoch DEF EpochInv, StreamInv
  <2>9. Behind' /\ Queue' /\ Passing' /\ Confirming' /\ Admits'
    BY <2>1, <1>EdgeFrame DEF StreamInv
  <2>10. Greeting'
    <3>1. edgeEpoch' < epoch' /\ (\A m \in Elements(down') : m.epoch < epoch') /\ (\A w \in Resets' : w.epoch < epoch')
      BY <2>1, SMTT(30), Z3T(30)
      DEF EpochInv, Epochs, Ordered, Queued, SameCache, SameWork, Resets, IsReset, Elements
    <3>2. Attached => ~ChunkSent' /\ Pages' = {}
      BY <2>1, <2>3, EmptyFacts DEF Idle, SameWork, ChunkSent, Pages, IsPage
    <3> QED BY <2>1, <3>1, <3>2 DEF Greeting, Attached
  <2> QED BY <2>2, <2>5, <2>6, <2>7, <2>8, <2>9, <2>10 DEF StreamInv
\* A welcome queued behind what is under way.
<1>WelcomeQueued.
    ASSUME EpochInv, StreamInv, NEW m, m.type = "welcome", down' = Append(down, m), SameCache, SameWork,
           UNCHANGED syncReady, m.epoch \in Nat,
           edgeEpoch < m.epoch \/ (~ChunkSent /\ (worker = GivenUp \/ (entered /\ Fresh)))
    PROVE  Behind' /\ Queue' /\ Passing' /\ Confirming' /\ Admits' /\ (ChunkSent' <=> ChunkSent)
  <2> USE <1>WelcomeQueued
  <2>1. PICK n \in Nat : /\ DOMAIN down' = DOMAIN down \cup {n} /\ down'[n] = m
                         /\ \A i \in DOMAIN down : i \in Nat /\ i < n /\ down'[i] = down[i]
    BY DownGrows DEF EpochInv
  <2>2. Elements(down') = Elements(down) \cup {m}
    BY DownGrows DEF EpochInv
  <2>3. Resets' = Resets /\ Pages' = Pages /\ (Fresh' <=> Fresh)
    BY DEF SameCache, SameWork, Resets, Pages, IsReset, IsPage, Fresh, Empty
  <2>4. Behind'
    BY <2>2, <2>3, SMT, Z3 DEF StreamInv, Behind, Overtaken, SameCache, SameWork, EpochInv, Epochs
  <2>5. Queue' /\ Admits'
    BY DEF StreamInv, Queue, Admits, SameCache, SameWork, IsReset, IsPage, Live
  <2>6. ChunkSent' <=> ChunkSent
    BY <2>2 DEF ChunkSent
  <2>7. Confirming'
    BY <2>1, SMTT(30), Z3T(30) DEF StreamInv, Confirming, SameCache, SameWork
  <2>8. Passing'
    <3>1. ~failed => \A i \in DOMAIN down : down[i].type # "welcome" => edgeEpoch < m.epoch
      <4>1. \A i \in DOMAIN down : down[i].type # "welcome" => down[i].type = "confirmed" \/ ChunkSent
        BY DEF EpochInv, Ordered, ChunkSent, Elements
      <4>2. ~failed /\ (\E i \in DOMAIN down : down[i].type = "confirmed") => lastRevision # 0 /\ worker # GivenUp
        BY DEF StreamInv, Confirming, Queue
      <4> QED BY <4>1, <4>2 DEF StreamInv, Passing, Queue, Fresh
    <3> QED BY <2>1, <2>3, <3>1, SMT, Z3 DEF StreamInv, Passing, SameCache, SameWork
  <2> QED BY <2>4, <2>5, <2>6, <2>7, <2>8
<1>SendWelcomeStreams. KeepsStreams(SendWelcome)
  <2> SUFFICES ASSUME EpochInv, StreamInv, SendWelcome PROVE StreamInv'
    BY DEF KeepsStreams
  <2> DEFINE m == Welcome(welcomeEpoch)
  <2>1. /\ SameCache /\ SameWork /\ SamePage
        /\ UNCHANGED <<up, jobs, epoch, current, conn, unregistered, streams, ready, syncReady,
                       identity, revision>>
        /\ UNCHANGED <<chunkIndex, chunkTotal, cursor, pageLast>>
        /\ current # 0 /\ stage = "greet" /\ stage' = "open"
        /\ down' = IF conn = current THEN Append(down, m) ELSE down
    BY
    DEF SendWelcome, SendDown, SameCache, SameWork, SamePage, indexVars, pageVars, epochVars,
        chunkVars, edgeVars, cacheVars, linkVars, recvVars, workVars
  <2>2. m.type = "welcome" /\ m.epoch = welcomeEpoch /\ welcomeEpoch \in 1..epoch
    BY <2>1 DEF Welcome, EpochInv, Epochs
  <2> HIDE DEF m
  <2>3. Typed' /\ Filled' /\ Greeting'
    BY <2>1, <1>TypedFrame, <1>FilledFrame DEF StreamInv, SameWork, Greeting
  <2>4. Life'
    BY <2>1 DEF StreamInv, Life, SameCache, SameWork, Idle, Attached, Superseded, Live
  <2>5. CASE conn # current
    <3>1. UNCHANGED down
      BY <2>1, <2>5
    <3>2. Once' /\ Behind' /\ Queue' /\ Passing' /\ Confirming' /\ Admits'
      BY <2>1, <3>1, <1>OnceFrame, <1>EdgeFrame DEF StreamInv
    <3>3. Chunked' /\ Paged'
      BY <2>1, <3>1, <1>PageFrame, SMTT(30), Z3T(30) DEF StreamInv, EpochInv, Opened
    <3>4. Acked' /\ Fragmented' /\ Collecting'
      BY <2>1, <3>1, <1>AnswerFrame, SMT, Z3 DEF StreamInv, EpochInv, SamePage, Opened
    <3> QED BY <2>3, <2>4, <3>2, <3>3, <3>4 DEF StreamInv
  <2>6. CASE conn = current
    <3>1. down' = Append(down, m)
      BY <2>1, <2>6
    <3>2. /\ ~ChunkSent /\ Pages = {} /\ (edgeEpoch < m.epoch \/ worker = GivenUp \/ (entered /\ Fresh))
          /\ m.epoch = epoch =>
               edgeEpoch < epoch /\ (\A k \in Elements(down) : k.epoch < epoch) /\ (\A w \in Resets : w.epoch < epoch)
      BY <2>1, <2>2, <2>6 DEF StreamInv, Greeting
    <3>3. Behind' /\ Queue' /\ Passing' /\ Confirming' /\ Admits' /\ (ChunkSent' <=> ChunkSent)
      BY <2>1, <2>2, <3>1, <3>2, <1>WelcomeQueued, SMT, Z3
    <3>4. Chunked' /\ Paged'
      <4>1. Pages' = {} /\ ~IsPage(buffer')
        BY <2>1, <3>2 DEF Pages, IsPage, SameWork
      <4> QED BY <3>2, <3>3, <4>1 DEF Chunked, Paged, ChunkSent, Elements, IsPage
    <3>5. Acked' /\ Fragmented' /\ Collecting'
      <4>1. Elements(up') \subseteq Elements(up) /\ Answers' \subseteq Answers
        BY <2>1 DEF Answers, Elements
      <4> QED BY <2>1, <3>3, <4>1, <1>AckedFrame, <1>FragmentedFrame, <1>CollectingFrame, SMT, Z3
        DEF StreamInv, EpochInv, Opened, SamePage
    <3>6. Once'
      <4>1. PICK n \in Nat : /\ DOMAIN down' = DOMAIN down \cup {n} /\ down'[n] = m
                             /\ \A i \in DOMAIN down : i \in Nat /\ i < n /\ down'[i] = down[i]
        BY <3>1, DownGrows DEF EpochInv
      <4>2. Elements(down') = Elements(down) \cup {m} /\ Resets' = Resets /\ \A i \in DOMAIN down : down[i] \in Elements(down)
        BY <2>1, <3>1, DownGrows DEF EpochInv, SameWork, Resets, IsReset, Elements
      <4>3. /\ \A k \in Elements(down) : k.epoch \in Nat
            /\ \A w \in Resets : w.epoch \in Nat
        BY SMTT(30), Z3T(30) DEF EpochInv, Ordered, Queued, Resets, IsReset
      <4>4. \A i, j \in DOMAIN down' :
           down'[i].type = "welcome" /\ down'[i].epoch = epoch /\ down'[j].type = "welcome" /\ down'[j].epoch = epoch => i = j
        BY <3>2, <4>1, <4>2, <4>3, SMTT(30), Z3T(30) DEF StreamInv, Once, EpochInv, Epochs
      <4>5. /\ \A w \in Resets : w.epoch = epoch =>
                 edgeEpoch < epoch /\ \A k \in Elements(down') : ~(k.type = "welcome" /\ k.epoch = epoch)
            /\ \A k \in Elements(down') : k.type = "welcome" /\ k.epoch = epoch => edgeEpoch < epoch
        BY <3>2, <4>2, <4>3, SMTT(30), Z3T(30) DEF StreamInv, Once, EpochInv, Epochs
      <4> QED BY <2>1, <4>2, <4>4, <4>5 DEF StreamInv, Once, SameWork, SameCache, IsReset
    <3> QED BY <2>3, <2>4, <3>3, <3>4, <3>5, <3>6 DEF StreamInv
  <2> QED BY <2>5, <2>6
<1>RequestResetStreams. KeepsStreams(RequestReset)
  <2> SUFFICES ASSUME EpochInv, StreamInv, RequestReset PROVE StreamInv'
    BY DEF KeepsStreams
  <2> DEFINE m == Welcome(epoch + 1)
  <2>1. /\ SameCache /\ SameWork /\ SamePage /\ epoch' = epoch + 1 /\ epoch' <= MaxEpoch /\ ready' = FALSE
        /\ UNCHANGED <<up, jobs, current, conn, stage, unregistered, streams, welcomeEpoch,
                       syncReady, identity, revision>>
        /\ UNCHANGED <<chunkIndex, chunkTotal, cursor, pageLast>> /\ stage # "hello" /\ current # 0
        /\ down' = IF conn = current THEN Append(down, m) ELSE down
    BY SyncAssumption, SMT, Z3
    DEF RequestReset, Deliverable, SendDown, SameCache, SameWork, SamePage, indexVars, pageVars,
        chunkVars, edgeVars, cacheVars, linkVars, recvVars, workVars, EpochInv, Epochs
  <2>2. m.type = "welcome" /\ m.epoch = epoch' /\ m.epoch \in Nat /\ edgeEpoch < m.epoch
    BY <2>1, SMT, Z3 DEF Welcome, EpochInv, Epochs
  <2> HIDE DEF m
  <2>3. Typed' /\ Filled'
    BY <2>1 DEF StreamInv, Typed, Filled, SameCache, SameWork, SamePage, Empty
  <2>4. Life'
    BY <2>1 DEF StreamInv, Life, SameCache, SameWork, Idle, Attached, Superseded, Live
  <2>5. Acked' /\ Fragmented' /\ Collecting'
    <3>1. Answers' = Answers /\ Elements(up') \subseteq Answers
      BY <2>1 DEF Answers, Elements
    <3>2. \A k \in Answers : k.epoch # epoch'
      BY <2>1, SMT, Z3 DEF EpochInv, Epochs, Answered
    <3>3. recvEpoch' # epoch'
      BY <2>1, SMT, Z3 DEF EpochInv, Epochs, SameWork
    <3>4. Fragmented' /\ Collecting'
      <4>1. \A k \in Elements(up') : k \in Elements(up)
        BY <2>1 DEF Elements
      <4> QED BY <2>1, <3>1, <3>2, <3>3, <4>1 DEF StreamInv, Fragmented, Collecting
    <3> QED BY <2>1, <3>1, <3>4, <1>AckedFrame, SMT, Z3 DEF StreamInv, EpochInv, Opened
  <2>6. CASE conn # current
    <3>1. UNCHANGED down
      BY <2>1, <2>6
    <3>2. Once' /\ Chunked' /\ Paged'
      BY <2>1, <3>1, <1>NewEpoch DEF StreamInv, EpochInv
    <3>3. Behind' /\ Queue' /\ Passing' /\ Confirming' /\ Admits'
      BY <2>1, <3>1, <1>EdgeFrame DEF StreamInv
    <3>4. Greeting'
      BY <2>1, <2>6, SMT, Z3 DEF EpochInv, Epochs, Greeting
    <3> QED BY <2>3, <2>4, <2>5, <3>2, <3>3, <3>4 DEF StreamInv
  <2>7. CASE conn = current
    <3>1. down' = Append(down, m)
      BY <2>1, <2>7
    <3>2. Behind' /\ Queue' /\ Passing' /\ Confirming' /\ Admits' /\ (ChunkSent' <=> ChunkSent)
      BY <2>1, <2>2, <3>1, <1>WelcomeQueued
    <3>3. PICK n \in Nat : /\ DOMAIN down' = DOMAIN down \cup {n} /\ down'[n] = m
                           /\ \A i \in DOMAIN down : i \in Nat /\ i < n /\ down'[i] = down[i]
      BY <3>1, DownGrows DEF EpochInv
    <3>4. /\ Elements(down') = Elements(down) \cup {m} /\ Resets' = Resets /\ Pages' = Pages
          /\ (\A w : IsPage(w)' <=> IsPage(w)) /\ \A i \in DOMAIN down : down[i] \in Elements(down)
      BY <2>1, <3>1, DownGrows DEF EpochInv, SameWork, Resets, Pages, IsReset, IsPage, Elements
    <3>5. /\ \A k \in Elements(down) : k.epoch < epoch'
          /\ \A w \in Resets : w.epoch < epoch'
          /\ \A w \in Pages : w.epoch < epoch'
      BY <2>1, SMT, Z3 DEF EpochInv, Epochs, Ordered, Queued, Resets, Pages, IsReset, IsPage
    <3>6. Once'
      <4>1. epoch' \in Nat /\ \A w \in Resets' : w.epoch # epoch'
        BY <2>1, <3>4, <3>5, SMT, Z3 DEF EpochInv, Epochs
      <4>2. IsReset(buffer') /\ IsReset(worker') => ~(buffer'.epoch = epoch' /\ worker'.epoch = epoch')
        BY <4>1 DEF Resets, IsReset
      <4>3. \A i, j \in DOMAIN down' :
          down'[i].type = "welcome" /\ down'[i].epoch = epoch' /\ down'[j].type = "welcome" /\ down'[j].epoch = epoch' => i = j
        <5>1. \A k \in Elements(down) : k.epoch # epoch'
          BY <3>5, <4>1, SMT, Z3
        <5> QED BY <3>3, <3>4, <5>1
      <4> QED BY <2>1, <2>2, <4>1, <4>2, <4>3 DEF Once, SameCache, IsReset
    <3>7. Chunked'
      <4>1. \A i \in DOMAIN down' : down'[i].type = "chunk" => i \in DOMAIN down /\ down'[i] = down[i] /\ down[i].epoch # epoch'
        BY <2>1, <2>2, <3>3, <3>4, <3>5, SMT, Z3 DEF EpochInv, Epochs
      <4>2. (failed' <=> failed) /\ revision' = revision
        BY <2>1 DEF SameWork
      <4> QED BY <4>1, <4>2 DEF StreamInv, Chunked
    <3>8. Paged'
      <4>1. Overtaken' => Overtaken
        BY <2>1, <2>2, <3>4, SMTT(30), Z3T(30) DEF Overtaken, SameCache, EpochInv, Epochs
      <4>2. \A w \in Pages : w.epoch # epoch'
        BY <2>1, <3>5, SMT, Z3 DEF EpochInv, Epochs
      <4> QED BY <2>1, <3>4, <4>1, <4>2 DEF StreamInv, Paged, SameCache, SameWork, IsReset
    <3>9. Greeting'
      <4>1. stage = "greet" => welcomeEpoch # epoch'
        BY <2>1, SMT, Z3 DEF EpochInv, Epochs
      <4>2. Fresh' <=> Fresh
        BY <2>1 DEF SameCache, Fresh, Empty
      <4> QED BY <2>1, <3>2, <3>4, <4>1, <4>2 DEF StreamInv, Greeting, SameCache, SameWork
    <3> QED BY <2>3, <2>4, <2>5, <3>2, <3>6, <3>7, <3>8, <3>9 DEF StreamInv
  <2> QED BY <2>6, <2>7
<1>NextPageUsers. NextPage \subseteq Users
  BY DEF NextPage, FirstPage
\* A fragment or confirmation of the edge's epoch is sent.
<1>PassingGrows.
    ASSUME EpochInv, Passing, NEW m, down' = Append(down, m), m.type # "welcome", m.epoch = edgeEpoch,
           UNCHANGED <<edgeEpoch, failed>>, Resets' = Resets, Pages' = Pages,
           ~failed => /\ Pages = {} /\ \A w \in Resets : w.epoch < edgeEpoch
                      /\ \A k \in Elements(down) : k.type = "welcome" => k.epoch < edgeEpoch
    PROVE  Passing'
  <2> USE <1>PassingGrows
  <2>1. PICK n \in Nat : /\ DOMAIN down' = DOMAIN down \cup {n} /\ down'[n] = m
                         /\ \A i \in DOMAIN down : i \in Nat /\ i < n /\ down'[i] = down[i]
    BY DownGrows DEF EpochInv
  <2>2. \A i \in DOMAIN down : ~(n < i) /\ down[i] \in Elements(down)
    BY <2>1, SMT, Z3 DEF Elements
  <2>3. ASSUME ~failed, NEW i \in DOMAIN down', down'[i].type # "welcome"
        PROVE  down'[i].epoch = edgeEpoch
    BY <2>1, <2>3 DEF Passing
  <2>4. ASSUME ~failed, NEW i \in DOMAIN down', down'[i].type # "welcome", NEW j \in DOMAIN down', down'[j].type = "welcome"
        PROVE  (j < i => down'[j].epoch < edgeEpoch) /\ (i < j => edgeEpoch < down'[j].epoch)
    <3>1. j \in DOMAIN down /\ down'[j] = down[j]
      BY <2>1, <2>4
    <3>2. CASE i = n
      BY <2>2, <2>4, <3>1, <3>2
    <3>3. CASE i \in DOMAIN down
      <4>1. down'[i] = down[i]
        BY <2>1, <3>3
      <4>2. down[i].type # "welcome" /\ down[j].type = "welcome"
        BY <2>4, <3>1, <4>1
      <4>3. (j < i => down[j].epoch < edgeEpoch) /\ (i < j => edgeEpoch < down[j].epoch)
        BY <2>4, <3>1, <3>3, <4>2 DEF Passing
      <4> QED BY <3>1, <4>3
    <3> QED BY <2>1, <3>2, <3>3
  <2> QED BY <2>3, <2>4 DEF Passing
<1>TakePageStreams. \A total \in Nat \ {0} : KeepsStreams(PushPage(total) \/ PushStuck(total))
  <2> SUFFICES ASSUME NEW total \in Nat \ {0}, EpochInv, StreamInv, PushPage(total) \/ PushStuck(total) PROVE StreamInv'
    BY DEF KeepsStreams
  <2> DEFINE m == Chunk(epoch, pageRev', 0, total, Body')
  <2>1. /\ SameCache /\ SameWork /\ ready /\ pageRev = 0 /\ pageRev' = revision + 1 /\ revision' = revision + 1
        /\ UNCHANGED <<up, jobs, epoch, current, conn, stage, unregistered, streams, ready,
                       welcomeEpoch, syncReady, identity>>
        /\ UNCHANGED <<baseline, cursor>> /\ chunkIndex' = 0 /\ chunkTotal' = total /\ current # 0 /\ stage # "hello"
        /\ down' = down \/ (conn = current /\ down' = Append(down, m))
    BY
    DEF PushPage, PushStuck, TakePage, PageDue, Deliverable, PrepareRows, SendDown, SameCache,
        SameWork, epochVars, handlerVars, edgeVars, cacheVars, linkVars, recvVars, workVars
  <2>2. /\ page' \subseteq Users /\ pageValue' \in [Users -> Contents] /\ pageEnd' \in BOOLEAN /\ (pageEnd' => baseline)
    <3>1. /\ page' = NextPage /\ pageValue' = [u \in Users |-> IF u \in NextPage THEN identity[u] ELSE Absent]
          /\ pageEnd' = (baseline /\ \A u \in Users : u > LastID => identity[u] = Absent)
      BY DEF PushPage, PushStuck, TakePage
    <3>2. pageEnd' \in BOOLEAN /\ (pageEnd' => baseline)
      BY <3>1 DEF StreamInv, Typed
    <3> QED BY <3>1, <3>2, <1>NextPageUsers DEF StreamInv, Typed, Contents
  <2>3. Typed'
    <3>1. pageRev' # 0 /\ lastRevision' \in 0..revision'
      BY <2>1, SMT, Z3 DEF StreamInv, Typed, SameCache, EpochInv, Opened
    <3> QED BY <2>1, <2>2, <3>1 DEF StreamInv, Typed, SameCache, SameWork
  <2>4. /\ m.type = "chunk" /\ m.epoch = epoch /\ m.rev = pageRev' /\ m.index = 0 /\ m.total = total /\ m.body = Body'
        /\ Body' \in Bodies
    BY <2>1, <2>2 DEF Chunk, Body, Bodies, StreamInv, Typed
  <2> HIDE DEF m
  <2>5. Life'
    BY <2>1 DEF StreamInv, Life, SameCache, SameWork, Idle, Attached, Superseded, Live
  <2>6. Greeting' /\ Filled'
    BY <2>1, SMT, Z3 DEF StreamInv, Greeting, Filled, SameCache, Typed, EpochInv, Opened
  <2>7. Acked' /\ Fragmented' /\ Collecting'
    <3>1. Elements(up') = Elements(up) /\ Answers' = Answers /\ revision \in Nat
      BY <2>1 DEF Answers, Elements, EpochInv, Opened
    <3>2. Acked'
      BY <2>1, <3>1, <1>AckedFrame, SMT, Z3 DEF StreamInv, EpochInv
    <3>3. Collecting'
      BY <2>1 DEF StreamInv, Collecting, SameWork, Attached
    <3>4. Fragmented'
      BY <2>1, <3>1, SMT, Z3 DEF StreamInv, Fragmented
    <3> QED BY <3>2, <3>3, <3>4
  <2>8. Resets' = Resets /\ Pages' = Pages /\ (\A w : IsPage(w)' <=> IsPage(w))
    BY <2>1 DEF SameWork, Resets, Pages, IsReset, IsPage
  <2>9. Paged'
    <3>1. worker # GivenUp => Pages' = {} /\ ~IsPage(buffer')
      BY <2>1, <2>8, NothingUnderWay DEF Pages, IsPage, SameWork
    <3> QED BY <2>1, <3>1 DEF Paged, SameWork, IsPage
  <2>10. CASE down' = down
    <3>1. Once' /\ Behind' /\ Queue' /\ Passing' /\ Confirming' /\ Admits'
      BY <2>1, <2>10, <1>OnceFrame, <1>EdgeFrame DEF StreamInv
    <3>2. Chunked'
      <4>1. worker = GivenUp => failed
        BY DEF StreamInv, Queue
      <4>2. ~failed => ~ChunkSent
        BY <2>1, <4>1, NothingUnderWay
      <4> QED BY <2>1, <2>10, <4>2 DEF Chunked, ChunkSent, Elements, SameWork
    <3> QED BY <2>3, <2>5, <2>6, <2>7, <2>9, <3>1, <3>2 DEF StreamInv
  <2>11. CASE conn = current /\ down' = Append(down, m)
    <3>1. PICK n \in Nat : /\ DOMAIN down' = DOMAIN down \cup {n} /\ down'[n] = m
                           /\ \A i \in DOMAIN down : i \in Nat /\ i < n /\ down'[i] = down[i]
      BY <2>11, DownGrows DEF EpochInv
    <3>2. Elements(down') = Elements(down) \cup {m} /\ \A i \in DOMAIN down : down[i] \in Elements(down)
      BY <2>11, DownGrows DEF EpochInv, Elements
    <3>3. ~failed => /\ Pages = {} /\ ~ChunkSent /\ \A w \in Resets : w.epoch < edgeEpoch
                     /\ \A k \in Elements(down) : k.type = "welcome" => k.epoch < edgeEpoch
      BY <2>1, NothingUnderWay DEF StreamInv, Queue
    <3>4. Once'
      <4>1. UNCHANGED <<epoch, edgeEpoch, buffer, worker>> /\ Resets' = Resets /\ m.type # "welcome"
        BY <2>1, <2>4, <2>8 DEF SameCache, SameWork
      <4>2. \A i, j \in DOMAIN down' :
              down'[i].type = "welcome" /\ down'[i].epoch = epoch /\ down'[j].type = "welcome" /\ down'[j].epoch = epoch => i = j
        BY <3>1, <4>1 DEF StreamInv, Once
      <4> QED BY <3>2, <4>1, <4>2 DEF StreamInv, Once, IsReset
    <3>5. Behind' /\ Queue' /\ Admits'
      <4>1. (Overtaken' <=> Overtaken) /\ (Fresh' <=> Fresh)
        BY <2>1, <2>4, <2>8, <3>2 DEF Overtaken, SameCache, Fresh, Empty
      <4> QED BY <2>1, <4>1
        DEF StreamInv, Behind, Queue, Admits, SameCache, SameWork, IsReset, IsPage, Live
    <3>6. Passing'
      <4>1. epoch = edgeEpoch
        BY <2>1 DEF EpochInv, Opened
      <4> QED BY <2>1, <2>4, <2>8, <2>11, <3>3, <4>1, <1>PassingGrows
        DEF StreamInv, SameCache, SameWork
    <3>7. Chunked'
      <4>1. pageRev' # 0 /\ lastRevision' < pageRev' /\ pageRev' \in 1..revision'
        BY <2>1, SMT, Z3 DEF StreamInv, Typed, EpochInv, Opened, SameCache
      <4>2. ~failed => \A i \in DOMAIN down' : down'[i].type = "chunk" => i = n
        BY <3>1, <3>2, <3>3 DEF ChunkSent
      <4>3. chunkIndex' < chunkTotal' /\ m.index = chunkIndex' /\ m.total = chunkTotal'
        BY <2>1, <2>4, SMT, Z3
      <4>4. failed' = failed /\ m.rev \in 1..revision'
        BY <2>1, <2>4, <4>1 DEF SameWork
      <4>5. ASSUME ~failed', NEW i \in DOMAIN down', down'[i].type = "chunk"
            PROVE  down'[i] = m /\ \A j \in DOMAIN down' : down'[j].type = "chunk" => j = i
        BY <3>1, <4>2, <4>4, <4>5
      <4>6. ASSUME NEW k, k = m
            PROVE  /\ k.rev \in 1..revision' /\ k.body \in Bodies /\ k.rev = pageRev' /\ k.body = Body'
                   /\ k.index = chunkIndex' /\ k.total = chunkTotal'
        BY <2>4, <4>3, <4>4, <4>6
      <4> QED BY <4>1, <4>3, <4>5, <4>6 DEF Chunked, Current
    <3>8. Confirming'
      BY <2>1, <2>4, <3>1 DEF StreamInv, Confirming, SameCache, SameWork
    <3> QED BY <2>3, <2>5, <2>6, <2>7, <2>9, <3>4, <3>5, <3>6, <3>7, <3>8 DEF StreamInv
  <2> QED BY <2>1, <2>10, <2>11
<1>RecvChunkAckStreams. KeepsStreams(RecvChunkAck)
  <2> SUFFICES ASSUME EpochInv, StreamInv, RecvChunkAck PROVE StreamInv'
    BY DEF KeepsStreams
  <2> DEFINE m == Head(up)
             c == Chunk(epoch, pageRev, chunkIndex + 1, chunkTotal, Body)
  <2>1. /\ SameCache /\ SameWork /\ SamePage /\ current # 0 /\ stage = "open" /\ up # <<>> /\ up' = Tail(up)
        /\ UNCHANGED <<jobs, epoch, current, conn, stage, unregistered, streams, ready, welcomeEpoch,
                       syncReady, identity>>
        /\ UNCHANGED <<revision, cursor, pageLast, chunkTotal, appliedRev>> /\ m.type = "chunk_ack"
        /\ \/ UNCHANGED <<chunkIndex, down>>
           \/ /\ m.epoch = epoch /\ m.rev = pageRev /\ m.index = chunkIndex /\ chunkIndex < chunkTotal
              /\ chunkIndex' = chunkIndex + 1
              /\ down' = IF chunkIndex + 1 < chunkTotal /\ conn = current THEN Append(down, c) ELSE down
    BY
    DEF RecvChunkAck, Receiving, CountAck, FragmentsLeft, AckAccepted, SendDown, SameCache,
        SameWork, SamePage, indexVars, pageVars, epochVars, handlerVars, edgeVars, cacheVars,
        linkVars, recvVars, workVars
  <2>2. m \in Elements(up) /\ Elements(up') \subseteq Elements(up) /\ Answers' \subseteq Answers
    <3>1. m \in Elements(up) /\ Elements(up') \subseteq Elements(up)
      BY <2>1, TailFacts DEF EpochInv, Answered
    <3>2. Elements(jobs') = Elements(jobs)
      BY <2>1 DEF Elements
    <3> QED BY <3>1, <3>2 DEF Answers
  <2> HIDE DEF m
  <2>3. Typed' /\ Filled' /\ Greeting'
    <3>1. chunkIndex' \in Nat
      BY <2>1, SMT, Z3 DEF StreamInv, Typed
    <3> QED BY <2>1, <3>1, <1>FilledFrame
      DEF StreamInv, Typed, Greeting, SameCache, SameWork, SamePage, Empty
  <2>4. Life'
    <3>1. ~Superseded /\ (conn = current => conn \notin unregistered) /\ (~Live => conn = 0)
      BY <2>1 DEF StreamInv, Life
    <3> QED BY <2>1, <3>1 DEF StreamInv, Life, SameCache, SameWork, Idle, Attached, Superseded, Live
  <2>5. Acked'
    BY <2>1, <2>2, <1>AckedFrame, SMT, Z3 DEF StreamInv, EpochInv, Opened
  <2>6. CASE UNCHANGED <<chunkIndex, down>>
    <3>1. Once' /\ Behind' /\ Queue' /\ Passing' /\ Confirming' /\ Admits'
      BY <2>1, <2>6, <1>OnceFrame, <1>EdgeFrame DEF StreamInv
    <3>2. Chunked' /\ Paged' /\ Collecting'
      BY <2>1, <2>6, <1>PageFrame, <1>CollectingFrame, SMTT(30), Z3T(30)
      DEF StreamInv, EpochInv, Opened, SamePage
    <3>3. Fragmented'
      <4>1. ChunkSent' => ChunkSent
        BY <2>6 DEF ChunkSent, Elements
      <4> QED BY <2>1, <2>2, <2>6, <4>1, <1>FragmentedFrame, SMT, Z3
        DEF StreamInv, EpochInv, Opened, SamePage
    <3> QED BY <2>3, <2>4, <2>5, <3>1, <3>2, <3>3 DEF StreamInv
  <2>7. ASSUME m.epoch = epoch, m.rev = pageRev, m.index = chunkIndex, chunkIndex < chunkTotal, chunkIndex' = chunkIndex + 1,
               down' = IF chunkIndex + 1 < chunkTotal /\ conn = current THEN Append(down, c) ELSE down
        PROVE  StreamInv'
    <3>1. edgeEpoch = epoch /\ epoch \in Nat /\ pageRev \in 1..revision /\ chunkIndex \in Nat /\ chunkTotal \in Nat
      BY <2>1, <2>2, <2>7, SMT, Z3
      DEF EpochInv, Epochs, Answered, Answers, StreamInv, Fragmented, Typed
    <3>2. conn # current => down = <<>> /\ Idle
      BY <2>1 DEF StreamInv, Life, Superseded, Idle
    <3>3. /\ Attached /\ ~failed /\ recvEpoch = epoch => fragments \in {0, chunkIndex + 1}
          /\ Attached /\ ~failed /\ chunkIndex + 1 < chunkTotal => Pages = {} /\ lastRevision < pageRev
          /\ ~failed => ~ChunkSent
      <4>1. Attached /\ ~failed =>
                 /\ ~ChunkSent /\ (recvEpoch = epoch => fragments \in {0, chunkIndex + 1})
                 /\ chunkIndex + 1 < chunkTotal => Pages = {} /\ lastRevision < pageRev
        BY <2>1, <2>2, <2>7 DEF StreamInv, Fragmented
      <4>2. conn # current => ~ChunkSent
        BY <3>2, EmptyFacts DEF ChunkSent
      <4> QED BY <2>1, <4>1, <4>2 DEF Attached
    <3>4. Fragmented' /\ Collecting'
      <4>1. Fragmented'
        BY <2>1, <2>2, <2>7, <3>1, SMTT(30), Z3T(30)
        DEF StreamInv, Fragmented, SamePage, SameWork, Attached
      <4>2. Collecting'
        BY <2>1, <2>7, <3>1, <3>3, SMT, Z3 DEF StreamInv, Collecting, SamePage, SameWork, Attached
      <4> QED BY <4>1, <4>2
    <3>5. /\ c.type = "chunk" /\ c.epoch = epoch /\ c.rev = pageRev /\ c.index = chunkIndex + 1 /\ c.total = chunkTotal
          /\ c.body = Body' /\ c.body \in Bodies
      BY <2>1 DEF Chunk, Body, SamePage, Bodies, StreamInv, Typed
    <3> HIDE DEF c
    <3>6. Resets' = Resets /\ Pages' = Pages /\ (\A w : IsPage(w)' <=> IsPage(w)) /\ (Fresh' <=> Fresh) /\ Body' = Body
      BY <2>1 DEF SameCache, SameWork, SamePage, Resets, Pages, IsReset, IsPage, Fresh, Empty, Body
    <3>7. CASE down' = down
      <4>1. Once' /\ Behind' /\ Queue' /\ Passing' /\ Confirming' /\ Admits'
        BY <2>1, <3>7, <1>OnceFrame, <1>EdgeFrame DEF StreamInv
      <4>2. Chunked'
        BY <2>1, <3>3, <3>7 DEF Chunked, ChunkSent, Elements, SameWork
      <4>3. Paged'
        <5>1. Overtaken' <=> Overtaken
          BY <2>1, <3>6, <3>7 DEF Overtaken, SameCache, Elements
        <5> QED BY <2>1, <3>6, <5>1
          DEF StreamInv, Paged, Current, SameCache, SameWork, SamePage, IsReset
      <4> QED BY <2>3, <2>4, <2>5, <3>4, <4>1, <4>2, <4>3 DEF StreamInv
    <3>8. CASE chunkIndex + 1 < chunkTotal /\ conn = current /\ down' = Append(down, c)
      <4>1. PICK n \in Nat : /\ DOMAIN down' = DOMAIN down \cup {n} /\ down'[n] = c
                             /\ \A i \in DOMAIN down : i \in Nat /\ i < n /\ down'[i] = down[i]
        BY <3>8, DownGrows DEF EpochInv
      <4>2. Elements(down') = Elements(down) \cup {c} /\ \A i \in DOMAIN down : down[i] \in Elements(down)
        BY <3>8, DownGrows DEF EpochInv, Elements
      <4>3. Overtaken' <=> Overtaken
        BY <2>1, <3>5, <3>6, <4>2 DEF Overtaken, SameCache
      <4>4. Once'
        BY <2>1, <3>5, <3>6, <4>1, <4>2 DEF StreamInv, Once, SameCache, SameWork, IsReset
      <4>5. Behind' /\ Queue' /\ Admits'
        BY <2>1, <3>6, <4>3
        DEF StreamInv, Behind, Queue, Admits, SameCache, SameWork, IsReset, IsPage, Live
      <4>6. Paged'
        BY <2>1, <3>6, <4>3 DEF StreamInv, Paged, Current, SameCache, SameWork, SamePage, IsReset
      <4>7. Passing'
        <5>1. ~failed => Pages = {}
          BY <2>1, <3>3, <3>8 DEF Attached
        <5> QED BY <2>1, <3>1, <3>5, <3>6, <3>8, <5>1, LeftIsOlder, <1>PassingGrows
          DEF StreamInv, SameCache, SameWork
      <4>8. Chunked'
        <5>1. ~failed => \A i \in DOMAIN down' : down'[i].type = "chunk" => i = n
          BY <3>3, <4>1, <4>2 DEF ChunkSent
        <5>2. ~failed => lastRevision < pageRev
          BY <2>1, <3>3, <3>8 DEF Attached
        <5>3. failed' = failed /\ c.rev \in 1..revision' /\ chunkIndex' < chunkTotal'
          BY <2>1, <2>7, <3>1, <3>5, <3>8 DEF SameWork
        <5>4. ASSUME ~failed', NEW i \in DOMAIN down', down'[i].type = "chunk"
              PROVE  down'[i] = c /\ lastRevision' < pageRev' /\ \A j \in DOMAIN down' : down'[j].type = "chunk" => j = i
          BY <2>1, <4>1, <5>1, <5>2, <5>3, <5>4 DEF SameCache, SamePage
        <5>5. ASSUME NEW k, k = c
              PROVE  /\ k.rev \in 1..revision' /\ k.body \in Bodies /\ k.rev = pageRev' /\ k.body = Body' /\ pageRev' # 0
                     /\ k.index = chunkIndex' /\ k.total = chunkTotal'
          <6>1. pageRev' = pageRev /\ pageRev # 0
            BY <2>1, <3>1, SMT, Z3 DEF SamePage
          <6> QED BY <2>1, <2>7, <3>5, <5>3, <5>5, <6>1
        <5> QED BY <5>3, <5>4, <5>5 DEF Chunked, Current
      <4>9. Confirming'
        BY <2>1, <3>5, <4>1 DEF StreamInv, Confirming, SameCache, SameWork
      <4> QED BY <2>3, <2>4, <2>5, <3>4, <4>4, <4>5, <4>6, <4>7, <4>8, <4>9 DEF StreamInv
    <3> QED BY <2>7, <3>7, <3>8
  <2> QED BY <2>1, <2>6, <2>7
<1>RecvJobStreams. KeepsStreams(RecvJob)
  <2> SUFFICES ASSUME EpochInv, StreamInv, RecvJob PROVE StreamInv'
    BY DEF KeepsStreams
  <2>1. /\ SameCache /\ SameWork /\ SamePage /\ current # 0 /\ stage = "open" /\ up # <<>>
        /\ up' = Tail(up) /\ jobs' = Append(jobs, Head(up))
        /\ UNCHANGED <<down, epoch, current, conn, stage, unregistered, streams, ready, welcomeEpoch,
                       syncReady, identity>>
        /\ UNCHANGED <<revision, cursor, pageLast, chunkIndex, chunkTotal>>
    BY
    DEF RecvJob, Receiving, SameCache, SameWork, SamePage, indexVars, pageVars, epochVars,
        handlerVars, chunkVars, edgeVars, cacheVars, linkVars, recvVars, workVars
  <2>2. Elements(up') \subseteq Elements(up) /\ Answers' \subseteq Answers /\ (ChunkSent' => ChunkSent)
    <3>1. Head(up) \in Elements(up) /\ Elements(up') \subseteq Elements(up)
      BY <2>1, TailFacts DEF EpochInv, Answered
    <3>2. Elements(jobs') = Elements(jobs) \cup {Head(up)}
      BY <2>1, AppendFacts DEF EpochInv, Answered
    <3> QED BY <2>1, <3>1, <3>2 DEF Answers, ChunkSent, Elements
  <2>3. Typed' /\ Greeting' /\ Filled'
    BY <2>1, <1>TypedFrame, <1>GreetingFrame, <1>FilledFrame DEF StreamInv, SameWork
  <2>4. Life'
    BY <2>1 DEF StreamInv, Life, SameCache, SameWork, Idle, Attached, Superseded, Live
  <2>5. Once' /\ Behind' /\ Queue' /\ Passing' /\ Confirming' /\ Admits'
    BY <2>1, <1>OnceFrame, <1>EdgeFrame DEF StreamInv
  <2>6. Chunked' /\ Paged' /\ Collecting'
    BY <2>1, <1>PageFrame, <1>CollectingFrame, SMTT(30), Z3T(30)
    DEF StreamInv, EpochInv, Opened, SamePage
  <2>7. Acked' /\ Fragmented'
    BY <2>1, <2>2, <1>AckedFrame, <1>FragmentedFrame, SMT, Z3
    DEF StreamInv, EpochInv, Opened, SamePage
  <2> QED BY <2>3, <2>4, <2>5, <2>6, <2>7 DEF StreamInv
\* The worker's job is done, or tried again.
<1>JobLeaves.
    ASSUME EpochInv, StreamInv, jobs # <<>>, jobs' = jobs \/ jobs' = Tail(jobs), SameCache, SameWork, current # 0,
           UNCHANGED <<up, current, conn, stage, unregistered, streams, revision>>,
           conn = current \/ UNCHANGED down
    PROVE  /\ stage = "open" /\ (conn # current => Idle) /\ Head(jobs) \in Answers
           /\ Elements(up') = Elements(up) /\ Answers' \subseteq Answers /\ Life' /\ Acked'
  <2> USE <1>JobLeaves
  <2>1. stage = "open" /\ ~Superseded
    BY DEF StreamInv, Life
  <2>2. conn # current => Idle
    BY <2>1 DEF StreamInv, Life, Superseded
  <2>3. Head(jobs) \in Elements(jobs) /\ Elements(jobs') \subseteq Elements(jobs) /\ Elements(up') = Elements(up)
    BY TailFacts DEF EpochInv, Answered, Elements
  <2>4. Life'
    BY <2>1 DEF StreamInv, Life, SameCache, SameWork, Idle, Attached, Superseded, Live
  <2>5. Head(jobs) \in Answers /\ Answers' \subseteq Answers
    BY <2>3 DEF Answers
  <2>6. Acked'
    BY <2>5, <1>AckedFrame, SMT, Z3 DEF StreamInv, EpochInv, Opened
  <2> QED BY <2>1, <2>2, <2>3, <2>4, <2>5, <2>6
<1>AcceptCacheClearedStreams. KeepsStreams(AcceptCacheCleared \/ ResetLost)
  <2> SUFFICES ASSUME EpochInv, StreamInv, AcceptCacheCleared \/ ResetLost PROVE StreamInv'
    BY DEF KeepsStreams
  <2>1. /\ SameCache /\ SameWork /\ current # 0 /\ jobs # <<>> /\ (jobs' = jobs \/ jobs' = Tail(jobs))
        /\ UNCHANGED <<down, up, epoch, current, conn, stage, unregistered, streams, welcomeEpoch,
                       syncReady, identity>>
        /\ UNCHANGED <<revision, chunkIndex, chunkTotal>>
        /\ \/ UNCHANGED <<pageVars, baseline, ready, cursor>>
           \/ ~ready /\ NoPage /\ ready' = TRUE /\ baseline' = TRUE /\ cursor' = 0
    BY
    DEF AcceptCacheCleared, ResetLost, JobIs, ClearedNow, SameCache, SameWork, pageVars, epochVars,
        handlerVars, chunkVars, edgeVars, cacheVars, linkVars, recvVars, workVars
  <2>2. /\ stage = "open" /\ Elements(up') = Elements(up) /\ Life' /\ Acked'
    BY <2>1, <1>JobLeaves
  <2>3. Once' /\ Behind' /\ Queue' /\ Passing' /\ Confirming' /\ Admits' /\ Greeting'
    BY <2>1, <2>2, <1>OnceFrame, <1>EdgeFrame DEF StreamInv, Greeting
  <2>4. /\ pageRev' = pageRev /\ \A k, b : Current(k, b)' <=> Current(k, b)
        /\ \/ SamePage /\ UNCHANGED <<ready, cursor, pageLast>>
           \/ /\ ready' = TRUE /\ baseline' = TRUE /\ cursor' = 0 /\ pageRev' = 0 /\ pageEnd' = FALSE
              /\ page' = {} /\ pageValue' = Empty /\ pageLast' = 0
    BY <2>1 DEF NoPage, EpochInv, Opened, Current, Body, pageVars, SamePage, SameCache
  <2>5. Typed'
    <3>1. CASE SamePage /\ UNCHANGED <<ready, cursor, pageLast>>
      BY <2>1, <3>1, <1>TypedFrame DEF StreamInv, SameWork
    <3>2. CASE /\ ready' = TRUE /\ baseline' = TRUE /\ cursor' = 0 /\ pageRev' = 0 /\ pageEnd' = FALSE
               /\ page' = {} /\ pageValue' = Empty /\ pageLast' = 0
      BY <2>1, <3>2 DEF StreamInv, Typed, SameCache, SameWork, Empty, Contents
    <3> QED BY <2>4, <3>1, <3>2
  <2>6. Filled'
    BY <2>1, <2>4, <1>FilledFrame DEF StreamInv, Filled
  <2>7. Chunked'
    BY <2>1, <2>4 DEF StreamInv, Chunked, SameWork
  <2>8. Paged'
    <3>1. Pages' = Pages /\ (\A w : IsPage(w)' <=> IsPage(w)) /\ (Overtaken' <=> Overtaken)
      BY <2>1 DEF SameCache, SameWork, Resets, Pages, IsReset, IsPage, Overtaken, Elements
    <3> QED BY <2>1, <2>4, <3>1 DEF StreamInv, Paged, SameCache, SameWork, IsReset
  <2>9. Fragmented' /\ Collecting'
    <3>1. ChunkSent' => ChunkSent
      BY <2>1 DEF ChunkSent, Elements
    <3> QED BY <2>1, <2>2, <2>4, <3>1, <1>FragmentedFrame, <1>CollectingFrame, SMT, Z3
      DEF StreamInv, EpochInv, Opened
  <2> QED BY <2>2, <2>3, <2>5, <2>6, <2>7, <2>8, <2>9 DEF StreamInv
<1>ConfirmIdentityStreams. KeepsStreams(ConfirmIdentity \/ ConfirmLost)
  <2> SUFFICES ASSUME EpochInv, StreamInv, ConfirmIdentity \/ ConfirmLost PROVE StreamInv'
    BY DEF KeepsStreams
  <2> DEFINE m == Head(jobs)
             c == Confirmed(epoch, m.rev, ~baseline \/ pageEnd)
  <2>1. /\ SameCache /\ SameWork /\ current # 0 /\ jobs # <<>> /\ (jobs' = jobs \/ jobs' = Tail(jobs)) /\ m.type = "ack"
        /\ UNCHANGED <<up, epoch, current, conn, stage, unregistered, streams, ready, welcomeEpoch,
                       syncReady, identity>>
        /\ UNCHANGED <<revision, chunkIndex, chunkTotal>>
        /\ \/ UNCHANGED <<pageVars, baseline, down>>
           \/ /\ m.epoch = epoch /\ m.rev = pageRev /\ chunkIndex = chunkTotal /\ NoPage
              /\ baseline' = (baseline /\ ~pageEnd) /\ down' = IF conn = current THEN Append(down, c) ELSE down
    BY
    DEF ConfirmIdentity, ConfirmLost, JobIs, AckStale, AckDue, SendDown, SameCache, SameWork,
        epochVars, handlerVars, chunkVars, edgeVars, cacheVars, linkVars, recvVars, workVars
  <2>2. /\ stage = "open" /\ (conn # current => Idle) /\ m \in Answers
        /\ Elements(up') = Elements(up) /\ Answers' \subseteq Answers /\ Life' /\ Acked'
    BY <2>1, <1>JobLeaves
  <2> HIDE DEF m
  <2>3. Greeting'
    BY <2>1, <2>2 DEF Greeting
  <2>4. CASE UNCHANGED <<pageVars, baseline, down>>
    <3>1. SamePage /\ UNCHANGED <<down, pageLast, pageRev>> /\ (ChunkSent' => ChunkSent)
      BY <2>4 DEF pageVars, SamePage, ChunkSent, Elements
    <3>2. Typed' /\ Filled'
      BY <2>1, <3>1, <1>TypedFrame, <1>FilledFrame DEF StreamInv, SameWork
    <3>3. Once' /\ Behind' /\ Queue' /\ Passing' /\ Confirming' /\ Admits'
      BY <2>1, <3>1, <1>OnceFrame, <1>EdgeFrame DEF StreamInv
    <3>4. Chunked' /\ Paged' /\ Collecting'
      BY <2>1, <3>1, <1>PageFrame, <1>CollectingFrame, SMTT(30), Z3T(30)
      DEF StreamInv, EpochInv, Opened
    <3>5. Fragmented'
      BY <2>1, <2>2, <3>1, <1>FragmentedFrame, SMT, Z3 DEF StreamInv, EpochInv, Opened
    <3> QED BY <2>2, <2>3, <3>2, <3>3, <3>4, <3>5 DEF StreamInv
  <2>5. ASSUME m.epoch = epoch, m.rev = pageRev, chunkIndex = chunkTotal, NoPage, baseline' = (baseline /\ ~pageEnd),
               down' = IF conn = current THEN Append(down, c) ELSE down
        PROVE  StreamInv'
    <3>1. /\ edgeEpoch = epoch /\ epoch \in Nat /\ pageRev \in 1..revision /\ ready /\ (entered => pageRev <= lastRevision)
          /\ (Attached /\ ~failed => entered) /\ (worker # GivenUp => Pages = {})
      BY <2>1, <2>2, <2>5, AckMeansApplied
    <3>2. /\ pageRev' = 0 /\ page' = {} /\ pageValue' = Empty /\ pageLast' = 0 /\ pageEnd' = FALSE
          /\ baseline' \in BOOLEAN /\ (~baseline' => ~baseline \/ pageEnd)
      BY <2>5 DEF NoPage, StreamInv, Typed
    <3>3. Typed'
      BY <2>1, <3>2 DEF StreamInv, Typed, SameCache, SameWork, Empty, Contents
    <3>4. entered => (~baseline \/ pageEnd => ~resetPending) /\ lastRevision # 0
      BY <3>1, SMT, Z3 DEF StreamInv, Filled, Typed, EpochInv, Opened
    <3>5. Filled'
      BY <2>1, <3>2, <3>4 DEF Filled, SameCache
    <3>6. Collecting' /\ Fragmented' /\ (Attached /\ ~failed /\ recvEpoch = epoch => fragments = 0)
      <4>1. Attached /\ ~failed /\ recvEpoch = epoch => fragments = 0
        BY <2>5, SMT, Z3 DEF StreamInv, Collecting, Typed
      <4>2. ~(chunkIndex < chunkTotal) /\ \A k \in Elements(up) : k.type = "chunk_ack" => k.rev # pageRev'
        BY <2>5, <3>2, SMT, Z3 DEF StreamInv, Typed, Fragmented
      <4> QED BY <2>1, <2>2, <3>2, <4>1, <4>2
        DEF StreamInv, Collecting, Fragmented, SameWork, Attached
    <3>7. ~failed => ~ChunkSent /\ worker # GivenUp
      <4>1. ~failed => \A i \in DOMAIN down : down[i].type # "chunk"
        <5>1. ~(chunkIndex < chunkTotal)
          BY <2>5, SMT, Z3 DEF StreamInv, Typed
        <5> QED BY <3>1, <5>1 DEF StreamInv, Passing, Chunked
      <4> QED BY <4>1 DEF ChunkSent, Elements, StreamInv, Queue
    <3>8. c.type = "confirmed" /\ c.epoch = epoch /\ c.complete = (~baseline \/ pageEnd)
      BY DEF Confirmed
    <3> HIDE DEF c
    <3>9. Resets' = Resets /\ Pages' = Pages /\ (\A w : IsPage(w)' <=> IsPage(w)) /\ (Fresh' <=> Fresh)
      BY <2>1 DEF SameCache, SameWork, Resets, Pages, IsReset, IsPage, Fresh, Empty
    <3>10. Paged'
      <4>1. worker # GivenUp => Pages' = {} /\ ~IsPage(buffer')
        BY <2>1, <3>1, <3>9 DEF Pages, IsPage, SameWork
      <4> QED BY <2>1, <4>1 DEF Paged, SameWork, IsPage
    <3>11. CASE conn # current
      <4>1. UNCHANGED down
        BY <2>5, <3>11
      <4>2. Once' /\ Behind' /\ Queue' /\ Passing' /\ Confirming' /\ Admits'
        BY <2>1, <4>1, <1>OnceFrame, <1>EdgeFrame DEF StreamInv
      <4>3. Chunked'
        BY <2>1, <3>7, <4>1 DEF Chunked, ChunkSent, Elements, SameWork
      <4> QED BY <2>2, <2>3, <3>3, <3>5, <3>6, <3>10, <4>2, <4>3 DEF StreamInv
    <3>12. CASE conn = current
      <4>1. PICK n \in Nat : /\ DOMAIN down' = DOMAIN down \cup {n} /\ down'[n] = c
                             /\ \A i \in DOMAIN down : i \in Nat /\ i < n /\ down'[i] = down[i]
        BY <2>5, <3>12, DownGrows DEF EpochInv
      <4>2. Elements(down') = Elements(down) \cup {c} /\ \A i \in DOMAIN down : down[i] \in Elements(down)
        BY <2>5, <3>12, DownGrows DEF EpochInv, Elements
      <4>3. Overtaken' <=> Overtaken
        BY <2>1, <3>8, <3>9, <4>2 DEF Overtaken, SameCache
      <4>4. Once'
        BY <2>1, <3>8, <3>9, <4>1, <4>2 DEF StreamInv, Once, SameCache, SameWork, IsReset
      <4>5. Behind' /\ Queue' /\ Admits'
        BY <2>1, <3>9, <4>3
        DEF StreamInv, Behind, Queue, Admits, SameCache, SameWork, IsReset, IsPage, Live
      <4>6. Passing'
        <5>1. UNCHANGED <<edgeEpoch, failed>> /\ (~failed => Pages = {}) /\ c.type # "welcome" /\ c.epoch = edgeEpoch
          BY <2>1, <3>1, <3>7, <3>8 DEF SameCache, SameWork
        <5> QED BY <2>5, <3>1, <3>9, <3>12, <5>1, LeftIsOlder, <1>PassingGrows DEF StreamInv
      <4>7. ~failed => \A i \in DOMAIN down' : down'[i].type # "chunk"
        BY <3>7, <3>8, <4>1, <4>2 DEF ChunkSent
      <4>8. Chunked'
        BY <2>1, <4>7 DEF Chunked, SameWork
      <4>9. Confirming'
        <5>1. ~failed => entered /\ lastRevision # 0 /\ (c.complete => ~resetPending) /\ (recvEpoch = epoch => fragments = 0)
          BY <2>1, <3>1, <3>4, <3>6, <3>8, <3>12 DEF Attached
        <5> QED BY <2>1, <3>8, <4>1, <4>7, <5>1 DEF StreamInv, Confirming, SameCache, SameWork
      <4> QED BY <2>2, <2>3, <3>3, <3>5, <3>6, <3>10, <4>4, <4>5, <4>6, <4>8, <4>9 DEF StreamInv
    <3> QED BY <3>11, <3>12
  <2> QED BY <2>1, <2>4, <2>5
\* Nothing is under way at an edge between two streams.
<1>Apart.
    ASSUME EpochInv, StreamInv, Idle', failed' \in BOOLEAN, ~Attached', ~syncReady', ~Live' \/ recvEpoch' = 0,
           UNCHANGED <<edgeEpoch, epoch, current, ready, stage, welcomeEpoch, revision, up, jobs>>
    PROVE  /\ Behind' /\ Greeting' /\ Once' /\ Queue' /\ Passing' /\ Chunked' /\ Paged' /\ Acked' /\ Fragmented'
           /\ Collecting' /\ Confirming' /\ Filled' /\ Admits'
  <2> USE <1>Apart
  <2>1. /\ down' = <<>> /\ Elements(down') = {} /\ DOMAIN down' = {} /\ buffer' = None /\ worker' = None /\ ~entered'
        /\ Resets' = {} /\ Pages' = {}
    BY EmptyFacts, SMT, Z3 DEF Idle, Resets, Pages, IsReset, IsPage
  <2>2. GivenUp # None
    BY JobsAreSomething
  <2>3. Behind' /\ Queue' /\ Passing' /\ Chunked' /\ Paged' /\ Confirming' /\ Filled' /\ Admits' /\ Collecting'
    BY <2>1, <2>2
    DEF Behind, Overtaken, Queue, Passing, Chunked, Paged, Confirming, Filled, Admits, Collecting,
        IsReset, IsPage
  <2>4. Greeting' /\ Once'
    BY <2>1 DEF StreamInv, Greeting, Once, Attached, IsReset, ChunkSent
  <2>5. Acked' /\ Fragmented'
    <3>1. Elements(up') = Elements(up) /\ Answers' = Answers
      BY DEF Answers, Elements
    <3> QED BY <2>1, <3>1 DEF StreamInv, Acked, Fragmented
  <2> QED BY <2>3, <2>4, <2>5
<1>LeaveStreams. KeepsStreams(Join \/ Crash \/ Discard)
  <2> SUFFICES ASSUME EpochInv, StreamInv, Join \/ Crash \/ Discard PROVE StreamInv'
    BY DEF KeepsStreams
  <2>1. /\ UNCHANGED <<edgeEpoch, epoch, current, ready, stage, welcomeEpoch, revision, up, jobs,
                       streams, unregistered>>
        /\ SamePage /\ UNCHANGED <<pageLast, identity, chunkIndex, chunkTotal, fragments>>
        /\ phase' \in {"down", "idle"}
        /\ UNCHANGED <<cache, lastRevision>> \/ (cache' = Empty /\ lastRevision' = 0)
    BY
    DEF Join, Crash, Discard, ConnectionGone, ClearCache, SamePage, ctlVars, indexVars, pageVars,
        epochVars, handlerVars, chunkVars, linkVars, recvVars, workVars
  <2>2. Idle' /\ conn' = 0 /\ ~syncReady' /\ failed' \in BOOLEAN
    <3>1. CASE Join \/ Crash
      BY <3>1 DEF Join, Crash, ConnectionGone, Idle
    <3>2. CASE Discard
      <4>1. ~Live /\ UNCHANGED <<entered, conn, recvVars, workVars, down>>
        BY <3>2 DEF Discard, Live
      <4> QED BY <4>1 DEF StreamInv, Life, Idle, Queue, EpochInv, Admitting, recvVars, workVars
    <3> QED BY <3>1, <3>2
  <2>3. ~Live' /\ ~Attached'
    BY <2>1, <2>2 DEF Live, Attached
  <2>4. /\ Behind' /\ Greeting' /\ Once' /\ Queue' /\ Passing' /\ Chunked' /\ Paged' /\ Acked' /\ Fragmented'
        /\ Collecting' /\ Confirming' /\ Filled' /\ Admits'
    BY <2>1, <2>2, <2>3, <1>Apart
  <2>5. Typed'
    BY <2>1, SMTT(30), Z3T(30) DEF StreamInv, Typed, SamePage, Empty, Contents, EpochInv, Opened
  <2>6. Life'
    BY <2>1, <2>2, <2>3, SMT, Z3 DEF StreamInv, Life, Superseded
  <2> QED BY <2>4, <2>5, <2>6 DEF StreamInv
<1>ConnectStreams. KeepsStreams(Connect)
  <2> SUFFICES ASSUME EpochInv, StreamInv, Connect PROVE StreamInv'
    BY DEF KeepsStreams
  <2>1. /\ UNCHANGED <<edgeEpoch, epoch, current, ready, stage, welcomeEpoch, revision, up, jobs,
                       failed, syncReady>>
        /\ SamePage /\ UNCHANGED <<pageLast, identity, chunkIndex, chunkTotal, cache, lastRevision,
                                   buffer, worker, entered>>
        /\ phase = "idle" /\ phase' = "up" /\ streams' = streams + 1 /\ conn' = streams + 1 /\ down' = <<>>
        /\ recvEpoch' = 0 /\ fragments' = 0 /\ unregistered' = unregistered \cup {streams + 1}
    BY DEF Connect, SamePage, indexVars, pageVars, epochVars, chunkVars, cacheVars
  <2>2. ~Live /\ Idle /\ streams \in Nat /\ current \in 0..streams
    BY <2>1 DEF StreamInv, Life, Live
  <2>3. Idle' /\ ~syncReady' /\ failed' \in BOOLEAN /\ Live' /\ ~Attached'
    BY <2>1, <2>2, SMT, Z3 DEF Idle, EpochInv, Admitting, StreamInv, Queue, Live, Attached
  <2>4. /\ Behind' /\ Greeting' /\ Once' /\ Queue' /\ Passing' /\ Chunked' /\ Paged' /\ Acked' /\ Fragmented'
        /\ Collecting' /\ Confirming' /\ Filled' /\ Admits'
    BY <2>1, <2>3, <1>Apart
  <2>5. Typed'
    BY <2>1 DEF StreamInv, Typed, SamePage, Empty
  <2>6. Life'
    BY <2>1, <2>2, <2>3, SMT, Z3 DEF StreamInv, Life, Superseded
  <2> QED BY <2>4, <2>5, <2>6 DEF StreamInv
<1>FenceStreams. KeepsStreams(Fence)
  <2> SUFFICES ASSUME EpochInv, StreamInv, Fence PROVE StreamInv'
    BY DEF KeepsStreams
  <2>1. /\ SameCache /\ SamePage /\ UNCHANGED <<buffer, worker, failed, recvEpoch, fragments, down,
                                                up, jobs, epoch, ready>>
        /\ UNCHANGED <<current, conn, stage, unregistered, streams, welcomeEpoch, revision, identity,
                       chunkIndex, chunkTotal, pageLast>>
        /\ syncReady' = FALSE /\ Live /\ Live'
    BY
    DEF Fence, SameCache, SamePage, Live, ctlVars, indexVars, pageVars, epochVars, handlerVars,
        chunkVars, cacheVars, workVars
  <2>2. Typed' /\ Filled' /\ Admits'
    BY <2>1, <1>TypedFrame, <1>FilledFrame DEF StreamInv, Admits
  <2>3. Life'
    BY <2>1 DEF StreamInv, Life, SameCache, Idle, Attached, Superseded
  <2>4. /\ Resets' = Resets /\ Pages' = Pages /\ Elements(down') = Elements(down) /\ Answers' = Answers
        /\ Elements(up') = Elements(up) /\ (\A w : IsPage(w)' <=> IsPage(w)) /\ (\A w : IsReset(w)' <=> IsReset(w))
        /\ (Overtaken' <=> Overtaken) /\ (ChunkSent' <=> ChunkSent) /\ (Fresh' <=> Fresh) /\ (Attached' <=> Attached)
        /\ \A k, b : Current(k, b)' <=> Current(k, b)
    BY <2>1
    DEF SameCache, SamePage, Resets, Pages, IsReset, IsPage, Overtaken, Elements, Answers,
        ChunkSent, Fresh, Empty, Attached, Current, Body
  <2>5. Behind' /\ Greeting' /\ Queue'
    BY <2>1, <2>4 DEF StreamInv, Behind, Greeting, Queue, SameCache
  <2>6. Once'
    BY <2>1, <2>4 DEF StreamInv, Once, SameCache
  <2>7. Passing'
    BY <2>1, <2>4 DEF StreamInv, Passing, SameCache
  <2>8. Chunked' /\ Paged' /\ Confirming'
    BY <2>1, <2>4 DEF StreamInv, Chunked, Paged, Confirming, SameCache
  <2>9. Acked' /\ Fragmented' /\ Collecting'
    BY <2>1, <2>4 DEF StreamInv, Acked, Fragmented, Collecting, SameCache, SamePage
  <2> QED BY <2>2, <2>3, <2>5, <2>6, <2>7, <2>8, <2>9 DEF StreamInv
\* What holds of the places in the stream holds when its head is gone.
<1>Shrinks.
    ASSUME EpochInv, StreamInv, ~failed, down # <<>>, down' = Tail(down)
    PROVE  /\ \A i, j \in DOMAIN down' : down'[i].type = "welcome" /\ down'[i].epoch = epoch
                                        /\ down'[j].type = "welcome" /\ down'[j].epoch = epoch => i = j
           /\ \A i, j \in DOMAIN down' : down'[i].type # "welcome" /\ down'[j].type = "welcome" =>
                (j < i => down'[j].epoch < edgeEpoch) /\ (i < j => edgeEpoch < down'[j].epoch)
           /\ \A i, j \in DOMAIN down' : down'[i].type = "chunk" /\ down'[j].type = "chunk" => j = i
           /\ \A i, j \in DOMAIN down' : down'[i].type = "confirmed" /\ down'[j].type = "chunk" => i < j
           /\ \A i \in DOMAIN down' : \E k \in DOMAIN down : down'[i] = down[k]
  <2> USE <1>Shrinks
  <2>1. \A i \in DOMAIN down' : i \in Nat /\ i + 1 \in DOMAIN down /\ down'[i] = down[i + 1]
    BY DownShrinks DEF EpochInv
  <2>2. \A i, j \in Nat : (i + 1 = j + 1 => i = j) /\ (i + 1 < j + 1 <=> i < j)
    BY SMT, Z3
  <2>3. ASSUME NEW i \in DOMAIN down', NEW j \in DOMAIN down', down'[i].type = "welcome", down'[i].epoch = epoch,
               down'[j].type = "welcome", down'[j].epoch = epoch
        PROVE  i = j
    <3>1. i + 1 = j + 1
      BY <2>1, <2>3 DEF StreamInv, Once
    <3> QED BY <2>1, <2>2, <3>1
  <2>4. ASSUME NEW i \in DOMAIN down', NEW j \in DOMAIN down', down'[i].type # "welcome", down'[j].type = "welcome"
        PROVE  (j < i => down'[j].epoch < edgeEpoch) /\ (i < j => edgeEpoch < down'[j].epoch)
    <3>1. (j + 1 < i + 1 => down[j + 1].epoch < edgeEpoch) /\ (i + 1 < j + 1 => edgeEpoch < down[j + 1].epoch)
      BY <2>1, <2>4 DEF StreamInv, Passing
    <3> QED BY <2>1, <2>2, <3>1
  <2>5. ASSUME NEW i \in DOMAIN down', NEW j \in DOMAIN down', down'[i].type = "chunk", down'[j].type = "chunk"
        PROVE  j = i
    <3>1. j + 1 = i + 1
      BY <2>1, <2>5 DEF StreamInv, Chunked
    <3> QED BY <2>1, <2>2, <3>1
  <2>6. ASSUME NEW i \in DOMAIN down', NEW j \in DOMAIN down', down'[i].type = "confirmed", down'[j].type = "chunk"
        PROVE  i < j
    <3>1. i + 1 < j + 1
      BY <2>1, <2>6 DEF StreamInv, Confirming
    <3> QED BY <2>1, <2>2, <3>1
  <2> QED BY <2>1, <2>3, <2>4, <2>5, <2>6
<1>RecvWelcomeStreams. KeepsStreams(RecvWelcome)
  <2> SUFFICES ASSUME EpochInv, StreamInv, RecvWelcome PROVE StreamInv'
    BY DEF KeepsStreams
  <2> DEFINE m == Head(down)
             job == [type |-> "reset", epoch |-> m.epoch]
  <2>1. /\ SameCache /\ SamePage /\ UNCHANGED <<worker, phase, up, jobs, epoch, current, conn, stage,
                                                unregistered, streams>>
        /\ UNCHANGED <<ready, welcomeEpoch, revision, identity, chunkIndex, chunkTotal, pageLast>>
        /\ Live /\ ~failed /\ down # <<>> /\ m.type = "welcome" /\ down' = Tail(down)
        /\ recvEpoch' = m.epoch /\ fragments' = 0 /\ syncReady' = FALSE
        /\ \/ buffer = None /\ buffer' = job /\ failed' = FALSE
           \/ buffer' = buffer /\ failed' = TRUE
    BY
    DEF RecvWelcome, Arrives, QueueApply, SameCache, SamePage, ctlVars, indexVars, pageVars,
        epochVars, handlerVars, chunkVars, cacheVars, linkVars
  <2>2. /\ m \in Elements(down) /\ Elements(down') \subseteq Elements(down) /\ 1 \in DOMAIN down /\ m = down[1]
        /\ \A i \in DOMAIN down' : i \in Nat /\ 0 < i /\ i + 1 \in DOMAIN down /\ down'[i] = down[i + 1]
    BY <2>1, DownShrinks DEF EpochInv
  <2>3. m.epoch \in Nat
    BY <2>2, SMT, Z3 DEF EpochInv, Ordered
  <2>4. job # None /\ job.type = "reset" /\ job.epoch = m.epoch
    BY <2>3, JobsAreSomething
  <2> HIDE DEF m, job
  <2>5. /\ Pages' = Pages /\ Resets' \subseteq Resets \cup {job} /\ (~failed' => Resets' = Resets \cup {job})
        /\ ~IsPage(job) /\ IsReset(job)
    <3>1. ~IsPage(job) /\ IsReset(job) /\ ~IsPage(None) /\ ~IsReset(None)
      BY <2>4 DEF IsPage, IsReset
    <3>2. CASE buffer = None /\ buffer' = job
      BY <2>1, <3>1, <3>2 DEF Pages, Resets, IsPage, IsReset
    <3>3. CASE buffer' = buffer /\ failed' = TRUE
      BY <2>1, <3>1, <3>3 DEF Pages, Resets, IsPage, IsReset
    <3> QED BY <2>1, <3>2, <3>3
  <2>6. Typed' /\ Filled' /\ Admits'
    BY <2>1, <1>FilledFrame DEF StreamInv, Typed, SameCache, SamePage, Empty, Admits
  <2>7. Life'
    <3>1. ~Idle
      BY <2>1 DEF Idle
    <3> QED BY <2>1, <3>1 DEF StreamInv, Life, Attached, Superseded, Live
  <2>8. /\ (Overtaken' => Overtaken) /\ (Fresh' <=> Fresh) /\ (ChunkSent' => ChunkSent)
        /\ Answers' = Answers /\ Elements(up') = Elements(up) /\ \A k, b : Current(k, b)' <=> Current(k, b)
    BY <2>1, <2>2, <2>4, <2>5
    DEF Overtaken, SameCache, SamePage, Fresh, Empty, ChunkSent, Answers, Elements, Current, Body
  <2>9. Behind' /\ Greeting'
    BY <2>1, <2>2, <2>4, <2>5, <2>8 DEF StreamInv, Behind, Greeting, SameCache
  <2>10. Paged'
    BY <2>1, <2>5, <2>8 DEF StreamInv, Paged, SameCache, IsPage, IsReset
  <2>11. Acked' /\ Fragmented' /\ Collecting'
    BY <2>1, <2>5, <2>8 DEF StreamInv, Acked, Fragmented, Collecting, Attached, SameCache, SamePage
  <2>12. Queue'
    BY <2>1, <2>4, <2>5 DEF StreamInv, Queue, IsPage, IsReset, Live
  <2>13. Once'
    <3>1. \A i, j \in DOMAIN down' :
            down'[i].type = "welcome" /\ down'[i].epoch = epoch /\ down'[j].type = "welcome" /\ down'[j].epoch = epoch => i = j
      BY <2>1, <1>Shrinks DEF StreamInv, Once, m
    <3>2. m.epoch = epoch => /\ edgeEpoch < epoch /\ \A w \in Resets : w.epoch # epoch
                             /\ \A k \in Elements(down') : ~(k.type = "welcome" /\ k.epoch = epoch)
      <4>1. ASSUME m.epoch = epoch, NEW i \in DOMAIN down', down'[i].type = "welcome", down'[i].epoch = epoch PROVE FALSE
        <5>1. i + 1 = 1
          BY <2>1, <2>2, <4>1 DEF StreamInv, Once
        <5> QED BY <2>2, <5>1, SMT, Z3
      <4>2. m.epoch = epoch => \A k \in Elements(down') : ~(k.type = "welcome" /\ k.epoch = epoch)
        BY <4>1 DEF Elements
      <4> QED BY <2>1, <2>2, <4>2 DEF StreamInv, Once
    <3>3. \A w \in Resets' : w.epoch = epoch =>
            edgeEpoch < epoch /\ \A k \in Elements(down') : ~(k.type = "welcome" /\ k.epoch = epoch)
      BY <2>2, <2>4, <2>5, <3>2 DEF StreamInv, Once
    <3>4. IsReset(buffer') /\ IsReset(worker') => ~(buffer'.epoch = epoch /\ worker'.epoch = epoch)
      BY <2>1, <2>4, <3>2 DEF StreamInv, Once, IsReset, Resets
    <3> QED BY <2>1, <2>2, <3>1, <3>3, <3>4 DEF StreamInv, Once, SameCache, IsReset
  <2>14. Passing'
    <3>1. ASSUME ~failed', NEW i \in DOMAIN down', down'[i].type # "welcome"
          PROVE  down'[i].epoch = edgeEpoch /\ Pages = {} /\ (\A w \in Resets : w.epoch < edgeEpoch) /\ m.epoch < edgeEpoch
      <4>1. i + 1 \in DOMAIN down /\ down'[i] = down[i + 1] /\ 1 < i + 1
        BY <2>2, SMT, Z3
      <4> QED BY <2>1, <2>2, <3>1, <4>1 DEF StreamInv, Passing
    <3> QED BY <2>1, <2>4, <2>5, <3>1, <1>Shrinks DEF Passing, SameCache
  <2>15. Chunked'
    BY <2>1, <2>8, <1>Shrinks DEF StreamInv, Chunked
  <2>16. Confirming'
    BY <2>1, <1>Shrinks DEF StreamInv, Confirming, SameCache
  <2> QED BY <2>6, <2>7, <2>9, <2>10, <2>11, <2>12, <2>13, <2>14, <2>15, <2>16 DEF StreamInv
<1>RecvChunkStreams. KeepsStreams(RecvChunk)
  <2> SUFFICES ASSUME EpochInv, StreamInv, RecvChunk PROVE StreamInv'
    BY DEF KeepsStreams
  <2> DEFINE m == Head(down)
             ack == ChunkAck(m.epoch, m.rev, m.index)
             job == [type |-> "page", epoch |-> m.epoch, rev |-> m.rev, body |-> m.body]
  <2>1. /\ SameCache /\ SamePage /\ UNCHANGED <<worker, phase, jobs, epoch, current, conn, stage,
                                                unregistered, streams, recvEpoch>>
        /\ UNCHANGED <<ready, welcomeEpoch, revision, identity, chunkIndex, chunkTotal, pageLast>>
        /\ Live /\ ~failed /\ down # <<>> /\ m.type = "chunk" /\ down' = Tail(down)
        /\ syncReady' => syncReady /\ ~(m.epoch = recvEpoch /\ m.index = 0)
    BY
    DEF RecvChunk, Arrives, SameCache, SamePage, ctlVars, indexVars, pageVars, epochVars,
        handlerVars, chunkVars, cacheVars, linkVars
  <2>2. \/ failed' = TRUE /\ UNCHANGED <<fragments, buffer, up>>
        \/ /\ m.epoch = recvEpoch /\ m.index = fragments /\ up' = IF conn = current THEN Append(up, ack) ELSE up
           /\ \/ m.index + 1 # m.total /\ fragments' = fragments + 1 /\ UNCHANGED <<failed, buffer>>
              \/ /\ m.index + 1 = m.total /\ fragments' = 0
                 /\ \/ buffer = None /\ buffer' = job /\ failed' = FALSE
                    \/ buffer' = buffer /\ failed' = TRUE
    BY DEF RecvChunk, ChunkFits, FragmentsAfter, QueueApply, SendUp
  <2>3. /\ m \in Elements(down) /\ Elements(down') \subseteq Elements(down) /\ 1 \in DOMAIN down /\ m = down[1]
        /\ \A i \in DOMAIN down' : i \in Nat /\ 0 < i /\ i + 1 \in DOMAIN down /\ down'[i] = down[i + 1]
    BY <2>1, DownShrinks DEF EpochInv
  <2>4. /\ m.epoch = edgeEpoch /\ Pages = {} /\ (\A w \in Resets : w.epoch < edgeEpoch) /\ edgeEpoch \in Nat \ {0}
        /\ m.rev \in 1..revision /\ m.body \in Bodies /\ m.rev \in Nat /\ revision \in Nat
        /\ m.epoch = epoch => /\ Current(m.rev, m.body) /\ m.index = chunkIndex /\ chunkIndex < chunkTotal /\ m.total = chunkTotal
    <3>1. m.epoch = edgeEpoch /\ Pages = {} /\ (\A w \in Resets : w.epoch < edgeEpoch)
      BY <2>1, <2>3 DEF StreamInv, Passing
    <3>2. /\ m.rev \in 1..revision /\ m.body \in Bodies
          /\ m.epoch = epoch => /\ Current(m.rev, m.body) /\ m.index = chunkIndex /\ chunkIndex < chunkTotal /\ m.total = chunkTotal
      BY <2>1, <2>3 DEF StreamInv, Chunked
    <3>3. revision \in Nat /\ m.epoch \in 1..epoch /\ edgeEpoch \in 0..epoch /\ epoch \in Nat
      BY <2>3 DEF EpochInv, Opened, Epochs, Ordered
    <3> QED BY <3>1, <3>2, <3>3, GivenOut
  <2>5. \A i \in DOMAIN down' : down'[i].type = "welcome" /\ edgeEpoch < down'[i].epoch
    <3>1. SUFFICES ASSUME NEW i \in DOMAIN down' PROVE down'[i].type = "welcome" /\ edgeEpoch < down'[i].epoch
      OBVIOUS
    <3>2. i + 1 \in DOMAIN down /\ 1 < i + 1 /\ ~(i + 1 < 1) /\ i + 1 # 1 /\ down'[i] = down[i + 1] /\ down[i + 1] \in Elements(down)
      BY <2>3, SMT, Z3 DEF Elements
    <3>3. down[i + 1].type # "chunk"
      BY <2>1, <2>3, <3>2 DEF StreamInv, Chunked
    <3>4. down[i + 1].type # "confirmed"
      BY <2>1, <2>3, <3>2 DEF StreamInv, Confirming
    <3>5. down[i + 1].type = "welcome"
      BY <3>2, <3>3, <3>4 DEF EpochInv, Ordered
    <3> QED BY <2>1, <2>3, <3>2, <3>5 DEF StreamInv, Passing
  <2>6. \A k \in Elements(down') : k.type = "welcome" /\ edgeEpoch < k.epoch
    BY <2>5 DEF Elements
  <2>7. ack.type = "chunk_ack" /\ ack.epoch = m.epoch /\ ack.rev = m.rev /\ ack.index = m.index
    BY DEF ChunkAck
  <2>8. job # None /\ job.type = "page" /\ job.epoch = m.epoch /\ job.rev = m.rev /\ job.body = m.body
    <3>1. m.epoch \in Nat
      BY <2>4
    <3> QED BY <2>4, <3>1, JobsAreSomething
  <2> HIDE DEF m, ack, job
  <2>9. Resets' = Resets /\ IsPage(job) /\ ~IsReset(job) /\ ~IsPage(buffer) /\ ~IsPage(worker)
    <3>1. IsPage(job) /\ ~IsReset(job) /\ ~IsPage(buffer) /\ ~IsPage(worker) /\ ~IsReset(None)
      BY <2>4, <2>8 DEF Pages, IsPage, IsReset
    <3>2. buffer' = buffer \/ (buffer = None /\ buffer' = job)
      BY <2>2
    <3> QED BY <2>1, <3>1, <3>2 DEF Resets, IsReset
  <2>10. ChunkSent /\ ~ChunkSent'
    BY <2>1, <2>3, <2>6 DEF ChunkSent
  <2>11. /\ (Overtaken' => Overtaken) /\ (Fresh' <=> Fresh) /\ (\A k, b : Current(k, b)' <=> Current(k, b))
         /\ Elements(up') \subseteq Elements(up) \cup {ack} /\ Answers' \subseteq Answers \cup {ack}
    <3>1. (Overtaken' => Overtaken) /\ (Fresh' <=> Fresh) /\ (\A k, b : Current(k, b)' <=> Current(k, b))
      BY <2>1, <2>3, <2>9 DEF Overtaken, SameCache, SamePage, Fresh, Empty, Current, Body
    <3>2. up' = up \/ up' = Append(up, ack)
      BY <2>2
    <3> QED BY <2>1, <3>1, <3>2, UpGrows DEF EpochInv
  <2>12. Typed' /\ Filled'
    <3>1. fragments' \in Nat
      BY <2>2, SMT, Z3 DEF StreamInv, Typed
    <3> QED BY <2>1, <3>1, <1>FilledFrame DEF StreamInv, Typed, SameCache, SamePage, Empty
  <2>13. Life' /\ Greeting'
    <3>1. ~Idle
      BY <2>1 DEF Idle
    <3>2. Life'
      BY <2>1, <2>2, <3>1 DEF StreamInv, Life, Attached, Superseded, Live
    <3>3. Greeting'
      BY <2>1, <2>3, <2>9, <2>10, <2>11 DEF StreamInv, Greeting, SameCache
    <3> QED BY <3>2, <3>3
  <2>14. Behind' /\ Queue' /\ Admits'
    <3>1. Behind'
      BY <2>1, <2>11 DEF StreamInv, Behind, SameCache
    <3>2. Queue'
      BY <2>1, <2>2, <2>8, <2>9 DEF StreamInv, Queue, SameCache, Live, IsPage, IsReset
    <3>3. Admits'
      BY <2>1, <2>2 DEF StreamInv, Admits, SameCache
    <3> QED BY <3>1, <3>2, <3>3
  <2>15. Once'
    <3>1. IsReset(buffer') => buffer' = buffer
      BY <2>2, <2>9
    <3> QED BY <2>1, <2>3, <2>9, <3>1, <1>Shrinks DEF StreamInv, Once, SameCache, IsReset
  <2>16. Passing' /\ Chunked' /\ Confirming'
    BY <2>5 DEF Passing, Chunked, Confirming
  <2>17. Acked'
    BY <2>1, <2>7, <2>11 DEF StreamInv, Acked, SameCache, Attached
  <2>18. Fragmented'
    <3>1. SUFFICES ASSUME NEW k \in Elements(up'), k.type = "chunk_ack"
                   PROVE  /\ k.rev \in 1..revision
                          /\ Attached /\ ~failed' /\ k.epoch = epoch /\ k.rev = pageRev =>
                               /\ k.index <= chunkIndex /\ k.index \in Nat
                               /\ k.index = chunkIndex =>
                                    /\ ~ChunkSent' /\ (recvEpoch = epoch => fragments' \in {0, chunkIndex + 1})
                                    /\ chunkIndex + 1 < chunkTotal => Pages' = {} /\ lastRevision < pageRev
      BY <2>1 DEF Fragmented, SameCache, SamePage, Attached
    <3>2. CASE k \in Elements(up)
      BY <2>1, <2>10, <3>1, <3>2 DEF StreamInv, Fragmented
    <3>3. CASE k = ack
      <4>1. ~failed' /\ chunkIndex + 1 < chunkTotal /\ m.epoch = epoch => buffer' = buffer
        BY <2>2, <2>4, SMT, Z3 DEF StreamInv, Typed
      <4>2. buffer' = buffer => Pages' = {}
        BY <2>1, <2>9 DEF Pages, IsPage
      <4>3. ~failed' => fragments' \in {0, m.index + 1}
        BY <2>2
      <4> QED BY <2>4, <2>7, <2>10, <3>3, <4>1, <4>2, <4>3, SMTT(30), Z3T(30)
        DEF StreamInv, Typed, Current
    <3> QED BY <2>11, <3>2, <3>3
  <2>19. Collecting'
    <3>1. ASSUME ~failed', recvEpoch = epoch, fragments' # 0 PROVE pageRev # 0 /\ chunkIndex <= fragments' /\ fragments' < chunkTotal
      <4>1. m.epoch = epoch /\ m.index = fragments /\ fragments' = fragments + 1 /\ m.index + 1 # m.total
        BY <2>2, <3>1
      <4> QED BY <2>4, <4>1, SMT, Z3 DEF StreamInv, Typed, Current
    <3> QED BY <2>1, <3>1 DEF Collecting, SamePage, Attached
  <2>20. Paged'
    <3>1. CASE buffer' = buffer
      <4>1. Pages' = {} /\ ~IsPage(buffer')
        BY <2>1, <2>9, <3>1 DEF Pages, IsPage
      <4> QED BY <4>1 DEF Paged, IsPage
    <3>2. CASE buffer = None /\ buffer' = job /\ m.epoch = recvEpoch
      <4>1. worker = None /\ entered
        <5>1. ~IsReset(worker)
          BY <2>1, <2>4, <3>2, SMT, Z3 DEF StreamInv, Queue, Resets, IsReset
        <5> QED BY <2>1, <2>4, <2>9, <3>2, <5>1 DEF StreamInv, Queue
      <4>2. Pages' = {job} /\ Resets' = {}
        BY <2>1, <2>9, <3>2, <4>1 DEF Pages, Resets, IsPage, IsReset
      <4>3. ~Overtaken'
        <5>1. \A k \in Elements(down') : ~(k.epoch <= edgeEpoch)
          <6>1. ASSUME NEW k \in Elements(down') PROVE ~(k.epoch <= edgeEpoch)
            <7>1. edgeEpoch < k.epoch /\ k.epoch \in 1..epoch /\ epoch \in Nat
              BY <2>3, <2>6 DEF EpochInv, Ordered, Epochs
            <7> QED BY <2>4, <7>1, SMT, Z3
          <6> QED BY <6>1
        <5> QED BY <2>1, <4>2, <5>1 DEF Overtaken, SameCache
      <4>4. ~IsPage(worker') /\ ~IsReset(worker')
        BY <2>1, <4>1 DEF IsPage, IsReset
      <4> QED BY <2>1, <2>4, <2>8, <2>11, <4>1, <4>2, <4>3, <4>4
        DEF Paged, SameCache, IsPage, IsReset
    <3> QED BY <2>2, <3>1, <3>2
  <2> QED BY <2>12, <2>13, <2>14, <2>15, <2>16, <2>17, <2>18, <2>19, <2>20 DEF StreamInv
<1>RecvConfirmedStreams. KeepsStreams(RecvConfirmed)
  <2> SUFFICES ASSUME EpochInv, StreamInv, RecvConfirmed PROVE StreamInv'
    BY DEF KeepsStreams
  <2> DEFINE m == Head(down)
  <2>1. /\ SameCache /\ SamePage /\ UNCHANGED <<buffer, worker, recvEpoch, fragments, phase, up,
                                                jobs, epoch, current, conn, stage>>
        /\ UNCHANGED <<unregistered, streams, ready, welcomeEpoch, revision, identity, chunkIndex,
                       chunkTotal, pageLast>>
        /\ Live /\ ~failed /\ down # <<>> /\ m.type = "confirmed" /\ down' = Tail(down) /\ failed' \in BOOLEAN
        /\ syncReady' => syncReady \/ (m.epoch = recvEpoch /\ m.complete)
    BY
    DEF RecvConfirmed, Arrives, ConfirmedFits, SameCache, SamePage, ctlVars, indexVars, pageVars,
        epochVars, handlerVars, chunkVars, cacheVars, linkVars, workVars
  <2>2. /\ m \in Elements(down) /\ Elements(down') \subseteq Elements(down) /\ 1 \in DOMAIN down /\ m = down[1]
        /\ \A i \in DOMAIN down' : i \in Nat /\ 0 < i /\ i + 1 \in DOMAIN down /\ down'[i] = down[i + 1]
    BY <2>1, DownShrinks DEF EpochInv
  <2> HIDE DEF m
  <2>4. /\ Resets' = Resets /\ Pages' = Pages /\ (\A w : IsPage(w)' <=> IsPage(w)) /\ (\A w : IsReset(w)' <=> IsReset(w))
        /\ (Overtaken' => Overtaken) /\ (ChunkSent' => ChunkSent) /\ (Fresh' <=> Fresh) /\ (Attached' <=> Attached)
        /\ Answers' = Answers /\ Elements(up') = Elements(up) /\ \A k, b : Current(k, b)' <=> Current(k, b)
    BY <2>1, <2>2
    DEF SameCache, SamePage, Resets, Pages, IsReset, IsPage, Overtaken, Elements, Answers,
        ChunkSent, Fresh, Empty, Attached, Current, Body
  <2>5. Typed' /\ Filled'
    BY <2>1, <1>TypedFrame, <1>FilledFrame DEF StreamInv
  <2>6. Life'
    <3>1. ~Idle
      BY <2>1 DEF Idle
    <3> QED BY <2>1, <3>1 DEF StreamInv, Life, Attached, Superseded, Live
  <2>7. Behind' /\ Greeting' /\ Queue'
    BY <2>1, <2>2, <2>4 DEF StreamInv, Behind, Greeting, Queue, SameCache, Live
  <2>8. Once'
    BY <2>1, <2>2, <2>4, <1>Shrinks DEF StreamInv, Once, SameCache
  <2>9. Passing' /\ Chunked' /\ Confirming'
    <3>1. Passing'
      <4>1. ASSUME NEW i \in DOMAIN down', down'[i].type # "welcome"
            PROVE  down'[i].epoch = edgeEpoch /\ Pages = {} /\ (\A w \in Resets : w.epoch < edgeEpoch)
        BY <2>1, <2>2, <4>1 DEF StreamInv, Passing
      <4> QED BY <2>1, <2>4, <4>1, <1>Shrinks DEF Passing, SameCache
    <3>2. Chunked'
      <4>1. ASSUME NEW i \in DOMAIN down', down'[i].type = "chunk"
            PROVE  /\ down'[i].rev \in 1..revision /\ down'[i].body \in Bodies
                   /\ down'[i].epoch = epoch =>
                        /\ Current(down'[i].rev, down'[i].body)
                        /\ down'[i].index = chunkIndex /\ chunkIndex < chunkTotal /\ down'[i].total = chunkTotal
        <5>1. PICK k \in DOMAIN down : down'[i] = down[k]
          BY <2>2
        <5>2. down[k].type = "chunk"
          BY <4>1, <5>1
        <5>3. /\ down[k].rev \in 1..revision /\ down[k].body \in Bodies
              /\ down[k].epoch = epoch =>
                   /\ Current(down[k].rev, down[k].body)
                   /\ down[k].index = chunkIndex /\ chunkIndex < chunkTotal /\ down[k].total = chunkTotal
          BY <2>1, <5>2 DEF StreamInv, Chunked
        <5> QED BY <5>1, <5>3
      <4> QED BY <2>1, <2>4, <4>1, <1>Shrinks DEF Chunked
    <3>3. Confirming'
      <4>1. ASSUME NEW i \in DOMAIN down', down'[i].type = "confirmed"
            PROVE  /\ entered /\ lastRevision # 0 /\ (recvEpoch = down'[i].epoch => fragments = 0)
                   /\ down'[i].complete => ~resetPending
        <5>1. PICK k \in DOMAIN down : down'[i] = down[k]
          BY <2>2
        <5>2. down[k].type = "confirmed"
          BY <4>1, <5>1
        <5>3. /\ entered /\ lastRevision # 0 /\ (recvEpoch = down[k].epoch => fragments = 0)
              /\ down[k].complete => ~resetPending
          BY <2>1, <5>2 DEF StreamInv, Confirming
        <5> QED BY <5>1, <5>3
      <4> QED BY <2>1, <4>1, <1>Shrinks DEF Confirming, SameCache
    <3> QED BY <3>1, <3>2, <3>3
  <2>10. Paged' /\ Acked' /\ Fragmented' /\ Collecting'
    BY <2>1, <2>4 DEF StreamInv, Paged, Acked, Fragmented, Collecting, SameCache, SamePage
  <2>11. Admits'
    <3>1. CASE m.epoch = recvEpoch /\ m.complete
      <4>1. entered /\ ~resetPending /\ fragments = 0
        BY <2>1, <2>2, <3>1 DEF StreamInv, Confirming
      <4>2. m.epoch = edgeEpoch /\ Pages = {} /\ \A w \in Resets : w.epoch < edgeEpoch
        BY <2>1, <2>2 DEF StreamInv, Passing
      <4>3. ~IsPage(buffer) /\ ~IsPage(worker) /\ worker # GivenUp
        BY <2>1, <4>2 DEF Pages, IsPage, StreamInv, Queue
      <4>4. edgeEpoch \in Nat /\ \A w \in Resets : w.epoch # recvEpoch
        BY <3>1, <4>2, SMT, Z3 DEF EpochInv, Epochs
      <4>5. ~IsReset(buffer)
        BY <2>1, <4>4 DEF StreamInv, Queue, Resets, IsReset
      <4>6. buffer = None
        BY <4>3, <4>5 DEF StreamInv, Queue
      <4>7. worker = None
        BY <2>1, <4>3, <4>4, <4>6 DEF StreamInv, Queue, Resets, IsReset
      <4> QED BY <2>1, <4>1, <4>6, <4>7 DEF Admits, SameCache
    <3>2. CASE ~(m.epoch = recvEpoch /\ m.complete)
      BY <2>1, <3>2 DEF StreamInv, Admits, SameCache
    <3> QED BY <3>1, <3>2
  <2> QED BY <2>5, <2>6, <2>7, <2>8, <2>9, <2>10, <2>11 DEF StreamInv
<1>TakeJobStreams. KeepsStreams(TakeJob)
  <2> SUFFICES ASSUME EpochInv, StreamInv, TakeJob PROVE StreamInv'
    BY DEF KeepsStreams
  <2>1. /\ SameCache /\ SamePage /\ UNCHANGED <<failed, recvEpoch, fragments, phase, up, jobs, down,
                                                epoch, current, conn, stage>>
        /\ UNCHANGED <<unregistered, streams, ready, welcomeEpoch, revision, identity, chunkIndex,
                       chunkTotal, pageLast, syncReady>>
        /\ Live /\ worker = None /\ buffer # None /\ worker' = buffer /\ buffer' = None
    BY
    DEF TakeJob, SameCache, SamePage, ctlVars, indexVars, pageVars, epochVars, handlerVars,
        chunkVars, cacheVars, linkVars, recvVars
  <2>2. GivenUp # None /\ buffer # GivenUp
    <3>1. GivenUp.type = "given up"
      BY DEF GivenUp
    <3>2. buffer.type \in {"reset", "page"}
      BY <2>1 DEF StreamInv, Queue, IsReset, IsPage
    <3> QED BY <3>1, <3>2, JobsAreSomething
  <2>3. /\ Resets' = Resets /\ Pages' = Pages /\ (\A w : IsPage(w)' <=> IsPage(w)) /\ (\A w : IsReset(w)' <=> IsReset(w))
        /\ (Overtaken' <=> Overtaken) /\ (ChunkSent' <=> ChunkSent) /\ (Fresh' <=> Fresh) /\ (Attached' <=> Attached)
        /\ Elements(down') = Elements(down)
        /\ Answers' = Answers /\ Elements(up') = Elements(up) /\ \A k, b : Current(k, b)' <=> Current(k, b)
    BY <2>1
    DEF SameCache, SamePage, Resets, Pages, IsReset, IsPage, Overtaken, Elements, Answers,
        ChunkSent, Fresh, Empty, Attached, Current, Body
  <2>4. Typed' /\ Filled' /\ Admits'
    BY <2>1, <1>TypedFrame, <1>FilledFrame DEF StreamInv, Admits
  <2>5. Life'
    <3>1. ~Idle
      BY <2>1 DEF Idle
    <3> QED BY <2>1, <3>1 DEF StreamInv, Life, Attached, Superseded, Live
  <2>6. Behind' /\ Greeting' /\ Queue'
    BY <2>1, <2>2, <2>3 DEF StreamInv, Behind, Greeting, Queue, SameCache, Live, IsReset, IsPage
  <2>7. Once' /\ Passing'
    BY <2>1, <2>3 DEF StreamInv, Once, Passing, SameCache, IsReset
  <2>8. Chunked' /\ Confirming' /\ Paged'
    BY <2>1, <2>2, <2>3 DEF StreamInv, Chunked, Confirming, Paged, SameCache, IsPage
  <2>9. Acked' /\ Fragmented' /\ Collecting'
    BY <2>1, <2>3 DEF StreamInv, Acked, Fragmented, Collecting, SameCache, SamePage
  <2> QED BY <2>4, <2>5, <2>6, <2>7, <2>8, <2>9 DEF StreamInv
<1>JobFailsStreams. KeepsStreams(JobFails)
  <2> SUFFICES ASSUME EpochInv, StreamInv, JobFails PROVE StreamInv'
    BY DEF KeepsStreams
  <2>1. /\ SamePage /\ UNCHANGED <<edgeEpoch, cache, lastRevision, buffer, recvEpoch, fragments,
                                   phase, up, jobs, down, epoch>>
        /\ UNCHANGED <<unregistered, streams, ready, welcomeEpoch, revision, identity, chunkIndex,
                       chunkTotal, pageLast, syncReady>>
        /\ UNCHANGED <<current, conn, stage>>
        /\ Live /\ worker # None /\ worker' = GivenUp /\ failed' = TRUE /\ entered' = FALSE
    BY
    DEF JobFails, GivenUp, SamePage, ctlVars, indexVars, pageVars, epochVars, handlerVars,
        chunkVars, linkVars
  <2>2. GivenUp.type = "given up"
    BY DEF GivenUp
  <2>3. /\ Resets' \subseteq Resets /\ Pages' \subseteq Pages /\ ~IsReset(GivenUp) /\ ~IsPage(GivenUp) /\ Elements(down') = Elements(down)
        /\ (ChunkSent' <=> ChunkSent) /\ Answers' = Answers /\ Elements(up') = Elements(up)
    BY <2>1, <2>2 DEF Resets, Pages, IsReset, IsPage, Elements, Answers, ChunkSent
  <2>4. Typed' /\ Filled' /\ Admits'
    BY <2>1 DEF StreamInv, Typed, Filled, Admits, SamePage, Empty
  <2>5. Life'
    <3>1. ~Idle
      BY <2>1 DEF Idle
    <3> QED BY <2>1, <3>1 DEF StreamInv, Life, Attached, Superseded, Live
  <2>6. Behind' /\ Greeting' /\ Queue'
    BY <2>1, <2>3 DEF StreamInv, Behind, Greeting, Queue, IsReset, IsPage
  <2>7. Once'
    BY <2>1, <2>3 DEF StreamInv, Once, IsReset
  <2>8. Passing' /\ Chunked' /\ Confirming' /\ Paged' /\ Collecting'
    BY <2>1 DEF Passing, Chunked, Confirming, Paged, Collecting
  <2>9. Acked' /\ Fragmented'
    BY <2>1, <2>3 DEF StreamInv, Acked, Fragmented
  <2> QED BY <2>4, <2>5, <2>6, <2>7, <2>8, <2>9 DEF StreamInv
<1>DoResetStreams. KeepsStreams(DoReset)
  <2> SUFFICES ASSUME EpochInv, StreamInv, DoReset PROVE StreamInv'
    BY DEF KeepsStreams
  <2> DEFINE a == Cleared(worker.epoch)
  <2>1. /\ SamePage /\ UNCHANGED <<buffer, failed, recvEpoch, fragments, phase, jobs, down, epoch,
                                   current, conn, stage, syncReady>>
        /\ UNCHANGED <<unregistered, streams, ready, welcomeEpoch, revision, identity, chunkIndex,
                       chunkTotal, pageLast>>
        /\ Live /\ IsReset(worker) /\ worker' = None /\ up' = IF conn = current THEN Append(up, a) ELSE up
        /\ cache' = Empty /\ lastRevision' = 0 /\ resetPending' = TRUE /\ entered' = TRUE
        /\ edgeEpoch' = Max2(edgeEpoch, worker.epoch)
    BY
    DEF DoReset, Working, ClearCache, SendUp, IsReset, SamePage, ctlVars, indexVars, pageVars,
        epochVars, handlerVars, chunkVars, linkVars, recvVars
  <2>2. a.type = "cleared"
    BY DEF Cleared
  <2>3. GivenUp # None /\ worker # GivenUp /\ worker \in Resets
    <3>1. GivenUp.type = "given up"
      BY DEF GivenUp
    <3> QED BY <2>1, <3>1, JobsAreSomething DEF IsReset, Resets
  <2> HIDE DEF a
  <2>4. /\ worker.epoch \in 1..epoch /\ edgeEpoch \in 0..epoch /\ epoch \in Nat
        /\ \/ worker.epoch <= edgeEpoch /\ edgeEpoch' = edgeEpoch /\ entered /\ Fresh
           \/ edgeEpoch < worker.epoch /\ edgeEpoch' = worker.epoch
    <3>1. worker.epoch \in 1..epoch /\ edgeEpoch \in 0..epoch /\ epoch \in Nat
      BY <2>1 DEF EpochInv, Queued, Epochs, IsReset
    <3>2. worker.epoch <= edgeEpoch => entered /\ Fresh
      BY <2>3 DEF StreamInv, Behind, Overtaken
    <3> QED BY <2>1, <3>1, <3>2, SMT, Z3 DEF Max2
  <2>5. /\ Resets' \subseteq Resets /\ Pages' = {} /\ ~IsPage(buffer') /\ Fresh' /\ (ChunkSent' <=> ChunkSent)
        /\ Elements(down') = Elements(down) /\ Elements(up') \subseteq Elements(up) \cup {a} /\ Answers' \subseteq Answers \cup {a}
    <3>1. ~IsPage(buffer)
      BY <2>1, <2>3 DEF StreamInv, Paged
    <3>2. Elements(up') \subseteq Elements(up) \cup {a} /\ Answers' \subseteq Answers \cup {a}
      BY <2>1, UpGrows DEF EpochInv
    <3> QED BY <2>1, <3>1, <3>2
      DEF Resets, Pages, IsReset, IsPage, Fresh, Empty, ChunkSent, Elements
  <2>6. Typed'
    BY <2>1, SMT, Z3 DEF StreamInv, Typed, SamePage, Empty, Contents, EpochInv, Opened
  <2>7. Life'
    <3>1. ~Idle
      BY <2>1 DEF Idle, IsReset
    <3> QED BY <2>1, <3>1 DEF StreamInv, Life, Attached, Superseded, Live
  <2>8. Behind' /\ Queue' /\ Admits'
    BY <2>1, <2>3, <2>5 DEF StreamInv, Behind, Queue, Admits, IsReset, IsPage, Live
  <2>9. Greeting'
    <3>1. current # 0 /\ stage = "greet" /\ welcomeEpoch = epoch => worker.epoch < epoch /\ edgeEpoch < epoch
      BY <2>3 DEF StreamInv, Greeting
    <3>2. current # 0 /\ stage = "greet" /\ welcomeEpoch = epoch => edgeEpoch' < epoch
      BY <2>4, <3>1
    <3> QED BY <2>1, <2>5, <3>2 DEF StreamInv, Greeting
  <2>10. Once'
    <3>1. \A w \in Resets' : w = buffer /\ IsReset(buffer)
      BY <2>1 DEF Resets, IsReset
    <3>2. IsReset(buffer) /\ buffer.epoch = epoch => worker.epoch < epoch /\ edgeEpoch < epoch
      <4>1. IsReset(buffer) /\ buffer.epoch = epoch => worker.epoch # epoch /\ edgeEpoch < epoch
        BY <2>1 DEF StreamInv, Once, Resets
      <4> QED BY <2>4, <4>1, SMT, Z3
    <3>3. (\E k \in Elements(down) : k.type = "welcome" /\ k.epoch = epoch) => worker.epoch < epoch /\ edgeEpoch < epoch
      <4>1. (\E k \in Elements(down) : k.type = "welcome" /\ k.epoch = epoch) => worker.epoch # epoch /\ edgeEpoch < epoch
        BY <2>3 DEF StreamInv, Once
      <4> QED BY <2>4, <4>1, SMT, Z3
    <3>4. worker.epoch < epoch /\ edgeEpoch < epoch => edgeEpoch' < epoch
      BY <2>4
    <3>5. ~IsReset(worker')
      BY <2>1 DEF IsReset
    <3>6. \A w \in Resets' : w.epoch = epoch => edgeEpoch' < epoch /\ \A k \in Elements(down) : ~(k.type = "welcome" /\ k.epoch = epoch)
      BY <2>5, <3>1, <3>2, <3>4 DEF StreamInv, Once
    <3>7. \A k \in Elements(down) : k.type = "welcome" /\ k.epoch = epoch => edgeEpoch' < epoch
      BY <3>3, <3>4
    <3> QED BY <2>1, <2>5, <3>5, <3>6, <3>7 DEF StreamInv, Once, IsReset
  <2>11. ~failed => \A i \in DOMAIN down : down[i].type # "welcome" =>
                      worker.epoch < edgeEpoch /\ edgeEpoch' = edgeEpoch /\ entered /\ Fresh
    <3>1. ~failed => \A i \in DOMAIN down : down[i].type # "welcome" => worker.epoch < edgeEpoch
      BY <2>3 DEF StreamInv, Passing
    <3>2. worker.epoch < edgeEpoch => ~(edgeEpoch < worker.epoch)
      BY <2>4, SMT, Z3
    <3> QED BY <2>4, <3>1, <3>2
  <2>12. Passing' /\ Confirming'
    <3>1. Passing'
      <4>1. ASSUME ~failed, NEW i \in DOMAIN down, down[i].type # "welcome"
            PROVE  /\ edgeEpoch' = edgeEpoch /\ down[i].epoch = edgeEpoch /\ (\A w \in Resets : w.epoch < edgeEpoch)
                   /\ \A j \in DOMAIN down : down[j].type = "welcome" =>
                        (j < i => down[j].epoch < edgeEpoch) /\ (i < j => edgeEpoch < down[j].epoch)
        BY <2>11, <4>1 DEF StreamInv, Passing
      <4> QED BY <2>1, <2>5, <4>1 DEF Passing
    <3>2. ~failed => \A i \in DOMAIN down : down[i].type # "confirmed"
      BY <2>11 DEF StreamInv, Confirming, Fresh
    <3> QED BY <2>1, <3>1, <3>2 DEF Confirming
  <2>13. Chunked'
    <3>1. \A k, b : Current(k, b) => Current(k, b)'
      BY <2>1, SMT, Z3 DEF Current, Body, SamePage, EpochInv, Opened
    <3> QED BY <2>1, <3>1 DEF StreamInv, Chunked
  <2>14. Paged'
    BY <2>5 DEF Paged, IsPage
  <2>15. Acked'
    <3>1. ASSUME NEW m \in Answers, m.type = "ack" PROVE m.epoch # edgeEpoch'
      <4>1. m.epoch \in 1..edgeEpoch /\ m.rev \in 1..revision
        BY <3>1 DEF EpochInv, Answered, StreamInv, Acked
      <4>2. CASE edgeEpoch' = edgeEpoch /\ entered /\ Fresh
        BY <3>1, <4>1, <4>2, SMT, Z3 DEF StreamInv, Acked, Fresh, EpochInv, Opened
      <4>3. CASE edgeEpoch < worker.epoch /\ edgeEpoch' = worker.epoch
        BY <2>4, <4>1, <4>3, LaterEpoch
      <4> QED BY <2>4, <4>2, <4>3
    <3> QED BY <2>1, <2>2, <2>5, <3>1 DEF StreamInv, Acked
  <2>16. Fragmented' /\ Collecting'
    <3>1. Fragmented'
      BY <2>1, <2>2, <2>5, SMT, Z3 DEF StreamInv, Fragmented, Attached, SamePage, EpochInv, Opened
    <3>2. Collecting'
      BY <2>1 DEF StreamInv, Collecting, Attached, SamePage
    <3> QED BY <3>1, <3>2
  <2>17. Filled'
    <3>1. ready => entered /\ Fresh /\ edgeEpoch = epoch
      BY <2>4, SMT, Z3 DEF EpochInv, Opened
    <3>2. ready => baseline
      BY <3>1 DEF StreamInv, Filled, Fresh
    <3> QED BY <2>1, <3>2, SMTT(30), Z3T(30) DEF Filled, SamePage, EpochInv, Opened
  <2> QED BY <2>6, <2>7, <2>8, <2>9, <2>10, <2>12, <2>13, <2>14, <2>15, <2>16, <2>17 DEF StreamInv
<1>DoApplyStreams. KeepsStreams(DoApply)
  <2> SUFFICES ASSUME EpochInv, StreamInv, DoApply PROVE StreamInv'
    BY DEF KeepsStreams
  <2> DEFINE a == Ack(worker.epoch, worker.rev)
  <2>1. /\ SamePage /\ UNCHANGED <<buffer, failed, recvEpoch, fragments, phase, jobs, down, epoch,
                                   current, conn, stage, syncReady>>
        /\ UNCHANGED <<unregistered, streams, ready, welcomeEpoch, revision, identity, chunkIndex,
                       chunkTotal, pageLast>>
        /\ UNCHANGED <<edgeEpoch, entered>>
        /\ Live /\ IsPage(worker) /\ worker' = None /\ up' = IF conn = current THEN Append(up, a) ELSE up
        /\ lastRevision < worker.rev /\ lastRevision' = worker.rev
        /\ cache' = [u \in Users |-> IF u \in worker.body.users THEN worker.body.value[u] ELSE cache[u]]
        /\ resetPending' = (resetPending /\ ~(worker.body.baseline /\ worker.body.end))
    BY
    DEF DoApply, Working, PageAcceptable, SendUp, IsPage, SamePage, ctlVars, indexVars, pageVars,
        epochVars, handlerVars, chunkVars, linkVars, recvVars
  <2>2. a.type = "ack" /\ a.rev = worker.rev /\ a.epoch = worker.epoch
    BY DEF Ack
  <2>3. GivenUp # None /\ worker # GivenUp /\ worker \in Pages
    <3>1. GivenUp.type = "given up"
      BY DEF GivenUp
    <3> QED BY <2>1, <3>1, JobsAreSomething DEF IsPage, Pages
  <2>4. /\ entered /\ worker.epoch = edgeEpoch /\ ~Overtaken /\ worker.rev \in 1..revision /\ worker.body \in Bodies
        /\ ~IsPage(buffer) /\ (worker.epoch = epoch => Current(worker.rev, worker.body)) /\ revision \in Nat
    BY <2>1, <2>3 DEF StreamInv, Paged, EpochInv, Opened
  <2> HIDE DEF a
  <2>5. /\ Resets' = Resets /\ Pages' = {} /\ ~IsPage(buffer') /\ (ChunkSent' <=> ChunkSent) /\ ~Overtaken'
        /\ Elements(down') = Elements(down) /\ Elements(up') \subseteq Elements(up) \cup {a} /\ Answers' \subseteq Answers \cup {a}
    <3>1. Elements(up') \subseteq Elements(up) \cup {a} /\ Answers' \subseteq Answers \cup {a}
      BY <2>1, UpGrows DEF EpochInv
    <3>2. /\ Resets' = Resets /\ Pages' = {} /\ ~IsPage(buffer') /\ (ChunkSent' <=> ChunkSent) /\ Elements(down') = Elements(down)
      BY <2>1, <2>4 DEF Resets, Pages, IsReset, IsPage, ChunkSent, Elements
    <3> QED BY <2>1, <2>4, <3>1, <3>2 DEF Overtaken
  <2>6. Typed'
    <3>1. cache' \in [Users -> Contents] /\ lastRevision' \in 0..revision
      <4>1. worker.body.value \in [Users -> Contents]
        BY <2>4 DEF Bodies
      <4>2. cache' \in [Users -> Contents]
        BY <2>1, <4>1 DEF StreamInv, Typed
      <4> QED BY <2>1, <2>4, <4>2, GivenOut
    <3> QED BY <2>1, <3>1 DEF StreamInv, Typed, SamePage, Empty
  <2>7. Life'
    <3>1. ~Idle
      BY <2>1 DEF Idle, IsPage
    <3> QED BY <2>1, <3>1 DEF StreamInv, Life, Attached, Superseded, Live
  <2>8. Behind' /\ Queue' /\ Admits'
    BY <2>1, <2>3, <2>4, <2>5 DEF StreamInv, Behind, Queue, Admits, IsReset, IsPage, Live
  <2>9. Greeting'
    BY <2>1, <2>3, <2>5 DEF StreamInv, Greeting
  <2>10. Once'
    BY <2>1, <2>5 DEF StreamInv, Once, IsReset
  <2>11. ~failed => \A i \in DOMAIN down : down[i].type = "welcome"
    BY <2>3 DEF StreamInv, Passing
  <2>12. Passing' /\ Chunked' /\ Confirming'
    BY <2>1, <2>11 DEF Passing, Chunked, Confirming
  <2>13. Paged'
    BY <2>5 DEF Paged, IsPage
  <2>14. Acked'
    <3>1. /\ worker.rev <= lastRevision' /\ lastRevision \in Nat
          /\ \A r \in 1..revision : r <= lastRevision => r <= lastRevision'
      <4>1. /\ lastRevision \in 0..revision /\ lastRevision < worker.rev /\ lastRevision' = worker.rev
            /\ worker.rev \in 1..revision /\ revision \in Nat
        BY <2>1, <2>4 DEF StreamInv, Typed
      <4> QED BY <4>1, SMT, Z3
    <3>2. ASSUME NEW k \in Answers', k.type = "ack"
          PROVE  k.rev \in 1..revision /\ (k.epoch = edgeEpoch => k.rev <= lastRevision')
      <4>1. CASE k = a
        BY <2>2, <2>4, <3>1, <4>1
      <4>2. CASE k \in Answers
        BY <2>4, <3>1, <3>2, <4>2 DEF StreamInv, Acked
      <4> QED BY <2>5, <4>1, <4>2
    <3> QED BY <2>1, <2>4, <3>2 DEF Acked
  <2>15. Fragmented' /\ Collecting'
    <3>1. Fragmented'
      BY <2>1, <2>2, <2>3, <2>5 DEF StreamInv, Fragmented, Attached, SamePage
    <3>2. Collecting'
      BY <2>1 DEF StreamInv, Collecting, Attached, SamePage
    <3> QED BY <3>1, <3>2
  <2>16. Filled'
    <3>1. edgeEpoch = epoch => worker.body.baseline = baseline /\ worker.body.end = pageEnd
      BY <2>4, BodyFields DEF Current
    <3> QED BY <2>1, <3>1 DEF StreamInv, Filled, Typed, SamePage
  <2> QED BY <2>6, <2>7, <2>8, <2>9, <2>10, <2>12, <2>13, <2>14, <2>15, <2>16 DEF StreamInv
<1>StreamIdles. ASSUME EpochInv, StreamInv, UNCHANGED vars PROVE StreamInv'
  <2> USE <1>StreamIdles
  <2>1. /\ SameCache /\ SameWork /\ SamePage
        /\ UNCHANGED <<down, up, jobs, epoch, current, conn, stage, unregistered, streams, ready,
                       welcomeEpoch, syncReady>>
        /\ UNCHANGED <<chunkIndex, chunkTotal, pageLast, identity, revision>>
    BY
    DEF vars, ctlVars, edgeVars, SameCache, SameWork, SamePage, indexVars, pageVars, epochVars,
        handlerVars, chunkVars, cacheVars, linkVars, recvVars, workVars
  <2>2. revision' \in Nat /\ revision <= revision'
    BY <2>1, SMT, Z3 DEF EpochInv, Opened
  <2>3. Typed' /\ Filled'
    BY <2>1, <1>TypedFrame, <1>FilledFrame DEF StreamInv, SameWork
  <2>4. Life' /\ Greeting' /\ Once' /\ Behind' /\ Queue' /\ Passing' /\ Confirming' /\ Admits'
    BY <2>1, <1>LifeFrame, <1>GreetingFrame, <1>OnceFrame, <1>EdgeFrame DEF StreamInv
  <2>5. Chunked' /\ Paged'
    BY <2>1, <2>2, <1>PageFrame DEF StreamInv, EpochInv
  <2>6. Acked' /\ Fragmented' /\ Collecting'
    BY <2>1, <2>2, <1>AnswerFrame DEF StreamInv, EpochInv, SamePage
  <2> QED BY <2>3, <2>4, <2>5, <2>6 DEF StreamInv

(* One step *)
<1> SUFFICES ASSUME EpochInv, StreamInv, [Next]_vars PROVE StreamInv'
  OBVIOUS
<1>1. CASE UNCHANGED vars
  BY <1>1, <1>StreamIdles
<1>2. CASE PushAny \/ PushStuck(1)
  <2>1. 1 \in Nat \ {0} /\ \A total \in 1..2 : total \in Nat \ {0}
    BY SMT, Z3
  <2> QED BY <1>2, <2>1, <1>TakePageStreams DEF PushAny, KeepsStreams
<1>3. CASE Next /\ ~(PushAny \/ PushStuck(1))
  BY <1>3, <1>TablesKeep, <1>SessionKeeps, <1>HelloStreams, <1>SendWelcomeStreams,
     <1>RequestResetStreams,
     <1>RecvChunkAckStreams, <1>RecvJobStreams, <1>AcceptCacheClearedStreams, <1>ConfirmIdentityStreams,
     <1>ConnectStreams, <1>FenceStreams, <1>LeaveStreams, <1>RecvWelcomeStreams, <1>RecvChunkStreams,
     <1>RecvConfirmedStreams, <1>TakeJobStreams, <1>JobFailsStreams, <1>DoResetStreams, <1>DoApplyStreams
  DEF Next, KeepsStreams, Changing, Losing
<1> QED BY <1>1, <1>2, <1>3

\* One thing after the other: what is under way between the session and the edge
\* is at any moment of one epoch and one page, in the order the code sends it.
THEOREM StreamInvariant == Spec => []StreamInv
BY EpochInvariant, StreamStarts, StreamKept, PTL DEF Spec

\* An edge that admits clients holds a complete cache and has neither a reset nor a
\* page queued or in work (syncReady in client.go).
THEOREM AdmitsOnlyComplete == Spec => []ReadyIsComplete
<1>1. EpochInv /\ StreamInv => ReadyIsComplete
  BY DEF EpochInv, Admitting, StreamInv, Admits, ReadyIsComplete
<1> QED BY <1>1, EpochInvariant, StreamInvariant, PTL

-----------------------------------------------------------------------------
(* The third invariant: no message is refused, and nobody waits for nothing *)

\* The edge that the session serves has entered the epoch.
Serving == Attached /\ ~failed /\ stage # "hello" /\ (ready \/ Answers # {} \/ ChunkSent) => entered

\* The revisions that the edge holds.
Latest ==
    /\ entered => localRev = lastRevision
    /\ entered /\ edgeEpoch = epoch /\ pageRev # 0 => lastRevision <= pageRev

\* The cache is incomplete before the last page of the baseline is applied, and
\* holds a page when the baseline is over.
Unfilled ==
    entered /\ edgeEpoch = epoch =>
      /\ ~ready \/ (baseline /\ ~(pageRev # 0 /\ pageEnd /\ pageRev <= lastRevision)) => resetPending
      /\ ready /\ ~baseline => lastRevision # 0

\* An answer of the session's epoch is about the page in flight or a confirmed one.
Fitting ==
    /\ \A m \in Elements(up) : m.type = "chunk_ack" /\ m.epoch = epoch =>
         /\ ready /\ m.index \in Nat
         /\ m.rev <= appliedRev \/ (m.rev = pageRev /\ m.index <= chunkIndex /\ m.index < chunkTotal)
    /\ \A m \in Answers : m.type = "ack" /\ m.epoch = epoch => ready /\ (m.rev <= appliedRev \/ m.rev = pageRev)

\* The last fragment of the page is acknowledged, or its acknowledgement is among
\* the first n messages of the edge.
LastAcked(n) ==
    \/ chunkIndex = chunkTotal
    \/ /\ chunkIndex + 1 = chunkTotal
       /\ \E j \in 1..n : up[j].type = "chunk_ack" /\ up[j].epoch = epoch /\ up[j].rev = pageRev /\ up[j].index = chunkIndex

\* A page is applied and acknowledged only after all its fragments were.
Collected ==
    /\ Attached /\ worker # GivenUp => \A w \in Pages : w.epoch = epoch => LastAcked(Len(up))
    /\ \A i \in DOMAIN up : up[i].type = "ack" /\ up[i].epoch = epoch /\ up[i].rev = pageRev => LastAcked(i - 1)
    /\ \A m \in Elements(jobs) : m.type = "ack" /\ m.epoch = epoch /\ m.rev = pageRev => chunkIndex = chunkTotal

\* No refresh overtook the welcome of the edge's stream.
Straight == Attached /\ stage # "hello" /\ ~crossed

Silent == Straight /\ stage = "greet" => Idle /\ recvEpoch = 0 /\ fragments = 0 /\ welcomeEpoch = epoch

\* Then welcomes and resets come in the order of their epochs.
InOrder ==
    Straight /\ ~failed =>
      /\ \A i, j \in DOMAIN down : down[i].type = "welcome" /\ down[j].type = "welcome" /\ i < j => down[i].epoch < down[j].epoch
      /\ \A m \in Elements(down) : m.type = "welcome" => recvEpoch < m.epoch /\ edgeEpoch < m.epoch
      /\ \A w \in Resets : edgeEpoch < w.epoch /\ w.epoch <= recvEpoch
      /\ IsReset(buffer) /\ IsReset(worker) => worker.epoch < buffer.epoch
      /\ recvEpoch # 0 /\ Resets = {} => edgeEpoch = recvEpoch
      /\ entered => recvEpoch # 0

\* Pages, fragments and confirmations are of the session's epoch, each the one
\* that the edge expects.
Expected ==
    Straight =>
      /\ worker # GivenUp => \A w \in Pages : w.epoch = epoch
      /\ ~failed => \A m \in Elements(down) :
           /\ m.type = "chunk" => m.epoch = epoch /\ m.index = fragments
           /\ m.type = "confirmed" => m.rev = lastRevision
      /\ ~failed => \A m \in Elements(up) :
           m.type = "chunk_ack" /\ m.epoch = epoch /\ m.rev = pageRev /\ m.index = chunkIndex /\ chunkIndex + 1 < chunkTotal =>
             fragments = chunkIndex + 1

\* The reset of the session's epoch is on its way, at work or reported.
ResetDue ==
    \/ \E m \in Elements(down) : m.type = "welcome" /\ m.epoch = epoch
    \/ \E w \in Resets : w.epoch = epoch
    \/ \E m \in Answers : m.type = "cleared" /\ m.epoch = epoch
Opening ==
    Attached /\ ~failed /\ ~ready /\ (stage = "open" \/ (stage = "greet" /\ welcomeEpoch # epoch)) => ResetDue

\* So is the page in flight, unless a fragment never entered the send queue.
PageUnderWay ==
    \/ \E m \in Elements(down) : m.type = "chunk" /\ m.epoch = epoch
    \/ chunkIndex + 1 < chunkTotal /\ \E m \in Elements(up) :
         m.type = "chunk_ack" /\ m.epoch = epoch /\ m.rev = pageRev /\ m.index = chunkIndex
    \/ \E w \in Pages : w.epoch = epoch
    \/ \E m \in Answers : m.type = "ack" /\ m.epoch = epoch /\ m.rev = pageRev
Moving == Attached /\ ~failed /\ stage # "hello" /\ pageRev # 0 /\ ~stuck => PageUnderWay

FitInv ==
    /\ Serving /\ Latest /\ Unfilled /\ Fitting /\ Collected
    /\ Silent /\ InOrder /\ Expected /\ Opening /\ Moving

KeepsFit(A) == EpochInv /\ StreamInv /\ FitInv /\ A => FitInv'

-----------------------------------------------------------------------------
(* The third invariant holds *)

\* What the clauses depend on.
SameJobs == UNCHANGED <<buffer, worker, failed, recvEpoch, fragments>>
SameTurn == UNCHANGED <<current, conn, stage, welcomeEpoch, crossed>>
SameSession == UNCHANGED <<epoch, ready, baseline, pageRev, pageEnd, appliedRev, chunkIndex,
                           chunkTotal, stuck>>

\* The third invariant holds at the start: no stream is open.
LEMMA FitStarts == ASSUME Init PROVE FitInv
<1>1. up = <<>> /\ jobs = <<>> /\ ~entered /\ current = 0
  BY DEF Init
<1>2. Elements(up) = {} /\ Elements(jobs) = {} /\ Answers = {} /\ DOMAIN up = {} /\ ~Attached
  BY <1>1, EmptyFacts, SMT, Z3 DEF Answers, Attached
<1> QED BY <1>1, <1>2
  DEF FitInv, Serving, Latest, Unfilled, Fitting, Collected, Silent, InOrder, Expected, Opening,
      Moving, Straight

\* Every step keeps the two ends in agreement.
LEMMA FitKept == EpochInv /\ StreamInv /\ FitInv /\ [Next]_vars => FitInv'
<1>ServingFrame.
    ASSUME Serving, Attached' /\ ~failed' /\ stage' # "hello" => Attached /\ ~failed /\ stage # "hello",
           ready' \/ Answers' # {} \/ ChunkSent' => ready \/ Answers # {} \/ ChunkSent, entered => entered'
    PROVE  Serving'
  BY <1>ServingFrame DEF Serving
<1>CacheFrame.
    ASSUME Latest, Unfilled, SameCache, UNCHANGED <<localRev, epoch, ready, baseline, pageRev, pageEnd>>
    PROVE  Latest' /\ Unfilled'
  BY <1>CacheFrame DEF Latest, Unfilled, SameCache
<1>FittingFrame.
    ASSUME Fitting, Elements(up') \subseteq Elements(up), Answers' \subseteq Answers,
           UNCHANGED <<epoch, ready, appliedRev, pageRev, chunkIndex, chunkTotal>>
    PROVE  Fitting'
  BY <1>FittingFrame DEF Fitting
<1>CollectedFrame.
    ASSUME Collected, UNCHANGED <<up, epoch, pageRev, chunkIndex, chunkTotal>>, Elements(jobs') \subseteq Elements(jobs),
           Attached' /\ worker' # GivenUp /\ Pages' # {} => Attached /\ worker # GivenUp /\ Pages' \subseteq Pages
    PROVE  Collected'
  BY <1>CollectedFrame DEF Collected, LastAcked
<1>SilentFrame.
    ASSUME Silent, SameCache, SameJobs, SameTurn, UNCHANGED <<down, epoch>>
    PROVE  Silent'
  BY <1>SilentFrame DEF Silent, Straight, Attached, Idle, SameCache, SameJobs, SameTurn
<1>InOrderFrame.
    ASSUME InOrder, SameCache, SameJobs, SameTurn, UNCHANGED down
    PROVE  InOrder'
  BY <1>InOrderFrame
  DEF InOrder, Straight, Attached, Resets, IsReset, Elements, SameCache, SameJobs, SameTurn
<1>ExpectedFrame.
    ASSUME Expected, SameCache, SameJobs, SameTurn, UNCHANGED <<down, epoch, pageRev, chunkIndex,
                                                                chunkTotal>>,
           Elements(up') \subseteq Elements(up)
    PROVE  Expected'
  <2> USE <1>ExpectedFrame
  <2>1. Elements(down') = Elements(down) /\ Pages' = Pages /\ (Straight' <=> Straight)
    BY DEF Elements, Pages, IsPage, Straight, Attached, SameJobs, SameTurn
  <2> QED BY <2>1 DEF Expected, SameCache, SameJobs
<1>TokenFrame.
    ASSUME Opening, Moving, SameTurn, SameSession, failed => failed', ResetDue => ResetDue', PageUnderWay => PageUnderWay'
    PROVE  Opening' /\ Moving'
  BY <1>TokenFrame DEF Opening, Moving, Attached, SameTurn, SameSession

(* Sessions and tables *)
\* Changes, failures and the fence do not touch what is under way.
<1>FitKeeps.
    ASSUME FitInv, SameCache, SameJobs, SameTurn, SameSession, UNCHANGED <<localRev, up, jobs, down>>
    PROVE  FitInv'
  <2> USE <1>FitKeeps
  <2>1. /\ Elements(up') = Elements(up) /\ Elements(jobs') = Elements(jobs) /\ Elements(down') = Elements(down)
        /\ Answers' = Answers /\ Resets' = Resets /\ Pages' = Pages /\ (ChunkSent' <=> ChunkSent) /\ (Attached' <=> Attached)
    BY
    DEF Elements, Answers, Resets, Pages, IsReset, IsPage, ChunkSent, Attached, SameJobs, SameTurn
  <2>2. (ResetDue => ResetDue') /\ (PageUnderWay => PageUnderWay')
    BY <2>1 DEF ResetDue, PageUnderWay, SameSession
  <2>3. Serving' /\ Latest' /\ Unfilled'
    BY <2>1, <1>ServingFrame, <1>CacheFrame DEF FitInv, SameCache, SameJobs, SameTurn, SameSession
  <2>4. Fitting' /\ Collected'
    BY <2>1, <1>FittingFrame, <1>CollectedFrame DEF FitInv, SameJobs, SameSession
  <2>5. Silent' /\ InOrder' /\ Expected'
    BY <2>1, <1>SilentFrame, <1>InOrderFrame, <1>ExpectedFrame DEF FitInv, SameSession
  <2>6. Opening' /\ Moving'
    BY <2>2, <1>TokenFrame DEF FitInv, SameJobs
  <2> QED BY <2>3, <2>4, <2>5, <2>6 DEF FitInv
<1>TablesFit.
    KeepsFit(Changing \/ NeedFull \/ Losing \/ ResetLost \/ ConfirmLost \/ Fence \/ UNCHANGED vars)
  <2> SUFFICES ASSUME EpochInv, StreamInv, FitInv,
                      Changing \/ NeedFull \/ Losing \/ ResetLost \/ ConfirmLost \/ Fence \/ UNCHANGED vars
               PROVE  FitInv'
    BY DEF KeepsFit
  <2>1. SameCache /\ SameJobs /\ SameTurn /\ SameSession /\ UNCHANGED <<localRev, up, jobs, down>>
    BY
    DEF Changing, Losing, Mutate, NeedFull, PushLost, ResetLost, ConfirmLost, Fence, SameCache,
        SameJobs, SameTurn, SameSession, vars, ctlVars, edgeVars, pageVars, epochVars, handlerVars,
        chunkVars, cacheVars, linkVars, recvVars, workVars
  <2> QED BY <2>1, <1>FitKeeps
\* A session begins with the edge idle, and ends.
<1>SessionFits. KeepsFit(EndSession \/ \E s \in unregistered : Register(s))
  <2> SUFFICES ASSUME EpochInv, StreamInv, FitInv, EndSession \/ \E s \in unregistered : Register(s) PROVE FitInv'
    BY DEF KeepsFit
  <2>1. /\ SameCache /\ SameJobs /\ SameSession /\ UNCHANGED <<localRev, conn, down>> /\ up' = <<>> /\ jobs' = <<>>
        /\ current' = 0 \/ (stage' = "hello" /\ current' \in unregistered)
    BY
    DEF Register, EndSession, SameCache, SameJobs, SameSession, pageVars, epochVars, chunkVars,
        edgeVars, cacheVars, linkVars, recvVars, workVars
  <2>2. Elements(up') = {} /\ Elements(jobs') = {} /\ Answers' = {} /\ DOMAIN up' = {}
    BY <2>1, EmptyFacts, SMT, Z3 DEF Answers
  <2>3. ~(Attached' /\ stage' # "hello") /\ (Attached' => Pages' = {})
    BY <2>1 DEF Attached, StreamInv, Life, Idle, Pages, IsPage, SameJobs
  <2>4. Serving' /\ Silent' /\ InOrder' /\ Expected' /\ Opening' /\ Moving'
    BY <2>3 DEF Serving, Silent, InOrder, Expected, Opening, Moving, Straight
  <2>5. Latest' /\ Unfilled'
    BY <2>1, <1>CacheFrame DEF FitInv, SameSession
  <2>6. Fitting' /\ Collected'
    BY <2>2, <2>3 DEF Fitting, Collected
  <2> QED BY <2>4, <2>5, <2>6 DEF FitInv
<1>HelloFits. KeepsFit(Hello)
  <2> SUFFICES ASSUME EpochInv, StreamInv, FitInv, Hello PROVE FitInv'
    BY DEF KeepsFit
  <2>1. /\ SameCache /\ SameJobs /\ UNCHANGED <<localRev, current, conn, up, jobs, down>> /\ current # 0 /\ stage = "hello"
        /\ epoch' = epoch + 1 /\ ready' = FALSE /\ pageRev' = 0 /\ stage' = "greet" /\ welcomeEpoch' = epoch'
    BY DEF Hello, NoPage, SameCache, SameJobs, edgeVars, cacheVars, linkVars, recvVars, workVars
  <2>2. /\ up' = <<>> /\ jobs' = <<>> /\ Elements(up') = {} /\ Elements(jobs') = {} /\ Answers' = {} /\ DOMAIN up' = {}
        /\ epoch \in Nat /\ edgeEpoch' # epoch'
    BY <2>1, EmptyFacts, SMTT(30), Z3T(30) DEF StreamInv, Life, Answers, EpochInv, Epochs, SameCache
  <2>3. Attached' => Idle' /\ recvEpoch' = 0 /\ fragments' = 0 /\ Elements(down') = {} /\ DOMAIN down' = {}
    BY <2>1, EmptyFacts, SMT, Z3 DEF StreamInv, Life, Attached, Idle, SameCache, SameJobs
  <2>4. Attached' => Pages' = {} /\ Resets' = {} /\ ~ChunkSent' /\ buffer' = None
    BY <2>3 DEF Idle, Pages, Resets, IsPage, IsReset, ChunkSent
  <2>5. Latest' /\ Unfilled'
    BY <2>1, <2>2 DEF FitInv, Latest, Unfilled, SameCache
  <2>6. Serving' /\ Fitting' /\ Collected' /\ Opening' /\ Moving'
    BY <2>1, <2>2, <2>4 DEF Serving, Fitting, Collected, Opening, Moving
  <2>7. Silent' /\ InOrder' /\ Expected'
    BY <2>1, <2>2, <2>3, <2>4 DEF Silent, InOrder, Expected, Straight, Idle, IsReset
  <2> QED BY <2>5, <2>6, <2>7 DEF FitInv
<1>SendWelcomeFits. KeepsFit(SendWelcome)
  <2> SUFFICES ASSUME EpochInv, StreamInv, FitInv, SendWelcome PROVE FitInv'
    BY DEF KeepsFit
  <2> DEFINE m == Welcome(welcomeEpoch)
  <2>1. /\ SameCache /\ SameJobs /\ SameSession /\ UNCHANGED <<localRev, current, conn, welcomeEpoch,
                                                               crossed, up, jobs>>
        /\ current # 0 /\ stage = "greet" /\ stage' = "open" /\ down' = IF conn = current THEN Append(down, m) ELSE down
    BY
    DEF SendWelcome, SendDown, SameCache, SameJobs, SameSession, pageVars, epochVars, chunkVars,
        edgeVars, cacheVars, linkVars, recvVars, workVars
  <2>2. m.type = "welcome" /\ m.epoch = welcomeEpoch
    BY DEF Welcome
  <2> HIDE DEF m
  <2>3. /\ Elements(up') = Elements(up) /\ Elements(jobs') = Elements(jobs) /\ Answers' = Answers /\ Resets' = Resets
        /\ Pages' = Pages /\ (Attached' <=> Attached)
    BY <2>1 DEF Elements, Answers, Resets, Pages, IsReset, IsPage, Attached, SameJobs
  <2>4. Attached => Elements(down') = Elements(down) \cup {m}
    BY <2>1, DownGrows DEF EpochInv, Attached
  <2>5. Latest' /\ Unfilled' /\ Fitting' /\ Collected'
    BY <2>1, <2>3, <1>CacheFrame, <1>FittingFrame, <1>CollectedFrame
    DEF FitInv, SameJobs, SameSession
  <2>6. Serving'
    <3>1. Attached /\ ChunkSent' => ChunkSent
      BY <2>2, <2>4 DEF ChunkSent
    <3> QED BY <2>1, <2>3, <3>1 DEF FitInv, Serving, SameCache, SameJobs, SameSession
  <2>7. Opening'
    <3>1. Attached /\ ResetDue => ResetDue'
      BY <2>1, <2>3, <2>4 DEF ResetDue, SameSession
    <3>2. Attached /\ welcomeEpoch = epoch => ResetDue'
      BY <2>1, <2>2, <2>4 DEF ResetDue, SameSession
    <3> QED BY <2>1, <2>3, <3>1, <3>2 DEF FitInv, Opening, SameJobs, SameSession
  <2>8. Moving'
    BY <2>1 DEF StreamInv, Greeting, EpochInv, Opened, Moving, SameSession
  <2>9. Silent'
    BY <2>1 DEF Silent
  <2>10. InOrder' /\ Expected'
    <3>1. SUFFICES ASSUME Straight' PROVE InOrder' /\ Expected'
      BY DEF InOrder, Expected
    <3>2. Attached /\ Idle /\ recvEpoch = 0 /\ fragments = 0 /\ welcomeEpoch = epoch /\ edgeEpoch < epoch /\ down = <<>>
      BY <2>1, <2>3, <3>1 DEF FitInv, Silent, Straight, Idle, StreamInv, Greeting
    <3>3. Resets' = {} /\ Pages' = {} /\ buffer' = None /\ entered' = entered /\ ~entered
      BY <2>1, <2>3, <3>2 DEF Idle, Resets, Pages, IsReset, IsPage, SameJobs, SameCache
    <3>4. Elements(down') = {m}
      BY <2>4, <3>2, EmptyFacts
    <3>5. down' = <<m>> /\ DOMAIN down' = {1}
      BY <2>1, <3>2, SingleFacts DEF Attached
    <3>6. InOrder'
      BY <2>1, <2>2, <3>2, <3>3, <3>4, <3>5, SMTT(30), Z3T(30)
      DEF InOrder, IsReset, SameCache, SameJobs, EpochInv, Epochs
    <3>7. /\ ~failed' => \A x \in Elements(up') : x.type = "chunk_ack" /\ x.epoch = epoch' /\ x.rev = pageRev' /\ x.index = chunkIndex'
                                                 /\ chunkIndex' + 1 < chunkTotal' => fragments' = chunkIndex' + 1
      BY <2>1, <2>3, <3>1 DEF FitInv, Expected, Straight, SameSession, SameJobs
    <3> QED BY <2>2, <3>3, <3>4, <3>6, <3>7 DEF Expected
  <2> QED BY <2>5, <2>6, <2>7, <2>8, <2>9, <2>10 DEF FitInv
<1>RequestResetFits. KeepsFit(RequestReset)
  <2> SUFFICES ASSUME EpochInv, StreamInv, FitInv, RequestReset PROVE FitInv'
    BY DEF KeepsFit
  <2> DEFINE m == Welcome(epoch + 1)
  <2>1. /\ SameCache /\ SameJobs /\ UNCHANGED <<localRev, current, conn, stage, welcomeEpoch, up, jobs>>
        /\ UNCHANGED <<baseline, pageEnd, appliedRev, chunkIndex, chunkTotal>> /\ current # 0 /\ stage # "hello" /\ pageRev = 0 /\ pageRev' = 0
        /\ epoch' = epoch + 1 /\ ready' = FALSE /\ crossed' = (crossed \/ stage = "greet")
        /\ down' = IF conn = current THEN Append(down, m) ELSE down
    BY
    DEF RequestReset, Deliverable, SendDown, SameCache, SameJobs, pageVars, chunkVars, edgeVars,
        cacheVars, linkVars, recvVars, workVars
  <2>2. /\ m.type = "welcome" /\ m.epoch = epoch' /\ epoch \in Nat /\ epoch' \in Nat /\ edgeEpoch < epoch' /\ recvEpoch < epoch'
        /\ edgeEpoch # epoch'
    <3>1. m.type = "welcome" /\ m.epoch = epoch'
      BY <2>1 DEF Welcome
    <3>2. epoch \in Nat /\ edgeEpoch \in 0..epoch /\ recvEpoch \in 0..epoch
      BY DEF EpochInv, Epochs
    <3> HIDE DEF m
    <3> QED BY <2>1, <3>1, <3>2, NextIsBeyond
  <2> HIDE DEF m
  <2>3. /\ Elements(up') = Elements(up) /\ Elements(jobs') = Elements(jobs) /\ Answers' = Answers /\ Resets' = Resets
        /\ Pages' = Pages /\ (Attached' <=> Attached) /\ (Straight' => Straight)
        /\ \A k \in Elements(up) \cup Elements(jobs) : k \in Answers
    BY <2>1 DEF Elements, Answers, Resets, Pages, IsReset, IsPage, Attached, Straight, SameJobs
  <2>4. /\ \A k \in Answers : k.epoch # epoch'
        /\ \A w \in Pages : w.epoch # epoch'
        /\ \A k \in Elements(down) : k.epoch < epoch'
    BY <2>1, <2>2, SMT, Z3 DEF EpochInv, Epochs, Ordered, Answered, Queued, Pages, IsPage
  <2>5. Attached => Elements(down') = Elements(down) \cup {m}
    BY <2>1, DownGrows DEF EpochInv, Attached
  <2>6. Latest' /\ Unfilled' /\ Moving'
    BY <2>1, <2>2 DEF FitInv, Latest, Unfilled, Moving, SameCache
  <2>7. Fitting' /\ Collected'
    <3>1. \A i \in DOMAIN up : up[i] \in Elements(up)
      BY DEF Elements
    <3> QED BY <2>1, <2>3, <2>4, <3>1 DEF Fitting, Collected
  <2>8. Serving' /\ Silent' /\ Opening'
    <3>1. Attached /\ ChunkSent' => ChunkSent
      BY <2>2, <2>5 DEF ChunkSent
    <3>2. Serving'
      BY <2>1, <2>3, <3>1 DEF FitInv, Serving, SameCache, SameJobs
    <3>3. Silent' /\ Opening'
      BY <2>1, <2>2, <2>3, <2>5 DEF Silent, Straight, Opening, ResetDue
    <3> QED BY <3>2, <3>3
  <2>9. InOrder'
    <3>1. SUFFICES ASSUME Straight', ~failed' PROVE InOrder'
      BY DEF InOrder
    <3>2. Straight /\ Attached /\ ~failed /\ down' = Append(down, m)
      BY <2>1, <2>3, <3>1 DEF Straight, Attached, SameJobs
    <3>3. PICK n \in Nat : /\ DOMAIN down' = DOMAIN down \cup {n} /\ down'[n] = m
                           /\ \A i \in DOMAIN down : i \in Nat /\ i < n /\ down'[i] = down[i]
      BY <3>2, DownGrows DEF EpochInv
    <3>4. \A i \in DOMAIN down : down[i] \in Elements(down)
      BY DEF Elements
    <3>5. ASSUME NEW i \in DOMAIN down', NEW j \in DOMAIN down', down'[i].type = "welcome", down'[j].type = "welcome", i < j
          PROVE  down'[i].epoch < down'[j].epoch
      <4>1. ~(n < n) /\ \A k \in DOMAIN down : ~(n < k)
        BY <3>3, SMT, Z3
      <4>2. i \in DOMAIN down /\ down'[i] = down[i]
        BY <3>3, <3>5, <4>1
      <4>3. CASE j = n
        BY <2>2, <2>4, <3>3, <3>4, <4>2, <4>3
      <4>4. CASE j \in DOMAIN down
        <5>1. down'[j] = down[j]
          BY <3>3, <4>4
        <5>2. down[i].type = "welcome" /\ down[j].type = "welcome"
          BY <3>5, <4>2, <5>1
        <5>3. down[i].epoch < down[j].epoch
          BY <3>2, <3>5, <4>2, <4>4, <5>2 DEF FitInv, InOrder
        <5> QED BY <4>2, <5>1, <5>3
      <4> QED BY <3>3, <4>3, <4>4
    <3>6. \A k \in Elements(down') : k.type = "welcome" => recvEpoch' < k.epoch /\ edgeEpoch' < k.epoch
      BY <2>1, <2>2, <2>5, <3>2 DEF FitInv, InOrder, SameCache, SameJobs
    <3> QED BY <2>1, <2>3, <3>2, <3>5, <3>6 DEF FitInv, InOrder, SameCache, SameJobs, IsReset
  <2>10. Expected'
    <3>1. SUFFICES ASSUME Straight', Straight, Attached PROVE Expected'
      BY <2>3 DEF Expected, Straight
    <3>2. worker # GivenUp => Pages = {}
      BY <2>1, <3>1 DEF FitInv, Expected, StreamInv, Paged, Current
    <3>3. ~failed => \A i \in DOMAIN down : down[i].type # "chunk"
      <4>1. \A i \in DOMAIN down : down[i] \in Elements(down)
        BY DEF Elements
      <4> QED BY <2>1, <3>1, <4>1 DEF FitInv, Expected, StreamInv, Chunked, Current
    <3>4. ~failed => \A k \in Elements(down') : k.type # "chunk" /\ (k.type = "confirmed" => k.rev = lastRevision)
      BY <2>2, <2>5, <3>1, <3>3 DEF FitInv, Expected, Elements
    <3> QED BY <2>1, <2>3, <2>4, <3>2, <3>4 DEF Expected, SameCache, SameJobs
  <2> QED BY <2>6, <2>7, <2>8, <2>9, <2>10 DEF FitInv
\* What is no welcome joins the stream.
<1>InOrderSends.
    ASSUME Ordered, InOrder, SameCache, SameJobs, SameTurn, NEW m, m.type # "welcome", down' = Append(down, m)
    PROVE  InOrder'
  <2> USE <1>InOrderSends
  <2>1. PICK n \in Nat : /\ DOMAIN down' = DOMAIN down \cup {n} /\ down'[n] = m
                         /\ \A i \in DOMAIN down : i \in Nat /\ i < n /\ down'[i] = down[i]
    BY DownGrows
  <2>2. Elements(down') = Elements(down) \cup {m}
    BY DownGrows
  <2>3. \A i, j \in DOMAIN down' : down'[i].type = "welcome" /\ down'[j].type = "welcome" /\ i < j =>
           i \in DOMAIN down /\ j \in DOMAIN down
    BY <2>1
  <2>4. Resets' = Resets /\ (Straight' <=> Straight)
    BY DEF Resets, IsReset, Straight, Attached, SameJobs, SameTurn
  <2>5. ASSUME Straight, ~failed, NEW i \in DOMAIN down', NEW j \in DOMAIN down',
               down'[i].type = "welcome", down'[j].type = "welcome", i < j
        PROVE  down'[i].epoch < down'[j].epoch
    <3>1. i \in DOMAIN down /\ j \in DOMAIN down /\ down'[i] = down[i] /\ down'[j] = down[j]
      BY <2>1, <2>3, <2>5
    <3>2. down[i].type = "welcome" /\ down[j].type = "welcome"
      BY <2>5, <3>1
    <3>3. down[i].epoch < down[j].epoch
      BY <2>5, <3>1, <3>2 DEF InOrder
    <3> QED BY <3>1, <3>3
  <2> QED BY <2>2, <2>4, <2>5 DEF InOrder, SameCache, SameJobs, IsReset
<1>TakePageFits. \A total \in Nat \ {0} : KeepsFit(PushPage(total) \/ PushStuck(total))
  <2> SUFFICES ASSUME NEW total \in Nat \ {0}, EpochInv, StreamInv, FitInv, PushPage(total) \/ PushStuck(total) PROVE FitInv'
    BY DEF KeepsFit
  <2> DEFINE m == Chunk(epoch, pageRev', 0, total, Body')
  <2>1. /\ SameCache /\ SameJobs /\ SameTurn /\ UNCHANGED <<localRev, up, jobs, epoch, ready,
                                                            baseline, appliedRev>>
        /\ ready /\ pageRev = 0 /\ pageRev' = revision + 1 /\ chunkIndex' = 0 /\ chunkTotal' = total /\ current # 0 /\ stage # "hello"
        /\ \/ UNCHANGED stuck /\ down' = IF conn = current THEN Append(down, m) ELSE down
           \/ stuck' = TRUE /\ down' = down
    BY
    DEF PushPage, PushStuck, TakePage, PageDue, Deliverable, SendDown, SameCache, SameJobs,
        SameTurn, epochVars, handlerVars, edgeVars, cacheVars, linkVars, recvVars, workVars
  <2>2. m.type = "chunk" /\ m.epoch = epoch /\ m.index = 0
    BY DEF Chunk
  <2> HIDE DEF m
  <2>3. /\ edgeEpoch = epoch /\ epoch \in Nat /\ revision \in Nat /\ pageRev' \in Nat \ {0} /\ stage # "greet"
        /\ lastRevision < pageRev' /\ lastRevision <= pageRev'
    <3>1. /\ edgeEpoch = epoch /\ epoch \in Nat /\ revision \in Nat /\ lastRevision \in 0..revision /\ stage # "greet"
          /\ pageRev' = revision + 1
      BY <2>1 DEF EpochInv, Epochs, Opened, StreamInv, Typed, Greeting
    <3> QED BY <3>1, NextIsBeyond
  <2>4. /\ Elements(up') = Elements(up) /\ Elements(jobs') = Elements(jobs) /\ Answers' = Answers /\ Resets' = Resets
        /\ Pages' = Pages /\ (Attached' <=> Attached) /\ (Straight' <=> Straight)
        /\ \A k \in Elements(up) \cup Elements(jobs) : k \in Answers
    BY <2>1
    DEF Elements, Answers, Resets, Pages, IsReset, IsPage, Attached, Straight, SameJobs, SameTurn
  <2>5. /\ worker # GivenUp => Pages = {}
        /\ ~failed => ~ChunkSent /\ \A w \in Resets : w.epoch < edgeEpoch
    BY <2>1, NothingUnderWay DEF StreamInv, Queue
  <2>6. /\ \A k \in Elements(up) : k.type = "chunk_ack" => k.rev \in 1..revision /\ k.rev # pageRev'
        /\ \A k \in Answers : k.type = "ack" => k.rev \in 1..revision /\ k.rev # pageRev'
    BY <2>1, <2>3, SMT, Z3 DEF StreamInv, Fragmented, Acked
  <2>7. Serving' /\ Silent' /\ Opening'
    BY <2>1, <2>3, <2>4 DEF FitInv, Serving, Silent, Opening, SameCache, SameJobs, SameTurn
  <2>8. Latest' /\ Unfilled'
    BY <2>1, <2>3 DEF FitInv, Latest, Unfilled, SameCache
  <2>9. Fitting'
    BY <2>1, <2>4, <2>6, SMT, Z3 DEF FitInv, Fitting
  <2>10. Collected'
    <3>1. \A i \in DOMAIN up : up[i] \in Answers
      BY DEF Elements, Answers
    <3> QED BY <2>1, <2>4, <2>5, <2>6, <3>1 DEF Collected, SameJobs
  <2>11. CASE down' = down /\ (~Attached \/ stuck')
    <3>1. Elements(down') = Elements(down)
      BY <2>11 DEF Elements
    <3>2. InOrder'
      BY <2>1, <2>11, <1>InOrderFrame DEF FitInv
    <3>3. Expected'
      BY <2>1, <2>4, <2>5, <2>6, <3>1 DEF FitInv, Expected, ChunkSent, SameCache, SameJobs
    <3>4. Moving'
      BY <2>4, <2>11 DEF Moving
    <3> QED BY <2>7, <2>8, <2>9, <2>10, <3>2, <3>3, <3>4 DEF FitInv
  <2>12. CASE Attached /\ down' = Append(down, m)
    <3>2. Elements(down') = Elements(down) \cup {m}
      BY <2>12, DownGrows DEF EpochInv
    <3>3. InOrder'
      BY <2>1, <2>2, <2>12, <1>InOrderSends DEF FitInv, EpochInv
    <3>4. Straight /\ ~failed => fragments = 0
      <4>1. SUFFICES ASSUME Straight, ~failed PROVE fragments = 0
        OBVIOUS
      <4>2. entered
        BY <2>1, <2>12, <4>1 DEF FitInv, Serving
      <4>3. Resets = {}
        <5>1. \A w \in Resets : w.epoch \in 1..epoch
          BY DEF EpochInv, Queued, Resets, IsReset
        <5>2. \A w \in Resets : edgeEpoch < w.epoch /\ w.epoch < edgeEpoch
          BY <2>5, <4>1 DEF FitInv, InOrder
        <5> QED BY <2>3, <5>1, <5>2, BeforeOrBehind
      <4>4. recvEpoch = epoch
        BY <2>3, <4>1, <4>2, <4>3 DEF FitInv, InOrder
      <4> QED BY <2>1, <2>12, <4>1, <4>4 DEF StreamInv, Collecting
    <3>5. Expected'
      BY <2>1, <2>2, <2>4, <2>5, <2>6, <3>2, <3>4
      DEF FitInv, Expected, ChunkSent, SameCache, SameJobs
    <3>6. Moving'
      BY <2>1, <2>2, <3>2 DEF Moving, PageUnderWay
    <3> QED BY <2>7, <2>8, <2>9, <2>10, <3>3, <3>5, <3>6 DEF FitInv
  <2> QED BY <2>1, <2>11, <2>12 DEF Attached
<1>TailElements.
    ASSUME NEW s, s \in Seq(Elements(s)), s # <<>>
    PROVE  Elements(s) = Elements(Tail(s)) \cup {Head(s)}
  <2> USE <1>TailElements
  <2>1. Len(s) \in Nat \ {0} /\ DOMAIN s = 1..Len(s) /\ Head(s) = s[1]
    BY SMT, Z3
  <2>2. /\ DOMAIN Tail(s) = 1..(Len(s) - 1)
        /\ \A i \in 1..Len(s) : i = 1 \/ (i - 1 \in 1..(Len(s) - 1) /\ Tail(s)[i - 1] = s[i])
    BY <2>1, SMT, Z3
  <2>3. Head(s) \in Elements(s) /\ Elements(Tail(s)) \subseteq Elements(s)
    BY TailFacts
  <2>4. ASSUME NEW x \in Elements(s) PROVE x \in Elements(Tail(s)) \cup {Head(s)}
    <3>1. PICK i \in 1..Len(s) : x = s[i]
      BY <2>1 DEF Elements
    <3> QED BY <2>1, <2>2, <3>1 DEF Elements
  <2> QED BY <2>3, <2>4
\* The controller reads a message of the edge.
<1>UpShrinks.
    ASSUME Answered, up # <<>>, up' = Tail(up)
    PROVE  /\ Head(up) = up[1] /\ Elements(up) = Elements(up') \cup {Head(up)}
           /\ DOMAIN up = 1..Len(up) /\ Len(up) \in Nat /\ DOMAIN up' = 1..Len(up') /\ Len(up') \in Nat
           /\ Len(up) = Len(up') + 1 /\ \A i \in 1..Len(up') : up'[i] = up[i + 1]
  <2> USE <1>UpShrinks
  <2>1. Len(up) \in Nat \ {0} /\ DOMAIN up = 1..Len(up) /\ Head(up) = up[1]
    BY SMT, Z3 DEF Answered
  <2>2. /\ DOMAIN up' = 1..(Len(up) - 1) /\ Len(up') = Len(up) - 1
        /\ \A i \in 1..(Len(up) - 1) : up'[i] = up[i + 1]
    BY <2>1, SMT, Z3 DEF Answered
  <2>3. Elements(up) = Elements(up') \cup {Head(up)}
    BY <1>TailElements DEF Answered
  <2> QED BY <2>1, <2>2, <2>3, SMTT(30), Z3T(30)
\* The acknowledgement of the last fragment moves up, or is counted.
<1>LastAckedMoves.
    ASSUME EpochInv, StreamInv, up # <<>>, up' = Tail(up), UNCHANGED <<epoch, pageRev, chunkTotal>>,
           \/ /\ UNCHANGED chunkIndex
              /\ ~(up[1].type = "chunk_ack" /\ up[1].epoch = epoch /\ up[1].rev = pageRev /\ up[1].index = chunkIndex)
           \/ chunkIndex < chunkTotal /\ chunkIndex' = chunkIndex + 1,
           NEW n \in 1..Len(up), LastAcked(n)
    PROVE  LastAcked(n - 1)'
  <2> USE <1>LastAckedMoves
  <2>1. /\ Len(up) \in Nat /\ Len(up') \in Nat /\ Len(up) = Len(up') + 1 /\ \A i \in 1..Len(up') : up'[i] = up[i + 1]
        /\ chunkIndex \in Nat /\ chunkTotal \in Nat
    BY <1>UpShrinks DEF EpochInv, StreamInv, Typed
  <2>2. CASE chunkIndex = chunkTotal
    BY <2>1, <2>2, SMTT(30), Z3T(30) DEF LastAcked
  <2>3. CASE chunkIndex' = chunkIndex + 1
    BY <2>1, <2>3, SMT, Z3 DEF LastAcked
  <2>4. CASE UNCHANGED chunkIndex /\ chunkIndex # chunkTotal
    <3>1. /\ ~(up[1].type = "chunk_ack" /\ up[1].epoch = epoch /\ up[1].rev = pageRev /\ up[1].index = chunkIndex)
          /\ chunkIndex + 1 = chunkTotal
      BY <2>1, <2>4 DEF LastAcked
    <3>2. PICK j \in 1..n : up[j].type = "chunk_ack" /\ up[j].epoch = epoch /\ up[j].rev = pageRev /\ up[j].index = chunkIndex
      BY <2>4 DEF LastAcked
    <3>3. j # 1
      BY <3>1, <3>2
    <3>4. j - 1 \in 1..(n - 1) /\ j - 1 \in 1..Len(up') /\ up'[j - 1] = up[j]
      BY <2>1, <3>3, SMT, Z3
    <3> QED BY <2>4, <3>1, <3>2, <3>4 DEF LastAcked
  <2> QED BY <2>2, <2>3, <2>4
<1>RecvChunkAckFits. KeepsFit(RecvChunkAck)
  <2> SUFFICES ASSUME EpochInv, StreamInv, FitInv, RecvChunkAck PROVE FitInv'
    BY DEF KeepsFit
  <2> DEFINE m == Head(up)
             c == Chunk(epoch, pageRev, chunkIndex + 1, chunkTotal, Body)
  <2>1. /\ SameCache /\ SameJobs /\ SameTurn /\ stage = "open" /\ current # 0 /\ up # <<>> /\ up' = Tail(up) /\ m.type = "chunk_ack"
        /\ UNCHANGED <<localRev, jobs, epoch, ready, baseline, pageRev, pageEnd, appliedRev,
                       chunkTotal, stuck>>
        /\ \/ UNCHANGED <<chunkIndex, down>> /\ AckIgnored(m)
           \/ /\ m.epoch = epoch /\ m.rev = pageRev /\ m.index = chunkIndex /\ chunkIndex < chunkTotal
              /\ chunkIndex' = chunkIndex + 1
              /\ down' = IF chunkIndex + 1 < chunkTotal /\ conn = current THEN Append(down, c) ELSE down
    BY
    DEF RecvChunkAck, Receiving, CountAck, FragmentsLeft, AckAccepted, SendDown, SameCache,
        SameJobs, SameTurn, pageVars, epochVars, handlerVars, edgeVars, cacheVars, linkVars,
        recvVars, workVars
  <2>2. c.type = "chunk" /\ c.epoch = epoch /\ c.index = chunkIndex + 1
    BY DEF Chunk
  <2>3. m = up[1] /\ Elements(up) = Elements(up') \cup {m} /\ m \in Answers /\ m \in Elements(up)
    BY <2>1, <1>UpShrinks DEF EpochInv, Answers
  <2> HIDE DEF m, c
  <2>4. /\ Elements(jobs') = Elements(jobs) /\ Answers = Answers' \cup {m} /\ Resets' = Resets /\ Pages' = Pages
        /\ (Attached' <=> Attached) /\ (Straight' <=> Straight)
    BY <2>1, <2>3
    DEF Elements, Answers, Resets, Pages, IsReset, IsPage, Attached, Straight, SameJobs, SameTurn
  <2>5. m.rev \in 1..revision /\ chunkIndex \in Nat /\ chunkTotal \in Nat /\ appliedRev \in Nat /\ (pageRev # 0 => appliedRev < pageRev)
    <3>1. m.rev \in 1..revision
      BY <2>1, <2>3 DEF StreamInv, Fragmented
    <3>2. chunkIndex \in Nat /\ chunkTotal \in Nat /\ appliedRev \in Nat /\ (pageRev # 0 => appliedRev < pageRev)
      BY SMT, Z3 DEF EpochInv, Opened, StreamInv, Typed
    <3> QED BY <3>1, <3>2
  <2>6. Latest' /\ Unfilled' /\ Silent'
    BY <2>1, <1>CacheFrame DEF FitInv, Silent, SameTurn
  <2>7. AckIgnored(m) => ~(m.epoch = epoch /\ m.rev = pageRev /\ m.index = chunkIndex)
    BY <2>5, SMT, Z3 DEF AckIgnored, EpochInv, Opened
  <2>8. Collected'
    <3>1. \A n \in 1..Len(up) : LastAcked(n) => LastAcked(n - 1)'
      BY <2>1, <2>3, <2>7, <1>LastAckedMoves
    <3>2. /\ Len(up) \in 1..Len(up) /\ Len(up') = Len(up) - 1
          /\ \A i \in DOMAIN up' : i + 1 \in DOMAIN up /\ i \in 1..Len(up) /\ (i + 1) - 1 = i /\ up'[i] = up[i + 1]
      BY <2>1, <1>UpShrinks, SMT, Z3 DEF EpochInv
    <3>3. Attached' /\ worker' # GivenUp => \A w \in Pages' : w.epoch = epoch' => LastAcked(Len(up))'
      BY <2>1, <2>4, <3>1, <3>2 DEF FitInv, Collected, SameJobs
    <3>4. \A i \in DOMAIN up' : up'[i].type = "ack" /\ up'[i].epoch = epoch' /\ up'[i].rev = pageRev' => LastAcked(i - 1)'
      <4>1. ASSUME NEW i \in DOMAIN up', up'[i].type = "ack", up'[i].epoch = epoch, up'[i].rev = pageRev PROVE LastAcked(i)
        BY <3>2, <4>1 DEF FitInv, Collected
      <4> QED BY <2>1, <3>1, <3>2, <4>1
    <3>5. \A k \in Elements(jobs') : k.type = "ack" /\ k.epoch = epoch' /\ k.rev = pageRev' => chunkIndex' = chunkTotal'
      <4>1. chunkIndex = chunkTotal => ~(chunkIndex < chunkTotal)
        BY <2>5, SMT, Z3
      <4> QED BY <2>1, <2>4, <4>1 DEF FitInv, Collected
    <3> QED BY <3>3, <3>4, <3>5 DEF Collected
  <2>9. CASE UNCHANGED <<chunkIndex, down>> /\ AckIgnored(m)
    <3>1. Elements(down') = Elements(down)
      BY <2>9 DEF Elements
    <3>2. Serving' /\ Fitting'
      BY <2>1, <2>3, <2>4, <2>9, <3>1, <1>ServingFrame, <1>FittingFrame
      DEF FitInv, ChunkSent, SameCache, SameJobs, SameTurn
    <3>3. InOrder' /\ Expected'
      BY <2>1, <2>3, <2>9, <1>InOrderFrame, <1>ExpectedFrame DEF FitInv
    <3>4. ResetDue => ResetDue'
      BY <2>1, <2>4, <3>1 DEF ResetDue
    <3>5. PageUnderWay => PageUnderWay'
      BY <2>1, <2>3, <2>4, <2>7, <2>9, <3>1 DEF PageUnderWay
    <3>6. Opening' /\ Moving'
      BY <2>1, <2>9, <3>4, <3>5, <1>TokenFrame DEF FitInv, SameJobs, SameSession
    <3> QED BY <2>6, <2>8, <3>2, <3>3, <3>6 DEF FitInv
  <2>10. ASSUME m.epoch = epoch, m.rev = pageRev, m.index = chunkIndex, chunkIndex < chunkTotal, chunkIndex' = chunkIndex + 1,
                down' = IF chunkIndex + 1 < chunkTotal /\ conn = current THEN Append(down, c) ELSE down
         PROVE  FitInv'
    <3>1. /\ ready /\ (Attached /\ ~failed => ~ChunkSent)
          /\ \A k \in Elements(up) : k.type = "chunk_ack" /\ k.epoch = epoch /\ k.rev = pageRev => k.index \in Nat /\ k.index <= chunkIndex
          /\ \A k \in Elements(up') : ~(k.type = "chunk_ack" /\ k.epoch = epoch' /\ k.rev = pageRev' /\ k.index = chunkIndex')
      <4>1. ~(pageRev <= appliedRev) /\ ~(chunkIndex + 1 <= chunkIndex)
        BY <2>5, <2>10, SMT, Z3
      <4>2. ready /\ (Attached /\ ~failed => ~ChunkSent)
        BY <2>1, <2>3, <2>10 DEF FitInv, Fitting, StreamInv, Fragmented
      <4>3. \A k \in Elements(up) : k.type = "chunk_ack" /\ k.epoch = epoch /\ k.rev = pageRev => k.index \in Nat /\ k.index <= chunkIndex
        BY <4>1 DEF FitInv, Fitting
      <4> QED BY <2>1, <2>3, <2>10, <4>1, <4>2, <4>3
    <3>2. Fitting' /\ Serving' /\ Opening'
      <4>1. Fitting'
        <5>1. \A i \in Nat : i <= chunkIndex => i <= chunkIndex'
          BY <2>5, <2>10, SMT, Z3
        <5> QED BY <2>1, <2>3, <2>4, <5>1 DEF FitInv, Fitting
      <4> QED BY <2>1, <2>3, <2>4, <3>1, <4>1
        DEF FitInv, Serving, Opening, SameCache, SameJobs, SameTurn
    <3>3. CASE down' = down /\ ~(chunkIndex + 1 < chunkTotal /\ conn = current)
      <4>1. Elements(down') = Elements(down)
        BY <3>3 DEF Elements
      <4>2. InOrder'
        BY <2>1, <3>3, <1>InOrderFrame DEF FitInv
      <4>3. Expected'
        BY <2>1, <2>4, <3>1, <4>1 DEF FitInv, Expected, SameCache, SameJobs, ChunkSent, Straight
      <4>4. Moving'
        BY <2>1, <2>4, <3>1, <3>3, <4>1
        DEF FitInv, Moving, PageUnderWay, ChunkSent, Attached, SameJobs, SameTurn
      <4> QED BY <2>6, <2>8, <3>2, <4>2, <4>3, <4>4 DEF FitInv
    <3>4. CASE chunkIndex + 1 < chunkTotal /\ conn = current /\ down' = Append(down, c)
      <4>1. Elements(down') = Elements(down) \cup {c}
        BY <3>4, DownGrows DEF EpochInv
      <4>2. InOrder'
        BY <2>1, <2>2, <3>4, <1>InOrderSends DEF FitInv, EpochInv
      <4>3. Straight /\ ~failed => fragments = chunkIndex + 1
        BY <2>1, <2>3, <2>10, <3>4 DEF FitInv, Expected
      <4>4. Expected'
        BY <2>1, <2>2, <2>4, <3>1, <4>1, <4>3
        DEF FitInv, Expected, SameCache, SameJobs, ChunkSent, Straight
      <4>5. Moving'
        BY <2>1, <2>2, <4>1 DEF Moving, PageUnderWay
      <4> QED BY <2>6, <2>8, <3>2, <4>2, <4>4, <4>5 DEF FitInv
    <3> QED BY <2>10, <3>3, <3>4
  <2> QED BY <2>1, <2>9, <2>10
<1>RecvJobFits. KeepsFit(RecvJob)
  <2> SUFFICES ASSUME EpochInv, StreamInv, FitInv, RecvJob PROVE FitInv'
    BY DEF KeepsFit
  <2> DEFINE m == Head(up)
  <2>1. /\ SameCache /\ SameJobs /\ SameTurn /\ SameSession /\ UNCHANGED <<localRev, down>>
        /\ up # <<>> /\ up' = Tail(up) /\ jobs' = Append(jobs, m) /\ m.type # "chunk_ack"
    BY
    DEF RecvJob, Receiving, SameCache, SameJobs, SameTurn, SameSession, pageVars, epochVars,
        handlerVars, chunkVars, edgeVars, cacheVars, linkVars, recvVars, workVars
  <2>2. m = up[1] /\ Elements(up) = Elements(up') \cup {m} /\ Elements(jobs') = Elements(jobs) \cup {m}
    BY <2>1, <1>UpShrinks, AppendFacts DEF EpochInv, Answered
  <2> HIDE DEF m
  <2>3. /\ Answers' = Answers /\ Resets' = Resets /\ Pages' = Pages /\ Elements(down') = Elements(down)
        /\ (Attached' <=> Attached) /\ (ChunkSent' <=> ChunkSent)
    BY <2>1, <2>2
    DEF Elements, Answers, Resets, Pages, IsReset, IsPage, Attached, ChunkSent, SameJobs, SameTurn
  <2>4. Latest' /\ Unfilled' /\ Silent' /\ InOrder' /\ Serving'
    BY <2>1, <2>3, <1>CacheFrame, <1>SilentFrame, <1>InOrderFrame, <1>ServingFrame
    DEF FitInv, SameCache, SameJobs, SameTurn, SameSession
  <2>5. Fitting' /\ Expected'
    BY <2>1, <2>2, <2>3, <1>FittingFrame, <1>ExpectedFrame DEF FitInv, SameSession
  <2>6. (ResetDue => ResetDue') /\ (PageUnderWay => PageUnderWay')
    BY <2>1, <2>2, <2>3 DEF ResetDue, PageUnderWay, SameSession
  <2>7. Opening' /\ Moving'
    BY <2>1, <2>6, <1>TokenFrame DEF FitInv, SameJobs
  <2>8. Collected'
    <3>1. \A n \in 1..Len(up) : LastAcked(n) => LastAcked(n - 1)'
      BY <2>1, <2>2, <1>LastAckedMoves DEF SameSession
    <3>2. /\ Len(up) \in 1..Len(up) /\ Len(up') = Len(up) - 1 /\ 1 \in DOMAIN up
          /\ \A i \in DOMAIN up' : i + 1 \in DOMAIN up /\ i \in 1..Len(up) /\ (i + 1) - 1 = i /\ up'[i] = up[i + 1]
      BY <2>1, <1>UpShrinks, SMT, Z3 DEF EpochInv
    <3>3. Attached' /\ worker' # GivenUp => \A w \in Pages' : w.epoch = epoch' => LastAcked(Len(up))'
      BY <2>1, <2>3, <3>1, <3>2 DEF FitInv, Collected, SameJobs, SameSession
    <3>4. \A i \in DOMAIN up' : up'[i].type = "ack" /\ up'[i].epoch = epoch' /\ up'[i].rev = pageRev' => LastAcked(i - 1)'
      <4>1. ASSUME NEW i \in DOMAIN up', up'[i].type = "ack", up'[i].epoch = epoch, up'[i].rev = pageRev PROVE LastAcked(i)
        BY <3>2, <4>1 DEF FitInv, Collected
      <4> QED BY <2>1, <3>1, <3>2, <4>1 DEF SameSession
    <3>5. m.type = "ack" /\ m.epoch = epoch /\ m.rev = pageRev => chunkIndex = chunkTotal
      <4>1. LastAcked(1 - 1) => chunkIndex = chunkTotal
        BY SMT, Z3 DEF LastAcked
      <4> QED BY <2>2, <3>2, <4>1 DEF FitInv, Collected
    <3>6. \A k \in Elements(jobs') : k.type = "ack" /\ k.epoch = epoch' /\ k.rev = pageRev' => chunkIndex' = chunkTotal'
      BY <2>1, <2>2, <3>5 DEF FitInv, Collected, SameSession
    <3> QED BY <3>3, <3>4, <3>6 DEF Collected
  <2> QED BY <2>4, <2>5, <2>7, <2>8 DEF FitInv
<1>AcceptCacheClearedFits. KeepsFit(AcceptCacheCleared)
  <2> SUFFICES ASSUME EpochInv, StreamInv, FitInv, AcceptCacheCleared PROVE FitInv'
    BY DEF KeepsFit
  <2> DEFINE m == Head(jobs)
  <2>1. /\ SameCache /\ SameJobs /\ SameTurn /\ UNCHANGED <<localRev, up, down, epoch, chunkIndex,
                                                            chunkTotal, stuck>>
        /\ current # 0 /\ jobs # <<>> /\ jobs' = Tail(jobs) /\ m.type = "cleared"
        /\ \/ UNCHANGED <<ready, baseline, pageRev, pageEnd, appliedRev>> /\ ~(m.epoch = epoch /\ ~ready)
           \/ m.epoch = epoch /\ ~ready /\ ready' = TRUE /\ baseline' = TRUE /\ pageRev' = 0 /\ appliedRev' = 0
    BY
    DEF AcceptCacheCleared, JobIs, ClearedNow, NoPage, SameCache, SameJobs, SameTurn, pageVars,
        handlerVars, edgeVars, cacheVars, linkVars, recvVars, workVars
  <2>2. Elements(jobs) = Elements(jobs') \cup {m} /\ Elements(up') = Elements(up) /\ Elements(down') = Elements(down)
    BY <2>1, <1>TailElements DEF EpochInv, Answered, Elements
  <2> HIDE DEF m
  <2>3. /\ Answers = Answers' \cup {m} /\ Resets' = Resets /\ Pages' = Pages /\ (Attached' <=> Attached)
        /\ (ChunkSent' <=> ChunkSent) /\ (Straight' <=> Straight) /\ \A k \in Elements(up) : k \in Answers
    BY <2>1, <2>2
    DEF Answers, Resets, Pages, IsReset, IsPage, Attached, ChunkSent, Straight, SameJobs, SameTurn
  <2>4. Serving' /\ Silent' /\ InOrder'
    BY <2>1, <2>3, <1>ServingFrame, <1>SilentFrame, <1>InOrderFrame
    DEF FitInv, SameCache, SameJobs, SameTurn
  <2>5. CASE UNCHANGED <<ready, baseline, pageRev, pageEnd, appliedRev>> /\ ~(m.epoch = epoch /\ ~ready)
    <3>1. Latest' /\ Unfilled' /\ Fitting' /\ Collected' /\ Expected'
      BY <2>1, <2>2, <2>3, <2>5, <1>CacheFrame, <1>FittingFrame, <1>CollectedFrame,
         <1>ExpectedFrame
      DEF FitInv, SameJobs
    <3>2. Opening'
      <4>1. ~ready /\ ResetDue => ResetDue'
        BY <2>1, <2>2, <2>3, <2>5 DEF ResetDue
      <4> QED BY <2>1, <2>3, <2>5, <4>1 DEF FitInv, Opening, SameJobs, SameTurn
    <3>3. Moving'
      <4>1. PageUnderWay => PageUnderWay'
        BY <2>1, <2>2, <2>3, <2>5 DEF PageUnderWay
      <4> QED BY <2>1, <2>3, <2>5, <4>1 DEF FitInv, Moving, SameJobs, SameTurn
    <3> QED BY <2>4, <3>1, <3>2, <3>3 DEF FitInv
  <2>6. CASE m.epoch = epoch /\ ~ready /\ ready' = TRUE /\ baseline' = TRUE /\ pageRev' = 0 /\ appliedRev' = 0
    <3>1. pageRev = 0 /\ edgeEpoch = epoch
      BY <2>3, <2>6, SMT, Z3 DEF EpochInv, Epochs, Opened, Answered
    <3>2. /\ \A k \in Elements(up) : k.type = "chunk_ack" => k.epoch # epoch
          /\ \A k \in Answers : k.type = "ack" => k.epoch # epoch
      BY <2>6 DEF FitInv, Fitting
    <3>3. worker # GivenUp => \A w \in Pages : w.epoch # epoch
      BY <3>1 DEF StreamInv, Paged, Current
    <3>4. Latest' /\ Unfilled' /\ Opening' /\ Moving'
      BY <2>1, <2>6 DEF FitInv, Latest, Unfilled, Opening, Moving, SameCache
    <3>5. Fitting' /\ Expected'
      BY <2>1, <2>2, <2>3, <3>2 DEF FitInv, Fitting, Expected, SameCache, SameJobs
    <3>6. Collected'
      <4>1. \A i \in DOMAIN up : up[i] \in Answers
        BY DEF Elements, Answers
      <4>2. \A k \in Elements(jobs') : k \in Answers
        BY <2>2 DEF Answers
      <4> QED BY <2>1, <2>2, <2>3, <3>2, <3>3, <4>1, <4>2 DEF Collected, SameJobs
    <3> QED BY <2>4, <3>4, <3>5, <3>6 DEF FitInv
  <2> QED BY <2>1, <2>5, <2>6
<1>ConfirmIdentityFits. KeepsFit(ConfirmIdentity)
  <2> SUFFICES ASSUME EpochInv, StreamInv, FitInv, ConfirmIdentity PROVE FitInv'
    BY DEF KeepsFit
  <2> DEFINE m == Head(jobs)
             c == Confirmed(epoch, m.rev, ~baseline \/ pageEnd)
  <2>1. /\ SameCache /\ SameJobs /\ SameTurn /\ UNCHANGED <<localRev, up, epoch, ready, chunkIndex,
                                                            chunkTotal, stuck>>
        /\ current # 0 /\ jobs # <<>> /\ jobs' = Tail(jobs) /\ m.type = "ack"
        /\ \/ UNCHANGED <<baseline, pageRev, pageEnd, appliedRev, down>> /\ AckStale(m)
           \/ /\ m.epoch = epoch /\ m.rev = pageRev /\ appliedRev' = pageRev /\ pageRev' = 0 /\ baseline' = (baseline /\ ~pageEnd)
              /\ down' = IF conn = current THEN Append(down, c) ELSE down
    BY
    DEF ConfirmIdentity, JobIs, AckStale, AckDue, SendDown, NoPage, SameCache, SameJobs, SameTurn,
        pageVars, handlerVars, edgeVars, cacheVars, linkVars, recvVars, workVars
  <2>2. c.type = "confirmed" /\ c.rev = m.rev
    BY DEF Confirmed
  <2>3. Elements(jobs) = Elements(jobs') \cup {m} /\ Elements(up') = Elements(up) /\ m \in Answers
    BY <2>1, <1>TailElements DEF EpochInv, Answered, Elements, Answers
  <2> HIDE DEF m, c
  <2>4. /\ Answers = Answers' \cup {m} /\ Resets' = Resets /\ Pages' = Pages /\ (Attached' <=> Attached)
        /\ (Straight' <=> Straight) /\ \A k \in Elements(up) : k \in Answers
    BY <2>1, <2>3
    DEF Answers, Resets, Pages, IsReset, IsPage, Attached, Straight, SameJobs, SameTurn
  <2>5. CASE UNCHANGED <<baseline, pageRev, pageEnd, appliedRev, down>> /\ AckStale(m)
    <3>1. Elements(down') = Elements(down) /\ (ChunkSent' <=> ChunkSent)
      BY <2>5 DEF Elements, ChunkSent
    <3>2. Serving' /\ Latest' /\ Unfilled' /\ Silent' /\ InOrder'
      BY <2>1, <2>4, <2>5, <3>1, <1>ServingFrame, <1>CacheFrame, <1>SilentFrame, <1>InOrderFrame
      DEF FitInv, SameCache, SameJobs, SameTurn
    <3>3. Fitting' /\ Collected' /\ Expected'
      BY <2>1, <2>3, <2>4, <2>5, <1>FittingFrame, <1>CollectedFrame, <1>ExpectedFrame
      DEF FitInv, SameJobs
    <3>4. ~(m.epoch = epoch /\ m.rev = pageRev)
      BY <2>1, <2>3, <2>5, AckMeansApplied, SMT, Z3 DEF AckStale, EpochInv, Opened
    <3>5. (ResetDue => ResetDue') /\ (PageUnderWay => PageUnderWay')
      BY <2>1, <2>3, <2>4, <2>5, <3>1, <3>4 DEF ResetDue, PageUnderWay
    <3>6. Opening' /\ Moving'
      BY <2>1, <2>5, <3>5, <1>TokenFrame DEF FitInv, SameJobs, SameSession
    <3> QED BY <3>2, <3>3, <3>6 DEF FitInv
  <2>6. ASSUME m.epoch = epoch, m.rev = pageRev, appliedRev' = pageRev, pageRev' = 0, baseline' = (baseline /\ ~pageEnd),
               down' = IF conn = current THEN Append(down, c) ELSE down
        PROVE  FitInv'
    <3>1. /\ edgeEpoch = epoch /\ pageRev \in 1..revision /\ ready /\ (entered => pageRev <= lastRevision)
          /\ (Attached /\ ~failed => entered) /\ (worker # GivenUp => Pages = {}) /\ appliedRev \in Nat /\ appliedRev < pageRev
      <4>1. /\ edgeEpoch = epoch /\ pageRev \in 1..revision /\ ready /\ (entered => pageRev <= lastRevision)
            /\ (Attached /\ ~failed => entered) /\ (worker # GivenUp => Pages = {})
        BY <2>1, <2>3, <2>6, AckMeansApplied
      <4>2. appliedRev \in Nat /\ appliedRev < pageRev
        BY <4>1, SMTT(30), Z3T(30) DEF EpochInv, Opened
      <4> QED BY <4>1, <4>2
    <3>2. /\ lastRevision \in Nat /\ revision \in Nat
          /\ \A r \in 1..revision : r # 0 /\ (r <= appliedRev \/ r = pageRev => r <= pageRev)
      BY <3>1, SMT, Z3 DEF StreamInv, Typed, EpochInv, Opened
    <3>3. /\ \A k \in Elements(up) : k.type = "chunk_ack" => k.rev \in 1..revision
          /\ \A k \in Answers : k.type = "ack" => k.rev \in 1..revision
      BY DEF StreamInv, Fragmented, Acked
    <3>4. Serving' /\ Silent' /\ Opening' /\ Moving'
      <4>1. ~(Straight /\ stage = "greet")
        BY <2>1, <3>1 DEF StreamInv, Greeting
      <4> QED BY <2>1, <2>4, <2>6, <3>1, <4>1
        DEF Serving, Silent, Opening, Moving, SameCache, SameJobs, SameTurn
    <3>5. Latest' /\ Unfilled'
      <4>1. entered => (baseline /\ ~pageEnd => resetPending) /\ lastRevision # 0
        BY <3>1, <3>2, SMT, Z3 DEF FitInv, Unfilled
      <4>2. (baseline' => baseline /\ ~pageEnd) /\ ready'
        BY <2>1, <2>6, <3>1
      <4> QED BY <2>1, <2>6, <4>1, <4>2 DEF FitInv, Latest, Unfilled, SameCache
    <3>6. Fitting'
      BY <2>1, <2>3, <2>4, <2>6, <3>2, <3>3 DEF FitInv, Fitting
    <3>7. Collected'
      <4>1. \A i \in DOMAIN up : up[i] \in Answers
        BY DEF Elements, Answers
      <4>2. \A k \in Elements(jobs') : k \in Answers
        BY <2>3 DEF Answers
      <4> QED BY <2>1, <2>4, <2>6, <3>1, <3>2, <3>3, <4>1, <4>2 DEF Collected, SameJobs
    <3>8. InOrder'
      BY <2>1, <2>2, <2>6, <1>InOrderFrame, <1>InOrderSends DEF FitInv, EpochInv
    <3>9. Expected'
      <4>1. Attached => Elements(down') = Elements(down) \cup {c}
        BY <2>6, DownGrows DEF EpochInv, Attached
      <4>2. Attached /\ ~failed => pageRev = lastRevision
        BY <3>1, <3>2, SMT, Z3 DEF FitInv, Latest
      <4>3. \A k \in Elements(up') : ~(k.type = "chunk_ack" /\ k.rev = pageRev')
        BY <2>3, <2>6, <3>2, <3>3
      <4> QED BY <2>1, <2>2, <2>4, <2>6, <3>1, <4>1, <4>2, <4>3
        DEF FitInv, Expected, Straight, SameCache, SameJobs
    <3> QED BY <3>4, <3>5, <3>6, <3>7, <3>8, <3>9 DEF FitInv
  <2> QED BY <2>1, <2>5, <2>6

(* The edge *)
\* Without a stream, or after a job failed, the edge counts for nothing.
<1>LeaveFits. KeepsFit(Join \/ Crash \/ Discard \/ Connect \/ JobFails)
  <2> SUFFICES ASSUME EpochInv, StreamInv, FitInv, Join \/ Crash \/ Discard \/ Connect \/ JobFails PROVE FitInv'
    BY DEF KeepsFit
  <2>1. UNCHANGED <<up, jobs, epoch, ready, current, stage, crossed, pageRev, appliedRev, chunkIndex,
                    chunkTotal>>
    BY
    DEF Join, Crash, Discard, Connect, JobFails, ctlVars, pageVars, epochVars, handlerVars,
        chunkVars
  <2>2. ~entered' /\ (~Attached' \/ (failed' = TRUE /\ worker' = GivenUp /\ worker # None /\ UNCHANGED conn))
    <3>1. CASE Join \/ Crash \/ Discard
      <4>1. conn' = 0 /\ ~entered'
        <5>1. (~Live => conn = 0) /\ (Idle => ~entered)
          BY DEF StreamInv, Life, Idle
        <5>2. Discard => ~Live /\ Idle
          BY SMT, Z3 DEF Discard, Live, StreamInv, Life
        <5>3. (Discard /\ conn' = conn /\ (entered' => entered)) \/ (conn' = 0 /\ ~entered')
          BY <3>1 DEF Join, Crash, Discard, ConnectionGone
        <5> QED BY <5>1, <5>2, <5>3
      <4> QED BY <4>1 DEF Attached
    <3>2. CASE Connect
      <4>1. conn' = streams + 1 /\ streams \in Nat /\ current \in 0..streams /\ ~entered'
        BY <3>2 DEF Connect, cacheVars, StreamInv, Life, Live, Idle
      <4> QED BY <2>1, <4>1, SMT, Z3 DEF Attached
    <3>3. CASE JobFails
      BY <3>3 DEF JobFails, GivenUp, linkVars
    <3> QED BY <3>1, <3>2, <3>3
  <2>3. Elements(up') = Elements(up) /\ Elements(jobs') = Elements(jobs) /\ Answers' = Answers
    BY <2>1 DEF Elements, Answers
  <2>4. Serving' /\ Latest' /\ Unfilled' /\ InOrder' /\ Expected' /\ Opening' /\ Moving'
    BY <2>2 DEF Serving, Latest, Unfilled, InOrder, Expected, Opening, Moving, Straight
  <2>5. Fitting' /\ Collected'
    BY <2>1, <2>2, <2>3, <1>FittingFrame DEF FitInv, Collected, LastAcked
  <2>6. Silent'
    BY <2>1, <2>2 DEF FitInv, Silent, Straight, Attached, Idle
  <2> QED BY <2>4, <2>5, <2>6 DEF FitInv
\* The edge reads a message: those behind it move up.
<1>InOrderTakes.
    ASSUME Ordered, InOrder, SameCache, SameTurn, UNCHANGED recvEpoch, down # <<>>, down' = Tail(down), Resets' = Resets,
           IsReset(buffer') /\ IsReset(worker') => IsReset(buffer) /\ IsReset(worker) /\ UNCHANGED <<buffer,
                                                                                                     worker>>,
           ~failed
    PROVE  InOrder'
  <2> USE <1>InOrderTakes
  <2>1. /\ Elements(down') \subseteq Elements(down)
        /\ \A i \in DOMAIN down' : i \in Nat /\ i + 1 \in DOMAIN down /\ down'[i] = down[i + 1]
    BY DownShrinks
  <2>2. \A i, j \in DOMAIN down' : i < j => i + 1 < j + 1
    BY <2>1, SMT, Z3
  <2>3. Straight' <=> Straight
    BY DEF Straight, Attached, SameTurn
  <2>4. Straight => \A i, j \in DOMAIN down' : down'[i].type = "welcome" /\ down'[j].type = "welcome" /\ i < j => down'[i].epoch < down'[j].epoch
    <3>1. ASSUME Straight, NEW i \in DOMAIN down', NEW j \in DOMAIN down',
                 down'[i].type = "welcome", down'[j].type = "welcome", i < j
          PROVE  down'[i].epoch < down'[j].epoch
      <4>1. i + 1 \in DOMAIN down /\ down'[i] = down[i + 1] /\ j + 1 \in DOMAIN down /\ down'[j] = down[j + 1] /\ i + 1 < j + 1
        BY <2>1, <2>2, <3>1
      <4>2. down[i + 1].type = "welcome" /\ down[j + 1].type = "welcome"
        BY <3>1, <4>1
      <4>3. down[i + 1].epoch < down[j + 1].epoch
        BY <3>1, <4>1, <4>2 DEF InOrder
      <4> QED BY <4>1, <4>3
    <3> QED BY <3>1
  <2> QED BY <2>1, <2>3, <2>4 DEF InOrder, SameCache, IsReset
<1>RecvWelcomeFits. KeepsFit(RecvWelcome)
  <2> SUFFICES ASSUME EpochInv, StreamInv, FitInv, RecvWelcome PROVE FitInv'
    BY DEF KeepsFit
  <2> DEFINE m == Head(down)
             job == [type |-> "reset", epoch |-> m.epoch]
  <2>1. /\ SameCache /\ SameTurn /\ SameSession /\ UNCHANGED <<localRev, up, jobs, worker>>
        /\ ~failed /\ down # <<>> /\ m.type = "welcome" /\ down' = Tail(down) /\ recvEpoch' = m.epoch
        /\ \/ buffer = None /\ buffer' = job /\ failed' = FALSE
           \/ buffer' = buffer /\ failed' = TRUE
    BY
    DEF RecvWelcome, Arrives, QueueApply, SameCache, SameTurn, SameSession, ctlVars, pageVars,
        epochVars, handlerVars, chunkVars, cacheVars, linkVars
  <2>2. /\ m \in Elements(down) /\ 1 \in DOMAIN down /\ m = down[1] /\ Elements(down) = Elements(down') \cup {m}
        /\ \A i \in DOMAIN down' : i \in Nat /\ 0 < i /\ i + 1 \in DOMAIN down /\ down'[i] = down[i + 1]
    BY <2>1, DownShrinks, <1>TailElements DEF EpochInv, Ordered
  <2>3. m.epoch \in 1..epoch /\ epoch \in Nat /\ edgeEpoch \in Nat /\ recvEpoch \in Nat
    BY <2>2, SMT, Z3 DEF EpochInv, Epochs, Ordered
  <2>4. job # None /\ job.type = "reset" /\ job.epoch = m.epoch
    <3>1. m.epoch \in Nat
      BY <2>3, SMT, Z3
    <3> QED BY <3>1, JobsAreSomething
  <2> HIDE DEF m, job
  <2>5. /\ Pages' = Pages /\ (~failed' => Resets' = Resets \cup {job}) /\ Answers' = Answers /\ Elements(up') = Elements(up)
        /\ Elements(jobs') = Elements(jobs) /\ (Attached' <=> Attached) /\ (Straight' <=> Straight) /\ (ChunkSent' => ChunkSent)
    <3>1. Answers' = Answers /\ Elements(up') = Elements(up) /\ Elements(jobs') = Elements(jobs)
      BY <2>1 DEF Answers, Elements
    <3>2. (Attached' <=> Attached) /\ (Straight' <=> Straight) /\ (ChunkSent' => ChunkSent)
      BY <2>1, <2>2 DEF Attached, Straight, SameTurn, ChunkSent
    <3>3. ~IsPage(job) /\ IsReset(job) /\ ~IsPage(None) /\ ~IsReset(None)
      BY <2>4 DEF IsPage, IsReset
    <3>4. Pages' = Pages
      BY <2>1, <3>3 DEF Pages, IsPage
    <3>5. ~failed' => Resets' = Resets \cup {job}
      <4>1. ~failed' => buffer' = job /\ buffer = None /\ worker' = worker
        BY <2>1
      <4>2. /\ Resets = {w \in {buffer, worker} : IsReset(w)}
            /\ Resets' = {w \in {buffer', worker'} : IsReset(w)}
        BY DEF Resets, IsReset
      <4> QED BY <3>3, <4>1, <4>2
    <3> QED BY <3>1, <3>2, <3>4, <3>5
  <2>6. Serving' /\ Latest' /\ Unfilled'
    BY <2>1, <2>5, <1>ServingFrame, <1>CacheFrame DEF FitInv, SameCache, SameTurn, SameSession
  <2>7. Fitting' /\ Collected'
    BY <2>1, <2>5, <1>FittingFrame, <1>CollectedFrame DEF FitInv, SameSession
  <2>8. Silent'
    BY <2>1, <2>5 DEF FitInv, Silent, Idle, SameTurn
  <2>9. Opening' /\ Moving'
    <3>1. ~failed' => (ResetDue => ResetDue')
      BY <2>1, <2>2, <2>4, <2>5 DEF ResetDue, SameSession
    <3>2. PageUnderWay => PageUnderWay'
      BY <2>1, <2>2, <2>5 DEF PageUnderWay, SameSession
    <3> QED BY <2>1, <2>5, <3>1, <3>2 DEF FitInv, Opening, Moving, SameTurn, SameSession
  <2>10. InOrder'
    <3>1. SUFFICES ASSUME Straight, ~failed' PROVE InOrder'
      BY <2>5 DEF InOrder
    <3>2. buffer' = job /\ Resets' = Resets \cup {job} /\ recvEpoch < m.epoch /\ edgeEpoch < m.epoch
      BY <2>1, <2>2, <2>5, <3>1 DEF FitInv, InOrder
    <3>3. ASSUME NEW i \in DOMAIN down', NEW j \in DOMAIN down', down'[i].type = "welcome", down'[j].type = "welcome", i < j
          PROVE  down'[i].epoch < down'[j].epoch
      <4>1. i + 1 \in DOMAIN down /\ down'[i] = down[i + 1] /\ j + 1 \in DOMAIN down /\ down'[j] = down[j + 1]
        BY <2>2
      <4>2. i + 1 < j + 1
        BY <2>2, <3>3, SMT, Z3
      <4>3. down[i + 1].type = "welcome" /\ down[j + 1].type = "welcome"
        BY <3>3, <4>1
      <4>4. down[i + 1].epoch < down[j + 1].epoch
        BY <2>1, <3>1, <4>1, <4>2, <4>3 DEF FitInv, InOrder
      <4> QED BY <4>1, <4>4
    <3>4. ASSUME NEW i \in DOMAIN down', down'[i].type = "welcome" PROVE m.epoch < down'[i].epoch
      <4>1. i + 1 \in DOMAIN down /\ down'[i] = down[i + 1] /\ down[1].type = "welcome"
        BY <2>1, <2>2
      <4>2. 1 < i + 1
        BY <2>2, SMT, Z3
      <4>3. down[i + 1].type = "welcome"
        BY <3>4, <4>1
      <4>4. down[1].epoch < down[i + 1].epoch
        BY <2>1, <2>2, <3>1, <4>1, <4>2, <4>3 DEF FitInv, InOrder
      <4> QED BY <2>2, <4>1, <4>4
    <3>5. \A k \in Elements(down') : k.type = "welcome" => recvEpoch' < k.epoch /\ edgeEpoch < k.epoch
      <4>1. \A k \in Elements(down') : k.type = "welcome" => m.epoch < k.epoch
        BY <3>4 DEF Elements
      <4> QED BY <2>1, <2>2, <3>1, <4>1 DEF FitInv, InOrder
    <3>6. \A w \in Resets : edgeEpoch < w.epoch /\ w.epoch < m.epoch /\ w.epoch <= m.epoch
      <4>1. \A w \in Resets : edgeEpoch < w.epoch /\ w.epoch <= recvEpoch /\ w.epoch \in Nat
        BY <2>1, <3>1, SMT, Z3 DEF FitInv, InOrder, EpochInv, Queued, Resets, IsReset
      <4> QED BY <2>3, <3>2, <4>1, SMTT(30), Z3T(30)
    <3>7. IsReset(worker) => worker.epoch < m.epoch
      BY <3>6 DEF Resets
    <3>8. recvEpoch' # 0 /\ m.epoch <= m.epoch
      BY <2>1, <2>3, SMT, Z3
    <3>9. \A w \in Resets' : edgeEpoch < w.epoch /\ w.epoch <= recvEpoch'
      BY <2>1, <2>4, <3>2, <3>6, <3>8
    <3>10. Resets' # {} /\ (IsReset(worker') => worker'.epoch < buffer'.epoch)
      BY <2>1, <2>4, <3>2, <3>7 DEF IsReset
    <3> QED BY <2>1, <3>3, <3>5, <3>8, <3>9, <3>10 DEF InOrder, SameCache
  <2>11. Expected'
    <3>1. SUFFICES ASSUME Straight PROVE Expected'
      BY <2>5 DEF Expected
    <3>2. edgeEpoch < m.epoch
      BY <2>1, <2>2, <3>1 DEF FitInv, InOrder
    <3>3. ~ready
      BY <2>3, <3>2, SMT, Z3 DEF EpochInv, Opened
    <3>4. \A i \in DOMAIN down' : down'[i].type = "welcome"
      <4>1. ASSUME NEW i \in DOMAIN down', down'[i].type # "welcome" PROVE FALSE
        <5>1. i + 1 \in DOMAIN down /\ down[i + 1].type # "welcome" /\ down[1].type = "welcome"
          BY <2>1, <2>2, <4>1
        <5>2. 1 < i + 1 /\ ~(m.epoch < edgeEpoch)
          BY <2>2, <2>3, <3>2, SMT, Z3
        <5> QED BY <2>1, <2>2, <5>1, <5>2 DEF StreamInv, Passing
      <4> QED BY <4>1
    <3>5. \A k \in Elements(down') : k.type = "welcome"
      BY <3>4 DEF Elements
    <3> QED BY <2>1, <2>5, <3>1, <3>3, <3>5 DEF FitInv, Fitting, Expected, SameSession
  <2> QED BY <2>6, <2>7, <2>8, <2>9, <2>10, <2>11 DEF FitInv
\* The edge sends a message: the acknowledgements before it stay where they are.
<1>UpExtends.
    ASSUME Answered, NEW a, up' = up \/ up' = Append(up, a), UNCHANGED jobs
    PROVE  /\ Elements(up) \subseteq Elements(up') /\ Answers \subseteq Answers' /\ Elements(jobs') = Elements(jobs)
           /\ Len(up) \in Nat /\ DOMAIN up = 1..Len(up) /\ \A i \in 1..Len(up) : up'[i] = up[i]
           /\ up' = Append(up, a) =>
                /\ DOMAIN up' = 1..(Len(up) + 1) /\ Len(up') = Len(up) + 1 /\ up'[Len(up) + 1] = a
                /\ a \in Elements(up') /\ a \in Answers'
  <2> USE <1>UpExtends
  <2>1. Len(up) \in Nat /\ DOMAIN up = 1..Len(up)
    BY SMT, Z3 DEF Answered
  <2>2. /\ up' = Append(up, a) => DOMAIN up' = 1..(Len(up) + 1) /\ Len(up') = Len(up) + 1 /\ up'[Len(up) + 1] = a
        /\ \A i \in 1..Len(up) : up'[i] = up[i]
    BY <2>1, SMTT(30), Z3T(30) DEF Answered
  <2>3. Elements(jobs') = Elements(jobs) /\ Elements(up) \subseteq Elements(up') /\ (up' = Append(up, a) => a \in Elements(up'))
    BY AppendFacts, SMTT(30), Z3T(30) DEF Answered, Elements
  <2> QED BY <2>1, <2>2, <2>3 DEF Answers
<1>CollectedExtends.
    ASSUME Answered, Collected, NEW a, up' = up \/ up' = Append(up, a), UNCHANGED <<jobs, epoch,
                                                                                    pageRev,
                                                                                    chunkIndex,
                                                                                    chunkTotal>>,
           up' = Append(up, a) /\ a.type = "ack" /\ a.epoch = epoch /\ a.rev = pageRev => LastAcked(Len(up)),
           Attached' /\ worker' # GivenUp => \A w \in Pages' : w.epoch = epoch => LastAcked(Len(up))'
    PROVE  Collected'
  <2> USE <1>CollectedExtends
  <2>1. /\ Elements(jobs') = Elements(jobs) /\ Len(up) \in Nat /\ DOMAIN up = 1..Len(up) /\ \A i \in 1..Len(up) : up'[i] = up[i]
        /\ up' = Append(up, a) => DOMAIN up' = 1..(Len(up) + 1) /\ up'[Len(up) + 1] = a
    BY <1>UpExtends
  <2>2. \A n \in 0..Len(up) : LastAcked(n) => LastAcked(n)'
    <3>1. \A n \in 0..Len(up) : \A j \in 1..n : j \in 1..Len(up) /\ up'[j] = up[j]
      BY <2>1, SMT, Z3
    <3> QED BY <3>1 DEF LastAcked
  <2>3. \A i \in DOMAIN up' : up'[i].type = "ack" /\ up'[i].epoch = epoch' /\ up'[i].rev = pageRev' => LastAcked(i - 1)'
    <3>1. SUFFICES ASSUME NEW i \in DOMAIN up', up'[i].type = "ack", up'[i].epoch = epoch, up'[i].rev = pageRev PROVE LastAcked(i - 1)'
      OBVIOUS
    <3>2. CASE i \in 1..Len(up)
      <4>1. i - 1 \in 0..Len(up)
        BY <2>1, <3>2, SMT, Z3
      <4>2. up[i].type = "ack" /\ up[i].epoch = epoch /\ up[i].rev = pageRev
        BY <2>1, <3>1, <3>2
      <4>3. LastAcked(i - 1)
        BY <2>1, <3>2, <4>2 DEF Collected
      <4> QED BY <2>2, <4>1, <4>3
    <3>3. CASE up' = Append(up, a) /\ i = Len(up) + 1
      <4>1. LastAcked(i - 1) /\ i - 1 \in 0..Len(up)
        <5>1. i - 1 = Len(up) /\ Len(up) \in 0..Len(up)
          BY <2>1, <3>3, SMT, Z3
        <5>2. LastAcked(Len(up))
          BY <2>1, <3>1, <3>3
        <5> QED BY <5>1, <5>2
      <4> QED BY <2>2, <4>1
    <3>4. \A k \in 1..(Len(up) + 1) : k \in 1..Len(up) \/ k = Len(up) + 1
      BY <2>1, SMT, Z3
    <3> QED BY <2>1, <3>1, <3>2, <3>3, <3>4
  <2> QED BY <2>1, <2>3 DEF Collected
<1>RecvChunkFits. KeepsFit(RecvChunk)
  <2> SUFFICES ASSUME EpochInv, StreamInv, FitInv, RecvChunk PROVE FitInv'
    BY DEF KeepsFit
  <2> DEFINE m == Head(down)
             ack == ChunkAck(m.epoch, m.rev, m.index)
             job == [type |-> "page", epoch |-> m.epoch, rev |-> m.rev, body |-> m.body]
  <2>1. /\ SameCache /\ SameTurn /\ SameSession /\ UNCHANGED <<localRev, jobs, worker, recvEpoch>>
        /\ ~failed /\ down # <<>> /\ m.type = "chunk" /\ down' = Tail(down)
    BY
    DEF RecvChunk, Arrives, SameCache, SameTurn, SameSession, ctlVars, pageVars, epochVars,
        handlerVars, chunkVars, cacheVars, linkVars
  <2>2. \/ failed' = TRUE /\ UNCHANGED <<buffer, up>>
        \/ /\ m.index = fragments /\ up' = IF conn = current THEN Append(up, ack) ELSE up
           /\ \/ m.index + 1 # m.total /\ fragments' = fragments + 1 /\ UNCHANGED <<failed, buffer>>
              \/ m.index + 1 = m.total /\ buffer = None /\ buffer' = job /\ failed' = FALSE
              \/ buffer' = buffer /\ failed' = TRUE
    BY DEF RecvChunk, ChunkFits, FragmentsAfter, QueueApply, SendUp
  <2>3. /\ m \in Elements(down) /\ 1 \in DOMAIN down /\ m = down[1] /\ Elements(down) = Elements(down') \cup {m}
        /\ \A i \in DOMAIN down' : i \in Nat /\ 0 < i /\ i + 1 \in DOMAIN down /\ down'[i] = down[i + 1]
    BY <2>1, DownShrinks, <1>TailElements DEF EpochInv, Ordered
  <2>4. /\ Pages = {} /\ m.epoch \in Nat /\ m.rev \in Nat /\ m.body \in Bodies /\ chunkIndex \in Nat /\ chunkTotal \in Nat
        /\ m.epoch = epoch => /\ m.rev = pageRev /\ pageRev # 0 /\ ready /\ m.index = chunkIndex
                              /\ chunkIndex < chunkTotal /\ m.total = chunkTotal
    <3>1. m.rev \in 1..revision /\ revision \in Nat /\ m.epoch \in 1..epoch /\ epoch \in Nat
      BY <2>1, <2>3 DEF StreamInv, Chunked, EpochInv, Ordered, Epochs, Opened
    <3>2. Pages = {} /\ m.body \in Bodies /\ chunkIndex \in Nat /\ chunkTotal \in Nat
      BY <2>1, <2>3 DEF StreamInv, Passing, Chunked, Typed
    <3>3. m.epoch = epoch => /\ m.rev = pageRev /\ pageRev # 0 /\ ready /\ m.index = chunkIndex
                             /\ chunkIndex < chunkTotal /\ m.total = chunkTotal
      BY <2>1, <2>3 DEF StreamInv, Chunked, Current, EpochInv, Opened
    <3>4. m.rev \in Nat /\ m.epoch \in Nat
      BY <3>1, SMT, Z3
    <3> QED BY <3>2, <3>3, <3>4
  <2>5. \A k \in Elements(down') : k.type = "welcome"
    <3>1. SUFFICES ASSUME NEW i \in DOMAIN down' PROVE down'[i].type = "welcome"
      BY DEF Elements
    <3>2. i + 1 \in DOMAIN down /\ ~(i + 1 < 1) /\ i + 1 # 1 /\ down'[i] = down[i + 1] /\ down[i + 1] \in Elements(down)
      BY <2>3, SMT, Z3 DEF Elements
    <3>3. down[i + 1].type # "chunk"
      BY <2>1, <2>3, <3>2 DEF StreamInv, Chunked
    <3>4. down[i + 1].type # "confirmed"
      BY <2>1, <2>3, <3>2 DEF StreamInv, Confirming
    <3> QED BY <3>2, <3>3, <3>4 DEF EpochInv, Ordered
  <2>6. ack.type = "chunk_ack" /\ ack.epoch = m.epoch /\ ack.rev = m.rev /\ ack.index = m.index
    BY DEF ChunkAck
  <2>7. job # None /\ job.type = "page" /\ job.epoch = m.epoch
    BY <2>4, JobsAreSomething
  <2> HIDE DEF m, ack, job
  <2>8. /\ Resets' = Resets /\ (buffer' = buffer => Pages' = {}) /\ (buffer' = job => Pages' = {job}) /\ ~IsReset(job)
        /\ ChunkSent /\ (Attached' <=> Attached) /\ (Straight' <=> Straight)
    BY <2>1, <2>2, <2>3, <2>4, <2>7
    DEF Resets, Pages, IsPage, IsReset, ChunkSent, Attached, Straight, SameTurn
  <2>9. /\ Elements(up) \subseteq Elements(up') /\ Elements(up') \subseteq Elements(up) \cup {ack}
        /\ Answers \subseteq Answers' /\ Answers' \subseteq Answers \cup {ack} /\ (up' = up \/ up' = Append(up, ack))
    <3>1. up' = up \/ up' = Append(up, ack)
      BY <2>2
    <3> QED BY <2>1, <3>1, UpGrows, <1>UpExtends DEF EpochInv
  <2>10. Serving' /\ Latest' /\ Unfilled' /\ Silent'
    BY <2>1, <2>8, <1>ServingFrame, <1>CacheFrame
    DEF FitInv, SameCache, SameTurn, SameSession, Silent, Idle
  <2>11. Fitting'
    <3>1. up' # up => m.index \in Nat /\ (m.epoch = epoch => m.index <= chunkIndex /\ m.index < chunkTotal)
      BY <2>2, <2>4, SMT, Z3 DEF StreamInv, Typed
    <3>2. CASE up' = up
      BY <2>1, <3>2, <1>FittingFrame DEF FitInv, SameSession, Elements, Answers
    <3>3. CASE up' # up
      <4>1. /\ ack.type = "chunk_ack" /\ ack.index \in Nat
            /\ ack.epoch = epoch => ready /\ ack.rev = pageRev /\ ack.index <= chunkIndex /\ ack.index < chunkTotal
        BY <2>4, <2>6, <3>1, <3>3
      <4> QED BY <2>1, <2>9, <4>1 DEF FitInv, Fitting, SameSession
    <3> QED BY <3>2, <3>3
  <2>12. Collected'
    <3>1. Attached' /\ worker' # GivenUp => \A w \in Pages' : w.epoch = epoch => LastAcked(Len(up))'
      <4>1. SUFFICES ASSUME Attached, Pages' # {}, m.epoch = epoch PROVE LastAcked(Len(up))'
        BY <2>2, <2>7, <2>8
      <4>2. up' = Append(up, ack) /\ m.index + 1 = m.total
        BY <2>2, <2>8, <4>1 DEF Attached
      <4>3. Len(up') \in 1..Len(up') /\ up'[Len(up')] = ack
        BY <2>1, <4>2, <1>UpExtends, SMT, Z3 DEF EpochInv
      <4> QED BY <2>1, <2>4, <2>6, <4>1, <4>2, <4>3 DEF LastAcked, SameSession
    <3> QED BY <2>1, <2>6, <2>9, <3>1, <1>CollectedExtends DEF FitInv, EpochInv, SameSession
  <2>13. InOrder'
    <3>1. IsReset(buffer') => buffer' = buffer
      BY <2>2, <2>8
    <3> QED BY <2>1, <2>8, <3>1, <1>InOrderTakes DEF FitInv, EpochInv
  <2>14. Expected'
    <3>1. SUFFICES ASSUME Straight PROVE Expected'
      BY <2>8 DEF Expected
    <3>2. m.epoch = epoch /\ Attached
      BY <2>1, <2>3, <3>1 DEF FitInv, Expected, Straight
    <3>3. \A w \in Pages' : w.epoch = epoch
      <4>1. buffer' = buffer \/ buffer' = job
        BY <2>2
      <4> QED BY <2>7, <2>8, <3>2, <4>1
    <3>4. \A k \in Elements(up) : ~(k.type = "chunk_ack" /\ k.epoch = epoch /\ k.rev = pageRev /\ k.index = chunkIndex)
      BY <2>1, <2>8, <3>2 DEF StreamInv, Fragmented
    <3>5. ~failed' /\ chunkIndex + 1 < chunkTotal => fragments' = chunkIndex + 1
      BY <2>2, <2>4, <3>2, SMT, Z3
    <3> QED BY <2>1, <2>5, <2>9, <3>3, <3>4, <3>5 DEF Expected, SameSession
  <2>15. Opening' /\ Moving'
    <3>1. ResetDue => ResetDue'
      BY <2>1, <2>3, <2>8, <2>9 DEF ResetDue, SameSession
    <3>2. Attached /\ ~failed' /\ m.epoch = epoch => PageUnderWay'
      <4>1. SUFFICES ASSUME Attached, ~failed', m.epoch = epoch PROVE PageUnderWay'
        OBVIOUS
      <4>2. CASE buffer' = job
        BY <2>1, <2>7, <2>8, <4>1, <4>2 DEF PageUnderWay, SameSession
      <4>3. CASE m.index + 1 # m.total /\ UNCHANGED buffer
        <5>1. chunkIndex + 1 < chunkTotal
          BY <2>4, <4>1, <4>3, SMT, Z3
        <5>2. ack \in Elements(up')
          BY <2>1, <2>2, <4>1, <1>UpExtends DEF EpochInv, Attached
        <5> QED BY <2>1, <2>4, <2>6, <4>1, <5>1, <5>2 DEF PageUnderWay, SameSession
      <4> QED BY <2>2, <4>1, <4>2, <4>3
    <3>3. m.epoch # epoch /\ PageUnderWay => PageUnderWay'
      BY <2>1, <2>3, <2>4, <2>9 DEF PageUnderWay, SameSession
    <3> QED BY <2>1, <2>8, <3>1, <3>2, <3>3 DEF FitInv, Opening, Moving, SameTurn, SameSession
  <2> QED BY <2>10, <2>11, <2>12, <2>13, <2>14, <2>15 DEF FitInv
<1>RecvConfirmedFits. KeepsFit(RecvConfirmed)
  <2> SUFFICES ASSUME EpochInv, StreamInv, FitInv, RecvConfirmed PROVE FitInv'
    BY DEF KeepsFit
  <2> DEFINE m == Head(down)
  <2>1. /\ SameCache /\ SameTurn /\ SameSession /\ UNCHANGED <<localRev, up, jobs, buffer, worker,
                                                               recvEpoch, fragments>>
        /\ ~failed /\ down # <<>> /\ m.type = "confirmed" /\ down' = Tail(down)
    BY
    DEF RecvConfirmed, Arrives, SameCache, SameTurn, SameSession, ctlVars, pageVars, epochVars,
        handlerVars, chunkVars, cacheVars, linkVars, workVars
  <2>2. Elements(down) = Elements(down') \cup {m}
    BY <2>1, <1>TailElements DEF EpochInv, Ordered
  <2> HIDE DEF m
  <2>3. /\ Pages' = Pages /\ Resets' = Resets /\ Answers' = Answers /\ Elements(up') = Elements(up) /\ Elements(jobs') = Elements(jobs)
        /\ (Attached' <=> Attached) /\ (Straight' <=> Straight) /\ (ChunkSent' => ChunkSent)
    BY <2>1, <2>2
    DEF Pages, Resets, IsPage, IsReset, Answers, Elements, Attached, Straight, SameTurn, ChunkSent
  <2>4. Serving' /\ Latest' /\ Unfilled' /\ Silent'
    BY <2>1, <2>3, <1>ServingFrame, <1>CacheFrame
    DEF FitInv, SameCache, SameTurn, SameSession, Silent, Idle
  <2>5. Fitting' /\ Collected'
    BY <2>1, <2>3, <1>FittingFrame, <1>CollectedFrame DEF FitInv, SameSession
  <2>6. InOrder'
    BY <2>1, <2>3, <1>InOrderTakes DEF FitInv, EpochInv, IsReset
  <2>7. Expected'
    BY <2>1, <2>2, <2>3 DEF FitInv, Expected, SameCache, SameSession
  <2>8. Opening' /\ Moving'
    <3>1. (ResetDue => ResetDue') /\ (PageUnderWay => PageUnderWay')
      BY <2>1, <2>2, <2>3 DEF ResetDue, PageUnderWay, SameSession
    <3> QED BY <2>1, <3>1, <1>TokenFrame DEF FitInv
  <2> QED BY <2>4, <2>5, <2>6, <2>7, <2>8 DEF FitInv
<1>TakeJobFits. KeepsFit(TakeJob)
  <2> SUFFICES ASSUME EpochInv, StreamInv, FitInv, TakeJob PROVE FitInv'
    BY DEF KeepsFit
  <2>1. /\ SameCache /\ SameTurn /\ SameSession /\ UNCHANGED <<localRev, up, jobs, down, failed,
                                                               recvEpoch, fragments>>
        /\ worker = None /\ buffer # None /\ worker' = buffer /\ buffer' = None
    BY
    DEF TakeJob, SameCache, SameTurn, SameSession, ctlVars, pageVars, epochVars, handlerVars,
        chunkVars, cacheVars, linkVars, recvVars
  <2>2. worker # GivenUp
    BY <2>1, JobsAreSomething
  <2>3. /\ Pages' = Pages /\ Resets' = Resets /\ Answers' = Answers /\ Elements(up') = Elements(up) /\ Elements(jobs') = Elements(jobs)
        /\ Elements(down') = Elements(down) /\ (Attached' <=> Attached) /\ (Straight' <=> Straight) /\ (ChunkSent' <=> ChunkSent)
        /\ ~IsReset(buffer')
    BY <2>1
    DEF Pages, Resets, IsPage, IsReset, Answers, Elements, Attached, Straight, SameTurn, ChunkSent
  <2>4. Serving' /\ Latest' /\ Unfilled' /\ Silent'
    BY <2>1, <2>3, <1>ServingFrame, <1>CacheFrame
    DEF FitInv, SameCache, SameTurn, SameSession, Silent, Idle
  <2>5. Fitting' /\ Collected'
    BY <2>1, <2>2, <2>3, <1>FittingFrame, <1>CollectedFrame DEF FitInv, SameSession
  <2>6. InOrder' /\ Expected'
    BY <2>1, <2>2, <2>3 DEF FitInv, InOrder, Expected, SameCache, SameSession, IsReset
  <2>7. Opening' /\ Moving'
    <3>1. (ResetDue => ResetDue') /\ (PageUnderWay => PageUnderWay')
      BY <2>1, <2>3 DEF ResetDue, PageUnderWay, SameSession
    <3> QED BY <2>1, <3>1, <1>TokenFrame DEF FitInv
  <2> QED BY <2>4, <2>5, <2>6, <2>7 DEF FitInv
<1>DoResetFits. KeepsFit(DoReset)
  <2> SUFFICES ASSUME EpochInv, StreamInv, FitInv, DoReset PROVE FitInv'
    BY DEF KeepsFit
  <2> DEFINE a == Cleared(worker.epoch)
  <2>1. /\ SameTurn /\ SameSession /\ UNCHANGED <<jobs, down, buffer, failed, recvEpoch, fragments>>
        /\ Live /\ IsReset(worker) /\ worker' = None /\ up' = IF conn = current THEN Append(up, a) ELSE up
        /\ cache' = Empty /\ lastRevision' = 0 /\ resetPending' = TRUE /\ entered' = TRUE /\ localRev' = 0
        /\ edgeEpoch' = Max2(edgeEpoch, worker.epoch)
    BY
    DEF DoReset, Working, ClearCache, SendUp, IsReset, SameTurn, SameSession, ctlVars, pageVars,
        epochVars, handlerVars, chunkVars, linkVars, recvVars
  <2>2. a.type = "cleared" /\ a.epoch = worker.epoch
    BY DEF Cleared
  <2>3. GivenUp # None /\ worker # GivenUp /\ worker \in Resets /\ worker # None
    <3>1. GivenUp.type = "given up"
      BY DEF GivenUp
    <3> QED BY <2>1, <3>1, JobsAreSomething DEF IsReset, Resets
  <2> HIDE DEF a
  <2>4. /\ worker.epoch \in 1..epoch /\ edgeEpoch \in 0..epoch /\ epoch \in Nat /\ recvEpoch \in Nat
        /\ worker.epoch <= edgeEpoch => entered /\ Fresh /\ edgeEpoch' = edgeEpoch
        /\ edgeEpoch < worker.epoch => edgeEpoch' = worker.epoch
    <3>1. worker.epoch \in 1..epoch /\ edgeEpoch \in 0..epoch /\ epoch \in Nat /\ recvEpoch \in 0..epoch
      BY <2>1 DEF EpochInv, Queued, Epochs, IsReset
    <3>2. worker.epoch <= edgeEpoch => entered /\ Fresh
      BY <2>3 DEF StreamInv, Behind, Overtaken
    <3> QED BY <2>1, <3>1, <3>2, SMT, Z3 DEF Max2
  <2>5. /\ Pages = {} /\ Pages' = {} /\ (\A w \in Resets' : w = buffer /\ IsReset(buffer)) /\ (\A w \in Resets : w = worker \/ w \in Resets')
        /\ (Attached' <=> Attached) /\ (Straight' <=> Straight) /\ Elements(down') = Elements(down) /\ ~IsReset(worker')
    <3>1. ~IsPage(buffer)
      BY <2>1, <2>3 DEF StreamInv, Paged
    <3> QED BY <2>1, <3>1 DEF Resets, Pages, IsReset, IsPage, Elements, Attached, Straight, SameTurn
  <2>6. /\ Elements(up) \subseteq Elements(up') /\ Elements(up') \subseteq Elements(up) \cup {a}
        /\ Answers \subseteq Answers' /\ Answers' \subseteq Answers \cup {a} /\ (up' = up \/ up' = Append(up, a))
    BY <2>1, UpGrows, <1>UpExtends DEF EpochInv
  <2>7. Serving' /\ Silent'
    BY <2>1, <2>3, <2>5 DEF FitInv, Serving, Silent, Idle, SameTurn
  <2>8. Latest' /\ Unfilled'
    <3>1. ready => baseline
      <4>1. ready => entered /\ Fresh /\ edgeEpoch = epoch
        BY <2>4, SMTT(30), Z3T(30) DEF EpochInv, Opened
      <4> QED BY <4>1 DEF FitInv, Unfilled, Fresh
    <3>2. pageRev \in Nat
      BY SMT, Z3 DEF EpochInv, Opened
    <3> QED BY <2>1, <3>1, <3>2, SMT, Z3 DEF Latest, Unfilled, SameSession
  <2>9. Fitting' /\ Collected'
    <3>1. Fitting'
      BY <2>1, <2>2, <2>6 DEF FitInv, Fitting, SameSession
    <3>2. Collected'
      BY <2>1, <2>2, <2>5, <2>6, <1>CollectedExtends DEF FitInv, EpochInv, SameSession
    <3> QED BY <3>1, <3>2
  <2>10. InOrder'
    <3>1. SUFFICES ASSUME Straight, ~failed PROVE InOrder'
      BY <2>1, <2>5 DEF InOrder
    <3>2. edgeEpoch' = worker.epoch /\ worker.epoch <= recvEpoch
      BY <2>3, <2>4, <3>1 DEF FitInv, InOrder
    <3>3. \A k \in Elements(down) : k.type = "welcome" => recvEpoch < k.epoch /\ edgeEpoch' < k.epoch
      <4>1. ASSUME NEW k \in Elements(down), k.type = "welcome" PROVE edgeEpoch' < k.epoch
        <5>1. recvEpoch < k.epoch /\ k.epoch \in 1..epoch
          BY <3>1, <4>1 DEF FitInv, InOrder, EpochInv, Ordered
        <5> QED BY <2>4, <3>2, <5>1, SMT, Z3
      <4> QED BY <3>1, <4>1 DEF FitInv, InOrder
    <3>4. \A w \in Resets' : edgeEpoch' < w.epoch /\ w.epoch <= recvEpoch
      BY <2>1, <2>5, <3>1, <3>2 DEF FitInv, InOrder, Resets
    <3>5. Resets' = {} => worker.epoch = recvEpoch
      <4>1. Resets' = {} => ~IsReset(buffer)
        BY <2>1 DEF Resets, IsReset
      <4>2. ~IsPage(buffer)
        BY <2>5 DEF Pages
      <4> QED BY <2>1, <3>1, <4>1, <4>2 DEF StreamInv, Queue
    <3>6. recvEpoch # 0
      BY <2>4, <3>2, SMT, Z3
    <3> QED BY <2>1, <2>5, <3>1, <3>2, <3>3, <3>4, <3>5, <3>6 DEF FitInv, InOrder
  <2>11. Expected'
    <3>1. SUFFICES ASSUME Straight PROVE Expected'
      BY <2>5 DEF Expected
    <3>2. ~failed => \A i \in DOMAIN down : down[i].type = "welcome"
      <4>1. ~failed => edgeEpoch < worker.epoch
        BY <2>3, <3>1 DEF FitInv, InOrder
      <4>2. edgeEpoch < worker.epoch => ~(worker.epoch < edgeEpoch)
        BY <2>4, SMT, Z3
      <4> QED BY <2>3, <4>1, <4>2 DEF StreamInv, Passing
    <3>3. ~failed => \A k \in Elements(down) : k.type = "welcome"
      BY <3>2 DEF Elements
    <3> QED BY <2>1, <2>2, <2>5, <2>6, <3>1, <3>3 DEF FitInv, Expected, SameSession
  <2>12. Opening' /\ Moving'
    <3>1. Attached => (ResetDue => ResetDue')
      <4>1. Attached => a \in Answers'
        BY <2>1, <1>UpExtends DEF EpochInv, Attached
      <4> QED BY <2>1, <2>2, <2>5, <2>6, <4>1 DEF ResetDue, SameSession
    <3>2. PageUnderWay => PageUnderWay'
      BY <2>1, <2>5, <2>6 DEF PageUnderWay, SameSession
    <3> QED BY <2>1, <2>5, <3>1, <3>2 DEF FitInv, Opening, Moving, SameTurn, SameSession
  <2> QED BY <2>7, <2>8, <2>9, <2>10, <2>11, <2>12 DEF FitInv
<1>DoApplyFits. KeepsFit(DoApply)
  <2> SUFFICES ASSUME EpochInv, StreamInv, FitInv, DoApply PROVE FitInv'
    BY DEF KeepsFit
  <2> DEFINE a == Ack(worker.epoch, worker.rev)
  <2>1. /\ SameTurn /\ SameSession /\ UNCHANGED <<jobs, down, buffer, failed, recvEpoch, fragments,
                                                  edgeEpoch, entered>>
        /\ IsPage(worker) /\ worker' = None /\ up' = IF conn = current THEN Append(up, a) ELSE up
        /\ lastRevision' = worker.rev /\ localRev' = worker.rev
        /\ resetPending' = (resetPending /\ ~(worker.body.baseline /\ worker.body.end))
    BY
    DEF DoApply, Working, SendUp, IsPage, SameTurn, SameSession, ctlVars, pageVars, epochVars,
        handlerVars, chunkVars, linkVars, recvVars
  <2>2. a.type = "ack" /\ a.rev = worker.rev /\ a.epoch = worker.epoch
    BY DEF Ack
  <2>3. GivenUp # None /\ worker # GivenUp /\ worker \in Pages /\ worker # None
    <3>1. GivenUp.type = "given up"
      BY DEF GivenUp
    <3> QED BY <2>1, <3>1, JobsAreSomething DEF IsPage, Pages
  <2>4. /\ entered /\ worker.epoch = edgeEpoch /\ worker.rev \in 1..revision /\ revision \in Nat /\ ~IsPage(buffer)
        /\ worker.epoch = epoch =>
             /\ worker.rev = pageRev /\ pageRev # 0 /\ ready
             /\ worker.body.baseline = baseline /\ worker.body.end = pageEnd
    <3>1. /\ entered /\ worker.epoch = edgeEpoch /\ worker.rev \in 1..revision /\ revision \in Nat /\ ~IsPage(buffer)
          /\ worker.epoch = epoch => worker.rev = pageRev /\ pageRev # 0 /\ worker.body = Body
      BY <2>1, <2>3 DEF StreamInv, Paged, Current, EpochInv, Opened
    <3>2. pageRev # 0 => ready
      BY DEF EpochInv, Opened
    <3> QED BY <3>1, <3>2, BodyFields
  <2> HIDE DEF a
  <2>5. /\ Resets' = Resets /\ Pages' = {} /\ Pages = {worker} /\ ~IsReset(worker') /\ Elements(down') = Elements(down)
        /\ (Attached' <=> Attached) /\ (Straight' <=> Straight)
    BY <2>1, <2>4 DEF Resets, Pages, IsReset, IsPage, Elements, Attached, Straight, SameTurn
  <2>6. /\ Elements(up) \subseteq Elements(up') /\ Elements(up') \subseteq Elements(up) \cup {a}
        /\ Answers \subseteq Answers' /\ Answers' \subseteq Answers \cup {a} /\ (up' = up \/ up' = Append(up, a))
    BY <2>1, UpGrows, <1>UpExtends DEF EpochInv
  <2>7. Serving' /\ Silent'
    BY <2>1, <2>3, <2>4, <2>5 DEF FitInv, Serving, Silent, Idle, SameTurn
  <2>8. Latest' /\ Unfilled'
    <3>1. edgeEpoch = epoch => (baseline /\ ~pageEnd => resetPending')
      <4>1. edgeEpoch = epoch => (baseline /\ ~pageEnd => resetPending)
        BY <2>4 DEF FitInv, Unfilled
      <4> QED BY <2>1, <2>4, <4>1
    <3> QED BY <2>1, <2>4, <3>1, SMT, Z3 DEF Latest, Unfilled, SameSession
  <2>9. Fitting' /\ Collected'
    <3>1. Fitting'
      BY <2>1, <2>2, <2>4, <2>6 DEF FitInv, Fitting, SameSession
    <3>2. up' = Append(up, a) /\ a.epoch = epoch => LastAcked(Len(up))
      <4>1. up' = Append(up, a) => conn = current /\ current # 0
        <5>1. up' = Append(up, a) => up' # up
          <6>1. up' = Append(up, a) => Len(up') = Len(up) + 1 /\ Len(up) \in Nat
            BY <2>1, <1>UpExtends DEF EpochInv
          <6> QED BY <6>1, SMT, Z3
        <5>2. conn # 0
          BY <2>3 DEF StreamInv, Life, Idle
        <5> QED BY <2>1, <5>1, <5>2
      <4> QED BY <2>2, <2>3, <4>1 DEF FitInv, Collected, Attached
    <3>3. Collected'
      BY <2>1, <2>5, <2>6, <3>2, <1>CollectedExtends DEF FitInv, EpochInv, SameSession
    <3> QED BY <3>1, <3>3
  <2>10. InOrder'
    BY <2>1, <2>5 DEF FitInv, InOrder
  <2>11. Expected'
    <3>1. ~failed => \A i \in DOMAIN down : down[i].type = "welcome"
      BY <2>3 DEF StreamInv, Passing
    <3>2. ~failed => \A k \in Elements(down) : k.type = "welcome"
      BY <3>1 DEF Elements
    <3> QED BY <2>1, <2>2, <2>5, <2>6, <3>2 DEF FitInv, Expected, SameSession
  <2>12. Opening' /\ Moving'
    <3>1. ResetDue => ResetDue'
      BY <2>1, <2>5, <2>6 DEF ResetDue, SameSession
    <3>2. Attached => (PageUnderWay => PageUnderWay')
      <4>1. Attached => a \in Answers'
        BY <2>1, <1>UpExtends DEF EpochInv, Attached
      <4> QED BY <2>1, <2>2, <2>4, <2>5, <2>6, <4>1 DEF PageUnderWay, SameSession
    <3> QED BY <2>1, <2>5, <3>1, <3>2 DEF FitInv, Opening, Moving, SameTurn, SameSession
  <2> QED BY <2>7, <2>8, <2>9, <2>10, <2>11, <2>12 DEF FitInv

(* One step *)
<1> SUFFICES ASSUME EpochInv, StreamInv, FitInv, [Next]_vars PROVE FitInv'
  OBVIOUS
<1>1. CASE PushAny \/ PushStuck(1)
  <2>1. 1 \in Nat \ {0} /\ \A total \in 1..2 : total \in Nat \ {0}
    BY SMT, Z3
  <2> QED BY <1>1, <2>1, <1>TakePageFits DEF PushAny, KeepsFit
<1>2. CASE [Next]_vars /\ ~(PushAny \/ PushStuck(1))
  BY <1>2, <1>TablesFit, <1>SessionFits, <1>HelloFits, <1>SendWelcomeFits, <1>RequestResetFits,
     <1>RecvChunkAckFits,
     <1>RecvJobFits, <1>AcceptCacheClearedFits, <1>ConfirmIdentityFits, <1>LeaveFits, <1>RecvWelcomeFits,
     <1>RecvChunkFits, <1>RecvConfirmedFits, <1>TakeJobFits, <1>DoResetFits, <1>DoApplyFits
  DEF Next, KeepsFit, Changing, Losing
<1> QED BY <1>1, <1>2

\* The two ends of a stream agree on what comes next: an answer of the edge is
\* about the page in flight or a confirmed one, what the controller sends is what
\* the edge expects, and neither waits unless the other has work for it.
THEOREM FitInvariant == Spec => []FitInv
BY EpochInvariant, StreamInvariant, FitStarts, FitKept, PTL DEF Spec

\* Controller and edge never wait for each other: when nothing is on its way
\* (runIdentityDeliveries, runReceiver and the apply worker all wait), the edge's
\* reset has been reported and no page is in flight but one whose fragment found
\* the send queue full.
THEOREM NobodyWaitsForNothing == Spec => []NoSilentStall
<1>1. EpochInv /\ StreamInv /\ FitInv => NoSilentStall
  <2> SUFFICES ASSUME StreamInv, FitInv, Quiet PROVE ready /\ (pageRev = 0 \/ stuck)
    BY DEF NoSilentStall
  <2>1. /\ Live /\ conn = current /\ stage = "open" /\ ~failed /\ worker = None /\ buffer = None
        /\ Elements(up) = {} /\ Elements(jobs) = {} /\ Elements(down) = {}
    BY EmptyFacts DEF Quiet, Live
  <2>2. Attached /\ Resets = {} /\ Pages = {} /\ Answers = {}
    BY <2>1 DEF StreamInv, Life, Attached, Resets, Pages, IsReset, IsPage, Answers
  <2>3. ~ResetDue /\ ~PageUnderWay
    BY <2>1, <2>2 DEF ResetDue, PageUnderWay
  <2> QED BY <2>1, <2>2, <2>3 DEF FitInv, Opening, Moving
<1> QED BY <1>1, EpochInvariant, StreamInvariant, FitInvariant, PTL

\* What the controller reads fits: neither acceptIdentityProgress nor
\* acceptIdentityAck ends the session.
LEMMA AnswersFit ==
    ASSUME EpochInv, StreamInv, FitInv
    PROVE  /\ Receiving /\ Head(up).type = "chunk_ack" => AckIgnored(Head(up)) \/ AckAccepted(Head(up))
           /\ JobIs("ack") => AckStale(Head(jobs)) \/ AckDue(Head(jobs))
<1>1. ASSUME Receiving, Head(up).type = "chunk_ack" PROVE AckIgnored(Head(up)) \/ AckAccepted(Head(up))
  <2> DEFINE m == Head(up)
  <2>1. m \in Elements(up) /\ m.type = "chunk_ack"
    BY <1>1, TailFacts DEF Receiving, EpochInv, Answered
  <2> HIDE DEF m
  <2>2. m.epoch = epoch => m.index \in Nat /\ (m.rev <= appliedRev \/ (m.rev = pageRev /\ m.index <= chunkIndex /\ m.index < chunkTotal))
    BY <2>1 DEF FitInv, Fitting
  <2>3. AckIgnored(m) \/ AckAccepted(m)
    BY <2>2, SMT, Z3 DEF AckIgnored, AckAccepted, StreamInv, Typed
  <2> QED BY <2>3 DEF m
<1>2. ASSUME JobIs("ack") PROVE AckStale(Head(jobs)) \/ AckDue(Head(jobs))
  <2> DEFINE m == Head(jobs)
  <2>1. m \in Elements(jobs) /\ m.type = "ack"
    BY <1>2, TailFacts DEF JobIs, EpochInv, Answered
  <2> HIDE DEF m
  <2>2. m.epoch = epoch => m.rev <= appliedRev \/ (m.rev = pageRev /\ chunkIndex = chunkTotal)
    BY <2>1 DEF FitInv, Fitting, Collected, Answers
  <2>3. AckStale(m) \/ AckDue(m)
    BY <2>2 DEF AckStale, AckDue
  <2> QED BY <2>3 DEF m
<1> QED BY <1>1, <1>2

\* What the edge reads fits, unless a refresh overtook the welcome.
LEMMA StreamFits ==
    ASSUME EpochInv, StreamInv, FitInv, ~crossed, conn = current
    PROVE  (Arrives("chunk") => ChunkFits(Head(down))) /\ (Arrives("confirmed") => ConfirmedFits(Head(down)))
<1> DEFINE m == Head(down)
<1>1. SUFFICES ASSUME Arrives("chunk") \/ Arrives("confirmed")
               PROVE  (m.type = "chunk" => ChunkFits(m)) /\ (m.type = "confirmed" => ConfirmedFits(m))
  BY DEF Arrives
<1>2. m \in Elements(down) /\ m = down[1] /\ 1 \in DOMAIN down /\ m.type # "welcome" /\ Live /\ ~failed /\ down # <<>>
  <2>1. down # <<>> /\ Live /\ ~failed /\ m.type # "welcome"
    BY <1>1 DEF Arrives
  <2>2. m \in Elements(down)
    BY <2>1, TailFacts DEF EpochInv, Ordered
  <2>3. m = down[1] /\ 1 \in DOMAIN down
    BY <2>1, SMT, Z3 DEF EpochInv, Ordered
  <2> QED BY <2>1, <2>2, <2>3
<1> HIDE DEF m
<1>3. Straight
  BY <1>2 DEF StreamInv, Life, Idle, Straight, Attached
<1>4. m.epoch = edgeEpoch /\ \A w \in Resets : w.epoch < edgeEpoch
  BY <1>2 DEF StreamInv, Passing
<1>5. Resets = {}
  BY <1>2, <1>3, <1>4, SMT, Z3 DEF FitInv, InOrder, EpochInv, Epochs, Queued, Resets, IsReset
<1>6. entered
  BY <1>2, <1>3 DEF StreamInv, Confirming, FitInv, Serving, Straight, ChunkSent, EpochInv, Ordered
<1>7. recvEpoch = edgeEpoch
  BY <1>2, <1>3, <1>5, <1>6 DEF FitInv, InOrder
<1> QED BY <1>2, <1>3, <1>4, <1>6, <1>7 DEF FitInv, Expected, Latest, ChunkFits, ConfirmedFits

\* Failures after a commit are counted.
Counted == lost \in Nat /\ fulls \in Nat

\* A failure is counted once; no step takes one back.
LEMMA CountedKept == ASSUME Counted, [Next]_vars PROVE Counted'
<1>1. (lost' = lost \/ lost' = lost + 1) /\ (fulls' = fulls \/ fulls' = fulls + 1)
  <2>1. CASE UNCHANGED vars
    BY <2>1 DEF vars, ctlVars, indexVars, refreshVars
  <2>2. CASE \/ \E u \in Users, v \in Contents : Mutate(u, v)
             \/ \E s \in unregistered : Register(s)
             \/ Hello \/ SendWelcome \/ EndSession \/ NeedFull \/ RequestReset
             \/ RecvChunkAck \/ RecvJob \/ AcceptCacheCleared \/ ConfirmIdentity
    BY <2>2
    DEF Mutate, Register, Hello, SendWelcome, EndSession, NeedFull, RequestReset, RecvChunkAck,
        RecvJob, AcceptCacheCleared, ConfirmIdentity, indexVars, refreshVars
  <2>3. CASE PushAny \/ PushStuck(1) \/ (\E U \in SUBSET Users : PushLost(U)) \/ ResetLost \/ ConfirmLost \/ Connect
    BY <2>3
    DEF PushAny, PushPage, PushStuck, TakePage, PushLost, ResetLost, ConfirmLost, Connect,
        indexVars, refreshVars
  <2>4. CASE \/ Fence \/ Join \/ Crash \/ Discard \/ RecvWelcome \/ RecvChunk \/ RecvConfirmed
             \/ TakeJob \/ DoReset \/ DoApply \/ JobFails
    <3>1. UNCHANGED ctlVars
      BY <2>4
      DEF Fence, Join, Crash, Discard, RecvWelcome, RecvChunk, RecvConfirmed, TakeJob, DoReset,
          DoApply, JobFails
    <3> QED BY <3>1 DEF ctlVars, indexVars, refreshVars
  <2> QED BY <2>1, <2>2, <2>3, <2>4 DEF Next
<1> QED BY <1>1, SMT, Z3 DEF Counted

-----------------------------------------------------------------------------
(* Refinement: every step is one of IdentityOutbox, or none *)

\* The edge is connected and its cache belongs to edgeEpoch.
Joined == entered /\ Live

\* The durable side. The fields of a session stay visible after its end, until
\* the next hello; no action reads them in between.
Outbox == INSTANCE IdentityOutbox WITH
    MaxEpoch     <- MaxEpoch + 1,
    MaxLost      <- MaxTrouble,
    cursor       <- IF ready THEN cursor ELSE 0,
    joined       <- Joined,
    cache        <- IF Joined THEN cache ELSE [u \in Users |-> Absent],
    lastRevision <- IF Joined THEN lastRevision ELSE 0,
    resetPending <- Joined => resetPending

\* The streams, workers and retries carry out the durable protocol: every step
\* is a step of IdentityOutbox or leaves its variables alone.
Implements == Outbox!Init /\ [][Outbox!Next]_Outbox!vars

\* A page in work at the edge that the session serves is one that ApplyIdentitySnapshot takes.
LEMMA PageFits ==
    ASSUME EpochInv, StreamInv, FitInv, Outbox!BaselineDisjoint, ~crossed, conn = current, Working("page")
    PROVE  PageAcceptable(worker) /\ buffer = None
<1>1. Live /\ IsPage(worker) /\ worker \in Pages /\ worker # GivenUp
  <2>1. GivenUp.type = "given up"
    BY DEF GivenUp
  <2> QED BY <2>1 DEF Working, IsPage, Pages
<1>2. Straight
  BY <1>1 DEF StreamInv, Life, Idle, Straight, Attached, IsPage
<1>3. worker.epoch = epoch
  BY <1>1, <1>2 DEF FitInv, Expected
<1>4. /\ entered /\ edgeEpoch = epoch /\ worker.rev = pageRev /\ pageRev # 0 /\ lastRevision < pageRev
      /\ worker.body.baseline = baseline /\ worker.body.users = page /\ ready /\ ~IsPage(buffer)
  <2>1. entered /\ edgeEpoch = epoch /\ ~IsPage(buffer) /\ Current(worker.rev, worker.body)
    BY <1>1, <1>3 DEF StreamInv, Paged
  <2>2. worker.rev = pageRev /\ pageRev # 0 /\ worker.body = Body /\ lastRevision < pageRev
    BY <2>1 DEF Current
  <2>3. ready
    BY <2>2 DEF EpochInv, Opened
  <2> QED BY <2>1, <2>2, <2>3, BodyFields
<1>5. buffer = None
  <2>1. ~Overtaken
    BY <1>1 DEF StreamInv, Paged
  <2>2. ASSUME IsReset(buffer) PROVE FALSE
    <3>1. buffer \in Resets /\ buffer.epoch \in 1..epoch /\ epoch \in Nat
      BY <2>2 DEF Resets, IsReset, EpochInv, Queued, Epochs
    <3>2. buffer.epoch <= edgeEpoch
      BY <1>4, <3>1, SMT, Z3
    <3> QED BY <2>1, <3>1, <3>2 DEF Overtaken
  <2> QED BY <1>4, <2>2 DEF StreamInv, Queue
<1>6. CASE ~baseline
  BY <1>4, <1>5, <1>6 DEF PageAcceptable, FitInv, Unfilled
<1>7. CASE baseline
  <2>1. \A u \in page : cache[u] = Absent
    BY <1>1, <1>4, <1>7 DEF Outbox!BaselineDisjoint, Outbox!Linked, Joined
  <2>2. lastRevision \in 0..revision /\ pageRev \in 0..revision /\ revision \in Nat
    BY DEF StreamInv, Typed, EpochInv, Opened
  <2>3. ~(pageRev <= lastRevision)
    BY <1>4, <2>2, SMT, Z3
  <2> QED BY <1>4, <1>5, <1>7, <2>1, <2>3 DEF PageAcceptable, FitInv, Unfilled
<1> QED BY <1>6, <1>7

\* The users of a baseline page are those up to its last id.
UpToLast ==
    baseline =>
      /\ LastID \in Users \cup {cursor} /\ NextPage \subseteq Users
      /\ NextPage = {u \in Users : cursor < u /\ u <= LastID /\ identity[u] # Absent}
      /\ LastID \in NextPage \/ (NextPage = {} /\ LastID = cursor /\ \A u \in Users : u > LastID => identity[u] = Absent)

\* Every step of the goroutines is one of the durable protocol, or changes nothing of it.
LEMMA StepRefines ==
    EpochInv /\ StreamInv /\ Counted /\ UpToLast /\ [Next]_vars => Outbox!Next \/ UNCHANGED Outbox!vars
<1>Stutters.
    ASSUME UNCHANGED <<indexVars, pageVars, epochVars, edgeEpoch, cache, lastRevision, resetPending>>, Joined' = Joined
    PROVE  UNCHANGED Outbox!vars
  BY <1>Stutters
  DEF indexVars, pageVars, epochVars, Outbox!vars, Outbox!indexVars, Outbox!sessionVars,
      Outbox!pageVars, Outbox!edgeVars, Outbox!sourceVars
<1>StuttersApart.
    ASSUME UNCHANGED <<indexVars, pageVars, epochVars, edgeEpoch>>, ~Joined, ~Joined'
    PROVE  UNCHANGED Outbox!vars
  <2> USE <1>StuttersApart
  <2>1. Joined' = Joined /\ (Joined => resetPending)' = (Joined => resetPending)
    BY DEF Joined
  <2>2. /\ (IF Joined THEN cache ELSE [u \in Users |-> Absent])' = IF Joined THEN cache ELSE [u \in Users |-> Absent]
        /\ (IF Joined THEN lastRevision ELSE 0)' = IF Joined THEN lastRevision ELSE 0
    OBVIOUS
  <2>3. (IF ready THEN cursor ELSE 0)' = IF ready THEN cursor ELSE 0
    BY DEF epochVars
  <2> QED
    BY <2>1, <2>2, <2>3
    DEF indexVars, pageVars, epochVars, Outbox!vars, Outbox!indexVars, Outbox!sessionVars,
        Outbox!pageVars, Outbox!edgeVars, Outbox!sourceVars
<1>Discards.
    ASSUME epoch \in Nat, epoch <= MaxEpoch, UNCHANGED <<indexVars, pageVars, epochVars, edgeEpoch>>, Joined, ~Joined'
    PROVE  Outbox!EdgeDiscard
  <2> USE <1>Discards
  <2>1. epoch < MaxEpoch + 1
    BY SyncAssumption, SMT, Z3
  <2> QED
    BY <2>1, SMTT(30), Z3T(30)
    DEF indexVars, pageVars, epochVars, Outbox!EdgeDiscard, Outbox!Cleared, Outbox!Empty,
        Outbox!indexVars, Outbox!sessionVars, Outbox!pageVars, Outbox!sourceVars, Empty
<1>MutateRefines.
    ASSUME NEW u \in Users, NEW v \in Contents, Mutate(u, v)
    PROVE  Outbox!Mutate(u, v)
  BY <1>MutateRefines
  DEF Mutate, Outbox!MarkDirty, Outbox!HasRow, Outbox!Mutate, pageVars, epochVars, edgeVars,
      cacheVars, linkVars, Joined, Live, Outbox!sessionVars, Outbox!pageVars, Outbox!edgeVars,
      MarkDirty, HasRow
<1>HelloRefines. ASSUME Epochs, Hello PROVE Outbox!StartEpoch
  <2> USE <1>HelloRefines
  <2>1. epoch < MaxEpoch + 1
    BY SyncAssumption, SMT, Z3 DEF Hello, Epochs
  <2> QED
    BY <2>1
    DEF Hello, Outbox!StartEpoch, Outbox!NoPage, Outbox!Empty, indexVars, edgeVars, cacheVars,
        linkVars, Joined, Live, Outbox!sourceVars, Outbox!indexVars, Outbox!edgeVars, NoPage, Empty
<1>RequestResetRefines. ASSUME EpochInv, StreamInv, RequestReset PROVE Outbox!StartEpoch
  <2> USE <1>RequestResetRefines
  <2>1. epoch < MaxEpoch + 1
    BY SyncAssumption, SMT, Z3 DEF RequestReset, EpochInv, Epochs
  <2>2. pageRev = 0 /\ page = {} /\ pageValue = Empty /\ pageLast = 0 /\ pageEnd = FALSE /\ baseline = FALSE
    BY DEF StreamInv, Typed, EpochInv, Opened, RequestReset, Deliverable
  <2>3. /\ epoch' = epoch + 1 /\ ready' = FALSE /\ UNCHANGED <<pageVars, baseline, indexVars, edgeVars>>
    BY DEF RequestReset
  <2> QED
    BY <2>1, <2>2, <2>3
    DEF Outbox!StartEpoch, Outbox!NoPage, indexVars, pageVars, edgeVars, cacheVars, linkVars,
        Joined, Live, Outbox!sourceVars, Outbox!indexVars, Outbox!edgeVars, Outbox!Empty, Empty
<1>TakePageRefines.
    ASSUME UpToLast, NEW total, TakePage(total)
    PROVE  \/ \E last \in Users \cup {IF ready THEN cursor ELSE 0} : Outbox!PushBaseline(last)
           \/ \E U \in SUBSET Users : Outbox!PushPending(U)
  <2> USE <1>TakePageRefines
  <2>1. /\ ready /\ dbSession = epoch /\ pageRev = 0 /\ (baseline \/ NextPage # {})
        /\ revision' = revision + 1 /\ desired' = [u \in Users |-> IF u \in NextPage THEN revision + 1 ELSE desired[u]]
        /\ page' = NextPage /\ pageValue' = [u \in Users |-> IF u \in NextPage THEN identity[u] ELSE Absent]
        /\ pageRev' = revision + 1 /\ pageLast' = LastID
        /\ pageEnd' = (baseline /\ \A u \in Users : u > LastID => identity[u] = Absent)
        /\ UNCHANGED <<identity, changes, dbSession, applied, lost, epochVars, edgeVars>>
    BY DEF TakePage, PageDue, Deliverable, Outbox!PrepareRows, PrepareRows
  <2>2. UNCHANGED <<identity, changes, dbSession, applied, Outbox!sessionVars, Outbox!edgeVars, lost>>
    BY <2>1
    DEF epochVars, edgeVars, cacheVars, linkVars, Joined, Live, Outbox!sessionVars, Outbox!edgeVars
  <2>3. CASE baseline
    <3>1. pageEnd' = (\A u \in Users : u > LastID => identity[u] = Absent)
      BY <2>1, <2>3
    <3>2. Outbox!SendPage(NextPage, LastID, \A u \in Users : u > LastID => identity[u] = Absent)
      BY <2>1, <2>2, <3>1 DEF Outbox!SendPage, Outbox!PrepareRows, PrepareRows
    <3>3. Outbox!PushBaseline(LastID)
      BY <2>1, <2>3, <3>2 DEF UpToLast, Outbox!PushBaseline
    <3>4. LastID \in Users \cup {IF ready THEN cursor ELSE 0}
      BY <2>1, <2>3 DEF UpToLast
    <3> QED BY <3>3, <3>4
  <2>4. CASE ~baseline
    <3>1. LastID = 0 /\ pageEnd' = FALSE
      BY <2>1, <2>4 DEF LastID
    <3>2. NextPage \subseteq Users /\ \A u \in NextPage : desired[u] > applied[u]
      BY <2>4 DEF NextPage, FirstPage, Outbox!Pending, Pending
    <3>3. Outbox!SendPage(NextPage, 0, FALSE)
      BY <2>1, <2>2, <3>1 DEF Outbox!SendPage, Outbox!PrepareRows, PrepareRows
    <3>4. Outbox!PushPending(NextPage)
      BY <2>1, <2>4, <3>2, <3>3 DEF Outbox!PushPending, Outbox!Pending, Pending
    <3> QED BY <3>2, <3>4
  <2> QED BY <2>3, <2>4
<1>PushLostRefines.
    ASSUME Counted, NEW U \in SUBSET Users, PushLost(U)
    PROVE  Outbox!PrepareLost(U)
  <2> USE <1>PushLostRefines
  <2>1. /\ lost + fulls < MaxTrouble /\ lost' = lost + 1 /\ ready /\ dbSession = epoch /\ pageRev = 0
        /\ U \subseteq NextPage /\ revision' = revision + 1
        /\ desired' = [u \in Users |-> IF u \in U THEN revision + 1 ELSE desired[u]]
        /\ UNCHANGED <<identity, changes, dbSession, applied, pageVars, epochVars, edgeVars>>
    BY DEF PushLost, PageDue, Deliverable, Outbox!PrepareRows, PrepareRows
  <2>2. lost < MaxTrouble
    BY <2>1, SyncAssumption, SMT, Z3 DEF Counted
  <2>3. UNCHANGED <<identity, changes, dbSession, applied, Outbox!sessionVars, Outbox!pageVars,
                    Outbox!edgeVars>>
    BY <2>1
    DEF epochVars, pageVars, edgeVars, cacheVars, linkVars, Joined, Live, Outbox!sessionVars,
        Outbox!edgeVars, Outbox!pageVars
  <2>4. ASSUME NEW u \in U PROVE Outbox!Ahead(u) \/ (~baseline /\ Outbox!Pending(u))
    <3>1. CASE baseline
      <4>1. u \in Users /\ u > cursor
        BY <2>1, <3>1 DEF NextPage, FirstPage
      <4> QED BY <2>1, <3>1, <4>1 DEF Outbox!Ahead
    <3>2. CASE ~baseline
      <4>1. desired[u] > applied[u]
        BY <2>1, <3>2 DEF NextPage, FirstPage, Outbox!Pending, Pending
      <4> QED BY <3>2, <4>1 DEF Outbox!Pending, Pending
    <3> QED BY <3>1, <3>2
  <2> QED BY <2>1, <2>2, <2>3, <2>4 DEF Outbox!PrepareLost, Outbox!PrepareRows, PrepareRows
\* The head of the worker's queue is an answer.
<1>HeadJob. ASSUME Answered, jobs # <<>> PROVE Head(jobs) \in Answers
  BY <1>HeadJob, TailFacts DEF Answered, Answers
\* A report of the session's epoch is about a reset that the edge has done.
<1>ClearedIsDone.
    ASSUME EpochInv, JobIs("cleared"), ClearedNow(Head(jobs))
    PROVE  ~ready /\ epoch > 0 /\ edgeEpoch = epoch
  BY <1>ClearedIsDone, <1>HeadJob, SMT, Z3 DEF JobIs, ClearedNow, EpochInv, Answered, Epochs
<1>AcceptCacheClearedRefines.
    ASSUME EpochInv, AcceptCacheCleared
    PROVE  Outbox!AcceptCacheCleared \/ UNCHANGED Outbox!vars
  <2> USE <1>AcceptCacheClearedRefines
  <2>1. JobIs("cleared") /\ UNCHANGED <<identity, changes, revision, lost, epoch, edgeVars>>
    BY DEF AcceptCacheCleared
  <2>2. CASE ClearedNow(Head(jobs))
    <3>1. /\ Outbox!ResetRows /\ Outbox!NoPage /\ ready' = TRUE /\ baseline' = TRUE /\ cursor' = 0
      BY <2>2
      DEF AcceptCacheCleared, ResetRows, Outbox!ResetRows, NoPage, Outbox!NoPage, NoRows,
          Outbox!NoRows, Empty, Outbox!Empty
    <3> QED
      BY <2>1, <2>2, <3>1, <1>ClearedIsDone
      DEF Outbox!AcceptCacheCleared, Outbox!sourceVars, Outbox!edgeVars, edgeVars, cacheVars,
          linkVars, Joined, Live
  <2>3. CASE ~ClearedNow(Head(jobs))
    <3>1. UNCHANGED <<dbSession, desired, applied, pageVars, ready, baseline, cursor>>
      BY <2>3 DEF AcceptCacheCleared
    <3> QED BY <2>1, <3>1, <1>Stutters
      DEF indexVars, epochVars, edgeVars, cacheVars, linkVars, Joined, Live
  <2> QED BY <2>2, <2>3
<1>ResetLostRefines. ASSUME EpochInv, Counted, ResetLost PROVE Outbox!ResetLost
  <2> USE <1>ResetLostRefines
  <2>1. /\ JobIs("cleared") /\ ClearedNow(Head(jobs)) /\ lost + fulls < MaxTrouble /\ lost' = lost + 1 /\ Outbox!ResetRows
        /\ UNCHANGED <<identity, changes, revision, pageVars, epochVars, edgeVars>>
    BY DEF ResetLost, ResetRows, Outbox!ResetRows, NoRows, Outbox!NoRows
  <2>2. lost < MaxTrouble
    BY <2>1, SyncAssumption, SMT, Z3 DEF Counted
  <2> QED
    BY <2>1, <2>2, <1>ClearedIsDone
    DEF Outbox!ResetLost, Outbox!sourceVars, Outbox!sessionVars, Outbox!pageVars, Outbox!edgeVars,
        pageVars, epochVars, edgeVars, cacheVars, linkVars, Joined, Live
\* A due acknowledgement confirms a page that an edge still in the epoch has applied.
<1>DueIsApplied.
    ASSUME EpochInv, StreamInv, JobIs("ack"), ~AckStale(Head(jobs)), AckDue(Head(jobs)), ConfirmRows
    PROVE  Outbox!ConfirmRows /\ ready
  <2> USE <1>DueIsApplied
  <2>1. Head(jobs) \in Answers /\ Head(jobs).type = "ack" /\ Head(jobs).epoch = epoch /\ Head(jobs).rev = pageRev
    BY <1>HeadJob DEF JobIs, AckStale, AckDue, EpochInv
  <2>2. pageRev \in 1..revision /\ ready /\ (entered => pageRev <= lastRevision) /\ revision \in Nat
    BY <2>1, AckMeansApplied DEF EpochInv, Opened
  <2>3. pageRev # 0 /\ (Joined => lastRevision >= pageRev)
    BY <2>2, SMT, Z3 DEF Joined, StreamInv, Typed
  <2> QED
    BY <2>2, <2>3
    DEF ConfirmRows, Outbox!ConfirmRows, ConfirmedRow, Outbox!ConfirmedRow, HasRow, Outbox!HasRow,
        Max2, Outbox!Max2
<1>ConfirmIdentityRefines.
    ASSUME EpochInv, StreamInv, ConfirmIdentity
    PROVE  Outbox!Confirm \/ UNCHANGED Outbox!vars
  <2> USE <1>ConfirmIdentityRefines
  <2>1. JobIs("ack") /\ UNCHANGED <<identity, changes, revision, dbSession, lost, epoch, ready, edgeVars>>
    BY DEF ConfirmIdentity
  <2>2. CASE UNCHANGED <<desired, applied, appliedRev, cursor, baseline, pageVars, down>>
    BY <2>1, <2>2, <1>Stutters DEF indexVars, epochVars, edgeVars, cacheVars, linkVars, Joined, Live
  <2>3. CASE /\ ~AckStale(Head(jobs)) /\ AckDue(Head(jobs)) /\ ConfirmRows /\ Outbox!NoPage
             /\ cursor' = (IF baseline THEN pageLast ELSE cursor) /\ baseline' = (baseline /\ ~pageEnd)
    <3>1. Outbox!ConfirmRows /\ ready
      BY <2>1, <2>3, <1>DueIsApplied
    <3>2. UNCHANGED <<Outbox!sourceVars, dbSession, epoch, ready, Outbox!edgeVars, lost>>
      BY <2>1 DEF Outbox!sourceVars, Outbox!edgeVars, edgeVars, cacheVars, linkVars, Joined, Live
    <3> QED BY <2>1, <2>3, <3>1, <3>2, SMT, Z3 DEF Outbox!Confirm
  <2> QED BY <2>2, <2>3 DEF ConfirmIdentity, NoPage, Outbox!NoPage, Empty, Outbox!Empty
<1>ConfirmLostRefines. ASSUME EpochInv, StreamInv, Counted, ConfirmLost PROVE Outbox!ConfirmLost
  <2> USE <1>ConfirmLostRefines
  <2>1. /\ JobIs("ack") /\ ~AckStale(Head(jobs)) /\ AckDue(Head(jobs)) /\ ConfirmRows
        /\ lost + fulls < MaxTrouble /\ lost' = lost + 1
        /\ UNCHANGED <<identity, changes, revision, dbSession, pageVars, epochVars, edgeVars>>
    BY DEF ConfirmLost
  <2>2. lost < MaxTrouble
    BY <2>1, SyncAssumption, SMT, Z3 DEF Counted
  <2>3. Outbox!ConfirmRows
    BY <2>1, <1>DueIsApplied
  <2>4. UNCHANGED <<Outbox!sourceVars, dbSession, Outbox!sessionVars, Outbox!pageVars, Outbox!edgeVars>>
    BY <2>1
    DEF Outbox!sourceVars, Outbox!sessionVars, Outbox!pageVars, Outbox!edgeVars, pageVars,
        epochVars, edgeVars, cacheVars, linkVars, Joined, Live
  <2> QED BY <2>1, <2>2, <2>3, <2>4 DEF Outbox!ConfirmLost
<1>GivenUpType. GivenUp.type = "given up"
  BY DEF GivenUp
\* A reset opens its epoch, unless a later one overtook it: then it finds an empty cache.
<1>DoResetRefines.
    ASSUME EpochInv, StreamInv, DoReset
    PROVE  (\E e \in 1..epoch : Outbox!EdgeReset(e)) \/ UNCHANGED Outbox!vars
  <2> USE <1>DoResetRefines
  <2>1. /\ Live /\ worker # None /\ worker.type = "reset" /\ edgeEpoch' = Max2(edgeEpoch, worker.epoch)
        /\ cache' = Empty /\ lastRevision' = 0 /\ resetPending' = TRUE /\ entered' = TRUE
        /\ UNCHANGED <<ctlVars, linkVars>>
    BY DEF DoReset, ClearCache, Working
  <2>2. worker \in Resets /\ worker.epoch \in 1..epoch /\ epoch \in Nat /\ edgeEpoch \in Nat
    BY <2>1, SMT, Z3 DEF EpochInv, Queued, Epochs, Resets, IsReset
  <2>3. Joined' = TRUE
    BY <2>1 DEF Joined, Live, linkVars
  <2>4. UNCHANGED <<indexVars, pageVars, epochVars>>
    BY <2>1 DEF ctlVars
  <2>5. CASE edgeEpoch < worker.epoch
    <3>1. edgeEpoch' = worker.epoch
      BY <2>1, <2>5 DEF Outbox!Max2, Max2
    <3>2. Outbox!EdgeReset(worker.epoch)
      BY <2>1, <2>3, <2>4, <2>5, <3>1
      DEF Outbox!EdgeReset, Outbox!Cleared, Outbox!Empty, indexVars, pageVars, epochVars,
          Outbox!sourceVars, Outbox!indexVars, Outbox!sessionVars, Outbox!pageVars, Empty
    <3> QED BY <2>2, <3>2
  <2>6. CASE worker.epoch <= edgeEpoch
    <3>1. edgeEpoch' = edgeEpoch
      BY <2>1, <2>2, <2>6, SMT, Z3 DEF Outbox!Max2, Max2
    <3>2. entered /\ Fresh
      <4>1. worker # GivenUp
        BY <2>1, <1>GivenUpType
      <4> QED BY <2>2, <2>6, <4>1 DEF StreamInv, Behind, Overtaken
    <3>3. Joined = TRUE
      BY <2>1, <3>2 DEF Joined
    <3>4. UNCHANGED <<cache, lastRevision>> /\ resetPending /\ resetPending'
      BY <2>1, <3>2 DEF Fresh
    <3>5. UNCHANGED Outbox!vars
      BY <2>3, <2>4, <3>1, <3>3, <3>4
      DEF indexVars, pageVars, epochVars, Outbox!vars, Outbox!indexVars, Outbox!sessionVars,
          Outbox!pageVars, Outbox!edgeVars, Outbox!sourceVars
    <3> QED BY <3>5
  <2> QED BY <2>2, <2>5, <2>6, SMT, Z3
<1>DoApplyRefines.
    ASSUME EpochInv, StreamInv, DoApply
    PROVE  \/ Outbox!Apply
           \/ \E c \in [Users -> Outbox!Contents], rev \in 1..revision, b \in BOOLEAN : Outbox!ApplyStale(c, rev, b)
  <2> USE <1>DoApplyRefines
  <2>1. /\ Live /\ worker # None /\ worker.type = "page" /\ lastRevision < worker.rev
        /\ UNCHANGED <<ctlVars, edgeEpoch, entered, linkVars>>
        /\ cache' = [u \in Users |-> IF u \in worker.body.users THEN worker.body.value[u] ELSE cache[u]]
        /\ lastRevision' = worker.rev /\ resetPending' = (resetPending /\ ~(worker.body.baseline /\ worker.body.end))
    BY DEF DoApply, Working, PageAcceptable
  <2>2. /\ entered /\ worker.epoch = edgeEpoch /\ worker.rev \in 1..revision /\ worker.body \in Bodies
        /\ worker.epoch = epoch => Current(worker.rev, worker.body)
    <3>1. worker # GivenUp
      BY <2>1, <1>GivenUpType
    <3>2. worker \in Pages
      BY <2>1 DEF Pages, IsPage
    <3> QED BY <3>1, <3>2 DEF StreamInv, Paged
  <2>3. Joined = TRUE /\ Joined' = TRUE
    BY <2>1, <2>2 DEF Joined, Live, linkVars
  <2>4. UNCHANGED <<indexVars, pageVars, epochVars>>
    BY <2>1 DEF ctlVars
  <2>5. UNCHANGED <<edgeEpoch, Joined, Outbox!sourceVars, Outbox!indexVars, Outbox!sessionVars,
                    Outbox!pageVars, lost>>
    BY <2>1, <2>3, <2>4
    DEF indexVars, pageVars, epochVars, Outbox!sourceVars, Outbox!indexVars, Outbox!sessionVars,
        Outbox!pageVars
  <2>6. CASE worker.epoch = epoch
    <3>1. worker.rev = pageRev /\ pageRev # 0 /\ worker.body = Body /\ lastRevision < pageRev /\ edgeEpoch = epoch
      BY <2>2, <2>6 DEF Current
    <3>2. /\ cache' = [u \in Users |-> IF u \in page THEN pageValue[u] ELSE cache[u]]
          /\ resetPending' = (resetPending /\ ~(baseline /\ pageEnd))
      BY <2>1, <3>1, BodyFields
    <3> QED BY <2>1, <2>3, <2>5, <3>1, <3>2 DEF Outbox!Apply
  <2>7. CASE worker.epoch # epoch
    <3>1. edgeEpoch < epoch
      BY <2>2, <2>7, SMT, Z3 DEF EpochInv, Epochs
    <3>2. cache' \in [Users -> Outbox!Contents]
      BY <2>1, <2>2 DEF StreamInv, Typed, Bodies, Outbox!Contents, Contents
    <3>3. PICK b \in BOOLEAN : b = resetPending'
      BY <2>1
    <3>4. Outbox!ApplyStale(cache', worker.rev, b)
      BY <2>1, <2>3, <2>5, <3>1, <3>3 DEF Outbox!ApplyStale
    <3> QED BY <2>2, <3>2, <3>4
  <2> QED BY <2>6, <2>7
\* The edge leaves the epoch, or had left it.
<1>LeavingRefines.
    ASSUME EpochInv, StreamInv, Join \/ Crash \/ JobFails
    PROVE  Outbox!EdgeDiscard \/ UNCHANGED Outbox!vars
  <2> USE <1>LeavingRefines
  <2>1. UNCHANGED <<indexVars, pageVars, epochVars, edgeEpoch>> /\ ~entered'
    BY DEF Join, Crash, JobFails, ConnectionGone, ctlVars
  <2>2. ~Joined' /\ epoch \in Nat /\ epoch <= MaxEpoch
    BY <2>1 DEF Joined, EpochInv, Epochs, StreamInv, Typed
  <2>3. CASE Joined
    BY <2>1, <2>2, <2>3, <1>Discards
  <2>4. CASE ~Joined
    BY <2>1, <2>2, <2>4, <1>StuttersApart
  <2> QED BY <2>3, <2>4
\* Messages, sessions and queues are no concern of the durable side.
<1>TransportStutters.
    ASSUME Life,
           \/ \E s \in unregistered : Register(s)
           \/ SendWelcome \/ EndSession \/ NeedFull \/ RecvChunkAck \/ RecvJob
           \/ Connect \/ Fence \/ Discard \/ RecvWelcome \/ RecvChunk \/ RecvConfirmed \/ TakeJob
    PROVE  UNCHANGED Outbox!vars
  <2> USE <1>TransportStutters
  <2>1. CASE Connect \/ Discard
    <3>1. UNCHANGED <<indexVars, pageVars, epochVars, edgeEpoch, entered>> /\ ~Live
      BY <2>1 DEF Connect, Discard, ctlVars, cacheVars, Live
    <3>2. ~entered /\ ~entered'
      BY <3>1 DEF Life, Idle
    <3> QED BY <3>1, <3>2, <1>StuttersApart DEF Joined
  <2>2. CASE Fence
    BY <2>2, <1>Stutters DEF Fence, ctlVars, cacheVars, Joined, Live
  <2>3. CASE (\E s \in unregistered : Register(s)) \/ SendWelcome \/ EndSession \/ NeedFull \/ RecvChunkAck \/ RecvJob
    <3>1. UNCHANGED <<indexVars, pageVars, epochVars, edgeVars>>
      BY <2>3 DEF Register, SendWelcome, EndSession, NeedFull, RecvChunkAck, RecvJob
    <3> QED BY <3>1, <1>Stutters DEF edgeVars, cacheVars, linkVars, Joined, Live
  <2>4. CASE RecvWelcome \/ RecvChunk \/ RecvConfirmed \/ TakeJob
    <3>1. UNCHANGED <<ctlVars, cacheVars, linkVars>>
      BY <2>4 DEF RecvWelcome, RecvChunk, RecvConfirmed, TakeJob
    <3> QED BY <3>1, <1>Stutters DEF ctlVars, cacheVars, linkVars, Joined, Live
  <2> QED BY <2>1, <2>2, <2>3, <2>4

(* One step *)
<1> SUFFICES ASSUME EpochInv, StreamInv, Counted, UpToLast, [Next]_vars PROVE Outbox!Next \/ UNCHANGED Outbox!vars
  OBVIOUS
<1>1. Epochs /\ Life
  BY DEF EpochInv, StreamInv
<1>2. CASE \E u \in Users, v \in Contents : Mutate(u, v)
  <2>1. PICK u \in Users, v \in Contents : Mutate(u, v)
    BY <1>2
  <2> QED BY <2>1, <1>MutateRefines DEF Outbox!Next, Outbox!Contents, Contents
<1>3. CASE Hello \/ RequestReset
  BY <1>1, <1>3, <1>HelloRefines, <1>RequestResetRefines DEF Outbox!Next
<1>4. CASE PushAny \/ PushStuck(1)
  <2>1. PICK total : TakePage(total)
    BY <1>4 DEF PushAny, PushPage, PushStuck
  <2> QED BY <2>1, <1>TakePageRefines DEF Outbox!Next
<1>5. CASE \E U \in SUBSET Users : PushLost(U)
  <2>1. PICK U \in SUBSET Users : PushLost(U)
    BY <1>5
  <2> QED BY <2>1, <1>PushLostRefines DEF Outbox!Next
<1>6. CASE AcceptCacheCleared \/ ResetLost \/ ConfirmIdentity \/ ConfirmLost
  BY <1>6, <1>AcceptCacheClearedRefines, <1>ResetLostRefines, <1>ConfirmIdentityRefines,
     <1>ConfirmLostRefines
  DEF Outbox!Next
<1>7. CASE DoReset \/ DoApply
  BY <1>7, <1>DoResetRefines, <1>DoApplyRefines DEF Outbox!Next
<1>8. CASE Join \/ Crash \/ JobFails
  BY <1>8, <1>LeavingRefines DEF Outbox!Next
<1>9. CASE UNCHANGED vars
  BY <1>9, <1>Stutters DEF vars, ctlVars, edgeVars, cacheVars, linkVars, Joined, Live
<1> QED BY <1>1, <1>2, <1>3, <1>4, <1>5, <1>6, <1>7, <1>8, <1>9, <1>TransportStutters DEF Next

INSTANCE FiniteSetTheorems

\* A baseline page read from the database ends at its last id and leaves out nobody
\* before it.
LEMMA PagesUpToLast == UpToLast
\* A nonempty set of users has a first and a last one.
<1>Extremes.
    ASSUME NEW S \in SUBSET Users, S # {}
    PROVE  (\E x \in S : \A y \in S : x >= y) /\ (\E x \in S : \A y \in S : x <= y)
  <2> USE <1>Extremes
  <2> DEFINE Bounded(T) == (\E x \in T : \A y \in T : x >= y) /\ (\E x \in T : \A y \in T : x <= y)
             Bad == {T \in SUBSET Users : T # {} /\ ~Bounded(T)}
  <2>1. Users \subseteq Nat /\ IsFiniteSet(Users)
    BY SyncAssumption
  <2>2. SUFFICES ASSUME Bad # {} PROVE FALSE
    OBVIOUS
  <2>3. Bad \subseteq FiniteSubsetsOf(Users)
    BY <2>1, FS_FiniteSubsetsOfFinite
  <2>4. PICK T \in Bad : \A U \in Bad : <<U, T>> \notin StrictSubsetOrdering(Users)
    BY <2>2, <2>3, FS_StrictSubsetOrderingWellFounded, WFMin
  <2>5. PICK x \in T : TRUE
    OBVIOUS
  <2>6. T \ {x} \notin Bad
    <3>1. <<T \ {x}, T>> \in StrictSubsetOrdering(Users)
      BY DEF StrictSubsetOrdering
    <3> QED BY <2>4, <3>1
  <2>7. CASE T \ {x} = {}
    <3>1. T = {x} /\ x \in Nat
      BY <2>1, <2>7
    <3> QED BY <3>1, SMT, Z3
  <2>8. CASE T \ {x} # {}
    <3>1. PICK a \in T \ {x}, b \in T \ {x} : \A y \in T \ {x} : a >= y /\ b <= y
      BY <2>6, <2>8
    <3>2. T \subseteq Nat
      BY <2>1
    <3>3. \E m \in {a, x} : \A y \in T : m >= y
      BY <3>1, <3>2, SMTT(30), Z3T(30)
    <3>4. \E m \in {b, x} : \A y \in T : m <= y
      BY <3>1, <3>2, SMTT(30), Z3T(30)
    <3> QED BY <3>1, <3>3, <3>4
  <2> QED BY <2>7, <2>8
\* FirstPage takes the first members: with one of them all smaller ones, and at least one.
<1>FirstPageFacts.
    ASSUME NEW S \in SUBSET Users
    PROVE  /\ FirstPage(S) \subseteq S
           /\ \A u \in FirstPage(S), w \in S : w < u => w \in FirstPage(S)
           /\ S # {} => FirstPage(S) # {}
  <2> USE <1>FirstPageFacts
  <2>1. Users \subseteq Nat /\ IsFiniteSet(Users) /\ PageSize \in Nat \ {0}
    BY SyncAssumption
  <2>2. IsFiniteSet(S)
    BY <2>1, FS_Subset
  <2>3. FirstPage(S) \subseteq S
    BY DEF FirstPage
  <2>4. ASSUME NEW u \in FirstPage(S), NEW w \in S, w < u PROVE w \in FirstPage(S)
    <3> DEFINE below(x) == {y \in S : y < x}
    <3>1. below(w) \subseteq below(u)
      <4>1. S \subseteq Nat /\ u \in Nat /\ w \in Nat
        BY <2>1, <2>3
      <4>2. \A y \in S : y < w => y < u
        BY <2>4, <4>1, SMT, Z3
      <4> QED BY <4>2
    <3>2. IsFiniteSet(below(u)) /\ IsFiniteSet(below(w)) /\ Cardinality(below(w)) <= Cardinality(below(u))
      <4>1. IsFiniteSet(below(u))
        BY <2>2, FS_Subset
      <4> HIDE DEF below
      <4> QED BY <3>1, <4>1, FS_Subset
    <3>3. Cardinality(below(u)) \in Nat /\ Cardinality(below(w)) \in Nat
      BY <3>2, FS_CardinalityType
    <3>4. Cardinality(below(u)) < PageSize
      BY DEF FirstPage
    <3>5. Cardinality(below(w)) < PageSize
      <4> HIDE DEF below
      <4> QED BY <2>1, <3>2, <3>3, <3>4, SMTT(30), Z3T(30)
    <3> QED BY <3>5 DEF FirstPage
  <2>5. ASSUME S # {} PROVE FirstPage(S) # {}
    <3>1. PICK u \in S : \A y \in S : u <= y
      BY <2>5, <1>Extremes
    <3>2. {y \in S : y < u} = {}
      <4>1. S \subseteq Nat
        BY <2>1
      <4>2. \A y \in S : ~(y < u)
        BY <3>1, <4>1, SMTT(30), Z3T(30)
      <4> QED BY <4>2
    <3>3. Cardinality({y \in S : y < u}) = 0
      BY <3>2, FS_EmptySet
    <3> QED BY <2>1, <3>3, SMTT(30), Z3T(30) DEF FirstPage
  <2> QED BY <2>3, <2>4, <2>5
<1> SUFFICES ASSUME baseline
             PROVE  /\ LastID \in Users \cup {cursor} /\ NextPage \subseteq Users
                    /\ NextPage = {u \in Users : cursor < u /\ u <= LastID /\ identity[u] # Absent}
                    /\ LastID \in NextPage \/ (NextPage = {} /\ LastID = cursor /\ \A u \in Users : u > LastID => identity[u] = Absent)
  BY DEF UpToLast
<1> DEFINE S == {u \in Users : u > cursor /\ identity[u] # Absent}
<1>1. NextPage = FirstPage(S)
  BY DEF NextPage
<1>2. Users \subseteq Nat /\ \A u \in Users : u > cursor <=> cursor < u
  BY SyncAssumption
<1>3. /\ FirstPage(S) \subseteq S /\ (S # {} => FirstPage(S) # {})
      /\ \A u \in FirstPage(S), w \in S : w < u => w \in FirstPage(S)
  BY <1>FirstPageFacts
<1>4. CASE NextPage = {}
  <2>1. S = {}
    BY <1>1, <1>3, <1>4
  <2>2. LastID = cursor
    BY <1>4 DEF LastID
  <2> QED BY <1>2, <1>4, <2>1, <2>2
<1>5. CASE NextPage # {}
  <2>1. NextPage \subseteq S /\ NextPage \subseteq Users
    BY <1>1, <1>3
  <2>2. LastID \in NextPage /\ \A y \in NextPage : LastID >= y
    <3>1. \E x \in NextPage : \A y \in NextPage : x >= y
      BY <1>5, <2>1, <1>Extremes
    <3>2. LastID = CHOOSE u \in NextPage : \A w \in NextPage : u >= w
      BY <1>5 DEF LastID
    <3> QED BY <3>1, <3>2
  <2>3. \A w \in S : w <= LastID => w \in NextPage
    <3>1. LastID \in Nat /\ \A w \in S : w \in Nat
      BY <1>2, <2>1, <2>2
    <3>2. \A m, n \in Nat : m <= n => m = n \/ m < n
      BY SMT, Z3
    <3> QED BY <1>1, <1>3, <2>2, <3>1, <3>2
  <2>4. \A w \in NextPage : w <= LastID /\ cursor < w /\ identity[w] # Absent
    BY <1>2, <2>1, <2>2
  <2>5. \A w \in Users : cursor < w /\ w <= LastID /\ identity[w] # Absent => w \in NextPage
    BY <1>2, <2>3
  <2> QED BY <2>1, <2>2, <2>4, <2>5
<1> QED BY <1>4, <1>5

\* The durable protocol starts as the streams do.
LEMMA OutboxStarts == ASSUME Init PROVE Outbox!Init
<1>1. ~Joined
  BY DEF Init, Joined
<1> QED BY <1>1, SMT, Z3
  DEF Init, Outbox!Init, Outbox!Contents, Outbox!Empty, Outbox!NoRows, Contents, Empty, NoRows

\* The handlers, the delivery loop, the worker and the edge's goroutines, with streams that
\* break and overtake each other, carry out the durable protocol: every step is one of
\* IdentityOutbox or leaves its variables alone.
THEOREM SyncImplementsOutbox == Spec => Implements
<1>1. Init => Outbox!Init /\ Counted
  <2>1. Init => Counted
    BY SMT, Z3 DEF Init, Counted
  <2> QED BY <2>1, OutboxStarts
<1>2. Counted /\ [Next]_vars => Counted'
  BY CountedKept
<1>3. EpochInv /\ StreamInv /\ Counted /\ [Next]_vars => [Outbox!Next]_Outbox!vars
  BY StepRefines, PagesUpToLast
<1> QED BY <1>1, <1>2, <1>3, EpochInvariant, StreamInvariant, PTL DEF Spec, Implements

-----------------------------------------------------------------------------
(* What the refinement gives *)

\* IdentityOutbox again, with what is proved about it.
Durable == INSTANCE IdentityOutboxProofs WITH
    MaxEpoch     <- MaxEpoch + 1,
    MaxLost      <- MaxTrouble,
    cursor       <- IF ready THEN cursor ELSE 0,
    joined       <- Joined,
    cache        <- IF Joined THEN cache ELSE [u \in Users |-> Absent],
    lastRevision <- IF Joined THEN lastRevision ELSE 0,
    resetPending <- Joined => resetPending

\* The two instances say the same.
LEMMA SameStart == Outbox!Init => Durable!Init
BY
DEF Durable!Init, Outbox!Init, Durable!Contents, Outbox!Contents, Durable!Empty, Outbox!Empty,
    Durable!NoRows, Outbox!NoRows

\* The steps of the one instance are those of the other.
LEMMA SameSteps == [Outbox!Next]_Outbox!vars => [Durable!Next]_Durable!vars
<1> USE DEF Durable!Empty, Outbox!Empty, Durable!NoRows, Outbox!NoRows, Durable!sourceVars,
    Outbox!sourceVars, Durable!indexVars, Outbox!indexVars, Durable!sessionVars, Outbox!sessionVars,
    Durable!pageVars, Outbox!pageVars, Durable!edgeVars, Outbox!edgeVars, Durable!NoPage,
    Outbox!NoPage, Durable!Cleared, Outbox!Cleared
<1>1. \A u, v : Outbox!Mutate(u, v) => Durable!Mutate(u, v)
  BY
  DEF Durable!Mutate, Outbox!Mutate, Durable!MarkDirty, Outbox!MarkDirty, Durable!HasRow,
      Outbox!HasRow
<1>2. Outbox!StartEpoch => Durable!StartEpoch
  BY DEF Durable!StartEpoch, Outbox!StartEpoch
<1>3. Outbox!AcceptCacheCleared => Durable!AcceptCacheCleared
  BY DEF Durable!AcceptCacheCleared, Outbox!AcceptCacheCleared, Durable!ResetRows, Outbox!ResetRows
<1>4. Outbox!ResetLost => Durable!ResetLost
  BY DEF Durable!ResetLost, Outbox!ResetLost, Durable!ResetRows, Outbox!ResetRows
<1>5. Outbox!ConfirmRows => Durable!ConfirmRows
  BY
  DEF Durable!ConfirmRows, Outbox!ConfirmRows, Durable!ConfirmedRow, Outbox!ConfirmedRow,
      Durable!HasRow, Outbox!HasRow, Durable!Max2, Outbox!Max2
<1>6. (Outbox!Confirm => Durable!Confirm) /\ (Outbox!ConfirmLost => Durable!ConfirmLost)
  BY <1>5 DEF Durable!Confirm, Outbox!Confirm, Durable!ConfirmLost, Outbox!ConfirmLost
<1>7. \A U : Outbox!PrepareLost(U) => Durable!PrepareLost(U)
  BY
  DEF Durable!PrepareLost, Outbox!PrepareLost, Durable!PrepareRows, Outbox!PrepareRows,
      Durable!Ahead, Outbox!Ahead, Durable!Pending, Outbox!Pending
<1>8. \A last : Outbox!PushBaseline(last) => Durable!PushBaseline(last)
  BY
  DEF Durable!PushBaseline, Outbox!PushBaseline, Durable!SendPage, Outbox!SendPage,
      Durable!PrepareRows, Outbox!PrepareRows
<1>9. \A U : Outbox!PushPending(U) => Durable!PushPending(U)
  BY
  DEF Durable!PushPending, Outbox!PushPending, Durable!SendPage, Outbox!SendPage,
      Durable!PrepareRows, Outbox!PrepareRows, Durable!Pending, Outbox!Pending
<1>10. (Outbox!EdgeDiscard => Durable!EdgeDiscard) /\ (Outbox!Apply => Durable!Apply)
  BY DEF Durable!EdgeDiscard, Outbox!EdgeDiscard, Durable!Apply, Outbox!Apply
<1>11. \A e : Outbox!EdgeReset(e) => Durable!EdgeReset(e)
  BY DEF Durable!EdgeReset, Outbox!EdgeReset
<1>12. \A c, rev, b : Outbox!ApplyStale(c, rev, b) => Durable!ApplyStale(c, rev, b)
  BY DEF Durable!ApplyStale, Outbox!ApplyStale
<1>13. Outbox!Next => Durable!Next
  BY <1>1, <1>2, <1>3, <1>4, <1>6, <1>7, <1>8, <1>9, <1>10, <1>11, <1>12
  DEF Durable!Next, Outbox!Next, Durable!Contents, Outbox!Contents
<1>14. Outbox!vars = Durable!vars /\ Outbox!vars' = Durable!vars'
  BY DEF Durable!vars, Outbox!vars
<1> QED BY <1>13, <1>14

\* What is proved of the durable protocol holds of the goroutines that carry it out.
THEOREM DurableInvariant == Spec => []Durable!OutboxInv
<1> USE SyncAssumption
<1>1. Outbox!Init => Durable!OutboxInv
  BY SameStart, Durable!InitOutboxInv, SMTT(30), Z3T(30)
<1>2. Durable!OutboxInv /\ [Outbox!Next]_Outbox!vars => Durable!OutboxInv'
  BY SameSteps, Durable!OutboxKept, SMTT(30), Z3T(30)
<1> QED BY <1>1, <1>2, SyncImplementsOutbox, PTL DEF Implements

\* What an edge that admits clients holds of a user is what the controller says, unless the
\* change is pending in user_node_cache, as long as the session serves the edge's epoch.
THEOREM AdmitsWithCurrentIdentities ==
    Spec => [](syncReady /\ ready /\ edgeEpoch = epoch =>
                 \A u \in Users : cache[u] = identity[u] \/ Pending(u))
<1>1. ASSUME ReadyIsComplete, Durable!OutboxInv, syncReady, ready, edgeEpoch = epoch
      PROVE  \A u \in Users : cache[u] = identity[u] \/ Pending(u)
  <2>1. Joined /\ ~resetPending
    BY <1>1 DEF ReadyIsComplete, Joined
  <2>2. Durable!CompleteCache
    BY <1>1, Durable!CompleteInv, SyncAssumption, SMTT(30), Z3T(30)
  <2> QED BY <1>1, <2>1, <2>2 DEF Durable!CompleteCache, Durable!Linked, Durable!Pending, Pending
<1> QED BY <1>1, AdmitsOnlyComplete, DurableInvariant, PTL

\* No message makes the other side end the session: acceptIdentityProgress and
\* acceptIdentityAck are never handed an acknowledgement that does not fit, nor the edge a
\* fragment, a confirmation or a page, unless a refresh overtook the welcome.
THEOREM NoMessageIsRefused == Spec => []MessagesFit
<1>1. Durable!OutboxInv => Outbox!BaselineDisjoint
  <2>1. Durable!OutboxInv => Durable!BaselineDisjoint
    BY Durable!DisjointInv, SyncAssumption, SMTT(30), Z3T(30)
  <2> QED BY <2>1
    DEF Durable!BaselineDisjoint, Durable!Linked, Outbox!BaselineDisjoint, Outbox!Linked
<1>2. EpochInv /\ StreamInv /\ FitInv /\ Outbox!BaselineDisjoint => MessagesFit
  BY AnswersFit, StreamFits, PageFits DEF MessagesFit
<1> QED BY <1>1, <1>2, EpochInvariant, StreamInvariant, FitInvariant, DurableInvariant, PTL

=============================================================================
