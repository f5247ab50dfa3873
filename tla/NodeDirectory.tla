---------------------------- MODULE NodeDirectory ----------------------------
(***************************************************************************)
(* Which certificates of an edge node the controller accepts. The row of    *)
(* edge_nodes names the current serial number; the controller keeps a copy  *)
(* of it (nodeCatalog), refreshed by several goroutines, and uses the copy  *)
(* while the database is suspect; a deletion leaves a mark in memory        *)
(* (forgottenNodes) so that no copy can bring the node back.                *)
(*                                                                         *)
(* Actors: enrolment requests (one token each, single use), an administrator *)
(* who deletes the node, the health ticker that reloads the catalogue, and   *)
(* the Connect handlers of the streams the node's certificates open. Nothing  *)
(* relates two nodes, so there is one; serial numbers are drawn upwards.     *)
(***************************************************************************)
EXTENDS Naturals, FiniteSets

CONSTANTS
    Requests,     \* enrolment requests
    Tokens,       \* enrolment tokens that were created, for one use each
    MaxSerials,   \* bound: certificates ever signed
    MaxDeletes,   \* bound: deletions of the node
    MaxTrouble    \* bound: outages, failing statements, lost answers and restarts together

ASSUME NodeDirectoryAssumption ==
    /\ MaxSerials \in Nat \ {0} /\ MaxDeletes \in Nat /\ MaxTrouble \in Nat
    /\ IsFiniteSet(Requests) /\ Tokens # {}

Serials == 1..MaxSerials
None == 0

VARIABLES
    row,        \* edge_nodes.certificate_serial, None when there is no row
    catalog,    \* nodeCatalog
    forgotten,  \* forgottenNodes
    suspect,    \* databaseSuspect
    up,         \* the database answers
    used,       \* tokens that are consumed
    enrol,      \* per request, how far it is, its serial and what it read
    signed,     \* certificates signed so far
    saved,      \* the certificate in the configuration file of the edge
    running,    \* the certificate the edge process was started with
    refresh,    \* what the ticker has listed and not yet stored
    del,        \* how far the deletion under way is
    conn,       \* per certificate, the Connect handler of its stream
    session,    \* s.sessions[node]: the certificate whose stream is registered
    deletes, trouble,
    fate        \* history: what became of the deletion, see DeleteEdgeNode

memoryVars == <<catalog, forgotten, suspect>>
edgeVars == <<saved, running>>
adminVars == <<used, enrol, signed, edgeVars, del, deletes, fate>>
connVars == <<conn, session>>
vars == <<row, memoryVars, up, adminVars, refresh, connVars, trouble>>

Idle == [pc |-> "idle", call |-> 1, serial |-> None]

\* A node that is enrolled and known, or the first enrolment
Init ==
    /\ signed \in {0, 1} /\ row = signed /\ catalog = signed /\ saved = signed /\ running = signed
    /\ forgotten = FALSE /\ suspect = FALSE /\ up = TRUE
    /\ used = {}
    /\ enrol = [r \in Requests |-> [pc |-> "idle", serial |-> None, token |-> CHOOSE t \in Tokens : TRUE, read |-> None]]
    /\ refresh = [pc |-> "idle", read |-> None] /\ del = "idle"
    /\ conn = [s \in Serials |-> Idle] /\ session = None
    /\ deletes = 0 /\ trouble = 0 /\ fate = "present"

Trouble == trouble < MaxTrouble /\ trouble' = trouble + 1
\* A statement is answered, or fails: in an outage, or on its own.
Answered == up /\ UNCHANGED trouble
Fails == IF up THEN Trouble ELSE UNCHANGED trouble

-----------------------------------------------------------------------------
(* Enrolment: enrollEdgeNode at the controller, asked by setupEdge or reEnrollEdge at the edge *)

UnderWay(r) == enrol[r].pc \notin {"idle", "done"}
Goto(r, pc) == enrol' = [enrol EXCEPT ![r].pc = pc]
Done(r) == Goto(r, "done")

\* A new node gets an identity of its own, a known one is looked up; the
\* certificate is signed before the token is looked at.
EnrolSigns(r, t) ==
    /\ enrol[r].pc = "idle" /\ signed < MaxSerials
    /\ signed = 0 \/ (saved # None /\ row # None)
    /\ up
    /\ signed' = signed + 1
    /\ enrol' = [enrol EXCEPT ![r] = [pc |-> "signed", serial |-> signed + 1, token |-> t, read |-> None]]
    /\ UNCHANGED <<row, memoryVars, up, used, edgeVars, del, deletes, fate, refresh, connVars, trouble>>

\* Mutant of ConsumeEnrollmentToken: the row is not read again under its lock.
ConsumeEnrollmentTokenTwice(r) ==
    /\ enrol[r].pc = "signed" /\ Answered
    /\ used' = used \cup {enrol[r].token} /\ Goto(r, "consumed")
    /\ UNCHANGED <<row, memoryVars, up, signed, edgeVars, del, deletes, fate, refresh, connVars>>

\* ConsumeEnrollmentTokenSettings, one transaction
ConsumeEnrollmentToken(r) ==
    /\ enrol[r].pc = "signed" /\ Answered
    /\ used' = used \cup {enrol[r].token}
    /\ Goto(r, IF enrol[r].token \in used THEN "done" ELSE "consumed")
    /\ UNCHANGED <<row, memoryVars, up, signed, edgeVars, del, deletes, fate, refresh, connVars>>

\* UpsertEdgeNode, and UpdateEdgeNodeDirectory for the settings of a new node
UpsertEdgeNode(r) ==
    /\ enrol[r].pc = "consumed" /\ Answered
    /\ row' = enrol[r].serial
    /\ Goto(r, "upserted")
    /\ UNCHANGED <<memoryVars, up, used, signed, edgeVars, del, deletes, fate, refresh, connVars>>

\* RememberEnrolledNode reads the row, then stores it and clears the mark.
RememberReads(r) ==
    /\ enrol[r].pc = "upserted"
    /\ \/ /\ Answered /\ row # None
          /\ enrol' = [enrol EXCEPT ![r] = [pc |-> "remember", serial |-> enrol[r].serial, token |-> enrol[r].token,
                                            read |-> row]]
       \/ Answered /\ row = None /\ Goto(r, "answer")
       \/ Fails /\ Goto(r, "answer")
    /\ UNCHANGED <<row, memoryVars, up, used, signed, edgeVars, del, deletes, fate, refresh, connVars>>

RememberEnrolledNode(r) ==
    /\ enrol[r].pc = "remember"
    /\ catalog' = enrol[r].read /\ forgotten' = FALSE
    /\ Goto(r, "answer")
    /\ UNCHANGED <<row, suspect, up, used, signed, edgeVars, del, deletes, fate, refresh, connVars, trouble>>

\* EnrollEdgeAs checks the answer and the handler writes the configuration file;
\* the answer may be lost, or the write fail.
EnrolAnswered(r) ==
    /\ enrol[r].pc = "answer"
    /\ Done(r)
    /\ \/ saved' = enrol[r].serial /\ UNCHANGED trouble
       \/ Trouble /\ UNCHANGED saved
    /\ UNCHANGED <<row, memoryVars, up, used, signed, running, del, deletes, fate, refresh, connVars>>

\* A statement fails: the token may be spent without a node, and a new node be
\* stored whose certificate nobody gets.
EnrolFails(r) ==
    /\ enrol[r].pc \in {"signed", "consumed"} \cup (IF enrol[r].serial = 1 THEN {"upserted"} ELSE {})
    /\ Fails
    /\ Done(r)
    /\ UNCHANGED <<row, memoryVars, up, used, signed, edgeVars, del, deletes, fate, refresh, connVars>>

Enrolment(r) ==
    \/ ConsumeEnrollmentToken(r) \/ UpsertEdgeNode(r) \/ RememberReads(r) \/ RememberEnrolledNode(r)
    \/ EnrolAnswered(r) \/ EnrolFails(r)

-----------------------------------------------------------------------------
(* deleteEdgeNode *)

\* DeleteEdgeNode, one transaction. The commit may also be reported as an error, and
\* the handler then stops. The deletion is unsettled when that happens or when an
\* enrolment of the node is under way, which can store the row again.
DeleteEdgeNode ==
    /\ del = "idle" /\ deletes < MaxDeletes /\ up /\ row # None
    /\ row' = None /\ deletes' = deletes + 1
    /\ \/ del' = "forget" /\ UNCHANGED trouble
          /\ fate' = IF fate = "unsettled" \/ \E r \in Requests : UnderWay(r) THEN "unsettled" ELSE "deleting"
       \/ Trouble /\ fate' = "unsettled" /\ UNCHANGED del
    /\ UNCHANGED <<memoryVars, up, used, enrol, signed, edgeVars, refresh, connVars>>

\* cancel of a session, whose handler then returns
Cancelled(s) == IF s = None THEN conn ELSE [conn EXCEPT ![s] = Idle]

\* The mark, and the copy with it
ForgetNode ==
    /\ del = "forget" /\ del' = "disconnect"
    /\ forgotten' = TRUE /\ catalog' = None
    /\ UNCHANGED <<row, suspect, up, used, enrol, signed, edgeVars, deletes, fate, refresh, connVars, trouble>>

DisconnectNode ==
    /\ del = "disconnect" /\ del' = "idle"
    /\ conn' = Cancelled(session) /\ session' = None
    /\ fate' = IF fate = "deleting" THEN "gone" ELSE fate
    /\ UNCHANGED <<row, memoryVars, up, used, enrol, signed, edgeVars, deletes, refresh, trouble>>

-----------------------------------------------------------------------------
(* The health ticker *)

RefreshReads ==
    /\ refresh.pc = "idle" /\ up
    /\ refresh' = [pc |-> "listed", read |-> row]
    /\ UNCHANGED <<row, memoryVars, up, adminVars, connVars, trouble>>

\* Mutant of ReplaceNodeCatalog: the list is stored as it was read.
ReplaceNodeCatalogAll ==
    /\ refresh.pc = "listed" /\ refresh' = [pc |-> "idle", read |-> None]
    /\ catalog' = refresh.read
    /\ UNCHANGED <<row, forgotten, suspect, up, adminVars, connVars, trouble>>

\* Mutant of ReplaceNodeCatalog: rows are added and replaced, never dropped.
ReplaceNodeCatalogMerges ==
    /\ refresh.pc = "listed" /\ refresh' = [pc |-> "idle", read |-> None]
    /\ catalog' = IF forgotten THEN None ELSE IF refresh.read = None THEN catalog ELSE refresh.read
    /\ UNCHANGED <<row, forgotten, suspect, up, adminVars, connVars, trouble>>

\* Mutant of ReplaceNodeCatalog: a node the list lacks counts as deleted.
ReplaceNodeCatalogMarks ==
    /\ refresh.pc = "listed" /\ refresh' = [pc |-> "idle", read |-> None]
    /\ forgotten' = (forgotten \/ refresh.read = None)
    /\ catalog' = IF forgotten THEN None ELSE refresh.read
    /\ UNCHANGED <<row, suspect, up, adminVars, connVars, trouble>>

ReplaceNodeCatalog ==
    /\ refresh.pc = "listed" /\ refresh' = [pc |-> "idle", read |-> None]
    /\ catalog' = IF forgotten THEN None ELSE refresh.read
    /\ UNCHANGED <<row, forgotten, suspect, up, adminVars, connVars, trouble>>

\* SetDatabaseSuspect(true), after a failure of any statement
SetDatabaseSuspect ==
    /\ ~suspect /\ Fails /\ suspect' = TRUE
    /\ UNCHANGED <<row, catalog, forgotten, up, adminVars, refresh, connVars>>

\* A successful probe clears it.
ClearDatabaseSuspect ==
    /\ suspect /\ up /\ suspect' = FALSE
    /\ UNCHANGED <<row, catalog, forgotten, up, adminVars, refresh, connVars, trouble>>

DatabaseFails ==
    /\ up /\ Trouble /\ up' = FALSE
    /\ UNCHANGED <<row, memoryVars, adminVars, refresh, connVars>>

DatabaseReturns ==
    /\ ~up /\ up' = TRUE
    /\ UNCHANGED <<row, memoryVars, adminVars, refresh, connVars, trouble>>

\* The controller dies and starts again: handlers, marks and copies are gone, and
\* Start loads the catalogue or, failing that, begins in a declared fault.
Restart ==
    /\ Trouble
    /\ enrol' = [r \in Requests |-> IF UnderWay(r) THEN [enrol[r] EXCEPT !.pc = "done"] ELSE enrol[r]]
    /\ refresh' = [pc |-> "idle", read |-> None] /\ del' = "idle"
    /\ conn' = [s \in Serials |-> Idle] /\ session' = None
    /\ forgotten' = FALSE /\ suspect' = ~up /\ catalog' = IF up THEN row ELSE None
    /\ fate' = IF fate = "deleting" THEN "gone" ELSE fate
    /\ UNCHANGED <<row, up, used, signed, edgeVars, deletes>>

\* The edge restarts with the certificate of its configuration file.
EdgeRestart ==
    /\ running # saved /\ running' = saved
    /\ UNCHANGED <<row, memoryVars, up, used, enrol, signed, saved, del, deletes, fate, refresh, connVars, trouble>>

-----------------------------------------------------------------------------
(* Connect: authorizedNode before and after the session is registered *)

\* Mutant of Refused: the handler unregisters whatever is registered.
RefusedBlindly(s) ==
    /\ conn' = [conn EXCEPT ![s] = Idle]
    /\ session' = None

\* The deferred function of Connect unregisters what the handler registered.
Refused(s) ==
    /\ conn' = [conn EXCEPT ![s] = Idle]
    /\ session' = IF session = s THEN None ELSE session

\* authorizedNode has returned the row n: the serial must be that of the stream.
Authorized(s, n) ==
    IF n # s THEN Refused(s)
    ELSE /\ conn' = [conn EXCEPT ![s] = [pc |-> IF conn[s].call = 1 THEN "register" ELSE "live", call |-> 2,
                                         serial |-> None]]
         /\ UNCHANGED session

\* The edge opens a stream.
Dial(s) ==
    /\ running = s /\ conn[s].pc = "idle"
    /\ conn' = [conn EXCEPT ![s].pc = "ask"]
    /\ UNCHANGED <<row, memoryVars, up, adminVars, refresh, session, trouble>>

\* The mark, then the copy when the database is suspect
AuthorizedNodeAsks(s) ==
    /\ conn[s].pc = "ask"
    /\ IF forgotten THEN Refused(s)
       ELSE IF suspect THEN Authorized(s, catalog)
       ELSE conn' = [conn EXCEPT ![s].pc = "query"] /\ UNCHANGED session
    /\ UNCHANGED <<row, memoryVars, up, adminVars, refresh, trouble>>

\* A row that is not there is final; only an error falls back on the copy.
AuthorizedNodeQueries(s) ==
    /\ conn[s].pc = "query"
    /\ \/ Answered /\ row = None /\ Refused(s)
       \/ /\ Answered /\ row # None
          /\ conn' = [conn EXCEPT ![s] = [pc |-> "store", call |-> conn[s].call, serial |-> row]]
          /\ UNCHANGED session
       \/ Fails /\ conn' = [conn EXCEPT ![s].pc = "fallback"] /\ UNCHANGED session
    /\ UNCHANGED <<row, memoryVars, up, adminVars, refresh>>

\* The mark is looked at again when the row is stored.
AuthorizedNodeStores(s) ==
    /\ conn[s].pc = "store"
    /\ IF forgotten THEN Refused(s) /\ UNCHANGED catalog
       ELSE catalog' = conn[s].serial /\ Authorized(s, conn[s].serial)
    /\ UNCHANGED <<row, forgotten, suspect, up, adminVars, refresh, trouble>>

AuthorizedNodeFallsBack(s) ==
    /\ conn[s].pc = "fallback"
    /\ IF suspect THEN Authorized(s, catalog) ELSE Refused(s)
    /\ UNCHANGED <<row, memoryVars, up, adminVars, refresh, trouble>>

\* Mutant of RegisterSession: the second check is left out.
RegisterSessionUnchecked(s) ==
    /\ conn[s].pc = "register"
    /\ conn' = [Cancelled(IF session = s THEN None ELSE session) EXCEPT ![s].pc = "live"]
    /\ session' = s
    /\ UNCHANGED <<row, memoryVars, up, adminVars, refresh, trouble>>

\* The session replaces the one of the previous stream, and is checked again.
RegisterSession(s) ==
    /\ conn[s].pc = "register"
    /\ conn' = [Cancelled(IF session = s THEN None ELSE session) EXCEPT ![s].pc = "ask"]
    /\ session' = s
    /\ UNCHANGED <<row, memoryVars, up, adminVars, refresh, trouble>>

\* A stream breaks, or its edge has restarted since.
StreamEnds(s) ==
    /\ conn[s].pc # "idle"
    /\ IF running = s THEN Trouble ELSE UNCHANGED trouble
    /\ Refused(s)
    /\ UNCHANGED <<row, memoryVars, up, adminVars, refresh>>

Handler(s) ==
    \/ AuthorizedNodeAsks(s) \/ AuthorizedNodeQueries(s) \/ AuthorizedNodeStores(s) \/ AuthorizedNodeFallsBack(s)
    \/ RegisterSession(s)

-----------------------------------------------------------------------------
Next ==
    \/ \E r \in Requests : (\E t \in Tokens : EnrolSigns(r, t)) \/ Enrolment(r)
    \/ DeleteEdgeNode \/ ForgetNode \/ DisconnectNode
    \/ RefreshReads \/ ReplaceNodeCatalog \/ SetDatabaseSuspect \/ ClearDatabaseSuspect
    \/ DatabaseFails \/ DatabaseReturns \/ Restart \/ EdgeRestart
    \/ \E s \in Serials : Dial(s) \/ Handler(s) \/ StreamEnds(s)

Spec == Init /\ [][Next]_vars

-----------------------------------------------------------------------------
(* What is checked *)

Live(s) == conn[s].pc = "live"
Positions == {"idle", "signed", "consumed", "upserted", "remember", "answer", "done"}

\* The type invariant, with the place of sessions: a handler that serves a stream is
\* the registered one, so that a node has one live stream at most and commands reach it.
TypeOK ==
    /\ {row, catalog, session, signed, saved, running} \subseteq {None} \cup Serials
    /\ {forgotten, suspect, up} \subseteq BOOLEAN /\ used \subseteq Tokens
    /\ enrol \in [Requests -> [pc : Positions, serial : {None} \cup Serials, token : Tokens,
                               read : {None} \cup Serials]]
    /\ refresh \in [pc : {"idle", "listed"}, read : {None} \cup Serials]
    /\ del \in {"idle", "forget", "disconnect"} /\ fate \in {"present", "deleting", "gone", "unsettled"}
    /\ conn \in [Serials -> [pc : {"idle", "ask", "query", "store", "fallback", "register", "live"}, call : 1..2,
                             serial : {None} \cup Serials]]
    /\ \A s \in Serials : Live(s) => session = s
    /\ deletes \in 0..MaxDeletes /\ trouble \in 0..MaxTrouble

\* A deletion that no enrolment overlapped and whose commit was answered is final:
\* from ForgetNode's return on, through outages and restarts, the row stays away, no
\* copy of it exists and no stream of the node is served, whatever a Connect handler,
\* the ticker or a fallback had read before.
DeletedStaysOut ==
    fate = "gone" => row = None /\ catalog = None /\ \A s \in Serials : ~Live(s)

\* The mark of ForgetNode excludes a copy at once and, when DisconnectNode has run, a
\* served stream, also when the deletion was overlapped by an enrolment.
MarkedStaysOut ==
    forgotten => catalog = None /\ (del # "disconnect" => \A s \in Serials : ~Live(s))

\* A token admits one certificate: no other request is past ConsumeEnrollmentToken with
\* the token that the certificate in the row came from.
TokenServesOnce ==
    \A r, q \in Requests :
        /\ row # None /\ enrol[r].serial = row
        /\ enrol[q].pc \in {"consumed", "upserted", "remember", "answer"}
        /\ enrol[q].token = enrol[r].token
        => r = q

-----------------------------------------------------------------------------
(* Fairness: handlers run on, the ticker of the health loop fires, the database comes
   back, an edge redials, and a handler notices that its stream is gone. Nothing is
   assumed of administrators and of edge restarts. *)

FairSpec ==
    /\ Spec
    /\ \A r \in Requests : WF_vars(Enrolment(r))
    /\ WF_vars(ForgetNode) /\ WF_vars(DisconnectNode)
    /\ WF_vars(RefreshReads) /\ WF_vars(ReplaceNodeCatalog)
    /\ WF_vars(ClearDatabaseSuspect) /\ WF_vars(DatabaseReturns)
    /\ \A s \in Serials : WF_vars(Dial(s)) /\ WF_vars(Handler(s)) /\ WF_vars(StreamEnds(s))

\* The copy the fallback uses catches up with the row again and again, however stale a
\* list or a lookup was when it was stored; a node that is marked and enrolled all the
\* same, which an enrolment that overlaps a deletion can leave, is the exception.
CatalogueFollows == []<>(catalog = row \/ (forgotten /\ row # None))

\* An edge that runs with the certificate of the row is served in the end and stays so,
\* after outages, restarts and refused attempts, unless a deletion was left unsettled.
EnrolledAccepted ==
    <>[](row # None /\ running = row /\ fate # "unsettled") => <>[](\E s \in Serials : s = row /\ Live(s))
=============================================================================
