------------------------------ MODULE EdgeGate ------------------------------
(***************************************************************************)
(* How an edge closes its FRP service when it loses its controller, is told *)
(* of a controller fault or cannot use its local database, and opens it      *)
(* again. Four kinds of goroutines call transitionNodeFault, which moves two *)
(* flags one after the other (admissionClosed of the FRP core, fault.closed  *)
(* of the HTTP server): the connection (Run and connect), the receiver of    *)
(* the control stream, the 200 ms ticker, and a request whose statement      *)
(* fails. Meanwhile one client logs in, sends heartbeats and opens ports.    *)
(*                                                                         *)
(* The messages of the controller come in the order IdentitySync shows, and  *)
(* a registration is one step, as in NodeFault. Operations never relate two  *)
(* clients, so one is modelled.                                              *)
(***************************************************************************)
EXTENDS Naturals

CONSTANT
    MaxTrouble    \* bound: lost streams, full refreshes, controller faults, disk outages
                  \* and failing statements together

ASSUME EdgeGateAssumption == MaxTrouble \in Nat

VARIABLES
    connected, syncReady, controllerFault,  \* EdgeClient
    resetPending,                           \* identityResetPending
    admissionClosed, coreDraining, lease, ports,  \* the FRP core, for the client
    closed, localFailed,                    \* Server.fault
    known, draining, drains, logoutSent,    \* Server.fault.clients and .drains, for the client
    trans,     \* per goroutine, where it is inside transitionNodeFault
    conn,      \* what Run and connect do
    recv,      \* what the receiver has still to do for its message
    sync,      \* how far the stream's identities are applied
    tick, verdict,  \* the ticker, and what it computed
    gui, frp, reg,  \* the client's login, its frpc, and a NewProxy under way
    disk,      \* the local database answers
    trouble,   \* troubles so far
    raced      \* history: an opening has met a closing ("overlap"), or the ticker has
               \* opened what another goroutine had fenced ("overrun")

flagVars == <<connected, syncReady, controllerFault, resetPending>>
coreVars == <<admissionClosed, coreDraining, lease, ports>>
faultVars == <<closed, localFailed, known, draining, drains, logoutSent>>
clientVars == <<gui, frp, reg>>
tickVars == <<tick, verdict>>
transVars == <<trans, raced>>
vars == <<flagVars, coreVars, faultVars, transVars, conn, recv, sync, tickVars, clientVars, disk, trouble>>

Goroutines == {"conn", "recv", "tick", "request"}

\* The boot has discarded the cache; nothing is closed yet.
Init ==
    /\ connected = FALSE /\ syncReady = FALSE /\ controllerFault = FALSE /\ resetPending = TRUE
    /\ admissionClosed = FALSE /\ coreDraining = FALSE /\ lease = FALSE /\ ports = 0
    /\ closed = FALSE /\ localFailed = FALSE
    /\ known = FALSE /\ draining = FALSE /\ drains = FALSE /\ logoutSent = FALSE
    /\ trans = [g \in Goroutines |-> "none"]
    /\ conn = "dial" /\ recv = "wait" /\ sync = "none"
    /\ tick = "idle" /\ verdict = FALSE
    /\ gui = FALSE /\ frp = "out" /\ reg = "idle"
    /\ disk = TRUE /\ trouble = 0 /\ raced = {}

Trouble == trouble < MaxTrouble /\ trouble' = trouble + 1

\* edgeOnlineForNewSessions, the gate of logins, bootstraps, FRP logins and NewProxy
EdgeOnline == ~closed /\ ~localFailed /\ connected /\ syncReady /\ ~controllerFault
\* nodeUnavailableEdge
UnavailableEdge == ~connected \/ controllerFault \/ resetPending

-----------------------------------------------------------------------------
(* transitionNodeFault *)

\* An opening and a closing at the same time: the second half of the one may undo
\* half of the other. The opening of the ticker begins when it reads the flags.
Opening(g) == trans[g] \in {"check", "open", "unmark"} \/ (g = "tick" /\ tick = "compare" /\ ~verdict)
Overlap == \E g, h \in Goroutines : Opening(g) /\ trans[h] \in {"close", "mark"}
\* The ticker opens what the connection or the receiver has fenced.
Overrun == Opening("tick") /\ (conn # "up" \/ recv # "wait" \/ sync = "reset" \/ UnavailableEdge)

\* The history, written by the steps of the transitions
Races == {r \in {"overlap", "overrun"} : IF r = "overlap" THEN Overlap ELSE Overrun}
Watched == raced' = raced \cup Races'

Begin(g, closing) == trans' = [trans EXCEPT ![g] = IF closing THEN "close" ELSE "check"]
Returned(g) == trans[g] = "none"

\* Mutant of TransitionChecks: a failed database keeps the core closed only.
TransitionChecksHalf(g) ==
    /\ trans[g] = "check"
    /\ trans' = [trans EXCEPT ![g] = IF localFailed THEN "unmark" ELSE "open"]
    /\ UNCHANGED <<flagVars, coreVars, faultVars, conn, recv, sync, tickVars, clientVars, disk, trouble>>
    /\ Watched

\* An edge whose local database failed does not open.
TransitionChecks(g) ==
    /\ trans[g] = "check"
    /\ trans' = [trans EXCEPT ![g] = IF localFailed THEN "none" ELSE "open"]
    /\ UNCHANGED <<flagVars, coreVars, faultVars, conn, recv, sync, tickVars, clientVars, disk, trouble>>
    /\ Watched

\* SetAdmissionClosed drains every client the core has a lease of.
SetAdmissionClosed(c) ==
    /\ admissionClosed' = c
    /\ coreDraining' = (coreDraining \/ (c /\ lease))
    /\ UNCHANGED <<lease, ports>>

TransitionFences(g) ==
    /\ trans[g] \in {"open", "close"}
    /\ SetAdmissionClosed(trans[g] = "close")
    /\ trans' = [trans EXCEPT ![g] = IF @ = "close" THEN "mark" ELSE "unmark"]
    /\ UNCHANGED <<flagVars, faultVars, conn, recv, sync, tickVars, clientVars, disk, trouble>>
    /\ Watched

\* The second half: fault.closed, and every session the server knows drains.
TransitionMarks(g) ==
    /\ trans[g] \in {"mark", "unmark"}
    /\ closed' = (trans[g] = "mark")
    /\ draining' = (draining \/ (closed' /\ known))
    /\ drains' = (drains \/ (closed' /\ known))
    /\ trans' = [trans EXCEPT ![g] = "none"]
    /\ UNCHANGED <<flagVars, coreVars, localFailed, known, logoutSent, conn, recv, sync, tickVars, clientVars, disk, trouble>>
    /\ Watched

Transition(g) == TransitionChecks(g) \/ TransitionFences(g) \/ TransitionMarks(g)

-----------------------------------------------------------------------------
(* The connection. *)

\* connect: dialled, the stream is up.
Connect ==
    /\ conn = "dial" /\ conn' = "up"
    /\ UNCHANGED <<flagVars, coreVars, faultVars, transVars, recv, sync, tickVars, clientVars, disk, trouble>>

\* The cache is not discarded, or nobody answers: Run fences and begins again.
DialFails ==
    /\ conn = "dial" /\ conn' = "clear"
    /\ Begin("conn", TRUE)
    /\ UNCHANGED <<flagVars, coreVars, faultVars, recv, sync, tickVars, clientVars, disk, trouble>>
    /\ Watched

\* connect returns, for whatever error: its deferred function fences before it
\* cancels the workers.
Lose ==
    /\ conn = "up" /\ Trouble
    /\ connected' = FALSE /\ syncReady' = FALSE
    /\ conn' = "fence" /\ Begin("conn", TRUE)
    /\ UNCHANGED <<controllerFault, resetPending, coreVars, faultVars, recv, sync, tickVars, clientVars, disk>>
    /\ Watched

\* cancel and the wait for the workers: a message that was read is handled to its end.
Cancel ==
    /\ conn = "fence" /\ Returned("conn")
    /\ conn' = "join"
    /\ UNCHANGED <<flagVars, coreVars, faultVars, transVars, recv, sync, tickVars, clientVars, disk, trouble>>

\* Mutant of Join: Run trusts the fence of connect.
JoinUnfenced ==
    /\ conn = "join" /\ recv = "wait" /\ Returned("recv")
    /\ conn' = "clear" /\ sync' = "none"
    /\ UNCHANGED <<flagVars, coreVars, faultVars, transVars, recv, tickVars, clientVars, disk, trouble>>

\* Run, after connect has returned, fences again.
Join ==
    /\ conn = "join" /\ recv = "wait" /\ Returned("recv")
    /\ conn' = "clear" /\ sync' = "none"
    /\ Begin("conn", TRUE)
    /\ UNCHANGED <<flagVars, coreVars, faultVars, recv, tickVars, clientVars, disk, trouble>>
    /\ Watched

\* The flags once more, then the cache is discarded.
ClearFlags ==
    /\ conn = "clear" /\ Returned("conn")
    /\ conn' = "discard"
    /\ connected' = FALSE /\ syncReady' = FALSE
    /\ UNCHANGED <<controllerFault, resetPending, coreVars, faultVars, transVars, recv, sync, tickVars, clientVars, disk, trouble>>

DiscardControlIdentityCache ==
    /\ conn = "discard" /\ conn' = "dial"
    /\ resetPending' = TRUE
    /\ UNCHANGED <<connected, syncReady, controllerFault, coreVars, faultVars, transVars, recv, sync, tickVars, clientVars,
                   disk, trouble>>

Connection == Cancel \/ Join \/ ClearFlags \/ DiscardControlIdentityCache

-----------------------------------------------------------------------------
(* The receiver. It handles a message that it read before the cancellation. *)

Receives == conn \in {"up", "fence"} /\ recv = "wait" /\ Returned("recv")
\* The apply worker has no job.
ApplyIdle == sync \notin {"reset", "page"}

\* connected, and the fault state of the controller
ControllerReports(f) == connected' = TRUE /\ controllerFault' = f
BecomesFaulty(f) == f /\ ~controllerFault

\* heartbeat_ack, controller_state
ReceiveState(f) ==
    /\ Receives /\ sync # "none"
    /\ IF BecomesFaulty(f) THEN Trouble ELSE UNCHANGED trouble
    /\ ControllerReports(f)
    /\ IF BecomesFaulty(f) THEN Begin("recv", TRUE) /\ recv' = "state" ELSE UNCHANGED <<trans, recv>>
    /\ UNCHANGED <<syncReady, resetPending, coreVars, faultVars, conn, sync, tickVars, clientVars, disk>>
    /\ Watched

StateReceived ==
    /\ recv = "state" /\ Returned("recv")
    /\ recv' = "wait" /\ syncReady' = FALSE
    /\ UNCHANGED <<connected, controllerFault, resetPending, coreVars, faultVars, transVars, conn, sync, tickVars, clientVars,
                   disk, trouble>>

\* welcome, at the start of the stream and of every full refresh, fences too.
ReceiveWelcome(f) ==
    /\ Receives /\ ApplyIdle
    /\ IF sync # "none" \/ BecomesFaulty(f) THEN Trouble ELSE UNCHANGED trouble
    /\ ControllerReports(f)
    /\ Begin("recv", TRUE)
    /\ recv' = IF BecomesFaulty(f) THEN "fault" ELSE "welcome"
    /\ UNCHANGED <<syncReady, resetPending, coreVars, faultVars, conn, sync, tickVars, clientVars, disk>>
    /\ Watched

\* A welcome with a new fault fences twice.
WelcomeFault ==
    /\ recv = "fault" /\ Returned("recv")
    /\ recv' = "welcome" /\ syncReady' = FALSE
    /\ Begin("recv", TRUE)
    /\ UNCHANGED <<connected, controllerFault, resetPending, coreVars, faultVars, conn, sync, tickVars, clientVars, disk,
                   trouble>>
    /\ Watched

Welcomed ==
    /\ recv = "welcome" /\ Returned("recv")
    /\ recv' = "wait" /\ syncReady' = FALSE
    /\ sync' = "reset"
    /\ UNCHANGED <<connected, controllerFault, resetPending, coreVars, faultVars, transVars, conn, tickVars, clientVars, disk,
                   trouble>>

\* The first fragment of a page
ReceivePage ==
    /\ Receives /\ sync \in {"empty", "ready"}
    /\ syncReady' = FALSE /\ sync' = "page"
    /\ UNCHANGED <<connected, controllerFault, resetPending, coreVars, faultVars, transVars, conn, recv, tickVars, clientVars,
                   disk, trouble>>

\* identity_confirmed: the last one of a synchronisation opens the node.
ReceiveConfirmed(complete) ==
    /\ Receives /\ sync = "applied" /\ (complete => ~resetPending)
    /\ syncReady' = complete /\ sync' = IF complete THEN "ready" ELSE "empty"
    /\ IF complete /\ ~controllerFault THEN Begin("recv", FALSE) ELSE UNCHANGED trans
    /\ UNCHANGED <<connected, controllerFault, resetPending, coreVars, faultVars, conn, recv, tickVars, clientVars, disk,
                   trouble>>
    /\ Watched

\* The apply worker: the reset discards the cache, the last page of the baseline
\* ends the reset.
Apply ==
    /\ conn \in {"up", "fence", "join"}
    /\ \/ sync = "reset" /\ sync' = "empty" /\ resetPending' = TRUE
       \/ sync = "page" /\ sync' = "applied" /\ resetPending' \in {FALSE, resetPending}
    /\ UNCHANGED <<connected, syncReady, controllerFault, coreVars, faultVars, transVars, conn, recv, tickVars, clientVars,
                   disk, trouble>>

Receiver == StateReceived \/ WelcomeFault \/ Welcomed

-----------------------------------------------------------------------------
(* The ticker, and a request whose statement fails *)

\* CheckHealth, at most once a second
Probe ==
    /\ tick = "idle" /\ Returned("tick")
    /\ localFailed' = ~disk
    /\ UNCHANGED <<flagVars, coreVars, closed, known, draining, drains, logoutSent, transVars, conn, recv, sync, tickVars,
                   clientVars, disk, trouble>>

\* Mutant of TickReads: the ticker looks at the connection only.
TickReadsConnection ==
    /\ tick = "idle" /\ Returned("tick")
    /\ tick' = "compare"
    /\ verdict' = ~connected
    /\ UNCHANGED <<flagVars, coreVars, faultVars, trans, conn, recv, sync, clientVars, disk, trouble>>
    /\ Watched

TickReads ==
    /\ tick = "idle" /\ Returned("tick")
    /\ tick' = "compare"
    /\ verdict' = (~connected \/ controllerFault \/ resetPending)
    /\ UNCHANGED <<flagVars, coreVars, faultVars, trans, conn, recv, sync, clientVars, disk, trouble>>
    /\ Watched

\* Mutant of TickCompares: the ticker only ever closes.
TickComparesClosing ==
    /\ tick = "compare" /\ tick' = "idle" /\ verdict' = FALSE
    /\ IF (verdict \/ localFailed) /\ ~closed THEN Begin("tick", TRUE) ELSE UNCHANGED trans
    /\ UNCHANGED <<flagVars, coreVars, faultVars, conn, recv, sync, clientVars, disk, trouble>>
    /\ Watched

\* The verdict is compared with fault.closed alone.
TickCompares ==
    /\ tick = "compare" /\ tick' = "idle" /\ verdict' = FALSE
    /\ IF (verdict \/ localFailed) # closed THEN Begin("tick", verdict \/ localFailed) ELSE UNCHANGED trans
    /\ UNCHANGED <<flagVars, coreVars, faultVars, conn, recv, sync, clientVars, disk, trouble>>
    /\ Watched

\* edgeCredential: a failing statement, on a failed disk or not
StatementFails ==
    /\ Returned("request")
    /\ Trouble
    /\ Begin("request", TRUE)
    /\ UNCHANGED <<flagVars, coreVars, faultVars, conn, recv, sync, tickVars, clientVars, disk>>
    /\ Watched

DiskFails ==
    /\ disk /\ Trouble /\ disk' = FALSE
    /\ UNCHANGED <<flagVars, coreVars, faultVars, transVars, conn, recv, sync, tickVars, clientVars>>

DiskReturns ==
    /\ ~disk /\ disk' = TRUE
    /\ UNCHANGED <<flagVars, coreVars, faultVars, transVars, conn, recv, sync, tickVars, clientVars, trouble>>

Ticker == Probe \/ TickReads \/ TickCompares

-----------------------------------------------------------------------------
(* The client *)

\* Its credentials are rows of the identity cache. A discard that failed leaves them
\* there, and a baseline under way may have brought them already.
Cached == IF resetPending THEN BOOLEAN ELSE {TRUE}

\* guardNodeAdmission lets a login or bootstrap through.
GuiRequest ==
    /\ EdgeOnline /\ ~gui /\ gui' = TRUE
    /\ UNCHANGED <<flagVars, coreVars, faultVars, transVars, conn, recv, sync, tickVars, frp, reg, disk, trouble>>

\* Mutant of RememberClient: the login leaves the reauth of the old session.
RememberClientKeepsReauth(login) ==
    /\ gui /\ gui' = FALSE
    /\ \E found \in Cached :
       IF found /\ (login \/ ~(drains \/ coreDraining))
       THEN /\ known' = TRUE
            /\ LET ends == login /\ (known => draining) /\ ~closed /\ ports = 0
               IN  /\ coreDraining' = (coreDraining /\ ~ends) /\ lease' = (lease /\ ~ends)
                   /\ drains' = (drains /\ ~ends)
                   /\ draining' = (draining /\ ~ends) /\ UNCHANGED logoutSent
       ELSE UNCHANGED <<known, coreDraining, lease, drains, draining, logoutSent>>
    /\ UNCHANGED <<flagVars, admissionClosed, ports, closed, localFailed, transVars, conn, recv, sync, tickVars, frp, reg, disk,
                   trouble>>

\* edgeCredential finds the client in the cache and remembers it: only a login on
\* an open node, of a client without ports, ends its drain. A bootstrap of a
\* client that drains is refused before.
RememberClient(login) ==
    /\ gui /\ gui' = FALSE
    /\ \E found \in Cached :
       IF found /\ (login \/ ~(drains \/ coreDraining))
       THEN /\ known' = TRUE
            /\ LET ends == login /\ (known => draining) /\ ~closed /\ ports = 0
               IN  /\ coreDraining' = (coreDraining /\ ~ends) /\ lease' = (lease /\ ~ends)
                   /\ drains' = (drains /\ ~ends)
                   /\ draining' = (draining /\ ~ends) /\ logoutSent' = (logoutSent /\ ~ends)
       ELSE UNCHANGED <<known, coreDraining, lease, drains, draining, logoutSent>>
    /\ UNCHANGED <<flagVars, admissionClosed, ports, closed, localFailed, transVars, conn, recv, sync, tickVars, frp, reg, disk,
                   trouble>>

\* faultHeartbeat: during a fault the session drains; one that drains is told to
\* log in again as soon as its last port is closed.
FaultHeartbeat ==
    /\ known
    /\ draining' = (draining \/ closed \/ UnavailableEdge)
    /\ drains' = (drains \/ closed \/ UnavailableEdge)
    /\ draining'
    /\ logoutSent' = (logoutSent \/ ports = 0)
    /\ UNCHANGED <<flagVars, coreVars, closed, localFailed, known, transVars, conn, recv, sync, tickVars, clientVars, disk,
                   trouble>>

\* FRP Login: faultFRPPlugin lets it through, edgeRuntime finds the lease.
LoginChecked ==
    /\ frp = "out" /\ EdgeOnline /\ frp' = "login"
    /\ UNCHANGED <<flagVars, coreVars, faultVars, transVars, conn, recv, sync, tickVars, gui, reg, disk, trouble>>

RememberRuntimeLease ==
    /\ frp = "login"
    /\ \E found \in Cached : frp' = (IF found THEN "in" ELSE "out") /\ lease' = (lease \/ found)
    /\ UNCHANGED <<flagVars, admissionClosed, coreDraining, ports, faultVars, transVars, conn, recv, sync, tickVars, gui, reg,
                   disk, trouble>>

NewProxy ==
    /\ frp = "in" /\ reg = "idle" /\ ports = 0
    /\ EdgeOnline /\ reg' = "gate"
    /\ UNCHANGED <<flagVars, coreVars, faultVars, transVars, conn, recv, sync, tickVars, gui, frp, disk, trouble>>

\* edgeRuntime, then clientIsDraining
AuthorizeProxy ==
    /\ reg = "gate"
    /\ \E found \in Cached : reg' = IF found /\ ~(drains \/ coreDraining) THEN "authorised" ELSE "idle"
    /\ UNCHANGED <<flagVars, coreVars, faultVars, transVars, conn, recv, sync, tickVars, gui, frp, disk, trouble>>

\* RegisterProxy, inside the admission lock of the core
RegisterProxy ==
    /\ reg = "authorised" /\ reg' = "idle"
    /\ ports' = IF ~admissionClosed /\ lease /\ ~coreDraining THEN 1 ELSE ports
    /\ UNCHANGED <<flagVars, admissionClosed, coreDraining, lease, faultVars, transVars, conn, recv, sync, tickVars, gui, frp,
                   disk, trouble>>

\* The frpc ends, and its port with it.
FrpExit ==
    /\ frp = "in" /\ reg = "idle"
    /\ frp' = "out" /\ ports' = 0
    /\ UNCHANGED <<flagVars, admissionClosed, coreDraining, lease, faultVars, transVars, conn, recv, sync, tickVars, gui, reg,
                   disk, trouble>>

-----------------------------------------------------------------------------
Next ==
    \/ \E g \in Goroutines : Transition(g)
    \/ Connect \/ DialFails \/ Lose \/ Connection
    \/ \E f \in BOOLEAN : ReceiveState(f) \/ ReceiveWelcome(f)
    \/ ReceivePage \/ (\E complete \in BOOLEAN : ReceiveConfirmed(complete)) \/ Receiver \/ Apply
    \/ Ticker \/ StatementFails \/ DiskFails \/ DiskReturns
    \/ GuiRequest \/ (\E login \in BOOLEAN : RememberClient(login)) \/ FaultHeartbeat
    \/ LoginChecked \/ RememberRuntimeLease \/ NewProxy \/ AuthorizeProxy \/ RegisterProxy \/ FrpExit

Spec == Init /\ [][Next]_vars

\* The goroutines keep running; messages, clients and faults come when they come.
FairSpec ==
    /\ Spec
    /\ WF_vars(Connection \/ Transition("conn"))
    /\ WF_vars(Receiver \/ Transition("recv"))
    /\ WF_vars(Transition("request"))
    /\ SF_vars(Probe)
    /\ WF_vars(TickReads \/ TickCompares \/ Transition("tick"))

-----------------------------------------------------------------------------
\* The flags stay in their domains; a session that drains is listed in drains and
\* only such a session is told to log in again.
TypeOK ==
    /\ {connected, syncReady, controllerFault, resetPending, admissionClosed, coreDraining, lease, closed, localFailed, known,
        draining, drains, logoutSent, verdict, gui, disk} \subseteq BOOLEAN
    /\ ports \in 0..1
    /\ (draining => known /\ drains) /\ (logoutSent => draining)
    /\ trans \in [Goroutines -> {"none", "check", "open", "unmark", "close", "mark"}]
    /\ conn \in {"dial", "up", "fence", "join", "clear", "discard"}
    /\ recv \in {"wait", "state", "fault", "welcome"}
    /\ sync \in {"none", "reset", "empty", "page", "applied", "ready"}
    /\ tick \in {"idle", "compare"} /\ frp \in {"out", "login", "in"} /\ reg \in {"idle", "gate", "authorised"}
    /\ trouble \in 0..MaxTrouble /\ raced \subseteq {"overlap", "overrun"}

\* Once every transition has returned, the two flags that transitionNodeFault moves
\* one after the other agree, unless an opening overlapped a closing. The local
\* check, the order of the halves and the callers leave no other way.
FlagsAgree == (\A g \in Goroutines : Returned(g)) /\ "overlap" \notin raced => admissionClosed = closed

\* No port opens on an edge whose identities are discarded or incomplete, whatever
\* NewProxy was authorised before: a confirmation handled after connect has fenced
\* opens the node again, and it is the second fence of Run, after the workers have
\* ended, that closes it before the cache goes. (The ticker may open in between.)
PortsNeedIdentities == [][ports' > ports /\ raced = {} => ~resetPending]_vars

\* Connected, synchronised and healthy
Usable == conn = "up" /\ disk /\ syncReady /\ ~UnavailableEdge

\* An edge that stays usable opens for good, whatever failed before: the ticker makes
\* up for an opening that the failed disk suppressed, or that a request undid.
Reopens == <>[]Usable => <>[](EdgeOnline /\ ("overlap" \notin raced => ~admissionClosed))

\* An edge that stays without its controller, its identities or its disk is closed
\* for good, whatever opening was under way.
Closes == <>[](UnavailableEdge \/ ~disk) => <>[](closed /\ ("overlap" \notin raced => admissionClosed))
=============================================================================
