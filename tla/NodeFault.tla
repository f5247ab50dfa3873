------------------------------ MODULE NodeFault ------------------------------
(***************************************************************************)
(* How a controller closes its own FRP service when its database fails and   *)
(* opens it again.  Two flags guard the service: admissionClosed of the FRP   *)
(* core (module Admission) and fault.closed of the HTTP server, each under    *)
(* its own lock, and three kinds of goroutines move them: the health ticker,  *)
(* any request whose SQL statement fails, and the clients' logins and         *)
(* heartbeats, which drain a client once the fault is declared.               *)
(*                                                                         *)
(* A registration (Begin, Run, Opened) is one step here: it holds the         *)
(* admission lock for reading, and Admission has its parts.                   *)
(***************************************************************************)
EXTENDS Naturals, FiniteSets

CONSTANTS Clients,
          Requests,    \* requests being handled at the same time
          Clustered,   \* edge access is enabled: controllerControl is not nil
          MaxPorts,    \* ports of one client
          MaxFaults    \* outages, and statements that fail while the database is healthy

ASSUME NodeFaultAssumption ==
  Clustered \in BOOLEAN /\ MaxPorts \in Nat \ {0} /\ MaxFaults \in Nat

VARIABLES
  healthy,          \* the database answers the health probe
  failedSince,      \* the ticker's fault timer: "zero", or "running"
  tick,             \* where the health goroutine is
  admissionClosed, drainingClients, runtimeLeases, ports,   \* the FRP core
  closed, databaseFailed,                                   \* Server.fault
  known, draining, drains, warned, logoutSent,              \* Server.fault.clients and .drains
  suspect,          \* databaseSuspect of the cluster server
  gui,              \* a login request that has passed guardNodeAdmission
  frp, reg,         \* the frpc of a client, and its NewProxy under way
  req,              \* requests that read the database, by what they do next
  faults

coreVars == <<admissionClosed, drainingClients, runtimeLeases, ports>>
clientVars == <<known, draining, drains, warned, logoutSent>>
frpVars == <<gui, frp, reg>>
vars == <<healthy, failedSince, tick, coreVars, closed, databaseFailed, clientVars, suspect, frpVars, req, faults>>

Init ==
  /\ healthy = TRUE /\ failedSince = "zero" /\ tick = "idle"
  /\ admissionClosed = FALSE /\ drainingClients = {} /\ runtimeLeases = {}
  /\ ports = [c \in Clients |-> 0]
  /\ closed = FALSE /\ databaseFailed = FALSE /\ suspect = FALSE
  /\ known = {} /\ draining = {} /\ drains = {} /\ warned = {} /\ logoutSent = {}
  /\ gui = {} /\ frp = [c \in Clients |-> "out"] /\ reg = [c \in Clients |-> "idle"]
  /\ req \in [Requests -> [pc : {"idle"}, client : Clients]]
  /\ faults = 0

Fault == faults < MaxFaults /\ faults' = faults + 1

-----------------------------------------------------------------------------
(* The health goroutine: observeControllerDatabaseHealth, call by call *)

TickUnchanged == <<coreVars, clientVars, frpVars, req, healthy, faults>>

(* The probe fails.  The first failure pauses admission; when the failures have
   lasted ten seconds the fault is declared, once. *)
ProbeFails ==
  /\ tick = "idle" /\ ~healthy
  /\ \/ failedSince = "zero" /\ failedSince' = "running" /\ tick' = "pause" /\ UNCHANGED databaseFailed
     \/ /\ failedSince = "running" /\ UNCHANGED failedSince
        /\ databaseFailed' = TRUE
        /\ tick' = IF databaseFailed THEN "idle" ELSE "close"
  /\ UNCHANGED <<TickUnchanged, closed, suspect>>

TickPauses ==
  /\ tick = "pause" /\ tick' = "flag"
  /\ admissionClosed' = TRUE
  /\ UNCHANGED <<healthy, failedSince, drainingClients, runtimeLeases, ports, closed, databaseFailed, clientVars, suspect,
                 frpVars, req, faults>>

TickFlags ==
  /\ tick = "flag" /\ tick' = "suspect"
  /\ closed' = TRUE
  /\ UNCHANGED <<TickUnchanged, failedSince, databaseFailed, suspect>>

TickSuspects ==
  /\ tick = "suspect" /\ tick' = "idle"
  /\ suspect' = Clustered
  /\ UNCHANGED <<TickUnchanged, failedSince, closed, databaseFailed>>

(* SetAdmissionClosed(c), the first half of transitionNodeFault *)
SetAdmissionClosed(c) ==
  /\ admissionClosed' = c
  /\ drainingClients' = IF c THEN drainingClients \cup runtimeLeases ELSE drainingClients
  /\ UNCHANGED <<runtimeLeases, ports>>

TickCloses ==
  /\ tick = "close" /\ tick' = "mark"
  /\ SetAdmissionClosed(TRUE)
  /\ UNCHANGED <<healthy, failedSince, closed, databaseFailed, clientVars, suspect, frpVars, req, faults>>

(* The second half: every session the server knows drains. *)
TickMarks ==
  /\ tick = "mark" /\ tick' = "idle"
  /\ closed' = TRUE
  /\ draining' = draining \cup known
  /\ drains' = drains \cup known
  /\ UNCHANGED <<healthy, failedSince, coreVars, databaseFailed, known, warned, logoutSent, suspect, frpVars, req, faults>>

(* The probe succeeds: is there anything to recover from? *)
ProbeSucceeds ==
  /\ tick = "idle" /\ healthy
  /\ databaseFailed' = FALSE
  /\ tick' = IF closed THEN "recover" ELSE "ask"
  /\ UNCHANGED <<TickUnchanged, failedSince, closed, suspect>>

AskSuspect ==
  /\ tick = "ask"
  /\ IF Clustered /\ suspect THEN tick' = "recover" /\ UNCHANGED failedSince
                             ELSE tick' = "idle" /\ failedSince' = "zero"
  /\ UNCHANGED <<TickUnchanged, closed, databaseFailed, suspect>>

(* SetDatabaseFault(false) *)
TickRecovers ==
  /\ tick = "recover" /\ tick' = "open"
  /\ suspect' = FALSE
  /\ UNCHANGED <<TickUnchanged, failedSince, closed, databaseFailed>>

TickOpens ==
  /\ tick = "open" /\ tick' = "unmark"
  /\ SetAdmissionClosed(FALSE)
  /\ UNCHANGED <<healthy, failedSince, closed, databaseFailed, clientVars, suspect, frpVars, req, faults>>

TickUnmarks ==
  /\ tick = "unmark" /\ tick' = "idle"
  /\ closed' = FALSE
  /\ failedSince' = "zero"
  /\ UNCHANGED <<TickUnchanged, databaseFailed, suspect>>

(* Between two probes sessions without ports that were not seen for two minutes are
   forgotten; their drains are not. *)
ForgetIdle(c) ==
  /\ tick = "idle" /\ c \in known /\ ports[c] = 0
  /\ known' = known \ {c}
  /\ draining' = draining \ {c} /\ warned' = warned \ {c} /\ logoutSent' = logoutSent \ {c}
  /\ UNCHANGED <<healthy, failedSince, tick, coreVars, closed, databaseFailed, drains, suspect, frpVars, req, faults>>

Ticker ==
  \/ ProbeFails \/ TickPauses \/ TickFlags \/ TickSuspects \/ TickCloses \/ TickMarks
  \/ ProbeSucceeds \/ AskSuspect \/ TickRecovers \/ TickOpens \/ TickUnmarks

-----------------------------------------------------------------------------
(* The sessions of the clients' GUI *)

(* guardNodeAdmission lets a login or bootstrap through. *)
GuiRequest(c) ==
  /\ ~closed
  /\ c \notin gui /\ gui' = gui \cup {c}
  /\ UNCHANGED <<healthy, failedSince, tick, coreVars, closed, databaseFailed, clientVars, suspect, frp, reg, req, faults>>

(* FinishClientDrain *)
FinishClientDrain(c) ==
  IF ports[c] > 0 THEN UNCHANGED <<drainingClients, runtimeLeases>>
  ELSE drainingClients' = drainingClients \ {c} /\ runtimeLeases' = runtimeLeases \ {c}

(* Only a login on an open node, of a client without ports, ends its drain. *)
MayEndDrain(c) == ~closed /\ ports[c] = 0

RememberClientKeepsDraining(c, login) ==
  /\ c \in gui /\ gui' = gui \ {c}
  /\ known' = known \cup {c}
  /\ IF login /\ (c \in known => c \in draining) /\ MayEndDrain(c)
     THEN FinishClientDrain(c) /\ drains' = drains \ {c} /\ UNCHANGED <<draining, warned, logoutSent>>
     ELSE UNCHANGED <<drainingClients, runtimeLeases, drains, draining, warned, logoutSent>>
  /\ UNCHANGED <<healthy, failedSince, tick, admissionClosed, ports, closed, databaseFailed, suspect, frp, reg, req, faults>>

(* rememberClient, after the credentials were read *)
RememberClient(c, login) ==
  /\ c \in gui /\ gui' = gui \ {c}
  /\ known' = known \cup {c}
  /\ IF login /\ (c \in known => c \in draining) /\ MayEndDrain(c)
     THEN /\ FinishClientDrain(c)
          /\ drains' = drains \ {c}
          /\ draining' = draining \ {c} /\ warned' = warned \ {c} /\ logoutSent' = logoutSent \ {c}
     ELSE UNCHANGED <<drainingClients, runtimeLeases, drains, draining, warned, logoutSent>>
  /\ UNCHANGED <<healthy, failedSince, tick, admissionClosed, ports, closed, databaseFailed, suspect, frp, reg, req, faults>>

(* faultHeartbeat: a client that drains is told to log in again as soon as its last
   port is closed, and before that is warned once. *)
FaultHeartbeat(c) ==
  /\ c \in known
  /\ draining' = IF closed /\ databaseFailed THEN draining \cup {c} ELSE draining
  /\ drains' = IF closed /\ databaseFailed THEN drains \cup {c} ELSE drains
  /\ c \in draining'
  /\ logoutSent' = IF ports[c] = 0 THEN logoutSent \cup {c} ELSE logoutSent
  /\ warned' = IF ports[c] = 0 THEN warned ELSE warned \cup {c}
  /\ UNCHANGED <<healthy, failedSince, tick, coreVars, closed, databaseFailed, known, suspect, frpVars, req, faults>>

-----------------------------------------------------------------------------
(* The clients' frpc *)

(* Login: faultFRPPlugin lets it through, later the lease is remembered. *)
LoginChecked(c) ==
  /\ frp[c] = "out" /\ ~closed
  /\ frp' = [frp EXCEPT ![c] = "login"]
  /\ UNCHANGED <<healthy, failedSince, tick, coreVars, closed, databaseFailed, clientVars, suspect, gui, reg, req, faults>>

RememberRuntimeLease(c) ==
  /\ frp[c] = "login"
  /\ frp' = [frp EXCEPT ![c] = "in"]
  /\ runtimeLeases' = runtimeLeases \cup {c}
  /\ UNCHANGED <<healthy, failedSince, tick, admissionClosed, drainingClients, ports, closed, databaseFailed, clientVars,
                 suspect, gui, reg, req, faults>>

(* NewProxy: the gate, then clientIsDraining, then the registration. *)
NewProxy(c) ==
  /\ frp[c] = "in" /\ reg[c] = "idle" /\ ports[c] < MaxPorts
  /\ ~closed
  /\ reg' = [reg EXCEPT ![c] = "gate"]
  /\ UNCHANGED <<healthy, failedSince, tick, coreVars, closed, databaseFailed, clientVars, suspect, gui, frp, req, faults>>

ClientIsDrainingInCore(c) == c \in drainingClients

ClientIsDraining(c) == c \in drains \cup drainingClients

AuthorizeProxy(c) ==
  /\ reg[c] = "gate"
  /\ reg' = [reg EXCEPT ![c] = IF ClientIsDraining(c) THEN "idle" ELSE "authorised"]
  /\ UNCHANGED <<healthy, failedSince, tick, coreVars, closed, databaseFailed, clientVars, suspect, gui, frp, req, faults>>

(* RegisterProxy, inside the admission lock *)
RegisterProxy(c) ==
  /\ reg[c] = "authorised"
  /\ reg' = [reg EXCEPT ![c] = "idle"]
  /\ ports' = IF ~admissionClosed /\ c \in runtimeLeases \ drainingClients THEN [ports EXCEPT ![c] = @ + 1] ELSE ports
  /\ UNCHANGED <<healthy, failedSince, tick, admissionClosed, drainingClients, runtimeLeases, closed, databaseFailed,
                 clientVars, suspect, gui, frp, req, faults>>

ClosePort(c) ==
  /\ ports[c] > 0
  /\ ports' = [ports EXCEPT ![c] = @ - 1]
  /\ UNCHANGED <<healthy, failedSince, tick, admissionClosed, drainingClients, runtimeLeases, closed, databaseFailed,
                 clientVars, suspect, frpVars, req, faults>>

FrpExit(c) ==
  /\ frp[c] = "in" /\ reg[c] = "idle"
  /\ frp' = [frp EXCEPT ![c] = "out"]
  /\ ports' = [ports EXCEPT ![c] = 0]
  /\ UNCHANGED <<healthy, failedSince, tick, admissionClosed, drainingClients, runtimeLeases, closed, databaseFailed,
                 clientVars, suspect, gui, reg, req, faults>>

-----------------------------------------------------------------------------
(* Requests that read the database: the keepalives (Ping, NewWorkConn, NewUserConn)
   of a frpc, and like them in what a failing statement does, all the others *)

(* allowFaultRuntime: the core vouches for a known lease during a fault. *)
AllowFaultRuntime(c) == c \in runtimeLeases /\ (closed \/ ClientIsDraining(c))

(* The keepalive needs the database unless the core vouches for it. *)
Keepalive(r, c) ==
  /\ req[r].pc = "idle"
  /\ frp[c] = "in" /\ ~AllowFaultRuntime(c)
  /\ req' = [req EXCEPT ![r] = [pc |-> "read", client |-> c]]
  /\ UNCHANGED <<healthy, failedSince, tick, coreVars, closed, databaseFailed, clientVars, suspect, frpVars, faults>>

ReadSucceeds(r) ==
  /\ req[r].pc = "read" /\ healthy
  /\ req' = [req EXCEPT ![r].pc = "idle"]
  /\ UNCHANGED <<healthy, failedSince, tick, coreVars, closed, databaseFailed, clientVars, suspect, frpVars, faults>>

(* databaseRejection: PauseAdmission, then fault.closed, then SetDatabaseSuspect *)
ReadFails(r) ==
  /\ req[r].pc = "read"
  /\ IF healthy THEN Fault ELSE UNCHANGED faults
  /\ req' = [req EXCEPT ![r].pc = "flag"]
  /\ admissionClosed' = TRUE
  /\ UNCHANGED <<healthy, failedSince, tick, drainingClients, runtimeLeases, ports, closed, databaseFailed, clientVars, suspect,
                 frpVars>>

RequestFlags(r) ==
  /\ req[r].pc = "flag"
  /\ req' = [req EXCEPT ![r].pc = "suspect"]
  /\ closed' = TRUE
  /\ UNCHANGED <<healthy, failedSince, tick, coreVars, databaseFailed, clientVars, suspect, frpVars, faults>>

RequestSuspectsNot(r) ==
  /\ req[r].pc = "suspect"
  /\ req' = [req EXCEPT ![r].pc = "fallback"]
  /\ UNCHANGED <<healthy, failedSince, tick, coreVars, closed, databaseFailed, clientVars, suspect, frpVars, faults>>

RequestSuspects(r) ==
  /\ req[r].pc = "suspect"
  /\ req' = [req EXCEPT ![r].pc = "fallback"]
  /\ suspect' = (suspect \/ Clustered)
  /\ UNCHANGED <<healthy, failedSince, tick, coreVars, closed, databaseFailed, clientVars, frpVars, faults>>

(* handleFrpRuntimeKeepalive falls back on the core when the database failed. A refusal
   ends the frpc's control connection, which FrpExit lets happen at any time. *)
Fallback(r) ==
  /\ req[r].pc = "fallback"
  /\ req' = [req EXCEPT ![r].pc = "idle"]
  /\ UNCHANGED <<healthy, failedSince, tick, coreVars, closed, databaseFailed, clientVars, suspect, frpVars, faults>>

Request(r) == RequestFlags(r) \/ RequestSuspects(r) \/ Fallback(r)

-----------------------------------------------------------------------------
DatabaseFails ==
  /\ healthy /\ Fault
  /\ healthy' = FALSE
  /\ UNCHANGED <<failedSince, tick, coreVars, closed, databaseFailed, clientVars, suspect, frpVars, req>>

DatabaseReturns ==
  /\ ~healthy
  /\ healthy' = TRUE
  /\ UNCHANGED <<failedSince, tick, coreVars, closed, databaseFailed, clientVars, suspect, frpVars, req, faults>>

Next ==
  \/ Ticker \/ DatabaseFails \/ DatabaseReturns
  \/ \E c \in Clients :
       \/ ForgetIdle(c) \/ GuiRequest(c) \/ FaultHeartbeat(c) \/ \E login \in BOOLEAN : RememberClient(c, login)
       \/ LoginChecked(c) \/ RememberRuntimeLease(c) \/ NewProxy(c) \/ AuthorizeProxy(c) \/ RegisterProxy(c)
       \/ ClosePort(c) \/ FrpExit(c)
  \/ \E r \in Requests : (\E c \in Clients : Keepalive(r, c)) \/ ReadSucceeds(r) \/ ReadFails(r) \/ Request(r)

Spec == Init /\ [][Next]_vars

(* The ticker and the handlers of requests keep running. *)
FairSpec == Spec /\ WF_vars(Ticker) /\ \A r \in Requests : WF_vars(Request(r))

-----------------------------------------------------------------------------
(* The flags and sets stay in their domains; a session that drains is listed in
   drains, and only such a session is warned or logged out. *)
TypeOK ==
  /\ tick \in {"idle", "pause", "flag", "suspect", "close", "mark", "ask", "recover", "open", "unmark"}
  /\ failedSince \in {"zero", "running"}
  /\ {healthy, admissionClosed, closed, databaseFailed, suspect} \subseteq BOOLEAN
  /\ drainingClients \cup runtimeLeases \cup known \cup gui \subseteq Clients
  /\ draining \subseteq known \cap drains /\ drains \subseteq Clients
  /\ warned \cup logoutSent \subseteq draining
  /\ ports \in [Clients -> 0..MaxPorts]
  /\ frp \in [Clients -> {"out", "login", "in"}]
  /\ reg \in [Clients -> {"idle", "gate", "authorised"}]
  /\ req \in [Requests -> [pc : {"idle", "read", "flag", "suspect", "fallback"}, client : Clients]]
  /\ faults \in 0..MaxFaults

(* No step opens a port for a client whose session drains, so none opens between the
   reauth it gets when its last port is closed and its next login: the two gates (the
   drains of the HTTP server and the drainingClients of the core) leave no gap between
   the check of a NewProxy and its registration, however many registrations, outages
   and recoveries overlap. *)
NoPortWhileDraining == [][\A c \in draining : ports'[c] <= ports[c]]_vars

(* When the database stays healthy the node opens again for good: neither flag and
   no suspicion is left behind by a request that failed while the ticker recovered. *)
Recovers == <>[]healthy => <>[](~closed /\ ~admissionClosed /\ ~suspect)
=============================================================================
