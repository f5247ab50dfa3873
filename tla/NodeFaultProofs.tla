--------------------------- MODULE NodeFaultProofs ---------------------------
(***************************************************************************)
(* Proofs about NodeFault, for any clients, requests and bounds: the type     *)
(* invariant, and that no port opens for a client whose session drains.       *)
(***************************************************************************)
EXTENDS NodeFault, TLAPS

\* Leaves without a pragma are Zenon's; the ones about arithmetic cite SMT, with Z3 as a
\* second attempt.
USE ZenonT(30), ZenonT(60)

(* While the ticker counts a failure both gates are shut, except before it has shut
   them and after it has opened them: requests only shut them. *)
Shut ==
  failedSince = "running" =>
    /\ tick \notin {"pause", "unmark"} => admissionClosed
    /\ tick \notin {"pause", "flag"} => closed

(* The fault is declared only while the ticker counts, and ends with its first success. *)
Declared ==
  databaseFailed => failedSince = "running" /\ tick \in {"idle", "close", "mark"}

(* The ticker's later steps all follow the first failure. *)
Counting == tick \in {"pause", "flag", "suspect", "close", "mark"} => failedSince = "running"

(* close and mark are the two halves of one declaration. *)
Declaring == tick \in {"close", "mark"} => databaseFailed

(* A registration belongs to a frpc that is logged in, and has a port to take. *)
Registering == \A c \in Clients : reg[c] # "idle" => frp[c] = "in" /\ ports[c] < MaxPorts

(* Once the core has closed, it drains every lease a registration could use. *)
CoreDrains ==
  databaseFailed /\ tick # "close" =>
    \A c \in runtimeLeases : reg[c] # "idle" => c \in drainingClients

(* What the two gates leave open: a registration that was let through before its client
   began to drain is stopped by the core, at the latest when the core closes. *)
Guarded ==
  \A c \in drains \cap runtimeLeases :
    reg[c] = "authorised" => c \in drainingClients \/ tick = "close"

(* Where the gates stand *)
Gates == Shut /\ Declared /\ Counting /\ Declaring

(* What stands between a registration and its port *)
Ports == Registering /\ CoreDrains /\ Guarded

Inductive == TypeOK /\ Gates /\ Ports

-----------------------------------------------------------------------------
LEMMA InitInductive == Init => Inductive
<1> SUFFICES ASSUME Init PROVE Inductive
  OBVIOUS
<1>1. req \in [Requests -> [pc : {"idle", "read", "flag", "suspect", "fallback"}, client : Clients]]
  BY DEF Init
<1>2. ports \in [Clients -> 0..MaxPorts] /\ faults \in 0..MaxFaults
  BY NodeFaultAssumption, SMT, Z3 DEF Init
<1>3. TypeOK
  BY <1>1, <1>2 DEF Init, TypeOK
<1>4. Gates /\ Ports
  BY DEF Init, Gates, Shut, Declared, Counting, Declaring, Ports, Registering, CoreDrains, Guarded
<1> QED BY <1>3, <1>4 DEF Inductive

LEMMA StutterKeeps == Inductive /\ UNCHANGED vars => Inductive'
BY SMT, Z3
DEF Inductive, TypeOK, Gates, Shut, Declared, Counting, Declaring, Ports, Registering, CoreDrains,
    Guarded, vars, coreVars, clientVars, frpVars

(* The probe fails: the timer starts, or the fault is declared. *)
LEMMA ProbeFailsKeeps == ASSUME Inductive, ProbeFails PROVE Inductive'
<1> USE DEF ProbeFails, TickUnchanged, coreVars, clientVars, frpVars
<1>1. TypeOK'
  BY NodeFaultAssumption DEF Inductive, TypeOK, Ports, Registering
<1>2. Gates'
  BY SMTT(30), Z3T(30) DEF Inductive, TypeOK, Gates, Shut, Declared, Counting, Declaring
<1>3. Ports'
  BY SMTT(30), Z3T(30)
  DEF Inductive, TypeOK, Gates, Shut, Declared, Counting, Declaring, Ports, Registering, CoreDrains,
      Guarded
<1> QED BY <1>1, <1>2, <1>3 DEF Inductive

(* The ticker pauses the core's admission. *)
LEMMA TickPausesKeeps == ASSUME Inductive, TickPauses PROVE Inductive'
<1> USE DEF TickPauses, coreVars, clientVars, frpVars
<1>1. TypeOK'
  BY NodeFaultAssumption DEF Inductive, TypeOK, Ports, Registering
<1>2. Gates'
  BY DEF Inductive, TypeOK, Gates, Shut, Declared, Counting, Declaring
<1>3. Ports'
  BY
  DEF Inductive, TypeOK, Gates, Shut, Declared, Counting, Declaring, Ports, Registering, CoreDrains,
      Guarded
<1> QED BY <1>1, <1>2, <1>3 DEF Inductive

(* The ticker raises fault.closed. *)
LEMMA TickFlagsKeeps == ASSUME Inductive, TickFlags PROVE Inductive'
<1> USE DEF TickFlags, TickUnchanged, coreVars, clientVars, frpVars
<1>1. TypeOK'
  BY NodeFaultAssumption DEF Inductive, TypeOK, Ports, Registering
<1>2. Gates'
  BY DEF Inductive, TypeOK, Gates, Shut, Declared, Counting, Declaring
<1>3. Ports'
  BY
  DEF Inductive, TypeOK, Gates, Shut, Declared, Counting, Declaring, Ports, Registering, CoreDrains,
      Guarded
<1> QED BY <1>1, <1>2, <1>3 DEF Inductive

(* The ticker tells the cluster server. *)
LEMMA TickSuspectsKeeps == ASSUME Inductive, TickSuspects PROVE Inductive'
<1> USE DEF TickSuspects, TickUnchanged, coreVars, clientVars, frpVars
<1>1. TypeOK'
  BY NodeFaultAssumption DEF Inductive, TypeOK, Ports, Registering
<1>2. Gates'
  BY DEF Inductive, TypeOK, Gates, Shut, Declared, Counting, Declaring
<1>3. Ports'
  BY
  DEF Inductive, TypeOK, Gates, Shut, Declared, Counting, Declaring, Ports, Registering, CoreDrains,
      Guarded
<1> QED BY <1>1, <1>2, <1>3 DEF Inductive

(* The core closes and drains its leases. *)
LEMMA TickClosesKeeps == ASSUME Inductive, TickCloses PROVE Inductive'
<1> USE DEF TickCloses, SetAdmissionClosed, coreVars, clientVars, frpVars
<1>1. TypeOK'
  BY NodeFaultAssumption DEF Inductive, TypeOK, Ports, Registering
<1>2. Gates'
  BY DEF Inductive, TypeOK, Gates, Shut, Declared, Counting, Declaring
<1>3. Ports'
  BY
  DEF Inductive, TypeOK, Gates, Shut, Declared, Counting, Declaring, Ports, Registering, CoreDrains,
      Guarded
<1> QED BY <1>1, <1>2, <1>3 DEF Inductive

(* The server drains the sessions it knows. *)
LEMMA TickMarksKeeps == ASSUME Inductive, TickMarks PROVE Inductive'
<1> USE DEF TickMarks, coreVars, clientVars, frpVars
<1>1. TypeOK'
  BY NodeFaultAssumption DEF Inductive, TypeOK, Ports, Registering
<1>2. Gates'
  BY DEF Inductive, TypeOK, Gates, Shut, Declared, Counting, Declaring
<1>3. Ports'
  BY
  DEF Inductive, TypeOK, Gates, Shut, Declared, Counting, Declaring, Ports, Registering, CoreDrains,
      Guarded
<1> QED BY <1>1, <1>2, <1>3 DEF Inductive

(* The probe succeeds. *)
LEMMA ProbeSucceedsKeeps == ASSUME Inductive, ProbeSucceeds PROVE Inductive'
<1> USE DEF ProbeSucceeds, TickUnchanged, coreVars, clientVars, frpVars
<1>1. TypeOK'
  BY NodeFaultAssumption DEF Inductive, TypeOK, Ports, Registering
<1>2. Gates'
  BY DEF Inductive, TypeOK, Gates, Shut, Declared, Counting, Declaring
<1>3. Ports'
  BY
  DEF Inductive, TypeOK, Gates, Shut, Declared, Counting, Declaring, Ports, Registering, CoreDrains,
      Guarded
<1> QED BY <1>1, <1>2, <1>3 DEF Inductive

(* The ticker asks the cluster server. *)
LEMMA AskSuspectKeeps == ASSUME Inductive, AskSuspect PROVE Inductive'
<1> USE DEF AskSuspect, TickUnchanged, coreVars, clientVars, frpVars
<1>1. TypeOK'
  BY NodeFaultAssumption DEF Inductive, TypeOK, Ports, Registering
<1>2. Gates'
  BY DEF Inductive, TypeOK, Gates, Shut, Declared, Counting, Declaring
<1>3. Ports'
  BY
  DEF Inductive, TypeOK, Gates, Shut, Declared, Counting, Declaring, Ports, Registering, CoreDrains,
      Guarded
<1> QED BY <1>1, <1>2, <1>3 DEF Inductive

(* The ticker clears the suspicion. *)
LEMMA TickRecoversKeeps == ASSUME Inductive, TickRecovers PROVE Inductive'
<1> USE DEF TickRecovers, TickUnchanged, coreVars, clientVars, frpVars
<1>1. TypeOK'
  BY NodeFaultAssumption DEF Inductive, TypeOK, Ports, Registering
<1>2. Gates'
  BY DEF Inductive, TypeOK, Gates, Shut, Declared, Counting, Declaring
<1>3. Ports'
  BY
  DEF Inductive, TypeOK, Gates, Shut, Declared, Counting, Declaring, Ports, Registering, CoreDrains,
      Guarded
<1> QED BY <1>1, <1>2, <1>3 DEF Inductive

(* The core opens. *)
LEMMA TickOpensKeeps == ASSUME Inductive, TickOpens PROVE Inductive'
<1> USE DEF TickOpens, SetAdmissionClosed, coreVars, clientVars, frpVars
<1>1. TypeOK'
  BY NodeFaultAssumption DEF Inductive, TypeOK, Ports, Registering
<1>2. Gates'
  BY DEF Inductive, TypeOK, Gates, Shut, Declared, Counting, Declaring
<1>3. Ports'
  BY
  DEF Inductive, TypeOK, Gates, Shut, Declared, Counting, Declaring, Ports, Registering, CoreDrains,
      Guarded
<1> QED BY <1>1, <1>2, <1>3 DEF Inductive

(* The server opens. *)
LEMMA TickUnmarksKeeps == ASSUME Inductive, TickUnmarks PROVE Inductive'
<1> USE DEF TickUnmarks, TickUnchanged, coreVars, clientVars, frpVars
<1>1. TypeOK'
  BY NodeFaultAssumption DEF Inductive, TypeOK, Ports, Registering
<1>2. Gates'
  BY DEF Inductive, TypeOK, Gates, Shut, Declared, Counting, Declaring
<1>3. Ports'
  BY
  DEF Inductive, TypeOK, Gates, Shut, Declared, Counting, Declaring, Ports, Registering, CoreDrains,
      Guarded
<1> QED BY <1>1, <1>2, <1>3 DEF Inductive

(* An idle session is forgotten. *)
LEMMA ForgetIdleKeeps == ASSUME NEW c \in Clients, Inductive, ForgetIdle(c) PROVE Inductive'
<1> USE DEF ForgetIdle, coreVars, clientVars, frpVars
<1>1. TypeOK'
  BY NodeFaultAssumption DEF Inductive, TypeOK, Ports, Registering
<1>2. Gates'
  BY DEF Inductive, TypeOK, Gates, Shut, Declared, Counting, Declaring
<1>3. Ports'
  BY
  DEF Inductive, TypeOK, Gates, Shut, Declared, Counting, Declaring, Ports, Registering, CoreDrains,
      Guarded
<1> QED BY <1>1, <1>2, <1>3 DEF Inductive

(* A login passes the gate. *)
LEMMA GuiRequestKeeps == ASSUME NEW c \in Clients, Inductive, GuiRequest(c) PROVE Inductive'
<1> USE DEF GuiRequest, coreVars, clientVars, frpVars
<1>1. TypeOK'
  BY NodeFaultAssumption DEF Inductive, TypeOK, Ports, Registering
<1>2. Gates'
  BY DEF Inductive, TypeOK, Gates, Shut, Declared, Counting, Declaring
<1>3. Ports'
  BY
  DEF Inductive, TypeOK, Gates, Shut, Declared, Counting, Declaring, Ports, Registering, CoreDrains,
      Guarded
<1> QED BY <1>1, <1>2, <1>3 DEF Inductive

(* A login ends, and may end a drain. *)
LEMMA RememberClientKeeps == ASSUME NEW c \in Clients, NEW login \in BOOLEAN, Inductive, RememberClient(c, login) PROVE Inductive'
<1> USE DEF RememberClient, FinishClientDrain, MayEndDrain, coreVars, clientVars, frpVars
<1>1. TypeOK'
  BY NodeFaultAssumption DEF Inductive, TypeOK, Ports, Registering
<1>2. Gates'
  BY DEF Inductive, TypeOK, Gates, Shut, Declared, Counting, Declaring
<1>3. Ports'
  BY
  DEF Inductive, TypeOK, Gates, Shut, Declared, Counting, Declaring, Ports, Registering, CoreDrains,
      Guarded
<1> QED BY <1>1, <1>2, <1>3 DEF Inductive

(* A heartbeat may start the drain of a session. *)
LEMMA FaultHeartbeatKeeps == ASSUME NEW c \in Clients, Inductive, FaultHeartbeat(c) PROVE Inductive'
<1> USE DEF FaultHeartbeat, coreVars, clientVars, frpVars
<1>1. TypeOK'
  BY NodeFaultAssumption DEF Inductive, TypeOK, Ports, Registering
<1>2. Gates'
  BY DEF Inductive, TypeOK, Gates, Shut, Declared, Counting, Declaring
<1>3. Ports'
  BY
  DEF Inductive, TypeOK, Gates, Shut, Declared, Counting, Declaring, Ports, Registering, CoreDrains,
      Guarded
<1> QED BY <1>1, <1>2, <1>3 DEF Inductive

(* A frpc passes the gate. *)
LEMMA LoginCheckedKeeps == ASSUME NEW c \in Clients, Inductive, LoginChecked(c) PROVE Inductive'
<1> USE DEF LoginChecked, coreVars, clientVars, frpVars
<1>1. TypeOK'
  BY NodeFaultAssumption DEF Inductive, TypeOK, Ports, Registering
<1>2. Gates'
  BY DEF Inductive, TypeOK, Gates, Shut, Declared, Counting, Declaring
<1>3. Ports'
  BY
  DEF Inductive, TypeOK, Gates, Shut, Declared, Counting, Declaring, Ports, Registering, CoreDrains,
      Guarded
<1> QED BY <1>1, <1>2, <1>3 DEF Inductive

(* The core remembers the lease of a frpc. *)
LEMMA RememberRuntimeLeaseKeeps == ASSUME NEW c \in Clients, Inductive, RememberRuntimeLease(c) PROVE Inductive'
<1> USE DEF RememberRuntimeLease, coreVars, clientVars, frpVars
<1>1. TypeOK'
  BY NodeFaultAssumption DEF Inductive, TypeOK, Ports, Registering
<1>2. Gates'
  BY DEF Inductive, TypeOK, Gates, Shut, Declared, Counting, Declaring
<1>3. Ports'
  BY
  DEF Inductive, TypeOK, Gates, Shut, Declared, Counting, Declaring, Ports, Registering, CoreDrains,
      Guarded
<1> QED BY <1>1, <1>2, <1>3 DEF Inductive

(* A registration passes the gate. *)
LEMMA NewProxyKeeps == ASSUME NEW c \in Clients, Inductive, NewProxy(c) PROVE Inductive'
<1> USE DEF NewProxy, coreVars, clientVars, frpVars
<1>1. TypeOK'
  BY NodeFaultAssumption DEF Inductive, TypeOK, Ports, Registering
<1>2. Gates'
  BY DEF Inductive, TypeOK, Gates, Shut, Declared, Counting, Declaring
<1>3. Ports'
  BY
  DEF Inductive, TypeOK, Gates, Shut, Declared, Counting, Declaring, Ports, Registering, CoreDrains,
      Guarded
<1> QED BY <1>1, <1>2, <1>3 DEF Inductive

(* A registration is refused or let through. *)
LEMMA AuthorizeProxyKeeps == ASSUME NEW c \in Clients, Inductive, AuthorizeProxy(c) PROVE Inductive'
<1> USE DEF AuthorizeProxy, ClientIsDraining, coreVars, clientVars, frpVars
<1>1. TypeOK'
  BY NodeFaultAssumption DEF Inductive, TypeOK, Ports, Registering
<1>2. Gates'
  BY DEF Inductive, TypeOK, Gates, Shut, Declared, Counting, Declaring
<1>3. Ports'
  BY
  DEF Inductive, TypeOK, Gates, Shut, Declared, Counting, Declaring, Ports, Registering, CoreDrains,
      Guarded
<1> QED BY <1>1, <1>2, <1>3 DEF Inductive

(* The core registers, or not. *)
LEMMA RegisterProxyKeeps == ASSUME NEW c \in Clients, Inductive, RegisterProxy(c) PROVE Inductive'
<1> USE DEF RegisterProxy, coreVars, clientVars, frpVars
<1>1. TypeOK'
  BY NodeFaultAssumption, SMTT(30), Z3T(30) DEF Inductive, TypeOK, Ports, Registering
<1>2. Gates'
  BY DEF Inductive, TypeOK, Gates, Shut, Declared, Counting, Declaring
<1>3. Registering'
  BY DEF Inductive, TypeOK, Ports, Registering
<1>4. CoreDrains'
  BY DEF Inductive, TypeOK, Ports, CoreDrains
<1>5. Guarded'
  BY DEF Inductive, TypeOK, Ports, Guarded
<1> QED BY <1>1, <1>2, <1>3, <1>4, <1>5 DEF Inductive, Ports

(* A port closes. *)
LEMMA ClosePortKeeps == ASSUME NEW c \in Clients, Inductive, ClosePort(c) PROVE Inductive'
<1> USE DEF ClosePort, coreVars, clientVars, frpVars
<1>1. TypeOK'
  BY NodeFaultAssumption, SMTT(30), Z3T(30) DEF Inductive, TypeOK, Ports, Registering
<1>2. Gates'
  BY DEF Inductive, TypeOK, Gates, Shut, Declared, Counting, Declaring
<1>3. Registering'
  BY NodeFaultAssumption, SMTT(30), Z3T(30) DEF Inductive, TypeOK, Ports, Registering
<1>4. CoreDrains'
  BY DEF Inductive, TypeOK, Ports, CoreDrains
<1>5. Guarded'
  BY DEF Inductive, TypeOK, Ports, Guarded
<1> QED BY <1>1, <1>2, <1>3, <1>4, <1>5 DEF Inductive, Ports

(* A frpc exits. *)
LEMMA FrpExitKeeps == ASSUME NEW c \in Clients, Inductive, FrpExit(c) PROVE Inductive'
<1> USE DEF FrpExit, coreVars, clientVars, frpVars
<1>1. TypeOK'
  BY NodeFaultAssumption, SMTT(30), Z3T(30) DEF Inductive, TypeOK, Ports, Registering
<1>2. Gates'
  BY DEF Inductive, TypeOK, Gates, Shut, Declared, Counting, Declaring
<1>3. Registering'
  BY NodeFaultAssumption DEF Inductive, TypeOK, Ports, Registering
<1>4. CoreDrains'
  BY DEF Inductive, TypeOK, Ports, CoreDrains
<1>5. Guarded'
  BY DEF Inductive, TypeOK, Ports, Guarded
<1> QED BY <1>1, <1>2, <1>3, <1>4, <1>5 DEF Inductive, Ports

(* A request reads the database. *)
LEMMA KeepaliveKeeps == ASSUME NEW r \in Requests, NEW c \in Clients, Inductive, Keepalive(r, c) PROVE Inductive'
<1> USE DEF Keepalive, coreVars, clientVars, frpVars
<1>1. TypeOK'
  BY NodeFaultAssumption DEF Inductive, TypeOK, Ports, Registering
<1>2. Gates'
  BY DEF Inductive, TypeOK, Gates, Shut, Declared, Counting, Declaring
<1>3. Ports'
  BY
  DEF Inductive, TypeOK, Gates, Shut, Declared, Counting, Declaring, Ports, Registering, CoreDrains,
      Guarded
<1> QED BY <1>1, <1>2, <1>3 DEF Inductive

(* The read succeeds. *)
LEMMA ReadSucceedsKeeps == ASSUME NEW r \in Requests, Inductive, ReadSucceeds(r) PROVE Inductive'
<1> USE DEF ReadSucceeds, coreVars, clientVars, frpVars
<1>1. TypeOK'
  BY NodeFaultAssumption DEF Inductive, TypeOK, Ports, Registering
<1>2. Gates'
  BY DEF Inductive, TypeOK, Gates, Shut, Declared, Counting, Declaring
<1>3. Ports'
  BY
  DEF Inductive, TypeOK, Gates, Shut, Declared, Counting, Declaring, Ports, Registering, CoreDrains,
      Guarded
<1> QED BY <1>1, <1>2, <1>3 DEF Inductive

(* The read fails and pauses admission. *)
LEMMA ReadFailsKeeps == ASSUME NEW r \in Requests, Inductive, ReadFails(r) PROVE Inductive'
<1> USE DEF ReadFails, Fault, coreVars, clientVars, frpVars
<1>1. TypeOK'
  BY NodeFaultAssumption, SMTT(30), Z3T(30) DEF Inductive, TypeOK, Ports, Registering
<1>2. Gates'
  BY DEF Inductive, TypeOK, Gates, Shut, Declared, Counting, Declaring
<1>3. Ports'
  BY
  DEF Inductive, TypeOK, Gates, Shut, Declared, Counting, Declaring, Ports, Registering, CoreDrains,
      Guarded
<1> QED BY <1>1, <1>2, <1>3 DEF Inductive

(* The request raises fault.closed. *)
LEMMA RequestFlagsKeeps == ASSUME NEW r \in Requests, Inductive, RequestFlags(r) PROVE Inductive'
<1> USE DEF RequestFlags, coreVars, clientVars, frpVars
<1>1. TypeOK'
  BY NodeFaultAssumption DEF Inductive, TypeOK, Ports, Registering
<1>2. Gates'
  BY DEF Inductive, TypeOK, Gates, Shut, Declared, Counting, Declaring
<1>3. Ports'
  BY
  DEF Inductive, TypeOK, Gates, Shut, Declared, Counting, Declaring, Ports, Registering, CoreDrains,
      Guarded
<1> QED BY <1>1, <1>2, <1>3 DEF Inductive

(* The request tells the cluster server. *)
LEMMA RequestSuspectsKeeps == ASSUME NEW r \in Requests, Inductive, RequestSuspects(r) PROVE Inductive'
<1> USE DEF RequestSuspects, coreVars, clientVars, frpVars
<1>1. TypeOK'
  BY NodeFaultAssumption DEF Inductive, TypeOK, Ports, Registering
<1>2. Gates'
  BY DEF Inductive, TypeOK, Gates, Shut, Declared, Counting, Declaring
<1>3. Ports'
  BY
  DEF Inductive, TypeOK, Gates, Shut, Declared, Counting, Declaring, Ports, Registering, CoreDrains,
      Guarded
<1> QED BY <1>1, <1>2, <1>3 DEF Inductive

(* The request falls back on the core. *)
LEMMA FallbackKeeps == ASSUME NEW r \in Requests, Inductive, Fallback(r) PROVE Inductive'
<1> USE DEF Fallback, coreVars, clientVars, frpVars
<1>1. TypeOK'
  BY NodeFaultAssumption DEF Inductive, TypeOK, Ports, Registering
<1>2. Gates'
  BY DEF Inductive, TypeOK, Gates, Shut, Declared, Counting, Declaring
<1>3. Ports'
  BY
  DEF Inductive, TypeOK, Gates, Shut, Declared, Counting, Declaring, Ports, Registering, CoreDrains,
      Guarded
<1> QED BY <1>1, <1>2, <1>3 DEF Inductive

(* The database fails. *)
LEMMA DatabaseFailsKeeps == ASSUME Inductive, DatabaseFails PROVE Inductive'
<1> USE DEF DatabaseFails, Fault, coreVars, clientVars, frpVars
<1>0. faults' \in 0..MaxFaults
  BY NodeFaultAssumption, SMTT(30), Z3T(30) DEF Inductive, TypeOK
<1>1. TypeOK'
  BY <1>0 DEF Inductive, TypeOK
<1>2. Gates'
  BY DEF Inductive, TypeOK, Gates, Shut, Declared, Counting, Declaring
<1>3. Ports'
  BY
  DEF Inductive, TypeOK, Gates, Shut, Declared, Counting, Declaring, Ports, Registering, CoreDrains,
      Guarded
<1> QED BY <1>1, <1>2, <1>3 DEF Inductive

(* The database returns. *)
LEMMA DatabaseReturnsKeeps == ASSUME Inductive, DatabaseReturns PROVE Inductive'
<1> USE DEF DatabaseReturns, coreVars, clientVars, frpVars
<1>1. TypeOK'
  BY NodeFaultAssumption DEF Inductive, TypeOK, Ports, Registering
<1>2. Gates'
  BY DEF Inductive, TypeOK, Gates, Shut, Declared, Counting, Declaring
<1>3. Ports'
  BY
  DEF Inductive, TypeOK, Gates, Shut, Declared, Counting, Declaring, Ports, Registering, CoreDrains,
      Guarded
<1> QED BY <1>1, <1>2, <1>3 DEF Inductive

LEMMA NextKeeps == Inductive /\ [Next]_vars => Inductive'
BY StutterKeeps, ProbeFailsKeeps, TickPausesKeeps, TickFlagsKeeps, TickSuspectsKeeps,
   TickClosesKeeps, TickMarksKeeps, ProbeSucceedsKeeps, AskSuspectKeeps, TickRecoversKeeps,
   TickOpensKeeps, TickUnmarksKeeps, ForgetIdleKeeps, GuiRequestKeeps, RememberClientKeeps,
   FaultHeartbeatKeeps, LoginCheckedKeeps, RememberRuntimeLeaseKeeps, NewProxyKeeps,
   AuthorizeProxyKeeps, RegisterProxyKeeps, ClosePortKeeps, FrpExitKeeps, KeepaliveKeeps,
   ReadSucceedsKeeps, ReadFailsKeeps, RequestFlagsKeeps, RequestSuspectsKeeps, FallbackKeeps,
   DatabaseFailsKeeps, DatabaseReturnsKeeps
DEF Next, Ticker, Request

-----------------------------------------------------------------------------
(* A port opens only in RegisterProxy, whose two conditions Guarded and Shut refuse to
   a client that drains. *)
LEMMA StepOpensNone ==
  ASSUME Inductive, [Next]_vars
  PROVE  \A c \in draining : ports'[c] <= ports[c]
<1> SUFFICES ASSUME NEW d \in draining
             PROVE  ports'[d] <= ports[d]
  OBVIOUS
<1>0. d \in Clients /\ d \in drains /\ ports \in [Clients -> 0..MaxPorts]
  BY DEF Inductive, TypeOK
<1>1. CASE UNCHANGED ports
  BY <1>0, <1>1, NodeFaultAssumption, SMTT(30), Z3T(30)
<1>2. ASSUME NEW c \in Clients, RegisterProxy(c)
      PROVE  ports'[d] <= ports[d]
  <2>1. c = d => admissionClosed \/ c \notin runtimeLeases \ drainingClients
    BY <1>0, <1>2 DEF RegisterProxy, Inductive, TypeOK, Ports, Guarded, Gates, Counting, Shut
  <2> QED BY <1>0, <1>2, <2>1, NodeFaultAssumption, SMTT(30), Z3T(30) DEF RegisterProxy
<1>3. ASSUME NEW c \in Clients, ClosePort(c) \/ FrpExit(c)
      PROVE  ports'[d] <= ports[d]
  BY <1>0, <1>3, NodeFaultAssumption, SMTT(30), Z3T(30) DEF ClosePort, FrpExit
<1> QED
  BY <1>1, <1>2, <1>3
  DEF Next, Ticker, Request, TickUnchanged, coreVars, clientVars, frpVars, vars, SetAdmissionClosed,
      ProbeFails, TickPauses, TickFlags, TickSuspects, TickCloses, TickMarks, ProbeSucceeds,
      AskSuspect, TickRecovers, TickOpens, TickUnmarks, ForgetIdle, GuiRequest, RememberClient,
      FaultHeartbeat, LoginChecked, RememberRuntimeLease, NewProxy, AuthorizeProxy, Keepalive,
      ReadSucceeds, ReadFails, RequestFlags, RequestSuspects, Fallback, DatabaseFails,
      DatabaseReturns

(* The flags, sets and counters of the fault handling stay in their domains, a session
   that drains is in drains, and only such a session is warned or logged out. *)
THEOREM TypeCorrect == Spec => []TypeOK
<1>1. Inductive => TypeOK
  BY DEF Inductive
<1> QED BY <1>1, InitInductive, NextKeeps, PTL DEF Spec

(* No step opens a port for a client whose session drains, however registrations, failing
   requests, outages and recoveries interleave: clientIsDraining and RegisterProxy's own
   check leave no gap. *)
THEOREM DrainOpensNoPort == Spec => NoPortWhileDraining
<1>1. Inductive /\ [Next]_vars => [\A c \in draining : ports'[c] <= ports[c]]_vars
  BY StepOpensNone
<1> QED BY <1>1, InitInductive, NextKeeps, PTL DEF Spec, NoPortWhileDraining
=============================================================================
