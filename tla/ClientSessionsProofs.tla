------------------------ MODULE ClientSessionsProofs ------------------------
(***************************************************************************)
(* Port reservation for every number of clients, requests, ports, leases,  *)
(* account changes and restarts. PortExclusive is not inductive: the ports *)
(* of a bootstrap are checked in one step and inserted in a later one. The *)
(* invariant Inductive adds what bootstrapMu guarantees in between, and    *)
(* all steps but the insertion only shrink what the leases hold.           *)
(***************************************************************************)
EXTENDS ClientSessions, TLAPS

\* Leaves without a pragma are Zenon's; the ones about arithmetic cite SMT, with Z3 as a
\* second attempt.
USE ZenonT(30), ZenonT(60)

LeaseRow == [status : {"none", "active", "gone"}, client : Clients \cup {NoClient},
             ports : SUBSET Ports, expired : BOOLEAN, issuer : Nat]
Handler == [op : Stages, client : Clients \cup {NoClient}, ports : SUBSET Ports, todo : SUBSET Clients]

\* The types the argument needs.
Shape ==
    /\ account \in [known : BOOLEAN, user : {"active", "banned"}, token : {"active", "banned"}, hash : Nat]
    /\ lease \in [LeaseIds -> LeaseRow]
    /\ issued \in Nat
    /\ req \in [Goroutines -> Handler]
    /\ mutex \in Goroutines

Bootstrapping(g) == req[g].op \in {"allocate", "insert"}

\* Only the holder of bootstrapMu is between the check and the insertion.
Guarded == \A g \in Goroutines : Bootstrapping(g) => g \in Requests /\ mutex = g

\* The ports it checked are still free of every other client's leases.
StillFree ==
    \A g \in Goroutines : Bootstrapping(g) =>
        /\ req[g].ports \cap Reserved = {}
        /\ \A l \in LeaseIds : lease[l].client # req[g].client => Holds(l) \cap req[g].ports = {}

Inductive == Shape /\ Guarded /\ StillFree /\ OneLease /\ PortExclusive

-----------------------------------------------------------------------------
(* Steps that issue nothing and admit nothing. *)

\* A lease is left alone, ends or expires.
Shrinks ==
    \A l \in LeaseIds : \/ lease'[l] = lease[l]
                        \/ lease'[l] = GoneLease
                        \/ lease'[l] = [lease[l] EXCEPT !.expired = TRUE]

\* Whoever bootstraps after the step did so before it, for the same ports.
Calm ==
    \A g \in Goroutines : req'[g].op \in {"allocate", "insert"} =>
        /\ Bootstrapping(g) /\ mutex' = mutex
        /\ req'[g].client = req[g].client /\ req'[g].ports = req[g].ports

\* A statement that revokes leases keeps their type and shrinks what they hold.
LEMMA RevokedShrinks ==
    ASSUME Shape, NEW S, lease' = Revoked(S)
    PROVE  Shrinks /\ lease' \in [LeaseIds -> LeaseRow]
<1>1. GoneLease \in LeaseRow
  BY DEF GoneLease, NoLease, LeaseRow
<1>2. ASSUME NEW l \in LeaseIds
      PROVE  lease'[l] \in LeaseRow /\ (lease'[l] = lease[l] \/ lease'[l] = GoneLease)
  BY <1>1 DEF Shape, Revoked
<1> QED
  BY <1>2 DEF Shrinks, Revoked

\* A step that only shrinks leases holds no port it did not hold.
LEMMA HoldsShrink ==
    ASSUME Shape, Shrinks, NEW l \in LeaseIds
    PROVE  /\ Holds(l)' \subseteq Holds(l)
           /\ Live(l)' => Live(l) /\ lease'[l].client = lease[l].client
           /\ lease'[l].client # lease[l].client => Holds(l)' = {}
<1>1. lease[l] \in LeaseRow
  BY DEF Shape
<1>2. CASE lease'[l] = lease[l]
  BY <1>2 DEF Holds, Live
<1>3. CASE lease'[l] = GoneLease
  BY <1>3 DEF Holds, Live, GoneLease, NoLease
<1>4. CASE lease'[l] = [lease[l] EXCEPT !.expired = TRUE]
  BY <1>1, <1>4 DEF Holds, Live, LeaseRow
<1> QED
  BY <1>2, <1>3, <1>4 DEF Shrinks

\* Such steps preserve the invariant.
LEMMA CalmStep ==
    ASSUME Inductive, Shape', Shrinks, Calm
    PROVE  Inductive'
<1> USE DEF Inductive
<1>1. Guarded'
  BY DEF Guarded, Bootstrapping, Calm
<1>2. StillFree'
  <2> SUFFICES ASSUME NEW g \in Goroutines, Bootstrapping(g)'
               PROVE  /\ (req[g].ports \cap Reserved = {})'
                      /\ \A l \in LeaseIds : (lease[l].client # req[g].client => Holds(l) \cap req[g].ports = {})'
    BY DEF StillFree
  <2>1. Bootstrapping(g) /\ req'[g].client = req[g].client /\ req'[g].ports = req[g].ports
    BY DEF Calm, Bootstrapping
  <2>2. ASSUME NEW l \in LeaseIds, lease'[l].client # req'[g].client
        PROVE  Holds(l)' \cap req'[g].ports = {}
    <3>1. CASE lease'[l].client = lease[l].client
      BY <2>1, <2>2, <3>1, HoldsShrink DEF StillFree
    <3>2. CASE lease'[l].client # lease[l].client
      BY <3>2, HoldsShrink
    <3> QED
      BY <3>1, <3>2
  <2> QED
    BY <2>1, <2>2 DEF StillFree
<1>3. OneLease'
  BY HoldsShrink DEF OneLease
<1>4. PortExclusive'
  <2>1. ASSUME NEW l \in LeaseIds
        PROVE  Holds(l)' \cap Reserved = {}
    BY HoldsShrink DEF PortExclusive
  <2>2. ASSUME NEW l \in LeaseIds, NEW m \in LeaseIds, l # m
        PROVE  Holds(l)' \cap Holds(m)' = {}
    BY <2>2, HoldsShrink DEF PortExclusive
  <2> QED
    BY <2>1, <2>2 DEF PortExclusive
<1> QED
  BY <1>1, <1>2, <1>3, <1>4

\* Moving a goroutine to a stage that is no bootstrap.
LEMMA ContinueCalm ==
    ASSUME Shape, NEW g \in Goroutines, NEW op \in Stages \ {"allocate", "insert"},
           NEW c \in Clients \cup {NoClient}, NEW todo \in SUBSET Clients,
           Continue(g, op, c, todo), mutex' = mutex
    PROVE  Calm /\ req' \in [Goroutines -> Handler] /\ mutex' \in Goroutines
<1> DEFINE h == [op |-> op, client |-> c, ports |-> {}, todo |-> todo]
<1>2. h \in Handler /\ h.op \notin {"allocate", "insert"}
  BY DEF Handler
<1>3. req' = [req EXCEPT ![g] = h]
  BY DEF Continue
<1> HIDE DEF h
<1>4. ASSUME NEW q \in Goroutines
      PROVE  req'[q] = (IF q = g THEN h ELSE req[q])
  BY <1>3 DEF Shape
<1> QED
  BY <1>2, <1>3, <1>4 DEF Shape, Calm, Bootstrapping

\* A goroutine that ends; when it held bootstrapMu nobody else was bootstrapping.
LEMMA FinishCalm ==
    ASSUME Shape, Guarded, NEW g \in Goroutines, Finish(g),
           \/ mutex' = mutex
           \/ UnlockBootstrap /\ Bootstrapping(g)
    PROVE  Calm /\ req' \in [Goroutines -> Handler] /\ mutex' \in Goroutines
<1>1. Idle \in Handler /\ Idle.op = "idle"
  BY DEF Idle, Handler, Stages
<1>2. req' = [req EXCEPT ![g] = Idle]
  BY DEF Finish
<1>3. ASSUME NEW q \in Goroutines
      PROVE  req'[q] = (IF q = g THEN Idle ELSE req[q])
  BY <1>2 DEF Shape
<1>4. req' \in [Goroutines -> Handler]
  BY <1>1, <1>2 DEF Shape
<1>5. mutex' \in Goroutines
  BY DEF Shape, UnlockBootstrap, Goroutines
<1>6. Calm
  BY <1>1, <1>3 DEF Calm, Bootstrapping, Guarded
<1> QED
  BY <1>4, <1>5, <1>6

\* Leaving the goroutines alone.
LEMMA SameCalm ==
    ASSUME Shape, UNCHANGED <<req, mutex>>
    PROVE  Calm /\ req' \in [Goroutines -> Handler] /\ mutex' \in Goroutines
BY DEF Shape, Calm, Bootstrapping

\* Leaving the leases alone.
LEMMA SameShrinks ==
    ASSUME Shape, UNCHANGED leaseVars
    PROVE  Shrinks /\ lease' \in [LeaseIds -> LeaseRow] /\ issued' \in Nat
BY DEF Shape, Shrinks, leaseVars

\* The statement every terminating handler runs.
LEMMA RevokeClientShrinks ==
    ASSUME Shape, NEW c, RevokeClient(c)
    PROVE  Shrinks /\ lease' \in [LeaseIds -> LeaseRow] /\ issued' \in Nat
<1>1. lease' = Revoked(LeasesOf(c)) /\ issued' = issued
  BY DEF RevokeClient
<1> QED
  BY <1>1, RevokedShrinks DEF Shape

AccountRow == [known : BOOLEAN, user : {"active", "banned"}, token : {"active", "banned"}, hash : Nat]

\* What a step has to show besides its effect on leases and goroutines.
LEMMA Calmly ==
    ASSUME Inductive, account' \in AccountRow,
           Shrinks, lease' \in [LeaseIds -> LeaseRow], issued' \in Nat,
           Calm, req' \in [Goroutines -> Handler], mutex' \in Goroutines
    PROVE  Inductive'
<1>1. Shape'
  BY DEF Shape, AccountRow
<1> QED
  BY <1>1, CalmStep

-----------------------------------------------------------------------------
(* The steps, one actor at a time. *)

\* Everything a client asks for besides a bootstrap.
LEMMA ClientSteps ==
    ASSUME Inductive, NEW c \in Clients,
           \/ ResourcePolicy(c) \/ FaultHeartbeat(c) \/ HeartbeatTimeout(c) \/ BootstrapStale(c)
           \/ \E heard \in BOOLEAN : SomeHeartbeat(c, heard)
           \/ \E l \in LeaseIds : ReleaseLease(c, l)
    PROVE  Inductive'
<1> Shape
  BY DEF Inductive
<1>1. account' \in AccountRow /\ UNCHANGED <<req, mutex>>
  BY DEF Shape, AccountRow, ResourcePolicy, ClientResourcePolicy, EdgeClientResourcePolicy, Login, FaultHeartbeat,
         HeartbeatTimeout, BootstrapStale, SomeHeartbeat, ClientHeartbeat, EdgeClientHeartbeat,
         Heartbeat, ReleaseLease, identityVars
<1>2. CASE UNCHANGED leaseVars
  BY <1>1, <1>2, SameShrinks, SameCalm, Calmly
<1>3. CASE BootstrapStale(c)
  <2>1. RevokeClient(c)
    BY <1>3 DEF BootstrapStale
  <2> QED
    BY <1>1, <2>1, RevokeClientShrinks, SameCalm, Calmly
<1>4. ASSUME NEW l \in LeaseIds, ReleaseLease(c, l)
      PROVE  Inductive'
  <2>1. lease' = Revoked({l}) /\ issued' = issued
    BY <1>4 DEF ReleaseLease
  <2>2. Shrinks /\ lease' \in [LeaseIds -> LeaseRow] /\ issued' \in Nat
    BY <2>1, RevokedShrinks DEF Shape
  <2> QED
    BY <1>1, <2>2, SameCalm, Calmly
<1>5. (ResourcePolicy(c) \/ FaultHeartbeat(c) \/ HeartbeatTimeout(c) \/ \E heard \in BOOLEAN : SomeHeartbeat(c, heard))
          => UNCHANGED leaseVars
  BY DEF ResourcePolicy, ClientResourcePolicy, EdgeClientResourcePolicy, Login, FaultHeartbeat,
         HeartbeatTimeout, SomeHeartbeat, ClientHeartbeat, EdgeClientHeartbeat, Heartbeat
<1> QED
  BY <1>2, <1>3, <1>4, <1>5

\* Bootstrap takes bootstrapMu and checks the ports against all other leases.
LEMMA AdmitStep ==
    ASSUME Inductive, NEW r \in Requests, NEW c \in Clients, NEW ps \in SUBSET Ports,
           ClientBootstrap(r, c, ps) \/ EdgeClientBootstrap(r, c, ps)
    PROVE  Inductive'
<1> USE DEF Inductive
<1> DEFINE h == [op |-> "allocate", client |-> c, ports |-> ps, todo |-> {}]
<1>1. /\ Admit(r, c, ps)
      /\ \A p \in ps : p \notin Reserved /\ ~PortInUse(p, c)
  BY DEF ClientBootstrap, EdgeClientBootstrap, ValidateBootstrapProxies, ValidateEdgeProxies, NodePort
<1>2. /\ mutex = Watchdog /\ mutex' = r
      /\ req' = [req EXCEPT ![r] = h]
      /\ UNCHANGED <<account, lease, issued>>
  BY <1>1 DEF Admit, LockBootstrap, identityVars, leaseVars
<1>3. h \in Handler /\ h.op = "allocate" /\ h.client = c /\ h.ports = ps
  BY DEF Handler, Stages
<1> HIDE DEF h
<1>4. r \in Goroutines
  BY DEF Goroutines
<1>5. Shape'
  BY <1>2, <1>3, <1>4 DEF Shape
<1>6. ASSUME NEW g \in Goroutines
      PROVE  req'[g] = (IF g = r THEN h ELSE req[g]) /\ ~Bootstrapping(g)
  BY <1>2, ClientSessionsAssumption DEF Shape, Guarded
<1>7. Guarded'
  BY <1>2, <1>6 DEF Guarded, Bootstrapping
<1>8. \A l \in LeaseIds : Holds(l)' = Holds(l)
  BY <1>2 DEF Holds, Live
<1>9. StillFree'
  <2>1. \A l \in LeaseIds : lease[l].client # c => Holds(l) \cap ps = {}
    BY <1>1 DEF PortInUse
  <2> QED
    BY <1>1, <1>2, <1>3, <1>6, <1>8, <2>1 DEF StillFree, Bootstrapping
<1>10. OneLease' /\ PortExclusive'
  BY <1>2, <1>8 DEF OneLease, PortExclusive, Live
<1> QED
  BY <1>5, <1>7, <1>9, <1>10

\* The insertion: what was free when the holder of bootstrapMu checked still is.
LEMMA InsertStep ==
    ASSUME Inductive, NEW r \in Goroutines, Bootstrapping(r), Insert(r),
           Finish(r), UnlockBootstrap, UNCHANGED account
    PROVE  Inductive'
<1> USE DEF Inductive
<1> DEFINE new == [status |-> "active", client |-> req[r].client, ports |-> req[r].ports,
                   expired |-> FALSE, issuer |-> account.hash]
<1>0. issued + 1 \in LeaseIds /\ issued' \in Nat
  BY ClientSessionsAssumption, SMT, Z3 DEF Insert, Shape, LeaseIds
<1>1. PICK n \in LeaseIds : lease' = [Revoked(LeasesOf(req[r].client)) EXCEPT ![n] = new]
  BY <1>0 DEF Insert
<1>2. new \in LeaseRow
  BY DEF Shape, LeaseRow, Handler
<1>3. new.status = "active" /\ new.client = req[r].client /\ new.ports = req[r].ports /\ ~new.expired
  OBVIOUS
<1> HIDE DEF new
<1>4. ASSUME NEW l \in LeaseIds, l # n
      PROVE  lease'[l] = (IF Live(l) /\ lease[l].client = req[r].client THEN GoneLease ELSE lease[l])
  BY <1>1, <1>4 DEF Revoked, LeasesOf
<1>5. lease'[n] = new
  BY <1>1 DEF Revoked
<1>6. GoneLease \in LeaseRow /\ GoneLease.status = "gone"
  BY DEF GoneLease, NoLease, LeaseRow
<1>7. lease' \in [LeaseIds -> LeaseRow]
  BY <1>1, <1>2, <1>6 DEF Revoked, Shape
<1>8. Calm /\ req' \in [Goroutines -> Handler] /\ mutex' \in Goroutines
  BY FinishCalm
<1>9. Shape'
  BY <1>0, <1>7, <1>8 DEF Shape
<1>10. \A g \in Goroutines : ~Bootstrapping(g)'
  BY <1>8 DEF Calm, Guarded, Bootstrapping, Finish, Idle, Shape
<1>11. Guarded' /\ StillFree'
  BY <1>10 DEF Guarded, StillFree
<1>12. ASSUME NEW l \in LeaseIds, l # n
       PROVE  /\ Holds(l)' \subseteq Holds(l)
              /\ Live(l)' => Live(l) /\ lease'[l] = lease[l] /\ lease[l].client # req[r].client
              /\ Holds(l)' \cap req[r].ports = {}
  <2>1. CASE Live(l) /\ lease[l].client = req[r].client
    BY <1>4, <1>6, <1>12, <2>1 DEF Holds, Live
  <2>2. CASE Live(l) /\ lease[l].client # req[r].client
    BY <1>4, <1>12, <2>2 DEF Holds, Live, StillFree
  <2>3. CASE ~Live(l)
    BY <1>4, <1>12, <2>3 DEF Holds, Live
  <2> QED
    BY <2>1, <2>2, <2>3
<1>13. Holds(n)' = req[r].ports /\ Live(n)' /\ lease'[n].client = req[r].client
  BY <1>3, <1>5 DEF Holds, Live
<1>14. OneLease'
  <2> SUFFICES ASSUME NEW l \in LeaseIds, NEW m \in LeaseIds, Live(l)', Live(m)', lease'[l].client = lease'[m].client
               PROVE  l = m
    BY DEF OneLease
  <2>1. CASE l = n \/ m = n
    BY <1>12, <1>13, <2>1
  <2>2. CASE l # n /\ m # n
    BY <1>12, <2>2 DEF OneLease
  <2> QED
    BY <2>1, <2>2
<1>15. ASSUME NEW l \in LeaseIds
       PROVE  Holds(l)' \cap Reserved = {}
  <2>1. CASE l = n
    BY <1>13, <2>1 DEF StillFree
  <2>2. CASE l # n
    BY <1>12, <2>2 DEF PortExclusive
  <2> QED
    BY <2>1, <2>2
<1>16. ASSUME NEW l \in LeaseIds, NEW m \in LeaseIds, l # m
       PROVE  Holds(l)' \cap Holds(m)' = {}
  <2>1. CASE l = n \/ m = n
    BY <1>12, <1>13, <1>16, <2>1
  <2>2. CASE l # n /\ m # n
    <3>1. Holds(l)' \subseteq Holds(l) /\ Holds(m)' \subseteq Holds(m)
      BY <1>12, <2>2
    <3>2. Holds(l) \cap Holds(m) = {}
      BY <1>16 DEF PortExclusive
    <3> QED
      BY <3>1, <3>2
  <2> QED
    BY <2>1, <2>2
<1>17. PortExclusive'
  BY <1>15, <1>16 DEF PortExclusive
<1> QED
  BY <1>9, <1>11, <1>14, <1>17

\* The later statements of the handlers and of the watchdog.
LEMMA HandlerSteps ==
    ASSUME Inductive, NEW g \in Goroutines, Step(g)
    PROVE  Inductive'
<1> Shape /\ Guarded
  BY DEF Inductive
<1>0. account' \in AccountRow /\ account' = account
  BY DEF Shape, AccountRow, Step, CheckReset, CreateRuntimeLease, CreateLease, TerminateRuntime,
         DeleteCommands, ClearPresence, SweepClient, identityVars
<1>1. CASE CheckReset(g)
  <2>1. UNCHANGED leaseVars
    BY <1>1 DEF CheckReset
  <2>2. CASE Finish(g) /\ UnlockBootstrap
    <3>1. Bootstrapping(g)
      BY <1>1 DEF CheckReset, Bootstrapping
    <3> QED
      BY <1>0, <2>1, <2>2, <3>1, SameShrinks, FinishCalm, Calmly
  <2>3. CASE req' = [req EXCEPT ![g].op = "insert"] /\ UNCHANGED mutex
    <3>1. req[g].op = "allocate"
      BY <1>1 DEF CheckReset
    <3>2. req' \in [Goroutines -> Handler] /\ mutex' \in Goroutines
      BY <2>3 DEF Shape, Handler, Stages
    <3>3. Calm
      BY <2>3, <3>1 DEF Calm, Bootstrapping, Shape, Handler
    <3> QED
      BY <1>0, <2>1, <3>2, <3>3, SameShrinks, Calmly
  <2> QED
    BY <1>1, <2>2, <2>3 DEF CheckReset
<1>2. CASE CreateRuntimeLease(g) \/ CreateLease(g)
  <2>1. Finish(g) /\ UnlockBootstrap /\ Bootstrapping(g) /\ (Insert(g) \/ UNCHANGED leaseVars)
    BY <1>2 DEF CreateRuntimeLease, CreateLease, Bootstrapping
  <2>2. CASE Insert(g)
    BY <1>0, <2>1, <2>2, InsertStep
  <2>3. CASE UNCHANGED leaseVars
    BY <1>0, <2>1, <2>3, SameShrinks, FinishCalm, Calmly
  <2> QED
    BY <2>1, <2>2, <2>3
<1>3. CASE TerminateRuntime(g)
  <2>1. RevokeClient(req[g].client) /\ Finish(g) /\ mutex' = mutex
    BY <1>3 DEF TerminateRuntime
  <2> QED
    BY <1>0, <2>1, RevokeClientShrinks, FinishCalm, Calmly
<1>4. req[g].client \in Clients \cup {NoClient} /\ req[g].todo \in SUBSET Clients
  BY DEF Shape, Handler
<1>5. CASE DeleteCommands(g)
  <2>1. Continue(g, "clear", req[g].client, req[g].todo) /\ UNCHANGED leaseVars /\ mutex' = mutex
    BY <1>5 DEF DeleteCommands
  <2>2. "clear" \in Stages \ {"allocate", "insert"}
    BY DEF Stages
  <2> QED
    BY <1>0, <1>4, <2>1, <2>2, ContinueCalm, SameShrinks, Calmly
<1>6. CASE ClearPresence(g)
  <2>1. PICK op \in {"idle", "sweep"} : Continue(g, op, NoClient, req[g].todo) /\ UNCHANGED leaseVars /\ mutex' = mutex
    BY <1>6 DEF ClearPresence
  <2>2. op \in Stages \ {"allocate", "insert"}
    BY DEF Stages
  <2> QED
    BY <1>0, <1>4, <2>1, <2>2, ContinueCalm, SameShrinks, Calmly
<1>7. ASSUME NEW c \in Clients, SweepClient(g, c)
      PROVE  Inductive'
  <2> DEFINE rest == req[g].todo \ {c}
  <2>1. rest \in SUBSET Clients /\ mutex' = mutex
    BY <1>4, <1>7 DEF SweepClient
  <2>2. CASE c \in drains
    <3>1. PICK op \in {"idle", "sweep"} : Continue(g, op, NoClient, rest) /\ UNCHANGED leaseVars
      BY <1>7, <2>2 DEF SweepClient
    <3>2. op \in Stages \ {"allocate", "insert"}
      BY DEF Stages
    <3> QED
      BY <1>0, <2>1, <3>1, <3>2, ContinueCalm, SameShrinks, Calmly
  <2>3. CASE c \notin drains
    <3>1. Continue(g, "delete", c, rest) /\ RevokeClient(c)
      BY <1>7, <2>3 DEF SweepClient
    <3>2. "delete" \in Stages \ {"allocate", "insert"}
      BY DEF Stages
    <3> QED
      BY <1>0, <2>1, <3>1, <3>2, ContinueCalm, RevokeClientShrinks, Calmly
  <2> QED
    BY <2>2, <2>3
<1> QED
  BY <1>1, <1>2, <1>3, <1>5, <1>6, <1>7 DEF Step

\* Handlers and sweeps that begin.
LEMMA BeginSteps ==
    ASSUME Inductive, BeginSweep \/ \E r \in Requests : ClientRequest(r)
    PROVE  Inductive'
<1> Shape
  BY DEF Inductive
<1>1. CASE BeginSweep
  <2> DEFINE stale == IF Edge THEN StaleClients ELSE ListClientsWithStaleHeartbeat
  <2>1. Continue(Watchdog, "sweep", NoClient, stale) /\ UNCHANGED leaseVars /\ mutex' = mutex /\ account' = account
    BY <1>1 DEF BeginSweep, identityVars
  <2>2. stale \in SUBSET Clients /\ Watchdog \in Goroutines /\ "sweep" \in Stages \ {"allocate", "insert"}
    BY DEF StaleClients, ListClientsWithStaleHeartbeat, Goroutines, Stages
  <2> HIDE DEF stale
  <2>3. account' \in AccountRow
    BY <2>1 DEF Shape, AccountRow
  <2> QED
    BY <2>1, <2>2, <2>3, ContinueCalm, SameShrinks, Calmly
<1>2. ASSUME NEW r \in Requests, NEW c \in Clients, ClientLogout(r, c) \/ EdgeClientLogout(r, c)
      PROVE  Inductive'
  <2>1. Continue(r, "delete", c, {}) /\ RevokeClient(c) /\ mutex' = mutex /\ account' = account
    BY <1>2 DEF ClientLogout, EdgeClientLogout, Logout, identityVars
  <2>2. r \in Goroutines /\ "delete" \in Stages \ {"allocate", "insert"} /\ {} \in SUBSET Clients
    BY DEF Goroutines, Stages
  <2>3. account' \in AccountRow
    BY <2>1 DEF Shape, AccountRow
  <2> QED
    BY <2>1, <2>2, <2>3, ContinueCalm, RevokeClientShrinks, Calmly
<1>3. ASSUME NEW r \in Requests, NEW k \in Commands, EnqueueClientCommand(r, k)
      PROVE  Inductive'
  <2>1. /\ UNCHANGED leaseVars /\ mutex' = mutex /\ account' = account
        /\ Continue(r, "terminate", CommandOf[k], {}) \/ UNCHANGED req
    BY <1>3 DEF EnqueueClientCommand, identityVars
  <2>2. /\ r \in Goroutines /\ "terminate" \in Stages \ {"allocate", "insert"} /\ {} \in SUBSET Clients
        /\ CommandOf[k] \in Clients
    BY ClientSessionsAssumption DEF Goroutines, Stages
  <2>3. account' \in AccountRow
    BY <2>1 DEF Shape, AccountRow
  <2>4. Calm /\ req' \in [Goroutines -> Handler] /\ mutex' \in Goroutines
    BY <2>1, <2>2, ContinueCalm, SameCalm
  <2> QED
    BY <2>1, <2>3, <2>4, SameShrinks, Calmly
<1> QED
  BY <1>1, <1>2, <1>3, AdmitStep DEF ClientRequest

\* Administrators, the clock and acknowledgements: rows change, goroutines do not.
LEMMA RowSteps ==
    ASSUME Inductive,
           \/ Administration \/ \E k \in Commands : CommandACK(k)
           \/ \E l \in LeaseIds : ExpireLease(l)
    PROVE  Inductive'
<1> Shape
  BY DEF Inductive
<1>1. UNCHANGED <<req, mutex>>
  BY DEF Administration, CommandACK, ClientCommandACK, EdgeClientCommandACK, Acknowledge, ExpireLease,
         SetUserStatus, SetAccessTokenStatus, RotateAccessToken, DeleteUser, UpsertUserResourcePolicy,
         AccountChange, DeleteClient, SetClientStatus, DisconnectClient
<1>2. account' \in AccountRow
  <2>1. CASE UNCHANGED account
    BY <2>1 DEF Shape, AccountRow
  <2>2. ASSUME NEW v \in {"active", "banned"}, SetUserStatus(v) \/ SetAccessTokenStatus(v)
        PROVE  account' \in AccountRow
    <3>1. CASE account' = [account EXCEPT !.user = v]
      BY <3>1 DEF Shape, AccountRow
    <3>2. CASE account' = [account EXCEPT !.token = v]
      BY <3>2 DEF Shape, AccountRow
    <3> QED
      BY <2>2, <3>1, <3>2 DEF SetUserStatus, SetAccessTokenStatus
  <2>3. CASE RotateAccessToken \/ DeleteUser
    <3>1. CASE account' = [account EXCEPT !.known = FALSE]
      BY <3>1 DEF Shape, AccountRow
    <3>2. CASE account' = [known |-> TRUE, user |-> account.user, token |-> "active", hash |-> account.hash + 1]
      BY <3>2, SMT, Z3 DEF Shape, AccountRow
    <3> QED
      BY <2>3, <3>1, <3>2 DEF RotateAccessToken, DeleteUser
  <2>4. \/ UNCHANGED account \/ RotateAccessToken \/ DeleteUser
        \/ \E v \in {"active", "banned"} : SetUserStatus(v) \/ SetAccessTokenStatus(v)
    BY DEF Administration, CommandACK, ClientCommandACK, EdgeClientCommandACK, Acknowledge, ExpireLease,
           UpsertUserResourcePolicy, DeleteClient, SetClientStatus, DisconnectClient, identityVars
  <2> QED
    BY <2>1, <2>2, <2>3, <2>4
<1>3. Shrinks /\ lease' \in [LeaseIds -> LeaseRow] /\ issued' \in Nat
  <2>1. CASE UNCHANGED leaseVars
    BY <2>1, SameShrinks
  <2>2. ASSUME NEW S, lease' = Revoked(S), issued' = issued
        PROVE  Shrinks /\ lease' \in [LeaseIds -> LeaseRow] /\ issued' \in Nat
    BY <2>2, RevokedShrinks DEF Shape
  <2>3. ASSUME NEW l \in LeaseIds, ExpireLease(l)
        PROVE  Shrinks /\ lease' \in [LeaseIds -> LeaseRow] /\ issued' \in Nat
    <3>1. lease' = [lease EXCEPT ![l].expired = TRUE] /\ issued' = issued
      BY <2>3 DEF ExpireLease
    <3> QED
      BY <3>1 DEF Shape, Shrinks, LeaseRow
  <2>4. \/ UNCHANGED leaseVars
        \/ \E l \in LeaseIds : ExpireLease(l)
        \/ \E S \in SUBSET LeaseIds : lease' = Revoked(S) /\ issued' = issued
    <3>1. \A c : LeasesOf(c) \in SUBSET LeaseIds
      BY DEF LeasesOf
    <3> QED
      BY <3>1 DEF Administration, CommandACK, ClientCommandACK, EdgeClientCommandACK, Acknowledge,
         SetUserStatus, SetAccessTokenStatus, RotateAccessToken, DeleteUser, UpsertUserResourcePolicy,
         AccountChange, DeleteClient, SetClientStatus, DisconnectClient, RevokeClient
  <2> QED
    BY <2>1, <2>2, <2>3, <2>4
<1> QED
  BY <1>1, <1>2, <1>3, SameCalm, Calmly

\* Identity resets and snapshots only end leases.
LEMMA SynchronisationSteps ==
    ASSUME Inductive, Synchronisation
    PROVE  Inductive'
<1> Shape
  BY DEF Inductive
<1>1. UNCHANGED <<req, mutex>>
  BY DEF Synchronisation, BeginReset, DiscardIdentityCache, CompleteBaseline, ApplyBaseline, ApplyIncremental
<1>2. CASE BeginReset \/ DiscardIdentityCache \/ CompleteBaseline
  <2>1. account' \in AccountRow /\ UNCHANGED leaseVars
    BY <1>2 DEF Shape, AccountRow, BeginReset, DiscardIdentityCache, CompleteBaseline
  <2> QED
    BY <1>1, <2>1, SameShrinks, SameCalm, Calmly
<1>3. ASSUME NEW a \in Snapshots, NEW p \in Policies, ApplyBaseline(a, p) \/ ApplyIncremental(a, p)
      PROVE  Inductive'
  <2>1. ApplyIdentity(a, p)
    BY <1>3 DEF ApplyBaseline, ApplyIncremental
  <2>2. account' \in AccountRow
    <3>1. a \in [known : {TRUE}, user : {"active", "banned"}, token : {"active", "banned"},
                 hash : account.hash .. account.hash + 1]
      BY <1>3 DEF Snapshots
    <3>2. account.hash \in Nat
      BY DEF Shape
    <3>3. account.hash .. account.hash + 1 \subseteq Nat
      BY <3>2, SMT, Z3
    <3>4. a \in AccountRow
      BY <3>1, <3>3 DEF AccountRow
    <3> QED
      BY <2>1, <3>4 DEF ApplyIdentity
  <2>3. PICK S \in SUBSET LeaseIds : lease' = Revoked(S) /\ issued' = issued
    BY <2>1 DEF ApplyIdentity
  <2>4. Shrinks /\ lease' \in [LeaseIds -> LeaseRow] /\ issued' \in Nat
    BY <2>3, RevokedShrinks DEF Shape
  <2> QED
    BY <1>1, <2>2, <2>4, SameCalm, Calmly
<1> QED
  BY <1>2, <1>3 DEF Synchronisation

\* A restart forgets the requests; an edge also forgets its leases.
LEMMA RestartStep ==
    ASSUME Inductive, Restart
    PROVE  Inductive'
<1> Shape
  BY DEF Inductive
<1>1. req' = [g \in Goroutines |-> Idle] /\ mutex' = Watchdog /\ issued' = issued
  BY DEF Restart
<1>2. Idle \in Handler /\ Idle.op = "idle"
  BY DEF Idle, Handler, Stages
<1>3. Calm /\ req' \in [Goroutines -> Handler] /\ mutex' \in Goroutines
  BY <1>1, <1>2 DEF Calm, Goroutines
<1>4. account' \in AccountRow
  BY DEF Restart, Shape, AccountRow
<1>5. lease' = Revoked(LeaseIds) \/ UNCHANGED leaseVars
  BY DEF Restart, leaseVars
<1>6. Shrinks /\ lease' \in [LeaseIds -> LeaseRow] /\ issued' \in Nat
  BY <1>1, <1>5, RevokedShrinks, SameShrinks DEF Shape
<1> QED
  BY <1>3, <1>4, <1>6, Calmly

-----------------------------------------------------------------------------

\* The invariant holds initially and every step preserves it.
LEMMA InductiveHolds == Spec => []Inductive
<1>1. Init => Inductive
  <2> SUFFICES ASSUME Init PROVE Inductive
    OBVIOUS
  <2>1. Idle \in Handler /\ Idle.op = "idle" /\ NoLease \in LeaseRow /\ NoLease.status = "none"
    BY DEF Idle, NoLease, Handler, LeaseRow, Stages
  <2>2. Shape
    BY <2>1 DEF Init, Shape, Goroutines
  <2> QED
    BY <2>1, <2>2 DEF Init, Inductive, Guarded, StillFree, OneLease, PortExclusive, Bootstrapping, Live, Holds
<1>2. Inductive /\ [Next]_vars => Inductive'
  <2> SUFFICES ASSUME Inductive, [Next]_vars PROVE Inductive'
    OBVIOUS
  <2>1. CASE UNCHANGED vars
    <3>1. UNCHANGED <<account, req, mutex>> /\ UNCHANGED leaseVars
      BY <2>1 DEF vars, identityVars
    <3>2. account' \in AccountRow /\ Shape
      BY <3>1 DEF Inductive, Shape, AccountRow
    <3> QED
      BY <3>1, <3>2, SameShrinks, SameCalm, Calmly
  <2>2. CASE Next
    BY <2>2, ClientSteps, HandlerSteps, BeginSteps, RowSteps, SynchronisationSteps, RestartStep DEF Next
  <2> QED
    BY <2>1, <2>2
<1> QED
  BY <1>1, <1>2, PTL DEF Spec

\* For any clients, requests, ports and bounds, no remote port is ever held by two
\* unexpired active leases or by a listener of the node, although bootstrap checks
\* ports and inserts the lease in separate steps.
THEOREM PortsExclusive == Spec => []PortExclusive
<1>1. Inductive => PortExclusive
  BY DEF Inductive
<1> QED
  BY <1>1, InductiveHolds, PTL

\* A device never holds two active leases, for any number of devices and requests.
THEOREM LeasePerClient == Spec => []OneLease
<1>1. Inductive => OneLease
  BY DEF Inductive
<1> QED
  BY <1>1, InductiveHolds, PTL

-----------------------------------------------------------------------------
(* Issuers. *)

\* Whenever an edge knows its account, complete cache or not, active leases carry the
\* cached hash; only between a discarded cache and the next baseline it knows none.
IssuersKnown ==
    Edge => /\ account.known => \A l \in LeaseIds : Live(l) => lease[l].issuer = account.hash
            /\ sync # "empty" => account.known

\* A lease that is active after a step was so before, or was issued under the hash
\* the account had then.
Issues ==
    \A l \in LeaseIds : Live(l)' => \/ Live(l) /\ lease'[l].issuer = lease[l].issuer
                                    \/ account.known /\ lease'[l].issuer = account.hash

\* The ways a step changes leases.
LEMMA LeaseMoves ==
    ASSUME Next
    PROVE  \/ UNCHANGED lease
           \/ \E S \in SUBSET LeaseIds : lease' = Revoked(S)
           \/ \E l \in LeaseIds : ExpireLease(l)
           \/ \E g \in Goroutines : account.known /\ Insert(g)
<1>0. \A c : LeasesOf(c) \in SUBSET LeaseIds
  BY DEF LeasesOf
<1>1. CASE \E r \in Requests : ClientRequest(r)
  BY <1>0, <1>1 DEF ClientRequest, ClientLogout, EdgeClientLogout, Logout, ClientBootstrap, EdgeClientBootstrap,
     Admit, EnqueueClientCommand, RevokeClient, leaseVars
<1>2. CASE BeginSweep \/ \E g \in Goroutines : Step(g)
  BY <1>0, <1>2 DEF BeginSweep, Step, CheckReset, CreateRuntimeLease, CreateLease, TerminateRuntime,
     DeleteCommands, ClearPresence, SweepClient, RevokeClient, leaseVars
<1>3. ASSUME NEW c \in Clients,
             \/ ResourcePolicy(c) \/ FaultHeartbeat(c) \/ HeartbeatTimeout(c) \/ BootstrapStale(c)
             \/ \E heard \in BOOLEAN : SomeHeartbeat(c, heard)
             \/ \E l \in LeaseIds : ReleaseLease(c, l)
      PROVE  UNCHANGED lease \/ \E S \in SUBSET LeaseIds : lease' = Revoked(S)
  BY <1>0, <1>3 DEF ResourcePolicy, ClientResourcePolicy, EdgeClientResourcePolicy, Login, FaultHeartbeat,
     HeartbeatTimeout, BootstrapStale, SomeHeartbeat, ClientHeartbeat, EdgeClientHeartbeat, Heartbeat,
     ReleaseLease, RevokeClient, leaseVars
<1>4. CASE Administration \/ \E k \in Commands : CommandACK(k)
  BY <1>0, <1>4 DEF Administration, CommandACK, ClientCommandACK, EdgeClientCommandACK, Acknowledge,
     SetUserStatus, SetAccessTokenStatus, RotateAccessToken, DeleteUser, UpsertUserResourcePolicy,
     AccountChange, DeleteClient, SetClientStatus, DisconnectClient, RevokeClient, leaseVars
<1>5. CASE Synchronisation
  BY <1>5 DEF Synchronisation, BeginReset, DiscardIdentityCache, CompleteBaseline, ApplyBaseline,
     ApplyIncremental, ApplyIdentity, leaseVars
<1>6. CASE Restart
  BY <1>6 DEF Restart
<1> QED
  BY <1>1, <1>2, <1>3, <1>4, <1>5, <1>6 DEF Next

LEMMA NextIssues ==
    ASSUME Shape, Next
    PROVE  Issues
<1> SUFFICES ASSUME NEW l \in LeaseIds, Live(l)'
             PROVE  \/ Live(l) /\ lease'[l].issuer = lease[l].issuer
                    \/ account.known /\ lease'[l].issuer = account.hash
  BY DEF Issues
<1>1. CASE UNCHANGED lease
  BY <1>1 DEF Live
<1>2. ASSUME NEW S \in SUBSET LeaseIds, lease' = Revoked(S)
      PROVE  Live(l) /\ lease'[l].issuer = lease[l].issuer
  BY <1>2 DEF Revoked, Live, GoneLease, NoLease
<1>3. ASSUME NEW m \in LeaseIds, ExpireLease(m)
      PROVE  Live(l) /\ lease'[l].issuer = lease[l].issuer
  BY <1>3 DEF ExpireLease, Shape, LeaseRow, Live
<1>4. ASSUME NEW g \in Goroutines, account.known, Insert(g)
      PROVE  \/ Live(l) /\ lease'[l].issuer = lease[l].issuer
             \/ account.known /\ lease'[l].issuer = account.hash
  <2>1. Revoked(LeasesOf(req[g].client)) \in [LeaseIds -> LeaseRow]
    BY DEF Revoked, Shape, GoneLease, NoLease, LeaseRow
  <2>2. CASE l = issued + 1
    BY <1>4, <2>1, <2>2 DEF Insert
  <2>3. CASE l # issued + 1
    <3>1. lease'[l] = Revoked(LeasesOf(req[g].client))[l]
      BY <1>4, <2>1, <2>3 DEF Insert
    <3> QED
      BY <3>1 DEF Revoked, Live, GoneLease, NoLease
  <2> QED
    BY <2>2, <2>3
<1> QED
  BY <1>1, <1>2, <1>3, <1>4, LeaseMoves

\* The ways a step changes what an edge knows of its account.
LEMMA IdentityMoves ==
    ASSUME Next
    PROVE  \/ UNCHANGED <<mode, account, sync>>
           \/ UNCHANGED mode /\ Controller
           \/ UNCHANGED <<mode, account>> /\ sync # "empty"
           \/ UNCHANGED mode /\ sync' = "empty" /\ account' = [account EXCEPT !.known = FALSE]
           \/ \E a \in Snapshots, p \in Policies : UNCHANGED mode /\ ApplyIdentity(a, p)
<1>0. ASSUME NEW r \in Requests, ClientRequest(r)
      PROVE  UNCHANGED <<mode, account, sync>>
  BY <1>0 DEF ClientRequest, ClientLogout, EdgeClientLogout, Logout, ClientBootstrap, EdgeClientBootstrap,
     Admit, EnqueueClientCommand, identityVars
<1>1. ASSUME NEW k \in Commands, CommandACK(k)
      PROVE  UNCHANGED <<mode, account, sync>>
  BY <1>1 DEF CommandACK, ClientCommandACK, EdgeClientCommandACK, Acknowledge, identityVars
<1>2. CASE BeginSweep \/ \E g \in Goroutines : Step(g)
  BY <1>2 DEF BeginSweep, Step, CheckReset, CreateRuntimeLease, CreateLease, TerminateRuntime,
     DeleteCommands, ClearPresence, SweepClient, identityVars
<1>3. ASSUME NEW c \in Clients,
             \/ ResourcePolicy(c) \/ FaultHeartbeat(c) \/ HeartbeatTimeout(c) \/ BootstrapStale(c)
             \/ \E heard \in BOOLEAN : SomeHeartbeat(c, heard)
             \/ \E l \in LeaseIds : ReleaseLease(c, l)
      PROVE  UNCHANGED <<mode, account, sync>>
  BY <1>3 DEF ResourcePolicy, ClientResourcePolicy, EdgeClientResourcePolicy, Login, FaultHeartbeat,
     HeartbeatTimeout, BootstrapStale, SomeHeartbeat, ClientHeartbeat, EdgeClientHeartbeat, Heartbeat,
     ReleaseLease, identityVars
<1>4. CASE Administration
  BY <1>4 DEF Administration, SetUserStatus, SetAccessTokenStatus, RotateAccessToken, DeleteUser,
     UpsertUserResourcePolicy, AccountChange, DeleteClient, SetClientStatus, DisconnectClient, identityVars
<1>5. CASE Synchronisation
  BY <1>5 DEF Synchronisation, BeginReset, DiscardIdentityCache, CompleteBaseline, ApplyBaseline, ApplyIncremental
<1>6. CASE Restart
  BY <1>6 DEF Restart
<1>7. CASE \E l \in LeaseIds : ExpireLease(l)
  BY <1>7 DEF ExpireLease, identityVars
<1> QED
  BY <1>0, <1>1, <1>2, <1>3, <1>4, <1>5, <1>6, <1>7 DEF Next

\* On an edge whose cache is complete, every active lease was issued under the token
\* hash the cache holds now, for any number of devices, requests and snapshots.
THEOREM IssuersCurrent == Spec => []IssuerCurrent
<1>1. Init => IssuersKnown
  BY SMTT(30), Z3T(30) DEF Init, IssuersKnown, NoLease, Live, Edge
<1>2. ASSUME Inductive, IssuersKnown, [Next]_vars
      PROVE  IssuersKnown'
  <2>0. Shape
    BY <1>2 DEF Inductive
  <2>1. CASE UNCHANGED vars
    BY <1>2, <2>1 DEF vars, identityVars, leaseVars, IssuersKnown, Edge, Live
  <2>2. CASE Next
    <3>0. Issues
      BY <2>0, <2>2, NextIssues
    <3>1. CASE UNCHANGED <<mode, account, sync>>
      BY <1>2, <3>0, <3>1 DEF Issues, IssuersKnown, Edge
    <3>2. CASE UNCHANGED mode /\ Controller
      BY <3>2 DEF IssuersKnown, Edge, Controller
    <3>3. CASE UNCHANGED <<mode, account>> /\ sync # "empty"
      BY <1>2, <3>0, <3>3 DEF Issues, IssuersKnown, Edge
    <3>4. CASE UNCHANGED mode /\ sync' = "empty" /\ account' = [account EXCEPT !.known = FALSE]
      BY <2>0, <3>4 DEF IssuersKnown, Shape, AccountRow
    <3>5. ASSUME NEW a \in Snapshots, NEW p \in Policies, UNCHANGED mode, ApplyIdentity(a, p)
          PROVE  IssuersKnown'
      <4>1. ASSUME NEW l \in LeaseIds, Live(l)'
            PROVE  lease'[l].issuer = a.hash
        BY <3>5, <4>1 DEF ApplyIdentity, Revoked, Live, GoneLease, NoLease
      <4> QED
        BY <3>5, <4>1 DEF IssuersKnown, ApplyIdentity, Snapshots
    <3> QED
      BY <2>2, <3>1, <3>2, <3>3, <3>4, <3>5, IdentityMoves
  <2> QED
    BY <1>2, <2>1, <2>2
<1>3. IssuersKnown => IssuerCurrent
  BY DEF IssuersKnown, IssuerCurrent, EdgeOnline
<1> QED
  BY <1>1, <1>2, <1>3, InductiveHolds, PTL DEF Spec

=============================================================================
