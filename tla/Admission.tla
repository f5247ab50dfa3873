------------------------------ MODULE Admission ------------------------------
(***************************************************************************)
(* Proxy admission and draining in the FRP core (internal/frpcore/         *)
(* admission.go): the lock that fences new proxy registrations when the    *)
(* node becomes unhealthy, the per-client and per-lease proxy counters     *)
(* that decide when a draining client may be logged out, and the memory of *)
(* already authenticated runtime leases that lets existing tunnels survive *)
(* an outage.                                                              *)
(*                                                                         *)
(* Actors: the embedded FRPS, one control connection per run id, which     *)
(* calls the Begin/Opened/Closed hooks; the HTTP handlers of the FRPS      *)
(* plugin (Login, NewProxy) and of bans and logouts; and the health        *)
(* monitor, which closes and reopens admission.                            *)
(***************************************************************************)
EXTENDS Integers, FiniteSets

CONSTANTS
    Runs,       \* FRPS run ids; a run id has one control connection at a time
    Names,      \* proxy names
    Leases,     \* runtime lease ids
    Clients,    \* client keys (token id and client id)
    ClientOf,   \* the client each lease was issued to
    NoLease,    \* absence of a lease
    NoName,     \* absence of a proxy name
    ZeroKey     \* the client key of the zero lease a missing map entry yields

ASSUME AdmissionAssumption ==
    /\ IsFiniteSet(Runs) /\ IsFiniteSet(Names)
    /\ ClientOf \in [Leases -> Clients]
    /\ NoLease \notin Leases
    /\ NoName \notin Names
    /\ ZeroKey \notin Clients

VARIABLES
    leaseStatus,      \* status column of runtime_leases in the database
    terminating,      \* leases revoked in the database, not yet in the core
    login,            \* per run, the lease a Login request has validated
    control,          \* per run, the lease of its control connection
    reg,              \* per run, the registration its dispatcher is handling
    listeners,        \* per run, the names whose listener is open
    runtimeLeases,    \* Manager.runtimeLeases: lease -> status
    admissionClosed,  \* Manager.admissionClosed
    draining,         \* Manager.drainingClients
    registered,       \* Manager.registeredProxies: run and name -> lease
    proxyCounts,      \* Manager.proxyCounts
    leaseProxyCounts, \* Manager.leaseProxyCounts
    fence             \* the SetAdmissionClosed call waiting for the write lock

dbVars    == <<leaseStatus, terminating>>
frpsVars  == <<login, control, reg, listeners>>
countVars == <<registered, proxyCounts, leaseProxyCounts>>
gateVars  == <<admissionClosed, draining, fence>>
vars      == <<dbVars, frpsVars, countVars, gateVars, runtimeLeases>>

LeasesOf(c) == {l \in Leases : ClientOf[l] = c}
Idle == [stage |-> "idle", name |-> NoName]

\* Begin returned the read lock of admissionMu and release() has not run yet.
Holding(r) == reg[r].stage \in {"begun", "running"}
ReadersDone == \A r \in Runs : ~Holding(r)

\* clientKey(lease.TokenID, lease.ClientID) of the map entry for lease l.
ClientKey(l) == IF runtimeLeases[l] = "unknown" THEN ZeroKey ELSE ClientOf[l]

-----------------------------------------------------------------------------
(* FRPS plugin handlers and control connections *)

Init ==
    /\ leaseStatus = [l \in Leases |-> "active"]
    /\ terminating = {}
    /\ login = [r \in Runs |-> NoLease]
    /\ control = [r \in Runs |-> NoLease]
    /\ reg = [r \in Runs |-> Idle]
    /\ listeners = [r \in Runs |-> {}]
    /\ runtimeLeases = [l \in Leases |-> "unknown"]
    /\ admissionClosed = FALSE
    /\ draining = {}
    /\ registered = [r \in Runs |-> [n \in Names |-> NoLease]]
    /\ proxyCounts = [c \in Clients \cup {ZeroKey} |-> 0]
    /\ leaseProxyCounts = [l \in Leases |-> 0]
    /\ fence = "none"

\* The Login handler validates the lease against the database. The fault flag
\* the handlers look at first is not the core's and lags behind it: here a
\* request may have passed that check at any time.
LoginCheck(r, l) ==
    /\ control[r] = NoLease /\ login[r] = NoLease
    /\ leaseStatus[l] = "active"
    /\ login' = [login EXCEPT ![r] = l]
    /\ UNCHANGED <<dbVars, control, reg, listeners, countVars, gateVars, runtimeLeases>>

\* The handler then stores the copy it read: the control connection starts.
RememberRuntimeLease(r) ==
    /\ login[r] # NoLease
    /\ runtimeLeases' = [runtimeLeases EXCEPT ![login[r]] = "active"]
    /\ control' = [control EXCEPT ![r] = login[r]]
    /\ login' = [login EXCEPT ![r] = NoLease]
    /\ UNCHANGED <<dbVars, reg, listeners, countVars, gateVars>>

\* The NewProxy handler accepts a request; the hooks have not been called yet.
AuthorizeProxy(r, n) ==
    /\ control[r] # NoLease
    /\ reg[r] = Idle
    /\ \A m \in Names : registered[r][m] # NoLease => m \in listeners[r]
    /\ leaseStatus[control[r]] = "active"
    /\ ClientOf[control[r]] \notin draining
    /\ reg' = [reg EXCEPT ![r] = [stage |-> "authorized", name |-> n]]
    /\ UNCHANGED <<dbVars, login, control, listeners, countVars, gateVars, runtimeLeases>>

\* Mutant of BeginAllowed: a draining client is let through.
BeginAllowedWhileDraining(l) == ~admissionClosed /\ runtimeLeases[l] = "active"

\* Begin refuses when admission is closed, or the lease unknown, not active or
\* of a draining client; it keeps the read lock otherwise. A waiting writer
\* holds back new readers.
BeginAllowed(l) ==
    /\ ~admissionClosed
    /\ runtimeLeases[l] = "active"
    /\ ClientKey(l) \notin draining

Begin(r) ==
    /\ reg[r].stage = "authorized"
    /\ fence = "none"
    /\ reg' = [reg EXCEPT ![r] = IF BeginAllowed(control[r])
                                 THEN [stage |-> "begun", name |-> @.name]
                                 ELSE Idle]
    /\ UNCHANGED <<dbVars, login, control, listeners, countVars, gateVars, runtimeLeases>>

\* Mutant of RunProxy: a failed registration keeps the read lock.
RunProxyWithoutRelease(r) ==
    /\ reg[r].stage = "begun"
    /\ \A q \in Runs : reg[r].name \notin listeners[q]
    /\ listeners' = [listeners EXCEPT ![r] = @ \cup {reg[r].name}]
    /\ reg' = [reg EXCEPT ![r] = [stage |-> "running", name |-> @.name]]
    /\ UNCHANGED <<dbVars, login, control, countVars, gateVars, runtimeLeases>>

\* The proxy's listener opens, unless its name is taken or Run fails; a failed
\* registration releases the read lock.
RunProxy(r) ==
    /\ reg[r].stage = "begun"
    /\ \/ /\ \A q \in Runs : reg[r].name \notin listeners[q]
          /\ listeners' = [listeners EXCEPT ![r] = @ \cup {reg[r].name}]
          /\ reg' = [reg EXCEPT ![r] = [stage |-> "running", name |-> @.name]]
       \/ /\ reg' = [reg EXCEPT ![r] = Idle]
          /\ UNCHANGED listeners
    /\ UNCHANGED <<dbVars, login, control, countVars, gateVars, runtimeLeases>>

DropOne(counts, key) == [counts EXCEPT ![key] = IF @ <= 1 THEN 0 ELSE @ - 1]
AddOne(counts, key) == [counts EXCEPT ![key] = @ + 1]

\* Opened counts the proxy, replacing a registration left under the same run
\* id and name, and release() gives the read lock back.
Opened(r) ==
    LET name == reg[r].name
        old == registered[r][name]
        new == control[r]
    IN  /\ reg[r].stage = "running"
        /\ registered' = [registered EXCEPT ![r][name] = new]
        /\ proxyCounts' = AddOne(IF old = NoLease THEN proxyCounts
                                 ELSE DropOne(proxyCounts, ClientKey(old)), ClientKey(new))
        /\ leaseProxyCounts' = AddOne(IF old = NoLease THEN leaseProxyCounts
                                      ELSE DropOne(leaseProxyCounts, old), new)
        /\ reg' = [reg EXCEPT ![r] = Idle]
        /\ UNCHANGED <<dbVars, login, control, listeners, gateVars, runtimeLeases>>

\* closeProxy: the listener closes first, on a CloseProxy message or while the
\* control connection is torn down ...
CloseListener(r, n) ==
    /\ reg[r] = Idle
    /\ n \in listeners[r]
    /\ listeners' = [listeners EXCEPT ![r] = @ \ {n}]
    /\ UNCHANGED <<dbVars, login, control, reg, countVars, gateVars, runtimeLeases>>

\* ... and the Closed hook follows.
Closed(r, n) ==
    LET id == registered[r][n]
    IN  /\ id # NoLease
        /\ n \notin listeners[r]
        /\ proxyCounts' = DropOne(proxyCounts, ClientKey(id))
        /\ leaseProxyCounts' = DropOne(leaseProxyCounts, id)
        /\ registered' = [registered EXCEPT ![r][n] = NoLease]
        /\ UNCHANGED <<dbVars, frpsVars, gateVars, runtimeLeases>>

\* A control connection is gone once all its proxies are closed; only then can
\* its run id log in again.
ControlExit(r) ==
    /\ control[r] # NoLease
    /\ reg[r] = Idle
    /\ \A n \in Names : n \notin listeners[r] /\ registered[r][n] = NoLease
    /\ control' = [control EXCEPT ![r] = NoLease]
    /\ UNCHANGED <<dbVars, login, reg, listeners, countVars, gateVars, runtimeLeases>>

-----------------------------------------------------------------------------
(* The gate: callers take the write lock of admissionMu *)

RequestFence(kind) ==
    /\ fence = "none"
    /\ fence' = kind
    /\ UNCHANGED <<dbVars, frpsVars, countVars, runtimeLeases, admissionClosed, draining>>

\* Mutant of SetAdmissionClosed: the flag is set without the write lock.
SetAdmissionClosedUnlocked ==
    /\ fence # "none"
    /\ admissionClosed' = (fence = "close")
    /\ draining' = IF fence = "close"
                   THEN draining \cup {ClientOf[l] : l \in {m \in Leases : runtimeLeases[m] # "unknown"}}
                   ELSE draining
    /\ fence' = "none"
    /\ UNCHANGED <<dbVars, frpsVars, countVars, runtimeLeases>>

SetAdmissionClosed ==
    /\ fence # "none"
    /\ ReadersDone
    /\ admissionClosed' = (fence = "close")
    /\ draining' = IF fence = "close"
                   THEN draining \cup {ClientOf[l] : l \in {m \in Leases : runtimeLeases[m] # "unknown"}}
                   ELSE draining
    /\ fence' = "none"
    /\ UNCHANGED <<dbVars, frpsVars, countVars, runtimeLeases>>

PauseAdmission ==
    /\ ReadersDone
    /\ ~admissionClosed
    /\ admissionClosed' = TRUE
    /\ UNCHANGED <<dbVars, frpsVars, countVars, runtimeLeases, draining, fence>>

\* Mutant of FinishClientDrain: the proxy count is not looked at.
FinishClientDrainUncounted(c) ==
    /\ ReadersDone
    /\ draining' = draining \ {c}
    /\ runtimeLeases' = [l \in Leases |-> IF l \in LeasesOf(c) THEN "unknown" ELSE runtimeLeases[l]]
    /\ UNCHANGED <<dbVars, frpsVars, countVars, admissionClosed, fence>>

FinishClientDrain(c) ==
    /\ ReadersDone
    /\ proxyCounts[c] = 0
    /\ draining' = draining \ {c}
    /\ runtimeLeases' = [l \in Leases |-> IF l \in LeasesOf(c) THEN "unknown" ELSE runtimeLeases[l]]
    /\ UNCHANGED <<dbVars, frpsVars, countVars, admissionClosed, fence>>

\* A ban, logout or release revokes leases in the database ...
RevokeLeases(S) ==
    /\ \E l \in S : leaseStatus[l] = "active"
    /\ leaseStatus' = [l \in Leases |-> IF l \in S THEN "revoked" ELSE leaseStatus[l]]
    /\ terminating' = terminating \cup S
    /\ UNCHANGED <<frpsVars, countVars, gateVars, runtimeLeases>>

\* ... and then in the core, which is when the administrative call returns.
InvalidateRuntime(S) ==
    /\ S # {} /\ S \subseteq terminating
    /\ ReadersDone
    /\ runtimeLeases' = [l \in Leases |-> IF l \in S /\ runtimeLeases[l] # "unknown"
                                          THEN "revoked" ELSE runtimeLeases[l]]
    /\ terminating' = terminating \ S
    /\ UNCHANGED <<leaseStatus, frpsVars, countVars, gateVars>>

\* The leases one such call names: a single lease or all leases of a client.
RevocationScopes == {{l} : l \in Leases} \cup {LeasesOf(c) : c \in Clients}

Next ==
    \/ \E r \in Runs :
          \/ \E l \in Leases : LoginCheck(r, l)
          \/ RememberRuntimeLease(r)
          \/ \E n \in Names : AuthorizeProxy(r, n) \/ CloseListener(r, n) \/ Closed(r, n)
          \/ Begin(r) \/ RunProxy(r) \/ Opened(r) \/ ControlExit(r)
    \/ \E kind \in {"close", "open"} : RequestFence(kind)
    \/ SetAdmissionClosed
    \/ PauseAdmission
    \/ \E c \in Clients : FinishClientDrain(c)
    \/ \E S \in RevocationScopes : RevokeLeases(S) \/ InvalidateRuntime(S)

\* FRPS finishes every registration it began, and the lock is handed over.
Fairness ==
    /\ \A r \in Runs : WF_vars(RunProxy(r)) /\ WF_vars(Opened(r))
    /\ WF_vars(SetAdmissionClosed)

Spec == Init /\ [][Next]_vars /\ Fairness

-----------------------------------------------------------------------------
(* Properties *)

\* Every variable of the core, of FRPS and of the database has its type.
TypeOK ==
    /\ leaseStatus \in [Leases -> {"active", "revoked"}]
    /\ terminating \subseteq Leases
    /\ login \in [Runs -> Leases \cup {NoLease}]
    /\ control \in [Runs -> Leases \cup {NoLease}]
    /\ reg \in [Runs -> [stage : {"idle", "authorized", "begun", "running"}, name : Names \cup {NoName}]]
    /\ listeners \in [Runs -> SUBSET Names]
    /\ runtimeLeases \in [Leases -> {"unknown", "active", "revoked"}]
    /\ admissionClosed \in BOOLEAN
    /\ draining \subseteq Clients
    /\ registered \in [Runs -> [Names -> Leases \cup {NoLease}]]
    /\ proxyCounts \in [Clients \cup {ZeroKey} -> Nat]
    /\ leaseProxyCounts \in [Leases -> Nat]
    /\ fence \in {"none", "close", "open"}

\* The registered proxies, as <<run, name>> pairs, of a set of leases.
ProxiesOf(S) == {k \in Runs \X Names : registered[k[1]][k[2]] \in S}

\* The counters, updated step by step from whatever runtimeLeases says at that
\* moment, always equal the number of registered proxies of the client and of
\* the lease; no proxy is ever charged to the zero client key.
CountsExact ==
    /\ \A c \in Clients : proxyCounts[c] = Cardinality(ProxiesOf(LeasesOf(c)))
    /\ \A l \in Leases : leaseProxyCounts[l] = Cardinality(ProxiesOf({l}))
    /\ proxyCounts[ZeroKey] = 0

\* Once admission is closed, a client whose proxy count is zero has no open
\* listener: "zero cannot race with a successful new registration".
ZeroMeansDrained ==
    admissionClosed =>
        \A r \in Runs : listeners[r] # {} => control[r] # NoLease /\ proxyCounts[ClientOf[control[r]]] > 0

OpensOnlyAdmitted ==
    \A r \in Runs : \/ listeners'[r] \subseteq listeners[r]
                    \/ ~admissionClosed /\ ClientOf[control[r]] \notin draining

\* No step opens a listener for a draining client or on a closed node, however
\* early its request was authorized.
DrainingNeverOpens == [][OpensOnlyAdmitted]_vars

\* A call that closes or reopens admission is not held up for ever by
\* registrations: it gets the write lock.
FenceCompletes == fence # "none" ~> fence = "none"

\* ExistingRuntime: the lease may keep forwarding through an outage.
ExistingRuntime(l) == runtimeLeases[l] = "active"

\* "An explicit ban/logout must not be revived by a later outage fallback":
\* once the revoking call has returned, the core no longer vouches for the
\* lease.
RevokedNotRevived ==
    \A l \in Leases : leaseStatus[l] = "revoked" /\ l \notin terminating => ~ExistingRuntime(l)
=============================================================================
