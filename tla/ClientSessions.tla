--------------------------- MODULE ClientSessions ---------------------------
(***************************************************************************)
(* Desktop clients of one node: presence, runtime leases with the remote   *)
(* ports they reserve, and the commands queued for a client. The same HTTP *)
(* handlers serve both modes of the program: a controller keeps its tables *)
(* in MySQL and its administrators change accounts directly; an edge keeps *)
(* them in SQLite, receives accounts as identity snapshots and forgets     *)
(* them on every reconnection.                                             *)
(*                                                                         *)
(* Actors: HTTP requests (each several database statements long, only      *)
(* bootstrap and release holding bootstrapMu), the heartbeat watchdog, the *)
(* administrator or the synchronisation stream, the clock, and process     *)
(* restarts. Every client belongs to one account, a user with its token;   *)
(* rows of different tokens meet in the lease tables exactly as rows of    *)
(* different clients do. A controller's database faults are in NodeFault.  *)
(***************************************************************************)
EXTENDS Integers, FiniteSets

CONSTANTS
    Clients,      \* devices: (token_id, client_id) of a clients row
    Requests,     \* HTTP requests that can be in flight at once
    Watchdog,     \* the heartbeat watchdog's goroutine
    Modes,        \* values of Config.Mode
    Ports,        \* remote ports a client may ask for
    NodePorts,    \* node.port_range_start .. node.port_range_end
    Reserved,     \* ports of the node's own listeners
    Policies,     \* resource policies (with the token's grants) that may be saved
    Commands,     \* commands an administrator may queue
    CommandOf,    \* the client each command is addressed to
    Terminating,  \* the commands that are stop_frpc or reauth
    NoClient,     \* absence of a client
    MaxLeases,    \* bound: leases ever issued
    MaxChanges,   \* bound: changes of the account, its policy and client rows
    MaxRestarts   \* bound: process restarts and edge reconnections

LeaseIds == 1..MaxLeases

ASSUME ClientSessionsAssumption ==
    /\ NoClient \notin Clients /\ Watchdog \notin Requests
    /\ Modes \subseteq {"controller", "edge"}
    /\ Terminating \subseteq Commands /\ CommandOf \in [Commands -> Clients]
    /\ MaxLeases \in Nat /\ MaxChanges \in Nat /\ MaxRestarts \in Nat

VARIABLES
    mode,      \* Config.Mode, fixed for the life of the process
    account,   \* the node's rows for the user and its access token
    sync,      \* edge: how far the identity cache is rebuilt
    policy,    \* user_resource_policies and port grants, or their cached copies
    client,    \* clients / edge_clients
    drains,    \* clients the fault handling is draining
    known,     \* fault.clients: clients authenticated by this process
    lease,     \* runtime_leases with their allocations
    issued,    \* leases issued so far
    cmd,       \* client_commands / edge_client_commands
    got,       \* commands a client has received and will acknowledge
    req,       \* per goroutine, the handler it runs and how far it is
    mutex,     \* the request holding bootstrapMu, Watchdog when it is free
    changes, restarts

identityVars == <<account, sync, policy>>
presenceVars == <<client, drains, known>>
leaseVars == <<lease, issued>>
commandVars == <<cmd, got>>
budget == <<changes, restarts>>
vars == <<mode, identityVars, presenceVars, leaseVars, commandVars, req, mutex, budget>>

Goroutines == Requests \cup {Watchdog}
Idle == [op |-> "idle", client |-> NoClient, ports |-> {}, todo |-> {}]
NoLease == [status |-> "none", client |-> NoClient, ports |-> {}, expired |-> FALSE, issuer |-> 0]
\* A revoked or deleted row: nothing reads it again, no statement revives it.
GoneLease == [NoLease EXCEPT !.status = "gone"]
NoRow == [status |-> "none", seen |-> "null"]
NewRow == [status |-> "active", seen |-> "null"]
Stages == {"idle", "allocate", "insert", "terminate", "sweep", "delete", "clear"}

Init ==
    /\ mode \in Modes
    /\ account = [known |-> mode = "controller", user |-> "active", token |-> "active", hash |-> 0]
    /\ sync = IF mode = "edge" THEN "empty" ELSE "ready"
    /\ policy \in Policies
    /\ client = [c \in Clients |-> NoRow] /\ drains = {} /\ known = {}
    /\ lease = [l \in LeaseIds |-> NoLease] /\ issued = 0
    /\ cmd = [k \in Commands |-> "none"] /\ got = {}
    /\ req = [g \in Goroutines |-> Idle] /\ mutex = Watchdog
    /\ changes = 0 /\ restarts = 0

-----------------------------------------------------------------------------
(* Rows and checks shared by the handlers. *)

Controller == mode = "controller"
Edge == mode = "edge"

Live(l) == lease[l].status = "active"
Holds(l) == IF Live(l) /\ ~lease[l].expired THEN lease[l].ports ELSE {}
LeasesOf(c) == {l \in LeaseIds : lease[l].client = c}
Fresh(c) == client[c].seen = "fresh"
Unacknowledged(c) == {k \in Commands : CommandOf[k] = c /\ cmd[k] \in {"queued", "delivered"}}

\* edgeOnlineForNewSessions: no new sessions before the identity cache is rebuilt.
EdgeOnline == Edge /\ sync = "ready"
nodeUnavailable == Edge /\ ~EdgeOnline

\* What the account's rows must say; an account that is unknown has none.
ValidAccount == account.known /\ account.user = "active" /\ account.token = "active"

\* FindOrCreateClient: a missing row is inserted.
FoundOrCreated(c) == IF client[c].status = "none" THEN NewRow ELSE client[c]
\* validateAccessTokenRequest on a controller, with and without creating the row.
AdmittedClient(c) == ValidAccount /\ client[c].status # "banned"
ExistingClient(c) == ValidAccount /\ client[c].status = "active"
\* edgeCredential; nothing bans an edge's client rows.
EdgeCredential(c, create) == ValidAccount /\ (create \/ client[c].status = "active")

\* RemotePortInUseExceptClient
PortInUse(p, c) == \E l \in LeaseIds : lease[l].client # c /\ p \in Holds(l)
\* intersectNodePortRange, validateNodeRemotePort: the node's range without its listeners.
NodePort(p) == p \in NodePorts /\ p \in policy.ports /\ p \notin Reserved
\* matchesAnyGrant; a token without grants is limited by the policy alone.
Granted(p) == policy.grants = {} \/ p \in policy.grants

ValidateBootstrapProxies(c, ps) ==
    /\ ps # {} /\ policy.enabled /\ Cardinality(ps) <= policy.max
    /\ \A p \in ps : NodePort(p) /\ ~PortInUse(p, c) /\ Granted(p)
ValidateEdgeProxies(c, ps) ==
    /\ ps # {} /\ policy.enabled /\ Cardinality(ps) <= policy.max
    /\ \A p \in ps : NodePort(p) /\ ~PortInUse(p, c) /\ Granted(p)

\* UPDATE runtime_leases SET status='revoked' WHERE ... AND status='active'
Revoked(ls) == [l \in LeaseIds |-> IF Live(l) /\ l \in ls THEN GoneLease ELSE lease[l]]

\* RevokeActiveRuntimeLeasesForClient / RevokeClient
RevokeClient(c) == lease' = Revoked(LeasesOf(c)) /\ UNCHANGED issued

Finish(g) == req' = [req EXCEPT ![g] = Idle]
Continue(g, op, c, todo) == req' = [req EXCEPT ![g] = [op |-> op, client |-> c, ports |-> {}, todo |-> todo]]

-----------------------------------------------------------------------------
(* Requests of a client. *)

\* A login: rememberClient ends the client's draining when FRPS holds no proxy of
\* it (idle); presence is saved only under an enabled policy.
Login(c) ==
    /\ known' = known \cup {c}
    /\ \E idle \in BOOLEAN : drains' = IF idle THEN drains \ {c} ELSE drains
    /\ client' = [client EXCEPT ![c] =
                    IF policy.enabled THEN [FoundOrCreated(c) EXCEPT !.seen = "fresh"] ELSE FoundOrCreated(c)]
    /\ UNCHANGED <<mode, identityVars, leaseVars, commandVars, req, mutex, budget>>

ClientResourcePolicy(c) == Controller /\ AdmittedClient(c) /\ Login(c)
EdgeClientResourcePolicy(c) == EdgeOnline /\ EdgeCredential(c, TRUE) /\ Login(c)

\* A draining client, or any known client of an edge that is not ready, only has
\* its presence saved, and is draining from now on.
FaultHeartbeat(c) ==
    /\ c \in known
    /\ c \in drains \/ nodeUnavailable
    /\ drains' = drains \cup {c}
    /\ client' = [client EXCEPT ![c].seen = IF client[c].status = "none" THEN @ ELSE "fresh"]
    /\ UNCHANGED <<mode, identityVars, known, leaseVars, commandVars, req, mutex, budget>>

\* Mutant of PopQueuedClientCommands: what was delivered once is not sent again.
PopOnlyQueued(c) == {k \in Unacknowledged(c) : cmd[k] = "queued"}

\* What the answer to a heartbeat carries: all the client has not acknowledged.
PopQueuedClientCommands(c) == Unacknowledged(c)

\* Presence, then the commands; what was queued becomes delivered. When the
\* connection breaks before the client reads the answer, heard is FALSE.
Heartbeat(c, heard) ==
    /\ c \notin drains
    /\ client' = [client EXCEPT ![c] = [FoundOrCreated(c) EXCEPT !.seen = "fresh"]]
    /\ known' = known \cup {c}
    /\ cmd' = [k \in Commands |-> IF k \in Unacknowledged(c) THEN "delivered" ELSE cmd[k]]
    /\ got' = IF heard THEN got \cup PopQueuedClientCommands(c) ELSE got
    /\ UNCHANGED <<mode, identityVars, drains, leaseVars, req, mutex, budget>>

ClientHeartbeat(c, heard) == Controller /\ AdmittedClient(c) /\ Heartbeat(c, heard)
EdgeClientHeartbeat(c, heard) == EdgeOnline /\ EdgeCredential(c, TRUE) /\ Heartbeat(c, heard)

\* A command that was withdrawn in the meantime answers "not found".
Acknowledge(k) ==
    /\ k \in got
    /\ cmd' = [cmd EXCEPT ![k] = IF @ \in {"queued", "delivered"} THEN "acknowledged" ELSE @]
    /\ got' = got \ {k}
    /\ known' = known \cup {CommandOf[k]}
    /\ UNCHANGED <<mode, identityVars, client, drains, leaseVars, req, mutex, budget>>

ClientCommandACK(k) == Controller /\ ExistingClient(CommandOf[k]) /\ Acknowledge(k)
EdgeClientCommandACK(k) == Edge /\ EdgeCredential(CommandOf[k], FALSE) /\ Acknowledge(k)

\* Mutant of LockBootstrap: bootstrap requests do not exclude each other.
LockBootstrapNot(r) == mutex' = r

\* bootstrapMu.Lock() and, on every return, Unlock().
LockBootstrap(r) == mutex = Watchdog /\ mutex' = r
UnlockBootstrap == mutex' = Watchdog

\* Credentials, heartbeat and proxies are checked; the lease is inserted later.
Admit(r, c, ps) ==
    /\ req[r] = Idle /\ LockBootstrap(r)
    /\ c \notin drains /\ Fresh(c)
    /\ known' = known \cup {c}
    /\ req' = [req EXCEPT ![r] = [op |-> "allocate", client |-> c, ports |-> ps, todo |-> {}]]
    /\ UNCHANGED <<mode, identityVars, client, drains, leaseVars, commandVars, budget>>

ClientBootstrap(r, c, ps) ==
    Controller /\ ExistingClient(c) /\ ValidateBootstrapProxies(c, ps) /\ Admit(r, c, ps)
EdgeClientBootstrap(r, c, ps) ==
    EdgeOnline /\ EdgeCredential(c, FALSE) /\ ValidateEdgeProxies(c, ps) /\ Admit(r, c, ps)

\* A controller answers a bootstrap of a silent client by terminating its runtime.
BootstrapStale(c) ==
    /\ Controller /\ mutex = Watchdog
    /\ ExistingClient(c) /\ c \notin drains /\ ~Fresh(c)
    /\ known' = known \cup {c}
    /\ RevokeClient(c)
    /\ UNCHANGED <<mode, identityVars, client, drains, commandVars, req, mutex, budget>>

\* Mutant of Insert: the client's earlier leases stay active.
InsertKeepsOld(r) ==
    /\ issued < MaxLeases /\ issued' = issued + 1
    /\ lease' = [lease EXCEPT ![issued + 1] =
                   [status |-> "active", client |-> req[r].client, ports |-> req[r].ports,
                    expired |-> FALSE, issuer |-> account.hash]]

\* The transaction that issues a lease; an edge records the cached token hash with it.
Insert(r) ==
    /\ issued < MaxLeases /\ issued' = issued + 1
    /\ lease' = [Revoked(LeasesOf(req[r].client)) EXCEPT ![issued + 1] =
                   [status |-> "active", client |-> req[r].client, ports |-> req[r].ports,
                    expired |-> FALSE, issuer |-> account.hash]]

\* It fails when the account is gone: by the foreign keys of the controller's table.
CreateRuntimeLease(r) ==
    /\ Controller /\ req[r].op = "allocate"
    /\ IF account.known THEN Insert(r) ELSE UNCHANGED leaseVars
    /\ Finish(r) /\ UnlockBootstrap
    /\ UNCHANGED <<mode, identityVars, presenceVars, commandVars, budget>>

\* Edge CreateLease, before its transaction: no lease while a reset is pending.
CheckReset(r) ==
    /\ Edge /\ req[r].op = "allocate"
    /\ IF sync = "ready"
       THEN req' = [req EXCEPT ![r].op = "insert"] /\ UNCHANGED mutex
       ELSE Finish(r) /\ UnlockBootstrap
    /\ UNCHANGED <<mode, identityVars, presenceVars, leaseVars, commandVars, budget>>

\* The transaction fails when no cached token is left for the lease_issuers row.
CreateLease(r) ==
    /\ req[r].op = "insert"
    /\ IF account.known THEN Insert(r) ELSE UNCHANGED leaseVars
    /\ Finish(r) /\ UnlockBootstrap
    /\ UNCHANGED <<mode, identityVars, presenceVars, commandVars, budget>>

\* releaseClientLease: one lease, by its id, of the client that presents it.
ReleaseLease(c, l) ==
    /\ mutex = Watchdog
    /\ IF Edge THEN EdgeCredential(c, FALSE) ELSE ExistingClient(c)
    /\ Live(l) /\ lease[l].client = c
    /\ lease' = Revoked({l})
    /\ known' = known \cup {c}
    /\ UNCHANGED <<mode, identityVars, client, drains, issued, commandVars, req, mutex, budget>>

\* A logout up to the revocation; then DeleteCommands and ClearPresence.
Logout(r, c) ==
    /\ req[r] = Idle
    /\ RevokeClient(c)
    /\ known' = known \cup {c}
    /\ Continue(r, "delete", c, {})
    /\ UNCHANGED <<mode, identityVars, client, drains, commandVars, mutex, budget>>

ClientLogout(r, c) == Controller /\ ExistingClient(c) /\ Logout(r, c)
EdgeClientLogout(r, c) == Edge /\ EdgeCredential(c, FALSE) /\ Logout(r, c)

-----------------------------------------------------------------------------
(* The heartbeat watchdog. *)

\* Mutant of ListClientsWithStaleHeartbeat: cleared presence is not looked at.
ListOnlyOldHeartbeats == {c \in Clients : client[c].status = "active" /\ client[c].seen = "stale"}

\* On a controller a row without presence is listed only if it has something to lose.
ListClientsWithStaleHeartbeat ==
    {c \in Clients :
        /\ client[c].status = "active"
        /\ \/ client[c].seen = "stale"
           \/ client[c].seen = "null" /\ (Unacknowledged(c) # {} \/ \E l \in LeasesOf(c) : Live(l))}
StaleClients == {c \in Clients : client[c].status = "active" /\ client[c].seen \in {"null", "stale"}}

\* enforceClientHeartbeatTimeout: the list is read once.
BeginSweep ==
    LET stale == IF Edge THEN StaleClients ELSE ListClientsWithStaleHeartbeat IN
    /\ req[Watchdog] = Idle
    /\ ~nodeUnavailable
    /\ stale # {}
    /\ Continue(Watchdog, "sweep", NoClient, stale)
    /\ UNCHANGED <<mode, identityVars, presenceVars, leaseVars, commandVars, mutex, budget>>

\* The next client of the list: skipped while it drains, else its leases go first.
SweepClient(g, c) ==
    LET rest == req[g].todo \ {c} IN
    /\ req[g].op = "sweep" /\ c \in req[g].todo
    /\ IF c \in drains
       THEN Continue(g, IF rest = {} THEN "idle" ELSE "sweep", NoClient, rest) /\ UNCHANGED leaseVars
       ELSE Continue(g, "delete", c, rest) /\ RevokeClient(c)
    /\ UNCHANGED <<mode, identityVars, presenceVars, commandVars, mutex, budget>>

\* DeleteQueuedClientCommands / DeleteUnacknowledgedClientCommands
DeleteCommands(g) ==
    LET c == req[g].client IN
    /\ req[g].op = "delete"
    /\ cmd' = [k \in Commands |-> IF k \in Unacknowledged(c) THEN "deleted" ELSE cmd[k]]
    /\ Continue(g, "clear", c, req[g].todo)
    /\ UNCHANGED <<mode, identityVars, presenceVars, leaseVars, got, mutex, budget>>

\* ClearClientPresence / ClearClient
ClearPresence(g) ==
    LET c == req[g].client IN
    /\ req[g].op = "clear"
    /\ client' = [client EXCEPT ![c].seen = "null"]
    /\ Continue(g, IF req[g].todo = {} THEN "idle" ELSE "sweep", NoClient, req[g].todo)
    /\ UNCHANGED <<mode, identityVars, drains, known, leaseVars, commandVars, mutex, budget>>

-----------------------------------------------------------------------------
(* Administrators: on the controller through its API, on an edge through the *)
(* commands its controller sends.                                            *)

\* enqueueClientCommand; stop_frpc and reauth then terminate the runtime.
EnqueueClientCommand(r, k) ==
    /\ Controller /\ req[r] = Idle
    /\ cmd[k] = "none" /\ client[CommandOf[k]].status # "none"
    /\ cmd' = [cmd EXCEPT ![k] = "queued"]
    /\ IF k \in Terminating THEN Continue(r, "terminate", CommandOf[k], {}) ELSE UNCHANGED req
    /\ UNCHANGED <<mode, identityVars, presenceVars, leaseVars, got, mutex, budget>>

TerminateRuntime(r) ==
    /\ req[r].op = "terminate"
    /\ RevokeClient(req[r].client)
    /\ Finish(r)
    /\ UNCHANGED <<mode, identityVars, presenceVars, commandVars, mutex, budget>>

\* DisconnectClientForCommand: revocation and reauth message in one transaction.
DisconnectClient(k) ==
    /\ Edge /\ k \in Terminating
    /\ cmd[k] = "none" /\ client[CommandOf[k]].status # "none"
    /\ cmd' = [cmd EXCEPT ![k] = "queued"]
    /\ RevokeClient(CommandOf[k])
    /\ UNCHANGED <<mode, identityVars, presenceVars, got, req, mutex, budget>>

Change == changes < MaxChanges /\ changes' = changes + 1 /\ UNCHANGED restarts
AccountChange ==
    /\ Controller /\ account.known /\ Change
    /\ UNCHANGED <<mode, sync, presenceVars, leaseVars, commandVars, req, mutex>>

\* banUser / unbanUser, banToken / unbanToken, rotateToken: leases stay as they are.
SetUserStatus(s) == account' = [account EXCEPT !.user = s] /\ account' # account /\ UNCHANGED policy /\ AccountChange
SetAccessTokenStatus(s) == account' = [account EXCEPT !.token = s] /\ account' # account /\ UNCHANGED policy /\ AccountChange
RotateAccessToken ==
    account' = [known |-> TRUE, user |-> account.user, token |-> "active", hash |-> account.hash + 1] /\ UNCHANGED policy /\ AccountChange
\* updateUserPolicy, createGrant
UpsertUserResourcePolicy(p) == policy' = p /\ p # policy /\ UNCHANGED account /\ AccountChange

\* banClient / unbanClient
SetClientStatus(c, s) ==
    /\ Controller /\ Change
    /\ client[c].status \notin {"none", s}
    /\ client' = [client EXCEPT ![c].status = s]
    /\ UNCHANGED <<mode, identityVars, drains, known, leaseVars, commandVars, req, mutex>>

\* deleteClient: the rows of the client, in one transaction.
DeleteClient(c) ==
    /\ Controller /\ Change
    /\ client[c].status # "none"
    /\ client' = [client EXCEPT ![c] = NoRow]
    /\ lease' = Revoked(LeasesOf(c))
    /\ cmd' = [k \in Commands |-> IF CommandOf[k] = c /\ cmd[k] # "none" THEN "deleted" ELSE cmd[k]]
    /\ UNCHANGED <<mode, identityVars, drains, known, issued, got, req, mutex>>

\* deleteUser: the account with everything it owns.
DeleteUser ==
    /\ Controller /\ Change
    /\ account.known
    /\ account' = [account EXCEPT !.known = FALSE]
    /\ client' = [c \in Clients |-> NoRow]
    /\ lease' = Revoked(LeaseIds)
    /\ cmd' = [k \in Commands |-> IF cmd[k] # "none" THEN "deleted" ELSE cmd[k]]
    /\ UNCHANGED <<mode, sync, policy, drains, known, issued, got, req, mutex>>

-----------------------------------------------------------------------------
(* An edge's identity cache. *)

\* identityResetPending.Store(true), after the fault transition that drains every
\* client this process knows.
BeginReset ==
    /\ Edge /\ sync = "ready" /\ restarts < MaxRestarts
    /\ sync' = "resetting" /\ restarts' = restarts + 1
    /\ drains' = drains \cup known
    /\ UNCHANGED <<mode, account, policy, client, known, leaseVars, commandVars, req, mutex, changes>>

\* The transaction of resetIdentityCache(boot = false).
DiscardIdentityCache ==
    /\ sync = "resetting"
    /\ sync' = "empty" /\ account' = [account EXCEPT !.known = FALSE]
    /\ UNCHANGED <<mode, policy, presenceVars, leaseVars, commandVars, req, mutex, budget>>

\* Mutant of ApplyIdentity: the hash a lease was issued under is not compared.
ApplyIdentityUnissued(a, p) ==
    /\ account' = a /\ policy' = p
    /\ lease' = Revoked({l \in LeaseIds :
                    \/ a.user # "active" \/ a.token # "active" \/ ~p.enabled
                    \/ account.known /\ a.hash # account.hash})
    /\ UNCHANGED issued

\* ApplyIdentitySnapshot: the account as the controller has it now, and the leases
\* it no longer justifies revoked, in one transaction.
ApplyIdentity(a, p) ==
    /\ account' = a /\ policy' = p
    /\ lease' = Revoked({l \in LeaseIds :
                    \/ a.user # "active" \/ a.token # "active" \/ ~p.enabled
                    \/ account.known /\ a.hash # account.hash
                    \/ lease[l].issuer # a.hash})
    /\ UNCHANGED issued

Snapshots == [known : {TRUE}, user : {"active", "banned"}, token : {"active", "banned"},
              hash : account.hash .. account.hash + 1]

\* The baseline of a reconnection; CompleteBaseline is its Store(false).
ApplyBaseline(a, p) ==
    /\ sync = "empty" /\ a \in Snapshots
    /\ IF a.hash = account.hash /\ a.user = account.user /\ a.token = account.token /\ p = policy
       THEN UNCHANGED budget ELSE Change
    /\ ApplyIdentity(a, p)
    /\ sync' = "applied"
    /\ UNCHANGED <<mode, presenceVars, commandVars, req, mutex>>

CompleteBaseline ==
    /\ sync = "applied" /\ sync' = "ready"
    /\ UNCHANGED <<mode, account, policy, presenceVars, leaseVars, commandVars, req, mutex, budget>>

\* A later change of the account, pushed while the edge is connected.
ApplyIncremental(a, p) ==
    /\ Edge /\ sync = "ready" /\ a \in Snapshots /\ Change
    /\ ApplyIdentity(a, p)
    /\ UNCHANGED <<mode, sync, presenceVars, commandVars, req, mutex>>

-----------------------------------------------------------------------------
(* The clock and the process. *)

\* Sixty seconds without a heartbeat.
HeartbeatTimeout(c) ==
    /\ Fresh(c)
    /\ client' = [client EXCEPT ![c].seen = "stale"]
    /\ UNCHANGED <<mode, identityVars, drains, known, leaseVars, commandVars, req, mutex, budget>>

\* RuntimeTokenTTL is over.
ExpireLease(l) ==
    /\ Live(l) /\ ~lease[l].expired
    /\ lease' = [lease EXCEPT ![l].expired = TRUE]
    /\ UNCHANGED <<mode, identityVars, presenceVars, issued, commandVars, req, mutex, budget>>

\* The process is restarted: requests are gone and so is the fault memory. An edge
\* boots with resetIdentityCache(boot = true).
Restart ==
    /\ restarts < MaxRestarts /\ restarts' = restarts + 1
    /\ req' = [g \in Goroutines |-> Idle] /\ mutex' = Watchdog
    /\ drains' = {} /\ known' = {}
    /\ IF Edge
       THEN /\ sync' = "empty" /\ account' = [account EXCEPT !.known = FALSE]
            /\ lease' = Revoked(LeaseIds)
            /\ cmd' = [k \in Commands |-> IF cmd[k] = "none" THEN "none" ELSE "deleted"]
            /\ client' = [c \in Clients |-> [client[c] EXCEPT !.seen = "null"]]
       ELSE UNCHANGED <<sync, account, lease, cmd, client>>
    /\ UNCHANGED <<mode, policy, issued, got, changes>>

-----------------------------------------------------------------------------

ClientRequest(r) ==
    \/ \E c \in Clients : ClientLogout(r, c) \/ EdgeClientLogout(r, c)
    \/ \E c \in Clients, ps \in SUBSET Ports : ClientBootstrap(r, c, ps) \/ EdgeClientBootstrap(r, c, ps)
    \/ \E k \in Commands : EnqueueClientCommand(r, k)

\* The remaining statements of a handler that has begun.
Step(g) ==
    \/ CheckReset(g) \/ CreateRuntimeLease(g) \/ CreateLease(g)
    \/ TerminateRuntime(g) \/ DeleteCommands(g) \/ ClearPresence(g)
    \/ \E c \in Clients : SweepClient(g, c)

ResourcePolicy(c) == ClientResourcePolicy(c) \/ EdgeClientResourcePolicy(c)
SomeHeartbeat(c, heard) == ClientHeartbeat(c, heard) \/ EdgeClientHeartbeat(c, heard)
CommandACK(k) == ClientCommandACK(k) \/ EdgeClientCommandACK(k)

Administration ==
    \/ \E s \in {"active", "banned"} : SetUserStatus(s) \/ SetAccessTokenStatus(s)
    \/ RotateAccessToken \/ DeleteUser
    \/ \E p \in Policies : UpsertUserResourcePolicy(p)
    \/ \E c \in Clients : DeleteClient(c) \/ \E s \in {"active", "banned"} : SetClientStatus(c, s)
    \/ \E k \in Commands : DisconnectClient(k)

Synchronisation ==
    \/ BeginReset \/ DiscardIdentityCache \/ CompleteBaseline
    \/ \E a \in Snapshots, p \in Policies : ApplyBaseline(a, p) \/ ApplyIncremental(a, p)

Next ==
    \/ \E r \in Requests : ClientRequest(r)
    \/ BeginSweep \/ \E g \in Goroutines : Step(g)
    \/ \E c \in Clients : \/ \E heard \in BOOLEAN : SomeHeartbeat(c, heard)
                          \/ BootstrapStale(c) \/ ResourcePolicy(c) \/ FaultHeartbeat(c) \/ HeartbeatTimeout(c)
                          \/ \E l \in LeaseIds : ReleaseLease(c, l)
    \/ \E k \in Commands : CommandACK(k)
    \/ Administration \/ Synchronisation
    \/ \E l \in LeaseIds : ExpireLease(l)
    \/ Restart

\* Handlers run to their end, the watchdog ticks, the synchronisation stream makes
\* progress, silence is noticed; a client that goes on reading answers reads one in
\* the end and acknowledges what it read. Nothing makes a client send a request, but
\* one that logs in again and again also sends heartbeats.
Fairness ==
    /\ \A g \in Goroutines : WF_vars(Step(g))
    /\ WF_vars(BeginSweep)
    /\ WF_vars(DiscardIdentityCache) /\ WF_vars(CompleteBaseline)
    /\ WF_vars(\E a \in Snapshots, p \in Policies : ApplyBaseline(a, p))
    /\ \A c \in Clients :
        /\ WF_vars(HeartbeatTimeout(c))
        /\ []<><<ResourcePolicy(c)>>_vars =>
              []<><<FaultHeartbeat(c) \/ \E heard \in BOOLEAN : SomeHeartbeat(c, heard)>>_vars
        /\ []<><<SomeHeartbeat(c, FALSE)>>_vars => []<><<SomeHeartbeat(c, TRUE)>>_vars
    /\ \A k \in Commands : WF_vars(CommandACK(k))

Spec == Init /\ [][Next]_vars
FairSpec == Spec /\ Fairness

-----------------------------------------------------------------------------
(* Properties. *)

\* No remote port is reserved by two leases that are active and not expired, and
\* none is a port of the node's own listeners, whatever requests, sweeps, restarts
\* and identity changes interleave: bootstrap checks the ports and inserts the lease
\* in two steps, under bootstrapMu.
PortExclusive ==
    /\ \A l \in LeaseIds : Holds(l) \cap Reserved = {}
    /\ \A l, m \in LeaseIds : l # m => Holds(l) \cap Holds(m) = {}

\* A device never holds two active leases: issuing one revokes its predecessors in
\* the same transaction, whichever handler was terminating the client meanwhile.
OneLease ==
    \A l, m \in LeaseIds : Live(l) /\ Live(m) /\ lease[l].client = lease[m].client => l = m

\* On an edge whose cache is complete, every active lease was issued under the
\* token hash the cache holds now: neither a rotation pushed while connected nor
\* one that happened while the edge was cut off leaves a lease of the old token.
IssuerCurrent ==
    EdgeOnline => \A l \in LeaseIds : Live(l) => lease[l].issuer = account.hash

\* The lease of a client that stays silent on a working node is not kept: the
\* watchdog revokes it, unless the client is heard again, is being drained, is
\* banned or deleted, or the node itself goes down.
SilentClientSwept ==
    \A c \in Clients :
        (client[c].status = "active" /\ ~Fresh(c) /\ c \notin drains /\ \E l \in LeasesOf(c) : Live(l))
        ~> \/ \A l \in LeasesOf(c) : ~Live(l)
           \/ Fresh(c) \/ c \in drains \/ client[c].status # "active"

\* A command queued for an active client is acknowledged by it or withdrawn when
\* the client goes silent or logs out, even when heartbeat answers carrying it are
\* lost, unless the client is banned, deleted or drained.
CommandSettled ==
    \A k \in Commands :
        cmd[k] = "queued" ~> \/ cmd[k] \in {"acknowledged", "deleted"}
                             \/ CommandOf[k] \in drains \/ client[CommandOf[k]].status # "active"
=============================================================================
