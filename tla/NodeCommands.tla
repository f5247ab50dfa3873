----------------------------- MODULE NodeCommands -----------------------------
(***************************************************************************)
(* The commands an administrator sends to one edge node.  The controller    *)
(* keeps a durable row per command and sends it again until a result is     *)
(* stored; the edge keeps a durable record per command so that a copy is     *)
(* answered from the record, and executes the steps of a command one after   *)
(* the other, any of which may be the last one before the stream breaks, a   *)
(* SQL statement fails or the process dies.                                  *)
(*                                                                         *)
(* Configs    update_edge_runtime_settings, with a revision of its own       *)
(* Blocks     block_ip and Unblocks unblock_ip, of one address               *)
(* Kicks      disconnect_client, of one client                               *)
(* Cuts       disconnect_connection, each of a connection of its own         *)
(***************************************************************************)
EXTENDS Naturals, Sequences, FiniteSets, FiniteSetsExt, Functions

CONSTANTS Configs, Blocks, Unblocks, Kicks, Cuts,
          None,        \* no effect recorded, or an idle worker
          Workloads,   \* bound: the sets of commands sent in one behaviour; clients log in where one kicks
          MaxFaults,   \* failing statements, broken streams, crashes, dropped results
          MaxLeases,   \* leases the client takes
          MaxCopies    \* copies of one command and its results in transit

Commands == Configs \cup Blocks \cup Unblocks \cup Kicks \cup Cuts

ASSUME CommandsAssumption ==
  /\ IsFiniteSet(Commands)
  /\ Configs \cap (Blocks \cup Unblocks \cup Kicks \cup Cuts) = {} /\ Blocks \cap (Unblocks \cup Kicks \cup Cuts) = {}
  /\ Unblocks \cap (Kicks \cup Cuts) = {} /\ Kicks \cap Cuts = {}
  /\ Workloads \subseteq SUBSET Commands
  /\ MaxFaults \in Nat /\ MaxLeases \in Nat /\ MaxCopies \in Nat
  /\ \A S \in SUBSET (1..MaxLeases) : None # S

VARIABLES
  row,       \* node_commands.status at the controller ("none": no row)
  rev,       \* _configuration_revision of a configuration command (0: none yet)
  nextRev,   \* the revision sequence
  order,     \* the rows by created_at
  unsent,    \* commands whose handler has stored the row and not sent it yet
  batch,     \* what dispatchPendingCommands has listed and not sent yet
  waiting,   \* commands whose handler stores the awaited result itself
  catalog,   \* the revision whose settings edge_nodes shows
  link,      \* the stream is up
  down, up,  \* commands and results in transit
  received,  \* received_commands.status at the edge
  skipped,   \* the stored result says "superseded"
  work,      \* what the auxiliary worker executes
  applied,   \* configuration_revisions: the confirmed revision
  file,      \* the revision of the settings in the configuration file
  allowed,   \* RemoteCommands of the edge: the edge accepts commands
  denied,    \* a command was refused or could not be written (for the properties)
  blocked,   \* the address is in blocked_inbound_ips
  active,    \* active rows of runtime_leases of the client
  core,      \* leases the FRP core vouches for
  leases,    \* number of leases issued so far
  effects,   \* command_disconnect_effects
  reauths,   \* reauth messages enqueued on behalf of a kick
  open,      \* cuts whose connection is open
  took,      \* commands whose effect has taken place (for the properties)
  faults

controllerVars == <<row, rev, nextRev, order, unsent, batch, waiting, catalog>>
streamVars == <<link, down, up>>
recordVars == <<received, skipped, work>>
stateVars == <<applied, file, allowed, denied, blocked, active, core, leases, effects, reauths, open, took>>
vars == <<controllerVars, streamVars, recordVars, stateVars, faults>>

Finished == {"succeeded", "failed"}
Waited == Kicks \cup Cuts
Steps == {"begin", "check", "effect", "core", "confirm", "finish"}

Init ==
  /\ row = [c \in Commands |-> "none"]
  /\ rev = [c \in Configs |-> 0]
  /\ nextRev = 1
  /\ order = <<>> /\ unsent = {} /\ batch = {} /\ waiting = {}
  /\ catalog = 0
  /\ link = FALSE /\ down = <<>> /\ up = <<>>
  /\ received = [c \in Commands |-> "none"]
  /\ skipped = {}
  /\ work = None
  /\ applied = 0 /\ file = 0
  /\ allowed = TRUE /\ denied = FALSE
  /\ blocked = FALSE
  /\ active = {} /\ core = {} /\ leases = 0
  /\ effects = [c \in Kicks |-> None]
  /\ reauths = [c \in Kicks |-> 0]
  /\ open = Cuts
  /\ took = {}
  /\ faults = 0

Fault == faults < MaxFaults /\ faults' = faults + 1

Chosen == {c \in Commands : row[c] # "none" \/ (c \in Configs /\ rev[c] # 0)}
Fits(cs, logins) == \E w \in Workloads : cs \subseteq w /\ (logins > 0 => w \cap Kicks # {})

-----------------------------------------------------------------------------
(* The administrator's handlers *)

(* queueEdgeConfiguration draws the revision before it stores the row, and two
   handlers may store their rows in the other order. *)
AllocateRevision(c) ==
  /\ c \in Configs /\ rev[c] = 0
  /\ Fits(Chosen \cup {c}, leases)
  /\ rev' = [rev EXCEPT ![c] = nextRev]
  /\ nextRev' = nextRev + 1
  /\ UNCHANGED <<row, order, unsent, batch, waiting, catalog, streamVars, recordVars, stateVars, faults>>

(* CreateNodeCommand.  A command whose result is awaited is refused while the
   node is offline. *)
CreateNodeCommand(c) ==
  /\ row[c] = "none" /\ Fits(Chosen \cup {c}, leases)
  /\ c \in Configs => rev[c] # 0
  /\ c \in Waited => link
  /\ row' = [row EXCEPT ![c] = "pending"]
  /\ order' = Append(order, c)
  /\ unsent' = unsent \cup {c}
  /\ UNCHANGED <<rev, nextRev, batch, waiting, catalog, streamVars, recordVars, stateVars, faults>>

(* Commands and their results in transit, bounded by MaxCopies. *)
Copies(c) == Len(SelectSeq(down, LAMBDA d : d = c)) + Len(SelectSeq(up, LAMBDA m : m.cmd = c))

(* SendCommand and, when it was sent, MarkNodeCommandDelivered. *)
SendCommand(c) ==
  /\ down' = IF link THEN Append(down, c) ELSE down
  /\ row' = IF link /\ row[c] = "pending" THEN [row EXCEPT ![c] = "delivered"] ELSE row
  /\ UNCHANGED <<link, up>>

(* The handler sends the command it stored; for some kinds it then waits. *)
HandlerSends(c) ==
  /\ c \in unsent /\ Copies(c) < MaxCopies
  /\ SendCommand(c)
  /\ unsent' = unsent \ {c}
  /\ waiting' = IF link /\ c \in Waited THEN waiting \cup {c} ELSE waiting
  /\ UNCHANGED <<rev, nextRev, order, batch, catalog, recordVars, stateVars, faults>>

(* Its 8 seconds are over. *)
HandlerGivesUp(c) ==
  /\ c \in waiting
  /\ waiting' = waiting \ {c}
  /\ UNCHANGED <<row, rev, nextRev, order, unsent, batch, catalog, streamVars, recordVars, stateVars, faults>>

-----------------------------------------------------------------------------
(* The controller's dispatcher and result worker *)

ListPendingFresh ==
  /\ link /\ batch = {}
  /\ batch' = {c \in Range(order) : row[c] = "pending"}
  /\ batch' # {}
  /\ UNCHANGED <<row, rev, nextRev, order, unsent, waiting, catalog, streamVars, recordVars, stateVars, faults>>

(* ListPendingNodeCommands, at every connection and every two seconds.  An
   expired command is listed no more, a configuration never expires. *)
ListPending ==
  /\ link /\ batch = {}
  /\ \E expired \in SUBSET (Range(order) \ Configs) :
       batch' = {c \in Range(order) \ expired : row[c] \in {"pending", "delivered"}}
  /\ batch' # {}
  /\ UNCHANGED <<row, rev, nextRev, order, unsent, waiting, catalog, streamVars, recordVars, stateVars, faults>>

(* The loop over the list, oldest first *)
DispatchNext ==
  /\ \E i \in DOMAIN order :
       /\ order[i] \in batch /\ \A j \in 1..(i - 1) : order[j] \notin batch
       /\ Copies(order[i]) < MaxCopies
       /\ SendCommand(order[i])
       /\ batch' = batch \ {order[i]}
  /\ UNCHANGED <<rev, nextRev, order, unsent, waiting, catalog, recordVars, stateVars, faults>>

(* No row that has succeeded has a later revision than c
   (greatestCompletedConfigurationRevision, read after the row is updated). *)
GreatestCompleted(rows, c) == \A d \in Configs : rows[d] = "succeeded" => rev[d] <= rev[c]

CatalogAfterAny(rows, m) == IF m.cmd \in Configs /\ m.status = "succeeded" /\ ~m.superseded THEN rev[m.cmd] ELSE catalog

(* The directory shows the settings of an acknowledged command unless a later
   revision is already acknowledged. *)
CatalogAfter(rows, m) ==
  IF /\ m.cmd \in Configs /\ m.status = "succeeded"
     /\ ~m.superseded /\ GreatestCompleted(rows, m.cmd)
  THEN rev[m.cmd] ELSE catalog

(* CompleteNodeCommand: a finished row stays as it is, "retry" makes it pending. *)
CompleteNodeCommand(m) ==
  IF row[m.cmd] \in Finished THEN UNCHANGED <<row, catalog>>
  ELSE /\ row' = [row EXCEPT ![m.cmd] = IF m.status = "retry" THEN "pending" ELSE m.status]
       /\ catalog' = CatalogAfter(row', m)

(* persistControlData stores a result and hands it to the waiting handler, which
   stores it once more. *)
PersistResult ==
  /\ up # <<>>
  /\ CompleteNodeCommand(Head(up))
  /\ waiting' = waiting \ {Head(up).cmd}
  /\ up' = Tail(up)
  /\ UNCHANGED <<rev, nextRev, order, unsent, batch, link, down, recordVars, stateVars, faults>>

(* The statement fails: the handler is told "retry" and stores that. *)
PersistFails ==
  /\ up # <<>> /\ Fault
  /\ IF Head(up).cmd \in waiting
     THEN CompleteNodeCommand([Head(up) EXCEPT !.status = "retry"])
     ELSE UNCHANGED <<row, catalog>>
  /\ waiting' = waiting \ {Head(up).cmd}
  /\ up' = Tail(up)
  /\ UNCHANGED <<rev, nextRev, order, unsent, batch, link, down, recordVars, stateVars>>

(* The queue of sixteen results is full: the result is dropped and the handler is
   told "failed", which it stores. *)
ResultDropped ==
  /\ up # <<>> /\ Fault
  /\ IF Head(up).cmd \in waiting
     THEN CompleteNodeCommand([Head(up) EXCEPT !.status = "failed"])
     ELSE UNCHANGED <<row, catalog>>
  /\ waiting' = waiting \ {Head(up).cmd}
  /\ up' = Tail(up)
  /\ UNCHANGED <<rev, nextRev, order, unsent, batch, link, down, recordVars, stateVars>>

-----------------------------------------------------------------------------
(* The edge: HandleEdgeCommand, executed by the auxiliary worker *)

TakeCommand ==
  /\ work = None /\ link /\ down # <<>>
  /\ work' = [cmd |-> Head(down), pc |-> "begin", status |-> "failed", superseded |-> FALSE]
  /\ down' = Tail(down)
  /\ UNCHANGED <<controllerVars, link, up, received, skipped, stateVars, faults>>

At(pc) == work # None /\ work.pc = pc
Goto(pc) == work' = [work EXCEPT !.pc = pc]

(* The result goes to the stream of the worker, if that still exists. *)
Reply(status, superseded) ==
  /\ up' = IF link THEN Append(up, [cmd |-> work.cmd, status |-> status, superseded |-> superseded]) ELSE up
  /\ work' = None

BeginCommandOnce ==
  /\ At("begin")
  /\ \/ /\ received[work.cmd] # "none"
        /\ Reply(IF received[work.cmd] = "executing" THEN "failed" ELSE received[work.cmd], work.cmd \in skipped)
        /\ UNCHANGED received
     \/ /\ received[work.cmd] = "none"
        /\ received' = [received EXCEPT ![work.cmd] = "executing"]
        /\ Goto("check")
        /\ UNCHANGED up
  /\ UNCHANGED <<controllerVars, link, down, skipped, stateVars, faults>>

(* BeginCommand: a finished command is answered from its record, an unfinished one
   is executed again. *)
BeginCommand ==
  /\ At("begin")
  /\ \/ /\ received[work.cmd] \in Finished
        /\ Reply(received[work.cmd], work.cmd \in skipped)
        /\ UNCHANGED received
     \/ /\ received[work.cmd] \notin Finished
        /\ received' = [received EXCEPT ![work.cmd] = "executing"]
        /\ Goto("check")
        /\ UNCHANGED up
  /\ UNCHANGED <<controllerVars, link, down, skipped, stateVars, faults>>

SupersededNever(c) == FALSE

(* ConfigurationSuperseded *)
ConfigurationSuperseded(c) == c \in Configs /\ applied > 0 /\ rev[c] < applied

(* A superseded configuration has succeeded without effect; a command of another
   kind may have expired. *)
CheckCommand ==
  /\ At("check")
  /\ \/ /\ ConfigurationSuperseded(work.cmd)
        /\ work' = [work EXCEPT !.pc = "finish", !.status = "succeeded", !.superseded = TRUE]
     \/ /\ ~ConfigurationSuperseded(work.cmd)
        /\ Goto("effect")
     \/ /\ work.cmd \notin Configs
        /\ Goto("finish")
  /\ UNCHANGED <<controllerVars, streamVars, received, skipped, stateVars, faults>>

Succeed(pc) == work' = [work EXCEPT !.pc = pc, !.status = "succeeded"]

(* WriteFileConfig and setRuntime *)
WriteSettings ==
  /\ work.cmd \in Configs
  /\ file' = rev[work.cmd]
  /\ Succeed("confirm")
  /\ UNCHANGED <<blocked, active, leases, effects, reauths, open>>

(* UpsertBlockedIP or DeleteBlockedIP, and the core's copy *)
SetBlock ==
  /\ work.cmd \in Blocks \cup Unblocks
  /\ blocked' = (work.cmd \in Blocks)
  /\ Succeed("finish")
  /\ UNCHANGED <<file, active, leases, effects, reauths, open>>

KickAgain ==
  /\ work.cmd \in Kicks
  /\ effects' = [effects EXCEPT ![work.cmd] = active]
  /\ active' = {}
  /\ reauths' = [reauths EXCEPT ![work.cmd] = @ + 1]
  /\ Goto("core")
  /\ UNCHANGED <<file, blocked, leases, open>>

(* DisconnectClientForCommand: one transaction revokes the leases, enqueues the
   reauth and records both; a second execution only reads the record. *)
Kick ==
  /\ work.cmd \in Kicks
  /\ IF effects[work.cmd] # None THEN UNCHANGED <<effects, active, reauths>>
     ELSE /\ effects' = [effects EXCEPT ![work.cmd] = active]
          /\ active' = {}
          /\ reauths' = [reauths EXCEPT ![work.cmd] = @ + 1]
  /\ Goto("core")
  /\ UNCHANGED <<file, blocked, leases, open>>

(* TerminateTCPConnection: a connection that is gone is a failure. *)
Cut ==
  /\ work.cmd \in Cuts
  /\ open' = open \ {work.cmd}
  /\ IF work.cmd \in open THEN Succeed("finish") ELSE Goto("finish")
  /\ UNCHANGED <<file, blocked, active, leases, effects, reauths>>

(* The body of the command, if the edge permits it. *)
Effect ==
  /\ At("effect") /\ allowed
  /\ WriteSettings \/ SetBlock \/ Kick \/ Cut
  /\ took' = IF work.cmd \in Cuts /\ work.cmd \notin open THEN took ELSE took \cup {work.cmd}
  /\ UNCHANGED <<controllerVars, streamVars, received, skipped, applied, allowed, denied, core, faults>>

(* A command the edge does not permit fails, and so does a configuration whose file
   cannot be written. *)
Refuse ==
  /\ At("effect")
  /\ \/ ~allowed /\ UNCHANGED faults
     \/ allowed /\ work.cmd \in Configs /\ Fault
  /\ Goto("finish")
  /\ denied' = TRUE
  /\ UNCHANGED <<controllerVars, streamVars, received, skipped, applied, file, allowed, blocked, active, core, leases,
                 effects, reauths, open, took>>

(* TerminateConnectionsForLease, for each lease of the record *)
TerminateLeases ==
  /\ At("core")
  /\ core' = core \ effects[work.cmd]
  /\ Succeed("finish")
  /\ UNCHANGED <<controllerVars, streamVars, received, skipped, applied, file, allowed, denied, blocked, active, leases,
                 effects, reauths, open, took, faults>>

(* ConfirmConfiguration *)
ConfirmConfiguration ==
  /\ At("confirm")
  /\ applied' = Max({applied, rev[work.cmd]})
  /\ Goto("finish")
  /\ UNCHANGED <<controllerVars, streamVars, received, skipped, file, allowed, denied, blocked, active, core, leases,
                 effects, reauths, open, took, faults>>

(* FinishCommand, then the reply *)
FinishCommand ==
  /\ At("finish")
  /\ received' = [received EXCEPT ![work.cmd] = work.status]
  /\ skipped' = IF work.superseded THEN skipped \cup {work.cmd} ELSE skipped \ {work.cmd}
  /\ Reply(work.status, work.superseded)
  /\ UNCHANGED <<controllerVars, link, down, stateVars, faults>>

StatementFailsUnnoticed ==
  /\ work # None
  /\ IF link THEN Fault ELSE UNCHANGED faults
  /\ work.pc = "finish" /\ Reply(work.status, FALSE)
  /\ UNCHANGED <<controllerVars, link, down, received, skipped, stateVars>>

(* A SQL statement of the edge fails, or its context is cancelled with the stream:
   "retry", except that a failing transaction of a kick or a block is a failed
   command, whose record is then finished. *)
StatementFails ==
  /\ work # None
  /\ IF link THEN Fault ELSE UNCHANGED faults
  /\ \/ work.pc \in {"begin", "check", "confirm", "finish"} /\ Reply("retry", FALSE)
     \/ work.pc = "effect" /\ work.cmd \in Kicks \cup Blocks \cup Unblocks /\ Goto("finish") /\ UNCHANGED up
  /\ UNCHANGED <<controllerVars, link, down, received, skipped, stateVars>>

-----------------------------------------------------------------------------
(* The rest of the edge, the stream and crashes *)

(* The client logs in: a new lease, known to the core. *)
Login ==
  /\ leases < MaxLeases /\ Fits(Chosen, leases + 1)
  /\ leases' = leases + 1
  /\ active' = active \cup {leases + 1}
  /\ core' = core \cup {leases + 1}
  /\ UNCHANGED <<controllerVars, streamVars, recordVars, applied, file, allowed, denied, blocked, effects, reauths, open,
                 took, faults>>

(* The edge's own administrator withdraws or grants the permission. *)
SetPermission ==
  /\ Fault
  /\ allowed' = ~allowed
  /\ UNCHANGED <<controllerVars, streamVars, recordVars, applied, file, denied, blocked, active, core, leases, effects,
                 reauths, open, took>>

(* connect: a new stream only after the worker of the old one has returned. *)
Connect ==
  /\ ~link /\ work = None
  /\ link' = TRUE
  /\ UNCHANGED <<controllerVars, down, up, recordVars, stateVars, faults>>

BreakStream ==
  /\ link /\ Fault
  /\ link' = FALSE /\ down' = <<>> /\ up' = <<>>
  /\ UNCHANGED <<controllerVars, recordVars, stateVars>>

CrashEdgeKeepsLeases ==
  /\ Fault
  /\ link' = FALSE /\ down' = <<>> /\ up' = <<>> /\ work' = None
  /\ core' = {}
  /\ UNCHANGED <<controllerVars, received, skipped, applied, file, allowed, denied, blocked, active, leases, effects,
                 reauths, open, took>>

(* The edge dies at any point and at boot drops all leases.  Its connections are
   gone, and because their numbers start again at one, the number a command names
   may be that of a new connection; a command still to be sent will name an open one. *)
CrashEdge ==
  /\ Fault
  /\ link' = FALSE /\ down' = <<>> /\ up' = <<>> /\ work' = None
  /\ active' = {} /\ core' = {}
  /\ \E reused \in SUBSET (Cuts \cap Chosen) : open' = (Cuts \ Chosen) \cup reused
  /\ UNCHANGED <<controllerVars, received, skipped, applied, file, allowed, denied, blocked, leases, effects, reauths, took>>

(* The controller dies: handlers, the dispatcher and the stream are gone, the rows
   are not. *)
CrashController ==
  /\ Fault
  /\ unsent' = {} /\ batch' = {} /\ waiting' = {}
  /\ link' = FALSE /\ down' = <<>> /\ up' = <<>>
  /\ UNCHANGED <<row, rev, nextRev, order, catalog, recordVars, stateVars>>

Next ==
  \/ \E c \in Commands : AllocateRevision(c) \/ CreateNodeCommand(c) \/ HandlerSends(c) \/ HandlerGivesUp(c)
  \/ ListPending \/ DispatchNext \/ PersistResult \/ PersistFails \/ ResultDropped
  \/ TakeCommand \/ BeginCommand \/ CheckCommand \/ Effect \/ Refuse
  \/ TerminateLeases \/ ConfirmConfiguration \/ FinishCommand \/ StatementFails
  \/ Login \/ SetPermission \/ Connect \/ BreakStream \/ CrashEdge \/ CrashController

Spec == Init /\ [][Next]_vars

(* Three goroutines keep running: the edge's worker, whose end lets the edge connect
   again, the controller's dispatcher and its result worker. *)
EdgeWorker ==
  \/ TakeCommand \/ BeginCommand \/ CheckCommand \/ Effect \/ Refuse
  \/ TerminateLeases \/ ConfirmConfiguration \/ FinishCommand
  \/ Connect

FairSpec ==
  /\ Spec
  /\ WF_vars(EdgeWorker) /\ WF_vars(PersistResult) /\ WF_vars(ListPending \/ DispatchNext)

-----------------------------------------------------------------------------
(* The tables, queues and the worker stay in their domains: a result is only stored
   for a command that was created, only a configuration is superseded, and no two
   configurations have the same revision. *)
TypeOK ==
  /\ row \in [Commands -> {"none", "pending", "delivered"} \cup Finished]
  /\ rev \in [Configs -> 0..(nextRev - 1)]
  /\ \A c, d \in Configs : rev[c] = rev[d] /\ rev[c] # 0 => c = d
  /\ Range(order) = {c \in Commands : row[c] # "none"}
  /\ unsent \cup waiting \cup batch \cup Range(down) \subseteq Range(order)
  /\ received \in [Commands -> {"none", "executing"} \cup Finished]
  /\ {c \in Commands : received[c] # "none"} \subseteq Range(order)
  /\ skipped \subseteq Configs
  /\ work # None => work.cmd \in Range(order) /\ work.pc \in Steps
  /\ active \subseteq core /\ core \subseteq 1..leases

(* The settings in the edge's file are never older than a revision the edge has
   confirmed: late, duplicated or reordered configuration commands are fenced by
   configuration_revisions. And the directory never shows settings that the edge has
   not durably confirmed. *)
ConfirmedNotUndone == catalog <= applied /\ applied <= file

(* The directory never falls back to older settings, whatever the order in which
   results are stored (CompleteNodeCommand: an older ACK cannot roll it back). *)
CatalogNeverRollsBack == [][catalog' >= catalog]_vars

(* Once every stored command has its result, and the edge neither refused one nor
   failed to write it, the directory shows exactly the settings in the edge's file. *)
DirectoryAgrees ==
  (~denied /\ \A c \in Commands : row[c] \in {"none"} \cup Finished) => catalog = file

(* A disconnect_client command enqueues at most one reauth however often it is
   executed, revokes no lease but those of its first execution, and has invalidated
   all of these in the core when it is recorded as succeeded. *)
KickedOnce ==
  \A c \in Kicks :
    /\ reauths[c] <= 1
    /\ received[c] = "succeeded" => effects[c] # None /\ effects[c] \cap core = {}

(* A command the controller has stored as succeeded is recorded as succeeded at the
   edge, and took effect unless a later configuration superseded it: no copy of it
   that is still in transit is executed again. *)
SuccessIsDurable ==
  \A c \in Commands : row[c] = "succeeded" => received[c] = "succeeded" /\ c \in took \cup skipped

(* Every configuration command that was stored gets its result, for good, although
   the node is offline, streams break, processes die and statements fail. *)
ConfigurationSurvives == <>[](\A c \in Configs : row[c] \in {"none"} \cup Finished)

(* Executing a command whose effect has already taken place changes nothing at the
   edge (BeginCommand: "all are idempotent desired-state operations"). *)
ReplayHarmless ==
  [][\A c \in took : (At("effect") /\ work.cmd = c /\ allowed) => blocked' = blocked]_vars
=============================================================================
