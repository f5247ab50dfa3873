------------------------- MODULE NodeCommandsProofs -------------------------
(***************************************************************************)
(* Proofs about NodeCommands, for any commands, workloads and bounds.         *)
(*                                                                         *)
(* Every step of a command is taken by one worker, so what the worker has     *)
(* read or written still holds at its next step, unless the edge died and     *)
(* the worker with it. The invariants say what a position of the worker, a    *)
(* durable record and a result in transit each vouch for.                     *)
(***************************************************************************)
EXTENDS NodeCommands, TLAPS

\* Leaves without a pragma are Zenon's; the ones about arithmetic cite SMT, with Z3 as a
\* second attempt.
USE ZenonT(30), ZenonT(60)

Works == [cmd : Commands, pc : Steps, status : Finished, superseded : BOOLEAN]
Results == [cmd : Commands, status : Finished \cup {"retry"}, superseded : BOOLEAN]

Stored == {c \in Commands : row[c] # "none"}

(* The types *)
ControllerShape ==
  /\ row \in [Commands -> {"none", "pending", "delivered"} \cup Finished]
  /\ rev \in [Configs -> Nat] /\ nextRev \in Nat \ {0} /\ catalog \in Nat
  /\ \A c \in Configs : rev[c] < nextRev /\ \A d \in Configs : rev[c] = rev[d] /\ rev[c] # 0 => c = d
  /\ order \in Seq(Commands) /\ Range(order) = Stored
  /\ unsent \cup waiting \cup batch \subseteq Stored /\ waiting \subseteq Waited
  /\ \A c \in Configs \cap Stored : rev[c] # 0

StreamShape ==
  /\ down \in Seq(Commands) /\ Range(down) \subseteq Stored
  /\ up \in Seq(Results) /\ \A m \in Range(up) : m.cmd \in Stored

EdgeShape ==
  /\ received \in [Commands -> {"none", "executing"} \cup Finished]
  /\ \A c \in Commands : received[c] # "none" => c \in Stored
  /\ skipped \subseteq Configs
  /\ work # None => work \in Works /\ work.cmd \in Stored
  /\ applied \in Nat /\ file \in Nat /\ denied \in BOOLEAN

ClientShape ==
  /\ leases \in 0..MaxLeases /\ active \subseteq core /\ core \subseteq 1..leases
  /\ reauths \in [Kicks -> Nat] /\ DOMAIN effects = Kicks

(* Where the worker is, at which command, and what it has done *)
Working ==
  work # None =>
    /\ work.pc # "begin" => received[work.cmd] = "executing"
    /\ work.pc = "core" => work.cmd \in Kicks
    /\ work.pc = "confirm" => work.cmd \in Configs
    /\ work.status = "succeeded" => work.pc \in {"confirm", "finish"}
    /\ work.pc = "confirm" => work.status = "succeeded"
    /\ work.superseded => work.cmd \in Configs /\ work.pc = "finish" /\ work.status = "succeeded" /\ rev[work.cmd] < applied
    /\ work.pc \in {"core", "confirm"} \/ (work.pc = "finish" /\ work.status = "succeeded" /\ ~work.superseded) =>
         work.cmd \in took

(* The records, the rows and the results in transit *)
Recorded ==
  /\ \A c \in Commands : received[c] = "succeeded" => c \in took \cup skipped
  /\ \A c \in skipped : received[c] = "succeeded" /\ rev[c] < applied
  /\ \A m \in Range(up) : m.status = "succeeded" => received[m.cmd] = "succeeded" /\ (m.superseded <=> m.cmd \in skipped)
  /\ \A c \in Commands : row[c] = "succeeded" => received[c] = "succeeded"

(* Revisions: what the worker writes is not older than what is confirmed, and what has
   succeeded is confirmed. *)
Fenced ==
  /\ applied <= file
  /\ work # None /\ work.cmd \in Configs =>
       /\ work.pc = "effect" => applied <= rev[work.cmd]
       /\ work.pc = "confirm" => file = rev[work.cmd]
       /\ work.pc = "finish" /\ work.status = "succeeded" => rev[work.cmd] <= applied
  /\ \A c \in Configs : received[c] = "succeeded" => rev[c] <= applied

(* The directory shows the greatest revision that succeeded, or a greater one is
   confirmed and will be shown. *)
Shown ==
  /\ catalog <= applied
  /\ catalog = 0 \/ \E c \in Configs : row[c] = "succeeded" /\ rev[c] = catalog
  /\ \A c \in Configs : row[c] = "succeeded" => rev[c] <= catalog \/ rev[c] < applied

(* The settings in the file are those of a stored command; without a refusal no
   configuration fails. *)
Written ==
  /\ file = 0 \/ \E c \in Configs \cap Stored : rev[c] = file
  /\ ~denied =>
       /\ \A c \in Configs : row[c] # "failed" /\ received[c] # "failed"
       /\ \A m \in Range(up) : m.cmd \in Configs => m.status # "failed"
       /\ work # None /\ work.cmd \in Configs /\ work.pc = "finish" => work.status = "succeeded"

(* Kicks: one transaction records the leases and enqueues the reauth. *)
Revoked(c) == effects[c] # None /\ effects[c] \cap core = {}
Kicked ==
  /\ \A c \in Kicks :
       \/ effects[c] = None /\ reauths[c] = 0
       \/ effects[c] # None /\ effects[c] \subseteq 1..leases /\ effects[c] \cap active = {} /\ reauths[c] = 1
  /\ work # None /\ work.cmd \in Kicks =>
       /\ work.pc = "core" => effects[work.cmd] # None
       /\ work.pc = "finish" /\ work.status = "succeeded" => Revoked(work.cmd)
  /\ \A c \in Kicks : received[c] = "succeeded" => Revoked(c)

Shape == ControllerShape /\ StreamShape /\ EdgeShape /\ ClientShape
Inductive == Shape /\ Working /\ Recorded /\ Fenced /\ Shown /\ Written /\ Kicked

\* A command is of one kind.
LEMMA Disjoint ==
  /\ Configs \cap (Blocks \cup Unblocks \cup Kicks \cup Cuts) = {} /\ Blocks \cap (Unblocks \cup Kicks \cup Cuts) = {}
  /\ Unblocks \cap (Kicks \cup Cuts) = {} /\ Kicks \cap Cuts = {}
  /\ Configs \subseteq Commands /\ Kicks \subseteq Commands /\ Cuts \subseteq Commands
BY CommandsAssumption DEF Commands

-----------------------------------------------------------------------------
(* Sequences, as sets of their elements *)

\* An empty queue holds nothing.
LEMMA RangeEmpty == ASSUME NEW S PROVE <<>> \in Seq(S) /\ Range(<<>>) = {}
BY SMT, Z3 DEF Range

\* What is appended to a queue joins what it holds.
LEMMA RangeAppend ==
  ASSUME NEW S, NEW s \in Seq(S), NEW x \in S
  PROVE  Append(s, x) \in Seq(S) /\ Range(Append(s, x)) = Range(s) \cup {x}
<1>1. /\ Append(s, x) \in Seq(S) /\ DOMAIN Append(s, x) = 1..(Len(s) + 1) /\ DOMAIN s = 1..Len(s) /\ Len(s) \in Nat
      /\ Append(s, x)[Len(s) + 1] = x /\ \A i \in 1..Len(s) : Append(s, x)[i] = s[i]
  BY SMT, Z3
<1>2. 1..(Len(s) + 1) = 1..Len(s) \cup {Len(s) + 1}
  BY <1>1, SMTT(30), Z3T(30)
<1> QED BY <1>1, <1>2, SMTT(30), Z3T(30) DEF Range

\* What is read from a queue was in it, and the rest stays.
LEMMA RangeTail ==
  ASSUME NEW S, NEW s \in Seq(S), s # <<>>
  PROVE  Head(s) \in Range(s) /\ Head(s) \in S /\ Tail(s) \in Seq(S) /\ Range(Tail(s)) \subseteq Range(s)
<1>1. Len(s) \in Nat /\ Len(s) # 0 /\ DOMAIN s = 1..Len(s) /\ Tail(s) \in Seq(S) /\ Head(s) = s[1]
  BY SMT, Z3
<1>2. DOMAIN Tail(s) = 1..(Len(s) - 1) /\ \A i \in 1..(Len(s) - 1) : Tail(s)[i] = s[i + 1]
  BY <1>1, SMTT(30), Z3T(30)
<1>3. \A i \in 1..(Len(s) - 1) : i + 1 \in 1..Len(s)
  BY <1>1, SMTT(30), Z3T(30)
<1> QED BY <1>1, <1>2, <1>3, SMTT(30), Z3T(30) DEF Range

\* Membership is a truth value, which the fields of the records require.
LEMMA TruthValue == ASSUME NEW x, NEW S PROVE \E p \in BOOLEAN : p = (x \in S)
<1>1. (x \in S) \in BOOLEAN
  BY SMT, Z3
<1> QED BY <1>1

\* The larger of two revisions.
LEMMA MaxOfTwo == ASSUME NEW a \in Nat, NEW b \in Nat, a <= b PROVE Max({a, b}) = b
<1>1. \A x \in {a, b} : (\A y \in {a, b} : x >= y) <=> x = b
  BY SMT, Z3
<1> QED BY <1>1 DEF Max

(* A reply adds one result, if anything, and ends the work. *)
LEMMA ReplyAdds ==
  ASSUME Shape, work # None, NEW s \in Finished \cup {"retry"}, NEW p \in BOOLEAN, Reply(s, p)
  PROVE  /\ up' \in Seq(Results) /\ work' = None
         /\ \A m \in Range(up') : m \in Range(up) \/ m = [cmd |-> work.cmd, status |-> s, superseded |-> p]
<1>1. [cmd |-> work.cmd, status |-> s, superseded |-> p] \in Results
  BY DEF Shape, EdgeShape, Works, Results
<1> QED BY <1>1, RangeAppend, SMTT(30), Z3T(30) DEF Reply, Shape, StreamShape

(* Configurations that are stored have their revision already. *)
LEMMA AllocateRevisionKeeps == ASSUME NEW c \in Commands, Inductive, AllocateRevision(c) PROVE Inductive'
<1>u. UNCHANGED <<row, order, unsent, batch, waiting, catalog, down, up, received, skipped, work,
                  applied, file, denied, active, core, leases, effects, reauths, took>>
  BY DEF AllocateRevision, Fits, controllerVars, streamVars, recordVars, stateVars
<1>1. (StreamShape /\ EdgeShape /\ ClientShape)'
  BY <1>u DEF Inductive, Shape, Stored, StreamShape, EdgeShape, ClientShape
<1>2. (Kicked)'
  BY <1>u DEF Inductive, Shape, Stored, Kicked, Revoked
<1>3. ControllerShape'
  BY <1>u, Disjoint, SMTT(30), Z3T(30)
  DEF AllocateRevision, Fits, Inductive, Shape, ControllerShape, Stored
<1>4. Working'
  BY <1>u, Disjoint
  DEF AllocateRevision, Fits, Inductive, Shape, EdgeShape, Works, Working, ControllerShape, Stored
<1>5. Recorded'
  BY <1>u, Disjoint, SMTT(30), Z3T(30)
  DEF AllocateRevision, Fits, Inductive, Shape, ControllerShape, StreamShape, EdgeShape, Stored,
      Working, Recorded, Results, Works
<1>6. Fenced'
  BY <1>u, Disjoint, SMTT(30), Z3T(30)
  DEF AllocateRevision, Fits, Inductive, Shape, ControllerShape, EdgeShape, Stored, Works, Working,
      Recorded, Fenced
<1>7. Shown'
  BY <1>u, Disjoint, SMTT(30), Z3T(30)
  DEF AllocateRevision, Fits, Inductive, Shape, ControllerShape, EdgeShape, Stored, Recorded,
      Fenced, Shown
<1>8. Written'
  BY <1>u, Disjoint
  DEF AllocateRevision, Fits, Inductive, Shape, ControllerShape, StreamShape, EdgeShape, Stored,
      Works, Working, Fenced, Written, Results
<1> QED BY <1>1, <1>2, <1>3, <1>4, <1>5, <1>6, <1>7, <1>8 DEF Inductive, Shape

(* A row is stored. *)
LEMMA CreateNodeCommandKeeps == ASSUME NEW c \in Commands, Inductive, CreateNodeCommand(c) PROVE Inductive'
<1>0. order' \in Seq(Commands) /\ Range(order') = Range(order) \cup {c} /\ Stored' = Stored \cup {c}
  BY RangeAppend, SMTT(30), Z3T(30) DEF CreateNodeCommand, Inductive, Shape, ControllerShape, Stored
<1>u. UNCHANGED <<rev, nextRev, batch, waiting, catalog, down, up, received, skipped, work, applied,
                  file, denied, active, core, leases, effects, reauths, took>>
  BY DEF CreateNodeCommand, controllerVars, streamVars, recordVars, stateVars
<1>1. (ClientShape)'
  BY <1>u DEF Inductive, Shape, Stored, ClientShape
<1>2. (Working /\ Fenced /\ Kicked)'
  BY <1>u DEF Inductive, Shape, Stored, Working, Fenced, Kicked, Revoked
<1>3. ControllerShape'
  BY <1>0, <1>u, Disjoint, SMTT(30), Z3T(30)
  DEF CreateNodeCommand, Inductive, Shape, ControllerShape, Stored
<1>4. StreamShape'
  BY <1>0, <1>u, Disjoint DEF CreateNodeCommand, Inductive, Shape, StreamShape, Stored, Results
<1>5. EdgeShape'
  BY <1>0, <1>u, Disjoint
  DEF CreateNodeCommand, Inductive, Shape, EdgeShape, Stored, Works, Finished, Steps
<1>6. Recorded'
  BY <1>0, <1>u, Disjoint, SMTT(30), Z3T(30)
  DEF CreateNodeCommand, Inductive, Shape, ControllerShape, StreamShape, EdgeShape, Stored, Working,
      Recorded, Results, Works
<1>7. Shown'
  BY <1>0, <1>u, Disjoint, SMTT(30), Z3T(30)
  DEF CreateNodeCommand, Inductive, Shape, ControllerShape, EdgeShape, Stored, Recorded, Fenced,
      Shown
<1>8. Written'
  BY <1>0, <1>u, Disjoint
  DEF CreateNodeCommand, Inductive, Shape, ControllerShape, StreamShape, EdgeShape, Stored, Works,
      Working, Fenced, Written, Results
<1> QED BY <1>1, <1>2, <1>3, <1>4, <1>5, <1>6, <1>7, <1>8 DEF Inductive, Shape

(* The handler sends its command. *)
LEMMA HandlerSendsKeeps == ASSUME NEW c \in Commands, Inductive, HandlerSends(c) PROVE Inductive'
<1>0. down' \in Seq(Commands) /\ Range(down') \subseteq Stored /\ Stored' = Stored
  BY RangeAppend, SMTT(30), Z3T(30)
  DEF HandlerSends, SendCommand, Inductive, Shape, ControllerShape, StreamShape, Stored
<1>u. UNCHANGED <<rev, nextRev, order, batch, catalog, up, received, skipped, work, applied, file,
                  denied, active, core, leases, effects, reauths, took>>
  BY DEF HandlerSends, SendCommand, controllerVars, streamVars, recordVars, stateVars
<1>1. (ClientShape)'
  BY <1>u DEF Inductive, Shape, Stored, ClientShape
<1>2. (Working /\ Fenced /\ Kicked)'
  BY <1>u DEF Inductive, Shape, Stored, Working, Fenced, Kicked, Revoked
<1>3. ControllerShape'
  BY <1>0, <1>u, Disjoint, SMTT(30), Z3T(30)
  DEF HandlerSends, SendCommand, Inductive, Shape, ControllerShape, Stored
<1>4. StreamShape'
  BY <1>0, <1>u, Disjoint DEF HandlerSends, SendCommand, Inductive, Shape, StreamShape, Stored
<1>5. EdgeShape'
  BY <1>0, <1>u, Disjoint
  DEF HandlerSends, SendCommand, Inductive, Shape, EdgeShape, Stored, Works, Finished, Steps
<1>6. Recorded'
  BY <1>0, <1>u, Disjoint, SMTT(30), Z3T(30)
  DEF HandlerSends, SendCommand, Inductive, Shape, ControllerShape, StreamShape, EdgeShape, Stored,
      Working, Recorded, Results, Works
<1>7. Shown'
  BY <1>0, <1>u, Disjoint, SMTT(30), Z3T(30)
  DEF HandlerSends, SendCommand, Inductive, Shape, ControllerShape, EdgeShape, Stored, Recorded,
      Fenced, Shown
<1>8. Written'
  BY <1>0, <1>u, Disjoint
  DEF HandlerSends, SendCommand, Inductive, Shape, ControllerShape, StreamShape, EdgeShape, Stored,
      Works, Working, Fenced, Written, Results
<1> QED BY <1>1, <1>2, <1>3, <1>4, <1>5, <1>6, <1>7, <1>8 DEF Inductive, Shape

(* The handler gives up. *)
LEMMA HandlerGivesUpKeeps == ASSUME NEW c \in Commands, Inductive, HandlerGivesUp(c) PROVE Inductive'
<1>u. UNCHANGED <<row, rev, nextRev, order, unsent, batch, catalog, down, up, received, skipped,
                  work, applied, file, denied, active, core, leases, effects, reauths, took>>
  BY DEF HandlerGivesUp, controllerVars, streamVars, recordVars, stateVars
<1>1. (StreamShape /\ EdgeShape /\ ClientShape)'
  BY <1>u DEF Inductive, Shape, Stored, StreamShape, EdgeShape, ClientShape
<1>2. (Working /\ Recorded /\ Fenced /\ Shown /\ Written /\ Kicked)'
  BY <1>u, SMTT(30), Z3T(30)
  DEF Inductive, Shape, Stored, Working, Recorded, Fenced, Shown, Written, Kicked, Revoked
<1>3. ControllerShape'
  BY <1>u, Disjoint, SMTT(30), Z3T(30) DEF HandlerGivesUp, Inductive, Shape, ControllerShape, Stored
<1> QED BY <1>1, <1>2, <1>3 DEF Inductive, Shape

(* The dispatcher lists what is not finished. *)
LEMMA ListPendingKeeps == ASSUME Inductive, ListPending PROVE Inductive'
<1>u. UNCHANGED <<row, rev, nextRev, order, unsent, waiting, catalog, down, up, received, skipped,
                  work, applied, file, denied, active, core, leases, effects, reauths, took>>
  BY DEF ListPending, controllerVars, streamVars, recordVars, stateVars
<1>1. (StreamShape /\ EdgeShape /\ ClientShape)'
  BY <1>u DEF Inductive, Shape, Stored, StreamShape, EdgeShape, ClientShape
<1>2. (Working /\ Recorded /\ Fenced /\ Shown /\ Written /\ Kicked)'
  BY <1>u, SMTT(30), Z3T(30)
  DEF Inductive, Shape, Stored, Working, Recorded, Fenced, Shown, Written, Kicked, Revoked
<1>3. ControllerShape'
  BY <1>u, Disjoint, SMTT(30), Z3T(30) DEF ListPending, Inductive, Shape, ControllerShape, Stored
<1> QED BY <1>1, <1>2, <1>3 DEF Inductive, Shape

(* The dispatcher sends the next one. *)
LEMMA DispatchNextKeeps == ASSUME Inductive, DispatchNext PROVE Inductive'
<1>a. PICK i \in DOMAIN order : SendCommand(order[i]) /\ batch' = batch \ {order[i]}
  BY DEF DispatchNext, SendCommand, Range
<1>b. order[i] \in Stored /\ order[i] \in Commands
  BY SMTT(30), Z3T(30)
  DEF DispatchNext, SendCommand, Inductive, Shape, ControllerShape, Stored, Range
<1>0. down' \in Seq(Commands) /\ Range(down') \subseteq Stored /\ Stored' = Stored
  BY <1>a, <1>b, RangeAppend, SMTT(30), Z3T(30)
  DEF DispatchNext, SendCommand, Inductive, Shape, ControllerShape, StreamShape, Stored
<1>u. UNCHANGED <<rev, nextRev, order, unsent, waiting, catalog, up, received, skipped, work,
                  applied, file, denied, active, core, leases, effects, reauths, took>>
  BY DEF DispatchNext, SendCommand, controllerVars, streamVars, recordVars, stateVars
<1>1. (ClientShape)'
  BY <1>u DEF Inductive, Shape, Stored, ClientShape
<1>2. (Working /\ Fenced /\ Kicked)'
  BY <1>u DEF Inductive, Shape, Stored, Working, Fenced, Kicked, Revoked
<1>3. ControllerShape'
  <2>1. row' \in [Commands -> {"none", "pending", "delivered"} \cup Finished]
    BY <1>a, <1>b DEF SendCommand, Inductive, Shape, ControllerShape
  <2>2. unsent' \cup waiting' \cup batch' \subseteq Stored
    BY <1>u, <1>a DEF Inductive, Shape, ControllerShape
  <2>3. Range(order') = Stored'
    BY <1>0, <1>u DEF Inductive, Shape, ControllerShape
  <2> QED BY <1>0, <1>u, <2>1, <2>2, <2>3 DEF Inductive, Shape, ControllerShape
<1>4. StreamShape'
  BY <1>0, <1>u, Disjoint DEF DispatchNext, SendCommand, Inductive, Shape, StreamShape, Stored
<1>5. EdgeShape'
  BY <1>0, <1>u, Disjoint
  DEF DispatchNext, SendCommand, Inductive, Shape, EdgeShape, Stored, Works, Finished, Steps
<1>6. Recorded'
  BY <1>0, <1>u, Disjoint, SMTT(30), Z3T(30)
  DEF DispatchNext, SendCommand, Inductive, Shape, ControllerShape, StreamShape, EdgeShape, Stored,
      Working, Recorded, Results, Works
<1>7. Shown'
  BY <1>0, <1>u, Disjoint, SMTT(30), Z3T(30)
  DEF DispatchNext, SendCommand, Inductive, Shape, ControllerShape, EdgeShape, Stored, Recorded,
      Fenced, Shown
<1>8. Written'
  BY <1>0, <1>u, Disjoint, SMTT(30), Z3T(30)
  DEF DispatchNext, SendCommand, Inductive, Shape, ControllerShape, StreamShape, EdgeShape, Stored,
      Works, Working, Fenced, Written, Results
<1> QED BY <1>1, <1>2, <1>3, <1>4, <1>5, <1>6, <1>7, <1>8 DEF Inductive, Shape

(* The worker takes a command. *)
LEMMA TakeCommandKeeps == ASSUME Inductive, TakeCommand PROVE Inductive'
<1>0. down' \in Seq(Commands) /\ Range(down') \subseteq Range(down) /\ Head(down) \in Range(down) /\ Head(down) \in Commands
  BY RangeTail DEF TakeCommand, Inductive, Shape, StreamShape
<1>u. UNCHANGED <<row, rev, nextRev, order, unsent, batch, waiting, catalog, up, received, skipped,
                  applied, file, denied, active, core, leases, effects, reauths, took>>
  BY DEF TakeCommand, controllerVars, streamVars, recordVars, stateVars
<1>1. (ControllerShape /\ ClientShape)'
  BY <1>u DEF Inductive, Shape, Stored, ControllerShape, ClientShape
<1>2. (Recorded /\ Shown)'
  BY <1>u DEF Inductive, Shape, Stored, Recorded, Shown
<1>3. StreamShape'
  BY <1>0, <1>u, Disjoint DEF TakeCommand, Inductive, Shape, StreamShape, Stored
<1>4. EdgeShape'
  BY <1>0, <1>u, Disjoint
  DEF TakeCommand, Inductive, Shape, EdgeShape, Stored, Works, Finished, Steps, StreamShape
<1>5. Working'
  BY <1>0, <1>u, Disjoint DEF TakeCommand, Inductive, Shape, EdgeShape, Works, Working
<1>6. Fenced'
  BY <1>0, <1>u, Disjoint
  DEF TakeCommand, Inductive, Shape, ControllerShape, EdgeShape, Stored, Works, Working, Recorded,
      Fenced
<1>7. Written'
  BY <1>0, <1>u, Disjoint
  DEF TakeCommand, Inductive, Shape, ControllerShape, StreamShape, EdgeShape, Stored, Works,
      Working, Fenced, Written, Results
<1>8. Kicked'
  BY <1>0, <1>u, Disjoint, CommandsAssumption
  DEF TakeCommand, Inductive, Shape, ClientShape, EdgeShape, Works, Working, Kicked, Revoked
<1> QED BY <1>1, <1>2, <1>3, <1>4, <1>5, <1>6, <1>7, <1>8 DEF Inductive, Shape

(* The worker checks the fence. *)
LEMMA CheckCommandKeeps == ASSUME Inductive, CheckCommand PROVE Inductive'
<1>u. UNCHANGED <<row, rev, nextRev, order, unsent, batch, waiting, catalog, down, up, received,
                  skipped, applied, file, denied, active, core, leases, effects, reauths, took>>
  BY
  DEF CheckCommand, At, Goto, ConfigurationSuperseded, controllerVars, streamVars, recordVars,
      stateVars
<1>1. (ControllerShape /\ StreamShape /\ ClientShape)'
  BY <1>u DEF Inductive, Shape, Stored, ControllerShape, StreamShape, ClientShape
<1>2. (Recorded /\ Shown)'
  BY <1>u DEF Inductive, Shape, Stored, Recorded, Shown
<1>3. EdgeShape'
  BY <1>u, Disjoint
  DEF CheckCommand, At, Goto, ConfigurationSuperseded, Inductive, Shape, EdgeShape, Stored, Works,
      Finished, Steps
<1>4. Working'
  BY <1>u, Disjoint
  DEF CheckCommand, At, Goto, ConfigurationSuperseded, Inductive, Shape, EdgeShape, Works, Working
<1>5. Fenced'
  <2>1. work # None /\ work \in Works /\ (work.cmd \in Configs => rev[work.cmd] \in Nat) /\ applied \in Nat
    BY DEF CheckCommand, At, Inductive, Shape, ControllerShape, EdgeShape
  <2>2. CASE ConfigurationSuperseded(work.cmd) /\ work' = [work EXCEPT !.pc = "finish", !.status = "succeeded", !.superseded = TRUE]
    BY <2>1, <2>2, <1>u, SMTT(30), Z3T(30) DEF ConfigurationSuperseded, Works, Inductive, Fenced
  <2>3. CASE ~ConfigurationSuperseded(work.cmd) /\ Goto("effect")
    BY <2>1, <2>3, <1>u, SMTT(30), Z3T(30)
    DEF ConfigurationSuperseded, Goto, Works, Inductive, Fenced
  <2>4. CASE work.cmd \notin Configs /\ Goto("finish")
    BY <2>1, <2>4, <1>u DEF Goto, Works, Inductive, Fenced
  <2> QED BY <2>2, <2>3, <2>4 DEF CheckCommand
<1>6. Written'
  BY <1>u, Disjoint
  DEF CheckCommand, At, Goto, ConfigurationSuperseded, Inductive, Shape, ControllerShape,
      StreamShape, EdgeShape, Stored, Works, Working, Fenced, Written, Results
<1>7. Kicked'
  BY <1>u, Disjoint, CommandsAssumption
  DEF CheckCommand, At, Goto, ConfigurationSuperseded, Inductive, Shape, ClientShape, EdgeShape,
      Works, Working, Kicked, Revoked
<1> QED BY <1>1, <1>2, <1>3, <1>4, <1>5, <1>6, <1>7 DEF Inductive, Shape

(* The edge refuses. *)
LEMMA RefuseKeeps == ASSUME Inductive, Refuse PROVE Inductive'
<1>u. UNCHANGED <<row, rev, nextRev, order, unsent, batch, waiting, catalog, down, up, received,
                  skipped, applied, file, active, core, leases, effects, reauths, took>>
  BY DEF Refuse, At, Goto, Fault, controllerVars, streamVars, recordVars, stateVars
<1>1. (ControllerShape /\ StreamShape /\ ClientShape)'
  BY <1>u DEF Inductive, Shape, Stored, ControllerShape, StreamShape, ClientShape
<1>2. (Recorded /\ Shown)'
  BY <1>u DEF Inductive, Shape, Stored, Recorded, Shown
<1>3. EdgeShape'
  BY <1>u, Disjoint
  DEF Refuse, At, Goto, Fault, Inductive, Shape, EdgeShape, Stored, Works, Finished, Steps
<1>4. Working'
  BY <1>u, Disjoint DEF Refuse, At, Goto, Fault, Inductive, Shape, EdgeShape, Works, Working
<1>5. Fenced'
  BY <1>u, Disjoint, SMTT(30), Z3T(30)
  DEF Refuse, At, Goto, Fault, Inductive, Shape, ControllerShape, EdgeShape, Stored, Works, Working,
      Recorded, Fenced
<1>6. Written'
  BY <1>u, Disjoint
  DEF Refuse, At, Goto, Fault, Inductive, Shape, ControllerShape, StreamShape, EdgeShape, Stored,
      Works, Working, Fenced, Written, Results
<1>7. Kicked'
  BY <1>u, Disjoint, CommandsAssumption
  DEF Refuse, At, Goto, Fault, Inductive, Shape, ClientShape, EdgeShape, Works, Working, Kicked,
      Revoked
<1> QED BY <1>1, <1>2, <1>3, <1>4, <1>5, <1>6, <1>7 DEF Inductive, Shape

(* The worker ends the leases in the core. *)
LEMMA TerminateLeasesKeeps == ASSUME Inductive, TerminateLeases PROVE Inductive'
<1>u. UNCHANGED <<row, rev, nextRev, order, unsent, batch, waiting, catalog, down, up, received,
                  skipped, applied, file, denied, active, leases, effects, reauths, took>>
  BY DEF TerminateLeases, At, Succeed, controllerVars, streamVars, recordVars, stateVars
<1>1. (ControllerShape /\ StreamShape)'
  BY <1>u DEF Inductive, Shape, Stored, ControllerShape, StreamShape
<1>2. (Recorded /\ Shown)'
  BY <1>u DEF Inductive, Shape, Stored, Recorded, Shown
<1>3. EdgeShape'
  BY <1>u, Disjoint
  DEF TerminateLeases, At, Succeed, Inductive, Shape, EdgeShape, Stored, Works, Finished, Steps
<1>4. ClientShape'
  BY <1>u, Disjoint, CommandsAssumption
  DEF TerminateLeases, At, Succeed, Inductive, Shape, ClientShape, EdgeShape, Works, Working,
      Kicked
<1>5. Working'
  BY <1>u, Disjoint DEF TerminateLeases, At, Succeed, Inductive, Shape, EdgeShape, Works, Working
<1>6. Fenced'
  BY <1>u, Disjoint, SMTT(30), Z3T(30)
  DEF TerminateLeases, At, Succeed, Inductive, Shape, ControllerShape, EdgeShape, Stored, Works,
      Working, Recorded, Fenced
<1>7. Written'
  BY <1>u, Disjoint, SMTT(30), Z3T(30)
  DEF TerminateLeases, At, Succeed, Inductive, Shape, ControllerShape, StreamShape, EdgeShape,
      Stored, Works, Working, Fenced, Written, Results
<1>8. Kicked'
  BY <1>u, Disjoint, CommandsAssumption, SMTT(30), Z3T(30)
  DEF TerminateLeases, At, Succeed, Inductive, Shape, ClientShape, EdgeShape, Works, Working,
      Kicked, Revoked
<1> QED BY <1>1, <1>2, <1>3, <1>4, <1>5, <1>6, <1>7, <1>8 DEF Inductive, Shape

(* The client logs in. *)
LEMMA LoginKeeps == ASSUME Inductive, Login PROVE Inductive'
<1>u. UNCHANGED <<row, rev, nextRev, order, unsent, batch, waiting, catalog, down, up, received,
                  skipped, work, applied, file, denied, effects, reauths, took>>
  BY DEF Login, controllerVars, streamVars, recordVars, stateVars
<1>1. (ControllerShape /\ StreamShape /\ EdgeShape)'
  BY <1>u DEF Inductive, Shape, Stored, ControllerShape, StreamShape, EdgeShape
<1>2. (Working /\ Recorded /\ Fenced /\ Shown /\ Written)'
  BY <1>u, SMTT(30), Z3T(30) DEF Inductive, Shape, Stored, Working, Recorded, Fenced, Shown, Written
<1>3. ClientShape'
  <2>1. leases' \in 0..MaxLeases /\ 1..leases \subseteq 1..leases' /\ leases + 1 \in 1..leases'
    BY CommandsAssumption, SMTT(30), Z3T(30) DEF Login, Inductive, Shape, ClientShape
  <2> QED BY <2>1, <1>u DEF Login, Inductive, Shape, ClientShape
<1>4. Kicked'
  BY <1>u, Disjoint, CommandsAssumption, SMTT(30), Z3T(30)
  DEF Login, Inductive, Shape, ClientShape, EdgeShape, Works, Working, Kicked, Revoked
<1> QED BY <1>1, <1>2, <1>3, <1>4 DEF Inductive, Shape

(* The permission changes. *)
LEMMA SetPermissionKeeps == ASSUME Inductive, SetPermission PROVE Inductive'
<1>u. UNCHANGED <<row, rev, nextRev, order, unsent, batch, waiting, catalog, down, up, received,
                  skipped, work, applied, file, denied, active, core, leases, effects, reauths, took>>
  BY DEF SetPermission, Fault, controllerVars, streamVars, recordVars, stateVars
<1>1. (ControllerShape /\ StreamShape /\ EdgeShape /\ ClientShape)'
  BY <1>u DEF Inductive, Shape, Stored, ControllerShape, StreamShape, EdgeShape, ClientShape
<1>2. (Working /\ Recorded /\ Fenced /\ Shown /\ Written /\ Kicked)'
  BY <1>u, SMTT(30), Z3T(30)
  DEF Inductive, Shape, Stored, Working, Recorded, Fenced, Shown, Written, Kicked, Revoked
<1> QED BY <1>1, <1>2 DEF Inductive, Shape

(* A new stream. *)
LEMMA ConnectKeeps == ASSUME Inductive, Connect PROVE Inductive'
<1>u. UNCHANGED <<row, rev, nextRev, order, unsent, batch, waiting, catalog, down, up, received,
                  skipped, work, applied, file, denied, active, core, leases, effects, reauths, took>>
  BY DEF Connect, controllerVars, streamVars, recordVars, stateVars
<1>1. (ControllerShape /\ StreamShape /\ EdgeShape /\ ClientShape)'
  BY <1>u DEF Inductive, Shape, Stored, ControllerShape, StreamShape, EdgeShape, ClientShape
<1>2. (Working /\ Recorded /\ Fenced /\ Shown /\ Written /\ Kicked)'
  BY <1>u DEF Inductive, Shape, Stored, Working, Recorded, Fenced, Shown, Written, Kicked, Revoked
<1> QED BY <1>1, <1>2 DEF Inductive, Shape

(* The stream breaks. *)
LEMMA BreakStreamKeeps == ASSUME Inductive, BreakStream PROVE Inductive'
<1>0. down' \in Seq(Commands) /\ up' \in Seq(Results) /\ Range(down') = {} /\ Range(up') = {}
  BY RangeEmpty DEF BreakStream
<1>u. UNCHANGED <<row, rev, nextRev, order, unsent, batch, waiting, catalog, received, skipped, work,
                  applied, file, denied, active, core, leases, effects, reauths, took>>
  BY DEF BreakStream, Fault, controllerVars, recordVars, stateVars
<1>1. (ControllerShape /\ EdgeShape /\ ClientShape)'
  BY <1>u DEF Inductive, Shape, Stored, ControllerShape, EdgeShape, ClientShape
<1>2. (Working /\ Fenced /\ Shown /\ Kicked)'
  BY <1>u DEF Inductive, Shape, Stored, Working, Fenced, Shown, Kicked, Revoked
<1>3. StreamShape'
  BY <1>0, <1>u, Disjoint DEF BreakStream, Fault, Inductive, Shape, StreamShape, Stored
<1>4. Recorded'
  BY <1>0, <1>u, Disjoint
  DEF BreakStream, Fault, Inductive, Shape, ControllerShape, StreamShape, EdgeShape, Stored,
      Working, Recorded, Results, Works
<1>5. Written'
  BY <1>0, <1>u, Disjoint
  DEF BreakStream, Fault, Inductive, Shape, ControllerShape, StreamShape, EdgeShape, Stored, Works,
      Working, Fenced, Written, Results
<1> QED BY <1>1, <1>2, <1>3, <1>4, <1>5 DEF Inductive, Shape

(* The edge dies. *)
LEMMA CrashEdgeKeeps == ASSUME Inductive, CrashEdge PROVE Inductive'
<1>0. down' \in Seq(Commands) /\ up' \in Seq(Results) /\ Range(down') = {} /\ Range(up') = {}
  BY RangeEmpty DEF CrashEdge
<1>u. UNCHANGED <<row, rev, nextRev, order, unsent, batch, waiting, catalog, received, skipped,
                  applied, file, denied, leases, effects, reauths, took>>
  BY DEF CrashEdge, Fault, controllerVars, recordVars, stateVars
<1>1. (ControllerShape)'
  BY <1>u DEF Inductive, Shape, Stored, ControllerShape
<1>2. (Shown)'
  BY <1>u DEF Inductive, Shape, Stored, Shown
<1>3. StreamShape'
  BY <1>0, <1>u, Disjoint DEF CrashEdge, Fault, Inductive, Shape, StreamShape, Stored
<1>4. EdgeShape'
  BY <1>0, <1>u, Disjoint
  DEF CrashEdge, Fault, Inductive, Shape, EdgeShape, Stored, Works, Finished, Steps
<1>5. ClientShape'
  BY <1>0, <1>u, Disjoint, CommandsAssumption
  DEF CrashEdge, Fault, Inductive, Shape, ClientShape, EdgeShape, Works, Working, Kicked
<1>6. Working'
  BY <1>0, <1>u, Disjoint DEF CrashEdge, Fault, Inductive, Shape, EdgeShape, Works, Working
<1>7. Recorded'
  BY <1>0, <1>u, Disjoint, SMTT(30), Z3T(30)
  DEF CrashEdge, Fault, Inductive, Shape, ControllerShape, StreamShape, EdgeShape, Stored, Working,
      Recorded, Results, Works
<1>8. Fenced'
  BY <1>0, <1>u, Disjoint, SMTT(30), Z3T(30)
  DEF CrashEdge, Fault, Inductive, Shape, ControllerShape, EdgeShape, Stored, Works, Working,
      Recorded, Fenced
<1>9. Written'
  <2>1. work' = None
    BY DEF CrashEdge
  <2> QED BY <1>0, <1>u, <2>1 DEF Inductive, Written, Stored
<1>10. Kicked'
  BY <1>0, <1>u, Disjoint, CommandsAssumption
  DEF CrashEdge, Fault, Inductive, Shape, ClientShape, EdgeShape, Works, Working, Kicked, Revoked
<1> QED BY <1>1, <1>2, <1>3, <1>4, <1>5, <1>6, <1>7, <1>8, <1>9, <1>10 DEF Inductive, Shape

(* The controller dies. *)
LEMMA CrashControllerKeeps == ASSUME Inductive, CrashController PROVE Inductive'
<1>0. down' \in Seq(Commands) /\ up' \in Seq(Results) /\ Range(down') = {} /\ Range(up') = {}
  BY RangeEmpty DEF CrashController
<1>u. UNCHANGED <<row, rev, nextRev, order, catalog, received, skipped, work, applied, file, denied,
                  active, core, leases, effects, reauths, took>>
  BY DEF CrashController, Fault, controllerVars, recordVars, stateVars
<1>1. (EdgeShape /\ ClientShape)'
  BY <1>u DEF Inductive, Shape, Stored, EdgeShape, ClientShape
<1>2. (Working /\ Fenced /\ Shown /\ Kicked)'
  BY <1>u DEF Inductive, Shape, Stored, Working, Fenced, Shown, Kicked, Revoked
<1>3. ControllerShape'
  <2>1. unsent' = {} /\ waiting' = {} /\ batch' = {}
    BY DEF CrashController
  <2>2. unsent' \cup waiting' \cup batch' \subseteq Stored' /\ waiting' \subseteq Waited
    BY <2>1
  <2> QED BY <1>u, <2>2 DEF Inductive, Shape, ControllerShape, Stored
<1>4. StreamShape'
  BY <1>0, <1>u, Disjoint DEF CrashController, Fault, Inductive, Shape, StreamShape, Stored
<1>5. Recorded'
  BY <1>0, <1>u, Disjoint
  DEF CrashController, Fault, Inductive, Shape, ControllerShape, StreamShape, EdgeShape, Stored,
      Working, Recorded, Results, Works
<1>6. Written'
  BY <1>0, <1>u, Disjoint
  DEF CrashController, Fault, Inductive, Shape, ControllerShape, StreamShape, EdgeShape, Stored,
      Works, Working, Fenced, Written, Results
<1> QED BY <1>1, <1>2, <1>3, <1>4, <1>5, <1>6 DEF Inductive, Shape

(* A finished command is answered from its record; another begins, or begins again. *)
LEMMA BeginCommandKeeps == ASSUME Inductive, BeginCommand PROVE Inductive'
<1>u. UNCHANGED <<row, rev, nextRev, order, unsent, batch, waiting, catalog, down, skipped, applied, file, denied, active, core,
                  leases, effects, reauths, took>>
  BY DEF BeginCommand, controllerVars, stateVars
<1>w. work # None /\ work \in Works /\ work.pc = "begin" /\ work.cmd \in Stored /\ work.cmd \in Commands
  BY DEF BeginCommand, At, Inductive, Shape, EdgeShape, Stored
<1>1. (ControllerShape /\ ClientShape /\ Shown)'
  BY <1>u DEF Inductive, Shape, Stored, ControllerShape, ClientShape, Shown
<1>2. CASE /\ received[work.cmd] \in Finished
           /\ Reply(received[work.cmd], work.cmd \in skipped)
           /\ UNCHANGED received
  <2>0. PICK p \in BOOLEAN : p = (work.cmd \in skipped)
    BY TruthValue
  <2> DEFINE r == [cmd |-> work.cmd, status |-> received[work.cmd], superseded |-> p]
  <2>a. Reply(received[work.cmd], p)
    BY <1>2, <2>0
  <2>1. up' \in Seq(Results) /\ work' = None /\ \A m \in Range(up') : m \in Range(up) \/ m = r
    BY <1>2, <1>w, <2>a, ReplyAdds DEF Inductive
  <2>2. (StreamShape /\ EdgeShape)'
    <3>1. r.cmd = work.cmd
      OBVIOUS
    <3>2. \A m \in Range(up') : m.cmd \in Stored
      BY <1>w, <2>1, <3>1 DEF Inductive, Shape, StreamShape
    <3>3. StreamShape'
      BY <1>u, <2>1, <3>2 DEF Inductive, Shape, StreamShape, Stored
    <3>4. EdgeShape'
      BY <1>2, <1>u, <2>1 DEF Inductive, Shape, EdgeShape, Stored
    <3> QED BY <3>3, <3>4
  <2>3. Recorded'
    <3>1. r.cmd = work.cmd /\ r.status = received[work.cmd] /\ (r.superseded <=> work.cmd \in skipped)
      BY <2>0
    <3>2. \A m \in Range(up') : m.status = "succeeded" =>
             received[m.cmd] = "succeeded" /\ (m.superseded <=> m.cmd \in skipped)
      BY <2>1, <3>1 DEF Inductive, Recorded
    <3> QED BY <1>2, <1>u, <3>2 DEF Inductive, Recorded
  <2>4. (Working /\ Fenced /\ Kicked)'
    BY <1>2, <1>u, <2>1 DEF Inductive, Working, Fenced, Kicked, Revoked
  <2>5. Written'
    BY <1>2, <1>u, <2>1, SMTT(30), Z3T(30) DEF Inductive, Written, Stored
  <2> QED BY <1>1, <2>2, <2>3, <2>4, <2>5 DEF Inductive, Shape
<1>3. CASE /\ received[work.cmd] \notin Finished
           /\ received' = [received EXCEPT ![work.cmd] = "executing"]
           /\ Goto("check") /\ UNCHANGED up
  <2>1. work' = [work EXCEPT !.pc = "check"] /\ work' \in Works /\ up' = up
    BY <1>3, <1>w DEF Goto, Works, Steps
  <2>2. /\ received' \in [Commands -> {"none", "executing"} \cup Finished] /\ received'[work.cmd] = "executing"
        /\ \A c \in Commands \ {work.cmd} : received'[c] = received[c]
        /\ received[work.cmd] # "succeeded"
    BY <1>3, <1>w DEF Inductive, Shape, EdgeShape, Finished
  <2>3. (StreamShape /\ EdgeShape)'
    BY <1>u, <1>w, <2>1, <2>2 DEF Inductive, Shape, StreamShape, EdgeShape, Stored, Works
  <2>4. Working'
    BY <1>u, <1>w, <2>1, <2>2 DEF Inductive, Working, Works
  <2>5. Recorded'
    BY <1>u, <1>w, <2>1, <2>2, Disjoint, SMTT(30), Z3T(30)
    DEF Inductive, Recorded, Shape, EdgeShape, StreamShape, Stored
  <2>6. Fenced'
    BY <1>u, <1>w, <2>1, <2>2, Disjoint DEF Inductive, Fenced, Works
  <2>7. Written'
    BY <1>u, <1>w, <2>1, <2>2, Disjoint DEF Inductive, Written, Stored, Works
  <2>8. Kicked'
    BY <1>u, <1>w, <2>1, <2>2, Disjoint DEF Inductive, Kicked, Revoked, Works
  <2> QED BY <1>1, <2>3, <2>4, <2>5, <2>6, <2>7, <2>8 DEF Inductive, Shape
<1> QED BY <1>2, <1>3 DEF BeginCommand

(* The settings of a configuration that was not superseded are not older than what is
   confirmed. *)
LEMMA WriteSettingsKeeps == ASSUME Inductive, Effect, WriteSettings PROVE Inductive'
<1>u. UNCHANGED <<row, rev, nextRev, order, unsent, batch, waiting, catalog, down, up, received, skipped, applied, denied,
                  active, core, leases, effects, reauths>>
  BY DEF Effect, WriteSettings, controllerVars, streamVars
<1>w. work # None /\ work \in Works /\ work.pc = "effect" /\ work.cmd \in Stored /\ work.cmd \in Configs
  BY DEF Effect, WriteSettings, At, Inductive, Shape, EdgeShape
<1>1. work' = [work EXCEPT !.pc = "confirm", !.status = "succeeded"] /\ file' = rev[work.cmd] /\ took' = took \cup {work.cmd}
  BY <1>w, Disjoint DEF Effect, WriteSettings, Succeed
<1>2. work' \in Works /\ file' \in Nat /\ work'.cmd = work.cmd /\ work'.pc = "confirm" /\ work'.superseded = work.superseded
  BY <1>1, <1>w DEF Works, Steps, Finished, Inductive, Shape, ControllerShape
<1>3. (ControllerShape /\ StreamShape /\ ClientShape /\ Shown)'
  BY <1>u DEF Inductive, Shape, Stored, ControllerShape, StreamShape, ClientShape, Shown
<1>4. EdgeShape'
  BY <1>u, <1>w, <1>2 DEF Inductive, Shape, EdgeShape, Stored
<1>5. (Working /\ Recorded)'
  BY <1>u, <1>w, <1>1, <1>2, SMTT(30), Z3T(30) DEF Inductive, Working, Recorded
<1>6. Fenced'
  BY <1>u, <1>w, <1>1, <1>2 DEF Inductive, Fenced
<1>7. (Written /\ Kicked)'
  BY <1>u, <1>w, <1>1, <1>2, Disjoint DEF Inductive, Written, Kicked, Revoked, Stored
<1> QED BY <1>3, <1>4, <1>5, <1>6, <1>7 DEF Inductive, Shape

(* A block and a cut only move the worker to its end. *)
LEMMA SetBlockKeeps == ASSUME Inductive, Effect, SetBlock \/ Cut PROVE Inductive'
<1>u. UNCHANGED <<row, rev, nextRev, order, unsent, batch, waiting, catalog, down, up, received, skipped, applied, file, denied,
                  active, core, leases, effects, reauths>>
  BY DEF Effect, SetBlock, Cut, controllerVars, streamVars
<1>w. work # None /\ work \in Works /\ work.pc = "effect" /\ work.cmd \in Stored /\ work.cmd \notin Configs \cup Kicks
  BY Disjoint DEF Effect, SetBlock, Cut, At, Inductive, Shape, EdgeShape
<1>1. /\ work' \in Works /\ work'.cmd = work.cmd /\ work'.pc = "finish" /\ work'.superseded = work.superseded
      /\ took \subseteq took' /\ (work'.status = "succeeded" => work.status = "succeeded" \/ work.cmd \in took')
  BY <1>w, Disjoint DEF Effect, SetBlock, Cut, Succeed, Goto, Works, Steps, Finished
<1>3. (ControllerShape /\ StreamShape /\ ClientShape /\ Shown)'
  BY <1>u DEF Inductive, Shape, Stored, ControllerShape, StreamShape, ClientShape, Shown
<1>4. EdgeShape'
  BY <1>u, <1>w, <1>1 DEF Inductive, Shape, EdgeShape, Stored
<1>5. (Working /\ Recorded)'
  BY <1>u, <1>w, <1>1 DEF Inductive, Working, Recorded
<1>6. (Fenced /\ Written /\ Kicked)'
  BY <1>u, <1>w, <1>1 DEF Inductive, Fenced, Written, Kicked, Revoked, Stored
<1> QED BY <1>3, <1>4, <1>5, <1>6 DEF Inductive, Shape

(* The transaction of a kick records the leases it revokes, once. *)
LEMMA KickKeeps == ASSUME Inductive, Effect, Kick PROVE Inductive'
<1>u. UNCHANGED <<row, rev, nextRev, order, unsent, batch, waiting, catalog, down, up, received, skipped, applied, file, denied,
                  core, leases>>
  BY DEF Effect, Kick, controllerVars, streamVars
<1>w. work # None /\ work \in Works /\ work.pc = "effect" /\ work.cmd \in Stored /\ work.cmd \in Kicks
  BY DEF Effect, Kick, At, Inductive, Shape, EdgeShape
<1>1. /\ work' \in Works /\ work'.cmd = work.cmd /\ work'.pc = "core" /\ work'.superseded = work.superseded
      /\ work'.status = work.status /\ took' = took \cup {work.cmd}
  BY <1>w, Disjoint DEF Effect, Kick, Goto, Works, Steps
<1>2. active \subseteq 1..leases /\ active # None
  <2>1. active \in SUBSET (1..MaxLeases)
    BY CommandsAssumption, SMTT(30), Z3T(30) DEF Inductive, Shape, ClientShape
  <2> QED BY <2>1, CommandsAssumption DEF Inductive, Shape, ClientShape
<1>3. ClientShape'
  <2>1. CASE effects[work.cmd] # None
    BY <1>u, <2>1 DEF Effect, Kick, Inductive, Shape, ClientShape
  <2>2. CASE effects[work.cmd] = None
    <3>1. active' = {} /\ DOMAIN effects' = Kicks
      BY <2>2 DEF Effect, Kick, Inductive, Shape, ClientShape
    <3>2. reauths' \in [Kicks -> Nat]
      BY <1>w, <2>2, SMTT(30), Z3T(30) DEF Effect, Kick, Inductive, Shape, ClientShape
    <3> QED BY <1>u, <3>1, <3>2 DEF Inductive, Shape, ClientShape
  <2> QED BY <2>1, <2>2
<1>4. EdgeShape'
  BY <1>u, <1>w, <1>1 DEF Inductive, Shape, EdgeShape, Stored
<1>5. (Working /\ Recorded)'
  BY <1>u, <1>w, <1>1 DEF Inductive, Working, Recorded
<1>6. Kicked'
  <2>1. CASE effects[work.cmd] # None
    BY <1>u, <1>w, <1>1, <2>1 DEF Effect, Kick, Inductive, Kicked, Revoked, Working
  <2>2. CASE effects[work.cmd] = None
    <3>1. effects' = [effects EXCEPT ![work.cmd] = active] /\ active' = {} /\ reauths' = [reauths EXCEPT ![work.cmd] = @ + 1]
      BY <2>2 DEF Effect, Kick
    <3>2. effects'[work.cmd] = active /\ reauths'[work.cmd] = 1
      BY <1>w, <2>2, <3>1, SMTT(30), Z3T(30) DEF Inductive, Shape, ClientShape, Kicked
    <3>3. \A c \in Kicks \ {work.cmd} : effects'[c] = effects[c] /\ reauths'[c] = reauths[c]
      BY <3>1 DEF Inductive, Shape, ClientShape
    <3>4. ASSUME NEW c \in Kicks
          PROVE  \/ effects'[c] = None /\ reauths'[c] = 0
                 \/ effects'[c] # None /\ effects'[c] \subseteq 1..leases /\ effects'[c] \cap active' = {} /\ reauths'[c] = 1
      <4>1. CASE c = work.cmd
        BY <1>2, <3>1, <3>2, <4>1
      <4>2. CASE c # work.cmd
        BY <3>1, <3>3, <4>2 DEF Inductive, Kicked
      <4> QED BY <4>1, <4>2
    <3>5. received[work.cmd] = "executing"
      BY <1>w DEF Inductive, Working
    <3>6. ASSUME NEW c \in Kicks, received[c] = "succeeded" PROVE Revoked(c)'
      BY <1>u, <3>3, <3>5, <3>6 DEF Inductive, Kicked, Revoked
    <3> QED BY <1>u, <1>w, <1>1, <1>2, <3>2, <3>4, <3>6 DEF Kicked
  <2> QED BY <2>1, <2>2
<1>7. (ControllerShape /\ StreamShape /\ Shown)'
  BY <1>u DEF Inductive, Shape, Stored, ControllerShape, StreamShape, Shown
<1>8. (Fenced /\ Written)'
  BY <1>u, <1>w, <1>1, Disjoint DEF Inductive, Fenced, Written, Stored
<1> QED BY <1>3, <1>4, <1>5, <1>6, <1>7, <1>8 DEF Inductive, Shape

\* Each effect of a command keeps the invariant.
LEMMA EffectKeeps == ASSUME Inductive, Effect PROVE Inductive'
BY WriteSettingsKeeps, SetBlockKeeps, KickKeeps DEF Effect

(* What is confirmed is what the worker has just written. *)
LEMMA ConfirmKeeps == ASSUME Inductive, ConfirmConfiguration PROVE Inductive'
<1>u. UNCHANGED <<row, rev, nextRev, order, unsent, batch, waiting, catalog, down, up, received, skipped, file, denied, active,
                  core, leases, effects, reauths, took>>
  BY DEF ConfirmConfiguration, controllerVars, streamVars
<1>w. work # None /\ work \in Works /\ work.pc = "confirm" /\ work.cmd \in Stored /\ work.cmd \in Configs
  BY DEF ConfirmConfiguration, At, Inductive, Shape, EdgeShape, Working
<1>1. /\ work' \in Works /\ work'.cmd = work.cmd /\ work'.pc = "finish" /\ work'.superseded = work.superseded
      /\ work'.status = work.status
  BY <1>w DEF ConfirmConfiguration, Goto, Works, Steps
<1>2. applied \in Nat /\ file \in Nat /\ catalog \in Nat /\ \A c \in Configs : rev[c] \in Nat
  BY DEF Inductive, Shape, ControllerShape, EdgeShape
<1>3. applied <= file /\ file = rev[work.cmd]
  BY <1>w DEF Inductive, Fenced
<1>4. applied' = file
  BY <1>2, <1>3, MaxOfTwo DEF ConfirmConfiguration
<1>5. (ControllerShape /\ StreamShape /\ ClientShape)'
  BY <1>u DEF Inductive, Shape, Stored, ControllerShape, StreamShape, ClientShape
<1>6. EdgeShape'
  BY <1>u, <1>w, <1>1, <1>2, <1>4 DEF Inductive, Shape, EdgeShape, Stored
<1>7. Working'
  BY <1>u, <1>w, <1>1 DEF Inductive, Working
<1>8. Recorded'
  BY <1>u, <1>2, <1>3, <1>4, SMTT(30), Z3T(30) DEF Inductive, Recorded, Shape, EdgeShape
<1>9. Fenced'
  <2>1. applied' <= file' /\ rev[work.cmd] <= applied'
    BY <1>u, <1>w, <1>2, <1>3, <1>4, SMTT(30), Z3T(30)
  <2>2. \A c \in Configs : rev[c] <= applied => rev[c] <= applied'
    <3>1. \A a, b, n \in Nat : n <= a /\ a <= b => n <= b
      BY SMT, Z3
    <3> QED BY <1>2, <1>3, <1>4, <3>1
  <2> QED BY <1>u, <1>w, <1>1, <2>1, <2>2 DEF Inductive, Fenced
<1>10. Shown'
  BY <1>u, <1>2, <1>3, <1>4, SMTT(30), Z3T(30) DEF Inductive, Shown
<1>11. work.status = "succeeded"
  BY <1>w, <1>1 DEF Inductive, Working
<1>12. (Written /\ Kicked)'
  BY <1>u, <1>w, <1>1, <1>11, Disjoint DEF Inductive, Written, Kicked, Revoked, Stored
<1> QED BY <1>5, <1>6, <1>7, <1>8, <1>9, <1>10, <1>12 DEF Inductive, Shape

(* The record says what the worker has done, and so does the reply. *)
LEMMA FinishCommandKeeps == ASSUME Inductive, FinishCommand PROVE Inductive'
<1>u. UNCHANGED <<row, rev, nextRev, order, unsent, batch, waiting, catalog, down, applied, file, denied, active, core, leases,
                  effects, reauths, took>>
  BY DEF FinishCommand, controllerVars, stateVars
<1>w. /\ work # None /\ work \in Works /\ work.pc = "finish" /\ work.cmd \in Stored /\ work.cmd \in Commands
      /\ received[work.cmd] = "executing"
  BY DEF FinishCommand, At, Inductive, Shape, EdgeShape, Stored, Working
<1> DEFINE r == [cmd |-> work.cmd, status |-> work.status, superseded |-> work.superseded]
<1>1. up' \in Seq(Results) /\ work' = None /\ \A m \in Range(up') : m \in Range(up) \/ m = r
  BY <1>w, ReplyAdds DEF FinishCommand, Inductive, Works
<1>2. /\ received' \in [Commands -> {"none", "executing"} \cup Finished] /\ received'[work.cmd] = work.status
      /\ \A c \in Commands \ {work.cmd} : received'[c] = received[c]
  BY <1>w DEF FinishCommand, Inductive, Shape, EdgeShape, Works, Finished
<1>3. /\ \A c \in Commands \ {work.cmd} : c \in skipped' <=> c \in skipped
      /\ work.cmd \in skipped' <=> work.superseded
      /\ skipped' \subseteq Configs
  BY <1>w DEF FinishCommand, Inductive, Shape, EdgeShape, Works, Working
<1>4. (ControllerShape /\ ClientShape /\ Shown)'
  BY <1>u DEF Inductive, Shape, Stored, ControllerShape, ClientShape, Shown
<1>5. (StreamShape /\ EdgeShape)'
  <2>1. r.cmd = work.cmd
    OBVIOUS
  <2>2. \A m \in Range(up') : m.cmd \in Stored
    BY <1>w, <1>1, <2>1 DEF Inductive, Shape, StreamShape
  <2>3. StreamShape'
    BY <1>u, <1>1, <2>2 DEF Inductive, Shape, StreamShape, Stored
  <2>4. \A c \in Commands : received'[c] # "none" => c \in Stored
    BY <1>w, <1>2 DEF Inductive, Shape, EdgeShape
  <2>5. EdgeShape'
    BY <1>u, <1>1, <1>2, <1>3, <2>4 DEF Inductive, Shape, EdgeShape, Stored
  <2> QED BY <2>3, <2>5
<1>6. Working'
  BY <1>1 DEF Working
<1>7. Recorded'
  <2>1. \A c \in Commands : received'[c] = "succeeded" => c \in took' \cup skipped'
    BY <1>u, <1>w, <1>2, <1>3 DEF Inductive, Recorded, Working, Works
  <2>2. \A c \in skipped' : received'[c] = "succeeded" /\ rev'[c] < applied'
    <3>1. SUFFICES ASSUME NEW c \in skipped' PROVE received'[c] = "succeeded" /\ rev[c] < applied
      BY <1>u
    <3>2. c \in Commands
      BY <1>3, Disjoint
    <3>3. CASE c = work.cmd
      BY <1>w, <1>2, <1>3, <3>1, <3>3 DEF Inductive, Working
    <3>4. CASE c # work.cmd
      BY <1>2, <1>3, <3>1, <3>2, <3>4 DEF Inductive, Recorded
    <3> QED BY <3>3, <3>4
  <2>3. ASSUME NEW m \in Range(up'), m.status = "succeeded"
        PROVE  received'[m.cmd] = "succeeded" /\ (m.superseded <=> m.cmd \in skipped')
    <3>1. CASE m = r
      BY <3>1, <2>3, <1>w, <1>2, <1>3
    <3>2. CASE m \in Range(up)
      BY <3>2, <2>3, <1>w, <1>2, <1>3 DEF Inductive, Recorded, Shape, StreamShape, Stored
    <3> QED BY <3>1, <3>2, <1>1
  <2>4. \A c \in Commands : row'[c] = "succeeded" => received'[c] = "succeeded"
    BY <1>u, <1>w, <1>2 DEF Inductive, Recorded
  <2> QED BY <2>1, <2>2, <2>3, <2>4 DEF Recorded
<1>8. Fenced'
  BY <1>u, <1>w, <1>1, <1>2, Disjoint DEF Inductive, Fenced
<1>9. Written'
  <2>1. file' = 0 \/ \E c \in (Configs \cap Stored)' : rev'[c] = file'
    BY <1>u DEF Inductive, Written, Stored
  <2>2. ASSUME ~denied PROVE work.cmd \in Configs => work.status = "succeeded"
    BY <1>w, <2>2 DEF Inductive, Written
  <2>3. ASSUME ~denied PROVE \A c \in Configs : row[c] # "failed" /\ received'[c] # "failed"
    BY <1>2, <2>2, <2>3, Disjoint DEF Inductive, Written
  <2>4. r.cmd = work.cmd /\ r.status = work.status
    OBVIOUS
  <2>5. ASSUME ~denied PROVE \A m \in Range(up') : m.cmd \in Configs => m.status # "failed"
    BY <1>1, <2>2, <2>4, <2>5 DEF Inductive, Written
  <2> QED BY <1>u, <1>1, <2>1, <2>3, <2>5 DEF Written
<1>10. Kicked'
  BY <1>u, <1>w, <1>1, <1>2, Disjoint DEF Inductive, Kicked, Revoked
<1> QED BY <1>4, <1>5, <1>6, <1>7, <1>8, <1>9, <1>10 DEF Inductive, Shape

(* A statement fails: the work ends in "retry", or the command has failed. *)
LEMMA StatementFailsKeeps == ASSUME Inductive, StatementFails PROVE Inductive'
<1>u. UNCHANGED <<row, rev, nextRev, order, unsent, batch, waiting, catalog, down, received, skipped, applied, file, denied,
                  active, core, leases, effects, reauths, took>>
  BY DEF StatementFails, controllerVars, stateVars
<1>w. work # None /\ work \in Works /\ work.cmd \in Stored /\ work.cmd \in Commands
  BY DEF StatementFails, Inductive, Shape, EdgeShape, Stored
<1>1. (ControllerShape /\ ClientShape /\ Shown)'
  BY <1>u DEF Inductive, Shape, Stored, ControllerShape, ClientShape, Shown
<1>2. CASE Reply("retry", FALSE)
  <2> DEFINE r == [cmd |-> work.cmd, status |-> "retry", superseded |-> FALSE]
  <2>1. up' \in Seq(Results) /\ work' = None /\ \A m \in Range(up') : m \in Range(up) \/ m = r
    BY <1>2, <1>w, ReplyAdds DEF Inductive
  <2>2. (StreamShape /\ EdgeShape)'
    BY <1>u, <1>w, <2>1, SMTT(30), Z3T(30) DEF Inductive, Shape, StreamShape, EdgeShape, Stored
  <2>3. (Working /\ Recorded)'
    <3>1. Working'
      BY <2>1 DEF Working
    <3>2. r.status = "retry"
      OBVIOUS
    <3>3. \A m \in Range(up') : m.status = "succeeded" => m \in Range(up)
      BY <2>1, <3>2
    <3> QED BY <1>u, <3>1, <3>3 DEF Inductive, Recorded
  <2>4. (Fenced /\ Written /\ Kicked)'
    BY <1>u, <2>1, SMTT(30), Z3T(30) DEF Inductive, Fenced, Written, Kicked, Revoked, Stored
  <2> QED BY <1>1, <2>2, <2>3, <2>4 DEF Inductive, Shape
<1>3. CASE work.pc = "effect" /\ work.cmd \in Kicks \cup Blocks \cup Unblocks /\ Goto("finish") /\ UNCHANGED up
  <2>1. /\ work' \in Works /\ work'.cmd = work.cmd /\ work'.pc = "finish" /\ work'.superseded = work.superseded
        /\ work'.status = work.status /\ up' = up /\ work.cmd \notin Configs
    BY <1>3, <1>w, Disjoint DEF Goto, Works, Steps
  <2>2. (StreamShape /\ EdgeShape)'
    BY <1>u, <1>w, <2>1 DEF Inductive, Shape, StreamShape, EdgeShape, Stored
  <2>3. (Working /\ Recorded)'
    BY <1>u, <1>w, <1>3, <2>1 DEF Inductive, Working, Recorded
  <2>4. (Fenced /\ Written /\ Kicked)'
    BY <1>u, <1>w, <1>3, <2>1 DEF Inductive, Fenced, Written, Kicked, Revoked, Stored, Working
  <2> QED BY <1>1, <2>2, <2>3, <2>4 DEF Inductive, Shape
<1> QED BY <1>2, <1>3 DEF StatementFails

-----------------------------------------------------------------------------
(* Results *)

(* A result that the edge's record vouches for is stored, once. *)
LEMMA CompleteKeeps ==
  ASSUME Inductive, NEW m \in Results, m.cmd \in Stored, CompleteNodeCommand(m),
         m.status = "succeeded" => received[m.cmd] = "succeeded" /\ (m.superseded <=> m.cmd \in skipped),
         ~denied /\ m.cmd \in Configs => m.status # "failed",
         up' \in Seq(Results), Range(up') \subseteq Range(up), waiting' \subseteq waiting,
         UNCHANGED <<rev, nextRev, order, unsent, batch, down, received, skipped, work, applied, file, denied, active, core,
                     leases, effects, reauths, took>>
  PROVE  Inductive'
<1> DEFINE status == IF m.status = "retry" THEN "pending" ELSE m.status
<1>1. (ClientShape /\ Working /\ Fenced /\ Kicked)'
  BY DEF Inductive, Shape, ClientShape, Working, Fenced, Kicked, Revoked
<1>2. CASE UNCHANGED <<row, catalog>>
  <2>1. (ControllerShape /\ StreamShape /\ EdgeShape)'
    BY <1>2 DEF Inductive, Shape, ControllerShape, StreamShape, EdgeShape, Stored
  <2>2. (Recorded /\ Shown /\ Written)'
    BY <1>2 DEF Inductive, Recorded, Shown, Written, Stored
  <2> QED BY <1>1, <2>1, <2>2 DEF Inductive, Shape
<1>3. CASE row[m.cmd] \notin Finished /\ row' = [row EXCEPT ![m.cmd] = status] /\ catalog' = CatalogAfter(row', m)
  <2>0. m.cmd \in Commands /\ status \in {"pending"} \cup Finished
    BY DEF Results, Stored, Finished
  <2>1. /\ row' \in [Commands -> {"none", "pending", "delivered"} \cup Finished] /\ row'[m.cmd] = status
        /\ \A c \in Commands \ {m.cmd} : row'[c] = row[c]
        /\ row[m.cmd] # "succeeded"
    BY <1>3, <2>0 DEF Inductive, Shape, ControllerShape, Finished
  <2>2. Stored' = Stored
    BY <2>0, <2>1 DEF Stored, Finished
  <2>3. /\ applied \in Nat /\ catalog \in Nat /\ \A c \in Configs : rev[c] \in Nat
        /\ \A c \in Configs : row'[c] = "succeeded" => rev[c] <= applied
    <3>1. \A c \in Configs : row'[c] = "succeeded" => received[c] = "succeeded"
      BY <2>0, <2>1, Disjoint DEF Inductive, Recorded
    <3> QED BY <3>1 DEF Inductive, Shape, ControllerShape, EdgeShape, Fenced
  <2>4. \/ /\ m.cmd \in Configs /\ m.status = "succeeded" /\ GreatestCompleted(row', m.cmd)
           /\ catalog' = rev[m.cmd]
        \/ /\ catalog' = catalog
           /\ m.cmd \in Configs /\ m.status = "succeeded" => m.superseded \/ ~GreatestCompleted(row', m.cmd)
    BY <1>3 DEF CatalogAfter
  <2>5. (ControllerShape /\ StreamShape /\ EdgeShape)'
    <3>1. catalog' \in Nat
      BY <2>3, <2>4
    <3> QED BY <2>1, <2>2, <3>1 DEF Inductive, Shape, ControllerShape, StreamShape, EdgeShape
  <2>6. Recorded'
    BY <2>0, <2>1 DEF Inductive, Recorded
  <2>7. Written'
    <3>1. ~denied => \A c \in Configs : row'[c] # "failed"
      BY <2>0, <2>1, Disjoint DEF Inductive, Written
    <3> QED BY <2>2, <3>1 DEF Inductive, Written
  <2>8. Shown'
    <3>1. CASE m.cmd \in Configs /\ m.status = "succeeded" /\ GreatestCompleted(row', m.cmd) /\ catalog' = rev[m.cmd]
      BY <3>1, <2>0, <2>1, <2>3 DEF Shown, GreatestCompleted
    <3>2. CASE /\ catalog' = catalog
               /\ m.cmd \in Configs /\ m.status = "succeeded" => m.superseded \/ ~GreatestCompleted(row', m.cmd)
      <4>1. m.cmd \in Configs /\ m.status = "succeeded" => rev[m.cmd] < applied
        <5>1. CASE m.superseded
          BY <5>1 DEF Inductive, Recorded
        <5>2. CASE m.cmd \in Configs /\ ~GreatestCompleted(row', m.cmd)
          <6>1. PICK d \in Configs : row'[d] = "succeeded" /\ ~(rev[d] <= rev[m.cmd])
            BY <5>2 DEF GreatestCompleted
          <6>2. rev[d] \in Nat /\ rev[m.cmd] \in Nat /\ applied \in Nat /\ rev[d] <= applied
            BY <5>2, <2>3, <6>1
          <6>3. \A a, b, n \in Nat : ~(b <= a) /\ b <= n => a < n
            BY SMT, Z3
          <6> QED BY <6>1, <6>2, <6>3
        <5> QED BY <3>2, <5>1, <5>2
      <4> QED BY <3>2, <4>1, <2>0, <2>1, <2>3, Disjoint DEF Inductive, Shown
    <3> QED BY <2>4, <3>1, <3>2
  <2> QED BY <1>1, <2>5, <2>6, <2>7, <2>8 DEF Inductive, Shape
<1> QED BY <1>2, <1>3 DEF CompleteNodeCommand

(* The result is stored, replaced by "retry" or "failed" where a handler waits, or lost. *)
LEMMA PersistKeeps == ASSUME Inductive, PersistResult \/ PersistFails \/ ResultDropped PROVE Inductive'
<1>u. UNCHANGED <<rev, nextRev, order, unsent, batch, down, received, skipped, work, applied, file, denied, active, core,
                  leases, effects, reauths, took>>
  BY DEF PersistResult, PersistFails, ResultDropped, recordVars, stateVars
<1>1. up # <<>> /\ up' = Tail(up) /\ waiting' \subseteq waiting
  BY DEF PersistResult, PersistFails, ResultDropped
<1>2. Head(up) \in Range(up) /\ Head(up) \in Results /\ up' \in Seq(Results) /\ Range(up') \subseteq Range(up)
  BY <1>1, RangeTail DEF Inductive, Shape, StreamShape
<1>3. Head(up).cmd \in Stored
  BY <1>2 DEF Inductive, Shape, StreamShape
<1>4. /\ Head(up).status = "succeeded" =>
           received[Head(up).cmd] = "succeeded" /\ (Head(up).superseded <=> Head(up).cmd \in skipped)
      /\ ~denied /\ Head(up).cmd \in Configs => Head(up).status # "failed"
  BY <1>2 DEF Inductive, Recorded, Written
<1>5. CASE PersistResult
  BY <1>u, <1>1, <1>2, <1>3, <1>4, <1>5, CompleteKeeps DEF PersistResult
<1>6. CASE UNCHANGED <<row, catalog>>
  <2>1. (ControllerShape /\ StreamShape /\ EdgeShape /\ ClientShape)'
    BY <1>u, <1>1, <1>2, <1>6
    DEF Inductive, Shape, ControllerShape, StreamShape, EdgeShape, ClientShape, Stored
  <2>2. (Working /\ Recorded /\ Fenced)'
    BY <1>u, <1>2, <1>6 DEF Inductive, Working, Recorded, Fenced
  <2>3. (Shown /\ Written /\ Kicked)'
    BY <1>u, <1>2, <1>6 DEF Inductive, Shown, Written, Kicked, Revoked, Stored
  <2> QED BY <2>1, <2>2, <2>3 DEF Inductive, Shape
<1>7. ASSUME NEW s \in {"retry", "failed"}, Head(up).cmd \in waiting, CompleteNodeCommand([Head(up) EXCEPT !.status = s])
      PROVE  Inductive'
  <2> DEFINE m == [Head(up) EXCEPT !.status = s]
  <2>1. m \in Results /\ m.cmd = Head(up).cmd /\ m.status = s
    BY <1>2 DEF Results, Finished
  <2>2. m.cmd \notin Configs
    BY <1>7, <2>1, Disjoint DEF Inductive, Shape, ControllerShape, Waited
  <2> HIDE DEF m
  <2>3. CompleteNodeCommand(m)
    BY <1>7 DEF m
  <2> QED BY <1>u, <1>1, <1>2, <1>3, <2>1, <2>2, <2>3, CompleteKeeps
<1> QED BY <1>5, <1>6, <1>7 DEF PersistFails, ResultDropped

-----------------------------------------------------------------------------
\* The invariant holds before the first command.
LEMMA InitInductive == Init => Inductive
<1> SUFFICES ASSUME Init PROVE Inductive
  OBVIOUS
<1>0. Range(<<>>) = {} /\ <<>> \in Seq(Commands) /\ <<>> \in Seq(Results)
  BY RangeEmpty
<1>1. ControllerShape
  BY <1>0, Disjoint, SMTT(30), Z3T(30) DEF Init, ControllerShape, Stored
<1>2. StreamShape /\ EdgeShape
  BY <1>0 DEF Init, StreamShape, EdgeShape
<1>3. ClientShape
  BY CommandsAssumption, SMTT(30), Z3T(30) DEF Init, ClientShape
<1>4. Working /\ Recorded /\ Fenced
  BY <1>0, Disjoint, SMTT(30), Z3T(30) DEF Init, Working, Recorded, Fenced
<1>5. Shown /\ Written /\ Kicked
  BY <1>0, Disjoint, SMTT(30), Z3T(30) DEF Init, Shown, Written, Kicked
<1> QED BY <1>1, <1>2, <1>3, <1>4, <1>5 DEF Inductive, Shape

\* A step that changes nothing keeps the invariant.
LEMMA StutterKeeps == ASSUME Inductive, UNCHANGED vars PROVE Inductive'
<1>1. (ControllerShape /\ StreamShape /\ EdgeShape /\ ClientShape)'
  BY
  DEF vars, controllerVars, streamVars, recordVars, stateVars, Inductive, Shape, ControllerShape,
      StreamShape, EdgeShape, ClientShape, Stored
<1>2. (Working /\ Recorded /\ Fenced)'
  BY
  DEF vars, controllerVars, streamVars, recordVars, stateVars, Inductive, Working, Recorded, Fenced
<1>3. (Shown /\ Written /\ Kicked)'
  BY
  DEF vars, controllerVars, streamVars, recordVars, stateVars, Inductive, Shown, Written, Kicked,
      Revoked, Stored
<1> QED BY <1>1, <1>2, <1>3 DEF Inductive, Shape

\* Every step keeps the invariant.
LEMMA NextKeeps == ASSUME Inductive, [Next]_vars PROVE Inductive'
BY AllocateRevisionKeeps, CreateNodeCommandKeeps, HandlerSendsKeeps, HandlerGivesUpKeeps,
   ListPendingKeeps, DispatchNextKeeps, PersistKeeps, TakeCommandKeeps, BeginCommandKeeps,
   CheckCommandKeeps, EffectKeeps, RefuseKeeps, TerminateLeasesKeeps, ConfirmKeeps,
   FinishCommandKeeps, StatementFailsKeeps, LoginKeeps, SetPermissionKeeps, ConnectKeeps,
   BreakStreamKeeps, CrashEdgeKeeps, CrashControllerKeeps, StutterKeeps
DEF Next

-----------------------------------------------------------------------------
(* What is proved *)

(* The tables, queues and the worker stay in their domains, for any commands. *)
THEOREM TypeCorrect == Spec => []TypeOK
<1>1. Inductive => TypeOK
  <2> SUFFICES ASSUME Inductive PROVE TypeOK
    OBVIOUS
  <2>1. rev \in [Configs -> 0..(nextRev - 1)]
    BY SMTT(30), Z3T(30) DEF Inductive, Shape, ControllerShape
  <2> QED BY <2>1
    DEF Inductive, Shape, ControllerShape, StreamShape, EdgeShape, ClientShape, TypeOK, Stored,
        Works
<1> QED BY <1>1, InitInductive, NextKeeps, PTL DEF Spec

(* The settings in the edge's file are never older than a confirmed revision, and the
   directory shows only confirmed ones: for any number of configuration commands, copies,
   reorderings, crashes and failing statements, configuration_revisions fences them. *)
THEOREM ConfirmedStays == Spec => []ConfirmedNotUndone
<1>1. Inductive => ConfirmedNotUndone
  BY DEF Inductive, Fenced, Shown, ConfirmedNotUndone
<1> QED BY <1>1, InitInductive, NextKeeps, PTL DEF Spec

(* Once every stored command has its result and the edge refused none, the directory
   shows exactly the settings in the edge's file. *)
THEOREM DirectoryConverges == Spec => []DirectoryAgrees
<1>1. Inductive => DirectoryAgrees
  <2> SUFFICES ASSUME Inductive, ~denied, \A c \in Commands : row[c] \in {"none"} \cup Finished
               PROVE  catalog = file
    BY DEF DirectoryAgrees
  <2>1. applied \in Nat /\ file \in Nat /\ catalog \in Nat /\ catalog <= applied /\ applied <= file
    BY DEF Inductive, Shape, ControllerShape, EdgeShape, Fenced, Shown
  <2>2. CASE file = 0
    BY <2>1, <2>2, SMTT(30), Z3T(30)
  <2>3. CASE file # 0
    <3>1. PICK c \in Configs \cap Stored : rev[c] = file
      BY <2>3 DEF Inductive, Written
    <3>2. row[c] = "succeeded"
      BY Disjoint DEF Inductive, Written, Stored, Finished
    <3>3. file <= catalog \/ file < applied
      BY <3>1, <3>2 DEF Inductive, Shown
    <3> QED BY <2>1, <3>3, SMTT(30), Z3T(30)
  <2> QED BY <2>2, <2>3
<1> QED BY <1>1, InitInductive, NextKeeps, PTL DEF Spec

(* A disconnect_client command enqueues one reauth at most, and has invalidated the
   leases of its first execution in the core when it is recorded as succeeded. *)
THEOREM KickIsIdempotent == Spec => []KickedOnce
<1>1. Inductive => KickedOnce
  BY SMTT(30), Z3T(30) DEF Inductive, Kicked, Revoked, KickedOnce
<1> QED BY <1>1, InitInductive, NextKeeps, PTL DEF Spec

(* A command stored as succeeded is recorded as succeeded at the edge and took effect,
   or was superseded by a later configuration. *)
THEOREM SuccessEndures == Spec => []SuccessIsDurable
<1>1. Inductive => SuccessIsDurable
  BY DEF Inductive, Recorded, SuccessIsDurable
<1> QED BY <1>1, InitInductive, NextKeeps, PTL DEF Spec

(* The directory never falls back to older settings, in whatever order the results of
   configuration commands are stored. *)
LEMMA StepAdvancesCatalog == ASSUME Inductive, [Next]_vars PROVE catalog' >= catalog
<1>0. catalog \in Nat /\ \A c \in Configs : rev[c] \in Nat
  BY DEF Inductive, Shape, ControllerShape
<1>1. CASE catalog' = catalog
  BY <1>0, <1>1, SMTT(30), Z3T(30)
<1>2. ASSUME NEW m, m.cmd \in Stored, CompleteNodeCommand(m) PROVE catalog' >= catalog
  <2>1. CASE catalog' = catalog
    BY <1>0, <2>1, SMTT(30), Z3T(30)
  <2>2. CASE catalog' # catalog
    <3>1. /\ row[m.cmd] \notin Finished /\ m.cmd \in Configs /\ GreatestCompleted(row', m.cmd) /\ catalog' = rev[m.cmd]
          /\ \A c \in Commands \ {m.cmd} : row'[c] = row[c]
      BY <1>2, <2>2 DEF CompleteNodeCommand, CatalogAfter, Inductive, Shape, ControllerShape
    <3>2. CASE catalog = 0
      BY <1>0, <3>1, <3>2, SMTT(30), Z3T(30)
    <3>3. CASE catalog # 0
      <4>1. PICK c \in Configs : row[c] = "succeeded" /\ rev[c] = catalog
        BY <3>3 DEF Inductive, Shown
      <4>2. row'[c] = "succeeded"
        BY <3>1, <4>1, Disjoint DEF Finished
      <4> QED BY <1>0, <3>1, <4>1, <4>2 DEF GreatestCompleted
    <3> QED BY <3>2, <3>3
  <2> QED BY <2>1, <2>2
<1>3. CASE PersistResult \/ PersistFails \/ ResultDropped
  <2>1. up # <<>>
    BY <1>3 DEF PersistResult, PersistFails, ResultDropped
  <2>2. Head(up) \in Range(up) /\ Head(up) \in Results
    BY <2>1, RangeTail DEF Inductive, Shape, StreamShape
  <2>3. Head(up).cmd \in Stored
    BY <2>2 DEF Inductive, Shape, StreamShape
  <2>4. \A s : [Head(up) EXCEPT !.status = s].cmd = Head(up).cmd
    BY <2>2 DEF Results
  <2> QED BY <1>1, <1>2, <1>3, <2>3, <2>4 DEF PersistResult, PersistFails, ResultDropped
<1> QED
  BY <1>1, <1>3
  DEF Next, vars, controllerVars, AllocateRevision, CreateNodeCommand, HandlerSends, HandlerGivesUp,
      ListPending, DispatchNext, TakeCommand, BeginCommand, CheckCommand, Effect, Refuse,
      TerminateLeases, ConfirmConfiguration, FinishCommand, StatementFails, Login, SetPermission,
      Connect, BreakStream, CrashEdge, CrashController

(* An older acknowledgement cannot roll the directory back (CompleteNodeCommand). *)
THEOREM DirectoryAdvances == Spec => CatalogNeverRollsBack
<1>1. Inductive /\ [Next]_vars => [catalog' >= catalog]_vars
  BY StepAdvancesCatalog
<1> QED BY <1>1, InitInductive, NextKeeps, PTL DEF Spec, CatalogNeverRollsBack
=============================================================================
