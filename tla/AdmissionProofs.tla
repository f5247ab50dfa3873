--------------------------- MODULE AdmissionProofs ---------------------------
(***************************************************************************)
(* Proofs about Admission for any number of control connections, proxies,  *)
(* leases and clients: type correctness, exactness of the proxy counters,  *)
(* that a zero count on a closed node means there is no open listener, and *)
(* that no listener is opened for a draining client.                       *)
(***************************************************************************)
EXTENDS Admission, FiniteSetTheorems, TLAPS

\* Leaves without a pragma are Zenon's; the ones about arithmetic cite SMT, with Z3 as a
\* second attempt.
USE ZenonT(30), ZenonT(60)

\* A registration in progress belongs to a live control connection, and while
\* it holds the read lock the gate it passed cannot change.
RegistrationOK ==
    \A r \in Runs :
        /\ login[r] # NoLease => control[r] = NoLease
        /\ reg[r].stage = "idle" => reg[r] = Idle
        /\ reg[r].stage # "idle" => control[r] \in Leases /\ reg[r].name \in Names
        /\ reg[r].stage \in {"authorized", "begun"} =>
              \A n \in Names : registered[r][n] # NoLease => n \in listeners[r]
        /\ reg[r].stage = "running" =>
              /\ reg[r].name \in listeners[r]
              /\ registered[r][reg[r].name] = NoLease
              /\ \A n \in Names : registered[r][n] # NoLease => n \in listeners[r]
        /\ Holding(r) =>
              /\ ~admissionClosed
              /\ runtimeLeases[control[r]] = "active"
              /\ ClientOf[control[r]] \notin draining

\* Registered proxies belong to the lease of their control connection, which
\* the core knows; an open listener is registered or about to be.
ProxiesOK ==
    \A r \in Runs : \A n \in Names :
        /\ registered[r][n] # NoLease =>
              /\ registered[r][n] = control[r]
              /\ runtimeLeases[registered[r][n]] # "unknown"
        /\ n \in listeners[r] =>
              /\ control[r] \in Leases
              /\ \/ registered[r][n] # NoLease
                 \/ reg[r].stage = "running" /\ reg[r].name = n

\* The inductive invariant.
AdmissionInv == TypeOK /\ RegistrationOK /\ ProxiesOK /\ CountsExact
-----------------------------------------------------------------------------
(* Counting *)

\* Any set of registrations is finite.
LEMMA ProxiesFinite ==
    \A S : /\ IsFiniteSet(ProxiesOf(S)) /\ Cardinality(ProxiesOf(S)) \in Nat
          /\ IsFiniteSet(ProxiesOf(S)') /\ Cardinality(ProxiesOf(S)') \in Nat
<1>1. IsFiniteSet(Runs \X Names)
  BY AdmissionAssumption, FS_Product
<1>2. \A S : ProxiesOf(S) \subseteq Runs \X Names /\ ProxiesOf(S)' \subseteq Runs \X Names
  BY DEF ProxiesOf
<1> QED
  BY <1>1, <1>2, FS_Subset, FS_CardinalityType

\* Removing a member of a finite set lowers its cardinality by one.
LEMMA RemoveMember ==
    ASSUME NEW S, IsFiniteSet(S), NEW x \in S
    PROVE  Cardinality(S \ {x}) = Cardinality(S) - 1
BY FS_RemoveElement

\* Registering a proxy under a free run and name adds one to every set of
\* leases that contains its lease.
LEMMA CountAdd ==
    ASSUME TypeOK, NEW r \in Runs, NEW n \in Names, NEW l \in Leases, NEW S \in SUBSET Leases,
           registered[r][n] = NoLease,
           registered' = [registered EXCEPT ![r][n] = l]
    PROVE  Cardinality(ProxiesOf(S)') = Cardinality(ProxiesOf(S)) + (IF l \in S THEN 1 ELSE 0)
<1> USE AdmissionAssumption DEF TypeOK
<1>1. <<r, n>> \notin ProxiesOf(S)
  BY DEF ProxiesOf
<1>2. CASE l \in S
  <2>1. ProxiesOf(S)' = ProxiesOf(S) \cup {<<r, n>>}
    BY <1>2, SMT, Z3 DEF ProxiesOf
  <2>2. Cardinality(ProxiesOf(S) \cup {<<r, n>>}) = Cardinality(ProxiesOf(S)) + 1
    BY <1>1, ProxiesFinite, FS_AddElement
  <2> QED
    BY <1>2, <2>1, <2>2
<1>3. CASE l \notin S
  <2>1. ProxiesOf(S)' = ProxiesOf(S)
    BY <1>3 DEF ProxiesOf
  <2> QED
    BY <1>3, <2>1, ProxiesFinite, SMT, Z3
<1> QED
  BY <1>2, <1>3

\* Removing one takes one from every set of leases that contains its lease.
LEMMA CountDrop ==
    ASSUME TypeOK, NEW r \in Runs, NEW n \in Names, NEW S \in SUBSET Leases,
           registered' = [registered EXCEPT ![r][n] = NoLease]
    PROVE  Cardinality(ProxiesOf(S)') =
               Cardinality(ProxiesOf(S)) - (IF registered[r][n] \in S THEN 1 ELSE 0)
<1> USE AdmissionAssumption DEF TypeOK
<1>1. CASE registered[r][n] \in S
  <2>1. ProxiesOf(S)' = ProxiesOf(S) \ {<<r, n>>}
    BY <1>1, SMT, Z3 DEF ProxiesOf
  <2>2. <<r, n>> \in ProxiesOf(S)
    BY <1>1 DEF ProxiesOf
  <2>3. Cardinality(ProxiesOf(S) \ {<<r, n>>}) = Cardinality(ProxiesOf(S)) - 1
    BY <2>2, ProxiesFinite, RemoveMember
  <2> QED
    BY <1>1, <2>1, <2>3
<1>2. CASE registered[r][n] \notin S
  <2>1. ProxiesOf(S)' = ProxiesOf(S)
    BY <1>2 DEF ProxiesOf
  <2> QED
    BY <1>2, <2>1, ProxiesFinite, SMT, Z3
<1> QED
  BY <1>1, <1>2

\* The counters stay exact when neither they nor the registrations change.
LEMMA CountsUnchanged ==
    ASSUME CountsExact, UNCHANGED countVars
    PROVE  CountsExact'
BY SMT, Z3 DEF CountsExact, ProxiesOf, countVars

-----------------------------------------------------------------------------
(* Every action preserves the invariant *)

\* A lease validated by the Login handler changes nothing the core counts.
LEMMA LoginCheckInv ==
    ASSUME AdmissionInv, NEW r \in Runs, NEW l \in Leases, LoginCheck(r, l)
    PROVE  AdmissionInv'
<1> USE AdmissionAssumption DEF AdmissionInv, dbVars, frpsVars, countVars, gateVars
<1>1. TypeOK'
  BY DEF TypeOK, LoginCheck, Idle
<1>2. RegistrationOK'
  BY DEF TypeOK, RegistrationOK, LoginCheck, Holding, Idle
<1>3. ProxiesOK'
  BY SMT, Z3 DEF ProxiesOK, LoginCheck
<1>4. CountsExact'
  BY CountsUnchanged DEF LoginCheck
<1> QED
  BY <1>1, <1>2, <1>3, <1>4

\* Remembering a lease starts a control connection that has no proxy yet.
LEMMA RememberRuntimeLeaseInv ==
    ASSUME AdmissionInv, NEW r \in Runs, RememberRuntimeLease(r)
    PROVE  AdmissionInv'
<1> USE AdmissionAssumption DEF AdmissionInv, dbVars, frpsVars, countVars, gateVars
<1>1. TypeOK'
  BY DEF TypeOK, RememberRuntimeLease, Idle
<1>2. RegistrationOK'
  <2>1. UNCHANGED <<registered, reg, listeners, admissionClosed, draining>>
    BY DEF RememberRuntimeLease
  <2>2. \A l \in Leases : runtimeLeases[l] = "active" => runtimeLeases'[l] = "active"
    BY DEF RememberRuntimeLease, TypeOK
  <2>3. \A q \in Runs : q # r => control'[q] = control[q] /\ login'[q] = login[q]
    BY DEF RememberRuntimeLease, TypeOK
  <2>4. login'[r] = NoLease
    BY DEF RememberRuntimeLease, TypeOK
  <2>5. reg[r] = Idle
    BY DEF RememberRuntimeLease, RegistrationOK
  <2> QED
    BY <2>1, <2>2, <2>3, <2>4, <2>5, SMT, Z3 DEF RegistrationOK, Holding, Idle
<1>3. ProxiesOK'
  <2>1. UNCHANGED <<registered, reg, listeners>>
    BY DEF RememberRuntimeLease
  <2>2. \A l \in Leases : runtimeLeases[l] # "unknown" => runtimeLeases'[l] # "unknown"
    BY DEF RememberRuntimeLease, TypeOK
  <2>3. \A q \in Runs : q # r => control'[q] = control[q]
    BY DEF RememberRuntimeLease, TypeOK
  <2>4. \A q \in Runs : \A n \in Names : registered[q][n] # NoLease => registered[q][n] \in Leases
    BY SMT, Z3 DEF TypeOK
  <2>5. \A n \in Names : registered[r][n] = NoLease /\ n \notin listeners[r]
    BY <2>4, SMT, Z3 DEF ProxiesOK, RegistrationOK, RememberRuntimeLease
  <2> QED
    BY <2>1, <2>2, <2>3, <2>4, <2>5, SMT, Z3 DEF ProxiesOK
<1>4. CountsExact'
  BY CountsUnchanged DEF RememberRuntimeLease
<1> QED
  BY <1>1, <1>2, <1>3, <1>4

\* A NewProxy request is accepted before any hook runs.
LEMMA AuthorizeProxyInv ==
    ASSUME AdmissionInv, NEW r \in Runs, NEW n \in Names, AuthorizeProxy(r, n)
    PROVE  AdmissionInv'
<1> USE AdmissionAssumption DEF AdmissionInv, dbVars, frpsVars, countVars, gateVars
<1>1. TypeOK'
  BY DEF TypeOK, AuthorizeProxy, Idle
<1>2. RegistrationOK'
  BY SMT, Z3 DEF TypeOK, RegistrationOK, AuthorizeProxy, Holding, Idle
<1>3. ProxiesOK'
  <2>1. UNCHANGED <<registered, control, runtimeLeases, listeners>>
    BY DEF AuthorizeProxy
  <2>2. \A q \in Runs : reg[q].stage = "running" => reg'[q] = reg[q]
    BY SMT, Z3 DEF AuthorizeProxy, TypeOK, Idle
  <2> QED
    BY <2>1, <2>2, SMT, Z3 DEF ProxiesOK
<1>4. CountsExact'
  BY CountsUnchanged DEF AuthorizeProxy
<1> QED
  BY <1>1, <1>2, <1>3, <1>4

\* Begin keeps the read lock only when the gate is open for the lease.
LEMMA BeginInv ==
    ASSUME AdmissionInv, NEW r \in Runs, Begin(r)
    PROVE  AdmissionInv'
<1> USE AdmissionAssumption DEF AdmissionInv, dbVars, frpsVars, countVars, gateVars
<1>1. TypeOK'
  <2>1. reg'[r] \in [stage : {"idle", "authorized", "begun", "running"}, name : Names \cup {NoName}]
    BY DEF TypeOK, Begin, Idle
  <2>2. reg' = [reg EXCEPT ![r] = reg'[r]]
    BY DEF TypeOK, Begin
  <2> QED
    BY <2>1, <2>2 DEF TypeOK, Begin
<1>2. RegistrationOK'
  BY DEF TypeOK, RegistrationOK, Begin, Holding, Idle, ClientKey, BeginAllowed
<1>3. ProxiesOK'
  <2>1. UNCHANGED <<registered, control, runtimeLeases, listeners>>
    BY DEF Begin
  <2>2. \A q \in Runs : reg[q].stage = "running" => reg'[q] = reg[q]
    BY DEF Begin, TypeOK, Idle
  <2> QED
    BY <2>1, <2>2, SMT, Z3 DEF ProxiesOK
<1>4. CountsExact'
  BY CountsUnchanged DEF Begin
<1> QED
  BY <1>1, <1>2, <1>3, <1>4

\* A listener opens under the read lock; a failed start gives it back.
LEMMA RunProxyInv ==
    ASSUME AdmissionInv, NEW r \in Runs, RunProxy(r)
    PROVE  AdmissionInv'
<1> USE AdmissionAssumption DEF AdmissionInv, dbVars, frpsVars, countVars, gateVars
<1>1. TypeOK'
  <2>1. reg[r].name \in Names
    BY DEF RunProxy, RegistrationOK
  <2>2. reg'[r] \in [stage : {"idle", "authorized", "begun", "running"}, name : Names \cup {NoName}]
    BY SMT, Z3 DEF TypeOK, RunProxy, Idle
  <2>3. reg' = [reg EXCEPT ![r] = reg'[r]]
    BY DEF TypeOK, RunProxy
  <2>4. \/ listeners' = listeners
        \/ listeners' = [listeners EXCEPT ![r] = @ \cup {reg[r].name}]
    BY DEF RunProxy
  <2>5. listeners' \in [Runs -> SUBSET Names]
    <3>1. listeners \in [Runs -> SUBSET Names] /\ listeners[r] \cup {reg[r].name} \in SUBSET Names
      BY <2>1 DEF TypeOK
    <3> QED
      BY <2>4, <3>1
  <2>6. UNCHANGED <<dbVars, login, control, countVars, gateVars, runtimeLeases>>
    BY DEF RunProxy
  <2> QED
    BY <2>2, <2>3, <2>5, <2>6 DEF TypeOK
<1>2. RegistrationOK'
  <2>1. UNCHANGED <<registered, login, control, runtimeLeases, admissionClosed, draining>>
    BY DEF RunProxy
  <2>2. \A q \in Runs : q # r => reg'[q] = reg[q]
    BY DEF RunProxy, TypeOK
  <2>3. \A q \in Runs : listeners[q] \subseteq listeners'[q]
    <3>1. \/ listeners' = listeners
          \/ listeners' = [listeners EXCEPT ![r] = @ \cup {reg[r].name}]
      BY DEF RunProxy
    <3>2. listeners \in [Runs -> SUBSET Names]
      BY DEF TypeOK
    <3>3. CASE listeners' = listeners
      BY <3>3
    <3>4. CASE listeners' = [listeners EXCEPT ![r] = @ \cup {reg[r].name}]
      BY <3>2, <3>4
    <3> QED
      BY <3>1, <3>3, <3>4
  <2>4. \/ reg'[r] = Idle
        \/ /\ reg'[r].stage = "running" /\ reg'[r].name = reg[r].name
           /\ reg[r].name \in listeners'[r] /\ reg[r].name \notin listeners[r]
    BY SMT, Z3 DEF RunProxy, TypeOK
  <2>5. reg[r].stage = "begun" /\ reg[r].name \in Names
    BY DEF RunProxy, RegistrationOK
  <2> QED
    BY <2>1, <2>2, <2>3, <2>4, <2>5, SMT, Z3 DEF RegistrationOK, Holding, Idle
<1>3. ProxiesOK'
  <2>1. UNCHANGED <<registered, control, runtimeLeases>>
    BY DEF RunProxy
  <2>2. \A q \in Runs : q # r => reg'[q] = reg[q] /\ listeners'[q] = listeners[q]
    BY DEF RunProxy, TypeOK
  <2>3. \/ listeners'[r] = listeners[r]
        \/ /\ reg'[r].stage = "running" /\ reg'[r].name = reg[r].name
           /\ listeners'[r] = listeners[r] \cup {reg[r].name}
    BY SMT, Z3 DEF RunProxy, TypeOK
  <2>4. reg[r].stage = "begun" /\ control[r] \in Leases
    BY DEF RunProxy, RegistrationOK
  <2> QED
    BY <2>1, <2>2, <2>3, <2>4, SMT, Z3 DEF ProxiesOK
<1>4. CountsExact'
  BY CountsUnchanged DEF RunProxy
<1> QED
  BY <1>1, <1>2, <1>3, <1>4

\* A listener that closes leaves its registration to the Closed hook.
LEMMA CloseListenerInv ==
    ASSUME AdmissionInv, NEW r \in Runs, NEW n \in Names, CloseListener(r, n)
    PROVE  AdmissionInv'
<1> USE AdmissionAssumption DEF AdmissionInv, dbVars, frpsVars, countVars, gateVars
<1>1. TypeOK'
  BY DEF TypeOK, CloseListener, Idle
<1>2. RegistrationOK'
  BY SMTT(30), Z3T(30) DEF TypeOK, RegistrationOK, CloseListener, Holding, Idle
<1>3. ProxiesOK'
  <2>1. UNCHANGED <<registered, control, reg, runtimeLeases>> /\ \A q \in Runs : listeners'[q] \subseteq listeners[q]
    BY SMT, Z3 DEF CloseListener
  <2> QED
    BY <2>1, SMT, Z3 DEF ProxiesOK
<1>4. CountsExact'
  BY CountsUnchanged DEF CloseListener
<1> QED
  BY <1>1, <1>2, <1>3, <1>4

\* A control connection ends only after all of its proxies.
LEMMA ControlExitInv ==
    ASSUME AdmissionInv, NEW r \in Runs, ControlExit(r)
    PROVE  AdmissionInv'
<1> USE AdmissionAssumption DEF AdmissionInv, dbVars, frpsVars, countVars, gateVars
<1>1. TypeOK'
  BY DEF TypeOK, ControlExit, Idle
<1>2. RegistrationOK'
  BY SMTT(30), Z3T(30) DEF TypeOK, RegistrationOK, ControlExit, Holding, Idle
<1>3. ProxiesOK'
  <2>1. UNCHANGED <<registered, reg, runtimeLeases, listeners>>
    BY DEF ControlExit
  <2>2. \A q \in Runs : q # r => control'[q] = control[q]
    BY DEF ControlExit, TypeOK
  <2>3. \A n \in Names : n \notin listeners[r] /\ registered[r][n] = NoLease
    BY DEF ControlExit
  <2> QED
    BY <2>1, <2>2, <2>3, SMT, Z3 DEF ProxiesOK
<1>4. CountsExact'
  BY CountsUnchanged DEF ControlExit
<1> QED
  BY <1>1, <1>2, <1>3, <1>4

\* A caller that waits for the write lock changes nothing else.
LEMMA RequestFenceInv ==
    ASSUME AdmissionInv, NEW kind \in {"close", "open"}, RequestFence(kind)
    PROVE  AdmissionInv'
<1> USE AdmissionAssumption DEF AdmissionInv, dbVars, frpsVars, countVars, gateVars
<1>1. TypeOK'
  BY DEF TypeOK, RequestFence, Idle
<1>2. RegistrationOK'
  BY DEF TypeOK, RegistrationOK, RequestFence, Holding, Idle
<1>3. ProxiesOK'
  BY SMT, Z3 DEF ProxiesOK, RequestFence
<1>4. CountsExact'
  BY CountsUnchanged DEF RequestFence
<1> QED
  BY <1>1, <1>2, <1>3, <1>4

\* The write lock is granted only when no registration holds the read lock.
LEMMA SetAdmissionClosedInv ==
    ASSUME AdmissionInv, SetAdmissionClosed
    PROVE  AdmissionInv'
<1> USE AdmissionAssumption DEF AdmissionInv, dbVars, frpsVars, countVars, gateVars
<1>1. TypeOK'
  BY SMT, Z3 DEF TypeOK, SetAdmissionClosed, Idle
<1>2. RegistrationOK'
  BY DEF RegistrationOK, ReadersDone, Holding, SetAdmissionClosed
<1>3. ProxiesOK'
  BY SMT, Z3 DEF ProxiesOK, SetAdmissionClosed
<1>4. CountsExact'
  BY CountsUnchanged DEF SetAdmissionClosed
<1> QED
  BY <1>1, <1>2, <1>3, <1>4

\* The same for the pause after a failed database access.
LEMMA PauseAdmissionInv ==
    ASSUME AdmissionInv, PauseAdmission
    PROVE  AdmissionInv'
<1> USE AdmissionAssumption DEF AdmissionInv, dbVars, frpsVars, countVars, gateVars
<1>1. TypeOK'
  BY DEF TypeOK, PauseAdmission, Idle
<1>2. RegistrationOK'
  BY DEF RegistrationOK, ReadersDone, Holding, PauseAdmission
<1>3. ProxiesOK'
  BY SMT, Z3 DEF ProxiesOK, PauseAdmission
<1>4. CountsExact'
  BY CountsUnchanged DEF PauseAdmission
<1> QED
  BY <1>1, <1>2, <1>3, <1>4

\* A client is forgotten only when its count, hence its registrations, are none.
LEMMA FinishClientDrainInv ==
    ASSUME AdmissionInv, NEW c \in Clients, FinishClientDrain(c)
    PROVE  AdmissionInv'
<1> USE AdmissionAssumption DEF AdmissionInv, dbVars, frpsVars, countVars, gateVars
<1>1. TypeOK'
  BY DEF TypeOK, FinishClientDrain, Idle
<1>2. RegistrationOK'
  BY DEF RegistrationOK, ReadersDone, Holding, FinishClientDrain
<1>3. ProxiesOK'
  <2>1. UNCHANGED <<registered, control, reg, listeners>>
    BY DEF FinishClientDrain
  <2>2. \A q \in Runs : \A n \in Names : registered[q][n] # NoLease => registered[q][n] \in Leases
    BY SMT, Z3 DEF TypeOK
  <2>3. ProxiesOf(LeasesOf(c)) = {}
    <3>1. Cardinality(ProxiesOf(LeasesOf(c))) = 0
      BY DEF FinishClientDrain, CountsExact
    <3> QED
      BY <3>1, ProxiesFinite, FS_EmptySet
  <2>4. \A q \in Runs : \A n \in Names : registered[q][n] \notin LeasesOf(c)
    <3> SUFFICES ASSUME NEW q \in Runs, NEW n \in Names
                 PROVE  registered[q][n] \notin LeasesOf(c)
      OBVIOUS
    <3>1. <<q, n>> \notin ProxiesOf(LeasesOf(c))
      BY <2>3
    <3> QED
      BY <3>1 DEF ProxiesOf
  <2>5. \A l \in Leases : l \notin LeasesOf(c) => runtimeLeases'[l] = runtimeLeases[l]
    BY DEF FinishClientDrain
  <2> QED
    BY <2>1, <2>2, <2>4, <2>5, SMT, Z3 DEF ProxiesOK
<1>4. CountsExact'
  BY CountsUnchanged DEF FinishClientDrain
<1> QED
  BY <1>1, <1>2, <1>3, <1>4

\* Revoking leases in the database does not touch the core.
LEMMA RevokeLeasesInv ==
    ASSUME AdmissionInv, NEW S \in SUBSET Leases, RevokeLeases(S)
    PROVE  AdmissionInv'
<1> USE AdmissionAssumption DEF AdmissionInv, dbVars, frpsVars, countVars, gateVars
<1>1. TypeOK'
  BY DEF TypeOK, RevokeLeases, Idle
<1>2. RegistrationOK'
  BY DEF TypeOK, RegistrationOK, RevokeLeases, Holding, Idle
<1>3. ProxiesOK'
  <2>1. UNCHANGED <<registered, control, runtimeLeases, listeners, reg>>
    BY DEF RevokeLeases
  <2> QED
    BY <2>1, SMT, Z3 DEF ProxiesOK
<1>4. CountsExact'
  BY CountsUnchanged DEF RevokeLeases
<1> QED
  BY <1>1, <1>2, <1>3, <1>4

\* Revoking leases in the core keeps them known, so later closures find their client.
LEMMA InvalidateRuntimeInv ==
    ASSUME AdmissionInv, NEW S \in SUBSET Leases, InvalidateRuntime(S)
    PROVE  AdmissionInv'
<1> USE AdmissionAssumption DEF AdmissionInv, dbVars, frpsVars, countVars, gateVars
<1>1. TypeOK'
  BY DEF TypeOK, InvalidateRuntime, Idle
<1>2. RegistrationOK'
  BY DEF RegistrationOK, ReadersDone, Holding, InvalidateRuntime
<1>3. ProxiesOK'
  <2>1. UNCHANGED <<registered, control, reg, listeners>>
    BY DEF InvalidateRuntime
  <2>2. \A l \in Leases : runtimeLeases[l] # "unknown" => runtimeLeases'[l] # "unknown"
    BY DEF InvalidateRuntime
  <2>3. \A q \in Runs : \A n \in Names : registered[q][n] # NoLease => registered[q][n] \in Leases
    BY SMT, Z3 DEF TypeOK
  <2> QED
    BY <2>1, <2>2, <2>3, SMT, Z3 DEF ProxiesOK
<1>4. CountsExact'
  BY CountsUnchanged DEF InvalidateRuntime
<1> QED
  BY <1>1, <1>2, <1>3, <1>4

\* Opened adds exactly one registration to the counts.
LEMMA OpenedInv ==
    ASSUME AdmissionInv, NEW r \in Runs, Opened(r)
    PROVE  AdmissionInv'
<1> USE AdmissionAssumption DEF AdmissionInv
<1> DEFINE n == reg[r].name
           l == control[r]
<1>1. /\ n \in Names /\ l \in Leases
      /\ registered[r][n] = NoLease
      /\ n \in listeners[r]
      /\ runtimeLeases[l] = "active"
      /\ ClientKey(l) = ClientOf[l] /\ ClientOf[l] \in Clients
  BY DEF Opened, RegistrationOK, Holding, ClientKey
<1>2. /\ registered' = [registered EXCEPT ![r][n] = l]
      /\ proxyCounts' = [proxyCounts EXCEPT ![ClientOf[l]] = @ + 1]
      /\ leaseProxyCounts' = [leaseProxyCounts EXCEPT ![l] = @ + 1]
  BY <1>1 DEF Opened, AddOne
<1>3. /\ reg' = [reg EXCEPT ![r] = Idle]
      /\ UNCHANGED <<dbVars, login, control, listeners, gateVars, runtimeLeases>>
  BY DEF Opened
<1>4. TypeOK'
  BY <1>1, <1>2, <1>3, SMT, Z3 DEF TypeOK, Idle, dbVars, gateVars
<1>5. /\ \A q \in Runs : q # r => reg'[q] = reg[q] /\ registered'[q] = registered[q]
      /\ \A m \in Names : m # n => registered'[r][m] = registered[r][m]
      /\ registered'[r][n] = l /\ reg'[r] = Idle
  BY <1>1, <1>2, <1>3 DEF TypeOK
<1>6. RegistrationOK'
  BY <1>3, <1>5, SMTT(30), Z3T(30) DEF RegistrationOK, Holding, Idle, gateVars
<1>7. ProxiesOK'
  BY <1>1, <1>3, <1>5, SMTT(30), Z3T(30) DEF ProxiesOK
<1>8. CountsExact'
  <2>1. \A S \in SUBSET Leases :
          Cardinality(ProxiesOf(S)') = Cardinality(ProxiesOf(S)) + (IF l \in S THEN 1 ELSE 0)
    BY <1>1, <1>2, CountAdd
  <2>2. ASSUME NEW c \in Clients
        PROVE  proxyCounts'[c] = Cardinality(ProxiesOf(LeasesOf(c))')
    <3>1. proxyCounts'[c] = proxyCounts[c] + (IF l \in LeasesOf(c) THEN 1 ELSE 0)
      BY <1>1, <1>2, SMT, Z3 DEF LeasesOf, TypeOK
    <3>2. LeasesOf(c) \in SUBSET Leases
      BY DEF LeasesOf
    <3> QED
      BY <2>1, <3>1, <3>2 DEF CountsExact
  <2>3. ASSUME NEW m \in Leases
        PROVE  leaseProxyCounts'[m] = Cardinality(ProxiesOf({m})')
    <3>1. leaseProxyCounts'[m] = leaseProxyCounts[m] + (IF l \in {m} THEN 1 ELSE 0)
      BY <1>1, <1>2, SMT, Z3 DEF TypeOK
    <3> QED
      BY <2>1, <3>1 DEF CountsExact
  <2>4. proxyCounts'[ZeroKey] = 0
    BY <1>1, <1>2 DEF CountsExact, TypeOK
  <2> QED
    BY <2>2, <2>3, <2>4 DEF CountsExact, LeasesOf
<1> QED
  BY <1>4, <1>6, <1>7, <1>8

\* Closed removes exactly one registration from the counts.
LEMMA ClosedInv ==
    ASSUME AdmissionInv, NEW r \in Runs, NEW n \in Names, Closed(r, n)
    PROVE  AdmissionInv'
<1> USE AdmissionAssumption DEF AdmissionInv
<1> DEFINE l == registered[r][n]
<1>1. /\ l \in Leases
      /\ runtimeLeases[l] # "unknown"
      /\ ClientKey(l) = ClientOf[l] /\ ClientOf[l] \in Clients
  BY SMT, Z3 DEF Closed, TypeOK, ProxiesOK, ClientKey
<1>2. /\ registered' = [registered EXCEPT ![r][n] = NoLease]
      /\ proxyCounts' = DropOne(proxyCounts, ClientOf[l])
      /\ leaseProxyCounts' = DropOne(leaseProxyCounts, l)
      /\ n \notin listeners[r]
      /\ UNCHANGED <<dbVars, frpsVars, gateVars, runtimeLeases>>
  BY <1>1 DEF Closed
<1>3. \A S \in SUBSET Leases :
        /\ Cardinality(ProxiesOf(S)') = Cardinality(ProxiesOf(S)) - (IF l \in S THEN 1 ELSE 0)
        /\ Cardinality(ProxiesOf(S)) \in Nat /\ Cardinality(ProxiesOf(S)') \in Nat
  BY <1>2, CountDrop, ProxiesFinite
<1>4. \A c \in Clients : proxyCounts'[c] = Cardinality(ProxiesOf(LeasesOf(c))')
  <2> SUFFICES ASSUME NEW c \in Clients
               PROVE  proxyCounts'[c] = Cardinality(ProxiesOf(LeasesOf(c))')
    OBVIOUS
  <2>1. LeasesOf(c) \in SUBSET Leases /\ (l \in LeasesOf(c) <=> ClientOf[l] = c)
    BY <1>1 DEF LeasesOf
  <2>2. proxyCounts[c] = Cardinality(ProxiesOf(LeasesOf(c)))
    BY DEF CountsExact
  <2>3. proxyCounts'[c] = IF ClientOf[l] # c THEN proxyCounts[c]
                          ELSE IF proxyCounts[c] <= 1 THEN 0 ELSE proxyCounts[c] - 1
    BY <1>1, <1>2 DEF TypeOK, DropOne
  <2> QED
    BY <1>3, <2>1, <2>2, <2>3, SMT, Z3
<1>5. \A m \in Leases : leaseProxyCounts'[m] = Cardinality(ProxiesOf({m})')
  <2> SUFFICES ASSUME NEW m \in Leases
               PROVE  leaseProxyCounts'[m] = Cardinality(ProxiesOf({m})')
    OBVIOUS
  <2>1. leaseProxyCounts[m] = Cardinality(ProxiesOf({m}))
    BY DEF CountsExact
  <2>2. leaseProxyCounts'[m] = IF l # m THEN leaseProxyCounts[m]
                               ELSE IF leaseProxyCounts[m] <= 1 THEN 0 ELSE leaseProxyCounts[m] - 1
    BY <1>1, <1>2 DEF TypeOK, DropOne
  <2> QED
    BY <1>3, <2>1, <2>2, SMT, Z3
<1>6. CountsExact'
  <2>1. proxyCounts'[ZeroKey] = 0
    BY <1>1, <1>2 DEF CountsExact, TypeOK, DropOne
  <2> QED
    BY <1>4, <1>5, <2>1 DEF CountsExact, LeasesOf
<1>7. TypeOK'
  <2>1. /\ registered' \in [Runs -> [Names -> Leases \cup {NoLease}]]
        /\ proxyCounts' \in [Clients \cup {ZeroKey} -> Nat]
        /\ leaseProxyCounts' \in [Leases -> Nat]
    BY <1>1, <1>2, SMTT(30), Z3T(30) DEF TypeOK, DropOne
  <2>2. UNCHANGED <<dbVars, frpsVars, gateVars, runtimeLeases>>
    BY <1>2
  <2> QED
    BY <2>1, <2>2 DEF TypeOK, dbVars, frpsVars, gateVars
<1>8. /\ \A q \in Runs : q # r => registered'[q] = registered[q]
      /\ \A m \in Names : m # n => registered'[r][m] = registered[r][m]
      /\ registered'[r][n] = NoLease
  BY <1>2 DEF TypeOK
<1>9. RegistrationOK'
  BY <1>2, <1>8, SMTT(30), Z3T(30) DEF RegistrationOK, Holding, Idle, gateVars, frpsVars
<1>10. ProxiesOK'
  BY <1>2, <1>8, SMT, Z3 DEF ProxiesOK, frpsVars
<1> QED
  BY <1>6, <1>7, <1>9, <1>10

-----------------------------------------------------------------------------
(* Theorems *)

\* Nothing is registered or counted initially.
LEMMA InitAdmissionInv == Init => AdmissionInv
<1> SUFFICES ASSUME Init PROVE AdmissionInv
  OBVIOUS
<1> USE AdmissionAssumption
<1>1. TypeOK
  BY DEF Init, TypeOK, Idle
<1>2. RegistrationOK /\ ProxiesOK
  BY DEF Init, RegistrationOK, ProxiesOK, Idle, Holding
<1>3. \A S \in SUBSET Leases : Cardinality(ProxiesOf(S)) = 0
  <2>1. \A S \in SUBSET Leases : ProxiesOf(S) = {}
    BY DEF Init, ProxiesOf
  <2> QED
    BY <2>1, FS_EmptySet
<1>4. CountsExact
  BY <1>3 DEF Init, CountsExact, LeasesOf
<1> QED
  BY <1>1, <1>2, <1>4 DEF AdmissionInv

\* Every step of the core, of FRPS and of the handlers preserves the invariant.
LEMMA NextAdmissionInv == AdmissionInv /\ [Next]_vars => AdmissionInv'
<1> SUFFICES ASSUME AdmissionInv, [Next]_vars PROVE AdmissionInv'
  OBVIOUS
<1>1. CASE UNCHANGED vars
  <2> USE <1>1 DEF vars, dbVars, frpsVars, gateVars
  <2>1. CountsExact'
    BY CountsUnchanged DEF AdmissionInv
  <2>2. TypeOK' /\ RegistrationOK'
    BY DEF AdmissionInv, TypeOK, RegistrationOK, Holding, countVars
  <2>3. ProxiesOK'
    BY DEF AdmissionInv, ProxiesOK, countVars
  <2> QED
    BY <2>1, <2>2, <2>3 DEF AdmissionInv
<1>2. CASE Next
  <2>1. RevocationScopes \subseteq SUBSET Leases
    BY DEF RevocationScopes, LeasesOf
  <2> QED
    BY <1>2, <2>1, LoginCheckInv, RememberRuntimeLeaseInv, AuthorizeProxyInv, BeginInv, RunProxyInv,
       OpenedInv, CloseListenerInv, ClosedInv, ControlExitInv, RequestFenceInv, SetAdmissionClosedInv,
       PauseAdmissionInv, FinishClientDrainInv, RevokeLeasesInv, InvalidateRuntimeInv
       DEF Next
<1> QED
  BY <1>1, <1>2

\* The strengthened invariant holds in every reachable state.
THEOREM AdmissionInvariant == Spec => []AdmissionInv
BY InitAdmissionInv, NextAdmissionInv, PTL DEF Spec

\* The core, FRPS and database variables keep their types.
THEOREM TypeCorrect == Spec => []TypeOK
<1>1. AdmissionInv => TypeOK
  BY DEF AdmissionInv
<1> QED
  BY <1>1, AdmissionInvariant, PTL

\* The per-client and per-lease counters of admission.go are exact for any
\* interleaving of registrations, closures, drains, bans and faults.
THEOREM CountersAreExact == Spec => []CountsExact
<1>1. AdmissionInv => CountsExact
  BY DEF AdmissionInv
<1> QED
  BY <1>1, AdmissionInvariant, PTL

\* On a closed node a client whose count is zero has no open listener, so the
\* forced reauthentication never cuts a live proxy.
THEOREM ZeroIsDrained == Spec => []ZeroMeansDrained
<1>1. AdmissionInv => ZeroMeansDrained
  <2> SUFFICES ASSUME AdmissionInv, admissionClosed, NEW r \in Runs, NEW n \in listeners[r]
               PROVE  control[r] # NoLease /\ proxyCounts[ClientOf[control[r]]] > 0
    BY DEF ZeroMeansDrained
  <2> USE AdmissionAssumption
  <2>1. n \in Names
    BY DEF AdmissionInv, TypeOK
  <2>2. control[r] \in Leases /\ registered[r][n] = control[r]
    BY <2>1 DEF AdmissionInv, ProxiesOK, RegistrationOK, Holding
  <2> DEFINE c == ClientOf[control[r]]
             P == ProxiesOf(LeasesOf(c))
  <2>3. c \in Clients /\ control[r] \in LeasesOf(c)
    BY <2>2 DEF LeasesOf
  <2>4. P # {}
    <3>1. <<r, n>> \in P
      BY <2>1, <2>2, <2>3 DEF ProxiesOf
    <3> QED
      BY <3>1
  <2>5. Cardinality(P) \in Nat /\ Cardinality(P) # 0
    BY <2>4, ProxiesFinite, FS_EmptySet
  <2>6. proxyCounts[c] = Cardinality(P)
    BY <2>3 DEF AdmissionInv, CountsExact
  <2>7. proxyCounts[c] > 0
    <3> HIDE DEF P
    <3> QED
      BY <2>5, <2>6, SMT, Z3
  <2> QED
    BY <2>2, <2>7
<1> QED
  BY <1>1, AdmissionInvariant, PTL

\* No step opens a listener for a draining client or on a closed node.
THEOREM NoListenerWhileDraining == Spec => DrainingNeverOpens
<1>1. AdmissionInv /\ [Next]_vars => [OpensOnlyAdmitted]_vars
  <2> SUFFICES ASSUME AdmissionInv, Next PROVE OpensOnlyAdmitted
    OBVIOUS
  <2> SUFFICES ASSUME NEW r \in Runs, ~(listeners'[r] \subseteq listeners[r])
               PROVE  ~admissionClosed /\ ClientOf[control[r]] \notin draining
    BY DEF OpensOnlyAdmitted
  <2>1. RunProxy(r)
    <3>1. UNCHANGED listeners => FALSE
      OBVIOUS
    <3>2. \A q \in Runs : \A n \in Names : ~CloseListener(q, n)
      BY DEF CloseListener, AdmissionInv, TypeOK
    <3>3. \A q \in Runs : RunProxy(q) => q = r
      BY DEF RunProxy, AdmissionInv, TypeOK
    <3> QED
      BY <3>1, <3>2, <3>3 DEF Next, LoginCheck, RememberRuntimeLease, AuthorizeProxy, Begin, Opened,
         Closed, ControlExit, RequestFence, SetAdmissionClosed, PauseAdmission, FinishClientDrain,
         RevokeLeases, InvalidateRuntime, frpsVars
  <2> QED
    BY <2>1 DEF RunProxy, AdmissionInv, RegistrationOK, Holding
<1> QED
  BY <1>1, AdmissionInvariant, PTL DEF Spec, DrainingNeverOpens
=============================================================================
