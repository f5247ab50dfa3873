------------------------ MODULE NodeDirectoryProofs ------------------------
(***************************************************************************)
(* Deletions are final, for every number of enrolments, tokens,            *)
(* certificates, deletions, outages and restarts. MarkedStaysOut needs     *)
(* that a handler past the registration is the registered one              *)
(* (Registered), so that DisconnectNode reaches it; DeletedStaysOut needs  *)
(* what replaces the mark after a restart (Settled). A token admits one     *)
(* certificate (Accounted), and the types are shown last.                   *)
(***************************************************************************)
EXTENDS NodeDirectory, TLAPS

\* Leaves without a pragma are Zenon's; the ones about arithmetic cite SMT, with Z3 as a
\* second attempt.
USE ZenonT(30), ZenonT(60)

Handlers == [pc : {"idle", "ask", "query", "store", "fallback", "register", "live"}, call : 1..2,
             serial : {None} \cup Serials]
Enrolments == [pc : Positions, serial : {None} \cup Serials, token : Tokens, read : {None} \cup Serials]

\* The types the argument needs.
Shape ==
    /\ conn \in [Serials -> Handlers] /\ session \in {None} \cup Serials
    /\ enrol \in [Requests -> Enrolments] /\ signed \in Nat /\ row \in {None} \cup Serials

\* Who has registered and was not replaced, cancelled or refused is the session.
Registered ==
    \A s \in Serials : (conn[s].call = 2 /\ conn[s].pc # "register") \/ Live(s) => session = s

\* Nothing is left of the node but what a mark covers.
Clean ==
    /\ catalog = None /\ refresh.read = None
    /\ \A s \in Serials : conn[s].pc \notin {"store", "register", "live"}

\* The course of a deletion that nothing overlaps
Settled ==
    /\ signed = 0 => row = None /\ fate = "present" /\ \A r \in Requests : ~UnderWay(r)
    /\ fate \in {"deleting", "gone"} => row = None /\ \A r \in Requests : ~UnderWay(r)
    /\ fate = "deleting" => del = "forget" \/ (del = "disconnect" /\ forgotten)
    /\ fate = "gone" => del = "idle" /\ (forgotten \/ Clean)

Inductive == Shape /\ Registered /\ MarkedStaysOut /\ Settled

\* The inductive invariant says what is to be shown.
LEMMA InductiveDeleted == Inductive => DeletedStaysOut
BY DEF Inductive, Settled, MarkedStaysOut, DeletedStaysOut, Clean, Live

LEMMA SerialIsNotNone == \A s \in Serials : s # None
BY NodeDirectoryAssumption, SMT, Z3 DEF Serials, None

LEMMA InitInductive == Init => Inductive
<1> SUFFICES ASSUME Init PROVE Inductive
  OBVIOUS
<1>1. Idle \in Handlers
  BY SMT, Z3 DEF Idle, Handlers
<1>2. Shape
  <2>1. (CHOOSE t \in Tokens : TRUE) \in Tokens
    BY NodeDirectoryAssumption
  <2>2. row \in {None} \cup Serials /\ signed \in Nat
    BY NodeDirectoryAssumption, SMT, Z3 DEF Init, None, Serials
  <2> QED
    BY <1>1, <2>1, <2>2 DEF Init, Shape, Enrolments, Positions, None
<1>3. \A s \in Serials : conn[s].pc = "idle" /\ conn[s].call = 1
  BY DEF Init, Idle
<1>4. Registered /\ MarkedStaysOut
  BY <1>3, SMT, Z3 DEF Init, Registered, MarkedStaysOut, Live
<1>5. Settled
  BY DEF Init, Settled, UnderWay, None
<1> QED
  BY <1>2, <1>4, <1>5 DEF Inductive

-----------------------------------------------------------------------------
(* Requests and the administrator *)

LEMMA EnrolSignsKeeps ==
    ASSUME Inductive, NEW r \in Requests, NEW t \in Tokens, EnrolSigns(r, t)
    PROVE  Inductive'
<1>1. Shape'
  <2>1. signed + 1 \in Serials
    BY NodeDirectoryAssumption, SMT, Z3 DEF EnrolSigns, Inductive, Shape, Serials
  <2> QED
    BY <2>1, SMT, Z3 DEF EnrolSigns, Inductive, Shape, Enrolments, Positions, None, memoryVars, connVars
<1>2. (Registered /\ MarkedStaysOut)'
  BY DEF EnrolSigns, Inductive, Registered, MarkedStaysOut, Live, memoryVars, connVars
<1>3. fate \notin {"deleting", "gone"}
  BY DEF EnrolSigns, Inductive, Settled
<1>4. Settled'
  BY <1>3, SMT, Z3 DEF EnrolSigns, Inductive, Settled, Shape
<1> QED
  BY <1>1, <1>2, <1>4 DEF Inductive

\* An enrolment under way rules out a deletion that nothing overlaps.
LEMMA EnrolmentKeeps ==
    ASSUME Inductive, NEW r \in Requests, Enrolment(r)
    PROVE  Inductive'
<1>1. UnderWay(r)
  BY DEF Enrolment, ConsumeEnrollmentToken, UpsertEdgeNode, RememberReads, RememberEnrolledNode, EnrolAnswered,
         EnrolFails, UnderWay
<1>2. fate \notin {"deleting", "gone"} /\ signed # 0
  BY <1>1 DEF Inductive, Settled
<1>3. fate' = fate /\ signed' = signed /\ del' = del /\ conn' = conn /\ session' = session
  BY DEF Enrolment, ConsumeEnrollmentToken, UpsertEdgeNode, RememberReads, RememberEnrolledNode, EnrolAnswered,
         EnrolFails, connVars
<1>4. (forgotten' = forgotten /\ catalog' = catalog) \/ forgotten' = FALSE
  BY DEF Enrolment, ConsumeEnrollmentToken, UpsertEdgeNode, RememberReads, RememberEnrolledNode, EnrolAnswered,
         EnrolFails, memoryVars
<1>5. enrol' \in [Requests -> Enrolments] /\ row' \in {None} \cup Serials
  <2>1. ASSUME NEW p \in Positions, Goto(r, p) PROVE enrol' \in [Requests -> Enrolments]
    BY <2>1 DEF Goto, Inductive, Shape, Enrolments
  <2>2. CASE ConsumeEnrollmentToken(r)
    BY <2>1, <2>2 DEF ConsumeEnrollmentToken, Inductive, Shape, Positions
  <2>3. CASE UpsertEdgeNode(r)
    BY <2>1, <2>3 DEF UpsertEdgeNode, Inductive, Shape, Positions, Enrolments
  <2>4. CASE RememberReads(r)
    <3>1. CASE Goto(r, "answer")
      BY <2>1, <2>4, <3>1 DEF RememberReads, Inductive, Shape, Positions
    <3>2. CASE enrol' = [enrol EXCEPT ![r] = [pc |-> "remember", serial |-> enrol[r].serial, token |-> enrol[r].token,
                                              read |-> row]]
      BY <2>4, <3>2 DEF RememberReads, Inductive, Shape, Positions, Enrolments
    <3> QED
      BY <2>4, <3>1, <3>2 DEF RememberReads
  <2>5. CASE RememberEnrolledNode(r)
    BY <2>1, <2>5 DEF RememberEnrolledNode, Inductive, Shape, Positions
  <2>6. CASE EnrolAnswered(r) \/ EnrolFails(r)
    BY <2>1, <2>6 DEF EnrolAnswered, EnrolFails, Done, Inductive, Shape, Positions
  <2> QED
    BY <2>2, <2>3, <2>4, <2>5, <2>6 DEF Enrolment
<1>6. (Shape /\ Registered /\ MarkedStaysOut)'
  BY <1>3, <1>4, <1>5, SMT, Z3 DEF Inductive, Shape, Registered, MarkedStaysOut, Live
<1>7. Settled'
  BY <1>2, <1>3 DEF Settled
<1> QED
  BY <1>6, <1>7 DEF Inductive

LEMMA DeleteKeeps ==
    ASSUME Inductive, DeleteEdgeNode
    PROVE  Inductive'
<1>1. (Shape /\ Registered)'
  BY DEF DeleteEdgeNode, Inductive, Shape, Registered, Live, connVars
<1>2. MarkedStaysOut'
  BY DEF DeleteEdgeNode, Inductive, MarkedStaysOut, Live, memoryVars, connVars
<1>3. fate \notin {"deleting", "gone"} /\ signed # 0
  BY DEF DeleteEdgeNode, Inductive, Settled
<1>4. fate' = "deleting" => del' = "forget" /\ \A q \in Requests : ~UnderWay(q)
  BY <1>3 DEF DeleteEdgeNode
<1>5. fate' # "gone" /\ row' = None /\ signed' = signed /\ enrol' = enrol
  BY <1>3 DEF DeleteEdgeNode
<1>6. Settled'
  BY <1>3, <1>4, <1>5 DEF Settled, UnderWay
<1> QED
  BY <1>1, <1>2, <1>6 DEF Inductive

LEMMA ForgetKeeps ==
    ASSUME Inductive, ForgetNode
    PROVE  Inductive'
<1>1. (Shape /\ Registered)'
  BY DEF ForgetNode, Inductive, Shape, Registered, Live, connVars
<1>2. MarkedStaysOut'
  BY DEF ForgetNode, MarkedStaysOut
<1>3. Settled'
  BY DEF ForgetNode, Inductive, Settled, UnderWay
<1> QED
  BY <1>1, <1>2, <1>3 DEF Inductive

\* A cancelled handler is idle and the others are left alone.
LEMMA CancelledIdle ==
    ASSUME Shape, NEW c \in {None} \cup Serials
    PROVE  /\ Cancelled(c) \in [Serials -> Handlers]
           /\ \A s \in Serials : Cancelled(c)[s] = IF s = c THEN Idle ELSE conn[s]
<1>1. Idle \in Handlers
  BY SMT, Z3 DEF Idle, Handlers
<1> QED
  BY <1>1, SerialIsNotNone DEF Cancelled, Shape

LEMMA DisconnectKeeps ==
    ASSUME Inductive, DisconnectNode
    PROVE  Inductive'
<1>1. conn' \in [Serials -> Handlers] /\ \A s \in Serials : conn'[s] = IF s = session THEN Idle ELSE conn[s]
  BY CancelledIdle DEF DisconnectNode, Inductive, Shape
<1>2. \A s \in Serials : ~(conn'[s].call = 2 /\ conn'[s].pc # "register") /\ conn'[s].pc # "live"
  BY <1>1, SMT, Z3 DEF Inductive, Registered, Live, Idle
<1>3. (Shape /\ Registered)'
  BY <1>1, <1>2 DEF DisconnectNode, Inductive, Shape, Registered, Live, None
<1>4. MarkedStaysOut'
  BY <1>2 DEF DisconnectNode, Inductive, MarkedStaysOut, Live, memoryVars
<1>5. Settled'
  BY DEF DisconnectNode, Inductive, Settled, UnderWay, memoryVars
<1> QED
  BY <1>3, <1>4, <1>5 DEF Inductive

-----------------------------------------------------------------------------
(* The ticker, the database and restarts *)

LEMMA TickerKeeps ==
    ASSUME Inductive, RefreshReads \/ ReplaceNodeCatalog
    PROVE  Inductive'
<1>1. /\ UNCHANGED <<row, forgotten, adminVars, connVars>>
      /\ catalog' = catalog \/ catalog' = IF forgotten THEN None ELSE refresh.read
      /\ refresh'.read = None \/ refresh'.read = row
  BY SMT, Z3 DEF RefreshReads, ReplaceNodeCatalog, memoryVars
<1>2. (Shape /\ Registered /\ MarkedStaysOut)'
  BY <1>1 DEF Inductive, Shape, Registered, MarkedStaysOut, Live, adminVars, connVars
<1>3. Clean /\ row = None => Clean'
  BY <1>1 DEF Clean, connVars
<1>4. Settled'
  BY <1>1, <1>3 DEF Inductive, Settled, UnderWay, adminVars
<1> QED
  BY <1>2, <1>4 DEF Inductive

LEMMA EnvironmentKeeps ==
    ASSUME Inductive,
           SetDatabaseSuspect \/ ClearDatabaseSuspect \/ DatabaseFails \/ DatabaseReturns \/ EdgeRestart
    PROVE  Inductive'
<1>1. UNCHANGED <<row, catalog, forgotten, used, enrol, signed, del, deletes, fate, refresh, connVars>>
  BY DEF SetDatabaseSuspect, ClearDatabaseSuspect, DatabaseFails, DatabaseReturns, EdgeRestart, memoryVars, adminVars
<1> QED
  BY <1>1 DEF Inductive, Shape, Registered, MarkedStaysOut, Settled, Clean, Live, UnderWay, connVars

LEMMA RestartKeeps ==
    ASSUME Inductive, Restart
    PROVE  Inductive'
<1>1. Idle \in Handlers /\ Idle.pc = "idle" /\ Idle.call = 1
  BY SMT, Z3 DEF Idle, Handlers
<1>2. enrol' \in [Requests -> Enrolments] /\ \A r \in Requests : ~UnderWay(r)'
  BY DEF Restart, UnderWay, Inductive, Shape, Enrolments, Positions
<1>3. (Shape /\ Registered /\ MarkedStaysOut)'
  BY <1>1, <1>2, SMT, Z3 DEF Restart, Inductive, Shape, Registered, MarkedStaysOut, Live
<1>4. row = None => Clean'
  BY <1>1 DEF Restart, Clean
<1>5. Settled'
  BY <1>2, <1>4 DEF Restart, Inductive, Settled
<1> QED
  BY <1>3, <1>5 DEF Inductive

-----------------------------------------------------------------------------
(* Connect *)

\* What every step of a Connect handler leaves alone
Elsewhere == UNCHANGED <<row, forgotten, adminVars, refresh>>

LEMMA RefusedKeeps ==
    ASSUME Inductive, NEW s \in Serials, Refused(s), Elsewhere,
           catalog' = catalog \/ (~forgotten /\ ~Clean)
    PROVE  Inductive'
<1>1. Idle \in Handlers /\ Idle.pc = "idle" /\ Idle.call = 1
  BY SMT, Z3 DEF Idle, Handlers
<1>2. conn' \in [Serials -> Handlers] /\ \A q \in Serials : conn'[q] = IF q = s THEN Idle ELSE conn[q]
  BY <1>1 DEF Refused, Inductive, Shape
<1>3. session' \in {None} \cup Serials /\ (session' = session \/ (session = s /\ session' = None))
  BY DEF Refused, Inductive, Shape
<1>4. (Shape /\ Registered)'
  BY <1>1, <1>2, <1>3, SMT, Z3 DEF Elsewhere, adminVars, Inductive, Shape, Registered, Live
<1>5. MarkedStaysOut'
  BY <1>1, <1>2 DEF Elsewhere, adminVars, Inductive, MarkedStaysOut, Live
<1>6. Clean /\ catalog' = catalog => Clean'
  BY <1>1, <1>2 DEF Elsewhere, Clean
<1>7. Settled'
  BY <1>6 DEF Elsewhere, adminVars, Inductive, Settled, UnderWay
<1> QED
  BY <1>4, <1>5, <1>7 DEF Inductive

\* A lookup that returns the serial of the stream, when there is neither a mark nor a
\* finished deletion
LEMMA AuthorizedKeeps ==
    ASSUME Inductive, NEW s \in Serials, NEW n, Authorized(s, n), Elsewhere, n = s, conn[s].pc # "register",
           ~forgotten, ~Clean
    PROVE  Inductive'
<1>1. PICK h \in Handlers :
          /\ h.pc \in {"register", "live"} /\ h.call = 2
          /\ h.pc = "live" => conn[s].call = 2
          /\ conn' = [conn EXCEPT ![s] = h]
  <2>1. conn[s] \in Handlers
    BY DEF Inductive, Shape
  <2>2. PICK p \in {"register", "live"} :
            p = (IF conn[s].call = 1 THEN "register" ELSE "live")
    OBVIOUS
  <2>3. [pc |-> p, call |-> 2, serial |-> None] \in Handlers
    BY SMT, Z3 DEF Handlers
  <2>4. conn' = [conn EXCEPT ![s] = [pc |-> p, call |-> 2, serial |-> None]]
    BY <2>2 DEF Authorized
  <2>5. p = "live" => conn[s].call = 2
    BY <2>1, <2>2, SMT, Z3 DEF Handlers
  <2> QED
    BY <2>3, <2>4, <2>5
<1>2. session' = session /\ conn' \in [Serials -> Handlers]
  BY <1>1 DEF Authorized, Inductive, Shape
<1>3. \A q \in Serials : conn'[q] = IF q = s THEN h ELSE conn[q]
  BY <1>1 DEF Inductive, Shape
<1>4. h.pc = "live" => session = s
  BY <1>1 DEF Inductive, Registered
<1>5. (Shape /\ Registered)'
  BY <1>1, <1>2, <1>3, <1>4 DEF Elsewhere, adminVars, Inductive, Shape, Registered, Live
<1>6. MarkedStaysOut'
  BY DEF Elsewhere, MarkedStaysOut
<1>7. Settled'
  BY DEF Elsewhere, adminVars, Inductive, Settled, UnderWay
<1> QED
  BY <1>5, <1>6, <1>7 DEF Inductive

\* A step of the lookup that only moves on, to a stored row only when there is one
LEMMA MovesKeeps ==
    ASSUME Inductive, NEW s \in Serials, NEW h \in Handlers, conn' = [conn EXCEPT ![s] = h],
           h.call = conn[s].call, h.pc \in {"ask", "query", "store", "fallback"}, conn[s].pc # "register",
           h.pc = "store" => row # None, Elsewhere, UNCHANGED <<catalog, session>>
    PROVE  Inductive'
<1>1. conn' \in [Serials -> Handlers] /\ \A q \in Serials : conn'[q] = IF q = s THEN h ELSE conn[q]
  BY DEF Inductive, Shape
<1>2. (Shape /\ Registered)'
  BY <1>1 DEF Elsewhere, adminVars, Inductive, Shape, Registered, Live
<1>3. MarkedStaysOut'
  BY <1>1 DEF Elsewhere, adminVars, Inductive, MarkedStaysOut, Live
<1>4. Clean /\ row = None => Clean'
  BY <1>1 DEF Elsewhere, Clean
<1>5. Settled'
  BY <1>4 DEF Elsewhere, adminVars, Inductive, Settled, UnderWay
<1> QED
  BY <1>2, <1>3, <1>5 DEF Inductive

LEMMA HandlerKeeps ==
    ASSUME Inductive, NEW s \in Serials, Handler(s)
    PROVE  Inductive'
<1>0. conn[s] \in Handlers /\ s # None
  BY SerialIsNotNone DEF Inductive, Shape
<1>1. CASE AuthorizedNodeAsks(s)
  <2>1. Elsewhere /\ catalog' = catalog
    BY <1>1 DEF AuthorizedNodeAsks, Elsewhere, memoryVars
  <2>2. CASE Refused(s)
    BY <2>1, <2>2, RefusedKeeps
  <2>3. CASE ~forgotten /\ Authorized(s, catalog) /\ catalog = s
    <3>1. ~Clean
      BY <1>0, <2>3 DEF Clean
    <3> QED
      BY <1>1, <2>1, <2>3, <3>1, AuthorizedKeeps DEF AuthorizedNodeAsks
  <2>4. CASE conn' = [conn EXCEPT ![s].pc = "query"] /\ UNCHANGED session
    <3>1. PICK h \in Handlers : h.pc = "query" /\ h.call = conn[s].call /\ conn' = [conn EXCEPT ![s] = h]
      <4>1. [conn[s] EXCEPT !.pc = "query"] \in Handlers
        BY <1>0 DEF Handlers
      <4> QED
        BY <1>0, <2>4, <4>1 DEF Handlers
    <3> QED
      BY <1>1, <2>1, <2>4, <3>1, MovesKeeps DEF AuthorizedNodeAsks
  <2> QED
    BY <1>1, <2>2, <2>3, <2>4 DEF AuthorizedNodeAsks, Authorized
<1>2. CASE AuthorizedNodeQueries(s)
  <2>1. Elsewhere /\ catalog' = catalog /\ conn[s].pc = "query"
    BY <1>2 DEF AuthorizedNodeQueries, Elsewhere, memoryVars
  <2>2. CASE Refused(s)
    BY <2>1, <2>2, RefusedKeeps
  <2>3. CASE row # None /\ conn' = [conn EXCEPT ![s] = [pc |-> "store", call |-> conn[s].call, serial |-> row]] /\ UNCHANGED session
    <3>1. [pc |-> "store", call |-> conn[s].call, serial |-> row] \in Handlers
      BY <1>0 DEF Inductive, Shape, Handlers
    <3>2. PICK h \in Handlers : h.pc = "store" /\ h.call = conn[s].call /\ conn' = [conn EXCEPT ![s] = h]
      BY <2>3, <3>1
    <3> QED
      BY <2>1, <2>3, <3>2, MovesKeeps
  <2>4. CASE conn' = [conn EXCEPT ![s].pc = "fallback"] /\ UNCHANGED session
    <3>1. PICK h \in Handlers : h.pc = "fallback" /\ h.call = conn[s].call /\ conn' = [conn EXCEPT ![s] = h]
      <4>1. [conn[s] EXCEPT !.pc = "fallback"] \in Handlers
        BY <1>0 DEF Handlers
      <4> QED
        BY <1>0, <2>4, <4>1 DEF Handlers
    <3> QED
      BY <2>1, <2>4, <3>1, MovesKeeps
  <2> QED
    BY <1>2, <2>2, <2>3, <2>4 DEF AuthorizedNodeQueries
<1>3. CASE AuthorizedNodeStores(s)
  <2>1. Elsewhere /\ conn[s].pc = "store" /\ ~Clean
    BY <1>3 DEF AuthorizedNodeStores, Elsewhere, Clean
  <2>2. CASE forgotten
    BY <1>3, <2>1, <2>2, RefusedKeeps DEF AuthorizedNodeStores
  <2>3. CASE ~forgotten /\ conn[s].serial = s
    BY <1>3, <2>1, <2>3, AuthorizedKeeps DEF AuthorizedNodeStores
  <2>4. CASE ~forgotten /\ conn[s].serial # s
    <3>1. Refused(s)
      BY <1>3, <2>4 DEF AuthorizedNodeStores, Authorized
    <3> QED
      BY <2>1, <2>4, <3>1, RefusedKeeps
  <2> QED
    BY <2>2, <2>3, <2>4
<1>4. CASE AuthorizedNodeFallsBack(s)
  <2>1. Elsewhere /\ catalog' = catalog /\ conn[s].pc = "fallback"
    BY <1>4 DEF AuthorizedNodeFallsBack, Elsewhere, memoryVars
  <2>2. CASE Refused(s)
    BY <2>1, <2>2, RefusedKeeps
  <2>3. CASE Authorized(s, catalog) /\ catalog = s
    <3>1. ~Clean /\ ~forgotten
      BY <1>0, <2>3 DEF Clean, Inductive, MarkedStaysOut
    <3> QED
      BY <2>1, <2>3, <3>1, AuthorizedKeeps
  <2> QED
    BY <1>4, <2>2, <2>3 DEF AuthorizedNodeFallsBack, Authorized
<1>5. CASE RegisterSession(s)
  <2>1. Elsewhere /\ catalog' = catalog /\ conn[s].pc = "register" /\ ~Clean /\ session' = s
    BY <1>5 DEF RegisterSession, Elsewhere, memoryVars, Clean
  <2>2. PICK c \in {None} \cup Serials :
            c = (IF session = s THEN None ELSE session) /\ conn' = [Cancelled(c) EXCEPT ![s].pc = "ask"]
    BY <1>5 DEF RegisterSession, Inductive, Shape
  <2>3. /\ Cancelled(c) \in [Serials -> Handlers]
        /\ \A q \in Serials : Cancelled(c)[q] = IF q = c THEN Idle ELSE conn[q]
    BY CancelledIdle DEF Inductive
  <2>4. conn' \in [Serials -> Handlers] /\ conn'[s].pc = "ask"
    BY <1>0, <2>2, <2>3 DEF Handlers
  <2>5. \A q \in Serials : q # s => conn'[q] = IF q = session THEN Idle ELSE conn[q]
    BY <2>2, <2>3, SerialIsNotNone, SMTT(30), Z3T(30)
  <2>6. \A q \in Serials : q # s => ~(conn'[q].call = 2 /\ conn'[q].pc # "register") /\ conn'[q].pc # "live"
    BY <2>5, SMTT(30), Z3T(30) DEF Inductive, Registered, Live, Idle
  <2>7. (Shape /\ Registered)'
    BY <2>1, <2>4, <2>6 DEF Elsewhere, adminVars, Inductive, Shape, Registered, Live
  <2>8. MarkedStaysOut'
    BY <2>1, <2>4, <2>6 DEF Elsewhere, adminVars, Inductive, MarkedStaysOut, Live
  <2>9. Settled'
    BY <2>1 DEF Elsewhere, adminVars, Inductive, Settled, UnderWay
  <2> QED
    BY <2>7, <2>8, <2>9 DEF Inductive
<1> QED
  BY <1>1, <1>2, <1>3, <1>4, <1>5 DEF Handler

LEMMA StreamKeeps ==
    ASSUME Inductive, NEW s \in Serials, Dial(s) \/ StreamEnds(s)
    PROVE  Inductive'
<1>1. Elsewhere /\ catalog' = catalog
  BY DEF Dial, StreamEnds, Elsewhere, memoryVars
<1>2. CASE StreamEnds(s)
  BY <1>1, <1>2, RefusedKeeps DEF StreamEnds
<1>3. CASE Dial(s)
  <2>1. conn[s] \in Handlers
    BY DEF Inductive, Shape
  <2>2. PICK h \in Handlers : h.pc = "ask" /\ h.call = conn[s].call /\ conn' = [conn EXCEPT ![s] = h]
    <3>1. [conn[s] EXCEPT !.pc = "ask"] \in Handlers
      BY <2>1 DEF Handlers
    <3> QED
      BY <1>3, <2>1, <3>1 DEF Dial, Handlers
  <2> QED
    BY <1>1, <1>3, <2>2, MovesKeeps DEF Dial
<1> QED
  BY <1>2, <1>3

-----------------------------------------------------------------------------
LEMMA StutterKeeps == ASSUME Inductive, UNCHANGED vars PROVE Inductive'
BY DEF vars, memoryVars, adminVars, connVars, Inductive, Shape, Registered, MarkedStaysOut, Settled, Clean, Live,
       UnderWay

LEMMA NextKeeps == ASSUME Inductive, [Next]_vars PROVE Inductive'
BY EnrolSignsKeeps, EnrolmentKeeps, DeleteKeeps, ForgetKeeps, DisconnectKeeps, TickerKeeps, EnvironmentKeeps,
   RestartKeeps, HandlerKeeps, StreamKeeps, StutterKeeps DEF Next

\* ForgetNode's mark keeps copies and, after DisconnectNode, streams of the node out,
\* for every interleaving of Connect, the ticker, enrolments and restarts.
THEOREM MarkIsFinal == Spec => []MarkedStaysOut
<1>1. Inductive => MarkedStaysOut
  BY DEF Inductive
<1> QED
  BY InitInductive, NextKeeps, <1>1, PTL DEF Spec

\* A deletion that nothing overlapped is final, also across restarts of the controller,
\* which lose the mark.
THEOREM DeletionIsFinal == Spec => []DeletedStaysOut
BY InitInductive, NextKeeps, InductiveDeleted, PTL DEF Spec

-----------------------------------------------------------------------------
(* Tokens. The certificate in the row came from a request whose token is used up, and
   serial numbers are drawn once, so a request that consumes a token later has another
   token and another serial. *)

\* The requests that have consumed their token
Admitted(r) == enrol[r].pc \in {"consumed", "upserted", "remember", "answer"}

Accounted ==
    /\ row <= signed /\ \A r \in Requests : enrol[r].serial <= signed
    /\ \A r, q \in Requests : enrol[r].serial = enrol[q].serial /\ enrol[r].serial # None => r = q
    /\ \A r \in Requests : Admitted(r) \/ (row # None /\ enrol[r].serial = row) => enrol[r].token \in used
    /\ \A r, q \in Requests : Admitted(r) /\ Admitted(q) /\ enrol[r].token = enrol[q].token => r = q
    /\ TokenServesOnce

LEMMA InitAccounted == Init => Accounted
BY NodeDirectoryAssumption, SMTT(30), Z3T(30) DEF Init, Accounted, Admitted, TokenServesOnce, None

\* The new serial is that of no request and not that of the row.
LEMMA EnrolSignsAccounts ==
    ASSUME Inductive, Accounted, NEW r \in Requests, NEW t \in Tokens, EnrolSigns(r, t)
    PROVE  Accounted'
<1> DEFINE new == [pc |-> "signed", serial |-> signed + 1, token |-> t, read |-> None]
<1>1. enrol' = [enrol EXCEPT ![r] = new] /\ signed' = signed + 1 /\ row' = row /\ used' = used
  BY DEF EnrolSigns
<1>2. signed \in Nat /\ row \in Nat /\ \A q \in Requests : enrol[q].serial \in Nat
  BY NodeDirectoryAssumption, SMT, Z3 DEF Inductive, Shape, Enrolments, Serials, None
<1>3. /\ enrol'[r].pc = "signed" /\ enrol'[r].serial = signed + 1
      /\ \A q \in Requests \ {r} : enrol'[q] = enrol[q]
  BY <1>1 DEF Inductive, Shape
<1>4. ~Admitted(r)' /\ \A q \in Requests \ {r} : Admitted(q)' = Admitted(q)
  BY <1>3 DEF Admitted
<1>5. enrol'[r].serial # row /\ \A q \in Requests : enrol[q].serial # signed + 1
  BY <1>2, <1>3, SMTT(30), Z3T(30) DEF Accounted
<1>6. row' <= signed' /\ \A q \in Requests : enrol'[q].serial <= signed'
  BY <1>1, <1>2, <1>3, SMTT(30), Z3T(30) DEF Accounted
<1>7. TokenServesOnce'
  BY <1>1, <1>3, <1>4, <1>5, SMTT(30), Z3T(30) DEF Accounted, TokenServesOnce, Admitted
<1> QED
  BY <1>1, <1>3, <1>4, <1>5, <1>6, <1>7, SMTT(30), Z3T(30) DEF Accounted

\* What a step of an enrolment leaves of the requests: only its own position moves, and
\* it is admitted only with a token that nobody has used.
LEMMA EnrolmentMoves ==
    ASSUME Inductive, NEW r \in Requests, Enrolment(r)
    PROVE  /\ signed' = signed /\ used \subseteq used'
           /\ \A q \in Requests : enrol'[q].serial = enrol[q].serial /\ enrol'[q].token = enrol[q].token
           /\ \A q \in Requests \ {r} : Admitted(q)' = Admitted(q)
           /\ Admitted(r)' => Admitted(r) \/ (enrol[r].token \notin used /\ enrol[r].token \in used')
           /\ row' = row \/ (row' = enrol[r].serial /\ Admitted(r))
<1> USE DEF Inductive, Shape, Enrolments, Admitted
<1>1. ASSUME NEW p, Goto(r, p)
      PROVE  /\ \A q \in Requests : enrol'[q].serial = enrol[q].serial /\ enrol'[q].token = enrol[q].token
             /\ \A q \in Requests \ {r} : enrol'[q].pc = enrol[q].pc
             /\ enrol'[r].pc = p
  BY <1>1 DEF Goto
<1>2. CASE ConsumeEnrollmentToken(r)
  BY <1>1, <1>2, SMTT(30), Z3T(30) DEF ConsumeEnrollmentToken
<1>3. CASE UpsertEdgeNode(r)
  BY <1>1, <1>3 DEF UpsertEdgeNode
<1>4. CASE RememberReads(r)
  <2>1. signed' = signed /\ used' = used /\ row' = row /\ Admitted(r)
    BY <1>4 DEF RememberReads
  <2>2. CASE Goto(r, "answer")
    BY <1>1, <2>1, <2>2
  <2>3. CASE enrol' = [enrol EXCEPT ![r] = [pc |-> "remember", serial |-> enrol[r].serial, token |-> enrol[r].token,
                                            read |-> row]]
    BY <2>1, <2>3
  <2> QED
    BY <1>4, <2>2, <2>3 DEF RememberReads
<1>5. CASE RememberEnrolledNode(r)
  BY <1>1, <1>5 DEF RememberEnrolledNode
<1>6. CASE EnrolAnswered(r) \/ EnrolFails(r)
  BY <1>1, <1>6, SMTT(30), Z3T(30) DEF EnrolAnswered, EnrolFails, Done, edgeVars
<1> QED
  BY <1>2, <1>3, <1>4, <1>5, <1>6 DEF Enrolment

LEMMA EnrolmentAccounts ==
    ASSUME Inductive, Accounted, NEW r \in Requests, Enrolment(r)
    PROVE  Accounted'
<1>1. row' <= signed'
  BY EnrolmentMoves DEF Accounted
<1>2. \A q \in Requests : Admitted(q)' \/ (row' # None /\ enrol'[q].serial = row') => enrol'[q].token \in used'
  BY EnrolmentMoves, SMTT(30), Z3T(30) DEF Accounted
<1>3. \A q \in Requests : Admitted(q)' /\ enrol[q].token = enrol[r].token /\ Admitted(r)' => q = r
  BY EnrolmentMoves DEF Accounted
<1>4. \A p, q \in Requests : Admitted(p)' /\ Admitted(q)' /\ enrol'[p].token = enrol'[q].token => p = q
  BY <1>3, EnrolmentMoves, SMTT(30), Z3T(30) DEF Accounted
<1>5. TokenServesOnce'
  <2> SUFFICES ASSUME NEW p \in Requests, NEW q \in Requests,
                      row' # None, enrol'[p].serial = row', Admitted(q)', enrol'[q].token = enrol'[p].token
               PROVE  p = q
    BY DEF TokenServesOnce, Admitted
  <2>1. CASE row' = row
    BY <2>1, EnrolmentMoves, SMTT(30), Z3T(30) DEF Accounted, TokenServesOnce, Admitted
  <2>2. CASE row' = enrol[r].serial /\ Admitted(r)
    BY <2>2, EnrolmentMoves, SMTT(30), Z3T(30) DEF Accounted
  <2> QED
    BY <2>1, <2>2, EnrolmentMoves
<1> QED
  BY <1>1, <1>2, <1>4, <1>5, EnrolmentMoves, SMTT(30), Z3T(30) DEF Accounted

\* A restart ends every request under way.
LEMMA RestartAccounts ==
    ASSUME Inductive, Accounted, Restart
    PROVE  Accounted'
<1>1. \A q \in Requests : enrol'[q].serial = enrol[q].serial /\ enrol'[q].token = enrol[q].token /\ ~Admitted(q)'
  BY DEF Restart, Inductive, Shape, Enrolments, Admitted, UnderWay
<1> QED
  BY <1>1, SMT, Z3 DEF Restart, Accounted, TokenServesOnce, Admitted

LEMMA NextAccounts ==
    ASSUME Inductive, Accounted, [Next]_vars
    PROVE  Accounted'
<1>1. CASE UNCHANGED <<row, enrol, used, signed>>
  BY <1>1 DEF Accounted, TokenServesOnce, Admitted
<1>2. CASE DeleteEdgeNode
  BY <1>2, NodeDirectoryAssumption, SMTT(30), Z3T(30)
  DEF DeleteEdgeNode, Inductive, Shape, Accounted, TokenServesOnce, Admitted, None
<1> QED
  BY <1>1, <1>2, EnrolSignsAccounts, EnrolmentAccounts, RestartAccounts
  DEF Next, vars, memoryVars, adminVars, connVars, edgeVars, ForgetNode, DisconnectNode, RefreshReads, ReplaceNodeCatalog,
      SetDatabaseSuspect, ClearDatabaseSuspect, DatabaseFails, DatabaseReturns, EdgeRestart, Dial, Handler,
      AuthorizedNodeAsks, AuthorizedNodeQueries, AuthorizedNodeStores, AuthorizedNodeFallsBack, RegisterSession, StreamEnds

\* A token admits one certificate (ConsumeEnrollmentTokenSettings reads the row again
\* under its lock): no other request is past the consumption with the token that the
\* certificate in the row came from, however many requests, tokens, deletions and
\* restarts there are.
THEOREM TokenIsUsedOnce == Spec => []TokenServesOnce
<1>1. Inductive /\ [Next]_vars => Inductive'
  BY NextKeeps
<1>2. Inductive /\ Accounted /\ [Next]_vars => Accounted'
  BY NextAccounts
<1>3. Accounted => TokenServesOnce
  BY DEF Accounted
<1> QED
  BY <1>1, <1>2, <1>3, InitInductive, InitAccounted, PTL DEF Spec

-----------------------------------------------------------------------------
(* Types: the part of TypeOK that the inductive invariant does not state *)

Numbers == {None} \cup Serials

\* Copies of serial numbers
Copies == {catalog, saved, running, signed} \subseteq Numbers /\ refresh \in [pc : {"idle", "listed"}, read : Numbers]

\* Flags, positions and counters
Flags ==
    /\ {forgotten, suspect, up} \subseteq BOOLEAN /\ used \subseteq Tokens
    /\ del \in {"idle", "forget", "disconnect"} /\ fate \in {"present", "deleting", "gone", "unsettled"}

Counters == deletes \in 0..MaxDeletes /\ trouble \in 0..MaxTrouble

LEMMA InitTyped == Init => Copies /\ Flags /\ Counters
<1> SUFFICES ASSUME Init PROVE Copies /\ Flags /\ Counters
  OBVIOUS
<1>1. {0, 1} \subseteq Numbers
  BY NodeDirectoryAssumption, SMTT(30), Z3T(30) DEF Numbers, Serials, None
<1>2. Copies
  BY <1>1 DEF Init, Copies, None
<1>3. Flags
  BY DEF Init, Flags
<1>4. Counters
  BY NodeDirectoryAssumption, SMTT(30), Z3T(30) DEF Init, Counters
<1> QED
  BY <1>2, <1>3, <1>4

\* Every write of a copy is of a serial that was read, signed or stored.
LEMMA NextCopies ==
    ASSUME Inductive, Copies, [Next]_vars
    PROVE  Copies'
<1> USE DEF Copies
<1>0. /\ row \in Numbers /\ None \in Numbers
      /\ \A r \in Requests : enrol[r].serial \in Numbers /\ enrol[r].read \in Numbers
      /\ \A s \in Serials : conn[s].serial \in Numbers
  BY DEF Inductive, Shape, Enrolments, Handlers, Numbers
<1>1. CASE UNCHANGED <<catalog, saved, running, signed, refresh>>
  BY <1>1
<1>2. ASSUME NEW r \in Requests, NEW t \in Tokens, EnrolSigns(r, t) PROVE Copies'
  <2>1. signed + 1 \in Numbers
    BY <1>2, NodeDirectoryAssumption, SMTT(30), Z3T(30) DEF EnrolSigns, Inductive, Shape, Serials, Numbers
  <2> QED
    BY <1>2, <2>1 DEF EnrolSigns, memoryVars, edgeVars
<1>3. ASSUME NEW r \in Requests, RememberEnrolledNode(r) \/ EnrolAnswered(r) PROVE Copies'
  BY <1>0, <1>3 DEF RememberEnrolledNode, EnrolAnswered, memoryVars, edgeVars
<1>4. CASE ForgetNode \/ RefreshReads \/ ReplaceNodeCatalog
  BY <1>0, <1>4, SMTT(30), Z3T(30) DEF ForgetNode, RefreshReads, ReplaceNodeCatalog, memoryVars, adminVars, edgeVars
<1>5. CASE Restart \/ EdgeRestart
  BY <1>0, <1>5, SMT, Z3 DEF Restart, EdgeRestart, memoryVars, edgeVars
<1>6. ASSUME NEW s \in Serials, AuthorizedNodeStores(s) PROVE Copies'
  BY <1>0, <1>6 DEF AuthorizedNodeStores, adminVars, edgeVars
<1> QED
  BY <1>1, <1>2, <1>3, <1>4, <1>5, <1>6
  DEF Next, Enrolment, ConsumeEnrollmentToken, UpsertEdgeNode, RememberReads, EnrolFails, DeleteEdgeNode, DisconnectNode,
      SetDatabaseSuspect, ClearDatabaseSuspect, DatabaseFails, DatabaseReturns, Dial, Handler, AuthorizedNodeAsks,
      AuthorizedNodeQueries, AuthorizedNodeFallsBack, RegisterSession, StreamEnds, vars, memoryVars, adminVars, edgeVars

LEMMA NextFlags ==
    ASSUME Inductive, Flags, [Next]_vars
    PROVE  Flags'
<1> USE DEF Flags
<1>1. CASE UNCHANGED <<forgotten, suspect, up, used, del, fate>>
  BY <1>1
<1>2. ASSUME NEW r \in Requests, ConsumeEnrollmentToken(r) PROVE Flags'
  BY <1>2 DEF ConsumeEnrollmentToken, Inductive, Shape, Enrolments, memoryVars
<1>3. ASSUME NEW r \in Requests, RememberEnrolledNode(r) PROVE Flags'
  BY <1>3 DEF RememberEnrolledNode
<1>4. CASE DeleteEdgeNode \/ ForgetNode \/ DisconnectNode
  BY <1>4 DEF DeleteEdgeNode, ForgetNode, DisconnectNode, memoryVars
<1>5. CASE SetDatabaseSuspect \/ ClearDatabaseSuspect \/ DatabaseFails \/ DatabaseReturns
  BY <1>5 DEF SetDatabaseSuspect, ClearDatabaseSuspect, DatabaseFails, DatabaseReturns, memoryVars, adminVars
<1>6. CASE Restart
  BY <1>6 DEF Restart
<1> QED
  BY <1>1, <1>2, <1>3, <1>4, <1>5, <1>6
  DEF Next, EnrolSigns, Enrolment, UpsertEdgeNode, RememberReads, EnrolAnswered, EnrolFails, RefreshReads,
      ReplaceNodeCatalog, EdgeRestart, Dial, Handler, AuthorizedNodeAsks, AuthorizedNodeQueries, AuthorizedNodeStores,
      AuthorizedNodeFallsBack, RegisterSession, StreamEnds, vars, memoryVars, adminVars

LEMMA NextCounters ==
    ASSUME Counters, [Next]_vars
    PROVE  Counters'
<1>1. deletes' = deletes \/ (deletes < MaxDeletes /\ deletes' = deletes + 1)
  BY DEF Next, EnrolSigns, Enrolment, ConsumeEnrollmentToken, UpsertEdgeNode, RememberReads, RememberEnrolledNode,
      EnrolAnswered, EnrolFails, DeleteEdgeNode, ForgetNode, DisconnectNode, RefreshReads, ReplaceNodeCatalog,
      SetDatabaseSuspect, ClearDatabaseSuspect, DatabaseFails, DatabaseReturns, Restart, EdgeRestart, Dial, Handler,
      AuthorizedNodeAsks, AuthorizedNodeQueries, AuthorizedNodeStores, AuthorizedNodeFallsBack, RegisterSession,
      StreamEnds, vars, adminVars
<1>2. trouble' = trouble \/ Trouble
  BY DEF Next, EnrolSigns, Enrolment, ConsumeEnrollmentToken, UpsertEdgeNode, RememberReads, RememberEnrolledNode,
      EnrolAnswered, EnrolFails, DeleteEdgeNode, ForgetNode, DisconnectNode, RefreshReads, ReplaceNodeCatalog,
      SetDatabaseSuspect, ClearDatabaseSuspect, DatabaseFails, DatabaseReturns, Restart, EdgeRestart, Dial, Handler,
      AuthorizedNodeAsks, AuthorizedNodeQueries, AuthorizedNodeStores, AuthorizedNodeFallsBack, RegisterSession,
      StreamEnds, vars, Answered, Fails
<1> QED
  BY <1>1, <1>2, NodeDirectoryAssumption, SMT, Z3 DEF Counters, Trouble

\* The directory, its copies, the handlers and the history stay in their domains, and a
\* stream that is served is the registered session of its node.
THEOREM TypeCorrect == Spec => []TypeOK
<1>1. Inductive /\ [Next]_vars => Inductive'
  BY NextKeeps
<1>2. /\ Inductive /\ Copies /\ [Next]_vars => Copies'
      /\ Inductive /\ Flags /\ [Next]_vars => Flags'
      /\ Counters /\ [Next]_vars => Counters'
  BY NextCopies, NextFlags, NextCounters
<1>3. Inductive /\ Copies /\ Flags /\ Counters => TypeOK
  BY DEF Inductive, Shape, Registered, Handlers, Enrolments, Numbers, Copies, Flags, Counters, TypeOK
<1> QED
  BY <1>1, <1>2, <1>3, InitInductive, InitTyped, PTL DEF Spec
=============================================================================
