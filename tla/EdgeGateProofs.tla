--------------------------- MODULE EdgeGateProofs ---------------------------
(***************************************************************************)
(* Proofs about EdgeGate, for any number of troubles: the type invariant,     *)
(* that the two flags agree unless an opening overlapped a closing, and that  *)
(* no port opens while the identities are discarded unless a race was seen.   *)
(***************************************************************************)
EXTENDS EdgeGate, TLAPS

\* Leaves without a pragma are Zenon's; the ones about arithmetic cite SMT, with Z3 as a
\* second attempt.
USE ZenonT(30), ZenonT(60)

(* The flags, of TypeOK *)
Booleans ==
    {connected, syncReady, controllerFault, resetPending, admissionClosed, coreDraining, lease, closed, localFailed, known,
     draining, drains, logoutSent, verdict, gui, disk} \subseteq BOOLEAN

(* The history sees every race: an overlap or an overrun that is there was recorded.
   An overrun starts only with a step of a transition, or of the ticker. *)
Seen ==
    /\ Overlap => "overlap" \in raced
    /\ Overrun => "overrun" \in raced

(* Between the two halves of a transition the core has the flag the server will get. *)
Halves ==
    "overlap" \notin raced =>
        /\ (\E g \in Goroutines : trans[g] = "mark") => admissionClosed
        /\ (\E g \in Goroutines : trans[g] = "unmark") => ~admissionClosed
        /\ (\A g \in Goroutines : trans[g] \notin {"mark", "unmark"}) => admissionClosed = closed

(* Only the ticker and the receiver open, and the receiver only after the last
   confirmation of a complete synchronisation. A goroutine that is elsewhere in its
   code has returned from its transition. *)
Closers == {"none", "close", "mark"}
Openers ==
    /\ trans["conn"] \in Closers /\ trans["request"] \in Closers
    /\ trans["recv"] \notin Closers =>
           ~resetPending /\ sync = "ready" /\ recv = "wait" /\ conn \in {"up", "fence", "join"}
    /\ conn \in {"clear", "discard", "dial"} => recv = "wait" /\ sync = "none" /\ trans["recv"] = "none"
    /\ conn \in {"dial", "up", "join", "discard"} => trans["conn"] = "none"
    /\ tick = "compare" => trans["tick"] = "none"

(* Before the first welcome nothing is closed, and nothing can be registered either. *)
Virgin == ~syncReady /\ ~lease /\ frp = "out" /\ reg = "idle" /\ sync = "none"

(* Every path to a discarded cache runs through a fence. *)
Fenced ==
    raced = {} =>
        /\ recv # "wait" /\ trans["recv"] # "close" => admissionClosed
        /\ sync = "reset" => admissionClosed
        /\ conn = "clear" /\ trans["conn"] # "close" => admissionClosed
        /\ conn = "discard" => admissionClosed
        /\ resetPending => admissionClosed \/ Virgin

Inductive == TypeOK /\ Seen /\ Halves /\ Openers /\ Fenced

-----------------------------------------------------------------------------
\* The invariant holds when the edge starts.
LEMMA InitInductive == Init => Inductive
<1> SUFFICES ASSUME Init PROVE Inductive
  OBVIOUS
<1>a. Booleans
  BY DEF Init, Booleans
<1>b. trouble \in 0..MaxTrouble /\ ports \in 0..1
  BY EdgeGateAssumption, SMTT(30), Z3T(30) DEF Init
<1>1. TypeOK
  BY <1>a, <1>b DEF Init, TypeOK, Booleans
<1>2. Seen /\ Halves
  BY DEF Init, Seen, Halves, Goroutines, Overlap, Overrun, Opening, UnavailableEdge
<1>3. Openers /\ Fenced
  BY DEF Init, Openers, Closers, Fenced, Virgin, Goroutines
<1> QED BY <1>1, <1>2, <1>3 DEF Inductive

\* A step that changes nothing keeps the invariant.
LEMMA StutterKeeps == Inductive /\ UNCHANGED vars => Inductive'
BY SMT, Z3
DEF Inductive, TypeOK, Seen, Halves, Openers, Closers, Fenced, Virgin, Goroutines, Overlap, Overrun,
    Opening, UnavailableEdge, vars, flagVars, coreVars, faultVars, clientVars, tickVars, transVars

(* A step that writes the history sees what it leads to. *)
LEMMA WatchedSees ==
  ASSUME TypeOK, Watched
  PROVE  Seen' /\ raced \subseteq raced' /\ raced' \subseteq {"overlap", "overrun"}
BY DEF TypeOK, Watched, Races, Seen

(* An opening checks the local database. *)
LEMMA TransitionChecksKeeps == ASSUME NEW g \in Goroutines, Inductive, TransitionChecks(g) PROVE Inductive'
<1> USE DEF TransitionChecks, flagVars, coreVars, faultVars, clientVars, tickVars, transVars
<1>1. Seen' /\ raced \subseteq raced' /\ raced' \subseteq {"overlap", "overrun"}
  BY WatchedSees DEF Inductive
<1>2. TypeOK'
  BY <1>1, EdgeGateAssumption, SMTT(30), Z3T(30) DEF Inductive, TypeOK, Goroutines
<1>3. Halves'
  BY <1>1, SMTT(30), Z3T(30)
  DEF Inductive, TypeOK, Halves, Openers, Closers, Goroutines, Seen, Overlap, Opening
<1>4. Openers'
  BY DEF Inductive, TypeOK, Goroutines, Openers, Closers
<1>5. Fenced'
  BY <1>1
  DEF Inductive, TypeOK, Goroutines, Seen, Overrun, Opening, UnavailableEdge, Openers, Closers,
      Fenced, Virgin
<1> QED BY <1>1, <1>2, <1>3, <1>4, <1>5 DEF Inductive

(* The core's half of a transition. *)
LEMMA TransitionFencesKeeps == ASSUME NEW g \in Goroutines, Inductive, TransitionFences(g) PROVE Inductive'
<1> USE DEF TransitionFences, SetAdmissionClosed, flagVars, coreVars, faultVars, clientVars,
    tickVars, transVars
<1>1. Seen' /\ raced \subseteq raced' /\ raced' \subseteq {"overlap", "overrun"}
  BY WatchedSees DEF Inductive
<1>2. TypeOK'
  BY <1>1, EdgeGateAssumption, SMTT(30), Z3T(30) DEF Inductive, TypeOK, Goroutines
<1>3. Halves'
  BY <1>1 DEF Inductive, TypeOK, Halves, Openers, Closers, Goroutines, Seen, Overlap, Opening
<1>4. Openers'
  BY DEF Inductive, TypeOK, Goroutines, Openers, Closers
<1>5. Fenced'
  BY <1>1
  DEF Inductive, TypeOK, Goroutines, Seen, Overrun, Opening, UnavailableEdge, Openers, Closers,
      Fenced, Virgin
<1> QED BY <1>1, <1>2, <1>3, <1>4, <1>5 DEF Inductive

(* The server's half of a transition. *)
LEMMA TransitionMarksKeeps == ASSUME NEW g \in Goroutines, Inductive, TransitionMarks(g) PROVE Inductive'
<1> USE DEF TransitionMarks, flagVars, coreVars, faultVars, clientVars, tickVars, transVars
<1>1. Seen' /\ raced \subseteq raced' /\ raced' \subseteq {"overlap", "overrun"}
  BY WatchedSees DEF Inductive
<1>2. TypeOK'
  BY <1>1, EdgeGateAssumption, SMTT(30), Z3T(30) DEF Inductive, TypeOK, Goroutines
<1>3. Halves'
  BY <1>1, SMTT(30), Z3T(30)
  DEF Inductive, TypeOK, Halves, Openers, Closers, Goroutines, Seen, Overlap, Opening
<1>4. Openers'
  BY DEF Inductive, TypeOK, Goroutines, Openers, Closers
<1>5. Fenced'
  BY <1>1
  DEF Inductive, TypeOK, Goroutines, Seen, Overrun, Opening, UnavailableEdge, Openers, Closers,
      Fenced, Virgin
<1> QED BY <1>1, <1>2, <1>3, <1>4, <1>5 DEF Inductive

(* The stream is up. *)
LEMMA ConnectKeeps == ASSUME Inductive, Connect PROVE Inductive'
<1> USE DEF Connect, flagVars, coreVars, faultVars, clientVars, tickVars, transVars
<1>1. Seen'
  BY DEF Inductive, TypeOK, Goroutines, Seen, Overlap, Overrun, Opening, UnavailableEdge
<1>2. TypeOK'
  BY EdgeGateAssumption, SMTT(30), Z3T(30) DEF Inductive, TypeOK, Goroutines
<1>3. Halves'
  BY DEF Inductive, TypeOK, Halves, Goroutines
<1>4. Openers'
  BY DEF Inductive, TypeOK, Goroutines, Openers, Closers
<1>5. Fenced'
  BY
  DEF Inductive, TypeOK, Goroutines, Seen, Overrun, Opening, UnavailableEdge, Openers, Closers,
      Fenced, Virgin
<1> QED BY <1>1, <1>2, <1>3, <1>4, <1>5 DEF Inductive

(* Run fences after a failed dial. *)
LEMMA DialFailsKeeps == ASSUME Inductive, DialFails PROVE Inductive'
<1> USE DEF DialFails, Begin, flagVars, coreVars, faultVars, clientVars, tickVars, transVars
<1>1. Seen' /\ raced \subseteq raced' /\ raced' \subseteq {"overlap", "overrun"}
  BY WatchedSees DEF Inductive
<1>2. TypeOK'
  BY <1>1, EdgeGateAssumption, SMTT(30), Z3T(30) DEF Inductive, TypeOK, Goroutines
<1>3. Halves'
  BY <1>1 DEF Inductive, TypeOK, Halves, Openers, Closers, Goroutines, Seen, Overlap, Opening
<1>4. Openers'
  BY DEF Inductive, TypeOK, Goroutines, Openers, Closers
<1>5. Fenced'
  BY <1>1
  DEF Inductive, TypeOK, Goroutines, Seen, Overrun, Opening, UnavailableEdge, Openers, Closers,
      Fenced, Virgin
<1> QED BY <1>1, <1>2, <1>3, <1>4, <1>5 DEF Inductive

(* connect fences when it returns. *)
LEMMA LoseKeeps == ASSUME Inductive, Lose PROVE Inductive'
<1> USE DEF Lose, Begin, Trouble, flagVars, coreVars, faultVars, clientVars, tickVars, transVars
<1>1. Seen' /\ raced \subseteq raced' /\ raced' \subseteq {"overlap", "overrun"}
  BY WatchedSees DEF Inductive
<1>a. trouble' \in 0..MaxTrouble
  BY EdgeGateAssumption, SMTT(30), Z3T(30) DEF Inductive, TypeOK
<1>2. TypeOK'
  BY <1>1, <1>a DEF Inductive, TypeOK, Goroutines
<1>3. Halves'
  BY <1>1 DEF Inductive, TypeOK, Halves, Openers, Closers, Goroutines, Seen, Overlap, Opening
<1>4. Openers'
  BY DEF Inductive, TypeOK, Goroutines, Openers, Closers
<1>5. Fenced'
  BY <1>1
  DEF Inductive, TypeOK, Goroutines, Seen, Overrun, Opening, UnavailableEdge, Openers, Closers,
      Fenced, Virgin
<1> QED BY <1>1, <1>2, <1>3, <1>4, <1>5 DEF Inductive

(* connect waits for its workers. *)
LEMMA CancelKeeps == ASSUME Inductive, Cancel PROVE Inductive'
<1> USE DEF Cancel, Returned, flagVars, coreVars, faultVars, clientVars, tickVars, transVars
<1>1. Seen'
  BY DEF Inductive, TypeOK, Goroutines, Seen, Overlap, Overrun, Opening, UnavailableEdge
<1>2. TypeOK'
  BY EdgeGateAssumption, SMTT(30), Z3T(30) DEF Inductive, TypeOK, Goroutines
<1>3. Halves'
  BY DEF Inductive, TypeOK, Halves, Goroutines
<1>4. Openers'
  BY DEF Inductive, TypeOK, Goroutines, Openers, Closers
<1>5. Fenced'
  BY
  DEF Inductive, TypeOK, Goroutines, Seen, Overrun, Opening, UnavailableEdge, Openers, Closers,
      Fenced, Virgin
<1> QED BY <1>1, <1>2, <1>3, <1>4, <1>5 DEF Inductive

(* Run fences again. *)
LEMMA JoinKeeps == ASSUME Inductive, Join PROVE Inductive'
<1> USE DEF Join, Begin, Returned, flagVars, coreVars, faultVars, clientVars, tickVars, transVars
<1>1. Seen' /\ raced \subseteq raced' /\ raced' \subseteq {"overlap", "overrun"}
  BY WatchedSees DEF Inductive
<1>2. TypeOK'
  BY <1>1, EdgeGateAssumption, SMTT(30), Z3T(30) DEF Inductive, TypeOK, Goroutines
<1>3. Halves'
  BY <1>1 DEF Inductive, TypeOK, Halves, Openers, Closers, Goroutines, Seen, Overlap, Opening
<1>4. Openers'
  BY DEF Inductive, TypeOK, Goroutines, Openers, Closers
<1>5. Fenced'
  BY <1>1
  DEF Inductive, TypeOK, Goroutines, Seen, Overrun, Opening, UnavailableEdge, Openers, Closers,
      Fenced, Virgin
<1> QED BY <1>1, <1>2, <1>3, <1>4, <1>5 DEF Inductive

(* Run clears the flags. *)
LEMMA ClearFlagsKeeps == ASSUME Inductive, ClearFlags PROVE Inductive'
<1> USE DEF ClearFlags, Returned, flagVars, coreVars, faultVars, clientVars, tickVars, transVars
<1>1. Seen'
  BY DEF Inductive, TypeOK, Goroutines, Seen, Overlap, Overrun, Opening, UnavailableEdge
<1>2. TypeOK'
  BY EdgeGateAssumption DEF Inductive, TypeOK, Goroutines
<1>3. Halves'
  BY DEF Inductive, TypeOK, Halves, Goroutines
<1>4. Openers'
  BY DEF Inductive, TypeOK, Goroutines, Openers, Closers
<1>5. Fenced'
  BY
  DEF Inductive, TypeOK, Goroutines, Seen, Overrun, Opening, UnavailableEdge, Openers, Closers,
      Fenced, Virgin
<1> QED BY <1>1, <1>2, <1>3, <1>4, <1>5 DEF Inductive

(* The cache is discarded. *)
LEMMA DiscardControlIdentityCacheKeeps == ASSUME Inductive, DiscardControlIdentityCache PROVE Inductive'
<1> USE DEF DiscardControlIdentityCache, flagVars, coreVars, faultVars, clientVars, tickVars,
    transVars
<1>1. Seen'
  BY DEF Inductive, TypeOK, Goroutines, Seen, Overlap, Overrun, Opening, UnavailableEdge
<1>2. TypeOK'
  BY EdgeGateAssumption, SMTT(30), Z3T(30) DEF Inductive, TypeOK, Goroutines
<1>3. Halves'
  BY DEF Inductive, TypeOK, Halves, Goroutines
<1>4. Openers'
  BY DEF Inductive, TypeOK, Goroutines, Openers, Closers
<1>5. Fenced'
  BY
  DEF Inductive, TypeOK, Goroutines, Seen, Overrun, Opening, UnavailableEdge, Openers, Closers,
      Fenced, Virgin
<1> QED BY <1>1, <1>2, <1>3, <1>4, <1>5 DEF Inductive

(* A heartbeat or the controller's state. *)
LEMMA ReceiveStateKeeps == ASSUME NEW f \in BOOLEAN, Inductive, ReceiveState(f) PROVE Inductive'
<1> USE DEF ReceiveState, Receives, Returned, BecomesFaulty, ControllerReports, Begin, Trouble,
    flagVars, coreVars, faultVars, clientVars, tickVars, transVars
<1>1. Seen' /\ raced \subseteq raced' /\ raced' \subseteq {"overlap", "overrun"}
  BY WatchedSees DEF Inductive
<1>2. TypeOK'
  BY <1>1, EdgeGateAssumption, SMTT(30), Z3T(30) DEF Inductive, TypeOK, Goroutines
<1>3. Halves'
  BY <1>1, SMTT(30), Z3T(30)
  DEF Inductive, TypeOK, Halves, Openers, Closers, Goroutines, Seen, Overlap, Opening
<1>4. Openers'
  BY DEF Inductive, TypeOK, Goroutines, Openers, Closers
<1>5. Fenced'
  BY <1>1
  DEF Inductive, TypeOK, Goroutines, Seen, Overrun, Opening, UnavailableEdge, Openers, Closers,
      Fenced, Virgin
<1> QED BY <1>1, <1>2, <1>3, <1>4, <1>5 DEF Inductive

(* The receiver goes on after its fence. *)
LEMMA StateReceivedKeeps == ASSUME Inductive, StateReceived PROVE Inductive'
<1> USE DEF StateReceived, Returned, flagVars, coreVars, faultVars, clientVars, tickVars, transVars
<1>1. Seen'
  BY DEF Inductive, TypeOK, Goroutines, Seen, Overlap, Overrun, Opening, UnavailableEdge
<1>2. TypeOK'
  BY EdgeGateAssumption DEF Inductive, TypeOK, Goroutines
<1>3. Halves'
  BY DEF Inductive, TypeOK, Halves, Goroutines
<1>4. Openers'
  BY DEF Inductive, TypeOK, Goroutines, Openers, Closers
<1>5. Fenced'
  BY
  DEF Inductive, TypeOK, Goroutines, Seen, Overrun, Opening, UnavailableEdge, Openers, Closers,
      Fenced, Virgin
<1> QED BY <1>1, <1>2, <1>3, <1>4, <1>5 DEF Inductive

(* A welcome. *)
LEMMA ReceiveWelcomeKeeps == ASSUME NEW f \in BOOLEAN, Inductive, ReceiveWelcome(f) PROVE Inductive'
<1> USE DEF ReceiveWelcome, Receives, Returned, ApplyIdle, BecomesFaulty, ControllerReports, Begin,
    Trouble, flagVars, coreVars, faultVars, clientVars, tickVars, transVars
<1>1. Seen' /\ raced \subseteq raced' /\ raced' \subseteq {"overlap", "overrun"}
  BY WatchedSees DEF Inductive
<1>2. TypeOK'
  BY <1>1, EdgeGateAssumption, SMTT(30), Z3T(30) DEF Inductive, TypeOK, Goroutines
<1>3. Halves'
  BY <1>1 DEF Inductive, TypeOK, Halves, Openers, Closers, Goroutines, Seen, Overlap, Opening
<1>4. Openers'
  BY DEF Inductive, TypeOK, Goroutines, Openers, Closers
<1>5. Fenced'
  BY <1>1
  DEF Inductive, TypeOK, Goroutines, Seen, Overrun, Opening, UnavailableEdge, Openers, Closers,
      Fenced, Virgin
<1> QED BY <1>1, <1>2, <1>3, <1>4, <1>5 DEF Inductive

(* A welcome with a new fault fences twice. *)
LEMMA WelcomeFaultKeeps == ASSUME Inductive, WelcomeFault PROVE Inductive'
<1> USE DEF WelcomeFault, Begin, Returned, flagVars, coreVars, faultVars, clientVars, tickVars,
    transVars
<1>1. Seen' /\ raced \subseteq raced' /\ raced' \subseteq {"overlap", "overrun"}
  BY WatchedSees DEF Inductive
<1>2. TypeOK'
  BY <1>1, EdgeGateAssumption DEF Inductive, TypeOK, Goroutines
<1>3. Halves'
  BY <1>1 DEF Inductive, TypeOK, Halves, Openers, Closers, Goroutines, Seen, Overlap, Opening
<1>4. Openers'
  BY DEF Inductive, TypeOK, Goroutines, Openers, Closers
<1>5. Fenced'
  BY <1>1
  DEF Inductive, TypeOK, Goroutines, Seen, Overrun, Opening, UnavailableEdge, Openers, Closers,
      Fenced, Virgin
<1> QED BY <1>1, <1>2, <1>3, <1>4, <1>5 DEF Inductive

(* The welcome asks for a reset. *)
LEMMA WelcomedKeeps == ASSUME Inductive, Welcomed PROVE Inductive'
<1> USE DEF Welcomed, Returned, flagVars, coreVars, faultVars, clientVars, tickVars, transVars
<1>1. Seen'
  BY DEF Inductive, TypeOK, Goroutines, Seen, Overlap, Overrun, Opening, UnavailableEdge
<1>2. TypeOK'
  BY EdgeGateAssumption DEF Inductive, TypeOK, Goroutines
<1>3. Halves'
  BY DEF Inductive, TypeOK, Halves, Goroutines
<1>4. Openers'
  BY DEF Inductive, TypeOK, Goroutines, Openers, Closers
<1>5. Fenced'
  BY
  DEF Inductive, TypeOK, Goroutines, Seen, Overrun, Opening, UnavailableEdge, Openers, Closers,
      Fenced, Virgin
<1> QED BY <1>1, <1>2, <1>3, <1>4, <1>5 DEF Inductive

(* The first fragment of a page. *)
LEMMA ReceivePageKeeps == ASSUME Inductive, ReceivePage PROVE Inductive'
<1> USE DEF ReceivePage, Receives, Returned, flagVars, coreVars, faultVars, clientVars, tickVars,
    transVars
<1>1. Seen'
  BY DEF Inductive, TypeOK, Goroutines, Seen, Overlap, Overrun, Opening, UnavailableEdge
<1>2. TypeOK'
  BY EdgeGateAssumption DEF Inductive, TypeOK, Goroutines
<1>3. Halves'
  BY DEF Inductive, TypeOK, Halves, Goroutines
<1>4. Openers'
  BY DEF Inductive, TypeOK, Goroutines, Openers, Closers
<1>5. Fenced'
  BY
  DEF Inductive, TypeOK, Goroutines, Seen, Overrun, Opening, UnavailableEdge, Openers, Closers,
      Fenced, Virgin
<1> QED BY <1>1, <1>2, <1>3, <1>4, <1>5 DEF Inductive

(* The confirmation of a page may open the node. *)
LEMMA ReceiveConfirmedKeeps == ASSUME NEW complete \in BOOLEAN, Inductive, ReceiveConfirmed(complete) PROVE Inductive'
<1> USE DEF ReceiveConfirmed, Receives, Returned, Begin, flagVars, coreVars, faultVars, clientVars,
    tickVars, transVars
<1>1. Seen' /\ raced \subseteq raced' /\ raced' \subseteq {"overlap", "overrun"}
  BY WatchedSees DEF Inductive
<1>2. TypeOK'
  BY <1>1, EdgeGateAssumption, SMTT(30), Z3T(30) DEF Inductive, TypeOK, Goroutines
<1>3. Halves'
  BY <1>1, SMTT(30), Z3T(30)
  DEF Inductive, TypeOK, Halves, Openers, Closers, Goroutines, Seen, Overlap, Opening
<1>4. Openers'
  BY DEF Inductive, TypeOK, Goroutines, Openers, Closers
<1>5. Fenced'
  BY <1>1
  DEF Inductive, TypeOK, Goroutines, Seen, Overrun, Opening, UnavailableEdge, Openers, Closers,
      Fenced, Virgin
<1> QED BY <1>1, <1>2, <1>3, <1>4, <1>5 DEF Inductive

(* The apply worker resets, or applies a page. *)
LEMMA ApplyKeeps == ASSUME Inductive, Apply PROVE Inductive'
<1> USE DEF Apply, flagVars, coreVars, faultVars, clientVars, tickVars, transVars
<1>a. resetPending' \in BOOLEAN
  BY DEF Inductive, TypeOK
<1>b. resetPending' => resetPending \/ sync = "reset"
  BY DEF Inductive, TypeOK
<1>1. Seen'
  BY <1>a, <1>b DEF Inductive, TypeOK, Goroutines, Seen, Overlap, Overrun, Opening, UnavailableEdge
<1>2. TypeOK'
  BY <1>a DEF Inductive, TypeOK, Goroutines
<1>3. Halves'
  BY DEF Inductive, TypeOK, Halves, Goroutines
<1>4. Openers'
  BY DEF Inductive, TypeOK, Goroutines, Openers, Closers
<1>5. Fenced'
  BY
  DEF Inductive, TypeOK, Goroutines, Seen, Overrun, Opening, UnavailableEdge, Openers, Closers,
      Fenced, Virgin
<1> QED BY <1>1, <1>2, <1>3, <1>4, <1>5 DEF Inductive

(* The ticker probes the disk. *)
LEMMA ProbeKeeps == ASSUME Inductive, Probe PROVE Inductive'
<1> USE DEF Probe, Returned, flagVars, coreVars, faultVars, clientVars, tickVars, transVars
<1>1. Seen'
  BY DEF Inductive, TypeOK, Goroutines, Seen, Overlap, Overrun, Opening, UnavailableEdge
<1>2. TypeOK'
  BY EdgeGateAssumption, SMTT(30), Z3T(30) DEF Inductive, TypeOK, Goroutines
<1>3. Halves'
  BY DEF Inductive, TypeOK, Halves, Goroutines
<1>4. Openers'
  BY DEF Inductive, TypeOK, Goroutines, Openers, Closers
<1>5. Fenced'
  BY
  DEF Inductive, TypeOK, Goroutines, Seen, Overrun, Opening, UnavailableEdge, Openers, Closers,
      Fenced, Virgin
<1> QED BY <1>1, <1>2, <1>3, <1>4, <1>5 DEF Inductive

(* The ticker reads the flags. *)
LEMMA TickReadsKeeps == ASSUME Inductive, TickReads PROVE Inductive'
<1> USE DEF TickReads, Returned, flagVars, coreVars, faultVars, clientVars, tickVars, transVars
<1>1. Seen' /\ raced \subseteq raced' /\ raced' \subseteq {"overlap", "overrun"}
  BY WatchedSees DEF Inductive
<1>2. TypeOK'
  BY <1>1, EdgeGateAssumption, SMTT(30), Z3T(30) DEF Inductive, TypeOK, Goroutines
<1>3. Halves'
  BY <1>1 DEF Inductive, TypeOK, Halves, Openers, Closers, Goroutines, Seen, Overlap, Opening
<1>4. Openers'
  BY DEF Inductive, TypeOK, Goroutines, Openers, Closers
<1>5. Fenced'
  BY <1>1
  DEF Inductive, TypeOK, Goroutines, Seen, Overrun, Opening, UnavailableEdge, Openers, Closers,
      Fenced, Virgin
<1> QED BY <1>1, <1>2, <1>3, <1>4, <1>5 DEF Inductive

(* The ticker compares and may begin a transition. *)
LEMMA TickComparesKeeps == ASSUME Inductive, TickCompares PROVE Inductive'
<1> USE DEF TickCompares, Begin, flagVars, coreVars, faultVars, clientVars, tickVars, transVars
<1>1. Seen' /\ raced \subseteq raced' /\ raced' \subseteq {"overlap", "overrun"}
  BY WatchedSees DEF Inductive
<1>b. Booleans'
  BY DEF Inductive, TypeOK, Booleans
<1>c. trans' \in [Goroutines -> {"none", "check", "open", "unmark", "close", "mark"}]
  BY DEF Inductive, TypeOK, Goroutines
<1>2. TypeOK'
  BY <1>1, <1>b, <1>c, SMTT(30), Z3T(30) DEF Booleans, Inductive, TypeOK, Goroutines
<1>3. Halves'
  BY <1>1, SMTT(30), Z3T(30)
  DEF Inductive, TypeOK, Halves, Openers, Closers, Goroutines, Seen, Overlap, Opening
<1>4. Openers'
  BY DEF Inductive, TypeOK, Goroutines, Openers, Closers
<1>5. Fenced'
  BY <1>1
  DEF Inductive, TypeOK, Goroutines, Seen, Overrun, Opening, UnavailableEdge, Openers, Closers,
      Fenced, Virgin
<1> QED BY <1>1, <1>2, <1>3, <1>4, <1>5 DEF Inductive

(* A statement fails. *)
LEMMA StatementFailsKeeps == ASSUME Inductive, StatementFails PROVE Inductive'
<1> USE DEF StatementFails, Begin, Returned, Trouble, flagVars, coreVars, faultVars, clientVars,
    tickVars, transVars
<1>1. Seen' /\ raced \subseteq raced' /\ raced' \subseteq {"overlap", "overrun"}
  BY WatchedSees DEF Inductive
<1>2. TypeOK'
  BY <1>1, EdgeGateAssumption, SMTT(30), Z3T(30) DEF Inductive, TypeOK, Goroutines
<1>3. Halves'
  BY <1>1 DEF Inductive, TypeOK, Halves, Openers, Closers, Goroutines, Seen, Overlap, Opening
<1>4. Openers'
  BY DEF Inductive, TypeOK, Goroutines, Openers, Closers
<1>5. Fenced'
  BY <1>1
  DEF Inductive, TypeOK, Goroutines, Seen, Overrun, Opening, UnavailableEdge, Openers, Closers,
      Fenced, Virgin
<1> QED BY <1>1, <1>2, <1>3, <1>4, <1>5 DEF Inductive

(* The disk fails. *)
LEMMA DiskFailsKeeps == ASSUME Inductive, DiskFails PROVE Inductive'
<1> USE DEF DiskFails, Trouble, flagVars, coreVars, faultVars, clientVars, tickVars, transVars
<1>1. Seen'
  BY DEF Inductive, TypeOK, Goroutines, Seen, Overlap, Overrun, Opening, UnavailableEdge
<1>a. trouble' \in 0..MaxTrouble
  BY EdgeGateAssumption, SMTT(30), Z3T(30) DEF Inductive, TypeOK
<1>b. Booleans'
  BY DEF Inductive, TypeOK, Booleans
<1>2. TypeOK'
  BY <1>a, <1>b, SMTT(30), Z3T(30) DEF Booleans, Inductive, TypeOK, Goroutines
<1>3. Halves'
  BY DEF Inductive, TypeOK, Halves, Goroutines
<1>4. Openers'
  BY DEF Inductive, TypeOK, Goroutines, Openers, Closers
<1>5. Fenced'
  BY
  DEF Inductive, TypeOK, Goroutines, Seen, Overrun, Opening, UnavailableEdge, Openers, Closers,
      Fenced, Virgin
<1> QED BY <1>1, <1>2, <1>3, <1>4, <1>5 DEF Inductive

(* The disk returns. *)
LEMMA DiskReturnsKeeps == ASSUME Inductive, DiskReturns PROVE Inductive'
<1> USE DEF DiskReturns, flagVars, coreVars, faultVars, clientVars, tickVars, transVars
<1>1. Seen'
  BY DEF Inductive, TypeOK, Goroutines, Seen, Overlap, Overrun, Opening, UnavailableEdge
<1>2. TypeOK'
  BY EdgeGateAssumption, SMTT(30), Z3T(30) DEF Inductive, TypeOK, Goroutines
<1>3. Halves'
  BY DEF Inductive, TypeOK, Halves, Goroutines
<1>4. Openers'
  BY DEF Inductive, TypeOK, Goroutines, Openers, Closers
<1>5. Fenced'
  BY
  DEF Inductive, TypeOK, Goroutines, Seen, Overrun, Opening, UnavailableEdge, Openers, Closers,
      Fenced, Virgin
<1> QED BY <1>1, <1>2, <1>3, <1>4, <1>5 DEF Inductive

(* A login passes the gate. *)
LEMMA GuiRequestKeeps == ASSUME Inductive, GuiRequest PROVE Inductive'
<1> USE DEF GuiRequest, EdgeOnline, flagVars, coreVars, faultVars, clientVars, tickVars, transVars
<1>1. Seen'
  BY DEF Inductive, TypeOK, Goroutines, Seen, Overlap, Overrun, Opening, UnavailableEdge
<1>2. TypeOK'
  BY EdgeGateAssumption, SMTT(30), Z3T(30) DEF Inductive, TypeOK, Goroutines
<1>3. Halves'
  BY DEF Inductive, TypeOK, Halves, Goroutines
<1>4. Openers'
  BY DEF Inductive, TypeOK, Goroutines, Openers, Closers
<1>5. Fenced'
  BY
  DEF Inductive, TypeOK, Goroutines, Seen, Overrun, Opening, UnavailableEdge, Openers, Closers,
      Fenced, Virgin
<1> QED BY <1>1, <1>2, <1>3, <1>4, <1>5 DEF Inductive

(* A login ends, and may end a drain. *)
LEMMA RememberClientKeeps == ASSUME NEW login \in BOOLEAN, Inductive, RememberClient(login) PROVE Inductive'
<1> USE DEF RememberClient, flagVars, coreVars, faultVars, clientVars, tickVars, transVars
<1>1. Seen'
  BY DEF Inductive, TypeOK, Goroutines, Seen, Overlap, Overrun, Opening, UnavailableEdge
<1>b. Booleans'
  BY DEF Inductive, TypeOK, Booleans
<1>c. (draining => known /\ drains)' /\ (logoutSent => draining)'
  BY DEF Inductive, TypeOK
<1>2. TypeOK'
  BY <1>b, <1>c, SMTT(30), Z3T(30) DEF Booleans, Inductive, TypeOK, Goroutines
<1>3. Halves'
  BY DEF Inductive, TypeOK, Halves, Goroutines
<1>4. Openers'
  BY DEF Inductive, TypeOK, Goroutines, Openers, Closers
<1>5. Fenced'
  BY
  DEF Inductive, TypeOK, Goroutines, Seen, Overrun, Opening, UnavailableEdge, Openers, Closers,
      Fenced, Virgin
<1> QED BY <1>1, <1>2, <1>3, <1>4, <1>5 DEF Inductive

(* A heartbeat may start the drain. *)
LEMMA FaultHeartbeatKeeps == ASSUME Inductive, FaultHeartbeat PROVE Inductive'
<1> USE DEF FaultHeartbeat, UnavailableEdge, flagVars, coreVars, faultVars, clientVars, tickVars,
    transVars
<1>1. Seen'
  BY DEF Inductive, TypeOK, Goroutines, Seen, Overlap, Overrun, Opening, UnavailableEdge
<1>2. TypeOK'
  BY EdgeGateAssumption, SMTT(30), Z3T(30) DEF Inductive, TypeOK, Goroutines
<1>3. Halves'
  BY DEF Inductive, TypeOK, Halves, Goroutines
<1>4. Openers'
  BY DEF Inductive, TypeOK, Goroutines, Openers, Closers
<1>5. Fenced'
  BY
  DEF Inductive, TypeOK, Goroutines, Seen, Overrun, Opening, UnavailableEdge, Openers, Closers,
      Fenced, Virgin
<1> QED BY <1>1, <1>2, <1>3, <1>4, <1>5 DEF Inductive

(* A frpc passes the gate. *)
LEMMA LoginCheckedKeeps == ASSUME Inductive, LoginChecked PROVE Inductive'
<1> USE DEF LoginChecked, EdgeOnline, flagVars, coreVars, faultVars, clientVars, tickVars, transVars
<1>1. Seen'
  BY DEF Inductive, TypeOK, Goroutines, Seen, Overlap, Overrun, Opening, UnavailableEdge
<1>2. TypeOK'
  BY EdgeGateAssumption, SMTT(30), Z3T(30) DEF Inductive, TypeOK, Goroutines
<1>3. Halves'
  BY DEF Inductive, TypeOK, Halves, Goroutines
<1>4. Openers'
  BY DEF Inductive, TypeOK, Goroutines, Openers, Closers
<1>5. Fenced'
  BY
  DEF Inductive, TypeOK, Goroutines, Seen, Overrun, Opening, UnavailableEdge, Openers, Closers,
      Fenced, Virgin
<1> QED BY <1>1, <1>2, <1>3, <1>4, <1>5 DEF Inductive

(* The core remembers the lease. *)
LEMMA RememberRuntimeLeaseKeeps == ASSUME Inductive, RememberRuntimeLease PROVE Inductive'
<1> USE DEF RememberRuntimeLease, Cached, flagVars, coreVars, faultVars, clientVars, tickVars,
    transVars
<1>1. Seen'
  BY DEF Inductive, TypeOK, Goroutines, Seen, Overlap, Overrun, Opening, UnavailableEdge
<1>2. TypeOK'
  BY EdgeGateAssumption, SMTT(30), Z3T(30) DEF Inductive, TypeOK, Goroutines
<1>3. Halves'
  BY DEF Inductive, TypeOK, Halves, Goroutines
<1>4. Openers'
  BY DEF Inductive, TypeOK, Goroutines, Openers, Closers
<1>5. Fenced'
  BY
  DEF Inductive, TypeOK, Goroutines, Seen, Overrun, Opening, UnavailableEdge, Openers, Closers,
      Fenced, Virgin
<1> QED BY <1>1, <1>2, <1>3, <1>4, <1>5 DEF Inductive

(* A registration passes the gate. *)
LEMMA NewProxyKeeps == ASSUME Inductive, NewProxy PROVE Inductive'
<1> USE DEF NewProxy, EdgeOnline, flagVars, coreVars, faultVars, clientVars, tickVars, transVars
<1>1. Seen'
  BY DEF Inductive, TypeOK, Goroutines, Seen, Overlap, Overrun, Opening, UnavailableEdge
<1>2. TypeOK'
  BY EdgeGateAssumption, SMTT(30), Z3T(30) DEF Inductive, TypeOK, Goroutines
<1>3. Halves'
  BY DEF Inductive, TypeOK, Halves, Goroutines
<1>4. Openers'
  BY DEF Inductive, TypeOK, Goroutines, Openers, Closers
<1>5. Fenced'
  BY
  DEF Inductive, TypeOK, Goroutines, Seen, Overrun, Opening, UnavailableEdge, Openers, Closers,
      Fenced, Virgin
<1> QED BY <1>1, <1>2, <1>3, <1>4, <1>5 DEF Inductive

(* A registration is refused or let through. *)
LEMMA AuthorizeProxyKeeps == ASSUME Inductive, AuthorizeProxy PROVE Inductive'
<1> USE DEF AuthorizeProxy, Cached, flagVars, coreVars, faultVars, clientVars, tickVars, transVars
<1>1. Seen'
  BY DEF Inductive, TypeOK, Goroutines, Seen, Overlap, Overrun, Opening, UnavailableEdge
<1>2. TypeOK'
  BY EdgeGateAssumption, SMTT(30), Z3T(30) DEF Inductive, TypeOK, Goroutines
<1>3. Halves'
  BY DEF Inductive, TypeOK, Halves, Goroutines
<1>4. Openers'
  BY DEF Inductive, TypeOK, Goroutines, Openers, Closers
<1>5. Fenced'
  BY
  DEF Inductive, TypeOK, Goroutines, Seen, Overrun, Opening, UnavailableEdge, Openers, Closers,
      Fenced, Virgin
<1> QED BY <1>1, <1>2, <1>3, <1>4, <1>5 DEF Inductive

(* The core registers, or not. *)
LEMMA RegisterProxyKeeps == ASSUME Inductive, RegisterProxy PROVE Inductive'
<1> USE DEF RegisterProxy, flagVars, coreVars, faultVars, clientVars, tickVars, transVars
<1>1. Seen'
  BY DEF Inductive, TypeOK, Goroutines, Seen, Overlap, Overrun, Opening, UnavailableEdge
<1>2. TypeOK'
  BY EdgeGateAssumption, SMTT(30), Z3T(30) DEF Inductive, TypeOK, Goroutines
<1>3. Halves'
  BY DEF Inductive, TypeOK, Halves, Goroutines
<1>4. Openers'
  BY DEF Inductive, TypeOK, Goroutines, Openers, Closers
<1>5. Fenced'
  BY
  DEF Inductive, TypeOK, Goroutines, Seen, Overrun, Opening, UnavailableEdge, Openers, Closers,
      Fenced, Virgin
<1> QED BY <1>1, <1>2, <1>3, <1>4, <1>5 DEF Inductive

(* The frpc ends. *)
LEMMA FrpExitKeeps == ASSUME Inductive, FrpExit PROVE Inductive'
<1> USE DEF FrpExit, flagVars, coreVars, faultVars, clientVars, tickVars, transVars
<1>1. Seen'
  BY DEF Inductive, TypeOK, Goroutines, Seen, Overlap, Overrun, Opening, UnavailableEdge
<1>2. TypeOK'
  BY EdgeGateAssumption, SMTT(30), Z3T(30) DEF Inductive, TypeOK, Goroutines
<1>3. Halves'
  BY DEF Inductive, TypeOK, Halves, Goroutines
<1>4. Openers'
  BY DEF Inductive, TypeOK, Goroutines, Openers, Closers
<1>5. Fenced'
  BY
  DEF Inductive, TypeOK, Goroutines, Seen, Overrun, Opening, UnavailableEdge, Openers, Closers,
      Fenced, Virgin
<1> QED BY <1>1, <1>2, <1>3, <1>4, <1>5 DEF Inductive

\* Every step keeps the invariant.
LEMMA NextKeeps == Inductive /\ [Next]_vars => Inductive'
BY StutterKeeps, TransitionChecksKeeps, TransitionFencesKeeps, TransitionMarksKeeps, ConnectKeeps,
   DialFailsKeeps, LoseKeeps, CancelKeeps, JoinKeeps, ClearFlagsKeeps,
   DiscardControlIdentityCacheKeeps, ReceiveStateKeeps, StateReceivedKeeps, ReceiveWelcomeKeeps,
   WelcomeFaultKeeps, WelcomedKeeps, ReceivePageKeeps, ReceiveConfirmedKeeps, ApplyKeeps,
   ProbeKeeps, TickReadsKeeps, TickComparesKeeps, StatementFailsKeeps, DiskFailsKeeps,
   DiskReturnsKeeps, GuiRequestKeeps, RememberClientKeeps, FaultHeartbeatKeeps, LoginCheckedKeeps,
   RememberRuntimeLeaseKeeps, NewProxyKeeps, AuthorizeProxyKeeps, RegisterProxyKeeps, FrpExitKeeps
DEF Next, Transition, Connection, Receiver, Ticker

-----------------------------------------------------------------------------
(* A port opens only in RegisterProxy, with the core's admission open: then either no
   reset is pending or nothing was ever registered. *)
LEMMA StepNeedsIdentities ==
  ASSUME Inductive, [Next]_vars, ports' > ports, raced = {}
  PROVE  ~resetPending
<1>0. ports \in 0..1
  BY DEF Inductive, TypeOK
<1>1. ports' # ports
  <2>1. \A n \in 0..1 : ~(n > n)
    BY SMT, Z3
  <2> QED BY <1>0, <2>1
<1>2. RegisterProxy \/ FrpExit
  BY <1>1
  DEF Next, Transition, Connection, Receiver, Ticker, vars, flagVars, coreVars, faultVars,
      clientVars, tickVars, transVars, TransitionChecks, TransitionFences, SetAdmissionClosed,
      TransitionMarks, Connect, DialFails, Lose, Cancel, Join, ClearFlags,
      DiscardControlIdentityCache, ReceiveState, StateReceived, ReceiveWelcome, WelcomeFault,
      Welcomed, ReceivePage, ReceiveConfirmed, Apply, Probe, TickReads, TickCompares,
      StatementFails, DiskFails, DiskReturns, GuiRequest, RememberClient, FaultHeartbeat,
      LoginChecked, RememberRuntimeLease, NewProxy, AuthorizeProxy
<1>3. ~FrpExit
  BY <1>0, SMTT(30), Z3T(30) DEF FrpExit
<1>4. reg = "authorised" /\ ~admissionClosed
  BY <1>1, <1>2, <1>3 DEF RegisterProxy
<1> QED BY <1>4 DEF Inductive, Fenced, Virgin

(* The state of an edge's gate stays in its domains. *)
THEOREM TypeCorrect == Spec => []TypeOK
<1>1. Inductive => TypeOK
  BY DEF Inductive
<1> QED BY <1>1, InitInductive, NextKeeps, PTL DEF Spec

(* Once every call of transitionNodeFault has returned, admissionClosed of the core and
   fault.closed of the server agree, unless an opening overlapped a closing: whatever
   the connection, the receiver, the ticker and failing requests did. *)
THEOREM GatesAgree == Spec => []FlagsAgree
<1>1. Inductive => FlagsAgree
  BY DEF Inductive, Halves, FlagsAgree, Returned
<1> QED BY <1>1, InitInductive, NextKeeps, PTL DEF Spec

(* Unless a race was seen, no port opens while the identities are discarded or
   incomplete, however often the stream, the disk or the controller fails: every path
   to a discarded cache runs through a fence that nothing opens before the next
   complete synchronisation. *)
THEOREM NoPortWithoutIdentities == Spec => PortsNeedIdentities
<1>1. Inductive /\ [Next]_vars => [ports' > ports /\ raced = {} => ~resetPending]_vars
  BY StepNeedsIdentities
<1> QED BY <1>1, InitInductive, NextKeeps, PTL DEF Spec, PortsNeedIdentities
=============================================================================
