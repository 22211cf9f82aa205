---------------------------- MODULE DaemonProofs ----------------------------
(***************************************************************************)
(* Proofs about Daemon for any number of clients and of lost connections:  *)
(* type correctness, that no running call is cut off by a teardown that    *)
(* drained, and that a daemon that reports Stopped is clean.  At the end,  *)
(* proofs about Socket for any number of daemons racing for one path:      *)
(* type correctness, and that a serving daemon that was alone when it      *)
(* bound and answers probes in time is never cut off from its path.        *)
(***************************************************************************)
EXTENDS Daemon, Socket, TLAPS

-----------------------------------------------------------------------------
(* The inductive invariant *)

\* The states from which no transition leads back to work.
Ending == {"Failed", "Stopping", "Stopped"}

TearingDown == {"closing", "unlinking", "stopping", "done"}

\* Whoever notifies has transitioned first, the teardown starts in a state
\* that passes no request, and its last step is the only one to Stopped.
ShutdownOrder ==
  /\ notified # {} => state \in {"Stopping", "Stopped"}
  /\ \A i \in Initiators : initPc[i] = "notify" => state \in {"Stopping", "Stopped"}
  /\ servePc \in {"failed", "joining", "draining"} \cup TearingDown => state \in Ending
  /\ state = "Stopped" => servePc = "done"
  /\ state # "Degraded"

\* What the teardown leaves behind it, step by step.
TeardownOrder ==
  /\ servePc \in {"draining"} \cup TearingDown => acceptPc = "done"
  /\ servePc \in TearingDown /\ ~drainedOut => \A c \in Clients : reqPc[c] # "running"
  /\ transport = "closed" => servePc \in {"unlinking", "stopping", "done"}
  /\ servePc \in {"stopping", "done"} => ~socket
  /\ servePc \in {"unlinking", "stopping", "done"} /\ transport = "open" => losses > 0

\* Only handle_cdp_disconnect connects, and only after a loss.
RecoveryAfterLoss ==
  /\ transport = "lost" => losses > 0
  /\ \A r \in Recoverers :
       rec[r].pc \in {"restart", "connect"} \/ (r = "disconnect" /\ rec[r].pc # "idle")
         => losses > 0

IInv == TypeOK /\ ShutdownOrder /\ TeardownOrder /\ RecoveryAfterLoss

-----------------------------------------------------------------------------
(* What the lifecycle allows *)

\* A transition is taken or ignored.
LEMMA TransitionTakenOrNot ==
  ASSUME NEW s \in States, NEW n \in States
  PROVE  Transition(s, n) \in {s, n} /\ Transition(s, n) \in States
BY DEF Transition, States

\* Shutdown is final: from Stopping or Failed no transition of serve or of a
\* recovery leads back to a state that passes requests, and from Stopped none
\* leads anywhere.
LEMMA EndingIsFinal ==
  ASSUME NEW s \in Ending,
         NEW n \in {"Connecting", "Connected", "Reconnecting", "Disconnected", "Failed"}
  PROVE  Transition(s, n) = s
BY DEF Transition, CanTransitionTo, Ending

\* Stopping is reached from everywhere but Stopped.
LEMMA StoppingIsReached ==
  ASSUME NEW s \in States
  PROVE  Transition(s, "Stopping") = IF s = "Stopped" THEN "Stopped" ELSE "Stopping"
BY DEF Transition, CanTransitionTo, States

\* A failed connect ends the daemon's work whatever a recovery made of the
\* state meanwhile.
LEMMA FailedEnds ==
  ASSUME NEW s \in States
  PROVE  Transition(s, "Failed") \in Ending /\ (Transition(s, "Failed") = "Stopped" => s = "Stopped")
BY DEF Transition, CanTransitionTo, States, Ending

\* The gate passes a request that changes state only in Connected.
LEMMA GateIsConnected ==
  ASSUME NEW s \in States \ {"Degraded"}
  PROVE  /\ Check(s, "StateChanging") \in {"Ok", "NotReady", "Reconnecting", "RuntimeDead",
                                           "ShuttingDown"}
         /\ Check(s, "StateChanging") = "Ok" => s = "Connected"
BY DEF Check, States

-----------------------------------------------------------------------------
(* The step *)

\* initiate_shutdown transitions before it notifies.
LEMMA InitiateKeeps == IInv /\ Initiate => IInv'
<1> SUFFICES ASSUME IInv, Initiate PROVE IInv'
  OBVIOUS
<1> USE DEF IInv, TypeOK, crash
<1>1. ASSUME NEW i \in Initiators, InitiateShutdown(i) PROVE IInv'
  <2>1. TypeOK' /\ ShutdownOrder'
    BY <1>1 DEF InitiateShutdown, ShutdownOrder, TearingDown
  <2>2. TeardownOrder' /\ RecoveryAfterLoss'
    BY <1>1 DEF InitiateShutdown, TeardownOrder, RecoveryAfterLoss, TearingDown
  <2> QED  BY <2>1, <2>2
<1>2. ASSUME NEW i \in Initiators, InitiateTransition(i) PROVE IInv'
  <2>1. state' = IF state = "Stopped" THEN "Stopped" ELSE "Stopping"
    BY <1>2, StoppingIsReached DEF InitiateTransition
  <2>2. TypeOK' /\ ShutdownOrder'
    BY <1>2, <2>1 DEF InitiateTransition, ShutdownOrder, TearingDown, Ending, States
  <2>3. TeardownOrder' /\ RecoveryAfterLoss'
    BY <1>2 DEF InitiateTransition, TeardownOrder, RecoveryAfterLoss, TearingDown
  <2> QED  BY <2>2, <2>3
<1>3. ASSUME NEW i \in Initiators, InitiateNotify(i) PROVE IInv'
  <2>0. state \in {"Stopping", "Stopped"}
    BY <1>3 DEF InitiateNotify, ShutdownOrder
  <2>1. TypeOK'
    BY <1>3 DEF InitiateNotify, Waiting
  <2>3. ShutdownOrder'
    BY <1>3, <2>0 DEF InitiateNotify, ShutdownOrder, TearingDown
  <2>2. TeardownOrder' /\ RecoveryAfterLoss'
    BY <1>3 DEF InitiateNotify, TeardownOrder, RecoveryAfterLoss, TearingDown
  <2> QED  BY <2>1, <2>2, <2>3
<1> QED  BY <1>1, <1>2, <1>3 DEF Initiate, Initiators

\* The accept loop does not come back once it has ended.
LEMMA AcceptKeeps ==
  ASSUME IInv, AcceptStep \/ AcceptError \/ \E c \in Clients : Accept(c)
  PROVE  IInv'
<1> USE DEF IInv, TypeOK, crash
<1>1. CASE AcceptStep \/ AcceptError
  <2>1. /\ acceptPc = "waiting" \/ acceptPc = "looping"
        /\ acceptPc' \in {"looping", "waiting", "done"}
        /\ UNCHANGED <<state, started, initPc, notified, servePc, transport, socket,
                       drainedOut, reqPc, verdict, browser, losses, rec>>
    BY <1>1 DEF AcceptStep, AcceptPoll, AcceptBreak, AcceptError
  <2>2. TypeOK' /\ ShutdownOrder'
    BY <2>1 DEF ShutdownOrder, TearingDown
  <2>3. TeardownOrder' /\ RecoveryAfterLoss'
    BY <2>1 DEF TeardownOrder, RecoveryAfterLoss, TearingDown
  <2> QED  BY <2>2, <2>3
<1>2. ASSUME NEW c \in Clients, Accept(c) PROVE IInv'
  BY <1>2 DEF Accept, ShutdownOrder, TeardownOrder, RecoveryAfterLoss, TearingDown
<1> QED  BY <1>1, <1>2

\* A request passes the gate in Connected only, which the teardown has left.
LEMMA RequestKeeps == \A c \in Clients : IInv /\ RequestStep(c) => IInv'
<1> SUFFICES ASSUME NEW c \in Clients, IInv, RequestStep(c) PROVE IInv'
  OBVIOUS
<1> USE DEF IInv, TypeOK, crash
<1>1. UNCHANGED <<state, started, initPc, notified, acceptPc, servePc, transport,
                  socket, drainedOut, browser, losses, rec>>
  BY DEF RequestStep, RequestGuard, RequestGate, RequestEnd
<1>2. ShutdownOrder' /\ RecoveryAfterLoss'
  BY <1>1 DEF ShutdownOrder, RecoveryAfterLoss, TearingDown
<1>3. CASE RequestGuard(c)
  <2>1. TypeOK'
    BY <1>1, <1>3 DEF RequestGuard
  <2>2. TeardownOrder'
    BY <1>1, <1>3 DEF RequestGuard, TeardownOrder, TearingDown
  <2> QED  BY <1>2, <2>1, <2>2
<1>4. CASE RequestGate(c)
  <2>1. /\ Check(state, "StateChanging") \in {"Ok", "NotReady", "Reconnecting",
                                             "RuntimeDead", "ShuttingDown"}
        /\ Check(state, "StateChanging") = "Ok" => state = "Connected"
    BY GateIsConnected DEF ShutdownOrder
  <2>2. TypeOK'
    BY <1>1, <1>4, <2>1 DEF RequestGate
  <2>3. servePc \in TearingDown => state # "Connected"
    BY DEF ShutdownOrder, Ending
  <2>4. TeardownOrder'
    BY <1>1, <1>4, <2>1, <2>3 DEF RequestGate, TeardownOrder
  <2> QED  BY <1>2, <2>2, <2>4
<1>5. CASE RequestEnd(c)
  <2>1. TypeOK'
    BY <1>1, <1>5 DEF RequestEnd
  <2>2. TeardownOrder'
    BY <1>1, <1>5 DEF RequestEnd, TeardownOrder, TearingDown
  <2> QED  BY <1>2, <2>1, <2>2
<1> QED  BY <1>3, <1>4, <1>5 DEF RequestStep

\* A recovery moves the state only before the shutdown, and installs a new
\* connection only after the old one was lost.
LEMMA RecoveryKeeps ==
  ASSUME IInv, ConnectionLost \/ \E r \in Recoverers : RecoveryStarts(r) \/ RecoveryStep(r)
  PROVE  IInv'
<1> USE DEF IInv, TypeOK, crash
<1>1. CASE ConnectionLost
  <2>0. browser' \in BOOLEAN /\ losses' \in 0..MaxLosses
    <3>1. browser' \in {browser, FALSE} /\ browser \in BOOLEAN
      BY <1>1 DEF ConnectionLost
    <3>2. browser' \in BOOLEAN
      BY ONLY <3>1, Zenon
    <3>3. losses' \in 0..MaxLosses
      BY <1>1, DaemonAssumption DEF ConnectionLost
    <3> QED  BY <3>2, <3>3
  <2>1. TypeOK'
    BY <1>1, <2>0 DEF ConnectionLost
  <2>2. ShutdownOrder' /\ TeardownOrder' /\ RecoveryAfterLoss'
    BY <1>1, DaemonAssumption DEF ConnectionLost, ShutdownOrder, TeardownOrder,
                                  RecoveryAfterLoss, TearingDown
  <2> QED  BY <2>1, <2>2
<1>2. ASSUME NEW r \in Recoverers, RecoveryStarts(r) \/ RecoveryStep(r) PROVE IInv'
  <2>0. r \in {"handle", "disconnect"}
    BY DaemonAssumption
  <2>1. /\ UNCHANGED <<started, initPc, notified, acceptPc, servePc, socket, drainedOut,
                       reqPc, verdict, losses>>
        /\ browser' \in BOOLEAN
    BY <1>2 DEF RecoveryStarts, RecoveryStep, RecoveryProceeds, RecoveryEnters, RecoveryProbes,
                RecoveryRestarts, RecoveryConnects, RecoveryFinishes, RecGoto
  <2>2. \/ state' = state
        \/ \E n \in {"Connected", "Disconnected", "Reconnecting"} : state' = Transition(state, n)
    BY <1>2 DEF RecoveryStarts, RecoveryStep, RecoveryProceeds, RecoveryEnters, RecoveryProbes,
                RecoveryRestarts, RecoveryConnects, RecoveryFinishes, RecGoto
  <2>3. /\ state' \in States
        /\ state' # state => state' \in {"Connected", "Disconnected", "Reconnecting"}
        /\ state \in Ending => state' = state
    BY <2>2, TransitionTakenOrNot, EndingIsFinal DEF States
  <2>4. ShutdownOrder'
    BY <2>1, <2>3 DEF ShutdownOrder, Ending, TearingDown
  <2>5. /\ rec' \in [Recoverers -> [pc: {"idle", "enter", "probe", "restart", "connect", "finish"},
                                    next: {"Connected", "Disconnected"}]]
        /\ \A q \in Recoverers \ {r} : rec'[q] = rec[q]
    BY <1>2 DEF RecoveryStarts, RecoveryStep, RecoveryProceeds, RecoveryEnters, RecoveryProbes,
                RecoveryRestarts, RecoveryConnects, RecoveryFinishes, RecGoto
  <2>6. transport' = transport \/ (transport' = "open" /\ losses > 0)
    BY <1>2 DEF RecoveryStarts, RecoveryStep, RecoveryProceeds, RecoveryEnters, RecoveryProbes,
                RecoveryRestarts, RecoveryConnects, RecoveryFinishes, RecoveryAfterLoss
  <2>7. rec'[r].pc \in {"restart", "connect"} \/ (r = "disconnect" /\ rec'[r].pc # "idle")
          => losses > 0
    BY <1>2, <2>0 DEF RecoveryStarts, RecoveryStep, RecoveryProceeds, RecoveryEnters, RecoveryProbes,
                RecoveryRestarts, RecoveryConnects, RecoveryFinishes, RecoveryAfterLoss, RecGoto
  <2>8. TypeOK'
    BY <2>1, <2>3, <2>5, <2>6
  <2>9. TeardownOrder'
    BY <2>1, <2>6 DEF TeardownOrder, TearingDown
  <2>10. RecoveryAfterLoss'
    BY <2>1, <2>5, <2>6, <2>7 DEF RecoveryAfterLoss
  <2> QED  BY <2>4, <2>8, <2>9, <2>10
<1> QED  BY <1>1, <1>2

\* serve goes forward only: it tears down in a state that passes no request,
\* after the accept loop has ended and the counted requests have drained.
LEMMA ServeKeeps == IInv /\ ServeStep => IInv'
<1> SUFFICES ASSUME IInv, ServeStep PROVE IInv'
  OBVIOUS
<1> USE DEF IInv, TypeOK, ServeGoto, crash
<1>0. RecoveryAfterLoss'
  BY DEF ServeStep, ServeProceeds, ServeConnectEnds, ServeConnecting, ServeConnects, ServeConnected, ServeFails,
         ServeFailed, ServeWaits, ServeWoken, ServeJoins, TeardownDrained,
         TeardownTimesOut, TeardownCloses, TeardownUnlinks, TeardownStops,
         RecoveryAfterLoss
<1>1. CASE ServeConnecting \/ ServeConnected \/ ServeFails
  <2>1. \/ \E n \in {"Connecting", "Connected"} : state' = Transition(state, n)
        \/ servePc' = "failed" /\ state' = Transition(state, "Failed")
    BY <1>1 DEF ServeConnecting, ServeConnected, ServeFails
  <2>2. /\ state' \in States \ {"Degraded"}
        /\ state \in Ending => state' = state
        /\ state' = "Stopped" => state = "Stopped"
        /\ servePc' = "failed" => state' \in Ending
    BY <1>1, <2>1, TransitionTakenOrNot, EndingIsFinal, FailedEnds
       DEF ServeConnecting, ServeConnected, ServeFails, States, ShutdownOrder, Ending
  <2>3. TypeOK'
    BY <1>1, <2>2 DEF ServeConnecting, ServeConnected, ServeFails
  <2>4. ShutdownOrder'
    BY <1>1, <2>2 DEF ServeConnecting, ServeConnected, ServeFails, ShutdownOrder,
                      TearingDown, Ending
  <2>5. TeardownOrder'
    BY <1>1, <2>2 DEF ServeConnecting, ServeConnected, ServeFails,
                      TeardownOrder, TearingDown, Ending
  <2> QED  BY <1>0, <2>3, <2>4, <2>5
<1>2. CASE ServeConnects \/ ServeFailed \/ ServeWaits \/ ServeWoken \/ ServeJoins
  <2>1. TypeOK'
    BY <1>2 DEF ServeConnects, ServeFailed, ServeWaits, ServeWoken, ServeJoins
  <2>2. ShutdownOrder'
    BY <1>2 DEF ServeConnects, ServeFailed, ServeWaits, ServeWoken, ServeJoins,
                ShutdownOrder, TearingDown, Ending
  <2>3. TeardownOrder'
    BY <1>2 DEF ServeConnects, ServeFailed, ServeWaits, ServeWoken, ServeJoins,
                TeardownOrder, TearingDown
  <2> QED  BY <1>0, <2>1, <2>2, <2>3
<1>3. CASE TeardownDrained \/ TeardownTimesOut
  <2>1. TypeOK'
    BY <1>3 DEF TeardownDrained, TeardownTimesOut
  <2>2. ShutdownOrder'
    BY <1>3 DEF TeardownDrained, TeardownTimesOut, ShutdownOrder, TearingDown
  <2>3. ~drainedOut' => \A c \in Clients : reqPc'[c] # "running"
    BY <1>3 DEF TeardownDrained, TeardownTimesOut, InFlight
  <2>4. TeardownOrder'
    BY <1>3, <2>3 DEF TeardownDrained, TeardownTimesOut, TeardownOrder, TearingDown
  <2> QED  BY <1>0, <2>1, <2>2, <2>4
<1>4. CASE TeardownCloses \/ TeardownUnlinks
  <2>1. TypeOK'
    BY <1>4 DEF TeardownCloses, TeardownUnlinks
  <2>2. ShutdownOrder'
    BY <1>4 DEF TeardownCloses, TeardownUnlinks, ShutdownOrder, TearingDown
  <2>3. TeardownOrder'
    BY <1>4 DEF TeardownCloses, TeardownUnlinks, TeardownOrder, TearingDown
  <2> QED  BY <1>0, <2>1, <2>2, <2>3
<1>5. CASE TeardownStops
  <2>1. state' \in {state, "Stopped"} /\ state' \in States
    BY <1>5, TransitionTakenOrNot DEF TeardownStops, States
  <2>2. state \in Ending \ {"Stopped"}
    BY <1>5 DEF TeardownStops, ShutdownOrder, TearingDown
  <2>3. TypeOK' /\ TeardownOrder'
    BY <1>5, <2>1 DEF TeardownStops, TeardownOrder, TearingDown
  <2>4. ShutdownOrder'
    BY <1>5, <2>1, <2>2 DEF TeardownStops, ShutdownOrder, Ending, TearingDown
  <2> QED  BY <1>0, <2>3, <2>4
<1> QED  BY <1>1, <1>2, <1>3, <1>4, <1>5 DEF ServeStep, ServeProceeds, ServeConnectEnds

-----------------------------------------------------------------------------
(* The theorems *)

\* The invariant holds when serve has bound the socket.
LEMMA IInvInit == Init => IInv
<1> SUFFICES ASSUME Init PROVE IInv
  OBVIOUS
<1>1. TypeOK
  <2>1. losses \in 0..MaxLosses
    BY DaemonAssumption DEF Init
  <2>2. initPc \in [Initiators -> {"idle", "transition", "notify", "done"}]
    BY DEF Init
  <2>3. rec \in [Recoverers -> [pc: {"idle", "enter", "probe", "restart", "connect", "finish"},
                                next: {"Connected", "Disconnected"}]]
    BY DEF Init
  <2>4. notified \subseteq {"accept", "serve"} /\ state \in States
    BY DEF Init, States
  <2>5. /\ reqPc \in [Clients -> {"new", "accepted", "guarded", "running", "done"}]
        /\ verdict \in [Clients -> {"none", "Ok", "NotReady", "Reconnecting", "RuntimeDead", "ShuttingDown"}]
    BY DEF Init
  <2> QED  BY <2>1, <2>2, <2>3, <2>4, <2>5 DEF Init, TypeOK
<1>2. ShutdownOrder
  BY DEF Init, ShutdownOrder, TearingDown
<1>3. TeardownOrder /\ RecoveryAfterLoss
  BY DEF Init, TeardownOrder, RecoveryAfterLoss, TearingDown
<1> QED  BY <1>1, <1>2, <1>3 DEF IInv

\* Every step of every task keeps the invariant.
LEMMA IInvNext == IInv /\ [Next]_vars => IInv'
<1> SUFFICES ASSUME IInv, [Next]_vars PROVE IInv'
  OBVIOUS
<1>1. CASE UNCHANGED vars
  BY <1>1 DEF vars, crash, IInv, TypeOK, ShutdownOrder, Ending, TearingDown, TeardownOrder,
              RecoveryAfterLoss
<1> QED  BY <1>1, InitiateKeeps, AcceptKeeps, RequestKeeps, ServeKeeps, RecoveryKeeps
         DEF Next

\* The inductive invariant of the daemon's life.
THEOREM Invariance == Spec => []IInv
BY IInvInit, IInvNext, PTL DEF Spec

\* Every reachable state of the daemon is type correct; in particular a gate
\* never answers Degraded, because nothing leads there.
THEOREM TypeCorrect == Spec => []TypeOK
<1>1. IInv => TypeOK
  BY DEF IInv
<1> QED  BY <1>1, Invariance, PTL

\* For any number of clients, a teardown that did not run into its limit closes
\* the transport under no running call: a request is counted before the gate
\* looks at the state, and the state has left Connected before the drain counts.
THEOREM NoCallIsCutOff == Spec => []NoCallCutOff
<1>1. IInv => NoCallCutOff
  BY DEF IInv, TeardownOrder, TearingDown, NoCallCutOff
<1> QED  BY <1>1, Invariance, PTL

\* Whatever signals, stop requests, failed connects and recoveries overlap, a
\* daemon that reports Stopped has ended its accept loop, removed its socket file
\* and closed its connection, but for one a recovery installed.
THEOREM StoppedDaemonIsClean == Spec => []StoppedIsClean
<1>1. IInv => StoppedIsClean
  BY DEF IInv, ShutdownOrder, TeardownOrder, TearingDown, StoppedIsClean
<1> QED  BY <1>1, Invariance, PTL

-----------------------------------------------------------------------------
(* The race of several daemons for one socket path (Socket) *)

\* Nobody who was there before this daemon can take its file from it.
Undisturbed(d) ==
  daemonPc[d] = "serving" /\ d \notin slow /\ rivals[d] = {} =>
    /\ path = d
    /\ \A e \in Daemons \ {d} : daemonPc[e] \notin {"unlinking", "serving", "stopping"}

SocketInv == SocketTypeOK /\ \A d \in Daemons : Undisturbed(d)

\* Nobody serves when the first daemon starts.
LEMMA SocketInvInit == SocketInit => SocketInv
BY DEF SocketInit, SocketInv, SocketTypeOK, Files, Undisturbed

\* Every step of every daemon keeps the invariant.
LEMMA SocketInvNext == SocketInv /\ [SocketNext]_socketVars => SocketInv'
<1> SUFFICES ASSUME SocketInv, [SocketNext]_socketVars PROVE SocketInv'
  OBVIOUS
<1> USE DEF SocketInv, SocketTypeOK, Files
<1>1. ASSUME NEW e \in Daemons, Probe(e) PROVE SocketInv'
  <2>1. PICK live \in BOOLEAN :
          /\ ProbeLive(live)
          /\ daemonPc' = [daemonPc EXCEPT ![e] = IF live THEN "refused" ELSE "unlinking"]
    BY <1>1 DEF Probe
  <2>2. SocketTypeOK'
    BY <1>1, <2>1 DEF Probe, ProbeLive, Answers
  <2>3. ASSUME NEW d \in Daemons, daemonPc'[d] = "serving", d \notin slow', rivals'[d] = {}
        PROVE  /\ path' = d
               /\ \A c \in Daemons \ {d} : daemonPc'[c] \notin {"unlinking", "serving", "stopping"}
    <3>1. daemonPc[d] = "serving" /\ d # e /\ d \notin slow /\ rivals[d] = {} /\ path' = path
      BY <1>1, <2>1, <2>3 DEF Probe, ProbeLive
    <3>2. path = d /\ \A c \in Daemons \ {d} : daemonPc[c] \notin {"unlinking", "serving", "stopping"}
      BY <3>1 DEF Undisturbed
    <3>3. live
      BY <2>1, <2>3, <3>1, <3>2 DEF ProbeLive, Answers
    <3> QED  BY <2>1, <3>1, <3>2, <3>3
  <2> QED  BY <2>2, <2>3 DEF Undisturbed
<1>2. ASSUME NEW e \in Daemons, Bind(e) PROVE SocketInv'
  <2>1. SocketTypeOK'
    BY <1>2 DEF Bind
  <2>2. ASSUME NEW d \in Daemons \ {e} PROVE Undisturbed(d)'
    <3>1. d # NoFile
      BY SocketAssumption
    <3> QED  BY <1>2, <3>1 DEF Bind, Undisturbed
  <2>3. Undisturbed(e)'
    BY <1>2 DEF Bind, Undisturbed
  <2> QED  BY <2>1, <2>2, <2>3
<1>3. ASSUME NEW e \in Daemons, Unlink(e) \/ Teardown(e) PROVE SocketInv'
  BY <1>3 DEF Unlink, Teardown, Undisturbed
<1>4. ASSUME NEW e \in Daemons, Stat(e) \/ ProbeAgain(e) \/ Stop(e) \/ Crash(e)
      PROVE  SocketInv'
  BY <1>4 DEF Stat, ProbeAgain, Stop, Crash, Undisturbed
<1>5. CASE UNCHANGED socketVars
  BY <1>5 DEF socketVars, Undisturbed
<1> QED  BY <1>1, <1>2, <1>3, <1>4, <1>5 DEF SocketNext, Proceed

\* The inductive invariant of the race for the socket path.
THEOREM SocketInvariance == SocketSpec => []SocketInv
BY SocketInvInit, SocketInvNext, PTL DEF SocketSpec

\* Every reachable state of the race for the socket path is type correct.
THEOREM SocketTypeCorrect == SocketSpec => []SocketTypeOK
<1>1. SocketInv => SocketTypeOK
  BY DEF SocketInv
<1> QED  BY <1>1, SocketInvariance, PTL

\* However many daemons start, stop and crash on one path, one that serves stays
\* reachable if nobody was about to remove the path when it bound (a start past
\* its probe, a daemon that served or was in teardown) and it has answered every
\* probe in time.
THEOREM ServingStaysReachable == SocketSpec => []ServingIsReachable
<1>1. SocketInv => ServingIsReachable
  BY DEF SocketInv, Undisturbed, ServingIsReachable
<1> QED  BY <1>1, SocketInvariance, PTL

=============================================================================
