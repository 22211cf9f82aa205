------------------------------- MODULE Daemon -------------------------------
(***************************************************************************)
(* The life of one browser-runtime daemon process, browser_runtime/server  *)
(* .rs: serve, the accept loop, the connection handlers, the initiators of *)
(* shutdown (SIGTERM/SIGINT, a client's stop, a failed connect), the       *)
(* teardown, and the recovery from a lost connection (crash_recovery.rs    *)
(* and the crash_handle request, which decides and transitions like it but *)
(* connects nothing).  The tasks run on a multi-threaded runtime.          *)
(*                                                                         *)
(* No task of the daemon watches the connection: handle_cdp_disconnect is  *)
(* for whoever embeds the server, as the failure-injection tests do.       *)
(*                                                                         *)
(* Notify::notify_waiters (tokio, external) wakes the notified() futures   *)
(* that exist when it is called and leaves nothing behind for later ones.  *)
(***************************************************************************)
EXTENDS Naturals, FiniteSets, Lifecycle

CONSTANTS
  Clients,     \* clients, each sending one state-changing request
  Recoverers,  \* "handle", the crash_handle request; "disconnect", handle_cdp_disconnect
  MaxLosses    \* bound on the connections the browser's side loses

ASSUME DaemonAssumption ==
  Recoverers \subseteq {"handle", "disconnect"} /\ MaxLosses \in Nat

VARIABLES
  state,       \* the lifecycle state
  started,     \* shutdown_started
  initPc,      \* where each initiator is in initiate_shutdown
  notified,    \* the tasks whose notified() future has been woken
  acceptPc,    \* the accept loop
  servePc,     \* serve
  transport,   \* the BrowserRuntime that serve connects
  socket,      \* the socket file exists
  drainedOut,  \* the teardown's drain ran into its 10 s limit
  reqPc,       \* each client's request
  verdict,     \* how it was answered
  browser,     \* the browser process is alive
  losses,      \* connections lost
  rec          \* each recovery: where it is, and the state it is to end in

crash == <<browser, losses, rec>>
vars == <<state, started, initPc, notified, acceptPc, servePc, transport, socket,
          drainedOut, reqPc, verdict, crash>>

Initiators == {"signal", "stop", "serve"}

TypeOK ==
  /\ state \in States
  /\ started \in BOOLEAN
  /\ initPc \in [Initiators -> {"idle", "transition", "notify", "done"}]
  /\ notified \subseteq {"accept", "serve"}
  /\ acceptPc \in {"looping", "waiting", "done"}
  /\ servePc \in {"starting", "connecting", "connected", "failed", "ready", "waiting",
                  "joining", "draining", "closing", "unlinking", "stopping", "done"}
  /\ transport \in {"none", "open", "lost", "closed"}
  /\ socket \in BOOLEAN
  /\ drainedOut \in BOOLEAN
  /\ reqPc \in [Clients -> {"new", "accepted", "guarded", "running", "done"}]
  /\ verdict \in [Clients -> {"none", "Ok", "NotReady", "Reconnecting", "RuntimeDead", "ShuttingDown"}]
  /\ browser \in BOOLEAN
  /\ losses \in 0..MaxLosses
  /\ rec \in [Recoverers -> [pc: {"idle", "enter", "probe", "restart", "connect", "finish"},
                            next: {"Connected", "Disconnected"}]]

\* serve has bound the socket and spawned the accept loop and the signal task.
Init ==
  /\ state = "Starting"
  /\ started = FALSE
  /\ initPc = [i \in Initiators |-> "idle"]
  /\ notified = {}
  /\ acceptPc = "looping"
  /\ servePc = "starting"
  /\ transport = "none"
  /\ socket = TRUE
  /\ drainedOut = FALSE
  /\ reqPc = [c \in Clients |-> "new"]
  /\ verdict = [c \in Clients |-> "none"]
  /\ browser = TRUE
  /\ losses = 0
  /\ rec = [r \in Recoverers |-> [pc |-> "idle", next |-> "Disconnected"]]

-----------------------------------------------------------------------------
(* initiate_shutdown *)

\* shutdown_started.swap; only the first goes on.
InitiateShutdown(i) ==
  /\ initPc[i] = "idle"
  /\ started' = TRUE
  /\ initPc' = [initPc EXCEPT ![i] = IF started THEN "done" ELSE "transition"]
  /\ UNCHANGED <<state, notified, acceptPc, servePc, transport, socket, drainedOut,
                 reqPc, verdict, crash>>

InitiateTransition(i) ==
  /\ initPc[i] = "transition"
  /\ initPc' = [initPc EXCEPT ![i] = "notify"]
  /\ state' = Transition(state, "Stopping")
  /\ UNCHANGED <<started, notified, acceptPc, servePc, transport, socket, drainedOut,
                 reqPc, verdict, crash>>

Waiting == {t \in {"accept", "serve"} :
              (IF t = "accept" THEN acceptPc ELSE servePc) = "waiting"}

InitiateNotify(i) ==
  /\ initPc[i] = "notify"
  /\ initPc' = [initPc EXCEPT ![i] = "done"]
  /\ notified' = notified \cup Waiting
  /\ UNCHANGED <<state, started, acceptPc, servePc, transport, socket, drainedOut,
                 reqPc, verdict, crash>>

\* A stop request comes over the connection of a client that got through.
StopRequested == state # "Stopped" /\ \E c \in Clients : reqPc[c] # "new"

Initiate ==
  \/ InitiateShutdown("signal")
  \/ StopRequested /\ InitiateShutdown("stop")
  \/ servePc = "failed" /\ InitiateShutdown("serve")
  \/ \E i \in Initiators : InitiateTransition(i) \/ InitiateNotify(i)

-----------------------------------------------------------------------------
(* accept_loop: every round makes a new notified() future, polls it first,  *)
(* and then accepts.                                                        *)

AcceptPoll ==
  /\ acceptPc = "looping"
  /\ acceptPc' = "waiting"
  /\ UNCHANGED <<state, started, initPc, notified, servePc, transport, socket,
                 drainedOut, reqPc, verdict, crash>>

Accept(c) ==
  /\ acceptPc = "waiting"
  /\ "accept" \notin notified
  /\ reqPc[c] = "new"
  /\ acceptPc' = "looping"
  /\ reqPc' = [reqPc EXCEPT ![c] = "accepted"]
  /\ UNCHANGED <<state, started, initPc, notified, servePc, transport, socket,
                 drainedOut, verdict, crash>>

\* accept() itself failed: leave if a shutdown has started, else go round.
AcceptError ==
  /\ acceptPc = "waiting"
  /\ "accept" \notin notified
  /\ acceptPc' = IF started THEN "done" ELSE "looping"
  /\ UNCHANGED <<state, started, initPc, notified, servePc, transport, socket,
                 drainedOut, reqPc, verdict, crash>>

\* Mutant of AcceptBreak: the notification does not end the loop.
AcceptBreakContinues ==
  /\ acceptPc = "waiting"
  /\ "accept" \in notified
  /\ acceptPc' = "looping"
  /\ UNCHANGED <<state, started, initPc, notified, servePc, transport, socket,
                 drainedOut, reqPc, verdict, crash>>

AcceptBreak ==
  /\ acceptPc = "waiting"
  /\ "accept" \in notified
  /\ acceptPc' = "done"
  /\ UNCHANGED <<state, started, initPc, notified, servePc, transport, socket,
                 drainedOut, reqPc, verdict, crash>>

-----------------------------------------------------------------------------
(* handle_connection, for a request that changes browser state *)

\* PendingGuard::new, before the request is looked at.
RequestGuard(c) ==
  /\ reqPc[c] = "accepted"
  /\ reqPc' = [reqPc EXCEPT ![c] = "guarded"]
  /\ UNCHANGED <<state, started, initPc, notified, acceptPc, servePc, transport,
                 socket, drainedOut, verdict, crash>>

\* The lifecycle gate; the state lock is released before the call is made.
RequestGate(c) ==
  /\ reqPc[c] = "guarded"
  /\ LET v == Check(state, "StateChanging")
     IN IF v = "Ok"
        THEN reqPc' = [reqPc EXCEPT ![c] = "running"] /\ UNCHANGED verdict
        ELSE /\ reqPc' = [reqPc EXCEPT ![c] = "done"]
             /\ verdict' = [verdict EXCEPT ![c] = v]
  /\ UNCHANGED <<state, started, initPc, notified, acceptPc, servePc, transport,
                 socket, drainedOut, crash>>

\* The CDP call ends; as RuntimeDead if its transport is closed or lost, which a
\* recovery may have replaced since.
RequestEnd(c) ==
  /\ reqPc[c] = "running"
  /\ reqPc' = [reqPc EXCEPT ![c] = "done"]
  /\ \E v \in {"Ok", "RuntimeDead"} :
       /\ v = "Ok" => transport = "open"
       /\ v = "RuntimeDead" => transport # "open" \/ losses > 0
       /\ verdict' = [verdict EXCEPT ![c] = v]
  /\ UNCHANGED <<state, started, initPc, notified, acceptPc, servePc, transport,
                 socket, drainedOut, crash>>

\* Mutant of InFlight: the guard is dropped when the gate has been passed.
InFlightUntilGate == {c \in Clients : reqPc[c] = "guarded"}

\* The requests PendingGuard counts.
InFlight == {c \in Clients : reqPc[c] \in {"guarded", "running"}}
            \cup {r \in Recoverers \ {"disconnect"} : rec[r].pc # "idle"}

-----------------------------------------------------------------------------
(* handle_cdp_disconnect and crash_handle.  The versions and generations    *)
(* that both bump are in Targets, Live and Index.                           *)

\* The browser dies, or drops the connection.
ConnectionLost ==
  /\ transport = "open" /\ losses < MaxLosses
  /\ transport' = "lost"
  /\ losses' = losses + 1
  /\ browser' \in {browser, FALSE}
  /\ UNCHANGED <<state, started, initPc, notified, acceptPc, servePc, socket, drainedOut,
                 reqPc, verdict, rec>>

RecGoto(r, pc, next) ==
  /\ rec' = [rec EXCEPT ![r] = [pc |-> pc, next |-> next]]
  /\ UNCHANGED <<started, initPc, notified, acceptPc, servePc, socket, drainedOut, reqPc,
                 verdict, losses>>

\* crash_handle ignores what the gate says, and may come over a connection that
\* was accepted long ago.  current_lifecycle_name does not wait for the lock and
\* may come back with "Unknown": crash_handle then leaves the state as it is, and
\* handle_cdp_disconnect tries to transition from anywhere but Reconnecting.
RecoveryStarts(r) ==
  /\ rec[r].pc = "idle"
  /\ IF r = "disconnect" THEN transport = "lost"
     ELSE state # "Stopped" /\ \E c \in Clients : reqPc[c] # "new"
  /\ \E name \in {state, "Unknown"} :
       LET enters == \/ name \in {"Connected", "Degraded"}
                     \/ r = "disconnect" /\ name # "Reconnecting"
       IN  RecGoto(r, IF enters THEN "enter" ELSE "probe", "Disconnected")
  /\ UNCHANGED <<state, transport, browser>>

RecoveryEnters(r) ==
  /\ rec[r].pc = "enter"
  /\ state' = Transition(state, "Reconnecting")
  /\ RecGoto(r, "probe", "Disconnected")
  /\ UNCHANGED <<transport, browser>>

\* is_browser_alive and the policy: only a browser that hyprfast launched is
\* restarted, and only if that is asked for.  crash_handle takes the answers
\* from the request.
RecoveryProbes(r) ==
  /\ rec[r].pc = "probe"
  /\ IF r = "handle" THEN \E next \in {"Connected", "Disconnected"} : RecGoto(r, "finish", next)
     ELSE IF browser THEN RecGoto(r, "connect", "Disconnected")
     ELSE \E pc \in {"restart", "finish"} : RecGoto(r, pc, "Disconnected")
  /\ UNCHANGED <<state, transport, browser>>

\* restart_browser_and_reconnect: the spawn fails, the browser is not reachable
\* within 15 s, or it is there.
RecoveryRestarts(r) ==
  /\ rec[r].pc = "restart"
  /\ browser' \in BOOLEAN
  /\ RecGoto(r, IF browser' THEN "connect" ELSE "finish", "Disconnected")
  /\ UNCHANGED <<state, transport>>

\* Mutant of RecoveryConnects: a reconnect that fails leaves it at that.
RecoveryConnectsOrLeaves(r) ==
  /\ rec[r].pc = "connect"
  /\ \/ browser /\ transport' = "open" /\ RecGoto(r, "finish", "Connected")
     \/ transport' = transport /\ RecGoto(r, "idle", "Disconnected")
  /\ UNCHANGED <<state, browser>>

\* reconnect_browser: discovery and connect, set_runtime, and the calls whose
\* errors it ignores.
RecoveryConnects(r) ==
  /\ rec[r].pc = "connect"
  /\ \/ browser /\ transport' = "open" /\ RecGoto(r, "finish", "Connected")
     \/ transport' = transport /\ RecGoto(r, "finish", "Disconnected")
  /\ UNCHANGED <<state, browser>>

RecoveryFinishes(r) ==
  /\ rec[r].pc = "finish"
  /\ state' = Transition(state, rec[r].next)
  /\ RecGoto(r, "idle", "Disconnected")
  /\ UNCHANGED <<transport, browser>>

-----------------------------------------------------------------------------
(* serve and teardown *)

ServeGoto(label) ==
  /\ servePc' = label
  /\ UNCHANGED <<started, initPc, notified, acceptPc, reqPc, verdict, crash>>

ServeConnecting ==
  /\ servePc = "starting"
  /\ state' = Transition(state, "Connecting")
  /\ ServeGoto("connecting")
  /\ UNCHANGED <<transport, socket, drainedOut>>

\* Discovery and connect succeed; targets are synced, the dispatcher runs.
ServeConnects ==
  /\ servePc = "connecting"
  /\ transport' = "open"
  /\ ServeGoto("connected")
  /\ UNCHANGED <<state, socket, drainedOut>>

ServeConnected ==
  /\ servePc = "connected"
  /\ state' = Transition(state, "Connected")
  /\ ServeGoto("ready")
  /\ UNCHANGED <<transport, socket, drainedOut>>

ServeFails ==
  /\ servePc = "connecting"
  /\ state' = Transition(state, "Failed")
  /\ ServeGoto("failed")
  /\ UNCHANGED <<transport, socket, drainedOut>>

\* initiate_shutdown returned in the failure branch.
ServeFailed ==
  /\ servePc = "failed"
  /\ initPc["serve"] = "done"
  /\ ServeGoto("joining")
  /\ UNCHANGED <<state, transport, socket, drainedOut>>

\* shutdown_notify.notified() is created here, and not before.
ServeWaits ==
  /\ servePc = "ready"
  /\ ServeGoto("waiting")
  /\ UNCHANGED <<state, transport, socket, drainedOut>>

ServeWoken ==
  /\ servePc = "waiting"
  /\ "serve" \in notified
  /\ ServeGoto("joining")
  /\ UNCHANGED <<state, transport, socket, drainedOut>>

ServeJoins ==
  /\ servePc = "joining"
  /\ acceptPc = "done"
  /\ ServeGoto("draining")
  /\ UNCHANGED <<state, transport, socket, drainedOut>>

TeardownDrained ==
  /\ servePc = "draining"
  /\ InFlight = {}
  /\ ServeGoto("closing")
  /\ UNCHANGED <<state, transport, socket, drainedOut>>

TeardownTimesOut ==
  /\ servePc = "draining"
  /\ InFlight # {}
  /\ drainedOut' = TRUE
  /\ ServeGoto("closing")
  /\ UNCHANGED <<state, transport, socket>>

\* Mutant of TeardownCloses: the socket file is forgotten.
TeardownClosesOnly ==
  /\ servePc = "closing"
  /\ transport' = IF transport = "none" THEN "none" ELSE "closed"
  /\ ServeGoto("stopping")
  /\ UNCHANGED <<state, socket, drainedOut>>

TeardownCloses ==
  /\ servePc = "closing"
  /\ transport' = IF transport = "none" THEN "none" ELSE "closed"
  /\ ServeGoto("unlinking")
  /\ UNCHANGED <<state, socket, drainedOut>>

TeardownUnlinks ==
  /\ servePc = "unlinking"
  /\ socket' = FALSE
  /\ ServeGoto("stopping")
  /\ UNCHANGED <<state, transport, drainedOut>>

TeardownStops ==
  /\ servePc = "stopping"
  /\ state' = Transition(state, "Stopped")
  /\ ServeGoto("done")
  /\ UNCHANGED <<transport, socket, drainedOut>>

-----------------------------------------------------------------------------

\* serve's connect ends, one way or the other.
ServeConnectEnds == ServeConnects \/ ServeFails

ServeProceeds ==
  \/ ServeConnecting \/ ServeConnected \/ ServeFailed
  \/ ServeWaits \/ ServeWoken \/ ServeJoins
  \/ TeardownDrained \/ TeardownTimesOut \/ TeardownCloses \/ TeardownUnlinks
  \/ TeardownStops

ServeStep == ServeConnectEnds \/ ServeProceeds

InitiatorStep(i) ==
  InitiateTransition(i) \/ InitiateNotify(i)
  \/ (i = "serve" /\ servePc = "failed" /\ InitiateShutdown(i))

AcceptStep == AcceptPoll \/ AcceptBreak

RequestStep(c) == RequestGuard(c) \/ RequestGate(c) \/ RequestEnd(c)

RecoveryProceeds(r) ==
  \/ RecoveryEnters(r) \/ RecoveryProbes(r) \/ RecoveryRestarts(r) \/ RecoveryFinishes(r)

RecoveryStep(r) == RecoveryProceeds(r) \/ RecoveryConnects(r)

Next ==
  \/ Initiate
  \/ AcceptStep \/ AcceptError \/ \E c \in Clients : Accept(c)
  \/ \E c \in Clients : RequestStep(c)
  \/ ServeStep
  \/ ConnectionLost \/ \E r \in Recoverers : RecoveryStarts(r) \/ RecoveryStep(r)

\* Every task that can run does, and what has a timeout of its own ends: a CDP
\* call, the HTTP discovery, the wait for a restarted browser.  connect_async has
\* none: a peer that accepts and never upgrades keeps it waiting, so neither of
\* the two connects is assumed to end.  Nothing makes a client connect, a signal
\* arrive or accept() fail.
Fairness ==
  /\ WF_vars(ServeProceeds)
  /\ WF_vars(AcceptStep)
  /\ \A i \in Initiators : WF_vars(InitiatorStep(i))
  /\ \A c \in Clients : WF_vars(RequestStep(c))
  /\ \A r \in Recoverers : WF_vars(RecoveryProceeds(r))

Spec == Init /\ [][Next]_vars /\ Fairness

-----------------------------------------------------------------------------
(* Properties *)

\* The gate and the drain fit together: a request that passed the gate is
\* counted before the lifecycle leaves Connected, so the teardown waits for
\* it, and closes the transport under it only after the 10 s limit.
NoCallCutOff ==
  transport = "closed" /\ ~drainedOut => \A c \in Clients : reqPc[c] # "running"

\* A daemon that reports Stopped accepts nobody, has no socket file and no
\* open connection to the browser, but for one that a recovery has installed
\* under or after the teardown.
StoppedIsClean ==
  state = "Stopped" => acceptPc = "done" /\ ~socket /\ (transport = "open" => losses > 0)

\* A recovery decides: however two recoveries, a stop and further losses overlap,
\* the daemon leaves Reconnecting again, unless a recovery hangs for good in its
\* connect, which has no timeout.
RecoveryDecides ==
  (state = "Reconnecting") ~>
    (state # "Reconnecting" \/ \E r \in Recoverers : [](rec[r].pc = "connect"))

\* A shutdown that finds both tasks at their notified() runs to its end.
WokenShutdownCompletes == (notified = {"accept", "serve"}) ~> (state = "Stopped")

=============================================================================
