----------------------------- MODULE Lifecycle -----------------------------
(***************************************************************************)
(* browser_runtime/state.rs: the daemon's lifecycle, which transitions it  *)
(* allows and which requests it accepts.  No state of its own.             *)
(***************************************************************************)

States == {"Starting", "Connecting", "Connected", "Degraded", "Reconnecting",
           "Disconnected", "Stopping", "Stopped", "Failed"}

\* Mutant of Check: the Stopping arm names the wrong error.
CheckMislabels(state, kind) ==
  IF state = "Connected" \/ (kind = "Read" /\ state # "Stopped") THEN "Ok"
  ELSE IF state \in {"Starting", "Connecting"} THEN "NotReady"
  ELSE IF state \in {"Reconnecting", "Stopping"} THEN "Reconnecting"
  ELSE "RuntimeDead"

\* LifecycleState::check: a read passes anywhere but in Stopped, a request
\* that changes state only in Connected; the error names the reason.
Check(state, kind) ==
  IF kind = "Read"
  THEN IF state = "Stopped" THEN "RuntimeDead" ELSE "Ok"
  ELSE CASE state = "Connected" -> "Ok"
         [] state \in {"Starting", "Connecting"} -> "NotReady"
         [] state = "Degraded" -> "Degraded"
         [] state = "Reconnecting" -> "Reconnecting"
         [] state \in {"Disconnected", "Failed", "Stopped"} -> "RuntimeDead"
         [] state = "Stopping" -> "ShuttingDown"

CanTransitionTo(state, next) ==
  CASE next = "Stopping" -> state # "Stopped"
    [] next = "Stopped" -> state = "Stopping"
    [] next = "Failed" -> state \notin {"Stopped", "Stopping"}
    [] OTHER ->
         <<state, next>> \in
           {<<"Starting", "Connecting">>,
            <<"Connecting", "Connected">>, <<"Connecting", "Disconnected">>,
            <<"Connected", "Degraded">>, <<"Connected", "Disconnected">>,
            <<"Connected", "Reconnecting">>,
            <<"Degraded", "Connected">>, <<"Degraded", "Reconnecting">>,
            <<"Degraded", "Disconnected">>,
            <<"Reconnecting", "Connected">>, <<"Reconnecting", "Disconnected">>,
            <<"Disconnected", "Reconnecting">>}

\* BrowserRuntimeServer::transition: an illegal edge is logged and ignored.
Transition(state, next) == IF CanTransitionTo(state, next) THEN next ELSE state
=============================================================================
