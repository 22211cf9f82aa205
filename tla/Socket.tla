------------------------------- MODULE Socket -------------------------------
(***************************************************************************)
(* Ownership of the daemon's Unix socket path, browser_runtime/server.rs:  *)
(* several daemon processes run bind_socket_exclusive and later teardown   *)
(* on the same path, with file-system calls as the only synchronisation.   *)
(***************************************************************************)
EXTENDS Naturals, FiniteSets

CONSTANTS
  Daemons,       \* daemon processes
  NoFile,        \* the path does not exist
  Leftover       \* the path is the file of a process that is long dead

ASSUME SocketAssumption == NoFile # Leftover /\ {NoFile, Leftover} \cap Daemons = {}

VARIABLES
  path,      \* whose socket the path leads to
  daemonPc,  \* where each daemon is
  slow,      \* history: the daemons that have not answered a probe in time
  rivals     \* history: who was about to remove the path when a daemon bound it

socketVars == <<path, daemonPc, slow, rivals>>

Files == Daemons \cup {NoFile, Leftover}

SocketTypeOK ==
  /\ path \in Files
  /\ daemonPc \in [Daemons -> {"idle", "probing", "unlinking", "binding", "probingAgain",
                               "serving", "stopping", "refused", "gone"}]
  /\ slow \subseteq Daemons
  /\ rivals \in [Daemons -> SUBSET Daemons]

SocketInit ==
  /\ path \in {NoFile, Leftover}
  /\ daemonPc = [d \in Daemons |-> "idle"]
  /\ slow = {}
  /\ rivals = [d \in Daemons |-> {}]

-----------------------------------------------------------------------------

Answers(f) == f \in Daemons /\ daemonPc[f] = "serving"

\* probe_live: a daemon whose accept loop runs answers the handshake, unless it
\* takes longer than 800 ms.
ProbeLive(live) ==
  /\ live => Answers(path)
  /\ slow' = IF Answers(path) /\ ~live THEN slow \cup {path} ELSE slow

Stat(d) ==
  /\ daemonPc[d] = "idle"
  /\ daemonPc' = [daemonPc EXCEPT ![d] = IF path = NoFile THEN "binding" ELSE "probing"]
  /\ UNCHANGED <<path, slow, rivals>>

\* Mutant of Probe: the answer of the probe is ignored.
ProbeIgnored(d) ==
  /\ daemonPc[d] = "probing"
  /\ \E live \in BOOLEAN :
       /\ ProbeLive(live)
       /\ daemonPc' = [daemonPc EXCEPT ![d] = "unlinking"]
  /\ UNCHANGED <<path, rivals>>

Probe(d) ==
  /\ daemonPc[d] = "probing"
  /\ \E live \in BOOLEAN :
       /\ ProbeLive(live)
       /\ daemonPc' = [daemonPc EXCEPT ![d] = IF live THEN "refused" ELSE "unlinking"]
  /\ UNCHANGED <<path, rivals>>

\* Mutant of Unlink: the start begins again instead of binding.
UnlinkRetries(d) ==
  /\ daemonPc[d] = "unlinking"
  /\ path' = NoFile
  /\ daemonPc' = [daemonPc EXCEPT ![d] = "probing"]
  /\ UNCHANGED <<slow, rivals>>

\* remove_file of what the probe found dead; NotFound is fine.
Unlink(d) ==
  /\ daemonPc[d] = "unlinking"
  /\ path' = NoFile
  /\ daemonPc' = [daemonPc EXCEPT ![d] = "binding"]
  /\ UNCHANGED <<slow, rivals>>

\* bind(2) creates the file or fails with AddrInUse; then the accept loop runs.
Bind(d) ==
  /\ daemonPc[d] = "binding"
  /\ path' = IF path = NoFile THEN d ELSE path
  /\ daemonPc' = [daemonPc EXCEPT ![d] = IF path = NoFile THEN "serving" ELSE "probingAgain"]
  /\ rivals' = [rivals EXCEPT ![d] =
                  {e \in Daemons \ {d} : daemonPc[e] \in {"unlinking", "serving", "stopping"}}]
  /\ UNCHANGED slow

\* A lost race ends in DaemonAlreadyRunning or in a Socket error.
ProbeAgain(d) ==
  /\ daemonPc[d] = "probingAgain"
  /\ daemonPc' = [daemonPc EXCEPT ![d] = "refused"]
  /\ UNCHANGED <<path, slow, rivals>>

\* The accept loop has ended and dropped the listener; requests are drained.
Stop(d) ==
  /\ daemonPc[d] = "serving"
  /\ daemonPc' = [daemonPc EXCEPT ![d] = "stopping"]
  /\ UNCHANGED <<path, slow, rivals>>

\* teardown removes whatever is at the path.
Teardown(d) ==
  /\ daemonPc[d] = "stopping"
  /\ path' = NoFile
  /\ daemonPc' = [daemonPc EXCEPT ![d] = "gone"]
  /\ UNCHANGED <<slow, rivals>>

\* The process is killed: the file stays.
Crash(d) ==
  /\ daemonPc[d] \notin {"idle", "refused", "gone"}
  /\ daemonPc' = [daemonPc EXCEPT ![d] = "gone"]
  /\ UNCHANGED <<path, slow, rivals>>

Proceed(d) ==
  Probe(d) \/ Unlink(d) \/ Bind(d) \/ ProbeAgain(d) \/ Teardown(d)

SocketNext == \E d \in Daemons : Stat(d) \/ Proceed(d) \/ Stop(d) \/ Crash(d)

SocketSpec ==
  /\ SocketInit /\ [][SocketNext]_socketVars
  /\ \A d \in Daemons : WF_socketVars(Proceed(d) \/ Stat(d))

-----------------------------------------------------------------------------
(* Properties *)

\* A daemon that serves is the one the path leads to, and stays so whatever is
\* started, killed or refused later.  It can only be cut off by a start or a
\* daemon that was there before it: one between its probe and its unlink, one
\* that still served (without its file) or one in its teardown when this one
\* bound; or by not answering a probe within the limit.  So "Never blindly
\* unlinks a live socket" (bind_socket_exclusive) holds of daemons that are
\* alone when they bind and answer in time, and not beyond that.
ServingIsReachable ==
  \A d \in Daemons :
    daemonPc[d] = "serving" => path = d \/ d \in slow \/ rivals[d] # {}

\* Whatever is left at the path, a daemon that is started ends up serving or
\* finds that another one was (AlreadyRunning); no start is stuck.
EveryStartDecided ==
  \A d \in Daemons : (daemonPc[d] # "idle") ~> (daemonPc[d] \in {"serving", "refused", "gone"})

=============================================================================
