------------------------------ MODULE Executor ------------------------------
(***************************************************************************)
(* The action executor (browser_runtime/executor.rs) as the server drives  *)
(* it: requests queue on the mutex of their target key (server.rs,         *)
(* target_lock), each runs its plan step by step through the action state  *)
(* machine of action.rs, and every step leaves a record in the bounded     *)
(* journal (action_journal.rs).                                            *)
(*                                                                         *)
(* `state' is both the program counter of a request's task and the         *)
(* ActionState of the step it is on.  An await point is a state in which   *)
(* other tasks, the event loop that bumps dom_version, the browser and the *)
(* timers may run; the runtime has several worker threads, so they may run *)
(* between two reads of shared state too.                                  *)
(*                                                                         *)
(* A step's dispatch is a sequence of CDP calls.  The browser and the      *)
(* connection under it are external: a frame that was sent is applied or   *)
(* rejected at any later time or never, and the connection may die.        *)
(***************************************************************************)
EXTENDS Naturals, Sequences, SequencesExt, FiniteSets

CONSTANTS
    Plans,        \* the plan requests (execute_plan and execute_action)
    Keys,         \* the target ids a request may name, "_default" included
    Workload,     \* the assignments of a request to every plan
    MaxDom,       \* bound on dom_version
    MaxEntries    \* the journal's max_entries

\* The kinds of PlanStep that dispatch, resolve or verify differently.
\* "click" stands for every step with an element and one call (Click by ref or
\* selector, Fill, Select, Hover), "click_node" for Click by backend node id,
\* "type" for Type with submit, "navigate" for the steps with one call and no
\* element (Navigate, GoBack, GoForward, Eval, Extract).
Kinds == {"click", "click_node", "type", "press", "press_enter", "navigate", "tabs",
          "snapshot", "wait"}

ASSUME WorkloadAssumption ==
    Workload \subseteq [Plans -> [key: Keys, steps: Seq(Kinds)]]
ASSUME BoundsAssumption ==
    /\ MaxDom \in Nat \ {0}
    /\ MaxEntries \in Nat \ {0}

VARIABLES
    req,      \* the request of every plan
    queue,    \* per key, the tasks in the FIFO of its mutex: the head holds it
    state,    \* program counter and action state of every plan
    step,     \* the step a plan is on, counted from 1
    skip,     \* execute_plan's should_skip
    cancel,   \* the plan's cancel token
    ref,      \* dom_version_created of the resolved ElementRef, 0 for none
    call,     \* the CDP call of dispatch_step in flight, 0 before the first
    reply,    \* what the transport has for that call
    alive,    \* BrowserRuntime::is_alive
    dom,      \* DomState's dom_version
    wire,     \* the frames sent to the browser, in order
    applied,  \* the calls the browser has carried out
    garbled,  \* history: those of them whose response did not decode
    journal   \* the action journal

local == <<state, step, skip, ref, call, reply>>
world == <<alive, dom, wire, applied, garbled>>
vars == <<req, queue, cancel, journal, local, world>>

ActionStates == {"Accepted", "Resolving", "Resolved", "PreconditionCheck", "Checked",
                 "Dispatching", "Verifying"}
Terminal == {"Completed", "Failed", "Contradicted", "Inconclusive", "Unknown", "Cancelled"}
Outcomes == {"verified", "contradicted", "inconclusive", "failed", "skipped"}
Records == [plan: Plans, step: Nat, state: Terminal, outcome: Outcomes]
Call == [plan: Plans, step: Nat, call: Nat]

\* What the transport has for a call; or, while a click releases its object
\* handle, the error that is kept and returned once that call is through.
Errors == {"error", "invalid", "dead"}
Kept == [error |-> "error kept", invalid |-> "invalid kept", dead |-> "dead kept"]
KeptErrors == {"error kept", "invalid kept", "dead kept"}
Replies == {"none", "ok"} \cup Errors \cup KeptErrors

TypeOK ==
    /\ req \in Workload
    /\ queue \in [Keys -> Seq(Plans)]
    /\ state \in [Plans -> ActionStates \cup {"Idle", "Waiting", "Next", "Done"}]
    /\ step \in [Plans -> Nat \ {0}]
    /\ skip \in [Plans -> BOOLEAN]
    /\ cancel \in [Plans -> BOOLEAN]
    /\ ref \in [Plans -> 0..MaxDom]
    /\ call \in [Plans -> Nat]
    /\ reply \in [Plans -> Replies]
    /\ alive \in BOOLEAN
    /\ dom \in 1..MaxDom
    /\ wire \in Seq(Call)
    /\ applied \subseteq Call /\ garbled \subseteq applied
    /\ journal \in Seq(Records)
    /\ Len(journal) <= MaxEntries

Init ==
    /\ req \in Workload
    /\ queue = [k \in Keys |-> <<>>]
    /\ state = [p \in Plans |-> "Idle"]
    /\ step = [p \in Plans |-> 1]
    /\ skip = [p \in Plans |-> FALSE]
    /\ cancel = [p \in Plans |-> FALSE]
    /\ ref = [p \in Plans |-> 0]
    /\ call = [p \in Plans |-> 0]
    /\ reply = [p \in Plans |-> "none"]
    /\ alive = TRUE
    /\ dom = 1
    /\ wire = <<>>
    /\ applied = {} /\ garbled = {}
    /\ journal = <<>>

-----------------------------------------------------------------------------
(* What the step kinds are.                                                *)

\* A step resolves an element when its request names one.
NeedsElement(k) == k \in {"click", "click_node", "type"}

\* is_state_changing: the capability class is not None.
StateChanging(k) == k \notin {"tabs", "snapshot", "wait"}

\* The CDP calls of dispatch_step: whether one changes the page, and whether
\* its error is dropped (`let _ =') instead of returned.
CdpCalls(k) ==
    LET Act == [mutates |-> TRUE, ignored |-> FALSE]
        Look == [mutates |-> FALSE, ignored |-> FALSE]
        ActQuietly == [mutates |-> TRUE, ignored |-> TRUE]
        LookQuietly == [mutates |-> FALSE, ignored |-> TRUE]
    IN CASE k \in {"click", "navigate"} -> <<Act>>
         [] k = "click_node" -> <<Look, Act, LookQuietly>>
         [] k = "type" -> <<Act, ActQuietly>>
         [] k = "press" -> <<ActQuietly, ActQuietly>>
         [] k = "press_enter" -> <<ActQuietly, ActQuietly, ActQuietly>>
         [] k = "tabs" -> <<Look>>
         [] k = "snapshot" -> <<LookQuietly, Look>>
         [] k = "wait" -> <<>>

\* The verdicts verify_step has for a kind; its own deadline and errors give
\* Inconclusive for every kind.
Verdicts(k) ==
    {"Completed", "Inconclusive"}
        \cup (IF k \in {"press", "press_enter", "tabs", "snapshot", "wait"} THEN {} ELSE {"Contradicted"})

OutcomeOf == [Completed |-> "verified", Contradicted |-> "contradicted",
              Inconclusive |-> "inconclusive", Failed |-> "failed",
              Unknown |-> "failed", Cancelled |-> "failed"]

\* StepOutcome::should_cascade_skip.
ShouldCascadeSkip(outcome) == outcome \in {"failed", "contradicted"}

Kind(p) == req[p].steps[step[p]]

-----------------------------------------------------------------------------
(* The journal and the end of a step.                                      *)

\* ActionJournal::append: the oldest entry makes room.
Journaled(record) ==
    Append(IF Len(journal) >= MaxEntries THEN Tail(journal) ELSE journal, record)

\* The step ends in state s: its record is journaled and the plan's loop
\* decides whether the rest is skipped.
EndStepWith(p, s, outcome) ==
    /\ journal' = Journaled([plan |-> p, step |-> step[p], state |-> s, outcome |-> outcome])
    /\ state' = [state EXCEPT ![p] = "Next"]
    /\ step' = [step EXCEPT ![p] = @ + 1]
    /\ skip' = [skip EXCEPT ![p] = @ \/ ShouldCascadeSkip(outcome)]
    /\ ref' = [ref EXCEPT ![p] = 0]
    /\ call' = [call EXCEPT ![p] = 0]
    /\ reply' = [reply EXCEPT ![p] = "none"]

EndStep(p, s) == EndStepWith(p, s, OutcomeOf[s])

FinalizeCancelled(p) == cancel[p] /\ EndStep(p, "Cancelled")

Goto(p, s) ==
    /\ state' = [state EXCEPT ![p] = s]
    /\ UNCHANGED <<step, skip, ref, call, reply, journal>>

-----------------------------------------------------------------------------
(* The request: gates, per-target mutex, loop over the steps.              *)

\* The handler checks the connection, then waits for the key's mutex.
Submit(p) ==
    /\ state[p] = "Idle"
    /\ \/ alive /\ queue' = [queue EXCEPT ![req[p].key] = Append(@, p)] /\ Goto(p, "Waiting")
       \/ ~alive /\ Goto(p, "Done") /\ UNCHANGED queue
    /\ UNCHANGED <<req, cancel, world>>

Acquire(p) ==
    /\ state[p] = "Waiting"
    /\ Head(queue[req[p].key]) = p
    /\ Goto(p, "Next")
    /\ UNCHANGED <<req, queue, cancel, world>>

\* The head of execute_plan's loop; the token is not looked at before step 0.
NextStep(p) ==
    /\ state[p] = "Next" /\ step[p] <= Len(req[p].steps)
    /\ \/ skip[p] /\ EndStepWith(p, "Cancelled", "skipped")
       \/ ~skip[p] /\ step[p] # 1 /\ FinalizeCancelled(p)
       \/ ~skip[p] /\ (step[p] = 1 \/ ~cancel[p]) /\ Goto(p, "Accepted")
    /\ UNCHANGED <<req, queue, cancel, world>>

\* Mutant of Answer: the mutex is kept.
AnswerKeepsLock(p) ==
    /\ state[p] = "Next" /\ step[p] > Len(req[p].steps)
    /\ Goto(p, "Done")
    /\ UNCHANGED <<req, queue, cancel, world>>

\* The plan is through: the mutex guard drops and the handler answers.
Answer(p) ==
    /\ state[p] = "Next" /\ step[p] > Len(req[p].steps)
    /\ queue' = [queue EXCEPT ![req[p].key] = Tail(@)]
    /\ Goto(p, "Done")
    /\ UNCHANGED <<req, cancel, world>>

\* The caller sets the token, at any time.
Cancel(p) ==
    /\ ~cancel[p]
    /\ cancel' = [cancel EXCEPT ![p] = TRUE]
    /\ UNCHANGED <<req, queue, journal, local, world>>

-----------------------------------------------------------------------------
(* execute_step_inner up to the dispatch.                                  *)

StartResolving(p) ==
    /\ state[p] = "Accepted"
    /\ \/ FinalizeCancelled(p)
       \/ ~cancel[p] /\ Goto(p, "Resolving")
    /\ UNCHANGED <<req, queue, cancel, world>>

\* resolve_for_step, then a read of the token.  The index returns a ref it has
\* just checked against the current snapshot; nothing is resolved for a step
\* without element, after a failed recovery, or when vision finds a point; an
\* error fails the step.
Resolve(p) ==
    /\ state[p] = "Resolving"
    /\ \/ FinalizeCancelled(p)
       \/ NeedsElement(Kind(p)) /\ EndStep(p, "Failed")
       \/ /\ ~cancel[p]
          /\ \E v \in IF NeedsElement(Kind(p)) THEN {0, dom} ELSE {0} :
                 ref' = [ref EXCEPT ![p] = v]
          /\ state' = [state EXCEPT ![p] = "Resolved"]
          /\ UNCHANGED <<step, skip, call, reply, journal>>
    /\ UNCHANGED <<req, queue, cancel, world>>

\* Resolved is announced, the token is read again.
StartPreconditionCheck(p) ==
    /\ state[p] = "Resolved"
    /\ \/ FinalizeCancelled(p)
       \/ ~cancel[p] /\ Goto(p, "PreconditionCheck")
    /\ UNCHANGED <<req, queue, cancel, world>>

\* check_interactable may refuse the element; verify_snapshot refuses a ref
\* that is behind dom_version.
PreconditionCheck(p) ==
    /\ state[p] = "PreconditionCheck"
    /\ \/ ref[p] # 0 /\ EndStep(p, "Failed")
       \/ ref[p] \in {0, dom} /\ Goto(p, "Checked")
    /\ UNCHANGED <<req, queue, cancel, world>>

\* The last read of the token before the step stops being cancellable.
StartDispatching(p) ==
    /\ state[p] = "Checked"
    /\ \/ FinalizeCancelled(p)
       \/ ~cancel[p] /\ Goto(p, "Dispatching")
    /\ UNCHANGED <<req, queue, cancel, world>>

-----------------------------------------------------------------------------
(* dispatch_step and verification.                                         *)

\* The step's dispatch returned Ok: Dispatched, and at once Verifying.
Dispatched(p) ==
    /\ state' = [state EXCEPT ![p] = "Verifying"]
    /\ reply' = [reply EXCEPT ![p] = "none"]
    /\ UNCHANGED <<step, skip, ref, call, journal>>

\* The next CDP call goes to the transport, which sends nothing when dead; r is
\* what the plan has until the call is answered.
Transmit(p, r) ==
    /\ call' = [call EXCEPT ![p] = @ + 1]
    /\ wire' = IF alive THEN Append(wire, [plan |-> p, step |-> step[p], call |-> call[p] + 1])
                        ELSE wire
    /\ reply' = [reply EXCEPT ![p] = r]
    /\ UNCHANGED <<state, step, skip, ref, journal, alive, dom, applied, garbled>>

SendCall(p) == Transmit(p, IF alive THEN "none" ELSE "dead")

LastCall(p) == call[p] = Len(CdpCalls(Kind(p)))

\* current_url has answered (or failed): the dispatch proper begins.
Dispatch(p) ==
    /\ state[p] = "Dispatching" /\ call[p] = 0
    /\ \/ LastCall(p) /\ Dispatched(p) /\ UNCHANGED world
       \/ ~LastCall(p) /\ SendCall(p)
    /\ UNCHANGED <<req, queue, cancel>>

\* The call succeeded, or its error is dropped: the next call, or the end.
\* A snapshot that got an AX tree does not make its second call.
CallReturns(p) ==
    /\ state[p] = "Dispatching" /\ call[p] > 0 /\ reply[p] \in {"ok"} \cup Errors
    /\ reply[p] = "ok" \/ CdpCalls(Kind(p))[call[p]].ignored
    /\ \/ (LastCall(p) \/ (Kind(p) = "snapshot" /\ reply[p] = "ok"))
             /\ Dispatched(p) /\ UNCHANGED world
       \/ ~LastCall(p) /\ SendCall(p)
    /\ UNCHANGED <<req, queue, cancel>>

\* Mutant of TimedOut: every timeout is a failure.
TimedOutFails(p) == "Failed"

\* The category of a dispatch that did not answer (rule 31).
TimedOut(p) == IF StateChanging(Kind(p)) THEN "Unknown" ELSE "Failed"

\* The state of a step whose dispatch_step returned an error: RuntimeDead
\* leaves the effect unknown, every other error counts as a refusal.
Refused(p, dead) == IF dead THEN TimedOut(p) ELSE "Failed"

\* callFunctionOn of a click by node: its result waits for the object's release.
Releases(p) == Kind(p) = "click_node" /\ call[p] = 2

\* The call's error is returned by dispatch_step (`?', or the last expression).
CallFails(p) ==
    /\ state[p] = "Dispatching" /\ call[p] > 0 /\ reply[p] \in Errors
    /\ ~CdpCalls(Kind(p))[call[p]].ignored /\ ~Releases(p)
    /\ EndStep(p, Refused(p, reply[p] = "dead"))
    /\ UNCHANGED <<req, queue, cancel, world>>

\* The click failed: Runtime.releaseObject is called all the same.
ReleaseObject(p) ==
    /\ state[p] = "Dispatching" /\ Releases(p) /\ reply[p] \in Errors
    /\ Transmit(p, Kept[reply[p]])
    /\ UNCHANGED <<req, queue, cancel>>

\* The release has an answer, whichever, and the click's error is returned.
ReleaseReturns(p) ==
    /\ state[p] = "Dispatching" /\ call[p] > 0 /\ reply[p] \in KeptErrors
    /\ ~alive \/ [plan |-> p, step |-> step[p], call |-> call[p]] \notin Range(wire)
    /\ EndStep(p, Refused(p, reply[p] = "dead kept"))
    /\ UNCHANGED <<req, queue, cancel, world>>

Verify(p) ==
    /\ state[p] = "Verifying"
    /\ \E s \in Verdicts(Kind(p)) : EndStep(p, s)
    /\ UNCHANGED <<req, queue, cancel, world>>

-----------------------------------------------------------------------------
(* The deadlines.  A deadline fires in a state where the task is suspended. *)

ResolutionTimeout(p) ==
    /\ state[p] = "Resolving" /\ NeedsElement(Kind(p))
    /\ EndStep(p, "Failed")
    /\ UNCHANGED <<req, queue, cancel, world>>

\* The dispatch deadline; it is shorter than a call's own timeout, so the call
\* is dropped with the rest.  A wait step sleeps under it.
DispatchTimeout(p) ==
    /\ state[p] = "Dispatching" /\ (call[p] > 0 \/ LastCall(p))
    /\ EndStep(p, TimedOut(p))
    /\ UNCHANGED <<req, queue, cancel, world>>

\* execute_step's overall deadline.
OverallDeadline(p) ==
    /\ \/ state[p] = "Resolving" /\ NeedsElement(Kind(p)) /\ EndStep(p, "Failed")
       \/ state[p] \in {"Dispatching", "Verifying"} /\ EndStep(p, TimedOut(p))
    /\ UNCHANGED <<req, queue, cancel, world>>

-----------------------------------------------------------------------------
(* The environment: the page, the browser and the connection (external).   *)

\* The event loop applies a DOM event: dom_version moves on.
DomEvent ==
    /\ dom < MaxDom
    /\ dom' = dom + 1
    /\ UNCHANGED <<req, queue, cancel, journal, local, alive, wire, applied, garbled>>

\* The call a plan waits for gets an answer; a late one finds nobody.
AnswerCall(c, answer) ==
    reply' = [p \in Plans |->
                 IF alive /\ c = [plan |-> p, step |-> step[p], call |-> call[p]] /\ reply[p] = "none"
                 THEN answer ELSE reply[p]]

\* A refused call (an error of the protocol) has no effect on the page.  One
\* that is carried out is answered, but its response may not survive decoding
\* (InvalidResponse).  A script that finds no element, or throws, answers with
\* a result: the executor takes it for success, and the model counts the call
\* as carried out.
Browser ==
    /\ wire # <<>>
    /\ wire' = Tail(wire)
    /\ \/ /\ applied' = applied \cup {Head(wire)}
          /\ \/ AnswerCall(Head(wire), "ok") /\ UNCHANGED garbled
             \/ AnswerCall(Head(wire), "invalid") /\ garbled' = garbled \cup {Head(wire)}
       \/ AnswerCall(Head(wire), "error") /\ UNCHANGED <<applied, garbled>>
    /\ UNCHANGED <<req, queue, cancel, journal, state, step, skip, ref, call, alive, dom>>

\* The connection dies: every call in flight gets RuntimeDead.  What was
\* sent may have reached the browser.
ConnectionDies ==
    /\ alive
    /\ alive' = FALSE
    /\ reply' = [p \in Plans |-> IF call[p] > 0 /\ reply[p] = "none" THEN "dead" ELSE reply[p]]
    /\ UNCHANGED <<req, queue, cancel, journal, state, step, skip, ref, call, dom, wire,
                   applied, garbled>>

-----------------------------------------------------------------------------
PlanStep(p) ==
    \/ Submit(p) \/ Acquire(p) \/ NextStep(p) \/ Answer(p)
    \/ StartResolving(p) \/ Resolve(p) \/ StartPreconditionCheck(p)
    \/ PreconditionCheck(p) \/ StartDispatching(p)
    \/ Dispatch(p) \/ CallReturns(p) \/ CallFails(p)
    \/ ReleaseObject(p) \/ ReleaseReturns(p) \/ Verify(p)

Deadline(p) ==
    \/ ResolutionTimeout(p) \/ DispatchTimeout(p) \/ OverallDeadline(p)

Next ==
    \/ \E p \in Plans : PlanStep(p) \/ Deadline(p) \/ Cancel(p)
    \/ DomEvent \/ Browser \/ ConnectionDies

\* Tasks are polled and timers fire; neither the page nor the browser nor a
\* caller's cancellation is owed to the executor.
Fairness == \A p \in Plans : WF_vars(PlanStep(p)) /\ WF_vars(Deadline(p))

Spec == Init /\ [][Next]_vars /\ Fairness

-----------------------------------------------------------------------------
(* Properties.                                                             *)

\* The calls of step i of plan p that changed the page or still may.
Effects(p, i) ==
    {c \in applied \cup Range(wire) :
        c.plan = p /\ c.step = i /\ CdpCalls(req[p].steps[i])[c.call].mutates}

\* A step reported Failed or Cancelled or Skipped has not touched the page
\* and never will, whatever is still on the wire; only Unknown may have
\* (rule 31).  The one exception is a call that was carried out and whose
\* response did not decode: the executor takes InvalidResponse for a refusal.
\* After a step that cascades (Failed, Unknown, Contradicted) no later step of
\* its plan reaches the page.  And what a Completed step was to do has been
\* done, but for the calls whose errors are dropped, the key events among them:
\* the browser ran the call, though a script may have found no element.
HonestReport ==
    \A r \in Range(journal) :
        /\ r.state \in {"Failed", "Cancelled"} => Effects(r.plan, r.step) \subseteq garbled
        /\ ShouldCascadeSkip(r.outcome) =>
              \A i \in (r.step + 1)..Len(req[r.plan].steps) : Effects(r.plan, i) = {}
        /\ r.state = "Completed" =>
              LET calls == CdpCalls(req[r.plan].steps[r.step]) IN
              \A j \in DOMAIN calls : (calls[j].mutates /\ ~calls[j].ignored) =>
                  [plan |-> r.plan, step |-> r.step, call |-> j] \in applied

\* A request the server accepts is answered, though the browser may never
\* answer: every wait is bounded by a deadline and the mutex is handed on.
EveryPlanAnswered == \A p \in Plans : (state[p] = "Waiting") ~> (state[p] = "Done")

=============================================================================
