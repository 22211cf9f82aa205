-------------------------------- MODULE Wait --------------------------------
(***************************************************************************)
(* The wait engine (wait.rs): wait_for's loop of check, subscribe,         *)
(* re-check and await, for the conditions of WaitCondition and for the     *)
(* url and readyState waits of plan.rs, on the live state of module Live.  *)
(*                                                                         *)
(* The Closed branch of the loop is left out: the waiter itself keeps the  *)
(* sender of the channel alive.  Conditions on elements ask the page like  *)
(* "expression" does; conditions on frame versions and targets are decided *)
(* by the daemon's state like "dom", or by an event like "dialog".         *)
(***************************************************************************)
EXTENDS Live

CONSTANT Conds   \* the conditions waited for

VARIABLE w       \* the waiter

vars == <<live, w>>

Conditions == {"load", "navigated", "dom", "dialog", "expression", "ready", "url"}
ASSUME CondsAssumption == Conds \subseteq Conditions

\* signal: history, its receiver was sent the dialog event it waits for; deaf:
\* history, that receiver has lagged.
Waiter(c) == [pc |-> "check", cond |-> c, late |-> FALSE, signal |-> FALSE, deaf |-> FALSE]
Idle == [Waiter("load") EXCEPT !.pc = "idle"]

TypeOK ==
    /\ LiveTypeOK
    /\ w \in [pc: {"idle", "check", "subscribe", "recheck", "loop", "poll", "probe"},
              cond: Conditions, late: BOOLEAN, signal: BOOLEAN, deaf: BOOLEAN]

Init == LiveInit /\ w = Idle

-----------------------------------------------------------------------------
(* Conditions.                                                             *)

Complete == phase >= 3
WantedDoc == 1   \* the url the plan waits for is the next document's

\* is_satisfied_cached, and the check of wait_for_lifecycle.
Cached(c) ==
    CASE c = "dom" -> ds.dom >= 1
      [] c = "load" -> ds.life = "load"
      [] c = "navigated" -> ds.life \in {"load", "networkIdle"} \/ ds.ready = "complete"
      [] OTHER -> FALSE

\* is_satisfied's Runtime.evaluate, and the checks in plan.rs.
Probed(c) ==
    CASE c \in {"expression", "ready"} -> Complete
      [] c = "url" -> doc = WantedDoc
      [] OTHER -> FALSE

Satisfied(c) == Cached(c) \/ Probed(c)

\* A probe is a call to the browser, and may fail.
CheckAnswers(c) == {Satisfied(c)} \cup (IF Probed(c) THEN {FALSE} ELSE {})

\* event_matches, and the predicates in dom_state.rs and plan.rs.
EventMatches(c, ev) ==
    CASE c = "dialog" -> ev.kind = "dialog"
      [] c = "load" -> ev.kind = "lifecycle" /\ ev.name = "load"
      [] c = "navigated" -> ev.kind = "lifecycle" /\ ev.name \in {"load", "networkIdle"}
      [] c = "ready" -> ev.kind = "lifecycle"
      [] c = "url" -> ev.kind \in {"lifecycle", "frameNavigated"}
      [] OTHER -> FALSE

-----------------------------------------------------------------------------
(* wait_for.                                                               *)

rest == <<page, tracks, stream, calls, current, ds, fv, ftv, reconnect, ref>>

\* A client takes a reference or waits: the two have nothing to do with one
\* another, so the instance has one at a time.  Requests are let in when serve
\* has enabled the session.
StartWait(c) ==
    /\ w.pc = "idle" /\ setup = "done" /\ ~ref.taken
    /\ w' = Waiter(c)
    /\ UNCHANGED live

\* The receiver goes with the call.
Return == w' = Idle /\ rx' = NoReceiver

\* The url waits look once more before they return.
Satisfy == IF w.cond = "url" THEN w' = [w EXCEPT !.pc = "probe"] /\ rx' = NoReceiver ELSE Return

\* A check at one of its three places, and where a false one leads.
Check(at, next) ==
    /\ w.pc = at
    /\ \E b \in CheckAnswers(w.cond) :
           IF b THEN Satisfy ELSE w' = [w EXCEPT !.pc = next] /\ rx' = rx
    /\ UNCHANGED rest

Subscribe ==
    /\ w.pc = "subscribe"
    /\ w' = [w EXCEPT !.pc = "recheck"]
    /\ rx' = [NoReceiver EXCEPT !.on = TRUE]
    /\ UNCHANGED rest

\* The timer runs from the end of the re-check.
Deadline ==
    /\ w.pc \in {"loop", "poll"} /\ ~w.late
    /\ w' = [w EXCEPT !.late = TRUE]
    /\ UNCHANGED live

TimedOut == w.pc = "loop" /\ w.late /\ Return /\ UNCHANGED rest

\* Mutant of Receive: the receiver is renewed with every event.
ReceiveRenews ==
    /\ w.pc = "loop" /\ ~w.late /\ rx.q # <<>> /\ ~rx.lagged
    /\ IF EventMatches(w.cond, Head(rx.q)) THEN Satisfy
       ELSE w' = [w EXCEPT !.pc = "poll"] /\ rx' = [rx EXCEPT !.q = <<>>]
    /\ UNCHANGED rest

\* An event that is the signal ends the wait, any other one is a reason to check.
Receive ==
    /\ w.pc = "loop" /\ ~w.late /\ rx.q # <<>> /\ ~rx.lagged
    /\ IF EventMatches(w.cond, Head(rx.q)) THEN Satisfy
       ELSE w' = [w EXCEPT !.pc = "poll"] /\ rx' = [rx EXCEPT !.q = Tail(@)]
    /\ UNCHANGED rest

Lagged ==
    /\ w.pc = "loop" /\ ~w.late /\ rx.lagged
    /\ rx' = [rx EXCEPT !.lagged = FALSE]
    /\ w' = [w EXCEPT !.pc = "poll", !.deaf = (w.cond = "dialog")]
    /\ UNCHANGED rest

\* Mutant of Tick: without an event there is nothing to check.
TickSleeps ==
    /\ w.pc = "loop" /\ ~w.late /\ rx.q = <<>> /\ ~rx.lagged
    /\ UNCHANGED vars

\* The select is biased: the 100 ms tick counts if there is nothing to receive.
Tick ==
    /\ w.pc = "loop" /\ ~w.late /\ rx.q = <<>> /\ ~rx.lagged
    /\ w' = [w EXCEPT !.pc = "poll"]
    /\ UNCHANGED live

\* wait_for_url_contains: the url is fetched for the answer, which it decides.
FinalProbe == w.pc = "probe" /\ Return /\ UNCHANGED rest

WaitStep ==
    \/ Check("check", "subscribe") \/ Subscribe \/ Check("recheck", "loop")
    \/ TimedOut \/ Receive \/ Lagged \/ Tick \/ Check("poll", "loop")
    \/ FinalProbe

-----------------------------------------------------------------------------
\* What the browser does, and whether it was a signal for the waiter.
Environment ==
    /\ Browser
    /\ w' = [w EXCEPT !.signal = @ \/ (w.cond = "dialog" /\ rx'.q # rx.q /\ rx'.q[Len(rx'.q)].kind = "dialog")]

Next ==
    \/ Environment
    \/ LiveStep /\ UNCHANGED w
    \/ (OnReconnected \/ HandleReconnect) /\ UNCHANGED w
    \/ \E f \in Frames : w.pc = "idle" /\ setup = "done" /\ TakeRef(f) /\ UNCHANGED w
    \/ \E c \in Conds : StartWait(c)
    \/ WaitStep \/ Deadline

\* The dispatcher's and the waiter's tasks are polled; a call to a browser that
\* is alive does not fail for ever.  Nothing is assumed of the browser.
Fairness ==
    /\ WF_vars(LiveStep /\ UNCHANGED w)
    /\ WF_vars(WaitStep)
    /\ SF_vars(w.pc = "poll" /\ Satisfied(w.cond) /\ Satisfy /\ UNCHANGED rest)

Spec == Init /\ [][Next]_vars /\ Fairness

-----------------------------------------------------------------------------
(* Properties.                                                             *)

\* A condition that has come true for good is noticed: the waiter is not left
\* asleep by an event that came before the subscription, was dropped, or was
\* received before the dispatcher had applied it, nor by there being none.
NoMissedWakeup == ~<>[](w.pc # "idle" /\ Satisfied(w.cond))

\* A signal that was sent after the subscription is not lost while the wait
\* lasts: it is in the receiver until it ends the wait, unless that overflowed.
SignalNotLost ==
    w.signal => w.deaf \/ rx.lagged \/ \E i \in 1..Len(rx.q) : rx.q[i].kind = "dialog"

=============================================================================
