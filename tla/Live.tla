-------------------------------- MODULE Live --------------------------------
(***************************************************************************)
(* What the daemon knows of a live page: DomState (dom_state.rs) and the   *)
(* FrameManager (frames.rs), fed by the event dispatcher (events.rs) from  *)
(* a broadcast channel, and invalidated by a reconnect on another thread.  *)
(*                                                                         *)
(* The browser is external: one session and one page with iframes.  Of     *)
(* DomState the versions that a staleness check reads and the lifecycle    *)
(* strings are kept; navigation_generation, element_index_version and the  *)
(* affected parents decide nothing here, and neither do the url, name and  *)
(* execution context in the FrameManager's records.                        *)
(***************************************************************************)
EXTENDS Naturals, Sequences, FiniteSets, Functions

CONSTANTS
    Main,          \* the main frame
    Children,      \* the iframes
    MaxClock,      \* bound on what the browser does
    MaxReconnects, \* bound on the reconnects
    Capacity       \* capacity of the broadcast channel (4096 in the code)

ASSUME LiveAssumption ==
    /\ MaxClock \in Nat /\ MaxReconnects \in Nat /\ Capacity \in Nat \ {0}
    /\ IsFiniteSet(Children) /\ Main \notin Children

Frames == Children \cup {Main}

VARIABLES
    clock,     \* number of things the browser has done
    doc,       \* number of the current document
    phase,     \* its lifecycle, an index of Lifecycles
    attached,  \* the iframes the page has
    enabled,   \* domains the browser sends events of
    tracking,  \* whether it sends mutations of the current document
    excused,   \* history: why it does not: an event was dropped or a call failed
    stream,    \* the dispatcher's receiver
    rx,        \* the receiver of somebody who waits
    setup,     \* the next part of enable_new_session
    fetches,   \* getDocument tasks under way
    current,   \* the event the dispatcher is half-way through, or NoEvent
    ds,        \* DomState
    fv,        \* frame_versions; 0 for a frame without an entry
    ftv,       \* frame_tree_version
    reconnect, \* where a reconnect is
    ref        \* a reference to an element that a client holds

page == <<clock, doc, phase, attached, enabled>>
channel == <<stream, rx>>
tracks == <<tracking, excused>>
calls == <<setup, fetches>>
live == <<page, tracks, channel, calls, current, ds, fv, ftv, reconnect, ref>>

Domains == {"Page", "DOM"}
Lifecycles == <<"init", "DOMContentLoaded", "load", "networkIdle">>

\* An event, and whether the change it tells of concerns the reference.
Event(kind, f, name) == [kind |-> kind, f |-> f, name |-> name, owed |-> FALSE]
NoEvent == Event("none", Main, "")
Kinds == {"documentUpdated", "mutated", "frameAttached", "frameNavigated", "frameDetached",
          "lifecycle", "dialog"}

NoReceiver == [on |-> FALSE, q |-> <<>>, lagged |-> FALSE]

\* told: an event that concerns it has been applied; odd: taken inside a reconnect.
NoRef == [taken |-> FALSE, dom |-> 0, f |-> Main, fv |-> 0, told |-> FALSE, odd |-> FALSE]

Events == [kind: Kinds, f: Frames, name: Range(Lifecycles) \cup {""}, owed: BOOLEAN]

DomStates == [dom: Nat, life: Range(Lifecycles) \cup {""},
              ready: {"unknown", "loading", "interactive", "complete"}]

LiveTypeOK ==
    /\ clock \in 0..MaxClock /\ doc \in Nat /\ phase \in 1..4 /\ attached \subseteq Children
    /\ enabled \subseteq Domains /\ tracking \in BOOLEAN /\ excused \in BOOLEAN
    /\ stream \in Seq(Events) /\ Len(stream) <= Capacity
    /\ rx \in [on: BOOLEAN, q: Seq(Events), lagged: BOOLEAN] /\ Len(rx.q) <= Capacity
    /\ setup \in {"domains", "document", "done"} /\ fetches \in Nat
    /\ current \in Events \cup {NoEvent}
    /\ ds \in DomStates
    /\ fv \in [Frames -> Nat] /\ ftv \in Nat
    /\ reconnect \in [left: 0..MaxReconnects, at: {"idle", "frames"}]
    /\ ref \in [taken: BOOLEAN, dom: Nat, f: Frames, fv: Nat, told: BOOLEAN, odd: BOOLEAN]

\* The daemon has connected to a page that may have loaded and have iframes.
LiveInit ==
    /\ clock = 0 /\ doc = 0
    /\ phase \in {1, 4} /\ attached \in SUBSET Children
    /\ enabled = {} /\ tracking = FALSE /\ excused = FALSE
    /\ stream = <<>> /\ rx = NoReceiver
    /\ setup = "domains" /\ fetches = 0
    /\ current = NoEvent
    /\ ds = [dom |-> 0, life |-> "init", ready |-> "unknown"]
    /\ fv = [f \in Frames |-> 0] /\ ftv = 0
    /\ reconnect = [left |-> MaxReconnects, at |-> "idle"]
    /\ ref = NoRef

-----------------------------------------------------------------------------
(* The browser, and the channel.                                           *)

Documents(evs) == {i \in 1..Len(evs) : evs[i].kind = "documentUpdated"}

Over(q) == IF Len(q) > Capacity THEN Len(q) - Capacity ELSE 0
Newest(q) == SubSeq(q, Over(q) + 1, Len(q))

\* What the browser sends for a change of the frames in `concerned` reaches every
\* receiver; one that is full drops its oldest events.
Send(evs, concerned) ==
    LET owed == ref.taken /\ ref.f \in concerned
        sent == stream \o [i \in 1..Len(evs) |-> [evs[i] EXCEPT !.owed = owed]]
        heard == rx.q \o evs
    IN /\ clock < MaxClock
       /\ clock' = clock + 1
       /\ stream' = Newest(sent)
       /\ rx' = IF rx.on THEN [rx EXCEPT !.q = Newest(heard), !.lagged = @ \/ Over(heard) > 0] ELSE rx
       /\ excused' = (excused \/ Documents(SubSeq(sent, 1, Over(sent))) # {})
       /\ UNCHANGED <<enabled, calls, current, ds, fv, ftv, reconnect, ref>>

If(domain, evs) == IF domain \in enabled THEN evs ELSE <<>>

PageMutates ==
    /\ Send(IF tracking THEN <<Event("mutated", Main, "")>> ELSE <<>>, Frames)
    /\ UNCHANGED <<doc, phase, attached, tracking>>

\* A new document: its mutations are not sent until it has been fetched.
PageNavigates ==
    /\ Send(If("Page", <<Event("frameNavigated", Main, "")>>)
              \o If("DOM", <<Event("documentUpdated", Main, "")>>), Frames)
    /\ doc' = doc + 1 /\ phase' = 1 /\ attached' = {} /\ tracking' = FALSE

PageLoads ==
    /\ phase < 4
    /\ Send(If("Page", <<Event("lifecycle", Main, Lifecycles[phase + 1])>>), {})
    /\ phase' = phase + 1
    /\ UNCHANGED <<doc, attached, tracking>>

FrameAttaches(f) ==
    /\ f \in Children \ attached
    /\ Send(If("Page", <<Event("frameAttached", f, "")>>), {f})
    /\ attached' = attached \cup {f}
    /\ UNCHANGED <<doc, phase, tracking>>

FrameNavigates(f) ==
    /\ f \in attached
    /\ Send(If("Page", <<Event("frameNavigated", f, "")>>), {f})
    /\ UNCHANGED <<doc, phase, attached, tracking>>

FrameDetaches(f) ==
    /\ f \in attached
    /\ Send(If("Page", <<Event("frameDetached", f, "")>>), {f})
    /\ attached' = attached \ {f}
    /\ UNCHANGED <<doc, phase, tracking>>

DialogOpens ==
    /\ Send(If("Page", <<Event("dialog", Main, "")>>), {})
    /\ UNCHANGED <<doc, phase, attached, tracking>>

Browser ==
    \/ PageMutates \/ PageNavigates \/ PageLoads \/ DialogOpens
    \/ \E f \in Children : FrameAttaches(f) \/ FrameNavigates(f) \/ FrameDetaches(f)

-----------------------------------------------------------------------------
(* Tasks that call the browser; a failed call is only logged.              *)

\* enable_new_session: Page.enable, DOM.enable and Runtime.enable ...
EnableDomains ==
    /\ setup = "domains"
    /\ setup' = "document"
    /\ enabled' \in SUBSET Domains
    /\ UNCHANGED <<clock, doc, phase, attached, tracks, channel, fetches, current, ds, fv, ftv, reconnect, ref>>

\* getDocument makes the browser track the document of now.
Fetched ==
    \/ "DOM" \in enabled /\ tracking' = TRUE /\ excused' = FALSE
    \/ tracking' = tracking /\ excused' = TRUE

\* ... and then DOM.getDocument.
GetDocument ==
    /\ setup = "document"
    /\ setup' = "done"
    /\ Fetched
    /\ UNCHANGED <<page, channel, fetches, current, ds, fv, ftv, reconnect, ref>>

\* The task spawned for a documentUpdated.
FetchDocument ==
    /\ fetches > 0
    /\ fetches' = fetches - 1
    /\ Fetched
    /\ UNCHANGED <<page, channel, setup, current, ds, fv, ftv, reconnect, ref>>

-----------------------------------------------------------------------------
(* The dispatcher.                                                         *)

ReadyState(name) ==
    CASE name = "init" -> "loading" [] name = "DOMContentLoaded" -> "interactive"
      [] OTHER -> "complete"

\* Mutant of OnEvent: only the element index is invalidated by a new document,
\* and the version is left to frameNavigated.
OnEventKeepsDom(ev) ==
    IF ev.kind = "mutated" THEN [ds EXCEPT !.dom = @ + 1]
    ELSE IF ev.kind = "lifecycle" THEN [ds EXCEPT !.life = ev.name, !.ready = ReadyState(ev.name)]
    ELSE ds

\* DomState::on_event.  Of the frames only the main one's navigation counts.
OnEvent(ev) ==
    IF ev.kind \in {"documentUpdated", "mutated"} \/ (ev.kind = "frameNavigated" /\ ev.f = Main)
    THEN [ds EXCEPT !.dom = @ + 1]
    ELSE IF ev.kind = "lifecycle" THEN [ds EXCEPT !.life = ev.name, !.ready = ReadyState(ev.name)]
    ELSE ds

\* dispatch_loop: DomState first ...
Dispatch ==
    /\ current = NoEvent /\ stream # <<>>
    /\ current' = Head(stream)
    /\ stream' = Tail(stream)
    /\ ds' = OnEvent(Head(stream))
    /\ UNCHANGED <<page, tracks, rx, calls, fv, ftv, reconnect, ref>>

\* FrameManager::bump_for_frame.
BumpForFrame(f) == ftv' = ftv + 1 /\ fv' = [fv EXCEPT ![f] = ftv + 1]

\* FrameManager::on_event: every event of a frame bumps its version, a detach
\* too; the entry outlives the frame.
OnFrameEvent(ev) ==
    \/ ev.kind \in {"frameAttached", "frameNavigated", "frameDetached"} /\ BumpForFrame(ev.f)
    \/ ev.kind \notin {"frameAttached", "frameNavigated", "frameDetached"} /\ UNCHANGED <<fv, ftv>>

\* Mutant of SpawnFetch: the document is fetched on attach only.
SpawnNothing(ev) == fetches' = fetches

\* A new document is fetched by a task of its own, so that the loop goes on.
SpawnFetch(ev) == fetches' = IF ev.kind = "documentUpdated" THEN fetches + 1 ELSE fetches

\* ... then the FrameManager.
DispatchFrames ==
    /\ current # NoEvent
    /\ OnFrameEvent(current)
    /\ SpawnFetch(current)
    /\ current' = NoEvent
    /\ ref' = [ref EXCEPT !.told = @ \/ current.owed]
    /\ UNCHANGED <<page, tracks, channel, setup, ds, reconnect>>

-----------------------------------------------------------------------------
(* Reconnect: simulate_reconnect and handle_crash_generation_bump.         *)

\* Mutant of OnReconnected: the versions are left to the FrameManager.
OnReconnectedKeepsDom ==
    /\ reconnect.at = "idle" /\ reconnect.left > 0
    /\ reconnect' = [left |-> reconnect.left - 1, at |-> "frames"]
    /\ UNCHANGED <<page, tracks, channel, calls, current, ds, fv, ftv, ref>>

\* DomState::on_reconnected; the crash path bumps the frame tree version too ...
OnReconnected ==
    /\ reconnect.at = "idle" /\ reconnect.left > 0
    /\ reconnect' = [left |-> reconnect.left - 1, at |-> "frames"]
    /\ ds' = [ds EXCEPT !.dom = @ + 1]
    /\ ftv' \in {ftv, ftv + 1}
    /\ UNCHANGED <<page, tracks, channel, calls, current, fv, ref>>

\* ... and FrameManager::handle_reconnect clears the versions.
HandleReconnect ==
    /\ reconnect.at = "frames"
    /\ reconnect' = [reconnect EXCEPT !.at = "idle"]
    /\ fv' = [f \in Frames |-> 0]
    /\ UNCHANGED <<page, tracks, channel, calls, current, ds, ftv, ref>>

-----------------------------------------------------------------------------
(* References.                                                             *)

\* A client takes a reference to an element of the page as it is now, with the
\* versions of now.
TakeRef(f) ==
    /\ ~ref.taken /\ f \in attached \cup {Main}
    /\ ref' = [taken |-> TRUE, dom |-> ds.dom, f |-> f, fv |-> fv[f], told |-> FALSE,
               odd |-> reconnect.at # "idle"]
    /\ UNCHANGED <<page, tracks, channel, calls, current, ds, fv, ftv, reconnect>>

\* FrameManager::is_stale_for_frame.
IsStaleForFrame(f, stored) == ~(fv[f] = 0 /\ stored = 0) /\ fv[f] # stored

\* FrameManager::is_element_stale.
IsElementStale(r) == IsStaleForFrame(r.f, r.fv) \/ r.dom # ds.dom

LiveStep == Dispatch \/ DispatchFrames \/ EnableDomains \/ GetDocument \/ FetchDocument

-----------------------------------------------------------------------------
(* Properties.                                                             *)

\* Once an event has been applied, every older reference whose frame or page it
\* changed is stale, whatever was dropped before and whichever of the versions
\* the event bumps.  ("DomState will self-heal on next full invalidation".)  Not
\* so for one taken between the two steps of a reconnect.
ToldIsStale == (ref.told /\ ~ref.odd) => IsElementStale(ref)

\* A stale reference never becomes fresh again, though a reconnect clears the
\* frames' versions to 0, which also means "never seen"; with the same exception.
StaleStays ==
    [][(ref.taken /\ ~ref.odd /\ IsElementStale(ref)) => IsElementStale(ref)']_live

\* The browser is silent about mutations of the document only while the news of
\* that document or the call that fetches it is under way, unless a full channel
\* dropped that news or such a call failed.
SilenceIsExcused ==
    (setup = "done" /\ ~tracking) =>
        excused \/ fetches > 0 \/ current.kind = "documentUpdated" \/ Documents(stream) # {}
=============================================================================
