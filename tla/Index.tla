------------------------------- MODULE Index --------------------------------
(***************************************************************************)
(* The element index (element_index.rs), kept up to date by the            *)
(* incremental DOM diff (dom_diff.rs) on the dispatcher's thread, cleared  *)
(* by a reconnect on another, and read by clients through resolve and the  *)
(* recovery ladder (recovery.rs).                                          *)
(*                                                                         *)
(* The index is three maps, each behind a lock of its own: one step is one *)
(* lock taken.  Of an element its node, its id attribute and whether it is *)
(* enabled are kept.  Every node has the same tag and text; name and       *)
(* accessible name are the text, as the diff writes them.  The diff gives  *)
(* no element a role, so the role tiers find nothing.                      *)
(*                                                                         *)
(* merge_dom_ax, resolve_with_runtime and recover_with_runtime have no     *)
(* caller; the journal of the diffs decides nothing.                       *)
(***************************************************************************)
EXTENDS Naturals, Sequences, FiniteSets, Functions

CONSTANTS
    Nodes,         \* nodes of the page; a backendNodeId is never reused
    Requests,      \* what clients ask for
    NoNode,        \* no node
    MaxSteps       \* bound on the events, reconnects and calls together

ASSUME IndexAssumption ==
    /\ IsFiniteSet(Nodes) /\ NoNode \notin Nodes
    /\ MaxSteps \in Nat

DomIds == {"", "a"}

\* build_selector: by id, else by tag.
Selector(e) == IF e.id = "" THEN "div" ELSE e.id

Request == [ref: 0..MaxSteps, backend: Nodes \cup {NoNode}, sel: {"", "a", "div", "canvas"},
            id: DomIds, text: BOOLEAN]

ASSUME RequestsAssumption == Requests \subseteq Request

VARIABLES
    page,        \* history: the page as far as the dispatcher has been told of it
    untold,      \* history: nodes that lost an attribute, of which nothing is told
    dom,         \* DomState's dom_version
    gen,         \* its target_generation
    ftv,         \* its frame_tree_version
    elements,    \* the index: id -> element
    backendMap,  \* node -> id
    selectorMap, \* selector -> id
    nextId,
    disp,        \* the dispatcher: its event, where it is, the elements it puts and drops
    rec,         \* a reconnect: where it is, and whether it is to clear again
    cl,          \* a client
    left         \* events, reconnects and calls left

index == <<elements, backendMap, selectorMap>>
versions == <<dom, gen, ftv>>
told == <<page, untold>>
others == <<told, versions, rec, cl, left>>   \* of the dispatcher in the index
vars == <<told, versions, index, nextId, disp, rec, cl, left>>

Unborn == [st |-> "unborn", id |-> "", off |-> FALSE, up |-> NoNode]
NoElement == [node |-> NoNode, id |-> "", on |-> TRUE, dom |-> 0, ft |-> 0, gen |-> 0]
NoEvent == [kind |-> "none", n |-> NoNode, v |-> ""]
Quiet == [pc |-> "idle", ev |-> NoEvent, eid |-> 0, e |-> NoElement, old |-> NoElement]
NoRequest == [ref |-> 0, backend |-> NoNode, sel |-> "", id |-> "", text |-> FALSE]
NoCall == [pc |-> "idle", how |-> "ipc", req |-> NoRequest, k |-> 1, eid |-> 0, e |-> NoElement,
           m |-> {}, ladder |-> FALSE, out |-> "none"]

Elements == Range(elements)

Put(f, k, v) == [x \in DOMAIN f \cup {k} |-> IF x = k THEN v ELSE f[x]]
Without(f, k) == Restrict(f, DOMAIN f \ {k})
Empty == <<>>

Node == [st: {"unborn", "on", "removed", "replaced"}, id: DomIds, off: BOOLEAN, up: Nodes \cup {NoNode}]
Element == [node: Nodes \cup {NoNode}, id: DomIds, on: BOOLEAN, dom: Nat, ft: Nat, gen: Nat]
Event == [kind: {"none", "insert", "remove", "id", "disabled", "document", "frame", "opaque"},
          n: Nodes \cup {NoNode}, v: DomIds \cup {"true"}]
Clearing == {"clear elements", "clear backend", "clear selector"}

IndexOK ==
    /\ DOMAIN elements \subseteq 1..MaxSteps /\ \A i \in DOMAIN elements : elements[i] \in Element
    /\ DOMAIN backendMap \subseteq Nodes /\ \A x \in DOMAIN backendMap : backendMap[x] \in 1..MaxSteps
    /\ DOMAIN selectorMap \subseteq {"a", "div"} /\ \A x \in DOMAIN selectorMap : selectorMap[x] \in 1..MaxSteps
    /\ nextId \in 1..MaxSteps + 1

DispatcherOK ==
    disp \in [pc: {"idle", "diff", "read old", "put backend", "put selector", "put element",
                   "drop", "drop backend", "drop selector"} \cup Clearing,
              ev: Event, eid: 0..MaxSteps, e: Element, old: Element]

ClientOK ==
    cl \in [pc: {"idle", "tier", "get", "verify", "precheck", "recover", "materialize"},
            how: {"ipc", "step", "recover"}, req: Request, k: 1..8, eid: 0..MaxSteps, e: Element,
            m: SUBSET Nodes, ladder: BOOLEAN,
            out: {"none", "ok", "failed", "ambiguous", "refused", "dropped", "recovered", "visual", "raw"}]

TypeOK ==
    /\ page \in [Nodes -> Node] /\ untold \subseteq Nodes
    /\ dom \in Nat /\ gen \in Nat /\ ftv \in Nat
    /\ IndexOK /\ DispatcherOK /\ ClientOK
    /\ rec \in [pc: Clearing \cup {"idle"}, again: BOOLEAN]
    /\ left \in 0..MaxSteps

\* The daemon has connected: nothing is indexed.
Init ==
    /\ page = [n \in Nodes |-> Unborn] /\ untold = {}
    /\ dom = 0 /\ gen = 0 /\ ftv = 0
    /\ elements = Empty /\ backendMap = Empty /\ selectorMap = Empty /\ nextId = 1
    /\ disp = Quiet
    /\ rec = [pc |-> "idle", again |-> FALSE]
    /\ cl = NoCall
    /\ left = MaxSteps

-----------------------------------------------------------------------------
(* Staleness.                                                              *)

\* is_stale: the diff stores the frame tree's version with the frame id "",
\* whose own version is always 0.
IsStale(e) == e.gen # gen \/ e.dom # dom \/ e.ft # 0

Live == {e \in Elements : ~IsStale(e) /\ e.on}

-----------------------------------------------------------------------------
(* The dispatcher: an event is applied to DomState and the FrameManager,   *)
(* and then to the index.                                                  *)

On(n) == page[n].st = "on"
Under(n) == {k \in Nodes : On(k) /\ page[k].up = n}

\* What the page goes through when an event is sent.
After(ev) ==
    CASE ev.kind = "insert" -> [page EXCEPT ![ev.n] = [Unborn EXCEPT !.st = "on", !.id = ev.v]]
      [] ev.kind = "remove" -> [k \in Nodes |-> IF k \in {ev.n} \cup Under(ev.n)
                                               THEN [page[k] EXCEPT !.st = "removed"] ELSE page[k]]
      [] ev.kind = "id" -> [page EXCEPT ![ev.n].id = ev.v]
      [] ev.kind = "disabled" -> [page EXCEPT ![ev.n].off = TRUE]
      [] ev.kind = "document" -> [k \in Nodes |-> IF page[k].st = "unborn" THEN page[k]
                                                 ELSE [page[k] EXCEPT !.st = "replaced"]]
      [] OTHER -> page

\* Events the browser can send now.  An inserted node may bring a child, which
\* is told of with it; "frame" is an iframe's event, and "opaque" an insertion
\* that parse_dom_node makes nothing of.
Events ==
    {ev \in Event :
        \/ ev.kind = "insert" /\ ev.n \in Nodes /\ page[ev.n].st \in {"unborn", "removed"} /\ ev.v \in DomIds
        \/ ev.kind = "remove" /\ ev.n \in Nodes /\ On(ev.n) /\ ev.v = ""
        \/ ev.kind = "id" /\ ev.n \in Nodes /\ On(ev.n) /\ ev.v \in DomIds
        \/ ev.kind = "disabled" /\ ev.n \in Nodes /\ On(ev.n) /\ ev.v \in {"", "true"}
        \/ ev.kind \in {"document", "frame", "opaque"} /\ ev.n = NoNode /\ ev.v = ""}

\* A request is about these nodes, apart from one that it names by its e_NNN.
Matches(req, p) ==
    {n \in Nodes : p[n].st = "on"
        /\ \/ req.sel = Selector(p[n]) \/ req.backend = n \/ req.text
           \/ req.id # "" /\ req.id = p[n].id}

\* Mutant of BumpDom: the removal of a node changes no other one.
BumpDomSparesRemovals(ev) == IF ev.kind \in {"frame", "remove"} THEN dom ELSE dom + 1

\* Mutant of BumpDom: the insertion of a node changes no other one.
BumpDomSparesInserts(ev) == IF ev.kind \in {"frame", "insert"} THEN dom ELSE dom + 1

\* DomState::on_event.
BumpDom(ev) == IF ev.kind = "frame" THEN dom ELSE dom + 1

ApplyVersions ==
    /\ disp.pc = "idle" /\ left > 0
    /\ \E ev \in Events, kids \in SUBSET Nodes :
           /\ Cardinality(kids) <= 1
           /\ kids # {} => ev.kind = "insert" /\ \A k \in kids : page[k] = Unborn /\ k # ev.n
           /\ page' = [k \in Nodes |-> IF k \in kids THEN [Unborn EXCEPT !.st = "on", !.up = ev.n]
                                       ELSE After(ev)[k]]
           /\ disp' = [Quiet EXCEPT !.pc = "diff", !.ev = ev]
           /\ dom' = BumpDom(ev)
           /\ untold' = IF ev.kind = "document" THEN {} ELSE untold
    /\ cl' = IF cl.pc = "idle" THEN cl ELSE [cl EXCEPT !.m = @ \cup Matches(cl.req, page')]
    /\ left' = left - 1
    /\ ftv' = IF disp'.ev.kind = "frame" THEN ftv + 1 ELSE ftv
    /\ UNCHANGED <<gen, index, nextId, rec>>

\* DOM.attributeRemoved is handled nowhere.
AttributeRemoved ==
    /\ left > 0
    /\ \E n \in Nodes : /\ On(n) /\ page[n].id # ""
                        /\ page' = [page EXCEPT ![n].id = ""]
                        /\ untold' = untold \cup {n}
    /\ left' = left - 1
    /\ UNCHANGED <<versions, index, nextId, disp, rec, cl>>

-----------------------------------------------------------------------------
(* DomDiffEngine::on_event_with_pre.                                       *)

HoldersOf(n) == {i \in DOMAIN elements : elements[i].node = n}
ByBackend(n) == {i \in DOMAIN elements : n \in DOMAIN backendMap /\ backendMap[n] = i}

\* The next thing to do to the maps, with element e under id i.
Go(pc, i, e) == disp' = [disp EXCEPT !.pc = pc, !.eid = i, !.e = e]

\* insert: an element is given an id.
Insert(e) == Go("put backend", nextId, e) /\ nextId' = nextId + 1

NewElement(ev) == [node |-> ev.n, id |-> ev.v, on |-> TRUE, dom |-> dom, ft |-> ftv, gen |-> gen]

\* handle_insert: an element of the same node is removed first.
DiffInsert ==
    /\ disp.pc = "diff" /\ disp.ev.kind = "insert"
    /\ IF ByBackend(disp.ev.n) = {} THEN Insert(NewElement(disp.ev))
       ELSE \E i \in ByBackend(disp.ev.n) : Go("drop", i, NewElement(disp.ev)) /\ nextId' = nextId
    /\ UNCHANGED <<others, index>>

\* handle_remove: of the node only, for the index knows no tree.
DiffRemove ==
    /\ disp.pc = "diff" /\ disp.ev.kind = "remove"
    /\ IF HoldersOf(disp.ev.n) = {} THEN disp' = Quiet
       ELSE \E i \in HoldersOf(disp.ev.n) : Go("drop", i, NoElement)
    /\ UNCHANGED <<others, index, nextId>>

\* Modified: the element with the attribute's new value.  An empty value of
\* "disabled" is taken for "enabled".
Modified(e, ev) ==
    IF ev.kind = "id" THEN [e EXCEPT !.dom = dom, !.id = ev.v]
    ELSE [e EXCEPT !.dom = dom, !.on = (ev.v = "")]

\* handle_attribute_modified: the element stays fresh.
DiffAttribute ==
    /\ disp.pc = "diff" /\ disp.ev.kind \in {"id", "disabled"}
    /\ IF HoldersOf(disp.ev.n) = {} THEN disp' = Quiet
       ELSE \E i \in HoldersOf(disp.ev.n) : Go("read old", i, Modified(elements[i], disp.ev))
    /\ UNCHANGED <<others, index, nextId>>

\* handle_full_rebuild, and the events that change nothing here.
DiffOther ==
    /\ disp.pc = "diff" /\ disp.ev.kind \in {"document", "frame", "opaque"}
    /\ disp' = IF disp.ev.kind = "document" THEN [disp EXCEPT !.pc = "clear elements"] ELSE Quiet
    /\ UNCHANGED <<others, index, nextId>>

Diff == DiffInsert \/ DiffRemove \/ DiffAttribute \/ DiffOther

-----------------------------------------------------------------------------
(* The index's writers, one lock at a time.                                *)

Points(s, i) == s \in DOMAIN selectorMap /\ selectorMap[s] = i
NoLonger(s, i) == IF Points(s, i) THEN Without(selectorMap, s) ELSE selectorMap

\* insert: backend, selector, element.
InsertMaps ==
    /\ disp.ev.kind = "insert"
    /\ \/ /\ disp.pc = "put backend"
          /\ backendMap' = Put(backendMap, disp.e.node, disp.eid)
          /\ disp' = [disp EXCEPT !.pc = "put selector"]
          /\ UNCHANGED <<elements, selectorMap>>
       \/ /\ disp.pc = "put selector"
          /\ selectorMap' = Put(selectorMap, Selector(disp.e), disp.eid)
          /\ disp' = [disp EXCEPT !.pc = "put element"]
          /\ UNCHANGED <<elements, backendMap>>
    /\ UNCHANGED <<others, nextId>>

\* A changed selector replaces the old one; `old` is NoElement if a clear has
\* taken the element.
UpdateSelector(s, old) ==
    IF old = NoElement \/ Selector(old) = s THEN selectorMap
    ELSE Put(NoLonger(Selector(old), disp.eid), s, disp.eid)

\* update_in_place: the old selector, the selector, the backend, the element.
UpdateMaps ==
    /\ disp.ev.kind \in {"id", "disabled"}
    /\ \/ /\ disp.pc = "read old"
          /\ disp' = [disp EXCEPT !.pc = "put selector",
                                  !.old = IF disp.eid \in DOMAIN elements THEN elements[disp.eid] ELSE NoElement]
          /\ UNCHANGED index
       \/ /\ disp.pc = "put selector"
          /\ selectorMap' = UpdateSelector(Selector(disp.e), disp.old)
          /\ disp' = [disp EXCEPT !.pc = "put backend"]
          /\ UNCHANGED <<elements, backendMap>>
       \/ /\ disp.pc = "put backend"
          /\ backendMap' = Put(backendMap, disp.e.node, disp.eid)
          /\ disp' = [disp EXCEPT !.pc = "put element"]
          /\ UNCHANGED <<elements, selectorMap>>
    /\ UNCHANGED <<others, nextId>>

PutElement ==
    /\ disp.pc = "put element"
    /\ elements' = Put(elements, disp.eid, disp.e)
    /\ disp' = Quiet
    /\ UNCHANGED <<others, backendMap, selectorMap, nextId>>

\* What follows a removal: the insert that asked for it, or nothing.
Dropped ==
    IF disp.ev.kind = "insert" THEN Insert(disp.e) ELSE disp' = Quiet /\ nextId' = nextId

\* remove_by_id.
RemoveById ==
    /\ \/ /\ disp.pc = "drop"
          /\ elements' = Without(elements, disp.eid)
          /\ IF disp.eid \in DOMAIN elements
             THEN disp' = [disp EXCEPT !.pc = "drop backend", !.old = elements[disp.eid]] /\ nextId' = nextId
             ELSE Dropped
          /\ UNCHANGED <<backendMap, selectorMap>>
       \/ /\ disp.pc = "drop backend"
          /\ backendMap' = Without(backendMap, disp.old.node)
          /\ disp' = [disp EXCEPT !.pc = "drop selector"]
          /\ UNCHANGED <<elements, selectorMap, nextId>>
       \/ /\ disp.pc = "drop selector"
          /\ selectorMap' = NoLonger(Selector(disp.old), disp.eid)
          /\ Dropped
          /\ UNCHANGED <<elements, backendMap>>
    /\ UNCHANGED others

\* clear, at one of its three locks.
ClearMaps(pc) ==
    /\ elements' = IF pc = "clear elements" THEN Empty ELSE elements
    /\ backendMap' = IF pc = "clear backend" THEN Empty ELSE backendMap
    /\ selectorMap' = IF pc = "clear selector" THEN Empty ELSE selectorMap

Clearings == <<"clear elements", "clear backend", "clear selector">>
Following(pc) == CHOOSE q \in Range(Clearings) \cup {"idle"} :
    \E i \in 1..3 : Clearings[i] = pc /\ q = IF i = 3 THEN "idle" ELSE Clearings[i + 1]

\* invalidate_all by the dispatcher.
Clear ==
    /\ disp.pc \in Range(Clearings)
    /\ ClearMaps(disp.pc)
    /\ disp' = IF Following(disp.pc) = "idle" THEN Quiet ELSE [disp EXCEPT !.pc = Following(disp.pc)]
    /\ UNCHANGED <<others, nextId>>

DispatcherStep == Diff \/ InsertMaps \/ UpdateMaps \/ PutElement \/ RemoveById \/ Clear

-----------------------------------------------------------------------------
(* Reconnect: simulate_reconnect and handle_crash_generation_bump.         *)

\* on_reconnected; the crash path bumps the frame tree's version too.
OnReconnected ==
    /\ rec.pc = "idle" /\ left > 0
    /\ gen' = gen + 1 /\ dom' = dom + 1 /\ ftv' \in {ftv, ftv + 1}
    /\ rec' = [pc |-> "clear elements", again |-> TRUE]
    /\ left' = left - 1
    /\ UNCHANGED <<told, index, nextId, disp, cl>>

\* invalidate_all, and once more in on_recovery_invalidation.
Invalidate ==
    /\ rec.pc # "idle"
    /\ ClearMaps(rec.pc)
    /\ rec' = IF Following(rec.pc) # "idle" THEN [rec EXCEPT !.pc = Following(rec.pc)]
              ELSE [rec EXCEPT !.pc = IF rec.again THEN "clear elements" ELSE "idle", !.again = FALSE]
    /\ UNCHANGED <<told, versions, nextId, disp, cl, left>>

-----------------------------------------------------------------------------
(* resolve.                                                                *)

Tiers == <<"ref", "backend", "selector", "scan", "id", "text">>

\* Elements one read of the index finds for a tier.
Found(tier, req) ==
    CASE tier = "ref" -> {elements[i] : i \in DOMAIN elements \cap {req.ref}}
      [] tier = "scan" -> {e \in Elements : req.sel # "" /\ Selector(e) = req.sel}
      [] tier = "id" -> {e \in Elements : req.id # "" /\ e.id = req.id}
      [] tier = "text" -> {e \in Elements : req.text}
      [] OTHER -> {}

\* The id another map has for a tier.
Mapped(tier, req) ==
    CASE tier = "backend" -> {backendMap[n] : n \in DOMAIN backendMap \cap {req.backend}}
      [] tier = "selector" -> {selectorMap[s] : s \in DOMAIN selectorMap \cap {req.sel}}
      [] OTHER -> {}

clientOnly == <<told, versions, index, nextId, disp, rec>>

\* element_resolve, a step of a plan, or recover called for itself; the model has
\* one call.
Call(how, req) ==
    /\ cl = NoCall /\ left > 0
    /\ how = "step" => req.sel # "" /\ req.backend = NoNode /\ req.id = "" /\ ~req.text
    /\ how = "recover" => req.sel = ""
    /\ cl' = [NoCall EXCEPT !.pc = IF how = "recover" THEN "recover" ELSE "tier",
                            !.how = how, !.req = req, !.m = Matches(req, page)]
    /\ left' = left - 1
    /\ UNCHANGED clientOnly

Finish(out, e) == cl' = [NoCall EXCEPT !.e = e, !.out = out]

\* No tier has found anything: a step tries to recover.
NextTier ==
    IF cl.k < Len(Tiers) THEN cl' = [cl EXCEPT !.pc = "tier", !.k = @ + 1]
    ELSE IF cl.how = "step" THEN cl' = [cl EXCEPT !.pc = "recover", !.k = 1]
    ELSE Finish("failed", NoElement)

\* One tier: none, one or several candidates.
Tier ==
    /\ cl.pc = "tier"
    /\ LET found == Found(Tiers[cl.k], cl.req)
           ids == Mapped(Tiers[cl.k], cl.req)
       IN IF ids # {} THEN \E i \in ids : cl' = [cl EXCEPT !.pc = "get", !.eid = i]
          ELSE IF found = {} THEN NextTier
          ELSE IF Cardinality(found) > 1 THEN Finish("ambiguous", NoElement)
          ELSE \E e \in found : cl' = [cl EXCEPT !.pc = "verify", !.e = e]
    /\ UNCHANGED <<clientOnly, left>>

\* The element under the id the map gave.
Get ==
    /\ cl.pc = "get"
    /\ IF cl.eid \in DOMAIN elements THEN cl' = [cl EXCEPT !.pc = "verify", !.e = elements[cl.eid]]
       ELSE NextTier
    /\ UNCHANGED <<clientOnly, left>>

\* verify_snapshot and check_interactable: the executor does both once more.
Verify ==
    /\ cl.pc \in {"verify", "precheck"}
    /\ IF IsStale(cl.e) \/ ~cl.e.on THEN Finish("refused", NoElement)
       ELSE IF cl.pc = "verify" /\ cl.how = "step" THEN cl' = [cl EXCEPT !.pc = "precheck"]
       ELSE Finish("ok", cl.e)
    /\ UNCHANGED <<clientOnly, left>>

-----------------------------------------------------------------------------
(* The recovery ladder.                                                    *)

RecoveryTiers == <<"ref", "backend", "selector", "id", "role", "text", "fresh", "shadow">>

\* What each tier finds among the live elements; a text is a name as well.
ExistingRef(req) == Live \cap Found("ref", req)
CachedBackend(req) ==
    {e \in Live : \E i \in Mapped("backend", req) : i \in DOMAIN elements /\ elements[i] = e}
CssSelector(req) == Live \cap Found("scan", req)
DomIdName(req) == IF Live \cap Found("id", req) # {} THEN Live \cap Found("id", req)
                  ELSE Live \cap Found("text", req)
AxRoleName(req) == Live \cap Found("text", req)
SemanticText(req) == Live \cap Found("text", req)

\* Any element, if something other than a selector is asked for: an element is
\* taken if one of its strings is part of one asked for, and its role is empty.
FreshSearch(req) == {e \in Live : req.id # "" \/ req.text}

FrameShadow(req) == IF CssSelector(req) # {} THEN CssSelector(req) ELSE DomIdName(req)

Recovers(tier, req) ==
    CASE tier = "ref" -> ExistingRef(req)
      [] tier = "backend" -> CachedBackend(req)
      [] tier = "selector" -> CssSelector(req)
      [] tier = "id" -> DomIdName(req)
      [] tier = "role" -> AxRoleName(req)
      [] tier = "text" -> SemanticText(req)
      [] tier = "fresh" -> FreshSearch(req)
      [] tier = "shadow" -> FrameShadow(req)

IdOf(e) == CHOOSE i \in DOMAIN elements : elements[i] = e

\* tier_vision: nothing was found, and a canvas is left to vision.
Vision(req) == IF req.sel = "canvas" THEN "visual" ELSE "raw"

\* One tier of recover.  A step with no element, for whatever reason, is
\* dispatched on its selector.
Recover ==
    /\ cl.pc = "recover"
    /\ LET found == Recovers(RecoveryTiers[cl.k], cl.req) IN
       IF Cardinality(found) = 1
       THEN \E e \in found : cl' = [cl EXCEPT !.pc = "materialize", !.eid = IdOf(e), !.ladder = TRUE]
       ELSE IF found # {} THEN Finish("dropped", NoElement)
       ELSE IF cl.k < Len(RecoveryTiers) THEN cl' = [cl EXCEPT !.k = @ + 1]
       ELSE Finish(Vision(cl.req), NoElement)
    /\ UNCHANGED <<clientOnly, left>>

\* The element of the id, or a placeholder if it has gone.
Materialize ==
    /\ cl.pc = "materialize"
    /\ LET e == IF cl.eid \in DOMAIN elements THEN elements[cl.eid] ELSE NoElement IN
       IF cl.how = "step" THEN cl' = [cl EXCEPT !.pc = "precheck", !.e = e] ELSE Finish("recovered", e)
    /\ UNCHANGED <<clientOnly, left>>

ClientStep == Tier \/ Get \/ Verify \/ Recover \/ Materialize

-----------------------------------------------------------------------------
Next ==
    \/ ApplyVersions \/ AttributeRemoved \/ DispatcherStep
    \/ OnReconnected \/ Invalidate
    \/ \E how \in {"ipc", "step", "recover"}, req \in Requests : Call(how, req)
    \/ ClientStep

Spec == Init /\ [][Next]_vars

-----------------------------------------------------------------------------
(* Properties.                                                             *)

\* The tier that has found the element of the call, on the ladder it was found on.
FoundBy(tier, ladder) ==
    cl.ladder = ladder /\ tier = IF ladder THEN RecoveryTiers[cl.k] ELSE Tiers[cl.k]

\* A checked answer, of element_resolve or of a step (recovered or not), is about a
\* node that is on the page as last told, and that was asked for at some time
\* during the call, though the maps change one by one under the reader and the
\* ladder reads the index twice.  "Was asked for" is not claimed of an e_NNN, which
\* names an element and no node; of a node whose attribute was removed, of which the
\* daemon takes no notice; and of what resolve's selector map leads to: the map is
\* behind the page while the dispatcher applies a new id, and what the id it gave
\* stands for then is not compared with the selector again.  The ladder's own
\* scan for the selector is not excepted.
AnswerIsPresent ==
    [][(cl'.out = "ok" /\ cl.pc # "idle") =>
        /\ On(cl.e.node)
        /\ \/ cl.e.node \in untold \cup cl.m
           \/ FoundBy("ref", FALSE) \/ FoundBy("ref", TRUE)
           \/ FoundBy("selector", FALSE)]_vars

\* At most one element is fresh: every event that bumps dom_version leaves all
\* others stale, so that of several elements for one selector the newest is
\* taken, and the ladder never sees two candidates, an ambiguity that the executor
\* would turn into a step without an element.
OnlyNewestIsFresh == \A i, j \in DOMAIN elements : i # j => IsStale(elements[i]) \/ IsStale(elements[j])

=============================================================================
