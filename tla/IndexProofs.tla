---------------------------- MODULE IndexProofs -----------------------------
(***************************************************************************)
(* Proofs about Index for any nodes, requests and number of events and     *)
(* reconnects: type correctness, that at most one element is fresh, and    *)
(* that a checked answer is a node of the page that was asked for, though  *)
(* the three maps change under the reader one by one and a reconnect       *)
(* clears them under the dispatcher.                                       *)
(***************************************************************************)
EXTENDS Index, TLAPS

-----------------------------------------------------------------------------
(* The inductive invariant *)

Busy == disp.pc # "idle"
Kind == disp.ev.kind
Inserting == {"put backend", "put selector", "put element"}
Putting == disp.pc \in Inserting \cup {"read old"}

\* Which steps an event leads to.
Phases ==
    /\ Busy => Kind # "none"
    /\ Putting => Kind \in {"insert", "id", "disabled"}
    /\ disp.pc = "read old" => Kind # "insert"
    /\ disp.pc \in {"drop", "drop backend", "drop selector"} => Kind = "remove"
    /\ disp.pc \in Clearing => Kind = "document"

\* Ids are drawn once, and there are no more of them than events.
Drawn ==
    /\ \A i \in DOMAIN elements : i < nextId
    /\ \A x \in DOMAIN backendMap : backendMap[x] < nextId
    /\ \A x \in DOMAIN selectorMap : selectorMap[x] < nextId
    /\ disp.eid < nextId /\ cl.eid < nextId /\ (Putting => disp.eid > 0)
    /\ nextId + left <= MaxSteps + 1
    /\ (disp.pc = "diff" /\ Kind = "insert") => nextId + left <= MaxSteps

\* An element is no younger than dom_version, and while an event that bumps it is
\* being worked off, older.
Ages ==
    /\ \A i \in DOMAIN elements : elements[i].dom \in 1..dom
    /\ Putting => disp.e.dom \in 1..dom
    /\ (Busy /\ Kind # "frame") => dom > 0 /\ \A i \in DOMAIN elements : elements[i].dom < dom
    /\ \A i, j \in DOMAIN elements : i # j => elements[i].dom # dom \/ elements[j].dom # dom

\* The id the page gives to node n, as far as anybody is told.
Id(n, id) == page[n].id = id \/ n \in untold

\* What the dispatcher knows of its event still holds of the page.
Told ==
    /\ (Busy /\ Kind \in {"insert", "id", "disabled"}) => disp.ev.n \in Nodes /\ On(disp.ev.n)
    /\ (Busy /\ Kind \in {"insert", "id"}) => disp.ev.v \in DomIds /\ Id(disp.ev.n, disp.ev.v)
    /\ (Busy /\ Kind = "remove") => disp.ev.n \in Nodes
    /\ Putting => disp.e.node = disp.ev.n /\ Id(disp.ev.n, disp.e.id)
    /\ \A n \in untold : page[n].st # "unborn"

\* Every node has one element at most, and an element's node is on the page unless
\* the dispatcher is about to remove it.
Holders ==
    /\ \A i \in DOMAIN elements : elements[i].node \in Nodes
    /\ \A i, j \in DOMAIN elements : elements[i].node = elements[j].node => i = j
    /\ \A i \in DOMAIN elements :
          \/ On(elements[i].node)
          \/ disp.pc \in {"diff", "clear elements"} /\ Kind = "document"
          \/ /\ disp.pc \in {"diff", "drop"} /\ Kind = "remove" /\ disp.ev.n = elements[i].node
             /\ disp.pc = "drop" => disp.eid = i
    /\ (Busy /\ Kind = "insert") => \A i \in DOMAIN elements : elements[i].node # disp.ev.n
    /\ Putting => \A i \in DOMAIN elements : elements[i].node = disp.ev.n => i = disp.eid

\* Only a node that was inserted for itself gets an element, none of those that came
\* with one and go with it.
Rooted ==
    /\ \A i \in DOMAIN elements : page[elements[i].node].up = NoNode
    /\ (Putting \/ (Busy /\ Kind = "insert")) => page[disp.ev.n].up = NoNode

\* An element has the id of its node, unless the dispatcher is about to change it.
Accurate ==
    \A i \in DOMAIN elements : On(elements[i].node) =>
        \/ Id(elements[i].node, elements[i].id)
        \/ Busy /\ Kind = "id" /\ disp.ev.n = elements[i].node

\* The id i is, was or will be that of an element of node n.
Owned(i, n) ==
    /\ i \in Nat /\ i < nextId
    /\ i \in DOMAIN elements => elements[i].node = n
    /\ (Putting /\ disp.eid = i) => disp.e.node = n

Backends ==
    /\ \A n \in DOMAIN backendMap : Owned(backendMap[n], n)
    /\ Putting => Owned(disp.eid, disp.e.node)

\* Node n was asked for at some time during the call, or is lost for good.
Wanted(n) == n \in cl.m \cup untold \/ page[n].st = "replaced"

\* The tiers that are not held to what was asked for: an e_NNN, on either ladder,
\* and resolve's selector map.
Exempt(c) == c.k = 1 \/ (c.k = 3 /\ ~c.ladder)

\* An element in the client's hands is stale or on the page and asked for.
Sound(e) ==
    /\ e.dom <= dom
    /\ e.dom = dom => e.node \in Nodes /\ On(e.node) /\ (Exempt(cl) \/ Wanted(e.node))

Client ==
    /\ cl.pc # "idle" => cl.out = "none" /\ Matches(cl.req, page) \subseteq cl.m \cup untold
    /\ cl.how = "step" => cl.req.sel # "" /\ cl.req.backend = NoNode /\ cl.req.id = "" /\ ~cl.req.text
    /\ cl.pc \in {"tier", "get", "verify"} => cl.k \in 1..6 /\ cl.how # "recover"
    /\ cl.pc \in {"precheck", "recover", "materialize"} => cl.how # "ipc"
    /\ cl.pc = "precheck" => cl.how = "step"
    /\ cl.pc = "get" => cl.k \in {2, 3} /\ (cl.k = 2 => cl.req.backend \in Nodes /\ Owned(cl.eid, cl.req.backend))
    /\ cl.pc \in {"verify", "precheck", "materialize"} => dom > 0
    /\ cl.pc \in {"verify", "precheck"} => Sound(cl.e)
    /\ cl.pc \in {"tier", "get", "verify", "recover"} => ~cl.ladder
    /\ (cl.pc = "materialize" /\ cl.how = "step" /\ cl.k # 1) =>
          \E n \in Nodes : Owned(cl.eid, n) /\ Wanted(n)

IInv == TypeOK /\ Phases /\ Drawn /\ Ages /\ Told /\ Holders /\ Rooted /\ Accurate /\ Backends /\ Client

-----------------------------------------------------------------------------
(* Maps, and what the types say *)

\* Ids are numbers.
LEMMA Bound ==
  /\ MaxSteps \in Nat /\ 1 .. MaxSteps \subseteq 0 .. MaxSteps /\ 1 .. MaxSteps + 1 \subseteq Nat
  /\ 0 .. MaxSteps \subseteq Nat /\ 1 .. MaxSteps \subseteq Nat
  /\ \A a, b, i \in Nat : (i < a /\ a <= b) => i < b
  /\ \A d \in Nat : (d > 0 => d \in 1 .. d) /\ ~(d < d) /\ d <= d
  /\ \A i \in 1 .. MaxSteps : i > 0
  /\ MaxSteps + 1 \in Nat
  /\ \A i \in 1 .. MaxSteps + 1 : 0 < i
<1>1. MaxSteps \in Nat
  BY IndexAssumption
<1> QED  BY <1>1

\* With fewer steps left, or one fewer, a sum stays within its bound.
LEMMA Fewer ==
  /\ \A a, b, c, d \in Nat : (a + b <= c /\ d <= b) => a + d <= c
  /\ \A a, b, c, d \in Nat : (a + b <= c + 1 /\ d + 1 = b) => a + d <= c /\ a + d <= c + 1
OBVIOUS

\* The event, the element and the place of the dispatcher.
LEMMA DispTyped ==
  ASSUME TypeOK
  PROVE  /\ disp.ev \in Event /\ disp.e \in Element /\ disp.old \in Element
         /\ disp.eid \in 0 .. MaxSteps
         /\ disp.ev.v \in DomIds \cup {"true"} /\ disp.ev.n \in Nodes \cup {NoNode}
         /\ disp.e.dom \in Nat /\ disp.e.id \in DomIds /\ disp.e.node \in Nodes \cup {NoNode}
         /\ MaxSteps \in Nat /\ nextId \in Nat /\ nextId \in 1 .. MaxSteps + 1 /\ dom \in Nat /\ left \in Nat
<1>1. disp.ev \in Event /\ disp.e \in Element /\ disp.old \in Element /\ disp.eid \in 0 .. MaxSteps
  BY DEF TypeOK, DispatcherOK
<1>2. disp.ev.v \in DomIds \cup {"true"} /\ disp.ev.n \in Nodes \cup {NoNode}
  BY <1>1 DEF Event
<1>3. disp.e.dom \in Nat /\ disp.e.id \in DomIds /\ disp.e.node \in Nodes \cup {NoNode}
  BY <1>1 DEF Element
<1>4. MaxSteps \in Nat /\ nextId \in 1 .. MaxSteps + 1 /\ dom \in Nat /\ left \in 0 .. MaxSteps
  BY IndexAssumption DEF TypeOK, IndexOK
<1> QED  BY <1>1, <1>2, <1>3, <1>4

\* A dispatcher with nothing to do, and the constants, have their types.
LEMMA Constants ==
  /\ NoElement \in Element /\ NoEvent \in Event /\ Quiet.pc = "idle" /\ Quiet.ev.kind = "none"
  /\ Quiet.eid = 0 /\ Unborn \in Node /\ NoElement.dom = 0 /\ NoElement.on
  /\ Quiet \in [pc: {"idle", "diff", "read old", "put backend", "put selector", "put element",
                     "drop", "drop backend", "drop selector"} \cup Clearing,
                ev: Event, eid: 0..MaxSteps, e: Element, old: Element]
  /\ \A n \in Nodes : n # NoNode
<1>1. NoElement \in Element /\ NoElement.dom = 0 /\ NoElement.on
  BY DEF NoElement, Element, DomIds
<1>2. NoEvent \in Event /\ NoEvent.kind = "none"
  BY DEF NoEvent, Event, DomIds
<1>3. Unborn \in Node
  BY DEF Unborn, Node, DomIds
<1>4. 0 \in 0 .. MaxSteps /\ \A n \in Nodes : n # NoNode
  BY IndexAssumption
<1> QED  BY <1>1, <1>2, <1>3, <1>4 DEF Quiet

\* A dispatcher that has come to rest.
LEMMA Idle ==
  ASSUME TypeOK, disp' = Quiet
  PROVE  DispatcherOK' /\ Phases' /\ disp'.eid < nextId /\ ~Busy' /\ ~Putting' /\ disp'.pc = "idle"
<1>1. disp'.pc = "idle" /\ disp'.eid < nextId /\ DispatcherOK'
  <2>1. nextId \in 1 .. MaxSteps + 1 /\ MaxSteps \in Nat
    BY DispTyped
  <2>2. disp'.pc = "idle" /\ disp'.eid = 0
    BY Constants
  <2>3. DispatcherOK'
    BY Constants DEF DispatcherOK
  <2> QED  BY <2>1, <2>2, <2>3
<1>2. "idle" \notin Inserting \cup {"read old"} /\ "idle" \notin Clearing
  BY DEF Inserting, Clearing
<1>3. ~Busy' /\ ~Putting'
  BY <1>1, <1>2 DEF Busy, Putting
<1> QED  BY <1>1, <1>2, <1>3 DEF Phases

-----------------------------------------------------------------------------
(* The client sees other tasks' steps *)

\* What the client knows outlasts every step of the others.
LEMMA ClientKept ==
  ASSUME IInv, dom' \in Nat, dom <= dom', cl.m \subseteq cl'.m,
         cl'.pc = cl.pc, cl'.how = cl.how, cl'.req = cl.req, cl'.k = cl.k, cl'.eid = cl.eid,
         cl'.e = cl.e, cl'.out = cl.out, cl'.ladder = cl.ladder,
         \A n \in Nodes : page[n].st = "replaced" => page'[n].st = "replaced",
         \A n \in untold : n \in untold' \/ page'[n].st = "replaced",
         dom' = dom => \A n \in Nodes : On(n) => On(n)',
         \A i, n : Owned(i, n) => Owned(i, n)',
         cl.pc # "idle" => Matches(cl.req, page)' \subseteq cl'.m \cup untold'
  PROVE  Client'
<1>1. /\ TypeOK /\ Client /\ dom \in Nat /\ untold \subseteq Nodes /\ cl.e.dom \in Nat /\ cl.m \subseteq Nodes
  BY DEF IInv, TypeOK, ClientOK, Element
<1>2. \A n \in Nodes : Wanted(n) => Wanted(n)'
  BY DEF Wanted
<1>3. Sound(cl.e) => Sound(cl.e)'
  BY <1>1, <1>2 DEF Sound, Exempt
<1>4. cl'.pc # "idle" => cl'.out = "none" /\ Matches(cl.req, page)' \subseteq cl'.m \cup untold'
  BY <1>1 DEF Client
<1>5. /\ cl'.how = "step" =>
            cl'.req.sel # "" /\ cl'.req.backend = NoNode /\ cl'.req.id = "" /\ ~cl'.req.text
      /\ cl'.pc \in {"tier", "get", "verify"} => cl'.k \in 1..6 /\ cl'.how # "recover"
      /\ cl'.pc \in {"precheck", "recover", "materialize"} => cl'.how # "ipc"
      /\ cl'.pc = "precheck" => cl'.how = "step"
      /\ cl'.pc \in {"tier", "get", "verify", "recover"} => ~cl'.ladder
  BY <1>1 DEF Client
<1>6. cl'.pc = "get" =>
        cl'.k \in {2, 3} /\ (cl'.k = 2 => cl'.req.backend \in Nodes /\ Owned(cl.eid, cl.req.backend)')
  BY <1>1 DEF Client
<1>7. cl'.pc \in {"verify", "precheck", "materialize"} => dom' > 0
  <2>1. cl.pc \in {"verify", "precheck", "materialize"} => dom > 0
    BY <1>1 DEF Client
  <2>2. dom > 0 => dom' > 0
    BY <1>1
  <2> QED  BY <2>1, <2>2
<1>8. cl'.pc \in {"verify", "precheck"} => Sound(cl.e)'
  BY <1>1, <1>3 DEF Client
<1>9. (cl'.pc = "materialize" /\ cl'.how = "step" /\ cl'.k # 1) =>
        \E n \in Nodes : Owned(cl.eid, n)' /\ Wanted(n)'
  BY <1>1, <1>2 DEF Client
<1> QED  BY <1>4, <1>5, <1>6, <1>7, <1>8, <1>9 DEF Client


\* The same, of a step that leaves the page and the versions alone.
LEMMA ClientUnaware ==
  ASSUME IInv, UNCHANGED <<page, untold, dom, cl>>, \A i, n : Owned(i, n) => Owned(i, n)'
  PROVE  Client'
<1>1. dom' \in Nat /\ dom <= dom' /\ untold' = untold /\ page' = page /\ cl' = cl /\ dom' = dom
  BY DEF IInv, TypeOK
<1>2. cl.pc # "idle" => Matches(cl.req, page)' \subseteq cl'.m \cup untold'
  <2>1. Matches(cl.req, page)' = Matches(cl.req, page)
    BY <1>1 DEF Matches
  <2> QED  BY <1>1, <2>1 DEF IInv, Client
<1>3. \A n : On(n) => On(n)'
  BY <1>1 DEF On
<1> QED  BY <1>1, <1>2, <1>3, ClientKept

-----------------------------------------------------------------------------
(* The dispatcher writes the maps *)

\* One lock of insert or update_in_place: a map changes, the elements do not.
LEMMA MapsMove ==
  ASSUME IInv, UNCHANGED <<others, nextId, elements>>, DispatcherOK', disp'.ev = disp.ev, disp'.e = disp.e,
         disp'.eid = disp.eid, Putting, disp'.pc \in Inserting,
         backendMap' \in {backendMap, Put(backendMap, disp.e.node, disp.eid)},
         DOMAIN selectorMap' \subseteq {"a", "div"},
         \A x \in DOMAIN selectorMap' : selectorMap'[x] \in 1 .. MaxSteps /\ selectorMap'[x] < nextId
  PROVE  IInv'
<1>1. /\ TypeOK /\ Phases /\ Drawn /\ Ages /\ Told /\ Holders /\ Rooted /\ Accurate /\ Backends /\ Client
      /\ UNCHANGED <<page, untold, dom, gen, ftv, rec, cl, left, nextId, elements>>
  BY DEF IInv, others, told, versions
<1>2. /\ Busy /\ Busy' /\ Putting' /\ Kind' = Kind /\ disp'.pc # "diff" /\ disp'.pc # "read old"
      /\ disp'.pc \notin Clearing /\ disp'.pc \notin {"drop", "drop backend", "drop selector"}
      /\ disp.pc \notin Clearing /\ disp.pc \notin {"diff", "drop", "drop backend", "drop selector"}
  BY DEF Busy, Putting, Kind, Inserting, Clearing
<1>3. disp.e.node \in Nodes /\ disp.eid \in 1 .. MaxSteps /\ disp.eid < nextId
  <2>1. disp.e.node \in Nodes
    BY <1>1, <1>2 DEF Told, Phases
  <2>2. disp.eid > 0 /\ disp.eid < nextId /\ disp.eid \in 0 .. MaxSteps /\ MaxSteps \in Nat
    BY <1>1, DispTyped DEF Drawn
  <2> QED  BY <2>1, <2>2
<1>4. /\ DOMAIN backendMap' \subseteq DOMAIN backendMap \cup {disp.e.node}
      /\ \A x \in DOMAIN backendMap' :
            (x \in DOMAIN backendMap /\ backendMap'[x] = backendMap[x]) \/ (x = disp.e.node /\ backendMap'[x] = disp.eid)
  <2>1. CASE backendMap' = backendMap
    BY <2>1
  <2>2. CASE backendMap' = Put(backendMap, disp.e.node, disp.eid)
    <3> DEFINE b == Put(backendMap, disp.e.node, disp.eid)
    <3>1. /\ DOMAIN b = DOMAIN backendMap \cup {disp.e.node} /\ b[disp.e.node] = disp.eid
          /\ \A x \in DOMAIN backendMap : x # disp.e.node => b[x] = backendMap[x]
      BY DEF Put
    <3>2. backendMap' = b
      BY <2>2
    <3> QED  BY <3>1, <3>2
  <2> QED  BY <2>1, <2>2
<1>5. TypeOK'
  <2>1. IndexOK'
    BY <1>1, <1>3, <1>4 DEF TypeOK, IndexOK
  <2>2. ClientOK'
    BY <1>1 DEF TypeOK, ClientOK
  <2> QED  BY <1>1, <2>1, <2>2 DEF TypeOK
<1>6. Phases'
  BY <1>1, <1>2 DEF Phases
<1>7. Drawn'
  BY <1>1, <1>2, <1>3, <1>4 DEF Drawn
<1>8. Ages'
  BY <1>1, <1>2 DEF Ages
<1>9. Told'
  BY <1>1, <1>2 DEF Told, On, Id
<1>10. Holders'
  <2>1. \A i \in DOMAIN elements : On(elements[i].node)
    BY <1>1, <1>2 DEF Holders, Clearing
  <2>2. \A i \in DOMAIN elements : On(elements[i].node)'
    BY <1>1, <2>1 DEF On
  <2>3. /\ \A i \in DOMAIN elements : elements[i].node \in Nodes
        /\ \A i, j \in DOMAIN elements : elements[i].node = elements[j].node => i = j
        /\ Kind = "insert" => \A i \in DOMAIN elements : elements[i].node # disp.ev.n
        /\ \A i \in DOMAIN elements : elements[i].node = disp.ev.n => i = disp.eid
    BY <1>1, <1>2 DEF Holders
  <2> QED  BY <1>1, <1>2, <2>2, <2>3 DEF Holders
<1>11. Accurate'
  BY <1>1, <1>2 DEF Accurate, On, Id
<1>12. \A i, n : Owned(i, n) => Owned(i, n)'
  BY <1>1, <1>2 DEF Owned
<1>13. Backends'
  BY <1>1, <1>2, <1>4, <1>12 DEF Backends
<1>14. Client'
  BY <1>1, <1>12, ClientUnaware
<1>15. Rooted'
  BY <1>1, <1>2 DEF Rooted
<1> QED  BY <1>5, <1>6, <1>7, <1>8, <1>9, <1>10, <1>11, <1>13, <1>14, <1>15 DEF IInv


\* The selector map keeps its type when a selector gets a drawn id.
LEMMA SelectorPut ==
  ASSUME IInv, NEW s \in {"a", "div"}, NEW i \in 1 .. MaxSteps, i < nextId, NEW f,
         DOMAIN f \subseteq {"a", "div"}, \A x \in DOMAIN f : f[x] \in 1 .. MaxSteps /\ f[x] < nextId,
         NEW g, g = Put(f, s, i)
  PROVE  DOMAIN g \subseteq {"a", "div"} /\ \A x \in DOMAIN g : g[x] \in 1 .. MaxSteps /\ g[x] < nextId
BY DEF Put

\* And when the selector is taken from an element that goes.
LEMMA SelectorDropped ==
  ASSUME IInv, NEW s, NEW i, NEW g, g = NoLonger(s, i)
  PROVE  DOMAIN g \subseteq {"a", "div"} /\ \A x \in DOMAIN g : g[x] \in 1 .. MaxSteps /\ g[x] < nextId
<1>1. /\ DOMAIN selectorMap \subseteq {"a", "div"}
      /\ \A x \in DOMAIN selectorMap : selectorMap[x] \in 1 .. MaxSteps /\ selectorMap[x] < nextId
  BY DEF IInv, TypeOK, IndexOK, Drawn
<1> QED  BY <1>1 DEF NoLonger, Without, Restrict

\* insert and update_in_place, lock by lock.
LEMMA WriteMapsIInv ==
  ASSUME IInv, InsertMaps \/ UpdateMaps
  PROVE  IInv'
<1>1. /\ TypeOK /\ Drawn /\ UNCHANGED <<others, nextId>>
      /\ disp \in [pc: {"idle", "diff", "read old", "put backend", "put selector", "put element",
                        "drop", "drop backend", "drop selector"} \cup Clearing,
                   ev: Event, eid: 0..MaxSteps, e: Element, old: Element]
      /\ disp.e \in Element
  BY DEF IInv, TypeOK, DispatcherOK, InsertMaps, UpdateMaps
<1>2. /\ disp.pc \in Inserting \cup {"read old"} /\ elements' = elements
      /\ \E p \in Inserting, o \in Element : disp' = [disp EXCEPT !.pc = p, !.old = o]
  <2>1. CASE InsertMaps
    <3>1. disp.old \in Element
      BY <1>1
    <3>2. \E p \in Inserting : disp' = [disp EXCEPT !.pc = p]
      BY <2>1 DEF InsertMaps, Inserting
    <3>3. PICK p \in Inserting : disp' = [disp EXCEPT !.pc = p]
      BY <3>2
    <3>4. disp' = [disp EXCEPT !.pc = p, !.old = disp.old]
      BY <1>1, <3>3
    <3> QED  BY <2>1, <3>1, <3>4 DEF InsertMaps, Inserting
  <2>2. CASE UpdateMaps
    <3>1. CASE disp.pc = "read old"
      <4>1. /\ disp' = [disp EXCEPT !.pc = "put selector",
                          !.old = IF disp.eid \in DOMAIN elements THEN elements[disp.eid] ELSE NoElement]
            /\ elements' = elements
        BY <2>2, <3>1 DEF UpdateMaps, index
      <4>2. (IF disp.eid \in DOMAIN elements THEN elements[disp.eid] ELSE NoElement) \in Element
        BY <1>1, Constants DEF TypeOK, IndexOK
      <4> QED  BY <3>1, <4>1, <4>2 DEF Inserting
    <3>2. CASE disp.pc # "read old"
      <4>1. /\ disp.pc \in Inserting /\ elements' = elements
            /\ \E p \in Inserting : disp' = [disp EXCEPT !.pc = p]
        BY <2>2, <3>2 DEF UpdateMaps, Inserting
      <4>2. PICK p \in Inserting : disp' = [disp EXCEPT !.pc = p]
        BY <4>1
      <4>3. disp' = [disp EXCEPT !.pc = p, !.old = disp.old] /\ disp.old \in Element
        BY <1>1, <4>2
      <4> QED  BY <4>1, <4>3
    <3> QED  BY <3>1, <3>2
  <2> QED  BY <2>1, <2>2
<1>3. PICK p \in Inserting, o \in Element : disp' = [disp EXCEPT !.pc = p, !.old = o]
  BY <1>2
<1>4. /\ disp'.ev = disp.ev /\ disp'.e = disp.e /\ disp'.eid = disp.eid /\ disp'.pc \in Inserting
      /\ DispatcherOK'
  BY <1>1, <1>3 DEF DispatcherOK, Inserting
<1>5. Putting /\ disp.eid \in 1 .. MaxSteps /\ disp.eid < nextId
  <2>1. Putting
    BY <1>2 DEF Putting
  <2>2. disp.eid \in 0 .. MaxSteps /\ disp.eid > 0 /\ disp.eid < nextId /\ MaxSteps \in Nat
    BY <1>1, <2>1, DispTyped DEF Drawn
  <2> QED  BY <2>1, <2>2
<1>6. backendMap' \in {backendMap, Put(backendMap, disp.e.node, disp.eid)}
  BY DEF InsertMaps, UpdateMaps, index
<1>7. /\ DOMAIN selectorMap' \subseteq {"a", "div"}
      /\ \A x \in DOMAIN selectorMap' : selectorMap'[x] \in 1 .. MaxSteps /\ selectorMap'[x] < nextId
  <2>1. /\ DOMAIN selectorMap \subseteq {"a", "div"}
        /\ \A x \in DOMAIN selectorMap : selectorMap[x] \in 1 .. MaxSteps /\ selectorMap[x] < nextId
    BY <1>1 DEF TypeOK, IndexOK, Drawn
  <2>2. Selector(disp.e) \in {"a", "div"}
    BY <1>1 DEF Selector, Element, DomIds
  <2>3. \/ selectorMap' = selectorMap
        \/ selectorMap' = Put(selectorMap, Selector(disp.e), disp.eid)
        \/ selectorMap' = Put(NoLonger(Selector(disp.old), disp.eid), Selector(disp.e), disp.eid)
    BY DEF InsertMaps, UpdateMaps, UpdateSelector, index
  <2>4. CASE selectorMap' = selectorMap
    BY <2>1, <2>4
  <2>5. CASE selectorMap' = Put(selectorMap, Selector(disp.e), disp.eid)
    BY <1>5, <2>1, <2>2, <2>5, SelectorPut
  <2>6. CASE selectorMap' = Put(NoLonger(Selector(disp.old), disp.eid), Selector(disp.e), disp.eid)
    <3> DEFINE f == NoLonger(Selector(disp.old), disp.eid)
    <3>1. DOMAIN f \subseteq {"a", "div"} /\ \A x \in DOMAIN f : f[x] \in 1 .. MaxSteps /\ f[x] < nextId
      BY SelectorDropped
    <3> HIDE DEF f
    <3> QED  BY <1>5, <2>2, <2>6, <3>1, SelectorPut DEF f
  <2> QED  BY <2>3, <2>4, <2>5, <2>6
<1> QED  BY <1>1, <1>2, <1>4, <1>5, <1>6, <1>7, MapsMove

-----------------------------------------------------------------------------
(* The maps shrink *)

\* Where the dispatcher may be while an element is there whose node is not.
Excused(i) ==
    \/ disp.pc \in {"diff", "clear elements"} /\ Kind = "document"
    \/ /\ disp.pc \in {"diff", "drop"} /\ Kind = "remove" /\ disp.ev.n = elements[i].node
       /\ disp.pc = "drop" => disp.eid = i

\* A step that takes from the maps, and adds nothing, of the dispatcher or of a
\* reconnect beside it.
LEMMA Shrinking ==
  ASSUME IInv, UNCHANGED <<told, versions, cl, left, nextId>>, DispatcherOK',
         rec' \in [pc: Clearing \cup {"idle"}, again: BOOLEAN],
         DOMAIN elements' \subseteq DOMAIN elements, \A i \in DOMAIN elements' : elements'[i] = elements[i],
         DOMAIN backendMap' \subseteq DOMAIN backendMap,
         \A x \in DOMAIN backendMap' : backendMap'[x] = backendMap[x],
         DOMAIN selectorMap' \subseteq DOMAIN selectorMap,
         \A x \in DOMAIN selectorMap' : selectorMap'[x] = selectorMap[x],
         Phases', disp'.eid < nextId,
         \/ disp' = disp
         \/ /\ \A i \in DOMAIN elements' : On(elements[i].node) \/ Excused(i)'
            /\ \/ disp' = Quiet /\ (Busy /\ Kind = "id" => \A i \in DOMAIN elements' : elements[i].node # disp.ev.n)
               \/ Busy /\ Busy' /\ ~Putting' /\ disp'.pc # "diff" /\ disp'.ev = disp.ev
  PROVE  IInv'
<1>1. /\ TypeOK /\ Phases /\ Drawn /\ Ages /\ Told /\ Holders /\ Rooted /\ Accurate /\ Backends /\ Client
      /\ UNCHANGED <<page, untold, dom, gen, ftv, cl, left, nextId>>
  BY DEF IInv, told, versions
<1>2. /\ Putting' => disp' = disp /\ Putting
      /\ (Busy' => Busy /\ disp'.ev = disp.ev /\ Kind' = Kind)
      /\ disp'.pc = "diff" => disp' = disp
  BY Constants DEF Busy, Putting, Kind, Inserting
<1>3. TypeOK'
  <2>1. IndexOK'
    BY <1>1 DEF TypeOK, IndexOK
  <2>2. ClientOK'
    BY <1>1 DEF TypeOK, ClientOK
  <2> QED  BY <1>1, <2>1, <2>2 DEF TypeOK
<1>4. Drawn'
  <2>1. /\ \A i \in DOMAIN elements' : i < nextId'
        /\ \A x \in DOMAIN backendMap' : backendMap'[x] < nextId'
        /\ \A x \in DOMAIN selectorMap' : selectorMap'[x] < nextId'
        /\ disp'.eid < nextId' /\ cl'.eid < nextId' /\ nextId' + left' <= MaxSteps + 1
    BY <1>1 DEF Drawn
  <2>2. Putting' => disp'.eid > 0
    BY <1>1, <1>2 DEF Drawn
  <2>3. (disp'.pc = "diff" /\ Kind' = "insert") => nextId' + left' <= MaxSteps
    BY <1>1, <1>2 DEF Drawn, Kind
  <2> QED  BY <2>1, <2>2, <2>3 DEF Drawn
<1>5. Ages'
  BY <1>1, <1>2 DEF Ages
<1>6. Told'
  BY <1>1, <1>2 DEF Told, On, Id
<1>7. Holders'
  <2>1. /\ \A i \in DOMAIN elements : elements[i].node \in Nodes
        /\ \A i, j \in DOMAIN elements : elements[i].node = elements[j].node => i = j
    BY <1>1 DEF Holders
  <2>2. /\ \A i \in DOMAIN elements' : elements'[i].node \in Nodes
        /\ \A i, j \in DOMAIN elements' : elements'[i].node = elements'[j].node => i = j
    BY <2>1
  <2>3. (Busy /\ Kind = "insert") => \A i \in DOMAIN elements : elements[i].node # disp.ev.n
    BY <1>1 DEF Holders
  <2>4. (Busy' /\ Kind' = "insert") => \A i \in DOMAIN elements' : elements'[i].node # disp'.ev.n
    BY <1>2, <2>3
  <2>5. Putting => \A i \in DOMAIN elements : elements[i].node = disp.ev.n => i = disp.eid
    BY <1>1 DEF Holders
  <2>6. Putting' => \A i \in DOMAIN elements' : elements'[i].node = disp'.ev.n => i = disp'.eid
    BY <1>2, <2>5
  <2>7. \A i \in DOMAIN elements : On(elements[i].node) \/ Excused(i)
    BY <1>1 DEF Holders, Excused
  <2>8. \A i \in DOMAIN elements' : On(elements[i].node) \/ Excused(i)'
    <3>1. CASE disp' = disp
      <4>1. \A i \in DOMAIN elements' : Excused(i) => Excused(i)'
        BY <3>1 DEF Excused, Kind
      <4> QED  BY <2>7, <4>1
    <3>2. CASE disp' # disp
      BY <3>2
    <3> QED  BY <3>1, <3>2
  <2>9. \A i \in DOMAIN elements' : On(elements[i].node) => On(elements[i].node)'
    BY <1>1 DEF On
  <2>10. \A i \in DOMAIN elements' : On(elements[i].node)' \/ Excused(i)'
    BY <2>8, <2>9
  <2> QED  BY <2>2, <2>4, <2>6, <2>10 DEF Holders, Excused
<1>8. Accurate'
  <2> SUFFICES ASSUME NEW i \in DOMAIN elements', On(elements[i].node)'
               PROVE  \/ Id(elements[i].node, elements[i].id)'
                      \/ Busy' /\ Kind' = "id" /\ disp'.ev.n = elements'[i].node
    BY DEF Accurate
  <2>1. /\ i \in DOMAIN elements /\ elements'[i] = elements[i] /\ On(elements[i].node)
        /\ Id(elements[i].node, elements[i].id) => Id(elements[i].node, elements[i].id)'
    BY <1>1 DEF On, Id
  <2>2. Id(elements[i].node, elements[i].id) \/ (Busy /\ Kind = "id" /\ disp.ev.n = elements[i].node)
    BY <1>1, <2>1 DEF Accurate
  <2>3. (Busy /\ Kind = "id" /\ disp.ev.n = elements[i].node) =>
          Busy' /\ Kind' = "id" /\ disp'.ev.n = elements'[i].node
    <3>1. CASE disp' = disp
      BY <3>1, <2>1 DEF Busy, Kind
    <3>2. CASE disp' = Quiet /\ (Busy /\ Kind = "id" => \A j \in DOMAIN elements' : elements[j].node # disp.ev.n)
      BY <3>2
    <3>3. CASE Busy /\ Busy' /\ ~Putting' /\ disp'.pc # "diff" /\ disp'.ev = disp.ev
      BY <3>3, <2>1, <1>2
    <3> QED  BY <3>1, <3>2, <3>3
  <2> QED  BY <2>1, <2>2, <2>3
<1>9. \A i, n : Owned(i, n) => Owned(i, n)'
  BY <1>1, <1>2 DEF Owned
<1>10. Backends'
  BY <1>1, <1>2, <1>9 DEF Backends
<1>11. Client'
  BY <1>1, <1>9, ClientUnaware
<1>12. Rooted'
  BY <1>1, <1>2 DEF Rooted
<1> QED  BY <1>3, <1>4, <1>5, <1>6, <1>7, <1>8, <1>10, <1>11, <1>12 DEF IInv

\* The locks of clear, in their order.
LEMMA ClearingOrder ==
  /\ Range(Clearings) = Clearing
  /\ Following("clear elements") = "clear backend" /\ Following("clear backend") = "clear selector"
  /\ Following("clear selector") = "idle"
<1>1. Clearings[1] = "clear elements" /\ Clearings[2] = "clear backend" /\ Clearings[3] = "clear selector"
  BY DEF Clearings
<1>2. 1 .. 3 = {1, 2, 3} /\ DOMAIN Clearings = 1 .. 3
  BY DEF Clearings
<1>3. Range(Clearings) = Clearing
  <2>1. DOMAIN Clearings = {1, 2, 3}
    BY <1>2
  <2>2. \A x : x \in Range(Clearings) <=> x \in {Clearings[1], Clearings[2], Clearings[3]}
    BY <2>1 DEF Range
  <2> QED  BY <1>1, <2>2 DEF Clearing
<1> DEFINE Q(pc, q) == \E i \in 1 .. 3 : Clearings[i] = pc /\ q = IF i = 3 THEN "idle" ELSE Clearings[i + 1]
<1>4. /\ \A q : Q("clear elements", q) <=> q = "clear backend"
      /\ \A q : Q("clear backend", q) <=> q = "clear selector"
      /\ \A q : Q("clear selector", q) <=> q = "idle"
  <2>1. \A pc, q : Q(pc, q) <=> ((Clearings[1] = pc /\ q = Clearings[2]) \/ (Clearings[2] = pc /\ q = Clearings[3])
                                  \/ (Clearings[3] = pc /\ q = "idle"))
    <3>1. 1 # 3 /\ 2 # 3 /\ 1 + 1 = 2 /\ 2 + 1 = 3
      OBVIOUS
    <3> QED  BY <1>2, <3>1
  <2> HIDE DEF Q
  <2> QED  BY <1>1, <2>1
<1>5. {"clear backend", "clear selector", "idle"} \subseteq Range(Clearings) \cup {"idle"}
  BY <1>3 DEF Clearing
<1> QED  BY <1>3, <1>4, <1>5 DEF Following

\* A cleared map is empty, the others are what they were.
LEMMA Cleared ==
  ASSUME NEW pc, ClearMaps(pc)
  PROVE  /\ DOMAIN elements' \subseteq DOMAIN elements /\ \A i \in DOMAIN elements' : elements'[i] = elements[i]
         /\ DOMAIN backendMap' \subseteq DOMAIN backendMap
         /\ \A x \in DOMAIN backendMap' : backendMap'[x] = backendMap[x]
         /\ DOMAIN selectorMap' \subseteq DOMAIN selectorMap
         /\ \A x \in DOMAIN selectorMap' : selectorMap'[x] = selectorMap[x]
         /\ pc = "clear elements" => DOMAIN elements' = {}
<1>1. DOMAIN Empty = {}
  BY DEF Empty
<1>2. elements' = elements \/ elements' = Empty
  BY DEF ClearMaps
<1>3. backendMap' = backendMap \/ backendMap' = Empty
  BY DEF ClearMaps
<1>4. selectorMap' = selectorMap \/ selectorMap' = Empty
  BY DEF ClearMaps
<1>5. pc = "clear elements" => elements' = Empty
  BY DEF ClearMaps
<1> QED  BY <1>1, <1>2, <1>3, <1>4, <1>5

\* invalidate_all on a reconnect's thread.
LEMMA InvalidateIInv ==
  ASSUME IInv, Invalidate
  PROVE  IInv'
<1>1. TypeOK /\ Phases /\ Drawn /\ rec \in [pc: Clearing \cup {"idle"}, again: BOOLEAN] /\ rec.pc \in Clearing
  BY DEF IInv, TypeOK, Invalidate
<1>2. Following(rec.pc) \in Clearing \cup {"idle"} /\ "clear elements" \in Clearing
  BY <1>1, ClearingOrder DEF Clearing
<1>3. rec' \in [pc: Clearing \cup {"idle"}, again: BOOLEAN]
  BY <1>1, <1>2 DEF Invalidate
<1>4. UNCHANGED <<told, versions, cl, left, nextId>> /\ disp' = disp /\ DispatcherOK'
  BY <1>1 DEF Invalidate, TypeOK, DispatcherOK
<1>5. Phases' /\ disp'.eid < nextId
  BY <1>1, <1>4 DEF Phases, Drawn, Busy, Kind, Putting
<1>6. ClearMaps(rec.pc)
  BY DEF Invalidate
<1> QED  BY <1>3, <1>4, <1>5, <1>6, Cleared, Shrinking

\* invalidate_all on the dispatcher.
LEMMA ClearIInv ==
  ASSUME IInv, Clear
  PROVE  IInv'
<1>1. /\ TypeOK /\ Phases /\ Drawn /\ Holders /\ UNCHANGED <<told, versions, rec, cl, left, nextId>>
      /\ disp \in [pc: {"idle", "diff", "read old", "put backend", "put selector", "put element",
                        "drop", "drop backend", "drop selector"} \cup Clearing,
                   ev: Event, eid: 0..MaxSteps, e: Element, old: Element]
      /\ rec' \in [pc: Clearing \cup {"idle"}, again: BOOLEAN]
  BY DEF IInv, TypeOK, DispatcherOK, Clear, others
<1>2. disp.pc \in Clearing /\ ClearMaps(disp.pc) /\ Kind = "document" /\ Busy
  BY <1>1, ClearingOrder DEF Clear, Phases, Clearing, Busy
<1>3. \A i \in DOMAIN elements' : On(elements[i].node)
  <2>1. CASE disp.pc = "clear elements"
    BY <1>2, <2>1, Cleared
  <2>2. CASE disp.pc # "clear elements"
    <3>1. disp.pc \notin {"diff", "clear elements", "drop"}
      BY <1>2, <2>2 DEF Clearing
    <3> QED  BY <1>1, <1>2, <3>1, Cleared DEF Holders
  <2> QED  BY <2>1, <2>2
<1>4. CASE Following(disp.pc) = "idle"
  <2>1. disp' = Quiet
    BY <1>4 DEF Clear
  <2>2. DispatcherOK' /\ Phases' /\ disp'.eid < nextId
    BY <1>1, <2>1, Idle
  <2> QED  BY <1>1, <1>2, <1>3, <2>1, <2>2, Cleared, Shrinking
<1>5. CASE Following(disp.pc) # "idle"
  <2>1. Following(disp.pc) \in {"clear backend", "clear selector"}
    BY <1>2, <1>5, ClearingOrder DEF Clearing
  <2>2. disp' = [disp EXCEPT !.pc = Following(disp.pc)]
    BY <1>5 DEF Clear
  <2>3. /\ disp'.pc \in {"clear backend", "clear selector"} /\ disp'.ev = disp.ev /\ disp'.eid = disp.eid
        /\ DispatcherOK'
    BY <1>1, <2>1, <2>2 DEF DispatcherOK, Clearing
  <2>4. Phases' /\ ~Putting' /\ Busy'
    BY <1>1, <1>2, <2>3 DEF Phases, Busy, Kind, Putting, Inserting, Clearing
  <2>5. disp'.eid < nextId
    BY <1>1, <2>3 DEF Drawn
  <2> QED  BY <1>1, <1>2, <1>3, <2>3, <2>4, <2>5, Cleared, Shrinking
<1> QED  BY <1>4, <1>5

\* remove_by_id: by then its node has gone from the page.
LEMMA RemoveByIdIInv ==
  ASSUME IInv, RemoveById
  PROVE  IInv'
<1>1. /\ TypeOK /\ Phases /\ Drawn /\ Holders /\ UNCHANGED <<told, versions, rec, cl, left>>
      /\ disp \in [pc: {"idle", "diff", "read old", "put backend", "put selector", "put element",
                        "drop", "drop backend", "drop selector"} \cup Clearing,
                   ev: Event, eid: 0..MaxSteps, e: Element, old: Element]
      /\ rec' \in [pc: Clearing \cup {"idle"}, again: BOOLEAN]
  BY DEF IInv, TypeOK, DispatcherOK, RemoveById, others
<1>2. disp.pc \in {"drop", "drop backend", "drop selector"} /\ Kind = "remove" /\ Busy
  BY <1>1 DEF RemoveById, Phases, Busy
<1>3. Dropped => disp' = Quiet /\ nextId' = nextId
  BY <1>2 DEF Dropped, Kind
<1>4. nextId' = nextId
  BY <1>3 DEF RemoveById
<1>5. disp' = Quiet \/ \E p \in {"drop backend", "drop selector"}, o \in Element : disp' = [disp EXCEPT !.pc = p, !.old = o]
  <2>1. CASE disp.pc = "drop" /\ disp.eid \in DOMAIN elements
    <3>1. elements[disp.eid] \in Element
      BY <1>1, <2>1 DEF TypeOK, IndexOK
    <3> QED  BY <2>1, <3>1 DEF RemoveById
  <2>2. CASE disp.pc = "drop" /\ disp.eid \notin DOMAIN elements
    BY <1>3, <2>2 DEF RemoveById
  <2>3. CASE disp.pc = "drop backend"
    <3>1. disp' = [disp EXCEPT !.pc = "drop selector", !.old = disp.old] /\ disp.old \in Element
      BY <1>1, <2>3 DEF RemoveById
    <3> QED  BY <3>1
  <2>4. CASE disp.pc = "drop selector"
    BY <1>3, <2>4 DEF RemoveById
  <2> QED  BY <1>2, <2>1, <2>2, <2>3, <2>4
<1>6. /\ DOMAIN elements' \subseteq DOMAIN elements /\ \A i \in DOMAIN elements' : elements'[i] = elements[i]
      /\ disp.pc = "drop" => disp.eid \notin DOMAIN elements'
  BY <1>2 DEF RemoveById, Without, Restrict
<1>7. DOMAIN backendMap' \subseteq DOMAIN backendMap /\ \A x \in DOMAIN backendMap' : backendMap'[x] = backendMap[x]
  BY <1>2 DEF RemoveById, Without, Restrict
<1>8. DOMAIN selectorMap' \subseteq DOMAIN selectorMap /\ \A x \in DOMAIN selectorMap' : selectorMap'[x] = selectorMap[x]
  BY <1>2 DEF RemoveById, NoLonger, Without, Restrict
<1>9. \A i \in DOMAIN elements' : On(elements[i].node)
  BY <1>1, <1>2, <1>6 DEF Holders
<1>10. CASE disp' = Quiet
  <2>1. DispatcherOK' /\ Phases' /\ disp'.eid < nextId
    BY <1>1, <1>10, Idle
  <2> QED  BY <1>1, <1>2, <1>4, <1>6, <1>7, <1>8, <1>9, <1>10, <2>1, Shrinking
<1>11. CASE \E p \in {"drop backend", "drop selector"}, o \in Element : disp' = [disp EXCEPT !.pc = p, !.old = o]
  <2>1. PICK p \in {"drop backend", "drop selector"}, o \in Element : disp' = [disp EXCEPT !.pc = p, !.old = o]
    BY <1>11
  <2>2. disp'.pc = p /\ disp'.ev = disp.ev /\ disp'.eid = disp.eid /\ DispatcherOK'
    BY <1>1, <2>1 DEF DispatcherOK
  <2>3. Phases' /\ ~Putting' /\ Busy' /\ disp'.pc # "diff"
    BY <1>2, <2>2 DEF Phases, Busy, Kind, Putting, Inserting, Clearing
  <2>4. disp'.eid < nextId
    BY <1>1, <2>2 DEF Drawn
  <2> QED  BY <1>1, <1>2, <1>4, <1>6, <1>7, <1>8, <1>9, <2>2, <2>3, <2>4, Shrinking
<1> QED  BY <1>5, <1>10, <1>11

-----------------------------------------------------------------------------
(* DomDiffEngine *)

\* handle_remove, full rebuilds, events about no element: nothing is written yet.
LEMMA DiffAwayIInv ==
  ASSUME IInv, UNCHANGED <<others, index, nextId>>, disp.pc = "diff",
         \/ /\ disp' = Quiet
            /\ Kind \in {"remove", "id", "disabled"} => HoldersOf(disp.ev.n) = {}
            /\ Kind # "document"
         \/ /\ Kind = "remove"
            /\ \E i \in HoldersOf(disp.ev.n) : Go("drop", i, NoElement)
         \/ Kind = "document" /\ disp' = [disp EXCEPT !.pc = "clear elements"]
  PROVE  IInv'
<1>1. /\ TypeOK /\ Phases /\ Drawn /\ Holders
      /\ UNCHANGED <<told, versions, rec, cl, left, nextId, elements, backendMap, selectorMap>>
      /\ disp \in [pc: {"idle", "diff", "read old", "put backend", "put selector", "put element",
                        "drop", "drop backend", "drop selector"} \cup Clearing,
                   ev: Event, eid: 0..MaxSteps, e: Element, old: Element]
      /\ rec' \in [pc: Clearing \cup {"idle"}, again: BOOLEAN] /\ Busy
  BY DEF IInv, TypeOK, DispatcherOK, others, index, Busy
<1>2. \A i \in DOMAIN elements : On(elements[i].node) \/ Kind = "document" \/ (Kind = "remove" /\ elements[i].node = disp.ev.n)
  BY <1>1 DEF Holders
<1>3. CASE disp' = Quiet
  <2>1. DispatcherOK' /\ Phases' /\ disp'.eid < nextId
    BY <1>1, <1>3, Idle
  <2>2. Kind \in {"remove", "id", "disabled"} => \A i \in DOMAIN elements : elements[i].node # disp.ev.n
    <3>1. CASE HoldersOf(disp.ev.n) = {}
      BY <3>1 DEF HoldersOf
    <3>2. CASE HoldersOf(disp.ev.n) # {}
      <4>1. disp'.pc = "idle"
        BY <1>1, <1>3, Idle
      <4>2. \A i : Go("drop", i, NoElement) => disp'.pc = "drop"
        BY <1>1 DEF Go
      <4>3. [disp EXCEPT !.pc = "clear elements"].pc = "clear elements"
        BY <1>1
      <4> QED  BY <3>2, <4>1, <4>2, <4>3
    <3> QED  BY <3>1, <3>2
  <2>3. Kind # "document"
    <3>1. disp'.pc = "idle"
      BY <1>1, <1>3, Idle
    <3>2. [disp EXCEPT !.pc = "clear elements"].pc = "clear elements"
      BY <1>1
    <3> QED  BY <3>1, <3>2
  <2>4. \A i \in DOMAIN elements : On(elements[i].node)
    BY <1>2, <2>2, <2>3
  <2> QED  BY <1>1, <1>3, <2>1, <2>2, <2>4, Shrinking
<1>4. CASE Kind = "remove" /\ \E i \in HoldersOf(disp.ev.n) : Go("drop", i, NoElement)
  <2>1. PICK i \in HoldersOf(disp.ev.n) : disp' = [disp EXCEPT !.pc = "drop", !.eid = i, !.e = NoElement]
    BY <1>4 DEF Go
  <2>2. i \in DOMAIN elements /\ elements[i].node = disp.ev.n /\ i \in 1 .. MaxSteps /\ i < nextId /\ i \in 0 .. MaxSteps
    <3>1. i \in DOMAIN elements /\ elements[i].node = disp.ev.n
      BY DEF HoldersOf
    <3>2. i \in 1 .. MaxSteps /\ i < nextId
      BY <1>1, <3>1 DEF TypeOK, IndexOK, Drawn
    <3>3. 1 .. MaxSteps \subseteq 0 .. MaxSteps
      BY Bound
    <3> QED  BY <3>1, <3>2, <3>3
  <2>3. disp'.pc = "drop" /\ disp'.ev = disp.ev /\ disp'.eid = i /\ DispatcherOK'
    BY <1>1, <2>1, <2>2, Constants DEF DispatcherOK
  <2>4. Phases' /\ ~Putting' /\ Busy' /\ Kind' = "remove"
    BY <1>4, <2>3 DEF Phases, Busy, Kind, Putting, Inserting, Clearing
  <2>5. \A j \in DOMAIN elements : elements[j].node = disp.ev.n => j = i
    BY <1>1, <2>2 DEF Holders
  <2>6. \A j \in DOMAIN elements' : On(elements[j].node) \/ Excused(j)'
    BY <1>1, <1>2, <1>4, <2>3, <2>4, <2>5 DEF Excused
  <2> QED  BY <1>1, <2>2, <2>3, <2>4, <2>6, Shrinking
<1>5. CASE Kind = "document" /\ disp' = [disp EXCEPT !.pc = "clear elements"]
  <2>1. disp'.pc = "clear elements" /\ disp'.ev = disp.ev /\ disp'.eid = disp.eid /\ DispatcherOK'
    BY <1>1, <1>5 DEF DispatcherOK, Clearing
  <2>2. Phases' /\ ~Putting' /\ Busy' /\ Kind' = "document"
    BY <1>5, <2>1 DEF Phases, Busy, Kind, Putting, Inserting, Clearing
  <2>3. disp'.eid < nextId
    BY <1>1, <2>1 DEF Drawn
  <2>4. \A j \in DOMAIN elements' : Excused(j)'
    BY <2>1, <2>2 DEF Excused
  <2> QED  BY <1>1, <2>1, <2>2, <2>3, <2>4, Shrinking
<1> QED  BY <1>3, <1>4, <1>5

\* The dispatcher turns to an element that it will write.
LEMMA Starting ==
  ASSUME IInv, UNCHANGED <<others, index>>, DispatcherOK', disp.pc = "diff", Kind \in {"insert", "id", "disabled"},
         disp'.ev = disp.ev, disp'.pc \in Inserting \cup {"read old"}, disp'.pc = "read old" => Kind # "insert",
         nextId' \in 1 .. MaxSteps + 1, nextId <= nextId', nextId' + left <= MaxSteps + 1,
         disp'.eid > 0, disp'.eid < nextId', disp'.e.dom = dom, disp'.e.node = disp.ev.n,
         Id(disp.ev.n, disp'.e.id),
         \A i \in DOMAIN elements : elements[i].node = disp.ev.n <=> i = disp'.eid,
         \A n : Owned(disp'.eid, n) => n = disp.ev.n,
         Kind # "insert" => disp'.eid \in DOMAIN elements
  PROVE  IInv'
<1>1. /\ TypeOK /\ Phases /\ Drawn /\ Ages /\ Told /\ Holders /\ Rooted /\ Accurate /\ Backends /\ Client
      /\ UNCHANGED <<page, untold, dom, gen, ftv, rec, cl, left, elements, backendMap, selectorMap>>
  BY DEF IInv, others, told, versions, index
<1>2. /\ Busy /\ Busy' /\ ~Putting /\ Putting' /\ Kind' = Kind /\ disp'.pc # "diff" /\ disp'.pc \notin Clearing
      /\ disp'.pc \notin {"drop", "drop backend", "drop selector"}
  BY DEF Busy, Putting, Kind, Inserting, Clearing
<1>3. nextId \in Nat /\ nextId' \in Nat /\ dom \in Nat /\ dom > 0 /\ MaxSteps \in Nat
  <2>1. dom > 0
    BY <1>1, <1>2 DEF Ages
  <2>2. nextId \in Nat /\ dom \in Nat
    BY <1>1, DispTyped
  <2> QED  BY <2>1, <2>2, Bound
<1>4. TypeOK'
  <2>1. IndexOK'
    BY <1>1 DEF TypeOK, IndexOK
  <2>2. ClientOK'
    BY <1>1 DEF TypeOK, ClientOK
  <2> QED  BY <1>1, <2>1, <2>2 DEF TypeOK
<1>5. Phases'
  BY <1>2 DEF Phases, Inserting
<1>6. \A i \in Nat : i < nextId => i < nextId'
  BY <1>3, Bound
<1>7. Drawn'
  <2>1. /\ \A i \in DOMAIN elements : i \in 1 .. MaxSteps
        /\ \A x \in DOMAIN backendMap : backendMap[x] \in 1 .. MaxSteps
        /\ \A x \in DOMAIN selectorMap : selectorMap[x] \in 1 .. MaxSteps
        /\ cl.eid \in 0 .. MaxSteps
    BY <1>1 DEF TypeOK, IndexOK, ClientOK
  <2>2. 0 .. MaxSteps \subseteq Nat /\ 1 .. MaxSteps \subseteq Nat
    BY Bound
  <2>3. /\ \A i \in DOMAIN elements : i < nextId
        /\ \A x \in DOMAIN backendMap : backendMap[x] < nextId
        /\ \A x \in DOMAIN selectorMap : selectorMap[x] < nextId
        /\ cl.eid < nextId
    BY <1>1 DEF Drawn
  <2>4. /\ \A i \in DOMAIN elements : i < nextId'
        /\ \A x \in DOMAIN backendMap : backendMap[x] < nextId'
        /\ \A x \in DOMAIN selectorMap : selectorMap[x] < nextId'
        /\ cl.eid < nextId'
    BY <1>6, <2>1, <2>2, <2>3
  <2> QED  BY <1>1, <1>2, <2>4 DEF Drawn
<1>14. Ages'
  <2>1. /\ \A i \in DOMAIN elements : elements[i].dom \in 1..dom /\ elements[i].dom < dom
        /\ \A i, j \in DOMAIN elements : i # j => elements[i].dom # dom \/ elements[j].dom # dom
    BY <1>1, <1>2 DEF Ages
  <2>2. disp'.e.dom \in 1 .. dom
    BY <1>3, Bound
  <2> QED  BY <1>1, <1>2, <1>3, <2>1, <2>2 DEF Ages
<1>8. Told'
  BY <1>1, <1>2 DEF Told, On, Id
<1>9. Holders'
  <2>1. \A i \in DOMAIN elements : On(elements[i].node)
    BY <1>1 DEF Holders
  <2>2. \A i \in DOMAIN elements : On(elements[i].node)'
    BY <1>1, <2>1 DEF On
  <2>3. /\ \A i \in DOMAIN elements : elements[i].node \in Nodes
        /\ \A i, j \in DOMAIN elements : elements[i].node = elements[j].node => i = j
        /\ Kind = "insert" => \A i \in DOMAIN elements : elements[i].node # disp.ev.n
    BY <1>1, <1>2 DEF Holders
  <2> QED  BY <1>1, <1>2, <2>2, <2>3 DEF Holders
<1>10. Accurate'
  BY <1>1, <1>2 DEF Accurate, On, Id
<1>11. \A i, n : Owned(i, n) => Owned(i, n)'
  <2> SUFFICES ASSUME NEW i, NEW n, Owned(i, n)
               PROVE  Owned(i, n)'
    OBVIOUS
  <2>1. i \in Nat /\ i < nextId'
    BY <1>6 DEF Owned
  <2>2. i \in DOMAIN elements' => elements'[i].node = n
    BY <1>1 DEF Owned
  <2>3. (Putting' /\ disp'.eid = i) => disp'.e.node = n
    OBVIOUS
  <2> QED  BY <2>1, <2>2, <2>3 DEF Owned
<1>12. Backends'
  <2>1. Owned(disp.eid, disp.e.node)'
    <3>1. disp'.eid \in Nat
      BY Bound DEF DispatcherOK
    <3> QED  BY <1>1, <3>1 DEF Owned
  <2>2. \A n \in DOMAIN backendMap : Owned(backendMap[n], n)'
    BY <1>1, <1>11 DEF Backends
  <2> QED  BY <1>1, <2>1, <2>2 DEF Backends
<1>13. Client'
  BY <1>1, <1>11, ClientUnaware
<1>15. Rooted'
  <2>1. Kind # "insert" => \E i \in DOMAIN elements : elements[i].node = disp.ev.n
    OBVIOUS
  <2>2. page[disp.ev.n].up = NoNode
    BY <1>1, <1>2, <2>1 DEF Rooted
  <2> QED  BY <1>1, <1>2, <2>2 DEF Rooted
<1> QED  BY <1>4, <1>5, <1>7, <1>8, <1>9, <1>10, <1>12, <1>13, <1>14, <1>15 DEF IInv

\* handle_insert: no element of the node is left, so nothing is removed first.
LEMMA DiffInsertIInv ==
  ASSUME IInv, DiffInsert
  PROVE  IInv'
<1>1. /\ TypeOK /\ Phases /\ Drawn /\ Ages /\ Told /\ Holders /\ Backends /\ UNCHANGED <<others, index>>
      /\ disp.pc = "diff" /\ Kind = "insert" /\ Busy
      /\ disp \in [pc: {"idle", "diff", "read old", "put backend", "put selector", "put element",
                        "drop", "drop backend", "drop selector"} \cup Clearing,
                   ev: Event, eid: 0..MaxSteps, e: Element, old: Element]
  BY DEF IInv, TypeOK, DispatcherOK, DiffInsert, Kind, Busy
<1>2. \A i \in DOMAIN elements : elements[i].node # disp.ev.n
  BY <1>1 DEF Holders
<1>3. ByBackend(disp.ev.n) = {}
  <2>1. \A n \in DOMAIN backendMap : Owned(backendMap[n], n)
    BY <1>1 DEF Backends
  <2>2. \A n \in DOMAIN backendMap : backendMap[n] \in DOMAIN elements => elements[backendMap[n]].node = n
    BY <2>1 DEF Owned
  <2> QED  BY <1>2, <2>2 DEF ByBackend
<1>4. /\ disp' = [disp EXCEPT !.pc = "put backend", !.eid = nextId, !.e = NewElement(disp.ev)]
      /\ nextId' = nextId + 1
  BY <1>3 DEF DiffInsert, Insert, Go
<1>5. /\ nextId \in 1 .. MaxSteps /\ nextId' \in 1 .. MaxSteps + 1 /\ nextId <= nextId'
      /\ nextId' + left <= MaxSteps + 1 /\ nextId \in 0 .. MaxSteps /\ nextId > 0 /\ nextId < nextId'
  <2>1. nextId + left <= MaxSteps
    BY <1>1 DEF Drawn
  <2>2. nextId \in 1 .. MaxSteps + 1 /\ left \in Nat /\ MaxSteps \in Nat
    BY <1>1, DispTyped
  <2> QED  BY <1>4, <2>1, <2>2
<1>6. disp.ev.v \in DomIds /\ Id(disp.ev.n, disp.ev.v) /\ disp.ev.n \in Nodes
  BY <1>1 DEF Told
<1>7. NewElement(disp.ev) \in Element
  BY <1>1, <1>6 DEF NewElement, Element, TypeOK
<1>8. /\ disp'.ev = disp.ev /\ disp'.pc = "put backend" /\ disp'.eid = nextId /\ disp'.e = NewElement(disp.ev)
      /\ DispatcherOK'
  BY <1>1, <1>4, <1>5, <1>7 DEF DispatcherOK
<1>9. disp'.e.dom = dom /\ disp'.e.node = disp.ev.n /\ Id(disp.ev.n, disp'.e.id)
  <2>1. /\ NewElement(disp.ev).dom = dom /\ NewElement(disp.ev).node = disp.ev.n
        /\ NewElement(disp.ev).id = disp.ev.v
    BY DEF NewElement
  <2> QED  BY <1>6, <1>8, <2>1
<1>10. \A n : ~Owned(nextId, n)
  <2>1. ~(nextId < nextId)
    BY <1>5
  <2> QED  BY <2>1 DEF Owned
<1>11. \A i \in DOMAIN elements : i # nextId
  <2>1. \A i \in DOMAIN elements : i < nextId
    BY <1>1 DEF Drawn
  <2>2. ~(nextId < nextId)
    BY <1>5
  <2> QED  BY <2>1, <2>2
<1>12. disp'.pc \in Inserting \cup {"read old"} /\ disp'.pc # "read old"
  BY <1>8 DEF Inserting
<1>13. \A i \in DOMAIN elements : elements[i].node = disp.ev.n <=> i = disp'.eid
  BY <1>2, <1>8, <1>11
<1>14. \A n : Owned(disp'.eid, n) => n = disp.ev.n
  BY <1>8, <1>10
<1>15. disp'.eid > 0 /\ disp'.eid < nextId'
  BY <1>5, <1>8
<1> QED  BY <1>1, <1>5, <1>8, <1>9, <1>12, <1>13, <1>14, <1>15, Starting

\* handle_attribute_modified of a node with an element.
LEMMA DiffChangeIInv ==
  ASSUME IInv, UNCHANGED <<others, index, nextId>>, disp.pc = "diff", Kind \in {"id", "disabled"},
         NEW i \in HoldersOf(disp.ev.n), Go("read old", i, Modified(elements[i], disp.ev))
  PROVE  IInv'
<1>1. /\ TypeOK /\ Drawn /\ Told /\ Holders /\ Accurate /\ Busy
      /\ disp \in [pc: {"idle", "diff", "read old", "put backend", "put selector", "put element",
                        "drop", "drop backend", "drop selector"} \cup Clearing,
                   ev: Event, eid: 0..MaxSteps, e: Element, old: Element]
  BY DEF IInv, TypeOK, DispatcherOK, Busy
<1>2. /\ i \in DOMAIN elements /\ elements[i].node = disp.ev.n /\ elements[i] \in Element
      /\ i \in 1 .. MaxSteps /\ i < nextId
  BY <1>1 DEF HoldersOf, TypeOK, IndexOK, Drawn
<1>3. Kind = "id" => disp.ev.v \in DomIds
  BY <1>1 DEF Told
<1> DEFINE m == Modified(elements[i], disp.ev)
<1>4. /\ m \in Element /\ m.dom = dom /\ m.node = disp.ev.n
      /\ m.id = IF Kind = "id" THEN disp.ev.v ELSE elements[i].id
  BY <1>1, <1>2, <1>3 DEF Modified, Element, TypeOK, Kind
<1>5. disp' = [disp EXCEPT !.pc = "read old", !.eid = i, !.e = m]
  BY DEF Go
<1> HIDE DEF m
<1>6. i \in 0 .. MaxSteps /\ i > 0
  BY <1>2, Bound
<1>7. disp'.ev = disp.ev /\ disp'.pc = "read old" /\ disp'.eid = i /\ disp'.e = m /\ DispatcherOK'
  BY <1>1, <1>4, <1>5, <1>6 DEF DispatcherOK
<1>8. Id(disp.ev.n, m.id)
  <2>1. CASE Kind = "id"
    BY <1>1, <1>4, <2>1 DEF Told
  <2>2. CASE Kind # "id"
    <3>1. On(disp.ev.n)
      BY <1>1 DEF Told
    <3> QED  BY <1>1, <1>2, <1>4, <2>2, <3>1 DEF Accurate
  <2> QED  BY <2>1, <2>2
<1>9. \A j \in DOMAIN elements : elements[j].node = disp.ev.n <=> j = i
  BY <1>1, <1>2 DEF Holders
<1>10. \A n : Owned(i, n) => n = disp.ev.n
  BY <1>2 DEF Owned
<1>11. nextId' \in 1 .. MaxSteps + 1 /\ nextId <= nextId' /\ nextId' + left <= MaxSteps + 1 /\ i < nextId'
  <2>1. nextId \in 1 .. MaxSteps + 1 /\ nextId + left <= MaxSteps + 1 /\ MaxSteps \in Nat
    BY <1>1, DispTyped DEF Drawn
  <2>2. nextId \in Nat /\ nextId <= nextId
    BY <1>1, DispTyped, Bound
  <2>3. nextId' = nextId
    OBVIOUS
  <2> QED  BY <1>2, <2>1, <2>2, <2>3
<1>12. disp'.pc \in Inserting \cup {"read old"}
  BY <1>7
<1> QED  BY <1>2, <1>4, <1>6, <1>7, <1>8, <1>9, <1>10, <1>11, <1>12, Starting

\* The diff engine's first look at an event.
LEMMA DiffIInv ==
  ASSUME IInv, Diff
  PROVE  IInv'
<1>1. CASE DiffInsert
  BY <1>1, DiffInsertIInv
<1>2. CASE DiffRemove
  <2>1. disp.pc = "diff" /\ Kind = "remove" /\ UNCHANGED <<others, index, nextId>>
    BY <1>2 DEF DiffRemove, Kind
  <2>2. CASE HoldersOf(disp.ev.n) = {}
    <3>1. disp' = Quiet
      BY <1>2, <2>2 DEF DiffRemove
    <3> QED  BY <2>1, <2>2, <3>1, DiffAwayIInv
  <2>3. CASE HoldersOf(disp.ev.n) # {}
    <3>1. \E i \in HoldersOf(disp.ev.n) : Go("drop", i, NoElement)
      BY <1>2, <2>3 DEF DiffRemove
    <3> QED  BY <2>1, <3>1, DiffAwayIInv
  <2> QED  BY <2>2, <2>3
<1>3. CASE DiffAttribute
  <2>1. disp.pc = "diff" /\ Kind \in {"id", "disabled"} /\ UNCHANGED <<others, index, nextId>>
    BY <1>3 DEF DiffAttribute, Kind
  <2>2. CASE HoldersOf(disp.ev.n) = {}
    <3>1. disp' = Quiet
      BY <1>3, <2>2 DEF DiffAttribute
    <3> QED  BY <2>1, <2>2, <3>1, DiffAwayIInv
  <2>3. CASE HoldersOf(disp.ev.n) # {}
    <3>1. PICK i \in HoldersOf(disp.ev.n) : Go("read old", i, Modified(elements[i], disp.ev))
      BY <1>3, <2>3 DEF DiffAttribute
    <3> QED  BY <2>1, <3>1, DiffChangeIInv
  <2> QED  BY <2>2, <2>3
<1>4. CASE DiffOther
  <2>1. disp.pc = "diff" /\ Kind \in {"document", "frame", "opaque"} /\ UNCHANGED <<others, index, nextId>>
    BY <1>4 DEF DiffOther, Kind
  <2>2. CASE Kind = "document"
    <3>1. disp' = [disp EXCEPT !.pc = "clear elements"]
      BY <1>4, <2>2 DEF DiffOther, Kind
    <3> QED  BY <2>1, <2>2, <3>1, DiffAwayIInv
  <2>3. CASE Kind # "document"
    <3>1. disp' = Quiet
      BY <1>4, <2>3 DEF DiffOther, Kind
    <3> QED  BY <2>1, <2>3, <3>1, DiffAwayIInv
  <2> QED  BY <2>2, <2>3
<1> QED  BY <1>1, <1>2, <1>3, <1>4 DEF Diff

\* The last lock of insert and update_in_place: the element is there, or there anew
\* if a reconnect's clear has taken it meanwhile.
LEMMA PutElementIInv ==
  ASSUME IInv, PutElement
  PROVE  IInv'
<1>1. /\ TypeOK /\ Phases /\ Drawn /\ Ages /\ Told /\ Holders /\ Rooted /\ Accurate /\ Backends /\ Client
      /\ UNCHANGED <<page, untold, dom, gen, ftv, rec, cl, left, nextId, backendMap, selectorMap>>
      /\ disp' = Quiet /\ disp.pc = "put element"
  BY DEF IInv, others, told, versions, PutElement
<1>2. Busy /\ Putting /\ Kind \in {"insert", "id", "disabled"} /\ Kind # "frame"
  BY <1>1 DEF Busy, Putting, Inserting, Phases
<1>3. DispatcherOK' /\ Phases' /\ disp'.eid < nextId /\ ~Busy' /\ ~Putting' /\ disp'.pc = "idle"
  BY <1>1, Idle
<1>4. /\ disp.e \in Element /\ disp.e.node \in Nodes /\ disp.e.node = disp.ev.n /\ On(disp.e.node)
      /\ Id(disp.e.node, disp.e.id) /\ disp.eid < nextId /\ disp.e.dom \in 1 .. dom
  BY <1>1, <1>2, DispTyped DEF Told, Drawn, Ages
<1>5. disp.eid \in 1 .. MaxSteps
  <2>1. disp.eid \in 0 .. MaxSteps /\ disp.eid > 0 /\ MaxSteps \in Nat
    BY <1>1, <1>2, DispTyped DEF Drawn
  <2> QED  BY <2>1
<1>6. /\ DOMAIN elements' = DOMAIN elements \cup {disp.eid} /\ elements'[disp.eid] = disp.e
      /\ \A i \in DOMAIN elements : i # disp.eid => elements'[i] = elements[i]
  <2> DEFINE b == Put(elements, disp.eid, disp.e)
  <2>1. /\ DOMAIN b = DOMAIN elements \cup {disp.eid} /\ b[disp.eid] = disp.e
        /\ \A i \in DOMAIN elements : i # disp.eid => b[i] = elements[i]
    BY DEF Put
  <2>2. elements' = b
    BY DEF PutElement
  <2> QED  BY <2>1, <2>2
<1>7. TypeOK'
  <2>1. IndexOK'
    BY <1>1, <1>4, <1>5, <1>6 DEF TypeOK, IndexOK
  <2>2. ClientOK'
    BY <1>1 DEF TypeOK, ClientOK
  <2> QED  BY <1>1, <1>3, <2>1, <2>2 DEF TypeOK
<1>8. Drawn'
  BY <1>1, <1>3, <1>4, <1>6 DEF Drawn
<1>9. Ages'
  <2>1. /\ \A i \in DOMAIN elements : elements[i].dom \in 1 .. dom
        /\ \A i \in DOMAIN elements : elements[i].dom < dom
    BY <1>1, <1>2 DEF Ages
  <2>2. \A i \in DOMAIN elements' : elements'[i].dom \in 1 .. dom /\ (i # disp.eid => elements'[i].dom < dom)
    BY <1>4, <1>6, <2>1
  <2>3. ~(dom < dom)
    <3>1. dom \in Nat
      BY <1>1, DispTyped
    <3> QED  BY <3>1, Bound
  <2>4. \A i, j \in DOMAIN elements' : i # j => elements'[i].dom # dom \/ elements'[j].dom # dom
    BY <2>2, <2>3
  <2> QED  BY <1>1, <1>3, <2>2, <2>4 DEF Ages
<1>10. Told'
  BY <1>1, <1>3 DEF Told
<1>11. Holders'
  <2>1. /\ \A i \in DOMAIN elements : elements[i].node \in Nodes
        /\ \A i, j \in DOMAIN elements : elements[i].node = elements[j].node => i = j
        /\ \A i \in DOMAIN elements : On(elements[i].node)
        /\ \A i \in DOMAIN elements : elements[i].node = disp.ev.n => i = disp.eid
    BY <1>1, <1>2 DEF Holders
  <2>2. \A i \in DOMAIN elements' : elements'[i].node \in Nodes /\ On(elements'[i].node)
    BY <1>4, <1>6, <2>1
  <2>3. \A i, j \in DOMAIN elements' : elements'[i].node = elements'[j].node => i = j
    BY <1>4, <1>6, <2>1
  <2>4. \A i \in DOMAIN elements' : On(elements[i].node)'
    BY <1>1, <2>2 DEF On
  <2> QED  BY <1>3, <2>2, <2>3, <2>4 DEF Holders
<1>12. Accurate'
  <2>1. \A i \in DOMAIN elements : i # disp.eid /\ On(elements[i].node) => Id(elements[i].node, elements[i].id)
    BY <1>1, <1>2 DEF Accurate, Holders
  <2>2. \A i \in DOMAIN elements' : On(elements[i].node)' => Id(elements[i].node, elements[i].id)'
    BY <1>1, <1>4, <1>6, <2>1 DEF On, Id
  <2> QED  BY <2>2 DEF Accurate
<1>13. \A i, n : Owned(i, n) => Owned(i, n)'
  BY <1>1, <1>2, <1>3, <1>6 DEF Owned
<1>14. Backends'
  BY <1>1, <1>3, <1>13 DEF Backends
<1>15. Client'
  BY <1>1, <1>13, ClientUnaware
<1>16. Rooted'
  BY <1>1, <1>2, <1>3, <1>4, <1>6 DEF Rooted
<1> QED  BY <1>3, <1>7, <1>8, <1>9, <1>10, <1>11, <1>12, <1>14, <1>15, <1>16 DEF IInv

-----------------------------------------------------------------------------
(* Steps beside the dispatcher *)

\* A step of the browser or of a reconnect that leaves the index alone.
LEMMA Beside ==
  ASSUME IInv, UNCHANGED <<index, nextId, disp, cl>>, page' \in [Nodes -> Node], untold' \subseteq Nodes,
         dom' \in Nat, dom <= dom', gen' \in Nat, ftv' \in Nat,
         rec' \in [pc: Clearing \cup {"idle"}, again: BOOLEAN], left' \in 0 .. MaxSteps, left' <= left,
         untold \subseteq untold', \A n \in untold' : page[n].st # "unborn",
         \A n \in Nodes : page'[n].st = page[n].st /\ (n \in untold' \/ page'[n].id = page[n].id),
         \A n \in Nodes : page'[n].up = page[n].up
  PROVE  IInv'
<1>1. /\ TypeOK /\ Phases /\ Drawn /\ Ages /\ Told /\ Holders /\ Rooted /\ Accurate /\ Backends /\ Client
      /\ UNCHANGED <<disp, cl, nextId, elements, backendMap, selectorMap>>
      /\ Busy' = Busy /\ Kind' = Kind /\ Putting' = Putting
  BY DEF IInv, index, Busy, Kind, Putting
<1>2. TypeOK'
  <2>1. IndexOK' /\ DispatcherOK' /\ ClientOK'
    BY <1>1 DEF TypeOK, IndexOK, DispatcherOK, ClientOK
  <2> QED  BY <2>1 DEF TypeOK
<1>3. Phases'
  BY <1>1 DEF Phases
<1>4. Drawn'
  <2>1. /\ nextId + left <= MaxSteps + 1
        /\ (disp.pc = "diff" /\ Kind = "insert") => nextId + left <= MaxSteps
    BY <1>1 DEF Drawn
  <2>2. nextId \in Nat /\ left \in Nat /\ left' \in Nat /\ MaxSteps \in Nat
    BY <1>1, DispTyped, Bound
  <2>3. /\ nextId + left' <= MaxSteps + 1
        /\ (disp.pc = "diff" /\ Kind = "insert") => nextId + left' <= MaxSteps
    <3>1. MaxSteps + 1 \in Nat
      BY <2>2
    <3> QED  BY <2>1, <2>2, <3>1, Fewer
  <2> QED  BY <1>1, <2>3 DEF Drawn
<1>5. Ages'
  <2>1. dom \in Nat
    BY <1>1, DispTyped
  <2>2. \A d \in 1 .. dom : d \in 1 .. dom' /\ (d < dom => d < dom') /\ (d # dom => d # dom')
    BY <2>1
  <2>3. dom > 0 => dom' > 0
    BY <2>1
  <2>4. /\ \A i \in DOMAIN elements : elements[i].dom \in 1..dom
        /\ Putting => disp.e.dom \in 1..dom
        /\ (Busy /\ Kind # "frame") => dom > 0 /\ \A i \in DOMAIN elements : elements[i].dom < dom
        /\ \A i, j \in DOMAIN elements : i # j => elements[i].dom # dom \/ elements[j].dom # dom
    BY <1>1 DEF Ages
  <2>5. /\ \A i \in DOMAIN elements : elements[i].dom \in 1..dom'
        /\ Putting => disp.e.dom \in 1..dom'
        /\ (Busy /\ Kind # "frame") => dom' > 0 /\ \A i \in DOMAIN elements : elements[i].dom < dom'
        /\ \A i, j \in DOMAIN elements : i # j => elements[i].dom # dom' \/ elements[j].dom # dom'
    BY <2>2, <2>3, <2>4
  <2> QED  BY <1>1, <2>5 DEF Ages
<1>6. \A n \in Nodes : (On(n)' <=> On(n)) /\ \A id : Id(n, id) => Id(n, id)'
  BY DEF On, Id
<1>7. Told'
  <2>1. \A n \in untold' : page'[n].st # "unborn"
    OBVIOUS
  <2>2. /\ (Busy /\ Kind \in {"insert", "id", "disabled"}) => disp.ev.n \in Nodes /\ On(disp.ev.n)'
        /\ (Busy /\ Kind \in {"insert", "id"}) => disp.ev.v \in DomIds /\ Id(disp.ev.n, disp.ev.v)'
        /\ (Busy /\ Kind = "remove") => disp.ev.n \in Nodes
    BY <1>1, <1>6 DEF Told
  <2>3. Putting => disp.ev.n \in Nodes
    BY <1>1 DEF Told, Phases, Putting, Inserting, Busy
  <2>4. Putting => disp.e.node = disp.ev.n /\ Id(disp.ev.n, disp.e.id)'
    BY <1>1, <1>6, <2>3 DEF Told
  <2> QED  BY <1>1, <2>1, <2>2, <2>4 DEF Told
<1>8. \A i \in DOMAIN elements : elements[i].node \in Nodes
  BY <1>1 DEF Holders
<1>9. Holders'
  BY <1>1, <1>6, <1>8 DEF Holders
<1>10. Accurate'
  BY <1>1, <1>6, <1>8 DEF Accurate
<1>11. \A i, n : Owned(i, n) => Owned(i, n)'
  BY <1>1 DEF Owned
<1>12. Backends'
  BY <1>1, <1>11 DEF Backends
<1>13. cl.pc # "idle" => Matches(cl.req, page)' \subseteq cl'.m \cup untold'
  <2>1. \A n \in Matches(cl.req, page)' : n \in untold' \/ n \in Matches(cl.req, page)
    BY <1>1 DEF Matches, Selector
  <2>2. cl.pc # "idle" => Matches(cl.req, page) \subseteq cl.m \cup untold
    BY <1>1 DEF Client
  <2> QED  BY <1>1, <2>1, <2>2
<1>14. Client'
  BY <1>1, <1>6, <1>11, <1>13, ClientKept
<1>15. Rooted'
  <2>1. (Putting \/ (Busy /\ Kind = "insert")) => disp.ev.n \in Nodes
    BY <1>1 DEF Told, Phases, Putting, Inserting, Busy
  <2> QED  BY <1>1, <1>8, <2>1 DEF Rooted
<1> QED  BY <1>2, <1>3, <1>4, <1>5, <1>7, <1>9, <1>10, <1>12, <1>14, <1>15 DEF IInv

\* A step takes one from the steps that are left.
LEMMA OneLess ==
  ASSUME TypeOK, left > 0, left' = left - 1
  PROVE  left' \in 0 .. MaxSteps /\ left' <= left /\ left \in Nat /\ left' \in Nat /\ left' + 1 = left
<1>1. left \in 0 .. MaxSteps /\ MaxSteps \in Nat
  BY Bound DEF TypeOK
<1> QED  BY <1>1

\* An attribute is removed and nobody is told.
LEMMA AttributeRemovedIInv ==
  ASSUME IInv, AttributeRemoved
  PROVE  IInv'
<1>1. /\ TypeOK /\ page \in [Nodes -> Node] /\ UNCHANGED <<versions, index, nextId, disp, rec, cl>> /\ Told
      /\ UNCHANGED <<dom, gen, ftv>> /\ left > 0 /\ left' = left - 1
  BY DEF IInv, TypeOK, AttributeRemoved, versions
<1>2. PICK n \in Nodes : On(n) /\ page' = [page EXCEPT ![n].id = ""] /\ untold' = untold \cup {n}
  BY DEF AttributeRemoved
<1>3. page[n] \in Node /\ "" \in DomIds /\ [page[n] EXCEPT !.id = ""] \in Node
  BY <1>1 DEF Node, DomIds
<1>4. page' \in [Nodes -> Node]
  BY <1>1, <1>2, <1>3
<1>5. /\ \A k \in Nodes : page'[k].st = page[k].st /\ (k \in untold' \/ page'[k].id = page[k].id)
      /\ \A k \in Nodes : page'[k].up = page[k].up
  BY <1>1, <1>2, <1>3 DEF Node
<1>6. /\ untold' \subseteq Nodes /\ untold \subseteq untold' /\ \A k \in untold' : page[k].st # "unborn"
  BY <1>1, <1>2 DEF TypeOK, Told, On
<1>7. left' \in 0 .. MaxSteps /\ left' <= left
  BY <1>1, OneLess
<1>8. dom' \in Nat /\ dom <= dom' /\ gen' \in Nat /\ ftv' \in Nat /\ rec' \in [pc: Clearing \cup {"idle"}, again: BOOLEAN]
  <2>1. dom \in Nat /\ gen \in Nat /\ ftv \in Nat /\ rec \in [pc: Clearing \cup {"idle"}, again: BOOLEAN]
    BY <1>1 DEF TypeOK
  <2>2. dom <= dom
    BY <2>1, Bound
  <2> QED  BY <1>1, <2>1, <2>2
<1> QED  BY <1>1, <1>4, <1>5, <1>6, <1>7, <1>8, Beside

\* on_reconnected: the versions move under the dispatcher and the client.
LEMMA OnReconnectedIInv ==
  ASSUME IInv, OnReconnected
  PROVE  IInv'
<1>1. /\ TypeOK /\ Told /\ UNCHANGED <<told, index, nextId, disp, cl>> /\ UNCHANGED <<page, untold>>
      /\ left > 0 /\ left' = left - 1
  BY DEF IInv, OnReconnected, told
<1>2. left' \in 0 .. MaxSteps /\ left' <= left
  BY <1>1, OneLess
<1>3. dom' \in Nat /\ dom <= dom' /\ gen' \in Nat /\ ftv' \in Nat
  <2>1. dom \in Nat /\ gen \in Nat /\ ftv \in Nat
    BY <1>1 DEF TypeOK
  <2>2. dom' = dom + 1 /\ gen' = gen + 1 /\ ftv' \in {ftv, ftv + 1}
    BY DEF OnReconnected
  <2> QED  BY <2>1, <2>2
<1>4. rec' \in [pc: Clearing \cup {"idle"}, again: BOOLEAN]
  BY DEF OnReconnected, Clearing
<1>5. /\ page' \in [Nodes -> Node] /\ untold' \subseteq Nodes /\ untold \subseteq untold'
      /\ \A n \in untold' : page[n].st # "unborn"
      /\ \A n \in Nodes : page'[n].st = page[n].st /\ page'[n].id = page[n].id /\ page'[n].up = page[n].up
  BY <1>1 DEF TypeOK, Told
<1> QED  BY <1>1, <1>2, <1>3, <1>4, <1>5, Beside

-----------------------------------------------------------------------------
(* The client: resolve and the recovery ladder *)

Calls == [pc: {"idle", "tier", "get", "verify", "precheck", "recover", "materialize"},
          how: {"ipc", "step", "recover"}, req: Request, k: 1..8, eid: 0..MaxSteps, e: Element,
          m: SUBSET Nodes, ladder: BOOLEAN,
          out: {"none", "ok", "failed", "ambiguous", "refused", "dropped", "recovered", "visual", "raw"}]

\* A step of the client changes what it holds, and takes a step from those left.
LEMMA ClientMoves ==
  ASSUME IInv, UNCHANGED clientOnly, cl' \in Calls, cl'.eid < nextId, left' \in 0 .. MaxSteps, left' <= left, Client'
  PROVE  IInv'
<1>1. /\ TypeOK /\ Phases /\ Drawn /\ Ages /\ Told /\ Holders /\ Rooted /\ Accurate /\ Backends
      /\ UNCHANGED <<page, untold, dom, gen, ftv, elements, backendMap, selectorMap, nextId, disp, rec>>
      /\ Busy' = Busy /\ Kind' = Kind /\ Putting' = Putting
  BY DEF IInv, clientOnly, told, versions, index, Busy, Kind, Putting
<1>2. TypeOK'
  <2>1. IndexOK' /\ DispatcherOK' /\ ClientOK'
    BY <1>1 DEF TypeOK, IndexOK, DispatcherOK, ClientOK, Calls
  <2> QED  BY <1>1, <2>1 DEF TypeOK
<1>3. Phases' /\ Ages'
  BY <1>1 DEF Phases, Ages
<1>4. Drawn'
  <2>1. /\ nextId + left <= MaxSteps + 1
        /\ (disp.pc = "diff" /\ Kind = "insert") => nextId + left <= MaxSteps
    BY <1>1 DEF Drawn
  <2>2. nextId \in Nat /\ left \in Nat /\ left' \in Nat /\ MaxSteps \in Nat
    BY <1>1, DispTyped, Bound
  <2>3. /\ nextId + left' <= MaxSteps + 1
        /\ (disp.pc = "diff" /\ Kind = "insert") => nextId + left' <= MaxSteps
    <3>1. MaxSteps + 1 \in Nat
      BY <2>2
    <3> QED  BY <2>1, <2>2, <3>1, Fewer
  <2> QED  BY <1>1, <2>3 DEF Drawn
<1>5. Told' /\ Holders' /\ Accurate'
  BY <1>1 DEF Told, Holders, Accurate, On, Id
<1>6. Backends'
  BY <1>1 DEF Backends, Owned
<1>7. Rooted'
  BY <1>1 DEF Rooted
<1> QED  BY <1>2, <1>3, <1>4, <1>5, <1>6, <1>7 DEF IInv

\* The client before a call, and at the end of one.
LEMMA Finished ==
  ASSUME IInv, UNCHANGED clientOnly, left' = left, NEW e \in Element,
         NEW out \in {"ok", "failed", "ambiguous", "refused", "dropped", "recovered", "visual", "raw"},
         Finish(out, e)
  PROVE  IInv'
<1>1. NoRequest \in Request
  BY Bound DEF NoRequest, Request, DomIds
<1>2. 0 \in 0 .. MaxSteps /\ 1 \in 1 .. 8
  BY Bound
<1>3. NoCall \in Calls
  BY <1>1, <1>2, Constants DEF NoCall, Calls
<1>4. cl' = [NoCall EXCEPT !.e = e, !.out = out]
  BY DEF Finish
<1>5. cl' \in Calls /\ cl'.pc = "idle" /\ cl'.how = "ipc" /\ cl'.eid = 0
  <2>1. NoCall.pc = "idle" /\ NoCall.how = "ipc" /\ NoCall.eid = 0
    BY DEF NoCall
  <2> QED  BY <1>3, <1>4, <2>1 DEF Calls
<1>6. Client'
  BY <1>5 DEF Client
<1>7. cl'.eid < nextId /\ left' \in 0 .. MaxSteps /\ left' <= left
  <2>1. TypeOK /\ left \in 0 .. MaxSteps /\ left \in Nat
    BY Bound DEF IInv, TypeOK
  <2>2. nextId \in 1 .. MaxSteps + 1 /\ MaxSteps \in Nat
    BY <2>1, DispTyped
  <2>3. 0 < nextId
    BY <2>2
  <2> QED  BY <1>5, <2>1, <2>3, Bound
<1> QED  BY <1>5, <1>6, <1>7, ClientMoves

\* The number of steps left, and an id that was drawn, are as before.
LEMMA Waits ==
  ASSUME IInv, left' = left
  PROVE  left' \in 0 .. MaxSteps /\ left' <= left /\ cl \in Calls /\ cl.eid < nextId /\ TypeOK /\ Client
<1>1. TypeOK /\ left \in 0 .. MaxSteps /\ left \in Nat /\ cl.eid < nextId /\ cl \in Calls /\ Client
  BY Bound DEF IInv, TypeOK, ClientOK, Calls, Drawn
<1> QED  BY <1>1, Bound

\* A fresh element is of a node of the page, and has its id.
LEMMA FreshElement ==
  ASSUME IInv, NEW i \in DOMAIN elements
  PROVE  /\ elements[i] \in Element /\ elements[i].dom <= dom /\ dom > 0 /\ i \in 1 .. MaxSteps
         /\ elements[i].dom = dom => /\ elements[i].node \in Nodes /\ On(elements[i].node) /\ ~Putting
                                     /\ Id(elements[i].node, elements[i].id)
<1>1. TypeOK /\ Phases /\ Ages /\ Holders /\ Accurate /\ dom \in Nat
  BY DEF IInv, TypeOK
<1>2. elements[i] \in Element /\ i \in 1 .. MaxSteps /\ elements[i].dom \in 1 .. dom
  BY <1>1 DEF TypeOK, IndexOK, Ages
<1>3. elements[i].dom <= dom /\ dom > 0
  BY <1>1, <1>2
<1>4. ASSUME elements[i].dom = dom
      PROVE  elements[i].node \in Nodes /\ On(elements[i].node) /\ ~Putting /\ Id(elements[i].node, elements[i].id)
  <2>1. ~(elements[i].dom < dom)
    BY <1>1, <1>4, Bound
  <2>2. ~Busy \/ Kind = "frame"
    BY <1>1, <2>1 DEF Ages
  <2>3. ~Putting
    BY <1>1, <2>2 DEF Phases, Putting, Busy, Inserting
  <2>4. elements[i].node \in Nodes /\ On(elements[i].node)
    BY <1>1, <2>2 DEF Holders, Busy
  <2>5. Id(elements[i].node, elements[i].id)
    BY <1>1, <2>2, <2>4 DEF Accurate
  <2> QED  BY <2>3, <2>4, <2>5
<1> QED  BY <1>2, <1>3, <1>4

\* A fresh element that fits the request is of a node that was asked for.
LEMMA FreshMatch ==
  ASSUME IInv, cl.pc # "idle", NEW i \in DOMAIN elements, elements[i].dom = dom,
         \/ cl.req.text \/ cl.req.backend = elements[i].node
         \/ cl.req.sel = Selector(elements[i])
         \/ cl.req.id # "" /\ cl.req.id = elements[i].id
  PROVE  elements[i].node \in cl.m \cup untold
<1> DEFINE n == elements[i].node
<1>1. n \in Nodes /\ page[n].st = "on" /\ (page[n].id = elements[i].id \/ n \in untold)
  BY FreshElement DEF On, Id
<1>2. Matches(cl.req, page) \subseteq cl.m \cup untold
  BY DEF IInv, Client
<1>3. CASE page[n].id = elements[i].id
  <2>1. Selector(page[n]) = Selector(elements[i])
    BY <1>3 DEF Selector
  <2>2. n \in Matches(cl.req, page)
    BY <1>1, <1>3, <2>1 DEF Matches
  <2> QED  BY <1>2, <2>2
<1> QED  BY <1>1, <1>3

\* The client goes on with its call: what it has to know of the element it holds.
LEMMA GoesOn ==
  ASSUME IInv, UNCHANGED clientOnly, left' = left, cl' \in Calls, cl.pc # "idle", cl'.pc # "idle",
         cl'.req = cl.req, cl'.how = cl.how, cl'.m = cl.m, cl'.out = cl.out, cl'.eid < nextId,
         cl'.pc \in {"tier", "get", "verify"} => cl'.k \in 1..6 /\ cl.how # "recover",
         cl'.pc \in {"precheck", "recover", "materialize"} => cl.how # "ipc",
         cl'.pc = "precheck" => cl.how = "step",
         cl'.pc = "get" => cl'.k \in {2, 3} /\ (cl'.k = 2 => cl.req.backend \in Nodes /\ Owned(cl'.eid, cl.req.backend)),
         cl'.pc \in {"verify", "precheck", "materialize"} => dom > 0,
         cl'.pc \in {"verify", "precheck"} =>
            /\ cl'.e.dom <= dom
            /\ cl'.e.dom = dom => cl'.e.node \in Nodes /\ On(cl'.e.node) /\ (Exempt(cl') \/ Wanted(cl'.e.node)),
         cl'.pc \in {"tier", "get", "verify", "recover"} => ~cl'.ladder,
         (cl'.pc = "materialize" /\ cl.how = "step" /\ cl'.k # 1) =>
            \E n \in Nodes : Owned(cl'.eid, n) /\ Wanted(n)
  PROVE  IInv'
<1>1. /\ Client /\ UNCHANGED <<page, untold, dom, elements, nextId, disp>>
  BY DEF IInv, clientOnly, told, versions, index
<1>2. left' \in 0 .. MaxSteps /\ left' <= left
  BY Waits
<1>3. cl'.out = "none" /\ Matches(cl.req, page)' \subseteq cl'.m \cup untold'
  BY <1>1 DEF Client, Matches
<1>4. cl'.how = "step" => cl'.req.sel # "" /\ cl'.req.backend = NoNode /\ cl'.req.id = "" /\ ~cl'.req.text
  BY <1>1 DEF Client
<1>5. \A n : Wanted(n)' <=> Wanted(n)
  BY <1>1 DEF Wanted
<1>6. \A n : Owned(cl'.eid, n) => Owned(cl.eid, n)'
  BY <1>1 DEF Owned, Putting
<1>7. cl'.pc \in {"verify", "precheck"} => Sound(cl.e)'
  BY <1>1, <1>5 DEF Sound, Exempt, On
<1>8. cl'.pc = "get" => cl'.k \in {2, 3} /\ (cl'.k = 2 => cl'.req.backend \in Nodes /\ Owned(cl.eid, cl.req.backend)')
  BY <1>6
<1>9. (cl'.pc = "materialize" /\ cl'.how = "step" /\ cl'.k # 1) =>
        \E n \in Nodes : Owned(cl.eid, n)' /\ Wanted(n)'
  BY <1>5, <1>6
<1>10. Client'
  BY <1>1, <1>3, <1>4, <1>7, <1>8, <1>9 DEF Client
<1> QED  BY <1>2, <1>10, ClientMoves

\* A call begins.
LEMMA CallIInv ==
  ASSUME IInv, NEW how \in {"ipc", "step", "recover"}, NEW req \in Requests, Call(how, req)
  PROVE  IInv'
<1>1. /\ TypeOK /\ UNCHANGED clientOnly /\ left > 0 /\ left' = left - 1 /\ cl = NoCall /\ cl \in Calls
      /\ UNCHANGED <<page, untold>> /\ Drawn
      /\ cl' = [cl EXCEPT !.pc = IF how = "recover" THEN "recover" ELSE "tier",
                          !.how = how, !.req = req, !.m = Matches(req, page)]
  BY DEF IInv, TypeOK, ClientOK, Calls, Call, clientOnly, told
<1>2. left' \in 0 .. MaxSteps /\ left' <= left
  BY <1>1, OneLess
<1>3. req \in Request /\ Matches(req, page) \subseteq Nodes
  BY RequestsAssumption DEF Matches
<1>4. /\ cl' \in Calls /\ cl'.how = how /\ cl'.req = req /\ cl'.m = Matches(req, page) /\ cl'.eid = cl.eid
      /\ cl'.out = cl.out /\ cl'.k = cl.k /\ ~cl'.ladder /\ cl'.pc = IF how = "recover" THEN "recover" ELSE "tier"
  <2> DEFINE p == IF how = "recover" THEN "recover" ELSE "tier"
             M == Matches(req, page)
  <2>1. p \in {"recover", "tier"} /\ M \in SUBSET Nodes /\ 1 \in 1 .. 8 /\ 0 \in 0 .. MaxSteps
    BY <1>3, Bound
  <2>2. /\ NoCall.k = 1 /\ NoCall.eid = 0 /\ NoCall.out = "none"
        /\ cl' = [pc |-> p, how |-> how, req |-> req, k |-> 1, eid |-> 0, e |-> NoElement,
                  m |-> M, ladder |-> FALSE, out |-> "none"]
    BY <1>1 DEF NoCall
  <2> HIDE DEF p, M
  <2>3. cl' \in Calls
    <3>1. req \in Request /\ NoElement \in Element
      BY <1>3, Constants
    <3> QED  BY <2>1, <2>2, <3>1 DEF Calls
  <2>4. /\ cl'.how = how /\ cl'.req = req /\ cl'.m = M /\ cl'.eid = 0
        /\ cl'.out = "none" /\ cl'.k = 1 /\ ~cl'.ladder /\ cl'.pc = p
    BY <2>2
  <2>5. /\ cl' \in Calls /\ cl'.how = how /\ cl'.req = req /\ cl'.m = M /\ cl'.eid = cl.eid
        /\ cl'.out = cl.out /\ cl'.k = cl.k /\ ~cl'.ladder /\ cl'.pc = p
    BY <1>1, <2>2, <2>3, <2>4
  <2> QED  BY <2>5 DEF p, M
<1>5. cl.out = "none" /\ cl.k = 1 /\ cl.eid < nextId
  BY <1>1 DEF NoCall, Drawn
<1>6. how = "step" => req.sel # "" /\ req.backend = NoNode /\ req.id = "" /\ ~req.text
  BY DEF Call
<1>7. Matches(req, page)' = Matches(req, page)
  BY <1>1 DEF Matches
<1>8. Matches(cl.req, page)' \subseteq cl'.m \cup untold'
  BY <1>4, <1>7 DEF Matches
<1>9. 1 \in 1 .. 6
  OBVIOUS
<1>10. Client'
  BY <1>4, <1>5, <1>6, <1>8, <1>9 DEF Client
<1>11. cl'.eid < nextId
  BY <1>4, <1>5
<1> QED  BY <1>1, <1>2, <1>4, <1>10, <1>11, ClientMoves

\* The tiers of resolve and of recover, by number.
LEMMA TierNames ==
  /\ Tiers[1] = "ref" /\ Tiers[2] = "backend" /\ Tiers[3] = "selector" /\ Tiers[4] = "scan" /\ Tiers[5] = "id"
  /\ Tiers[6] = "text" /\ Len(Tiers) = 6
  /\ RecoveryTiers[1] = "ref" /\ RecoveryTiers[2] = "backend" /\ RecoveryTiers[3] = "selector"
  /\ RecoveryTiers[4] = "id" /\ RecoveryTiers[5] = "role" /\ RecoveryTiers[6] = "text"
  /\ RecoveryTiers[7] = "fresh" /\ RecoveryTiers[8] = "shadow" /\ Len(RecoveryTiers) = 8
  /\ 1 .. 6 = {1, 2, 3, 4, 5, 6} /\ 1 .. 8 = {1, 2, 3, 4, 5, 6, 7, 8}
BY DEF Tiers, RecoveryTiers

\* A tier has found nothing.
LEMMA NextTierIInv ==
  ASSUME IInv, UNCHANGED clientOnly, left' = left, cl.pc \in {"tier", "get"}, NextTier
  PROVE  IInv'
<1>1. cl \in Calls /\ cl.eid < nextId /\ cl.k \in 1 .. 6 /\ cl.how # "recover" /\ ~cl.ladder
  BY Waits DEF Client
<1>2. CASE cl.k < Len(Tiers)
  <2>1. cl' = [cl EXCEPT !.pc = "tier", !.k = cl.k + 1]
    BY <1>2 DEF NextTier
  <2>2. cl.k + 1 \in 1 .. 6 /\ cl.k + 1 \in 1 .. 8
    BY <1>1, <1>2, TierNames
  <2>3. /\ cl' \in Calls /\ cl'.pc = "tier" /\ cl'.k = cl.k + 1 /\ cl'.req = cl.req /\ cl'.how = cl.how
        /\ cl'.m = cl.m /\ cl'.out = cl.out /\ cl'.eid = cl.eid /\ cl'.ladder = cl.ladder
    BY <1>1, <2>1, <2>2 DEF Calls
  <2> QED  BY <1>1, <2>2, <2>3, GoesOn
<1>3. CASE ~(cl.k < Len(Tiers)) /\ cl.how = "step"
  <2>1. cl' = [cl EXCEPT !.pc = "recover", !.k = 1]
    BY <1>3 DEF NextTier
  <2>2. 1 \in 1 .. 8
    OBVIOUS
  <2>3. /\ cl' \in Calls /\ cl'.pc = "recover" /\ cl'.req = cl.req /\ cl'.how = cl.how
        /\ cl'.m = cl.m /\ cl'.out = cl.out /\ cl'.eid = cl.eid /\ cl'.ladder = cl.ladder
    BY <1>1, <2>1, <2>2 DEF Calls
  <2> QED  BY <1>1, <1>3, <2>3, GoesOn
<1>4. CASE ~(cl.k < Len(Tiers)) /\ cl.how # "step"
  <2>1. Finish("failed", NoElement)
    BY <1>4 DEF NextTier
  <2> QED  BY <2>1, Constants, Finished
<1> QED  BY <1>2, <1>3, <1>4

\* One tier of resolve.
LEMMA TierIInv ==
  ASSUME IInv, Tier
  PROVE  IInv'
<1>1. /\ cl.pc = "tier" /\ UNCHANGED clientOnly /\ left' = left
      /\ cl \in Calls /\ cl.eid < nextId /\ cl.k \in 1 .. 6 /\ cl.how # "recover" /\ ~cl.ladder /\ TypeOK
  BY Waits DEF Tier, Client
<1> DEFINE found == Found(Tiers[cl.k], cl.req)
           ids == Mapped(Tiers[cl.k], cl.req)
<1>2. \/ \E i \in ids : cl' = [cl EXCEPT !.pc = "get", !.eid = i]
      \/ NextTier
      \/ Finish("ambiguous", NoElement)
      \/ \E e \in found : cl' = [cl EXCEPT !.pc = "verify", !.e = e]
  BY DEF Tier
<1>3. CASE \E i \in ids : cl' = [cl EXCEPT !.pc = "get", !.eid = i]
  <2>1. PICK i \in ids : cl' = [cl EXCEPT !.pc = "get", !.eid = i]
    BY <1>3
  <2>2. \/ /\ Tiers[cl.k] = "backend" /\ cl.req.backend \in DOMAIN backendMap /\ i = backendMap[cl.req.backend]
        \/ /\ Tiers[cl.k] = "selector" /\ cl.req.sel \in DOMAIN selectorMap /\ i = selectorMap[cl.req.sel]
    BY DEF Mapped
  <2>3. cl.k \in {2, 3} /\ (Tiers[cl.k] = "backend" => cl.k = 2) /\ (Tiers[cl.k] = "selector" => cl.k = 3)
    BY <1>1, <2>2, TierNames
  <2>4. i \in 1 .. MaxSteps /\ i < nextId
    BY <1>1, <2>2 DEF IInv, TypeOK, IndexOK, Drawn
  <2>5. cl.k = 2 => cl.req.backend \in Nodes /\ Owned(i, cl.req.backend)
    <3>1. \A n \in DOMAIN backendMap : Owned(backendMap[n], n) /\ n \in Nodes
      BY <1>1 DEF IInv, Backends, TypeOK, IndexOK
    <3>2. cl.k = 2 => cl.req.backend \in DOMAIN backendMap /\ i = backendMap[cl.req.backend]
      BY <2>2, <2>3
    <3> QED  BY <3>1, <3>2
  <2>6. i \in 0 .. MaxSteps
    BY <2>4, Bound
  <2>7. /\ cl' \in Calls /\ cl'.pc = "get" /\ cl'.eid = i /\ cl'.k = cl.k /\ cl'.req = cl.req /\ cl'.how = cl.how
        /\ cl'.m = cl.m /\ cl'.out = cl.out /\ cl'.ladder = cl.ladder
    BY <1>1, <2>1, <2>6 DEF Calls
  <2>8. cl'.eid < nextId
    BY <2>4, <2>7
  <2> QED  BY <1>1, <2>3, <2>5, <2>7, <2>8, GoesOn
<1>4. CASE NextTier
  BY <1>1, <1>4, NextTierIInv
<1>5. CASE Finish("ambiguous", NoElement)
  BY <1>1, <1>5, Constants, Finished
<1>6. CASE \E e \in found : cl' = [cl EXCEPT !.pc = "verify", !.e = e]
  <2>1. PICK e \in found : cl' = [cl EXCEPT !.pc = "verify", !.e = e]
    BY <1>6
  <2>2. PICK i \in DOMAIN elements : e = elements[i]
    BY DEF Found, Elements, Range
  <2>3. e \in Element /\ e.dom <= dom /\ dom > 0
    BY <2>2, FreshElement
  <2>4. e.dom = dom => e.node \in Nodes /\ On(e.node)
    BY <2>2, FreshElement
  <2>5. (e.dom = dom /\ cl.k # 1) => Wanted(e.node)
    <3>1. Tiers[cl.k] = "ref" => cl.k = 1
      BY <1>1, TierNames
    <3>2. cl.k # 1 => (cl.req.text \/ cl.req.sel = Selector(e) \/ (cl.req.id # "" /\ cl.req.id = e.id))
      BY <3>1 DEF Found
    <3>3. (e.dom = dom /\ cl.k # 1) => e.node \in cl.m \cup untold
      BY <1>1, <2>2, <3>2, FreshMatch
    <3> QED  BY <3>3 DEF Wanted
  <2>6. /\ cl' \in Calls /\ cl'.pc = "verify" /\ cl'.e = e /\ cl'.k = cl.k /\ cl'.req = cl.req /\ cl'.how = cl.how
        /\ cl'.m = cl.m /\ cl'.out = cl.out /\ cl'.eid = cl.eid /\ cl'.ladder = cl.ladder
    BY <1>1, <2>1, <2>3 DEF Calls
  <2> QED  BY <1>1, <2>3, <2>4, <2>5, <2>6, GoesOn DEF Exempt
<1> QED  BY <1>2, <1>3, <1>4, <1>5, <1>6

\* The element under the id that a map gave.
LEMMA GetIInv ==
  ASSUME IInv, Get
  PROVE  IInv'
<1>1. /\ cl.pc = "get" /\ UNCHANGED clientOnly /\ left' = left
      /\ cl \in Calls /\ cl.eid < nextId /\ cl.k \in 1 .. 6 /\ cl.how # "recover" /\ ~cl.ladder
      /\ cl.k \in {2, 3} /\ (cl.k = 2 => cl.req.backend \in Nodes /\ Owned(cl.eid, cl.req.backend))
  BY Waits DEF Get, Client
<1>2. CASE cl.eid \notin DOMAIN elements
  <2>1. NextTier
    BY <1>2 DEF Get
  <2> QED  BY <1>1, <2>1, NextTierIInv
<1>3. CASE cl.eid \in DOMAIN elements
  <2> DEFINE e == elements[cl.eid]
  <2>1. cl' = [cl EXCEPT !.pc = "verify", !.e = e]
    BY <1>3 DEF Get
  <2>2. e \in Element /\ e.dom <= dom /\ dom > 0
    BY <1>3, FreshElement
  <2>3. e.dom = dom => e.node \in Nodes /\ On(e.node)
    BY <1>3, FreshElement
  <2>4. (e.dom = dom /\ cl.k # 3) => Wanted(e.node)
    <3>1. cl.k # 3 => cl.req.backend = e.node
      BY <1>1, <1>3 DEF Owned
    <3>2. (e.dom = dom /\ cl.k # 3) => e.node \in cl.m \cup untold
      BY <1>1, <1>3, <3>1, FreshMatch
    <3> QED  BY <3>2 DEF Wanted
  <2> HIDE DEF e
  <2>5. /\ cl' \in Calls /\ cl'.pc = "verify" /\ cl'.e = e /\ cl'.k = cl.k /\ cl'.req = cl.req /\ cl'.how = cl.how
        /\ cl'.m = cl.m /\ cl'.out = cl.out /\ cl'.eid = cl.eid /\ cl'.ladder = cl.ladder
    BY <1>1, <2>1, <2>2 DEF Calls
  <2> QED  BY <1>1, <2>2, <2>3, <2>4, <2>5, GoesOn DEF Exempt
<1> QED  BY <1>2, <1>3

\* verify_snapshot and check_interactable.
LEMMA VerifyIInv ==
  ASSUME IInv, Verify
  PROVE  IInv'
<1>1. /\ cl.pc \in {"verify", "precheck"} /\ UNCHANGED clientOnly /\ left' = left
      /\ cl \in Calls /\ cl.eid < nextId /\ cl.e \in Element /\ dom > 0
      /\ cl.e.dom <= dom
      /\ cl.e.dom = dom => cl.e.node \in Nodes /\ On(cl.e.node) /\ (Exempt(cl) \/ Wanted(cl.e.node))
  BY Waits DEF Verify, Client, Calls, Sound
<1>2. \/ Finish("refused", NoElement)
      \/ cl.how = "step" /\ cl' = [cl EXCEPT !.pc = "precheck"]
      \/ Finish("ok", cl.e)
  BY DEF Verify
<1>3. CASE Finish("refused", NoElement)
  BY <1>1, <1>3, Constants, Finished
<1>4. CASE cl.how = "step" /\ cl' = [cl EXCEPT !.pc = "precheck"]
  <2>1. /\ cl' \in Calls /\ cl'.pc = "precheck" /\ cl'.e = cl.e /\ cl'.k = cl.k /\ cl'.req = cl.req /\ cl'.how = cl.how
        /\ cl'.m = cl.m /\ cl'.out = cl.out /\ cl'.eid = cl.eid /\ cl'.ladder = cl.ladder
    BY <1>1, <1>4 DEF Calls
  <2> QED  BY <1>1, <1>4, <2>1, GoesOn DEF Exempt
<1>5. CASE Finish("ok", cl.e)
  BY <1>1, <1>5, Finished
<1> QED  BY <1>2, <1>3, <1>4, <1>5

\* Which live elements a tier of the ladder finds for a step of a plan, which has
\* nothing but a selector: those of the ref, and of the selector.
LEMMA StepRecovers ==
  ASSUME IInv, cl.pc = "recover", cl.how = "step", NEW e \in Recovers(RecoveryTiers[cl.k], cl.req), cl.k # 1
  PROVE  cl.req.sel = Selector(e)
<1>1. /\ cl.req.backend = NoNode /\ cl.req.id = "" /\ ~cl.req.text /\ cl.k \in 1 .. 8
      /\ DOMAIN backendMap \subseteq Nodes
  BY DEF IInv, Client, TypeOK, ClientOK, IndexOK
<1>2. Found("id", cl.req) = {} /\ Found("text", cl.req) = {}
  BY <1>1 DEF Found
<1>3. DomIdName(cl.req) = {} /\ AxRoleName(cl.req) = {} /\ SemanticText(cl.req) = {} /\ FreshSearch(cl.req) = {}
  BY <1>1, <1>2 DEF DomIdName, AxRoleName, SemanticText, FreshSearch
<1>4. Mapped("backend", cl.req) = {}
  <2>1. DOMAIN backendMap \cap {cl.req.backend} = {}
    BY <1>1, Constants
  <2> QED  BY <2>1 DEF Mapped
<1>5. CachedBackend(cl.req) = {}
  BY <1>4 DEF CachedBackend
<1>6. cl.k \in {3, 8}
  <2>1. cl.k \notin {2, 4, 5, 6, 7}
    BY <1>3, <1>5, TierNames DEF Recovers
  <2> QED  BY <1>1, <2>1, TierNames
<1>7. e \in CssSelector(cl.req) \/ e \in FrameShadow(cl.req)
  BY <1>6, TierNames DEF Recovers
<1>8. e \in CssSelector(cl.req)
  BY <1>3, <1>7 DEF FrameShadow
<1> QED  BY <1>8 DEF CssSelector, Found

\* Every tier of the ladder finds live elements.
LEMMA RecoversLive ==
  ASSUME NEW k \in 1 .. 8, NEW req, NEW e \in Recovers(RecoveryTiers[k], req)
  PROVE  e \in Live
<1>1. /\ ExistingRef(req) \subseteq Live /\ CachedBackend(req) \subseteq Live /\ CssSelector(req) \subseteq Live
      /\ DomIdName(req) \subseteq Live /\ AxRoleName(req) \subseteq Live /\ SemanticText(req) \subseteq Live
      /\ FreshSearch(req) \subseteq Live
  BY DEF ExistingRef, CachedBackend, CssSelector, DomIdName, AxRoleName, SemanticText, FreshSearch
<1>2. FrameShadow(req) \subseteq Live
  BY <1>1 DEF FrameShadow
<1>3. k \in {1, 2, 3, 4, 5, 6, 7, 8}
  BY TierNames
<1> QED  BY <1>1, <1>2, <1>3, TierNames DEF Recovers

\* One tier of the recovery ladder.
LEMMA RecoverIInv ==
  ASSUME IInv, Recover
  PROVE  IInv'
<1>1. /\ cl.pc = "recover" /\ UNCHANGED clientOnly /\ left' = left
      /\ cl \in Calls /\ cl.eid < nextId /\ cl.k \in 1 .. 8 /\ cl.how # "ipc" /\ ~cl.ladder
  BY Waits DEF Recover, Client, Calls
<1> DEFINE found == Recovers(RecoveryTiers[cl.k], cl.req)
<1>2. \/ \E e \in found : cl' = [cl EXCEPT !.pc = "materialize", !.eid = IdOf(e), !.ladder = TRUE]
      \/ Finish("dropped", NoElement)
      \/ cl.k < Len(RecoveryTiers) /\ cl' = [cl EXCEPT !.k = cl.k + 1]
      \/ Finish(Vision(cl.req), NoElement)
  BY DEF Recover
<1>3. CASE \E e \in found : cl' = [cl EXCEPT !.pc = "materialize", !.eid = IdOf(e), !.ladder = TRUE]
  <2>1. PICK e \in found : cl' = [cl EXCEPT !.pc = "materialize", !.eid = IdOf(e), !.ladder = TRUE]
    BY <1>3
  <2>2. e \in Live
    BY <1>1, RecoversLive
  <2>3. e.dom = dom /\ \E j \in DOMAIN elements : elements[j] = e
    BY <2>2 DEF Live, IsStale, Elements, Range
  <2>4. PICK i : i = IdOf(e) /\ i \in DOMAIN elements /\ elements[i] = e
    BY <2>3 DEF IdOf
  <2>5. i \in 1 .. MaxSteps /\ dom > 0 /\ e.node \in Nodes /\ ~Putting
    BY <2>3, <2>4, FreshElement
  <2>6. i < nextId /\ i \in 0 .. MaxSteps /\ i \in Nat
    BY <2>4, <2>5, Bound DEF IInv, Drawn
  <2>7. Owned(i, e.node)
    BY <2>4, <2>5, <2>6 DEF Owned
  <2>8. (cl.how = "step" /\ cl.k # 1) => Wanted(e.node)
    <3> SUFFICES ASSUME cl.how = "step", cl.k # 1
                 PROVE  Wanted(e.node)
      OBVIOUS
    <3>1. cl.req.sel = Selector(e)
      BY <1>1, StepRecovers
    <3>2. e.node \in cl.m \cup untold
      BY <1>1, <2>3, <2>4, <3>1, FreshMatch
    <3> QED  BY <3>2 DEF Wanted
  <2>9. /\ cl' \in Calls /\ cl'.pc = "materialize" /\ cl'.eid = i /\ cl'.k = cl.k /\ cl'.req = cl.req
        /\ cl'.how = cl.how /\ cl'.m = cl.m /\ cl'.out = cl.out
    <3>1. cl' = [cl EXCEPT !.pc = "materialize", !.eid = i, !.ladder = TRUE]
      BY <2>1, <2>4
    <3> QED  BY <1>1, <2>6, <3>1 DEF Calls
  <2>10. cl'.eid < nextId /\ Owned(cl'.eid, e.node)
    BY <2>6, <2>7, <2>9
  <2> QED  BY <1>1, <2>5, <2>8, <2>9, <2>10, GoesOn
<1>4. CASE Finish("dropped", NoElement)
  BY <1>1, <1>4, Constants, Finished
<1>5. CASE cl.k < Len(RecoveryTiers) /\ cl' = [cl EXCEPT !.k = cl.k + 1]
  <2>1. cl.k + 1 \in 1 .. 8
    BY <1>1, <1>5, TierNames
  <2>2. /\ cl' \in Calls /\ cl'.pc = "recover" /\ cl'.req = cl.req /\ cl'.how = cl.how
        /\ cl'.m = cl.m /\ cl'.out = cl.out /\ cl'.eid = cl.eid /\ cl'.ladder = cl.ladder
    BY <1>1, <1>5, <2>1 DEF Calls
  <2> QED  BY <1>1, <2>2, GoesOn
<1>6. CASE Finish(Vision(cl.req), NoElement)
  <2>1. Vision(cl.req) \in {"visual", "raw"}
    BY DEF Vision
  <2> QED  BY <1>1, <1>6, <2>1, Constants, Finished
<1> QED  BY <1>2, <1>3, <1>4, <1>5, <1>6

\* The element of the id that the ladder returned, or a placeholder.
LEMMA MaterializeIInv ==
  ASSUME IInv, Materialize
  PROVE  IInv'
<1>1. /\ cl.pc = "materialize" /\ UNCHANGED clientOnly /\ left' = left /\ cl \in Calls /\ cl.eid < nextId /\ dom > 0
      /\ (cl.how = "step" /\ cl.k # 1) => \E n \in Nodes : Owned(cl.eid, n) /\ Wanted(n)
  BY Waits DEF Materialize, Client
<1> DEFINE e == IF cl.eid \in DOMAIN elements THEN elements[cl.eid] ELSE NoElement
<1>2. IF cl.how = "step" THEN cl' = [cl EXCEPT !.pc = "precheck", !.e = e] ELSE Finish("recovered", e)
  BY DEF Materialize
<1>3. /\ e \in Element /\ e.dom <= dom
      /\ e.dom = dom => cl.eid \in DOMAIN elements /\ e.node \in Nodes /\ On(e.node)
  <2>1. CASE cl.eid \in DOMAIN elements
    BY <2>1, FreshElement
  <2>2. CASE cl.eid \notin DOMAIN elements
    <3>1. e = NoElement /\ NoElement \in Element /\ NoElement.dom = 0 /\ dom \in Nat
      BY <2>2, Constants DEF IInv, TypeOK
    <3>2. 0 <= dom /\ dom # 0
      BY <1>1, <3>1
    <3> QED  BY <3>1, <3>2
  <2> QED  BY <2>1, <2>2
<1>4. (cl.how = "step" /\ cl.k # 1 /\ e.dom = dom) => Wanted(e.node)
  BY <1>1, <1>3 DEF Owned
<1> HIDE DEF e
<1>5. CASE cl.how = "step"
  <2>1. /\ cl' \in Calls /\ cl'.pc = "precheck" /\ cl'.e = e /\ cl'.k = cl.k /\ cl'.req = cl.req /\ cl'.how = cl.how
        /\ cl'.m = cl.m /\ cl'.out = cl.out /\ cl'.eid = cl.eid /\ cl'.ladder = cl.ladder
    BY <1>1, <1>2, <1>3, <1>5 DEF Calls
  <2> QED  BY <1>1, <1>3, <1>4, <1>5, <2>1, GoesOn DEF Exempt
<1>6. CASE cl.how # "step"
  BY <1>1, <1>2, <1>3, <1>6, Finished
<1> QED  BY <1>5, <1>6

-----------------------------------------------------------------------------
(* An event reaches the daemon *)

\* What an event says, and of which node.
LEMMA EventFacts ==
  ASSUME NEW ev \in Events
  PROVE  /\ ev \in Event /\ ev.kind # "none"
         /\ ev.kind \in {"insert", "remove", "id", "disabled"} => ev.n \in Nodes
         /\ ev.kind = "insert" => page[ev.n].st \in {"unborn", "removed"}
         /\ ev.kind \in {"remove", "id", "disabled"} => On(ev.n)
         /\ ev.kind \in {"insert", "id"} => ev.v \in DomIds
BY DEF Events

\* What an event does to the page, node by node.
LEMMA AfterFacts ==
  ASSUME IInv, NEW ev \in Events, NEW kids \in SUBSET Nodes,
         kids # {} => ev.kind = "insert" /\ \A k \in kids : page[k] = Unborn /\ k # ev.n,
         page' = [k \in Nodes |-> IF k \in kids THEN [Unborn EXCEPT !.st = "on", !.up = ev.n] ELSE After(ev)[k]]
  PROVE  /\ page' \in [Nodes -> Node]
         /\ \A k \in Nodes : page[k].st # "unborn" => page'[k].st # "unborn"
         /\ \A k \in Nodes : page[k].st = "replaced" => page'[k].st = "replaced"
         /\ ev.kind = "document" => \A k \in Nodes : page[k].st # "unborn" => page'[k].st = "replaced"
         /\ ev.kind = "frame" => page' = page
         /\ \A k \in Nodes : On(k) => /\ page'[k].up = page[k].up
                                      /\ page'[k].id = page[k].id \/ (ev.kind = "id" /\ k = ev.n)
                                      /\ \/ page'[k].st = "on"
                                         \/ ev.kind = "document"
                                         \/ ev.kind = "remove" /\ (k = ev.n \/ page[k].up = ev.n)
         /\ ev.kind = "insert" => page'[ev.n].st = "on" /\ page'[ev.n].id = ev.v /\ page'[ev.n].up = NoNode
         /\ ev.kind = "id" => page'[ev.n].id = ev.v
<1>1. /\ page \in [Nodes -> Node] /\ Unborn \in Node /\ Unborn.st = "unborn" /\ Unborn.up = NoNode
  BY Constants DEF IInv, TypeOK, Unborn
<1>2. /\ ev.kind \in {"insert", "remove", "id", "disabled"} => ev.n \in Nodes
      /\ ev.kind = "insert" => page[ev.n].st \in {"unborn", "removed"}
      /\ ev.kind \in {"insert", "id"} => ev.v \in DomIds
      /\ ev.n \in Nodes \cup {NoNode}
      /\ ev.kind \in {"insert", "remove", "id", "disabled", "document", "frame", "opaque"}
  BY EventFacts DEF Event
<1>3. CASE ev.kind = "insert"
  <2> DEFINE a == [Unborn EXCEPT !.st = "on", !.id = ev.v]
             b == [Unborn EXCEPT !.st = "on", !.up = ev.n]
  <2>1. /\ a \in Node /\ a.st = "on" /\ a.id = ev.v /\ a.up = NoNode /\ b \in Node /\ b.st = "on"
    BY <1>2, <1>3 DEF Node, Unborn, DomIds
  <2>2. After(ev) = [page EXCEPT ![ev.n] = a]
    BY <1>3 DEF After
  <2>3. \A k \in Nodes : page'[k] = IF k \in kids THEN b ELSE IF k = ev.n THEN a ELSE page[k]
    BY <1>1, <2>2
  <2> HIDE DEF a, b
  <2>4. \A k \in Nodes : On(k) => page'[k] = page[k]
    BY <1>1, <1>2, <1>3, <2>3 DEF On
  <2>5. page' \in [Nodes -> Node]
    <3>1. \A k \in Nodes : page'[k] \in Node
      BY <1>1, <2>1, <2>3
    <3> QED  BY <3>1
  <2>6. \A k \in Nodes : page[k].st # "unborn" => page'[k].st # "unborn"
    BY <1>1, <2>1, <2>3
  <2>7. \A k \in Nodes : page[k].st = "replaced" => page'[k].st = "replaced"
    BY <1>1, <1>2, <1>3, <2>3
  <2>8. page'[ev.n].st = "on" /\ page'[ev.n].id = ev.v /\ page'[ev.n].up = NoNode
    BY <1>2, <1>3, <2>1, <2>3
  <2> QED  BY <1>3, <2>4, <2>5, <2>6, <2>7, <2>8 DEF On
<1>4. CASE ev.kind = "remove"
  <2>1. \A k \in Nodes : page'[k] = IF k \in {ev.n} \cup Under(ev.n) THEN [page[k] EXCEPT !.st = "removed"] ELSE page[k]
    BY <1>4 DEF After
  <2>2. \A k \in Nodes : /\ page'[k] \in Node /\ page'[k].up = page[k].up /\ page'[k].id = page[k].id
                         /\ page'[k].st = IF k \in {ev.n} \cup Under(ev.n) THEN "removed" ELSE page[k].st
    <3>1. \A k \in Nodes : /\ [page[k] EXCEPT !.st = "removed"] \in Node
                           /\ [page[k] EXCEPT !.st = "removed"].up = page[k].up
                           /\ [page[k] EXCEPT !.st = "removed"].id = page[k].id
                           /\ [page[k] EXCEPT !.st = "removed"].st = "removed" /\ page[k] \in Node
      BY <1>1 DEF Node
    <3> TAKE k \in Nodes
    <3>2. CASE k \in {ev.n} \cup Under(ev.n)
      <4>1. page'[k] = [page[k] EXCEPT !.st = "removed"]
        BY <2>1, <3>2
      <4>2. page'[k] \in Node /\ page'[k].up = page[k].up /\ page'[k].id = page[k].id /\ page'[k].st = "removed"
        BY <3>1, <4>1, Zenon
      <4> QED  BY <3>2, <4>2, Zenon
    <3>3. CASE k \notin {ev.n} \cup Under(ev.n)
      <4>1. page'[k] = page[k]
        BY <2>1, <3>3
      <4>2. page'[k] \in Node /\ page'[k].up = page[k].up /\ page'[k].id = page[k].id /\ page'[k].st = page[k].st
        BY <3>1, <4>1, Zenon
      <4> QED  BY <3>3, <4>2, Zenon
    <3> QED  BY <3>2, <3>3
  <2>3. \A k \in {ev.n} \cup Under(ev.n) : page[k].st = "on" /\ (k = ev.n \/ page[k].up = ev.n)
    BY <1>4, EventFacts DEF Under, On
  <2>4. page' \in [Nodes -> Node]
    BY <2>2
  <2> QED  BY <1>4, <2>2, <2>3, <2>4 DEF On
<1>5. CASE ev.kind = "id"
  <2>1. page' = [page EXCEPT ![ev.n].id = ev.v]
    BY <1>1, <1>5 DEF After
  <2>2. [page[ev.n] EXCEPT !.id = ev.v] \in Node
    BY <1>1, <1>2, <1>5 DEF Node
  <2>3. page' \in [Nodes -> Node]
    BY <1>1, <1>2, <1>5, <2>1, <2>2
  <2>4. /\ \A k \in Nodes : page'[k].up = page[k].up /\ page'[k].st = page[k].st /\ (k # ev.n => page'[k].id = page[k].id)
        /\ page'[ev.n].id = ev.v
    BY <1>1, <1>2, <1>5, <2>1 DEF Node
  <2> QED  BY <1>5, <2>3, <2>4 DEF On
<1>6. CASE ev.kind = "disabled"
  <2>1. page' = [page EXCEPT ![ev.n].off = TRUE]
    BY <1>1, <1>6 DEF After
  <2>2. [page[ev.n] EXCEPT !.off = TRUE] \in Node
    BY <1>1, <1>2, <1>6 DEF Node
  <2>3. page' \in [Nodes -> Node]
    BY <1>1, <1>2, <1>6, <2>1, <2>2
  <2>4. \A k \in Nodes : page'[k].up = page[k].up /\ page'[k].st = page[k].st /\ page'[k].id = page[k].id
    BY <1>1, <1>2, <1>6, <2>1 DEF Node
  <2> QED  BY <1>6, <2>3, <2>4 DEF On
<1>7. CASE ev.kind = "document"
  <2>1. \A k \in Nodes : page'[k] = IF page[k].st = "unborn" THEN page[k] ELSE [page[k] EXCEPT !.st = "replaced"]
    BY <1>7 DEF After
  <2>2. \A k \in Nodes : /\ page'[k] \in Node /\ page'[k].up = page[k].up /\ page'[k].id = page[k].id
                         /\ page'[k].st = IF page[k].st = "unborn" THEN "unborn" ELSE "replaced"
    <3>1. \A k \in Nodes : /\ [page[k] EXCEPT !.st = "replaced"] \in Node
                           /\ [page[k] EXCEPT !.st = "replaced"].up = page[k].up
                           /\ [page[k] EXCEPT !.st = "replaced"].id = page[k].id
                           /\ [page[k] EXCEPT !.st = "replaced"].st = "replaced" /\ page[k] \in Node
      BY <1>1 DEF Node
    <3> QED  BY <2>1, <3>1
  <2>3. page' \in [Nodes -> Node]
    BY <2>2
  <2> QED  BY <1>7, <2>2, <2>3 DEF On
<1>8. CASE ev.kind \in {"frame", "opaque"}
  <2>1. page' = page
    BY <1>1, <1>8 DEF After
  <2> QED  BY <1>1, <1>8, <2>1 DEF On
<1> QED  BY <1>2, <1>3, <1>4, <1>5, <1>6, <1>7, <1>8

\* DomState's on_event, before the diff engine has seen the event.
LEMMA ApplyVersionsIInv ==
  ASSUME IInv, ApplyVersions
  PROVE  IInv'
<1>1. /\ TypeOK /\ Phases /\ Drawn /\ Ages /\ Told /\ Holders /\ Rooted /\ Accurate /\ Backends /\ Client
      /\ disp.pc = "idle" /\ left > 0 /\ left' = left - 1
      /\ UNCHANGED <<gen, elements, backendMap, selectorMap, nextId, rec>>
      /\ cl' = IF cl.pc = "idle" THEN cl ELSE [cl EXCEPT !.m = @ \cup Matches(cl.req, page')]
      /\ ftv' = IF disp'.ev.kind = "frame" THEN ftv + 1 ELSE ftv
  BY DEF IInv, ApplyVersions, index
<1>2. PICK ev \in Events, kids \in SUBSET Nodes :
        /\ kids # {} => ev.kind = "insert" /\ \A k \in kids : page[k] = Unborn /\ k # ev.n
        /\ page' = [k \in Nodes |-> IF k \in kids THEN [Unborn EXCEPT !.st = "on", !.up = ev.n] ELSE After(ev)[k]]
        /\ disp' = [Quiet EXCEPT !.pc = "diff", !.ev = ev]
        /\ dom' = BumpDom(ev)
        /\ untold' = IF ev.kind = "document" THEN {} ELSE untold
  BY DEF ApplyVersions
<1>3. /\ ev \in Event /\ ev.kind # "none"
      /\ ev.kind \in {"insert", "remove", "id", "disabled"} => ev.n \in Nodes
      /\ ev.kind = "insert" => page[ev.n].st \in {"unborn", "removed"}
      /\ ev.kind \in {"remove", "id", "disabled"} => On(ev.n)
      /\ ev.kind \in {"insert", "id"} => ev.v \in DomIds
  BY EventFacts
<1>4. /\ page' \in [Nodes -> Node]
      /\ \A k \in Nodes : page[k].st # "unborn" => page'[k].st # "unborn"
      /\ \A k \in Nodes : page[k].st = "replaced" => page'[k].st = "replaced"
      /\ ev.kind = "document" => \A k \in Nodes : page[k].st # "unborn" => page'[k].st = "replaced"
      /\ ev.kind = "frame" => page' = page
  BY <1>2, AfterFacts
<1>5. \A k \in Nodes : On(k) => /\ page'[k].up = page[k].up
                                /\ page'[k].id = page[k].id \/ (ev.kind = "id" /\ k = ev.n)
                                /\ \/ page'[k].st = "on"
                                   \/ ev.kind = "document"
                                   \/ ev.kind = "remove" /\ (k = ev.n \/ page[k].up = ev.n)
  BY <1>2, AfterFacts
<1>6. /\ ev.kind = "insert" => page'[ev.n].st = "on" /\ page'[ev.n].id = ev.v /\ page'[ev.n].up = NoNode
      /\ ev.kind = "id" => page'[ev.n].id = ev.v
  BY <1>2, AfterFacts
<1>7. /\ disp'.pc = "diff" /\ disp'.ev = ev /\ disp'.eid = 0 /\ DispatcherOK' /\ Kind' = ev.kind
      /\ Busy' /\ ~Putting' /\ ~Busy /\ ~Putting
  <2>1. disp'.pc = "diff" /\ disp'.ev = ev /\ disp'.eid = 0
    BY <1>2, Constants
  <2>2. DispatcherOK'
    BY <1>2, <1>3, Constants DEF DispatcherOK
  <2> QED  BY <1>1, <2>1, <2>2 DEF Kind, Busy, Putting, Inserting
<1>8. /\ dom \in Nat /\ dom' \in Nat /\ dom <= dom' /\ (ev.kind = "frame" => dom' = dom)
      /\ ev.kind # "frame" => dom' = dom + 1 /\ dom' # dom /\ dom' > 0
  <2>1. dom \in Nat
    BY <1>1 DEF TypeOK
  <2>2. (ev.kind = "frame" => dom' = dom) /\ (ev.kind # "frame" => dom' = dom + 1)
    BY <1>2 DEF BumpDom
  <2> QED  BY <2>1, <2>2
<1>9. left' \in 0 .. MaxSteps /\ left \in Nat /\ left' \in Nat /\ left' + 1 = left
  BY <1>1, OneLess
<1>10. /\ cl'.pc = cl.pc /\ cl'.how = cl.how /\ cl'.req = cl.req /\ cl'.k = cl.k /\ cl'.eid = cl.eid /\ cl'.ladder = cl.ladder
       /\ cl'.e = cl.e /\ cl'.out = cl.out /\ cl.m \subseteq cl'.m /\ ClientOK'
       /\ cl.pc # "idle" => Matches(cl.req, page)' \subseteq cl'.m
  <2>1. ClientOK
    BY <1>1 DEF TypeOK
  <2>2. CASE cl.pc = "idle"
    <3>1. cl' = cl
      BY <1>1, <2>2
    <3> QED  BY <2>1, <2>2, <3>1 DEF ClientOK
  <2>3. CASE cl.pc # "idle"
    <3> DEFINE M == cl.m \cup Matches(cl.req, page')
    <3>1. cl' = [cl EXCEPT !.m = M]
      BY <1>1, <2>3
    <3>2. M \in SUBSET Nodes /\ cl.m \subseteq M
      BY <2>1 DEF ClientOK, Matches
    <3>3. Matches(cl.req, page') \subseteq M
      OBVIOUS
    <3> HIDE DEF M
    <3>4. /\ cl'.pc = cl.pc /\ cl'.how = cl.how /\ cl'.req = cl.req /\ cl'.k = cl.k /\ cl'.eid = cl.eid /\ cl'.ladder = cl.ladder
          /\ cl'.e = cl.e /\ cl'.out = cl.out /\ cl'.m = M /\ ClientOK'
      BY <2>1, <3>1, <3>2 DEF ClientOK
    <3>5. Matches(cl.req, page)' \subseteq M
      BY <3>3, <3>4 DEF Matches
    <3> QED  BY <3>2, <3>4, <3>5
  <2> QED  BY <2>2, <2>3
<1>11. /\ \A n \in untold : n \in Nodes /\ page[n].st # "unborn"
       /\ untold' \subseteq untold /\ (ev.kind # "document" => untold' = untold)
  BY <1>1, <1>2 DEF TypeOK, Told
<1>12. TypeOK'
  <2>1. IndexOK'
    BY <1>1 DEF TypeOK, IndexOK
  <2>2. ftv' \in Nat /\ gen' \in Nat /\ rec' \in [pc: Clearing \cup {"idle"}, again: BOOLEAN]
    BY <1>1 DEF TypeOK
  <2>3. untold' \subseteq Nodes
    BY <1>11
  <2> QED  BY <1>4, <1>7, <1>8, <1>9, <1>10, <2>1, <2>2, <2>3 DEF TypeOK
<1>13. Phases'
  BY <1>3, <1>7 DEF Phases, Clearing
<1>14. Drawn'
  <2>1. nextId + left <= MaxSteps + 1 /\ nextId \in 1 .. MaxSteps + 1 /\ MaxSteps \in Nat
    BY <1>1, DispTyped DEF Drawn
  <2>2. nextId + left' <= MaxSteps /\ nextId + left' <= MaxSteps + 1 /\ 0 < nextId
    <3>1. nextId \in Nat
      BY <2>1, Bound
    <3>2. 0 < nextId
      BY <2>1, Bound
    <3> QED  BY <1>9, <2>1, <3>1, <3>2, Fewer
  <2>3. disp'.eid < nextId /\ cl'.eid < nextId
    BY <1>1, <1>7, <1>10, <2>2 DEF Drawn
  <2> QED  BY <1>1, <1>7, <2>2, <2>3 DEF Drawn
<1>15. Ages'
  <2>1. /\ \A i \in DOMAIN elements : elements[i].dom \in 1..dom
        /\ \A i, j \in DOMAIN elements : i # j => elements[i].dom # dom \/ elements[j].dom # dom
    BY <1>1 DEF Ages
  <2>2. CASE ev.kind = "frame"
    BY <1>1, <1>7, <1>8, <2>1, <2>2 DEF Ages
  <2>3. CASE ev.kind # "frame"
    <3>1. \A d \in 1 .. dom : d \in 1 .. dom' /\ d < dom' /\ d # dom'
      BY <1>8, <2>3
    <3>2. \A i \in DOMAIN elements : elements[i].dom \in 1..dom' /\ elements[i].dom < dom' /\ elements[i].dom # dom'
      BY <2>1, <3>1
    <3>3. dom' > 0
      BY <1>8, <2>3
    <3> QED  BY <1>1, <1>7, <3>2, <3>3 DEF Ages
  <2> QED  BY <2>2, <2>3
<1>16. Told'
  <2>1. \A n \in untold' : page'[n].st # "unborn"
    BY <1>4, <1>11
  <2>2. ev.kind \in {"insert", "id", "disabled"} => ev.n \in Nodes /\ page'[ev.n].st = "on"
    BY <1>3, <1>5, <1>6
  <2>3. ev.kind \in {"insert", "id"} => ev.v \in DomIds /\ page'[ev.n].id = ev.v
    BY <1>3, <1>6
  <2>4. ev.kind = "remove" => ev.n \in Nodes
    BY <1>3
  <2> QED  BY <1>7, <2>1, <2>2, <2>3, <2>4 DEF Told, On, Id
<1>17. \A i \in DOMAIN elements : elements[i].node \in Nodes /\ On(elements[i].node) /\ page[elements[i].node].up = NoNode
  BY <1>1 DEF Holders, Rooted
<1>18. Holders'
  <2>1. \A i, j \in DOMAIN elements : elements[i].node = elements[j].node => i = j
    BY <1>1 DEF Holders
  <2>2. \A i \in DOMAIN elements :
          page'[elements[i].node].st = "on" \/ ev.kind = "document" \/ (ev.kind = "remove" /\ elements[i].node = ev.n)
    BY <1>3, <1>5, <1>17, Constants
  <2>3. ev.kind = "insert" => \A i \in DOMAIN elements : elements[i].node # ev.n
    BY <1>3, <1>17 DEF On
  <2> QED  BY <1>1, <1>7, <1>17, <2>1, <2>2, <2>3 DEF Holders, On
<1>19. Rooted'
  BY <1>1, <1>5, <1>6, <1>7, <1>17 DEF Rooted
<1>20. Accurate'
  <2> SUFFICES ASSUME NEW i \in DOMAIN elements, page'[elements[i].node].st = "on"
               PROVE  \/ page'[elements[i].node].id = elements[i].id \/ elements[i].node \in untold'
                      \/ ev.kind = "id" /\ ev.n = elements[i].node
    BY <1>1, <1>7 DEF Accurate, On, Id
  <2>1. page[elements[i].node].id = elements[i].id \/ elements[i].node \in untold
    BY <1>1, <1>7, <1>17 DEF Accurate, Id
  <2>2. page[elements[i].node].st # "unborn"
    BY <1>17 DEF On
  <2>3. ev.kind # "document"
    BY <1>4, <1>17, <2>2
  <2> QED  BY <1>5, <1>11, <1>17, <2>1, <2>3
<1>21. \A i, n : Owned(i, n) => Owned(i, n)'
  BY <1>1, <1>7 DEF Owned
<1>22. Backends'
  BY <1>1, <1>7, <1>21 DEF Backends
<1>23. Client'
  <2>1. \A n \in untold : n \in untold' \/ page'[n].st = "replaced"
    BY <1>4, <1>11
  <2>2. dom' = dom => \A n \in Nodes : On(n) => On(n)'
    BY <1>4, <1>8 DEF On
  <2>3. cl.pc # "idle" => Matches(cl.req, page)' \subseteq cl'.m \cup untold'
    BY <1>10
  <2> QED  BY <1>4, <1>8, <1>10, <1>21, <2>1, <2>2, <2>3, ClientKept
<1> QED  BY <1>12, <1>13, <1>14, <1>15, <1>16, <1>18, <1>19, <1>20, <1>22, <1>23 DEF IInv

-----------------------------------------------------------------------------
(* Theorems *)

\* The daemon has connected.
LEMMA InitIInv == Init => IInv
<1> SUFFICES ASSUME Init
             PROVE  IInv
  OBVIOUS
<1>1. /\ page = [n \in Nodes |-> Unborn] /\ untold = {} /\ dom = 0 /\ gen = 0 /\ ftv = 0
      /\ elements = Empty /\ backendMap = Empty /\ selectorMap = Empty /\ nextId = 1
      /\ disp = Quiet /\ rec = [pc |-> "idle", again |-> FALSE] /\ cl = NoCall /\ left = MaxSteps
  BY DEF Init
<1>2. DOMAIN elements = {} /\ DOMAIN backendMap = {} /\ DOMAIN selectorMap = {}
  BY <1>1 DEF Empty
<1>3. /\ disp.pc = "idle" /\ disp.eid = 0 /\ cl.pc = "idle" /\ cl.how = "ipc" /\ cl.eid = 0
      /\ ~Busy /\ ~Putting
  BY <1>1, Constants DEF NoCall, Busy, Putting, Inserting
<1>4. MaxSteps \in Nat /\ 1 \in 1 .. MaxSteps + 1 /\ 1 + MaxSteps <= MaxSteps + 1 /\ MaxSteps \in 0 .. MaxSteps
      /\ 0 \in 0 .. MaxSteps /\ 0 < 1
  <2>1. MaxSteps \in Nat
    BY Bound
  <2> QED  BY <2>1
<1>5. TypeOK
  <2>1. IndexOK
    BY <1>1, <1>2, <1>4 DEF IndexOK
  <2>2. DispatcherOK
    BY <1>1, Constants DEF DispatcherOK
  <2>3. ClientOK
    <3>1. NoRequest \in Request /\ 1 \in 1 .. 8
      BY <1>4 DEF NoRequest, Request, DomIds
    <3> QED  BY <1>1, <1>4, <3>1, Constants DEF ClientOK, NoCall
  <2>4. page \in [Nodes -> Node] /\ untold \subseteq Nodes /\ dom \in Nat /\ gen \in Nat /\ ftv \in Nat
    BY <1>1, Constants
  <2>5. rec \in [pc: Clearing \cup {"idle"}, again: BOOLEAN] /\ left \in 0 .. MaxSteps
    BY <1>1, <1>4
  <2> QED  BY <2>1, <2>2, <2>3, <2>4, <2>5 DEF TypeOK
<1>6. Phases
  BY <1>3 DEF Phases, Clearing
<1>7. Drawn
  BY <1>1, <1>2, <1>3, <1>4 DEF Drawn
<1>8. Ages /\ Holders /\ Rooted /\ Accurate /\ Backends
  BY <1>2, <1>3 DEF Ages, Holders, Rooted, Accurate, Backends
<1>9. Told
  BY <1>1, <1>3 DEF Told
<1>10. Client
  BY <1>3 DEF Client
<1> QED  BY <1>5, <1>6, <1>7, <1>8, <1>9, <1>10 DEF IInv

\* Every step keeps the invariant.
LEMMA StepIInv == IInv /\ [Next]_vars => IInv'
<1> SUFFICES ASSUME IInv, [Next]_vars
             PROVE  IInv'
  OBVIOUS
<1>1. CASE ApplyVersions
  BY <1>1, ApplyVersionsIInv
<1>2. CASE AttributeRemoved
  BY <1>2, AttributeRemovedIInv
<1>3. CASE DispatcherStep
  <2>1. CASE Diff
    BY <2>1, DiffIInv
  <2>2. CASE InsertMaps \/ UpdateMaps
    BY <2>2, WriteMapsIInv
  <2>3. CASE PutElement
    BY <2>3, PutElementIInv
  <2>4. CASE RemoveById
    BY <2>4, RemoveByIdIInv
  <2>5. CASE Clear
    BY <2>5, ClearIInv
  <2> QED  BY <1>3, <2>1, <2>2, <2>3, <2>4, <2>5 DEF DispatcherStep
<1>4. CASE OnReconnected
  BY <1>4, OnReconnectedIInv
<1>5. CASE Invalidate
  BY <1>5, InvalidateIInv
<1>6. CASE \E how \in {"ipc", "step", "recover"}, req \in Requests : Call(how, req)
  BY <1>6, CallIInv
<1>7. CASE ClientStep
  <2>1. CASE Tier
    BY <2>1, TierIInv
  <2>2. CASE Get
    BY <2>2, GetIInv
  <2>3. CASE Verify
    BY <2>3, VerifyIInv
  <2>4. CASE Recover
    BY <2>4, RecoverIInv
  <2>5. CASE Materialize
    BY <2>5, MaterializeIInv
  <2> QED  BY <1>7, <2>1, <2>2, <2>3, <2>4, <2>5 DEF ClientStep
<1>8. CASE UNCHANGED vars
  <2>1. UNCHANGED clientOnly /\ cl' = cl /\ left' = left
    BY <1>8 DEF vars, clientOnly
  <2>2. cl' \in Calls /\ cl'.eid < nextId /\ left' \in 0 .. MaxSteps /\ left' <= left
    BY <2>1, Waits
  <2>3. UNCHANGED <<page, untold, dom, elements, nextId, disp, cl>>
    BY <2>1 DEF clientOnly, told, versions, index
  <2>4. \A i, n : Owned(i, n) => Owned(i, n)'
    BY <2>3 DEF Owned, Putting
  <2>5. Client'
    BY <2>3, <2>4, ClientUnaware
  <2> QED  BY <2>1, <2>2, <2>5, ClientMoves
<1> QED  BY <1>1, <1>2, <1>3, <1>4, <1>5, <1>6, <1>7, <1>8 DEF Next

\* The inductive invariant holds in every state of the index, the dispatcher, a
\* reconnect and the client together.
THEOREM Invariance == Spec => []IInv
BY InitIInv, StepIInv, PTL DEF Spec

\* Every variable keeps its type; no id leaves the range of the counter, no map has a
\* key that is not a node or a selector.
THEOREM TypeCorrect == Spec => []TypeOK
<1>1. IInv => TypeOK
  BY DEF IInv
<1> QED  BY <1>1, Invariance, PTL

\* Among the elements that the diff engine has left in the index at most one is fresh,
\* whatever a reconnect clears between two of its locks.
THEOREM NewestAlone == Spec => []OnlyNewestIsFresh
<1>1. IInv => OnlyNewestIsFresh
  <2> SUFFICES ASSUME IInv, NEW i \in DOMAIN elements, NEW j \in DOMAIN elements, i # j
               PROVE  IsStale(elements[i]) \/ IsStale(elements[j])
    BY DEF OnlyNewestIsFresh
  <2>1. elements[i].dom # dom \/ elements[j].dom # dom
    BY DEF IInv, Ages
  <2> QED  BY <2>1 DEF IsStale
<1> QED  BY <1>1, Invariance, PTL

\* A checked answer of resolve or of a step is a node on the page, and one that was
\* asked for during the call, with the exceptions AnswerIsPresent names.
THEOREM AnswersArePresent == Spec => AnswerIsPresent
<1> DEFINE Answer == (cl'.out = "ok" /\ cl.pc # "idle") =>
             /\ On(cl.e.node)
             /\ \/ cl.e.node \in untold \cup cl.m
                \/ FoundBy("ref", FALSE) \/ FoundBy("ref", TRUE) \/ FoundBy("selector", FALSE)
<1>1. IInv /\ [Next]_vars => [Answer]_vars
  <2> SUFFICES ASSUME IInv, Next, cl'.out = "ok", cl.pc # "idle"
               PROVE  /\ On(cl.e.node)
                      /\ \/ cl.e.node \in untold \cup cl.m
                         \/ FoundBy("ref", FALSE) \/ FoundBy("ref", TRUE) \/ FoundBy("selector", FALSE)
    OBVIOUS
  <2>1. Client /\ cl \in Calls /\ cl.out = "none"
    BY DEF IInv, Client, TypeOK, ClientOK, Calls
  <2>2. cl.pc \in {"verify", "precheck"} /\ ~IsStale(cl.e)
    <3>1. ~(cl' = cl)
      BY <2>1
    <3>2. ~\E x : cl' = [cl EXCEPT !.m = x]
      BY <2>1 DEF Calls
    <3>3. ~ApplyVersions /\ ~AttributeRemoved /\ ~DispatcherStep /\ ~OnReconnected /\ ~Invalidate
      <4>1. ~ApplyVersions
        BY <3>1, <3>2 DEF ApplyVersions
      <4>2. ~(UNCHANGED others)
        BY <3>1 DEF others
      <4>3. ~DispatcherStep
        BY <4>2 DEF DispatcherStep, Diff, DiffInsert, DiffRemove, DiffAttribute, DiffOther, InsertMaps, UpdateMaps,
                    PutElement, RemoveById, Clear
      <4> QED  BY <3>1, <4>1, <4>3 DEF AttributeRemoved, OnReconnected, Invalidate
    <3>4. ~\E how \in {"ipc", "step", "recover"}, req \in Requests : Call(how, req)
      BY DEF Call, NoCall
    <3>5. \A out, e : Finish(out, e) => out = "ok"
      BY DEF Finish, NoCall
    <3>6. \A p, k, i, e, g :
            /\ cl' # [cl EXCEPT !.pc = p] /\ cl' # [cl EXCEPT !.pc = p, !.k = k] /\ cl' # [cl EXCEPT !.pc = p, !.eid = i]
            /\ cl' # [cl EXCEPT !.pc = p, !.e = e] /\ cl' # [cl EXCEPT !.k = k]
            /\ cl' # [cl EXCEPT !.pc = p, !.eid = i, !.ladder = g]
      BY <2>1 DEF Calls
    <3>7. ~Tier /\ ~Get
      <4>1. ~NextTier
        BY <3>5, <3>6 DEF NextTier
      <4> QED  BY <3>5, <3>6, <4>1 DEF Tier, Get
    <3>8. ~Recover
      <4>1. Recover => \/ \E i, g : cl' = [cl EXCEPT !.pc = "materialize", !.eid = i, !.ladder = g]
                       \/ Finish("dropped", NoElement)
                       \/ cl' = [cl EXCEPT !.k = cl.k + 1]
                       \/ Finish(Vision(cl.req), NoElement)
        BY DEF Recover
      <4>2. Vision(cl.req) # "ok"
        BY DEF Vision
      <4>3. ~Finish("dropped", NoElement) /\ ~Finish(Vision(cl.req), NoElement)
        BY <3>5, <4>2
      <4>4. cl' # [cl EXCEPT !.k = cl.k + 1]
        BY <2>1 DEF Calls
      <4>5. \A i, g : cl' # [cl EXCEPT !.pc = "materialize", !.eid = i, !.ladder = g]
        BY <2>1 DEF Calls
      <4> QED  BY <4>1, <4>3, <4>4, <4>5
    <3>9. ~Materialize
      BY <3>5, <3>6 DEF Materialize
    <3>10. Verify
      BY <3>3, <3>4, <3>7, <3>8, <3>9 DEF Next, ClientStep
    <3> QED  BY <3>5, <3>6, <3>10 DEF Verify
  <2>3. cl.e.dom = dom
    BY <2>2 DEF IsStale
  <2>4. cl.e.node \in Nodes /\ On(cl.e.node) /\ (Exempt(cl) \/ Wanted(cl.e.node))
    BY <2>1, <2>2, <2>3 DEF Client, Sound
  <2>5. Exempt(cl) => FoundBy("ref", FALSE) \/ FoundBy("ref", TRUE) \/ FoundBy("selector", FALSE)
    <3>1. cl.ladder \in BOOLEAN
      BY <2>1 DEF Calls
    <3> QED  BY <3>1, TierNames DEF Exempt, FoundBy
  <2>6. Wanted(cl.e.node) => cl.e.node \in untold \cup cl.m
    BY <2>4 DEF Wanted, On
  <2> QED  BY <2>4, <2>5, <2>6
<1> QED  BY <1>1, Invariance, PTL DEF Spec, AnswerIsPresent

=============================================================================
