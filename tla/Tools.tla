------------------------------- MODULE Tools --------------------------------
(***************************************************************************)
(* The browser tools of one hyprfast process (the MCP server's loop in     *)
(* main.rs): every tool of browser/mod.rs first goes to the DevTools MCP   *)
(* child over stdio (devtools_mcp/), if that is enabled, and when it fails *)
(* there to the browser-runtime daemon, or, without one, to the browser    *)
(* itself (browser_runtime/client.rs).                                     *)
(*                                                                         *)
(* A tool is a script: stages of calls, each with where to go when it      *)
(* succeeds and when it fails.  Tools are served one at a time.            *)
(*                                                                         *)
(* Each tool call and each CDP call runs in a tokio runtime of its own.    *)
(* The child's pipes are registered with the runtime it was spawned in and *)
(* fail in every later one (tokio, external), while the child lives on.    *)
(***************************************************************************)
EXTENDS Naturals, Sequences

CONSTANTS
  Asked,        \* the tools that are asked for, a subset of DOMAIN Script
  MaxTools,     \* bound on the tool calls
  MaxRestarts,  \* MAX_RESTARTS
  MaxDeaths     \* bound on the deaths of the child

-----------------------------------------------------------------------------
(* The scripts.  A script is a sequence of stages, each a sequence of calls *)
(* in a runtime of its own.  Where a call leads: "next", to the next call   *)
(* of the stage; "last", to its last; "fall", to the next stage; "over", to *)
(* the one after that; "finally", to the last stage; "done" or "fail", the  *)
(* tool's result; "perhaps", depending on the answer, done or fall; "any",  *)
(* that or fail.                                                            *)

Mcp(call, ok, err) == [call |-> call, by |-> "mcp", ok |-> ok, err |-> err]
Runtime(call, ok, err) == [call |-> call, by |-> "runtime", ok |-> ok, err |-> err]

\* page_id, with its error passed on.
PageId == Mcp("list_pages", "next", "fall")

\* A page that cannot be looked up is replaced by a number.
ProxyNavigate ==
  <<Mcp("list_pages", "next", "next"), Mcp("navigate_page", "finally", "next"),
    Mcp("new_page", "finally", "fall")>>

\* A method that is one call: go_back, go_forward, press_key, take_snapshot,
\* take_screenshot, list_console_messages, evaluate.
ProxyOne(call) == <<PageId, Mcp(call, "done", "fall")>>

\* By uid, else by selector with a script that does not parse.
ProxyClick == <<PageId, Mcp("click", "done", "next"), PageId, Mcp("bad_script", "done", "fall")>>

ProxyHover == <<PageId, Mcp("hover", "done", "next"), PageId, Mcp("bad_script", "done", "fall")>>

\* Mutant of ProxyType: a fill that worked does not end it.
ProxyTypeGoesOn ==
  <<PageId, Mcp("fill", "next", "next"), Mcp("type_text", "last", "next"),
    PageId, Mcp("script", "done", "fall"), Mcp("submit", "done", "done")>>

\* By uid, else as keys, else by script; Enter is pressed after the first two.
ProxyType ==
  <<PageId, Mcp("fill", "last", "next"), Mcp("type_text", "last", "next"),
    PageId, Mcp("script", "done", "fall"), Mcp("submit", "done", "done")>>

\* The errors of fill are dropped.
ProxySelect == <<PageId, Mcp("fill", "done", "done")>>

\* try_cdp_call_via_daemon for methods that try_devtools_proxy_for_cdp maps has
\* two stages: the proxy's, and the call itself.
EvaluateProxied == ProxyOne("script")
EvaluateDirect == <<Runtime("evaluate", "done", "fail")>>

\* wait_for_lifecycle_sync, whose result does not matter.
WaitForLifecycle == <<Runtime("lifecycle", "done", "done")>>

Navigate ==
  <<ProxyNavigate, <<Runtime("enable", "fall", "fall")>>,
    ProxyNavigate, <<Runtime("navigate", "finally", "fail")>>, WaitForLifecycle>>

GoBack == <<ProxyOne("navigate_page"), EvaluateProxied, EvaluateDirect>>

\* The proxy's snapshot has no "nodes", and is taken again by script.
Snapshot ==
  <<ProxyOne("take_snapshot"), <<PageId, Mcp("take_snapshot", "over", "fall")>>,
    <<Runtime("ax_tree", "any", "fall")>>, EvaluateProxied, EvaluateDirect>>

\* An answer without an image counts as an error.
Screenshot ==
  <<ProxyOne("take_screenshot"), ProxyOne("take_screenshot"),
    <<Runtime("capture", "done", "fail")>>>>

\* click_by_backend, with a backend id other than 0.
ClickByRef ==
  <<Runtime("resolve_node", "next", "fall"), Runtime("call_function", "next", "fall"),
    Runtime("release", "done", "done")>>

\* browser_click with a numeric ref: click_by_ref, then click_by_selector.
Click == <<ProxyClick, ClickByRef, ProxyClick, EvaluateProxied, EvaluateDirect>>

\* With a ref that is 0, or too large for an i64, click_by_ref calls nothing after
\* the proxy and answers "clicked".
Nothing == [call |-> "nothing", by |-> "none", ok |-> "done", err |-> "done"]
ClickZero == <<ProxyClick, <<Nothing>>>>

Hover == <<ProxyHover, EvaluateProxied, EvaluateDirect>>

TypeText == <<ProxyType, EvaluateProxied, EvaluateDirect>>

SelectOption == <<ProxySelect, EvaluateProxied, EvaluateDirect>>

\* What comes of the key events is dropped, and the key is dispatched once more by
\* script.
PressKey ==
  <<ProxyOne("press_key"), <<Runtime("key_down", "next", "next"), Runtime("key_up", "fall", "fall")>>,
    EvaluateProxied, EvaluateDirect>>

EvaluateJs == <<ProxyOne("script"), EvaluateProxied, EvaluateDirect>>

\* browser::tabs and cdp::list_targets; the proxy's tabs have no "targetInfos".
Tabs ==
  <<<<Mcp("list_all_pages", "done", "fall")>>, <<Mcp("list_all_pages", "perhaps", "fall")>>,
    <<Mcp("list_all_pages", "over", "fall")>>, <<Runtime("get_targets", "perhaps", "fall")>>,
    <<Runtime("http", "done", "fail")>>>>

ConsoleLogs ==
  <<ProxyOne("list_console"), <<Runtime("enable", "fall", "fall")>>, EvaluateProxied, EvaluateDirect>>

ExecutePlan == <<<<Runtime("plan", "done", "fail")>>>>

Script ==
  [navigate |-> Navigate, back |-> GoBack, snapshot |-> Snapshot, screenshot |-> Screenshot,
   click |-> Click, click_zero |-> ClickZero, hover |-> Hover, type |-> TypeText, select |-> SelectOption,
   press |-> PressKey, eval |-> EvaluateJs, tabs |-> Tabs, console |-> ConsoleLogs,
   plan |-> ExecutePlan]

ASSUME ToolsAssumption ==
  /\ Asked \subseteq DOMAIN Script
  /\ MaxTools \in Nat /\ MaxRestarts \in Nat \ {0} /\ MaxDeaths \in Nat

\* The calls that carry out what their tool is asked for; the others look, or
\* their failure does not matter.  A key is pressed by its key_down; the key_up
\* ends the press.  A script that finds no element says so in its
\* value, which the tools take for success: it has been carried out.
Acts == {"navigate_page", "new_page", "navigate", "click", "hover", "fill", "type_text",
         "press_key", "key_down", "script", "evaluate", "call_function", "plan"}

\* The tools that change the page, but for the two that report success whatever
\* has been done: select_option (ProxySelect) and a click on ref 0 (ClickZero).
Acting == {"navigate", "back", "click", "hover", "type", "press", "eval", "plan"}

-----------------------------------------------------------------------------

VARIABLES
  enabled,   \* HYPRFAST_DEVTOOLS_MCP
  child,     \* the DevTools MCP child: "none", "running", "exited"
  bound,     \* the runtime in which it was spawned is still the current one
  inbox,     \* the requests on its stdin
  wire,      \* the lines on its stdout
  torn,      \* a reader gave up in the middle of the next line
  nextId,    \* the id of the next request that gets through
  restarts, disabled,
  cached,    \* the list of pages has been fetched
  deaths,    \* of the child
  n, tool,   \* the number of the tool call, and the tool
  k, c,      \* the stage of its script, and the call of the stage
  pc,        \* "idle", "call", "alive", "reading", "daemon", "connecting", "direct",
             \* "panicked"
  result,    \* of the last tool: "none", "ok", "err"
  got,       \* what the last answer was an answer to
  acts,      \* how often the tool has been carried out: 0, 1, 2 or more
  failed     \* one of its acting calls was sent and did not succeed

proc == <<child, bound, inbox, wire, torn, nextId, restarts, disabled, deaths>>
caller == <<n, tool, k, c, pc, result, got, acts, failed>>
vars == <<enabled, proc, cached, caller>>

Tag == [n |-> n, k |-> k, c |-> c]
NoTag == [n |-> 0, k |-> 0, c |-> 0]
Tags == [n: 0..MaxTools, k: Nat, c: Nat]

\* A torn line has no tag; a notification has the id 0.
Line == [id: Nat, of: Tags, ok: BOOLEAN, torn: BOOLEAN]

TypeOK ==
  /\ enabled \in BOOLEAN /\ bound \in BOOLEAN /\ torn \in BOOLEAN
  /\ child \in {"none", "running", "exited"}
  /\ inbox \in Seq([id: Nat, of: Tags, act: BOOLEAN, bad: BOOLEAN])
  /\ wire \in Seq(Line)
  /\ nextId \in Nat /\ restarts \in 0..MaxRestarts /\ deaths \in 0..MaxDeaths
  /\ disabled \in BOOLEAN /\ cached \in BOOLEAN
  /\ n \in 0..MaxTools /\ tool \in DOMAIN Script /\ k \in Nat /\ c \in Nat
  /\ pc \in {"idle", "call", "alive", "reading", "daemon", "connecting", "direct", "panicked"}
  /\ result \in {"none", "ok", "err"}
  /\ got \in Tags
  /\ acts \in 0..2 /\ failed \in BOOLEAN

Init ==
  /\ enabled \in BOOLEAN
  /\ child = "none" /\ bound = FALSE /\ inbox = <<>> /\ wire = <<>> /\ torn = FALSE
  /\ nextId = 1 /\ restarts = 0 /\ disabled = FALSE /\ deaths = 0 /\ cached = FALSE
  /\ n = 0 /\ tool \in Asked /\ k = 1 /\ c = 1 /\ pc = "idle"
  /\ result = "none" /\ got = NoTag /\ acts = 0 /\ failed = FALSE

Current == Script[tool][k][c]

\* handle_tool, from the loop of run_mcp.
ToolStarts ==
  /\ pc = "idle" /\ n < MaxTools
  /\ n' = n + 1
  /\ tool' \in Asked
  /\ k' = 1 /\ c' = 1 /\ pc' = "call" /\ result' = "none" /\ got' = NoTag
  /\ acts' = 0 /\ failed' = FALSE
  /\ UNCHANGED <<enabled, proc, cached>>

\* Where a label leads: a call of the script, or the tool's result.
To(stage, call) == [to |-> "call", k |-> stage, c |-> call]
End(outcome) == [to |-> outcome, k |-> 1, c |-> 1]

Goes(label) ==
  CASE label = "next" -> {To(k, c + 1)}
    [] label = "last" -> {To(k, Len(Script[tool][k]))}
    [] label = "fall" -> {To(k + 1, 1)}
    [] label = "over" -> {To(k + 2, 1)}
    [] label = "finally" -> {To(Len(Script[tool]), 1)}
    [] label = "done" -> {End("ok")}
    [] label = "fail" -> {End("err")}
    [] label = "perhaps" -> {End("ok"), To(k + 1, 1)}
    [] label = "any" -> {End("ok"), End("err"), To(k + 1, 1)}

\* The end of a call, with what is left to read.  With its stage, or with the
\* tool, ends the runtime that the call was made in: nobody reads what the child
\* still writes.
Goto(label, rest, tears) ==
  /\ \E g \in Goes(label) :
       LET leaves == g.to # "call" \/ g.k # k
       IN  /\ pc' = IF g.to = "call" THEN "call" ELSE "idle"
           /\ result' = IF g.to = "call" THEN "none" ELSE g.to
           /\ k' = g.k /\ c' = g.c
           /\ bound' = (bound /\ ~leaves)
           /\ wire' = IF leaves THEN <<>> ELSE rest
           /\ torn' = (tears /\ ~leaves)
  /\ UNCHANGED <<enabled, n, tool>>

Succeeds(rest) ==
  /\ Goto(Current.ok, rest, torn)
  /\ cached' = \/ Current.call \in {"list_pages", "list_all_pages"}
               \/ cached /\ Current.call # "new_page"

Fails(rest, tears) == Goto(Current.err, rest, tears) /\ UNCHANGED cached

\* The tool of the request has been carried out, if it is still being served.
Done(of, act) == acts' = IF act /\ of.n = n /\ acts < 2 THEN acts + 1 ELSE acts

-----------------------------------------------------------------------------
(* DevToolsMcpProcess *)

McpCalls == pc = "call" /\ Current.by = "mcp"

\* proxy_enabled.
McpOff ==
  /\ McpCalls /\ ~enabled
  /\ Goto("fall", wire, torn)
  /\ UNCHANGED <<child, inbox, nextId, restarts, disabled, deaths, cached, got, acts, failed>>

\* ensure_alive after it gave up on the child.
McpDisabled ==
  /\ McpCalls /\ enabled /\ disabled
  /\ Fails(wire, torn)
  /\ UNCHANGED <<child, inbox, nextId, restarts, disabled, deaths, got, acts, failed>>

\* cached_pages within PAGE_CACHE_TTL.
McpCachedPages ==
  /\ McpCalls /\ enabled /\ Current.call = "list_pages" /\ cached
  /\ Goto(Current.ok, wire, torn)
  /\ UNCHANGED <<child, inbox, nextId, restarts, disabled, deaths, cached, got, acts, failed>>

\* ensure_alive with a child that has not exited, whatever its pipes are worth.
McpAlive ==
  /\ McpCalls /\ enabled /\ ~disabled /\ child = "running"
  /\ pc' = "alive"
  /\ UNCHANGED <<enabled, proc, cached, n, tool, k, c, result, got, acts, failed>>

\* ensure_alive, its budget: the last start was less than 60 s ago.
McpExhausted ==
  /\ McpCalls /\ enabled /\ ~disabled /\ child # "running" /\ restarts = MaxRestarts
  /\ disabled' = TRUE
  /\ Fails(wire, torn)
  /\ UNCHANGED <<child, inbox, nextId, restarts, deaths, got, acts, failed>>

\* spawn_inner or ensure_initialized_locked fails, and the new child is dropped.
McpSpawnFails ==
  /\ McpCalls /\ enabled /\ ~disabled /\ child # "running"
  /\ child' = "none" /\ inbox' = <<>>
  /\ restarts' = IF restarts = MaxRestarts THEN 0 ELSE restarts
  /\ Fails(<<>>, FALSE)
  /\ UNCHANGED <<nextId, disabled, deaths, got, acts, failed>>

\* The ids 1 and 2 are for initialize and tools/list.
McpSpawns ==
  /\ McpCalls /\ enabled /\ ~disabled /\ child # "running"
  /\ child' = "running" /\ bound' = TRUE /\ inbox' = <<>> /\ wire' = <<>> /\ torn' = FALSE
  /\ nextId' = 3
  /\ restarts' = (IF restarts = MaxRestarts THEN 0 ELSE restarts) + 1
  /\ pc' = "alive"
  /\ UNCHANGED <<enabled, disabled, deaths, cached, n, tool, k, c, result, got, acts, failed>>

\* Inner::request up to write_line.
McpSends ==
  /\ pc = "alive" /\ bound /\ child = "running"
  /\ pc' = "reading"
  /\ nextId' = nextId + 1
  /\ inbox' = Append(inbox, [id |-> nextId, of |-> Tag, act |-> Current.call \in Acts,
                             bad |-> Current.call = "bad_script"])
  /\ UNCHANGED <<enabled, child, bound, wire, torn, restarts, disabled, deaths, cached,
                 n, tool, k, c, result, got, acts, failed>>

\* The pipe is closed, or of a runtime that is gone, or the child does not offer
\* the tool.
McpNotSent ==
  /\ pc = "alive"
  /\ Fails(wire, torn)
  /\ UNCHANGED <<child, inbox, nextId, restarts, disabled, deaths, got, acts, failed>>

\* Mutant of McpReads: the id of an answer is not looked at.
McpReadsAny ==
  /\ pc = "reading" /\ wire # <<>>
  /\ LET line == Head(wire)
     IN  /\ got' = line.of
         /\ failed' = (failed \/ (~line.ok /\ Current.call \in Acts))
         /\ IF line.ok THEN Succeeds(Tail(wire)) ELSE Fails(Tail(wire), torn)
  /\ UNCHANGED <<child, inbox, nextId, restarts, disabled, deaths, acts>>

\* Mutant of McpReads: isError is not looked at.
McpReadsErrors ==
  /\ pc = "reading" /\ wire # <<>>
  /\ LET line == Head(wire)
     IN  /\ line.torn \/ line.id = nextId - 1
         /\ got' = line.of
         /\ failed' = (failed \/ (~line.ok /\ Current.call \in Acts))
         /\ IF line.torn THEN Fails(Tail(wire), torn) ELSE Succeeds(Tail(wire))
  /\ UNCHANGED <<child, inbox, nextId, restarts, disabled, deaths, acts>>

\* One round of request's loop that ends it: its own answer, or a line that does
\* not parse.
McpReads ==
  /\ pc = "reading" /\ wire # <<>>
  /\ LET line == Head(wire)
     IN  /\ line.torn \/ line.id = nextId - 1
         /\ got' = line.of
         /\ failed' = (failed \/ (~line.ok /\ Current.call \in Acts))
         /\ IF line.ok THEN Succeeds(Tail(wire)) ELSE Fails(Tail(wire), torn)
  /\ UNCHANGED <<child, inbox, nextId, restarts, disabled, deaths, acts>>

\* A notification, or the late answer to a request that was given up.
McpSkips ==
  /\ pc = "reading" /\ wire # <<>>
  /\ ~Head(wire).torn /\ Head(wire).id # nextId - 1
  /\ wire' = Tail(wire)
  /\ UNCHANGED <<enabled, child, bound, inbox, torn, nextId, restarts, disabled, deaths,
                 cached, caller>>

\* Mutant of McpGivesUp: a read that timed out is tried again.
McpReadsAgain ==
  /\ pc = "reading" /\ wire = <<>> /\ child # "running"
  /\ failed' = (failed \/ Current.call \in Acts)
  /\ Fails(<<>>, FALSE)
  /\ UNCHANGED <<child, inbox, nextId, restarts, disabled, deaths, got, acts>>

\* MCP_TIMEOUT, perhaps in the middle of a line; or the child closed its stdout.
McpGivesUp ==
  /\ pc = "reading" /\ wire = <<>>
  /\ \E tears \in BOOLEAN :
       /\ tears => child = "running" /\ inbox # <<>>
       /\ Fails(<<>>, tears)
  /\ failed' = (failed \/ Current.call \in Acts)
  /\ UNCHANGED <<child, inbox, nextId, restarts, disabled, deaths, got, acts>>

\* The child takes its requests in turn.  It carries out what it answers with
\* success, and perhaps what it answers with an error: a script may throw, and a
\* click may time out, after its effect.  Its notifications come at any time.
ChildAnswers ==
  /\ child = "running" /\ inbox # <<>>
  /\ LET r == Head(inbox)
     IN  \E ok \in BOOLEAN, note \in BOOLEAN :
           /\ r.bad => ~ok
           /\ Done(r.of, r.act) \/ (~ok /\ UNCHANGED acts)
           /\ LET lines == (IF note THEN <<[id |-> 0, of |-> NoTag, ok |-> TRUE, torn |-> FALSE]>>
                            ELSE <<>>)
                           \o <<[id |-> r.id, of |-> r.of, ok |-> ok, torn |-> FALSE]>>
              IN  wire' = IF ~bound THEN <<>>
                          ELSE wire \o (IF torn THEN [lines EXCEPT ![1] = [@ EXCEPT !.torn = TRUE, !.ok = FALSE, !.of = NoTag]]
                                        ELSE lines)
  /\ inbox' = Tail(inbox)
  /\ torn' = FALSE
  /\ UNCHANGED <<enabled, child, bound, nextId, restarts, disabled, deaths, cached,
                 n, tool, k, c, pc, result, got, failed>>

\* It dies, perhaps with the request it was at carried out.
ChildDies ==
  /\ child = "running" /\ deaths < MaxDeaths
  /\ child' = "exited" /\ deaths' = deaths + 1 /\ inbox' = <<>> /\ torn' = FALSE
  /\ \/ UNCHANGED acts
     \/ inbox # <<>> /\ ~Head(inbox).bad /\ Done(Head(inbox).of, Head(inbox).act)
  /\ UNCHANGED <<enabled, bound, wire, nextId, restarts, disabled, cached,
                 n, tool, k, c, pc, result, got, failed>>

-----------------------------------------------------------------------------
(* browser_runtime/client.rs *)

RuntimeCalls == pc = "call" /\ Current.by = "runtime"

\* click_by_ref for ref 0.
NoCall ==
  /\ pc = "call" /\ Current.by = "none"
  /\ Goto(Current.ok, wire, torn)
  /\ UNCHANGED <<child, inbox, nextId, restarts, disabled, deaths, cached, got, acts, failed>>

\* daemon_available.  Without a daemon a plan starts a runtime inside a runtime,
\* which panics; the HTTP listing asks no daemon.
RuntimeProbes ==
  /\ RuntimeCalls
  /\ \/ Current.call # "http" /\ pc' = "daemon"
     \/ Current.call = "http" /\ pc' = "direct"
     \/ Current.call = "plan" /\ pc' = "panicked"
     \/ Current.call \notin {"http", "plan"} /\ pc' = "connecting"
  /\ UNCHANGED <<enabled, proc, cached, n, tool, k, c, result, got, acts, failed>>

\* ephemeral_cdp_call has its WebSocket.
DirectConnects ==
  /\ pc = "connecting" /\ pc' = "direct"
  /\ UNCHANGED <<enabled, proc, cached, n, tool, k, c, result, got, acts, failed>>

DirectConnectFails ==
  /\ pc = "connecting"
  /\ Fails(wire, torn)
  /\ UNCHANGED <<child, inbox, nextId, restarts, disabled, deaths, got, acts, failed>>

\* What comes of a request to the daemon or of a call on a connection of its own:
\* success; an error before it was sent; or an error, or no answer, to what may
\* have been carried out.
RuntimeEnds ==
  /\ \/ Done(Tag, Current.call \in Acts) /\ Succeeds(wire) /\ UNCHANGED failed
     \/ Fails(wire, torn) /\ UNCHANGED <<acts, failed>>
     \/ /\ Fails(wire, torn)
        /\ acts' = acts \/ Done(Tag, Current.call \in Acts)
        /\ failed' = (failed \/ Current.call \in Acts)
  /\ UNCHANGED <<child, inbox, nextId, restarts, disabled, deaths, got>>

DaemonAnswers == pc = "daemon" /\ RuntimeEnds

DirectAnswers == pc = "direct" /\ RuntimeEnds

-----------------------------------------------------------------------------

ServerStep ==
  \/ McpOff \/ McpDisabled \/ McpCachedPages \/ McpAlive \/ McpExhausted
  \/ McpSpawnFails \/ McpSpawns \/ McpSends \/ McpNotSent \/ McpReads \/ McpSkips \/ McpGivesUp
  \/ NoCall \/ RuntimeProbes \/ DaemonAnswers
  \/ DirectConnects \/ DirectConnectFails \/ DirectAnswers

Next == ToolStarts \/ ServerStep \/ ChildAnswers \/ ChildDies

\* Where the server may be running `npx --version`, to find out whether the proxy
\* is to be had or before it starts a child.
AskingNpx ==
  /\ pc = "call" /\ enabled /\ ~disabled /\ child # "running"
  /\ Current.call \notin {"nothing", "http", "plan", "lifecycle"}

\* Every wait of the server has a timeout, but for npx and the WebSocket connect.
ServerProceeds == ServerStep /\ ~AskingNpx /\ pc # "connecting"

\* The server's thread runs.  The child need not answer, npx need not end, a peer
\* need not complete the WebSocket, and nobody need ask for a tool.
Spec == Init /\ [][Next]_vars /\ WF_vars(ServerProceeds)

-----------------------------------------------------------------------------
(* Properties *)

\* Late answers, lost lines and restarts of the child do not mix answers up: what
\* ends a call is the answer to that call, of that tool.
OwnToolAnswer == [][got' \in {got, NoTag, Tag}]_vars

\* A tool that reports success has been carried out, however many of its routes
\* failed before one worked.  Two tools break this and are not among the Acting
\* ones: select_option drops the proxy's errors, and browser_click with a ref of
\* 0, which a snapshot may name, answers "clicked" without any call.
SuccessWasCarriedOut == result = "ok" /\ tool \in Acting => acts > 0

\* Falling back does not repeat what succeeded: a tool is carried out twice only
\* after one of its acting calls had been sent and did not succeed (an error, which
\* may come after the effect, or no answer).  press_key breaks this: it sends the
\* key's events and then dispatches the key again by script.
TwiceOnlyAfterFailure == acts = 2 => failed \/ tool = "press"

\* Whatever the child, the daemon and the browser do, every tool is answered, but
\* for a plan without a daemon; unless `npx --version` or the WebSocket connect of
\* a call without a daemon, which have no timeout, never end.
EveryToolAnswered ==
  (pc # "idle") ~> (pc \in {"idle", "panicked"} \/ []AskingNpx \/ [](pc = "connecting"))

=============================================================================
