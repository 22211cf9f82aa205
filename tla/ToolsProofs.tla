----------------------------- MODULE ToolsProofs ----------------------------
(***************************************************************************)
(* Proofs about the tools of one hyprfast process.                         *)
(*                                                                         *)
(* Tools, for any number of tool calls, restarts and deaths of the child:  *)
(* type correctness, that a call only ever gets its own answer, that a     *)
(* tool that reports success has been carried out, and that it is carried  *)
(* out twice only after a call that was sent and did not succeed.          *)
(*                                                                         *)
(* Decider, for any questions, options, candidates and replies: type       *)
(* correctness, that nothing is attributed to the service that it did not  *)
(* say, and that a service that is gone is noticed in time.                *)
(***************************************************************************)
EXTENDS Tools, Decider, FiniteSetTheorems, SequenceTheorems, TLAPS

-----------------------------------------------------------------------------
(* The inductive invariant *)

\* The calls that are made only when the tool has been carried out, whatever
\* becomes of them.
Closing == {"submit", "release", "lifecycle"}

\* The call b of stage a is one of the tool's.
InScript(a, b) == a \in 1..Len(Script[tool]) /\ b \in 1..Len(Script[tool][a])

\* A tool that runs is at a call of its script.
Placed ==
  /\ pc # "idle" => InScript(k, c) /\ result = "none"
  /\ pc \in {"alive", "reading"} => enabled /\ Current.by = "mcp"
  /\ pc \in {"daemon", "connecting", "direct"} => Current.by = "runtime"
  /\ pc = "reading" => bound

\* Requests are answered in the order of their ids, which are drawn once, and a
\* request is of the current tool or an earlier one.
Numbered ==
  /\ nextId >= 1 /\ (pc = "reading" => nextId >= 2)
  /\ \A i \in 1..Len(inbox) : inbox[i].id \in 1..nextId - 1 /\ inbox[i].of.n <= n
  /\ \A i, j \in 1..Len(inbox) : i < j => inbox[i].id < inbox[j].id
  /\ \A i \in 1..Len(wire) : wire[i].id < nextId
  /\ \A i \in 1..Len(wire), j \in 1..Len(inbox) : wire[i].id < inbox[j].id

\* The last request is that of the call that is reading.
LastIsOwn == pc = "reading" =>
  \A i \in 1..Len(inbox) : inbox[i].id = nextId - 1 =>
    /\ inbox[i].of = Tag
    /\ inbox[i].act = (Current.call \in Acts)
    /\ inbox[i].bad = (Current.call = "bad_script")

\* A success tells that the tool has been carried out; a torn line tells nothing.
AnswerIsTrue ==
  /\ \A i \in 1..Len(wire) : wire[i].torn => wire[i].of = NoTag /\ ~wire[i].ok
  /\ pc = "reading" =>
       \A i \in 1..Len(wire) : (wire[i].id = nextId - 1 /\ ~wire[i].torn) =>
         /\ wire[i].of = Tag
         /\ wire[i].ok => Current.call # "bad_script" /\ (Current.call \in Acts => acts > 0)

\* What comes after the tool has been carried out.
ClosingAfterAct ==
  (pc # "idle" /\ Current.call \in Closing) => acts > 0 /\ (Current.by = "mcp" => enabled)

\* No acting call failed, and the tool is not press_key, which acts twice.
Sure == ~failed /\ tool # "press"

\* As long as that is so, the one request that may still carry out the tool is that
\* of the call that is reading, and once it is carried out only the calls after it
\* are left.
DoneOnce == Sure =>
  /\ \A i \in 1..Len(inbox) : (inbox[i].act /\ inbox[i].of.n = n) =>
       pc = "reading" /\ inbox[i].id = nextId - 1 /\ acts = 0
  /\ (acts > 0 /\ pc # "idle") =>
       Current.call \in Closing \/ (pc = "reading" /\ Current.call \in Acts)

IInv ==
  /\ TypeOK /\ Placed /\ Numbered /\ LastIsOwn /\ AnswerIsTrue
  /\ ClosingAfterAct /\ DoneOnce /\ SuccessWasCarriedOut /\ TwiceOnlyAfterFailure

-----------------------------------------------------------------------------
(* The scripts *)

\* The fields of a call.
LEMMA Calls ==
  ASSUME NEW x, NEW a, NEW b
  PROVE  /\ Mcp(x, a, b).call = x /\ Mcp(x, a, b).by = "mcp"
         /\ Mcp(x, a, b).ok = a /\ Mcp(x, a, b).err = b
         /\ Runtime(x, a, b).call = x /\ Runtime(x, a, b).by = "runtime"
         /\ Runtime(x, a, b).ok = a /\ Runtime(x, a, b).err = b
BY DEF Mcp, Runtime

\* What each label stands for.
LEMMA Labels ==
  /\ Goes("next") = {To(k, c + 1)}
  /\ Goes("last") = {To(k, Len(Script[tool][k]))}
  /\ Goes("fall") = {To(k + 1, 1)}
  /\ Goes("over") = {To(k + 2, 1)}
  /\ Goes("finally") = {To(Len(Script[tool]), 1)}
  /\ Goes("done") = {End("ok")}
  /\ Goes("fail") = {End("err")}
  /\ Goes("perhaps") = {End("ok"), To(k + 1, 1)}
  /\ Goes("any") = {End("ok"), End("err"), To(k + 1, 1)}
BY DEF Goes

\* Where a call may lead: to a call of the script or to a result.
Target(g) ==
  /\ g.to \in {"call", "ok", "err"} /\ g.k \in Nat /\ g.c \in Nat
  /\ g.to = "call" => InScript(g.k, g.c)

At(g) == Script[tool][g.k][g.c].call
By(g) == Script[tool][g.k][g.c].by

\* A call that succeeds ends a tool that acts, or leads to the calls that come
\* after the act, if and only if it was the act, or comes after it; but for
\* press_key, where another act follows.
OkLeads(g) ==
  /\ Target(g)
  /\ (g.to = "ok" /\ tool \in Acting) => Current.call \in Acts \cup Closing \cup {"bad_script"}
  /\ g.to = "call" => /\ At(g) \in Closing => Current.call \in Acts
                      /\ (Current.call \in Acts /\ tool # "press") => At(g) \in Closing
                      /\ (At(g) \in Closing /\ By(g) = "mcp") => Current.by = "mcp"
                      /\ Current.call \notin Closing

\* A call that fails does so only if it comes after the act.
ErrLeads(g) ==
  /\ Target(g)
  /\ (g.to = "ok" /\ tool \in Acting) => Current.call \in Closing
  /\ g.to = "call" => At(g) \notin Closing /\ Current.call \notin Closing

\* There is another stage to fall back to.
Falls == InScript(k + 1, 1) /\ Script[tool][k + 1][1].call \notin Closing

Leads ==
  /\ Current.by \in {"mcp", "runtime", "none"} /\ (Current.call = "bad_script" => Current.by = "mcp")
  /\ Current.by = "none" => Current.call = "nothing"
  /\ \A g \in Goes(Current.ok) : OkLeads(g)
  /\ \A g \in Goes(Current.err) : ErrLeads(g)
  /\ Current.by = "mcp" => Falls

\* What the targets of the labels are.
LEMMA Targets ==
  ASSUME NEW a, NEW b, NEW r
  PROVE  /\ To(a, b).to = "call" /\ To(a, b).k = a /\ To(a, b).c = b
         /\ End(r).to = r /\ End(r).k = 1 /\ End(r).c = 1
BY DEF To, End

\* A success that is the tool's.
LEMMA OkDone ==
  ASSUME Current.ok = "done",
         tool \in Acting => Current.call \in Acts \cup Closing \cup {"bad_script"}
  PROVE  \A g \in Goes(Current.ok) : OkLeads(g)
<1>1. Goes(Current.ok) = {End("ok")}
  BY Labels
<1>2. End("ok").to = "ok" /\ End("ok").k = 1 /\ End("ok").c = 1
  BY Targets
<1>3. OkLeads(End("ok"))
  BY <1>2 DEF OkLeads, Target
<1> QED  BY <1>1, <1>3

\* A success that leads to another call.
LEMMA OkTo ==
  ASSUME NEW a \in Nat, NEW b \in Nat, Goes(Current.ok) = {To(a, b)}, InScript(a, b),
         Script[tool][a][b].call \in Closing => Current.call \in Acts,
         (Current.call \in Acts /\ tool # "press") => Script[tool][a][b].call \in Closing,
         (Script[tool][a][b].call \in Closing /\ Script[tool][a][b].by = "mcp")
           => Current.by = "mcp",
         Current.call \notin Closing
  PROVE  \A g \in Goes(Current.ok) : OkLeads(g)
<1>1. To(a, b).to = "call" /\ To(a, b).k = a /\ To(a, b).c = b
  BY Targets
<1>2. OkLeads(To(a, b))
  BY <1>1 DEF OkLeads, Target, At, By
<1> QED  BY <1>2

\* A failure that leads to another call.
LEMMA ErrTo ==
  ASSUME NEW a \in Nat, NEW b \in Nat, Goes(Current.err) = {To(a, b)}, InScript(a, b),
         Script[tool][a][b].call \notin Closing, Current.call \notin Closing
  PROVE  \A g \in Goes(Current.err) : ErrLeads(g)
<1>1. To(a, b).to = "call" /\ To(a, b).k = a /\ To(a, b).c = b
  BY Targets
<1>2. ErrLeads(To(a, b))
  BY <1>1 DEF ErrLeads, Target, At
<1> QED  BY <1>2

\* A failure that leads to the next stage.
LEMMA ErrFall ==
  ASSUME k \in Nat, Current.err = "fall", Falls, Current.call \notin Closing
  PROVE  \A g \in Goes(Current.err) : ErrLeads(g)
<1>1. Goes(Current.err) = {To(k + 1, 1)}
  BY Labels
<1> QED  BY <1>1, ErrTo DEF Falls

\* A failure that is the tool's.
LEMMA ErrFail ==
  ASSUME Current.err = "fail"
  PROVE  \A g \in Goes(Current.err) : ErrLeads(g)
<1>1. Goes(Current.err) = {End("err")}
  BY Labels
<1>2. End("err").to = "err" /\ End("err").k = 1 /\ End("err").c = 1
  BY Targets
<1>3. ErrLeads(End("err"))
  BY <1>2 DEF ErrLeads, Target
<1> QED  BY <1>1, <1>3

\* A failure that does not matter.
LEMMA ErrDone ==
  ASSUME Current.err = "done", tool \in Acting => Current.call \in Closing
  PROVE  \A g \in Goes(Current.err) : ErrLeads(g)
<1>1. Goes(Current.err) = {End("ok")}
  BY Labels
<1>2. End("ok").to = "ok" /\ End("ok").k = 1 /\ End("ok").c = 1
  BY Targets
<1>3. ErrLeads(End("ok"))
  BY <1>2 DEF ErrLeads, Target
<1> QED  BY <1>1, <1>3

\* page_id is followed by a call of the same stage, or by the next stage.
LEMMA PageIdLeads ==
  ASSUME k \in Nat, c \in Nat, InScript(k, c + 1), Script[tool][k][c + 1].call \notin Closing,
         Falls, Current = PageId
  PROVE  Leads
<1>1. /\ Current.call = "list_pages" /\ Current.by = "mcp"
      /\ Current.ok = "next" /\ Current.err = "fall"
  BY Calls DEF PageId
<1>2. Current.call \notin Closing \cup Acts
  BY <1>1 DEF Closing, Acts
<1>3. Goes(Current.ok) = {To(k, c + 1)}
  BY <1>1, Labels
<1>4. \A g \in Goes(Current.ok) : OkLeads(g)
  BY <1>1, <1>2, <1>3, OkTo
<1>5. \A g \in Goes(Current.err) : ErrLeads(g)
  BY <1>1, <1>2, ErrFall
<1> QED  BY <1>1, <1>4, <1>5 DEF Leads

\* The last call of a stage of the proxy.
LEMMA LastLeads ==
  ASSUME k \in Nat, c \in Nat, Falls, NEW x, Current = Mcp(x, "done", "fall"),
         x \notin Closing, tool \in Acting => x \in Acts \cup {"bad_script"}
  PROVE  Leads
<1>1. /\ Current.call = x /\ Current.by = "mcp"
      /\ Current.ok = "done" /\ Current.err = "fall"
  BY Calls
<1>2. \A g \in Goes(Current.ok) : OkLeads(g)
  BY <1>1, OkDone
<1>3. \A g \in Goes(Current.err) : ErrLeads(g)
  BY <1>1, ErrFall
<1> QED  BY <1>1, <1>2, <1>3 DEF Leads

\* A stage with one method of the proxy.
LEMMA ProxyOneLeads ==
  ASSUME k \in Nat, c \in Nat, InScript(k, c), Falls, NEW x, Script[tool][k] = ProxyOne(x),
         x \notin Closing, tool \in Acting => x \in Acts
  PROVE  Leads
<1>1. Len(Script[tool][k]) = 2 /\ Script[tool][k][1] = PageId
      /\ Script[tool][k][2] = Mcp(x, "done", "fall")
  BY DEF ProxyOne
<1>2. CASE c = 1
  <2>1. InScript(k, 2) /\ Script[tool][k][2].call \notin Closing /\ Current = PageId
    BY <1>1, <1>2, Calls DEF InScript, Current
  <2> QED  BY <1>2, <2>1, PageIdLeads
<1>3. CASE c = 2
  <2>1. Current = Mcp(x, "done", "fall")
    BY <1>1, <1>3 DEF Current
  <2> QED  BY <2>1, LastLeads
<1> QED  BY <1>1, <1>2, <1>3 DEF InScript

\* The stage of click and of hover.
LEMMA ProxyPointLeads ==
  ASSUME k \in Nat, c \in Nat, InScript(k, c), Falls, NEW x \in {"click", "hover"},
         Script[tool][k] = <<PageId, Mcp(x, "done", "next"), PageId, Mcp("bad_script", "done", "fall")>>
  PROVE  Leads
<1>1. /\ Len(Script[tool][k]) = 4 /\ Script[tool][k][1] = PageId /\ Script[tool][k][3] = PageId
      /\ Script[tool][k][2] = Mcp(x, "done", "next")
      /\ Script[tool][k][4] = Mcp("bad_script", "done", "fall")
  OBVIOUS
<1>2. CASE c \in {1, 3}
  <2>1. InScript(k, c + 1) /\ Script[tool][k][c + 1].call \notin Closing /\ Current = PageId
    BY <1>1, <1>2, Calls DEF InScript, Current, Closing
  <2> QED  BY <2>1, PageIdLeads
<1>3. CASE c = 2
  <2>1. Current = Mcp(x, "done", "next") /\ InScript(k, 3) /\ Script[tool][k][3].call = "list_pages"
    BY <1>1, <1>3, Calls DEF Current, InScript, PageId
  <2>2. /\ Current.call = x /\ Current.by = "mcp"
        /\ Current.ok = "done" /\ Current.err = "next"
    BY <2>1, Calls
  <2>3. Goes(Current.err) = {To(k, 3)}
    BY <1>3, <2>2, Labels
  <2>4. x \in Acts /\ x \notin Closing /\ "list_pages" \notin Closing /\ x # "bad_script"
    BY DEF Acts, Closing
  <2>5. \A g \in Goes(Current.ok) : OkLeads(g)
    BY <2>2, <2>4, OkDone
  <2>6. \A g \in Goes(Current.err) : ErrLeads(g)
    BY <2>1, <2>2, <2>3, <2>4, ErrTo
  <2> QED  BY <2>2, <2>4, <2>5, <2>6 DEF Leads
<1>4. CASE c = 4
  <2>1. Current = Mcp("bad_script", "done", "fall")
    BY <1>1, <1>4 DEF Current
  <2> QED  BY <2>1, LastLeads DEF Closing
<1> QED  BY <1>1, <1>2, <1>3, <1>4 DEF InScript

\* A call of the runtime that ends the tool.
LEMMA RuntimeLeads ==
  ASSUME InScript(k, c), NEW x, Script[tool][k] = <<Runtime(x, "done", "fail")>>,
         x # "bad_script", tool \in Acting => x \in Acts
  PROVE  Leads
<1>1. Current = Runtime(x, "done", "fail")
  BY DEF InScript, Current
<1>2. /\ Current.call = x /\ Current.by = "runtime"
      /\ Current.ok = "done" /\ Current.err = "fail"
  BY <1>1, Calls
<1>3. \A g \in Goes(Current.ok) : OkLeads(g)
  BY <1>2, OkDone
<1>4. \A g \in Goes(Current.err) : ErrLeads(g)
  BY <1>2, ErrFail
<1> QED  BY <1>2, <1>3, <1>4 DEF Leads

\* A call that leads to another call either way.
LEMMA BothTo ==
  ASSUME NEW x, NEW ok, NEW err, Current = Mcp(x, ok, err) \/ Current = Runtime(x, ok, err),
         NEW a \in Nat, NEW b \in Nat, Goes(ok) = {To(a, b)}, InScript(a, b),
         NEW d \in Nat, NEW e \in Nat, Goes(err) = {To(d, e)}, InScript(d, e),
         Script[tool][a][b].call \in Closing => x \in Acts,
         (x \in Acts /\ tool # "press") => Script[tool][a][b].call \in Closing,
         (Script[tool][a][b].call \in Closing /\ Script[tool][a][b].by = "mcp")
           => Current.by = "mcp",
         Script[tool][d][e].call \notin Closing, x \notin Closing \cup {"bad_script"},
         Current.by = "mcp" => Falls
  PROVE  Leads
<1>1. /\ Current.call = x /\ Current.by \in {"mcp", "runtime"}
      /\ Current.ok = ok /\ Current.err = err
  BY Calls
<1>2. \A g \in Goes(Current.ok) : OkLeads(g)
  BY <1>1, OkTo
<1>3. \A g \in Goes(Current.err) : ErrLeads(g)
  BY <1>1, ErrTo
<1> QED  BY <1>1, <1>2, <1>3 DEF Leads

\* A call whose errors are dropped.
LEMMA DoneLeads ==
  ASSUME NEW x, Current = Mcp(x, "done", "done") \/ Current = Runtime(x, "done", "done"),
         tool \in Acting => x \in Closing, x # "bad_script",
         Current.by = "mcp" => Falls
  PROVE  Leads
<1>1. /\ Current.call = x /\ Current.by \in {"mcp", "runtime"}
      /\ Current.ok = "done" /\ Current.err = "done"
  BY Calls
<1>2. \A g \in Goes(Current.ok) : OkLeads(g)
  BY <1>1, OkDone
<1>3. \A g \in Goes(Current.err) : ErrLeads(g)
  BY <1>1, ErrDone
<1> QED  BY <1>1, <1>2, <1>3 DEF Leads

\* An answer that may have to be looked for elsewhere.
LEMMA OkPerhaps ==
  ASSUME k \in Nat, Current.ok \in {"perhaps", "any"}, tool \notin Acting, Falls,
         Current.call \notin Closing \cup Acts
  PROVE  \A g \in Goes(Current.ok) : OkLeads(g)
<1>1. Goes(Current.ok) \subseteq {End("ok"), End("err"), To(k + 1, 1)}
  BY Labels
<1>2. /\ End("ok").to = "ok" /\ End("ok").k = 1 /\ End("ok").c = 1
      /\ End("err").to = "err" /\ End("err").k = 1 /\ End("err").c = 1
      /\ To(k + 1, 1).to = "call" /\ To(k + 1, 1).k = k + 1 /\ To(k + 1, 1).c = 1
  BY Targets
<1>3. OkLeads(End("ok")) /\ OkLeads(End("err"))
  BY <1>2 DEF OkLeads, Target
<1>4. OkLeads(To(k + 1, 1))
  BY <1>2 DEF OkLeads, Target, At, By, Falls, Closing
<1> QED  BY <1>1, <1>3, <1>4

\* A call that is made for its effect on the next stage only.
LEMMA FallLeads ==
  ASSUME k \in Nat, NEW x, Current = Runtime(x, "fall", "fall"), Falls,
         x \notin Closing \cup Acts \cup {"bad_script"}
  PROVE  Leads
<1>1. Goes("fall") = {To(k + 1, 1)}
  BY Labels
<1> QED  BY <1>1, BothTo, Calls DEF Falls, Closing

\* The two attempts of a navigation over the proxy.
LEMMA ProxyNavigateLeads ==
  ASSUME k \in Nat, c \in Nat, InScript(k, c), Falls, Script[tool][k] = ProxyNavigate,
         NEW last \in Nat, last = Len(Script[tool]), InScript(last, 1),
         Script[tool][last][1].call = "lifecycle"
  PROVE  Leads
<1>1. /\ Len(Script[tool][k]) = 3
      /\ Script[tool][k][1] = Mcp("list_pages", "next", "next")
      /\ Script[tool][k][2] = Mcp("navigate_page", "finally", "next")
      /\ Script[tool][k][3] = Mcp("new_page", "finally", "fall")
  BY DEF ProxyNavigate
<1>2. InScript(k, 2) /\ InScript(k, 3)
  BY <1>1 DEF InScript
<1>3. Script[tool][k][2].call = "navigate_page" /\ Script[tool][k][3].call = "new_page"
  BY <1>1, Calls
<1>4. /\ {"list_pages", "navigate_page", "new_page"} \cap Closing = {} /\ "lifecycle" \in Closing
      /\ "list_pages" \notin Acts /\ "navigate_page" \in Acts /\ "new_page" \in Acts
  BY DEF Closing, Acts
<1>5. CASE c = 1
  <2>1. Current = Mcp("list_pages", "next", "next") /\ Goes("next") = {To(k, 2)}
    BY <1>1, <1>5, Labels DEF Current
  <2> QED  BY <1>2, <1>3, <1>4, <2>1, BothTo
<1>6. CASE c = 2
  <2>1. /\ Current = Mcp("navigate_page", "finally", "next")
        /\ Goes("next") = {To(k, 3)} /\ Goes("finally") = {To(last, 1)}
    BY <1>1, <1>6, Labels DEF Current
  <2>2. Current.by = "mcp"
    BY <2>1, Calls
  <2> QED  BY <1>2, <1>3, <1>4, <2>1, <2>2, BothTo
<1>7. CASE c = 3
  <2>1. /\ Current = Mcp("new_page", "finally", "fall")
        /\ Goes("fall") = {To(k + 1, 1)} /\ Goes("finally") = {To(last, 1)}
    BY <1>1, <1>7, Labels DEF Current
  <2>2. Current.by = "mcp"
    BY <2>1, Calls
  <2> QED  BY <1>4, <2>1, <2>2, BothTo DEF Falls
<1> QED  BY <1>1, <1>5, <1>6, <1>7 DEF InScript

\* browser_navigate.
LEMMA NavigateLeads ==
  ASSUME tool = "navigate", k \in Nat, c \in Nat, InScript(k, c)
  PROVE  Leads
<1>1. /\ Len(Script[tool]) = 5
      /\ Script[tool][1] = ProxyNavigate /\ Script[tool][3] = ProxyNavigate
      /\ Script[tool][2] = <<Runtime("enable", "fall", "fall")>>
      /\ Script[tool][4] = <<Runtime("navigate", "finally", "fail")>>
      /\ Script[tool][5] = <<Runtime("lifecycle", "done", "done")>>
  BY DEF Script, Navigate, WaitForLifecycle
<1>2. /\ InScript(2, 1) /\ InScript(3, 1) /\ InScript(4, 1) /\ InScript(5, 1)
      /\ Script[tool][2][1].call = "enable" /\ Script[tool][3][1].call = "list_pages"
      /\ Script[tool][4][1].call = "navigate" /\ Script[tool][5][1].call = "lifecycle"
      /\ Script[tool][5][1].by = "runtime"
  BY <1>1, Calls DEF InScript, ProxyNavigate
<1>3. /\ {"enable", "list_pages", "navigate"} \cap Closing = {} /\ "lifecycle" \in Closing
      /\ "navigate" \in Acts /\ "enable" \notin Acts
  BY DEF Closing, Acts
<1>4. k \in 1..3 => Falls
  BY <1>2, <1>3 DEF Falls
<1>5. CASE k \in {1, 3}
  BY <1>1, <1>2, <1>4, <1>5, ProxyNavigateLeads
<1>6. CASE k = 2
  <2>1. Current = Runtime("enable", "fall", "fall")
    BY <1>1, <1>6 DEF Current, InScript
  <2> QED  BY <1>3, <1>4, <1>6, <2>1, FallLeads
<1>7. CASE k = 4
  <2>1. Current = Runtime("navigate", "finally", "fail")
    BY <1>1, <1>7 DEF Current, InScript
  <2>2. /\ Current.call = "navigate" /\ Current.by = "runtime"
        /\ Current.ok = "finally" /\ Current.err = "fail" /\ Goes("finally") = {To(5, 1)}
    BY <1>1, <2>1, Calls, Labels
  <2>3. \A g \in Goes(Current.ok) : OkLeads(g)
    BY <1>2, <1>3, <2>2, OkTo
  <2>4. \A g \in Goes(Current.err) : ErrLeads(g)
    BY <2>2, ErrFail
  <2> QED  BY <2>2, <2>3, <2>4 DEF Leads
<1>8. CASE k = 5
  <2>1. Current = Runtime("lifecycle", "done", "done")
    BY <1>1, <1>8 DEF Current, InScript
  <2>2. Current.by = "runtime"
    BY <2>1, Calls
  <2> QED  BY <1>3, <2>1, <2>2, DoneLeads
<1> QED  BY <1>1, <1>5, <1>6, <1>7, <1>8 DEF InScript

\* The stages that end most tools: the script over the proxy, and over the runtime.
LEMMA TailLeads ==
  ASSUME k \in Nat, c \in Nat, InScript(k, c), NEW m \in Nat, Len(Script[tool]) = m + 2,
         Script[tool][m + 1] = EvaluateProxied, Script[tool][m + 2] = EvaluateDirect, k > m
  PROVE  Leads
<1>1. k = m + 1 \/ k = m + 2
  BY DEF InScript
<1>2. CASE k = m + 1
  <2>1. Script[tool][k + 1] = <<Runtime("evaluate", "done", "fail")>>
    BY <1>2 DEF EvaluateDirect
  <2>2. Len(Script[tool][k + 1]) = 1 /\ Script[tool][k + 1][1].call = "evaluate"
    BY <2>1, Calls
  <2>3. Falls
    BY <1>2, <2>2 DEF Falls, InScript, Closing
  <2>4. "script" \in Acts /\ "script" \notin Closing
    BY DEF Acts, Closing
  <2> QED  BY <1>2, <2>3, <2>4, ProxyOneLeads DEF EvaluateProxied
<1>3. CASE k = m + 2
  <2>1. Script[tool][k] = <<Runtime("evaluate", "done", "fail")>> /\ "evaluate" \in Acts
    BY <1>3 DEF EvaluateDirect, Acts
  <2> QED  BY <2>1, RuntimeLeads
<1> QED  BY <1>1, <1>2, <1>3

\* The stage before them can fall back to them.
LEMMA TailFalls ==
  ASSUME k \in Nat, NEW m \in Nat, Len(Script[tool]) = m + 2,
         Script[tool][m + 1] = EvaluateProxied, k = m
  PROVE  Falls
<1>1. Len(Script[tool][m + 1]) = 2 /\ Script[tool][m + 1][1] = PageId
  BY DEF EvaluateProxied, ProxyOne
<1>2. Script[tool][m + 1][1].call = "list_pages"
  BY <1>1, Calls DEF PageId
<1>3. InScript(m + 1, 1) /\ Script[tool][m + 1][1].call \notin Closing
  BY <1>1, <1>2 DEF InScript, Closing
<1>4. k + 1 = m + 1
  OBVIOUS
<1> QED  BY <1>3, <1>4, Zenon DEF Falls

\* browser_back (forward is the same).
LEMMA GoBackLeads ==
  ASSUME tool = "back", k \in Nat, c \in Nat, InScript(k, c)
  PROVE  Leads
<1>1. /\ Len(Script[tool]) = 1 + 2 /\ Script[tool][1] = ProxyOne("navigate_page")
      /\ Script[tool][1 + 1] = EvaluateProxied /\ Script[tool][1 + 2] = EvaluateDirect
  BY DEF Script, GoBack
<1>2. CASE k = 1
  BY <1>1, <1>2, TailFalls, ProxyOneLeads DEF Acts, Closing
<1>3. CASE k > 1
  BY <1>1, <1>3, TailLeads
<1> QED  BY <1>2, <1>3 DEF InScript

\* browser_evaluate.
LEMMA EvaluateJsLeads ==
  ASSUME tool = "eval", k \in Nat, c \in Nat, InScript(k, c)
  PROVE  Leads
<1>1. /\ Len(Script[tool]) = 1 + 2 /\ Script[tool][1] = ProxyOne("script")
      /\ Script[tool][1 + 1] = EvaluateProxied /\ Script[tool][1 + 2] = EvaluateDirect
  BY DEF Script, EvaluateJs
<1>2. CASE k = 1
  BY <1>1, <1>2, TailFalls, ProxyOneLeads DEF Acts, Closing
<1>3. CASE k > 1
  BY <1>1, <1>3, TailLeads
<1> QED  BY <1>2, <1>3 DEF InScript

\* browser_hover.
LEMMA HoverLeads ==
  ASSUME tool = "hover", k \in Nat, c \in Nat, InScript(k, c)
  PROVE  Leads
<1>1. /\ Len(Script[tool]) = 1 + 2 /\ Script[tool][1] = ProxyHover
      /\ Script[tool][1 + 1] = EvaluateProxied /\ Script[tool][1 + 2] = EvaluateDirect
  BY DEF Script, Hover
<1>2. CASE k = 1
  BY <1>1, <1>2, TailFalls, ProxyPointLeads DEF ProxyHover
<1>3. CASE k > 1
  BY <1>1, <1>3, TailLeads
<1> QED  BY <1>2, <1>3 DEF InScript

\* browser_select_option.
LEMMA SelectOptionLeads ==
  ASSUME tool = "select", k \in Nat, c \in Nat, InScript(k, c)
  PROVE  Leads
<1>1. /\ Len(Script[tool]) = 1 + 2 /\ Script[tool][1] = ProxySelect
      /\ Script[tool][1 + 1] = EvaluateProxied /\ Script[tool][1 + 2] = EvaluateDirect
  BY DEF Script, SelectOption
<1>2. CASE k = 1
  <2>1. Falls
    BY <1>1, <1>2, TailFalls
  <2>2. /\ Len(Script[tool][k]) = 2 /\ Script[tool][k][1] = PageId
        /\ Script[tool][k][2] = Mcp("fill", "done", "done")
    BY <1>1, <1>2 DEF ProxySelect
  <2>3. CASE c = 1
    <3>1. InScript(k, 2) /\ Script[tool][k][2].call = "fill" /\ Current = PageId
      BY <1>1, <1>2, <2>2, <2>3, Calls DEF InScript, Current
    <3> QED  BY <2>1, <2>3, <3>1, PageIdLeads DEF Closing
  <2>4. CASE c = 2
    <3>1. Current = Mcp("fill", "done", "done") /\ tool \notin Acting
      BY <2>2, <2>4 DEF Current, Acting
    <3> QED  BY <2>1, <3>1, DoneLeads
  <2> QED  BY <2>2, <2>3, <2>4 DEF InScript
<1>3. CASE k > 1
  BY <1>1, <1>3, TailLeads
<1> QED  BY <1>2, <1>3 DEF InScript

\* browser_execute_plan.
LEMMA ExecutePlanLeads ==
  ASSUME tool = "plan", k \in Nat, c \in Nat, InScript(k, c)
  PROVE  Leads
<1>1. Len(Script[tool]) = 1 /\ Script[tool][1] = <<Runtime("plan", "done", "fail")>>
  BY DEF Script, ExecutePlan
<1>2. k = 1 /\ "plan" \in Acts
  BY <1>1 DEF InScript, Acts
<1> QED  BY <1>1, <1>2, RuntimeLeads

\* browser_type.
LEMMA TypeTextLeads ==
  ASSUME tool = "type", k \in Nat, c \in Nat, InScript(k, c)
  PROVE  Leads
<1>1. /\ Len(Script[tool]) = 1 + 2 /\ Script[tool][1] = ProxyType
      /\ Script[tool][1 + 1] = EvaluateProxied /\ Script[tool][1 + 2] = EvaluateDirect
  BY DEF Script, TypeText
<1>2. CASE k = 1
  <2>1. Falls
    BY <1>1, <1>2, TailFalls
  <2>2. /\ Len(Script[tool][k]) = 6 /\ Script[tool][k][1] = PageId
        /\ Script[tool][k][2] = Mcp("fill", "last", "next")
        /\ Script[tool][k][3] = Mcp("type_text", "last", "next")
        /\ Script[tool][k][4] = PageId
        /\ Script[tool][k][5] = Mcp("script", "done", "fall")
        /\ Script[tool][k][6] = Mcp("submit", "done", "done")
    BY <1>1, <1>2 DEF ProxyType
  <2>3. InScript(k, 2) /\ InScript(k, 3) /\ InScript(k, 4) /\ InScript(k, 5) /\ InScript(k, 6)
    BY <1>1, <1>2, <2>2 DEF InScript
  <2>4. /\ Script[tool][k][2].call = "fill" /\ Script[tool][k][3].call = "type_text"
        /\ Script[tool][k][4].call = "list_pages" /\ Script[tool][k][5].call = "script"
        /\ Script[tool][k][6].call = "submit"
    BY <2>2, Calls DEF PageId
  <2>5. /\ {"fill", "type_text", "list_pages", "script"} \cap Closing = {} /\ "submit" \in Closing
        /\ "fill" \in Acts /\ "type_text" \in Acts /\ "script" \in Acts
    BY DEF Closing, Acts
  <2>6. CASE c \in {1, 4}
    <3>1. Current = PageId /\ InScript(k, c + 1) /\ Script[tool][k][c + 1].call \notin Closing
      BY <2>2, <2>3, <2>4, <2>5, <2>6 DEF Current
    <3> QED  BY <2>1, <3>1, PageIdLeads
  <2>7. CASE c = 2
    <3>1. /\ Current = Mcp("fill", "last", "next")
          /\ Goes("last") = {To(k, 6)} /\ Goes("next") = {To(k, 3)}
      BY <2>2, <2>7, Labels DEF Current
    <3>2. Current.by = "mcp"
      BY <3>1, Calls
    <3> QED  BY <2>1, <2>3, <2>4, <2>5, <3>1, <3>2, BothTo
  <2>8. CASE c = 3
    <3>1. /\ Current = Mcp("type_text", "last", "next")
          /\ Goes("last") = {To(k, 6)} /\ Goes("next") = {To(k, 4)}
      BY <2>2, <2>8, Labels DEF Current
    <3>2. Current.by = "mcp"
      BY <3>1, Calls
    <3> QED  BY <2>1, <2>3, <2>4, <2>5, <3>1, <3>2, BothTo
  <2>9. CASE c = 5
    <3>1. Current = Mcp("script", "done", "fall")
      BY <2>2, <2>9 DEF Current
    <3> QED  BY <2>1, <2>5, <3>1, LastLeads
  <2>10. CASE c = 6
    <3>1. Current = Mcp("submit", "done", "done")
      BY <2>2, <2>10 DEF Current
    <3> QED  BY <2>1, <2>5, <3>1, DoneLeads
  <2> QED  BY <2>2, <2>6, <2>7, <2>8, <2>9, <2>10 DEF InScript
<1>3. CASE k > 1
  BY <1>1, <1>3, TailLeads
<1> QED  BY <1>2, <1>3 DEF InScript

\* browser_click.
LEMMA ClickLeads ==
  ASSUME tool = "click", k \in Nat, c \in Nat, InScript(k, c)
  PROVE  Leads
<1>1. /\ Len(Script[tool]) = 3 + 2
      /\ Script[tool][1] = ProxyClick /\ Script[tool][3] = ProxyClick
      /\ Script[tool][2] = <<Runtime("resolve_node", "next", "fall"),
                             Runtime("call_function", "next", "fall"),
                             Runtime("release", "done", "done")>>
      /\ Script[tool][3 + 1] = EvaluateProxied /\ Script[tool][3 + 2] = EvaluateDirect
  BY DEF Script, Click, ClickByRef
<1>2. /\ InScript(2, 1) /\ InScript(3, 1)
      /\ Script[tool][2][1].call = "resolve_node" /\ Script[tool][3][1].call = "list_pages"
  BY <1>1, Calls DEF InScript, ProxyClick, PageId
<1>3. k \in {1, 2} => Falls
  BY <1>2 DEF Falls, Closing
<1>4. CASE k = 1
  BY <1>1, <1>3, <1>4, ProxyPointLeads DEF ProxyClick
<1>5. CASE k = 2
  <2>1. /\ Len(Script[tool][k]) = 3 /\ Script[tool][k][1] = Runtime("resolve_node", "next", "fall")
        /\ Script[tool][k][2] = Runtime("call_function", "next", "fall")
        /\ Script[tool][k][3] = Runtime("release", "done", "done")
    BY <1>1, <1>5
  <2>2. /\ InScript(k, 2) /\ InScript(k, 3)
        /\ Script[tool][k][2].call = "call_function" /\ Script[tool][k][3].call = "release"
        /\ Script[tool][k][3].by = "runtime"
    BY <1>1, <1>5, <2>1, Calls DEF InScript
  <2>3. Goes("fall") = {To(3, 1)}
    BY <1>5, Labels
  <2>4. /\ {"resolve_node", "call_function", "list_pages"} \cap Closing = {} /\ "release" \in Closing
        /\ "resolve_node" \notin Acts /\ "call_function" \in Acts
    BY DEF Closing, Acts
  <2>5. CASE c = 1
    <3>1. Current = Runtime("resolve_node", "next", "fall") /\ Goes("next") = {To(k, 2)}
      BY <2>1, <2>5, Labels DEF Current
    <3>2. Current.by = "runtime"
      BY <3>1, Calls
    <3> QED  BY <1>2, <2>2, <2>3, <2>4, <3>1, <3>2, BothTo
  <2>6. CASE c = 2
    <3>1. Current = Runtime("call_function", "next", "fall") /\ Goes("next") = {To(k, 3)}
      BY <2>1, <2>6, Labels DEF Current
    <3>2. Current.by = "runtime"
      BY <3>1, Calls
    <3> QED  BY <1>2, <2>2, <2>3, <2>4, <3>1, <3>2, BothTo
  <2>7. CASE c = 3
    <3>1. Current = Runtime("release", "done", "done")
      BY <2>1, <2>7 DEF Current
    <3>2. Current.by = "runtime"
      BY <3>1, Calls
    <3> QED  BY <2>4, <3>1, <3>2, DoneLeads
  <2> QED  BY <2>1, <2>5, <2>6, <2>7 DEF InScript
<1>6. CASE k = 3
  <2>1. Falls
    BY <1>1, <1>6, TailFalls
  <2> QED  BY <1>1, <1>6, <2>1, ProxyPointLeads DEF ProxyClick
<1>7. CASE k > 3
  BY <1>1, <1>7, TailLeads
<1> QED  BY <1>4, <1>5, <1>6, <1>7 DEF InScript

\* browser_click with ref 0.
LEMMA ClickZeroLeads ==
  ASSUME tool = "click_zero", k \in Nat, c \in Nat, InScript(k, c)
  PROVE  Leads
<1>1. /\ Len(Script[tool]) = 2 /\ Script[tool][1] = ProxyClick
      /\ Script[tool][2] = <<Nothing>> /\ tool \notin Acting
  BY DEF Script, ClickZero, Acting
<1>2. Nothing.call = "nothing" /\ Nothing.by = "none" /\ Nothing.ok = "done" /\ Nothing.err = "done"
  BY DEF Nothing
<1>3. InScript(2, 1) /\ Script[tool][2][1] = Nothing
  BY <1>1 DEF InScript
<1>4. CASE k = 1
  <2>1. Falls
    BY <1>2, <1>3, <1>4 DEF Falls, Closing
  <2> QED  BY <1>1, <1>4, <2>1, ProxyPointLeads DEF ProxyClick
<1>5. CASE k = 2
  <2>1. Current = Nothing
    BY <1>1, <1>5 DEF Current, InScript
  <2>2. \A g \in Goes(Current.ok) : OkLeads(g)
    BY <1>1, <1>2, <2>1, OkDone
  <2>3. \A g \in Goes(Current.err) : ErrLeads(g)
    BY <1>1, <1>2, <2>1, ErrDone
  <2> QED  BY <1>2, <2>1, <2>2, <2>3 DEF Leads
<1> QED  BY <1>1, <1>4, <1>5 DEF InScript

\* browser_press_key.
LEMMA PressKeyLeads ==
  ASSUME tool = "press", k \in Nat, c \in Nat, InScript(k, c)
  PROVE  Leads
<1>1. /\ Len(Script[tool]) = 2 + 2 /\ Script[tool][1] = ProxyOne("press_key")
      /\ Script[tool][2] = <<Runtime("key_down", "next", "next"), Runtime("key_up", "fall", "fall")>>
      /\ Script[tool][2 + 1] = EvaluateProxied /\ Script[tool][2 + 2] = EvaluateDirect
  BY DEF Script, PressKey
<1>2. CASE k = 1
  <2>1. InScript(2, 1) /\ Script[tool][2][1].call = "key_down"
    BY <1>1, Calls DEF InScript
  <2>2. Falls
    BY <1>2, <2>1 DEF Falls, Closing
  <2> QED  BY <1>1, <1>2, <2>2, ProxyOneLeads DEF Acts, Closing
<1>3. CASE k = 2
  <2>1. Falls
    BY <1>1, <1>3, TailFalls
  <2>2. /\ Len(Script[tool][k]) = 2 /\ Script[tool][k][1] = Runtime("key_down", "next", "next")
        /\ Script[tool][k][2] = Runtime("key_up", "fall", "fall")
    BY <1>1, <1>3
  <2>3. InScript(k, 2) /\ Script[tool][k][2].call = "key_up"
    BY <1>1, <1>3, <2>2, Calls DEF InScript
  <2>4. {"key_down", "key_up"} \cap Closing = {} /\ "key_up" \notin Acts
    BY DEF Closing, Acts
  <2>5. CASE c = 1
    <3>1. Current = Runtime("key_down", "next", "next") /\ Goes("next") = {To(k, 2)}
      BY <2>2, <2>5, Labels DEF Current
    <3>2. Current.by = "runtime"
      BY <3>1, Calls
    <3> QED  BY <2>1, <2>3, <2>4, <3>1, <3>2, BothTo
  <2>6. CASE c = 2
    <3>1. Current = Runtime("key_up", "fall", "fall")
      BY <2>2, <2>6 DEF Current
    <3> QED  BY <2>1, <2>4, <3>1, FallLeads
  <2> QED  BY <2>2, <2>5, <2>6 DEF InScript
<1>4. CASE k > 2
  BY <1>1, <1>4, TailLeads
<1> QED  BY <1>2, <1>3, <1>4 DEF InScript

\* browser_console_logs.
LEMMA ConsoleLogsLeads ==
  ASSUME tool = "console", k \in Nat, c \in Nat, InScript(k, c)
  PROVE  Leads
<1>1. /\ Len(Script[tool]) = 2 + 2 /\ Script[tool][1] = ProxyOne("list_console")
      /\ Script[tool][2] = <<Runtime("enable", "fall", "fall")>>
      /\ Script[tool][2 + 1] = EvaluateProxied /\ Script[tool][2 + 2] = EvaluateDirect
  BY DEF Script, ConsoleLogs
<1>2. CASE k = 1
  <2>1. InScript(2, 1) /\ Script[tool][2][1].call = "enable"
    BY <1>1, Calls DEF InScript
  <2>2. Falls
    BY <1>2, <2>1 DEF Falls, Closing
  <2> QED  BY <1>1, <1>2, <2>2, ProxyOneLeads DEF Acting, Closing
<1>3. CASE k = 2
  <2>1. Falls
    BY <1>1, <1>3, TailFalls
  <2>2. Current = Runtime("enable", "fall", "fall")
    BY <1>1, <1>3 DEF Current, InScript
  <2> QED  BY <2>1, <2>2, FallLeads DEF Closing, Acts
<1>4. CASE k > 2
  BY <1>1, <1>4, TailLeads
<1> QED  BY <1>2, <1>3, <1>4 DEF InScript

\* browser_snapshot.
LEMMA SnapshotLeads ==
  ASSUME tool = "snapshot", k \in Nat, c \in Nat, InScript(k, c)
  PROVE  Leads
<1>1. /\ Len(Script[tool]) = 3 + 2 /\ Script[tool][1] = ProxyOne("take_snapshot")
      /\ Script[tool][2] = <<PageId, Mcp("take_snapshot", "over", "fall")>>
      /\ Script[tool][3] = <<Runtime("ax_tree", "any", "fall")>>
      /\ Script[tool][3 + 1] = EvaluateProxied /\ Script[tool][3 + 2] = EvaluateDirect
  BY DEF Script, Snapshot
<1>2. /\ InScript(2, 1) /\ InScript(3, 1) /\ InScript(2, 2) /\ InScript(4, 1)
      /\ Script[tool][2][1].call = "list_pages" /\ Script[tool][2][2].call = "take_snapshot"
      /\ Script[tool][3][1].call = "ax_tree" /\ Script[tool][4][1].call = "list_pages"
  BY <1>1, Calls DEF InScript, PageId, EvaluateProxied, ProxyOne
<1>3. /\ {"list_pages", "take_snapshot", "ax_tree"} \cap (Closing \cup Acts) = {}
      /\ tool \notin Acting
  BY DEF Closing, Acts, Acting
<1>4. k \in {1, 2, 3} => Falls
  BY <1>2, <1>3 DEF Falls
<1>5. CASE k = 1
  BY <1>1, <1>3, <1>4, <1>5, ProxyOneLeads
<1>6. CASE k = 2
  <2>1. CASE c = 1
    <3>1. Current = PageId
      BY <1>1, <1>6, <2>1 DEF Current
    <3> QED  BY <1>2, <1>3, <1>4, <1>6, <2>1, <3>1, PageIdLeads
  <2>2. CASE c = 2
    <3>1. /\ Current = Mcp("take_snapshot", "over", "fall")
          /\ Goes("over") = {To(4, 1)} /\ Goes("fall") = {To(3, 1)}
      BY <1>1, <1>6, <2>2, Labels DEF Current
    <3>2. Current.by = "mcp"
      BY <3>1, Calls
    <3> QED  BY <1>2, <1>3, <1>4, <1>6, <3>1, <3>2, BothTo
  <2>3. Len(Script[tool][k]) = 2
    BY <1>1, <1>6
  <2> QED  BY <2>1, <2>2, <2>3 DEF InScript
<1>7. CASE k = 3
  <2>1. Current = Runtime("ax_tree", "any", "fall")
    BY <1>1, <1>7 DEF Current, InScript
  <2>2. /\ Current.call = "ax_tree" /\ Current.by = "runtime"
        /\ Current.ok = "any" /\ Current.err = "fall"
    BY <2>1, Calls
  <2>3. \A g \in Goes(Current.ok) : OkLeads(g)
    BY <1>3, <1>4, <1>7, <2>2, OkPerhaps
  <2>4. \A g \in Goes(Current.err) : ErrLeads(g)
    BY <1>3, <1>4, <1>7, <2>2, ErrFall
  <2> QED  BY <2>2, <2>3, <2>4 DEF Leads
<1>8. CASE k > 3
  BY <1>1, <1>8, TailLeads
<1> QED  BY <1>5, <1>6, <1>7, <1>8 DEF InScript

\* browser_screenshot.
LEMMA ScreenshotLeads ==
  ASSUME tool = "screenshot", k \in Nat, c \in Nat, InScript(k, c)
  PROVE  Leads
<1>1. /\ Len(Script[tool]) = 3 /\ Script[tool][1] = ProxyOne("take_screenshot")
      /\ Script[tool][2] = ProxyOne("take_screenshot")
      /\ Script[tool][3] = <<Runtime("capture", "done", "fail")>>
  BY DEF Script, Screenshot
<1>2. /\ InScript(2, 1) /\ InScript(3, 1)
      /\ Script[tool][2][1].call = "list_pages" /\ Script[tool][3][1].call = "capture"
  BY <1>1, Calls DEF InScript, PageId, ProxyOne
<1>3. tool \notin Acting /\ {"list_pages", "take_screenshot", "capture"} \cap Closing = {}
  BY DEF Acting, Closing
<1>4. k \in {1, 2} => Falls
  BY <1>2, <1>3 DEF Falls
<1>5. CASE k = 1 \/ k = 2
  BY <1>1, <1>3, <1>4, <1>5, ProxyOneLeads
<1>6. CASE k = 3
  BY <1>1, <1>3, <1>6, RuntimeLeads
<1> QED  BY <1>1, <1>5, <1>6 DEF InScript

\* browser_tabs.
LEMMA TabsLeads ==
  ASSUME tool = "tabs", k \in Nat, c \in Nat, InScript(k, c)
  PROVE  Leads
<1>1. /\ Len(Script[tool]) = 5
      /\ Script[tool][1] = <<Mcp("list_all_pages", "done", "fall")>>
      /\ Script[tool][2] = <<Mcp("list_all_pages", "perhaps", "fall")>>
      /\ Script[tool][3] = <<Mcp("list_all_pages", "over", "fall")>>
      /\ Script[tool][4] = <<Runtime("get_targets", "perhaps", "fall")>>
      /\ Script[tool][5] = <<Runtime("http", "done", "fail")>>
  BY DEF Script, Tabs
<1>2. /\ InScript(2, 1) /\ InScript(3, 1) /\ InScript(4, 1) /\ InScript(5, 1)
      /\ Script[tool][2][1].call = "list_all_pages" /\ Script[tool][3][1].call = "list_all_pages"
      /\ Script[tool][4][1].call = "get_targets" /\ Script[tool][5][1].call = "http"
  BY <1>1, Calls DEF InScript
<1>3. /\ {"list_all_pages", "get_targets", "http"} \cap (Closing \cup Acts) = {}
      /\ tool \notin Acting
  BY DEF Closing, Acts, Acting
<1>4. k \in {1, 2, 3, 4} => Falls
  BY <1>2, <1>3 DEF Falls
<1>5. CASE k = 1
  <2>1. Current = Mcp("list_all_pages", "done", "fall")
    BY <1>1, <1>5 DEF Current, InScript
  <2> QED  BY <1>3, <1>4, <1>5, <2>1, LastLeads
<1>6. CASE k \in {2, 4}
  <2>1. Current = IF k = 2 THEN Mcp("list_all_pages", "perhaps", "fall")
                           ELSE Runtime("get_targets", "perhaps", "fall")
    BY <1>1, <1>6 DEF Current, InScript
  <2>2. /\ Current.call \in {"list_all_pages", "get_targets"}
        /\ Current.by \in {"mcp", "runtime"}
        /\ Current.ok = "perhaps" /\ Current.err = "fall"
    BY <2>1, Calls
  <2>3. \A g \in Goes(Current.ok) : OkLeads(g)
    BY <1>3, <1>4, <1>6, <2>2, OkPerhaps
  <2>4. \A g \in Goes(Current.err) : ErrLeads(g)
    BY <1>3, <1>4, <1>6, <2>2, ErrFall
  <2> QED  BY <1>4, <1>6, <2>2, <2>3, <2>4 DEF Leads
<1>7. CASE k = 3
  <2>1. /\ Current = Mcp("list_all_pages", "over", "fall")
        /\ Goes("over") = {To(5, 1)} /\ Goes("fall") = {To(4, 1)}
    BY <1>1, <1>7, Labels DEF Current, InScript
  <2>2. Current.by = "mcp"
    BY <2>1, Calls
  <2> QED  BY <1>2, <1>3, <1>4, <1>7, <2>1, <2>2, BothTo
<1>8. CASE k = 5
  BY <1>1, <1>3, <1>8, RuntimeLeads
<1> QED  BY <1>1, <1>5, <1>6, <1>7, <1>8 DEF InScript

\* In every script, every call leads to a call of the script or to a result, and
\* the tool's success, or a call that comes after the act, follows on the act.
LEMMA ScriptLeads ==
  ASSUME tool \in DOMAIN Script, k \in Nat, c \in Nat, InScript(k, c)
  PROVE  Leads
<1>1. tool \in {"navigate", "back", "snapshot", "screenshot", "click", "click_zero", "hover", "type",
                "select", "press", "eval", "tabs", "console", "plan"}
  BY DEF Script
<1> QED  BY <1>1, NavigateLeads, GoBackLeads, SnapshotLeads, ScreenshotLeads, ClickLeads, ClickZeroLeads,
            HoverLeads, TypeTextLeads, SelectOptionLeads, PressKeyLeads, EvaluateJsLeads,
            TabsLeads, ConsoleLogsLeads, ExecutePlanLeads

\* A script begins with a call that does not come after an act.
LEMMA ScriptBegins ==
  ASSUME NEW t \in DOMAIN Script
  PROVE  /\ 1 \in 1..Len(Script[t]) /\ 1 \in 1..Len(Script[t][1])
         /\ Script[t][1][1].call \notin Closing
<1>1. t \in {"navigate", "back", "snapshot", "screenshot", "click", "click_zero", "hover", "type",
                "select", "press", "eval", "tabs", "console", "plan"}
  BY DEF Script
<1>2. Len(Script[t]) \in Nat \ {0} /\ Len(Script[t][1]) \in Nat \ {0}
  BY <1>1 DEF Script, Navigate, GoBack, Snapshot, Screenshot, Click, ClickZero, Hover, TypeText, SelectOption,
     PressKey, EvaluateJs, Tabs, ConsoleLogs, ExecutePlan, ProxyNavigate, ProxyOne, ProxyClick,
     ProxyHover, ProxyType, ProxySelect
<1>3. Script[t][1][1].call \in {"list_pages", "list_all_pages", "plan"}
  BY <1>1, Calls DEF Script, Navigate, GoBack, Snapshot, Screenshot, Click, ClickZero, Hover, TypeText,
     SelectOption, PressKey, EvaluateJs, Tabs, ConsoleLogs, ExecutePlan, ProxyNavigate, ProxyOne,
     ProxyClick, ProxyHover, ProxyType, ProxySelect, PageId
<1> QED  BY <1>2, <1>3 DEF Closing

-----------------------------------------------------------------------------
(* The end of a call *)

\* The lines that are left when a call ends.
Rest(rest) == rest = wire \/ rest = <<>> \/ (wire # <<>> /\ rest = Tail(wire))

\* They are lines that were there.
LEMMA RestLines ==
  ASSUME TypeOK, NEW rest, Rest(rest)
  PROVE  rest \in Seq(Line) /\ \A i \in 1..Len(rest) : \E j \in 1..Len(wire) : rest[i] = wire[j]
<1>0. wire \in Seq(Line)
  BY DEF TypeOK
<1>1. CASE rest = wire
  BY <1>0, <1>1
<1>2. CASE rest = <<>>
  BY <1>2
<1>3. CASE wire # <<>> /\ rest = Tail(wire)
  <2>1. Tail(wire) \in Seq(Line) /\ Len(Tail(wire)) = Len(wire) - 1
    BY <1>0, <1>3
  <2>2. \A i \in 1..Len(Tail(wire)) : Tail(wire)[i] = wire[i + 1] /\ i + 1 \in 1..Len(wire)
    BY <1>0, <1>3, <2>1
  <2> QED  BY <1>3, <2>1, <2>2
<1> QED  BY <1>1, <1>2, <1>3 DEF Rest

\* What Goto does, for one of the places the label leads to.
LEMMA GotoStep ==
  ASSUME NEW label, NEW rest, NEW tears \in BOOLEAN, Goto(label, rest, tears), bound \in BOOLEAN,
         \A g \in Goes(label) : Target(g)
  PROVE  \E g \in Goes(label) :
           /\ Target(g) /\ k' = g.k /\ c' = g.c /\ UNCHANGED <<enabled, n, tool>>
           /\ g.to = "call" => pc' = "call" /\ result' = "none"
           /\ g.to # "call" => pc' = "idle" /\ result' = g.to
           /\ bound' \in BOOLEAN /\ torn' \in BOOLEAN /\ wire' \in {<<>>, rest}
<1>1. PICK g \in Goes(label) :
        LET leaves == g.to # "call" \/ g.k # k
        IN  /\ pc' = IF g.to = "call" THEN "call" ELSE "idle"
            /\ result' = IF g.to = "call" THEN "none" ELSE g.to
            /\ k' = g.k /\ c' = g.c
            /\ bound' = (bound /\ ~leaves)
            /\ wire' = IF leaves THEN <<>> ELSE rest
            /\ torn' = (tears /\ ~leaves)
  BY DEF Goto
<1>2. UNCHANGED <<enabled, n, tool>>
  BY DEF Goto
<1>3. bound' \in BOOLEAN /\ torn' \in BOOLEAN
  BY <1>1, Zenon
<1>4. wire' \in {<<>>, rest}
  BY <1>1
<1> QED  BY <1>1, <1>2, <1>3, <1>4

\* The end of a call keeps what the model's variables are, the place in the
\* script, and the order of the requests and the lines.
LEMMA GotoKeeps ==
  ASSUME TypeOK, Placed, Numbered, AnswerIsTrue,
         NEW label, NEW rest, NEW tears \in BOOLEAN, Goto(label, rest, tears), Rest(rest),
         \A g \in Goes(label) : Target(g),
         child' \in {"none", "running", "exited"}, nextId' = nextId,
         inbox' = inbox \/ inbox' = <<>>, restarts' \in 0..MaxRestarts, disabled' \in BOOLEAN,
         deaths' = deaths, cached' \in BOOLEAN, got' \in Tags, acts' \in 0..2, failed' \in BOOLEAN
  PROVE  TypeOK' /\ Placed' /\ Numbered' /\ LastIsOwn' /\ AnswerIsTrue'
<1>1. PICK g \in Goes(label) :
           /\ Target(g) /\ k' = g.k /\ c' = g.c /\ UNCHANGED <<enabled, n, tool>>
           /\ g.to = "call" => pc' = "call" /\ result' = "none"
           /\ g.to # "call" => pc' = "idle" /\ result' = g.to
           /\ bound' \in BOOLEAN /\ torn' \in BOOLEAN /\ wire' \in {<<>>, rest}
  BY GotoStep DEF TypeOK
<1>2. pc' \in {"call", "idle"} /\ result' \in {"none", "ok", "err"} /\ k' \in Nat /\ c' \in Nat
  BY <1>1 DEF Target
<1>3. /\ wire' \in Seq(Line)
      /\ \A i \in 1..Len(wire') : \E j \in 1..Len(wire) : wire'[i] = wire[j]
  <2>1. CASE wire' = <<>>
    BY <2>1
  <2>2. CASE wire' = rest
    <3>1. rest \in Seq(Line) /\ \A i \in 1..Len(rest) : \E j \in 1..Len(wire) : rest[i] = wire[j]
      BY RestLines
    <3> QED  BY <2>2, <3>1, Zenon
  <2> QED  BY <1>1, <2>1, <2>2
<1>4. TypeOK'
  <2>0. inbox \in Seq([id: Nat, of: Tags, act: BOOLEAN, bad: BOOLEAN])
    BY DEF TypeOK
  <2>1. inbox' \in Seq([id: Nat, of: Tags, act: BOOLEAN, bad: BOOLEAN])
    <3>1. CASE inbox' = inbox
      BY <2>0, <3>1, Zenon
    <3>2. CASE inbox' = <<>>
      BY <3>2
    <3> QED  BY <3>1, <3>2
  <2>2. Tags' = Tags
    BY DEF Tags
  <2>3. Line' = Line
    BY DEF Line, Tags
  <2> QED  BY <1>1, <1>2, <1>3, <2>1, <2>2, <2>3 DEF TypeOK
<1>5. Placed'
  <2>1. pc' = "call" => InScript(k, c)' /\ result' = "none"
    BY <1>1 DEF Target, InScript
  <2> QED  BY <1>2, <2>1 DEF Placed
<1>6. Numbered'
  <2>1. \A i \in 1..Len(inbox') : i \in 1..Len(inbox) /\ inbox'[i] = inbox[i]
    OBVIOUS
  <2>2. nextId' >= 1 /\ pc' # "reading"
    BY <1>2 DEF Numbered
  <2>3. \A i \in 1..Len(inbox') : inbox'[i].id \in 1..nextId' - 1 /\ inbox'[i].of.n <= n'
    BY <1>1, <2>1 DEF Numbered
  <2>4. \A i, j \in 1..Len(inbox') : i < j => inbox'[i].id < inbox'[j].id
    BY <2>1 DEF Numbered
  <2>5. \A i \in 1..Len(wire') : wire'[i].id < nextId'
    BY <1>3 DEF Numbered
  <2>6. \A i \in 1..Len(wire'), j \in 1..Len(inbox') : wire'[i].id < inbox'[j].id
    BY <1>3, <2>1 DEF Numbered
  <2> QED  BY <2>2, <2>3, <2>4, <2>5, <2>6 DEF Numbered
<1>7. LastIsOwn'
  BY <1>2 DEF LastIsOwn
<1>8. AnswerIsTrue'
  <2>1. \A i \in 1..Len(wire') : wire'[i].torn => wire'[i].of = NoTag /\ ~wire'[i].ok
    BY <1>3 DEF AnswerIsTrue
  <2>2. NoTag' = NoTag
    BY DEF NoTag
  <2> QED  BY <1>2, <2>1, <2>2 DEF AnswerIsTrue
<1> QED  BY <1>4, <1>5, <1>6, <1>7, <1>8

\* What the end of a call does to the act: no other request is left that could
\* carry it out, and the tool's counter only grows.
Quiet ==
  /\ acts \in Nat /\ acts' \in Nat /\ acts' >= acts
  /\ Sure' => Sure
  /\ Sure' => \A i \in 1..Len(inbox') : ~(inbox'[i].act /\ inbox'[i].of.n = n)

\* A call that succeeds, having carried out the tool if it is one that does.
LEMMA OkEnds ==
  ASSUME TypeOK, ClosingAfterAct, DoneOnce, Leads, Quiet, pc # "idle",
         NEW rest, NEW tears \in BOOLEAN, Goto(Current.ok, rest, tears),
         Current.by = "mcp" => enabled, Current.call # "bad_script",
         Current.call \in Acts => acts' > 0, Current.call \notin Acts => acts' = acts
  PROVE  ClosingAfterAct' /\ DoneOnce' /\ SuccessWasCarriedOut'
<1>1. \A g \in Goes(Current.ok) : OkLeads(g)
  BY DEF Leads
<1>2. PICK g \in Goes(Current.ok) :
           /\ Target(g) /\ k' = g.k /\ c' = g.c /\ UNCHANGED <<enabled, n, tool>>
           /\ g.to = "call" => pc' = "call" /\ result' = "none"
           /\ g.to # "call" => pc' = "idle" /\ result' = g.to
           /\ bound' \in BOOLEAN /\ torn' \in BOOLEAN /\ wire' \in {<<>>, rest}
  BY <1>1, GotoStep DEF OkLeads, TypeOK
<1>3. OkLeads(g) /\ Current'.call = At(g) /\ Current'.by = By(g)
  BY <1>1, <1>2 DEF Current, At, By
<1>4. acts' > 0 \/ (Current.call \notin Acts \cup Closing /\ acts' = acts)
  BY DEF ClosingAfterAct, Quiet
<1>5. ClosingAfterAct'
  <2>1. (pc' # "idle" /\ Current'.call \in Closing) => Current.call \in Acts
    BY <1>2, <1>3 DEF OkLeads
  <2>2. (pc' # "idle" /\ Current'.call \in Closing /\ Current'.by = "mcp") => enabled'
    BY <1>2, <1>3 DEF OkLeads
  <2> QED  BY <2>1, <2>2 DEF ClosingAfterAct
<1>6. DoneOnce'
  <2>1. Sure' => \A i \in 1..Len(inbox') : ~(inbox'[i].act /\ inbox'[i].of.n = n')
    BY <1>2 DEF Quiet
  <2>2. ASSUME Sure', acts' > 0, pc' # "idle"
        PROVE  Current'.call \in Closing
    <3>1. Current.call \notin Closing /\ (Current.call \in Acts => At(g) \in Closing)
      BY <1>2, <1>3, <2>2 DEF OkLeads, Sure
    <3>2. Current.call \in Acts
      BY <2>2, <3>1 DEF DoneOnce, Quiet
    <3> QED  BY <1>3, <3>1, <3>2
  <2> QED  BY <2>1, <2>2 DEF DoneOnce
<1>7. SuccessWasCarriedOut'
  <2>1. (result' = "ok" /\ tool \in Acting) => Current.call \in Acts \cup Closing \cup {"bad_script"}
    BY <1>2, <1>3 DEF OkLeads
  <2> QED  BY <1>2, <1>4, <2>1 DEF SuccessWasCarriedOut
<1> QED  BY <1>5, <1>6, <1>7

\* A call that fails: it has not carried out the tool, or was sent to do so.
LEMMA ErrEnds ==
  ASSUME TypeOK, ClosingAfterAct, DoneOnce, Leads, Quiet, pc # "idle",
         NEW rest, NEW tears \in BOOLEAN, Goto(Current.err, rest, tears),
         Sure' => acts' = acts,
         (Sure' /\ pc = "reading") => Current.call \notin Acts
  PROVE  ClosingAfterAct' /\ DoneOnce' /\ SuccessWasCarriedOut'
<1>1. \A g \in Goes(Current.err) : ErrLeads(g)
  BY DEF Leads
<1>2. PICK g \in Goes(Current.err) :
           /\ Target(g) /\ k' = g.k /\ c' = g.c /\ UNCHANGED <<enabled, n, tool>>
           /\ g.to = "call" => pc' = "call" /\ result' = "none"
           /\ g.to # "call" => pc' = "idle" /\ result' = g.to
           /\ bound' \in BOOLEAN /\ torn' \in BOOLEAN /\ wire' \in {<<>>, rest}
  BY <1>1, GotoStep DEF ErrLeads, TypeOK
<1>3. ErrLeads(g) /\ Current'.call = At(g)
  BY <1>1, <1>2 DEF Current, At
<1>4. ClosingAfterAct'
  <2>1. pc' # "idle" => Current'.call \notin Closing
    BY <1>2, <1>3 DEF ErrLeads
  <2> QED  BY <2>1 DEF ClosingAfterAct
<1>5. DoneOnce'
  <2>1. Sure' => \A i \in 1..Len(inbox') : ~(inbox'[i].act /\ inbox'[i].of.n = n')
    BY <1>2 DEF Quiet
  <2>2. ASSUME Sure', acts' > 0, pc' # "idle"
        PROVE  FALSE
    <3>1. Current.call \notin Closing
      BY <1>2, <1>3, <2>2 DEF ErrLeads
    <3> QED  BY <2>2, <3>1 DEF DoneOnce, Quiet
  <2> QED  BY <2>1, <2>2 DEF DoneOnce
<1>6. SuccessWasCarriedOut'
  <2>1. (result' = "ok" /\ tool \in Acting) => Current.call \in Closing
    BY <1>2, <1>3 DEF ErrLeads
  <2> QED  BY <1>2, <2>1 DEF SuccessWasCarriedOut, ClosingAfterAct, Quiet
<1> QED  BY <1>4, <1>5, <1>6

\* Falling back leads to a call of the script.
LEMMA FallTargets ==
  ASSUME k \in Nat, Falls
  PROVE  \A g \in Goes("fall") : Target(g)
<1>1. Goes("fall") = {To(k + 1, 1)} /\ To(k + 1, 1).to = "call"
      /\ To(k + 1, 1).k = k + 1 /\ To(k + 1, 1).c = 1
  BY Labels, Targets
<1> QED  BY <1>1 DEF Target, Falls

\* proxy_enabled is false: the tool has not been carried out yet.
LEMMA OffEnds ==
  ASSUME TypeOK, ClosingAfterAct, DoneOnce, Falls, Quiet, pc = "call", ~enabled,
         Current.by = "mcp", NEW rest, NEW tears \in BOOLEAN, Goto("fall", rest, tears),
         acts' = acts, failed' = failed
  PROVE  ClosingAfterAct' /\ DoneOnce' /\ SuccessWasCarriedOut'
<1>0. k \in Nat
  BY DEF TypeOK
<1>1. Goes("fall") = {To(k + 1, 1)} /\ To(k + 1, 1).to = "call"
      /\ To(k + 1, 1).k = k + 1 /\ To(k + 1, 1).c = 1
  BY Labels, Targets
<1>2. \A g \in Goes("fall") : Target(g)
  BY <1>0, FallTargets
<1>3. /\ k' = k + 1 /\ c' = 1 /\ UNCHANGED <<enabled, n, tool>>
      /\ pc' = "call" /\ result' = "none"
  BY <1>1, <1>2, GotoStep DEF TypeOK
<1>4. Current'.call \notin Closing
  BY <1>3 DEF Current, Falls
<1>5. Current.call \notin Closing
  BY DEF ClosingAfterAct
<1>6. (Sure => ~(acts > 0)) /\ (Sure' <=> Sure)
  BY <1>3, <1>5 DEF DoneOnce, Sure
<1>7. Sure' => \A i \in 1..Len(inbox') : ~(inbox'[i].act /\ inbox'[i].of.n = n')
  BY <1>3 DEF Quiet
<1> QED  BY <1>3, <1>4, <1>6, <1>7 DEF ClosingAfterAct, DoneOnce, SuccessWasCarriedOut

\* A call that is not waiting for the child has left no request to it that could
\* still carry out the tool.
LEMMA QuietCall ==
  ASSUME TypeOK, DoneOnce, pc # "reading", acts' \in Nat, acts' >= acts,
         Sure' => Sure, inbox' = inbox \/ inbox' = <<>>
  PROVE  Quiet
<1>1. acts \in Nat
  BY DEF TypeOK
<1>2. Sure => \A i \in 1..Len(inbox) : ~(inbox[i].act /\ inbox[i].of.n = n)
  BY DEF DoneOnce
<1>3. Sure' => \A i \in 1..Len(inbox') : ~(inbox'[i].act /\ inbox'[i].of.n = n)
  <2>1. CASE inbox' = inbox
    BY <1>2, <2>1
  <2>2. CASE inbox' = <<>>
    BY <2>2
  <2> QED  BY <2>1, <2>2
<1> QED  BY <1>1, <1>3 DEF Quiet

\* Whether the tool is sure to act once depends on its failures only.
LEMMA SureStays ==
  ASSUME failed' = failed, tool' = tool
  PROVE  Sure' <=> Sure
BY DEF Sure

\* The end of a call stays with its tool.
LEMMA GotoSameTool ==
  ASSUME NEW label, NEW rest, NEW tears, Goto(label, rest, tears)
  PROVE  tool' = tool /\ n' = n /\ enabled' = enabled
BY DEF Goto

\* How the tool's counter changes.
LEMMA DoneStep ==
  ASSUME acts \in 0..2, NEW of, NEW act, Done(of, act)
  PROVE  /\ acts' \in 0..2 /\ acts' >= acts /\ acts' <= acts + 1
         /\ (act /\ of.n = n) => acts' > 0
         /\ ~(act /\ of.n = n) => acts' = acts
BY DEF Done

\* Where a call that succeeds or fails leads is in the script.
LEMMA LeadsTargets ==
  ASSUME Leads
  PROVE  /\ \A g \in Goes(Current.ok) : Target(g)
         /\ \A g \in Goes(Current.err) : Target(g)
BY DEF Leads, OkLeads, ErrLeads

\* A tool that runs is at a call that leads on.
LEMMA PlacedLeads ==
  ASSUME TypeOK, Placed, pc # "idle"
  PROVE  Leads
BY ScriptLeads DEF TypeOK, Placed

\* A call that fails before it is sent, with nothing else done.
LEMMA FailsKeeps ==
  ASSUME IInv, pc \in {"call", "alive", "connecting"}, NEW rest, Rest(rest), NEW tears \in BOOLEAN,
         Fails(rest, tears), child' \in {"none", "running", "exited"}, nextId' = nextId,
         inbox' = inbox \/ inbox' = <<>>, restarts' \in 0..MaxRestarts, disabled' \in BOOLEAN,
         deaths' = deaths, UNCHANGED <<got, acts, failed>>
  PROVE  IInv'
<1>0. /\ TypeOK /\ Placed /\ Numbered /\ AnswerIsTrue /\ ClosingAfterAct /\ DoneOnce
      /\ TwiceOnlyAfterFailure
  BY DEF IInv
<1>1. Leads
  BY <1>0, PlacedLeads
<1>2. Goto(Current.err, rest, tears) /\ UNCHANGED cached
  BY DEF Fails
<1>3. cached' \in BOOLEAN /\ got' \in Tags /\ acts' \in 0..2 /\ acts' \in Nat /\ acts' >= acts /\ failed' \in BOOLEAN
  BY <1>0, <1>2 DEF TypeOK
<1>9. tool' = tool /\ (Sure' <=> Sure)
  BY <1>2, GotoSameTool, SureStays
<1>4. Quiet
  BY <1>0, <1>3, <1>9, QuietCall
<1>5. \A g \in Goes(Current.err) : Target(g)
  BY <1>1, LeadsTargets
<1>6. TypeOK' /\ Placed' /\ Numbered' /\ LastIsOwn' /\ AnswerIsTrue'
  BY <1>0, <1>2, <1>3, <1>5, GotoKeeps
<1>7. ClosingAfterAct' /\ DoneOnce' /\ SuccessWasCarriedOut'
  BY <1>0, <1>1, <1>2, <1>4, ErrEnds
<1>8. TwiceOnlyAfterFailure'
  BY <1>0, <1>9 DEF TwiceOnlyAfterFailure
<1> QED  BY <1>6, <1>7, <1>8 DEF IInv

\* The torn flag is Boolean.
LEMMA TornType == ASSUME IInv PROVE torn \in BOOLEAN /\ Rest(wire) /\ Rest(<<>>)
BY DEF IInv, TypeOK, Rest

\* The child has been given up.
LEMMA McpDisabledKeeps == ASSUME IInv, McpDisabled PROVE IInv'
<1>1. /\ pc = "call" /\ Fails(wire, torn)
      /\ UNCHANGED <<child, inbox, nextId, restarts, disabled, deaths, got, acts, failed>>
  BY DEF McpDisabled, McpCalls
<1>2. child' \in {"none", "running", "exited"} /\ restarts' \in 0..MaxRestarts /\ disabled' \in BOOLEAN
  BY <1>1 DEF IInv, TypeOK
<1> QED  BY <1>1, <1>2, TornType, FailsKeeps

\* The child is given up.
LEMMA McpExhaustedKeeps == ASSUME IInv, McpExhausted PROVE IInv'
<1>1. /\ pc = "call" /\ Fails(wire, torn) /\ disabled' = TRUE
      /\ UNCHANGED <<child, inbox, nextId, restarts, deaths, got, acts, failed>>
  BY DEF McpExhausted, McpCalls
<1>2. child' \in {"none", "running", "exited"} /\ restarts' \in 0..MaxRestarts /\ disabled' \in BOOLEAN
  BY <1>1 DEF IInv, TypeOK
<1> QED  BY <1>1, <1>2, TornType, FailsKeeps

\* A child that does not start.
LEMMA McpSpawnFailsKeeps == ASSUME IInv, McpSpawnFails PROVE IInv'
<1>1. /\ pc = "call" /\ Fails(<<>>, FALSE) /\ child' = "none" /\ inbox' = <<>>
      /\ restarts' = IF restarts = MaxRestarts THEN 0 ELSE restarts
      /\ UNCHANGED <<nextId, disabled, deaths, got, acts, failed>>
  BY DEF McpSpawnFails, McpCalls
<1>2. child' \in {"none", "running", "exited"} /\ restarts' \in 0..MaxRestarts /\ disabled' \in BOOLEAN
  BY <1>1, ToolsAssumption DEF IInv, TypeOK
<1> QED  BY <1>1, <1>2, TornType, FailsKeeps

\* A request that cannot be written.
LEMMA McpNotSentKeeps == ASSUME IInv, McpNotSent PROVE IInv'
<1>1. /\ pc = "alive" /\ Fails(wire, torn)
      /\ UNCHANGED <<child, inbox, nextId, restarts, disabled, deaths, got, acts, failed>>
  BY DEF McpNotSent
<1>2. child' \in {"none", "running", "exited"} /\ restarts' \in 0..MaxRestarts /\ disabled' \in BOOLEAN
  BY <1>1 DEF IInv, TypeOK
<1> QED  BY <1>1, <1>2, TornType, FailsKeeps

\* Without the proxy.
LEMMA McpOffKeeps == ASSUME IInv, McpOff PROVE IInv'
<1>0. /\ TypeOK /\ Placed /\ Numbered /\ AnswerIsTrue /\ ClosingAfterAct /\ DoneOnce
      /\ TwiceOnlyAfterFailure
  BY DEF IInv
<1>1. /\ pc = "call" /\ Current.by = "mcp" /\ ~enabled /\ Goto("fall", wire, torn)
      /\ UNCHANGED <<child, inbox, nextId, restarts, disabled, deaths, cached, got, acts, failed>>
  BY DEF McpOff, McpCalls
<1>2. Falls
  BY <1>0, <1>1, PlacedLeads DEF Leads
<1>3. /\ cached' \in BOOLEAN /\ got' \in Tags /\ acts' \in 0..2 /\ acts' \in Nat /\ acts' >= acts
      /\ failed' \in BOOLEAN /\ child' \in {"none", "running", "exited"}
      /\ restarts' \in 0..MaxRestarts /\ disabled' \in BOOLEAN
  BY <1>0, <1>1 DEF TypeOK
<1>9. tool' = tool /\ (Sure' <=> Sure)
  BY <1>1, GotoSameTool, SureStays
<1>4. Quiet
  BY <1>0, <1>1, <1>3, <1>9, QuietCall
<1>5. \A g \in Goes("fall") : Target(g)
  BY <1>0, <1>2, FallTargets DEF TypeOK
<1>6. TypeOK' /\ Placed' /\ Numbered' /\ LastIsOwn' /\ AnswerIsTrue'
  BY <1>0, <1>1, <1>3, <1>5, TornType, GotoKeeps
<1>7. ClosingAfterAct' /\ DoneOnce' /\ SuccessWasCarriedOut'
  BY <1>0, <1>1, <1>2, <1>4, TornType, OffEnds
<1>8. TwiceOnlyAfterFailure'
  BY <1>0, <1>1, <1>9 DEF TwiceOnlyAfterFailure
<1> QED  BY <1>6, <1>7, <1>8 DEF IInv

\* The pages are known.
LEMMA McpCachedPagesKeeps == ASSUME IInv, McpCachedPages PROVE IInv'
<1>0. /\ TypeOK /\ Placed /\ Numbered /\ AnswerIsTrue /\ ClosingAfterAct /\ DoneOnce
      /\ TwiceOnlyAfterFailure
  BY DEF IInv
<1>1. /\ pc = "call" /\ Current.call = "list_pages" /\ enabled /\ Goto(Current.ok, wire, torn)
      /\ UNCHANGED <<child, inbox, nextId, restarts, disabled, deaths, cached, got, acts, failed>>
  BY DEF McpCachedPages, McpCalls
<1>2. Leads
  BY <1>0, <1>1, PlacedLeads
<1>3. /\ cached' \in BOOLEAN /\ got' \in Tags /\ acts' \in 0..2 /\ acts' \in Nat /\ acts' >= acts
      /\ failed' \in BOOLEAN /\ child' \in {"none", "running", "exited"}
      /\ restarts' \in 0..MaxRestarts /\ disabled' \in BOOLEAN
  BY <1>0, <1>1 DEF TypeOK
<1>10. tool' = tool /\ (Sure' <=> Sure)
  BY <1>1, GotoSameTool, SureStays
<1>4. Quiet
  BY <1>0, <1>1, <1>3, <1>10, QuietCall
<1>5. \A g \in Goes(Current.ok) : Target(g)
  BY <1>2, LeadsTargets
<1>6. TypeOK' /\ Placed' /\ Numbered' /\ LastIsOwn' /\ AnswerIsTrue'
  BY <1>0, <1>1, <1>3, <1>5, TornType, GotoKeeps
<1>7. Current.call \notin Acts /\ Current.call # "bad_script"
  BY <1>1 DEF Acts
<1>8. ClosingAfterAct' /\ DoneOnce' /\ SuccessWasCarriedOut'
  BY <1>0, <1>1, <1>2, <1>4, <1>7, TornType, OkEnds
<1>9. TwiceOnlyAfterFailure'
  BY <1>0, <1>1, <1>10 DEF TwiceOnlyAfterFailure
<1> QED  BY <1>6, <1>8, <1>9 DEF IInv

\* click_by_ref with ref 0.
LEMMA NoCallKeeps == ASSUME IInv, NoCall PROVE IInv'
<1>0. /\ TypeOK /\ Placed /\ Numbered /\ AnswerIsTrue /\ ClosingAfterAct /\ DoneOnce
      /\ TwiceOnlyAfterFailure
  BY DEF IInv
<1>1. /\ pc = "call" /\ Current.by = "none" /\ Goto(Current.ok, wire, torn)
      /\ UNCHANGED <<child, inbox, nextId, restarts, disabled, deaths, cached, got, acts, failed>>
  BY DEF NoCall
<1>2. Leads
  BY <1>0, <1>1, PlacedLeads
<1>3. /\ cached' \in BOOLEAN /\ got' \in Tags /\ acts' \in 0..2 /\ acts' \in Nat /\ acts' >= acts
      /\ failed' \in BOOLEAN /\ child' \in {"none", "running", "exited"}
      /\ restarts' \in 0..MaxRestarts /\ disabled' \in BOOLEAN
  BY <1>0, <1>1 DEF TypeOK
<1>4. tool' = tool /\ (Sure' <=> Sure)
  BY <1>1, GotoSameTool, SureStays
<1>5. Quiet
  BY <1>0, <1>1, <1>3, <1>4, QuietCall
<1>6. \A g \in Goes(Current.ok) : Target(g)
  BY <1>2, LeadsTargets
<1>7. TypeOK' /\ Placed' /\ Numbered' /\ LastIsOwn' /\ AnswerIsTrue'
  BY <1>0, <1>1, <1>3, <1>6, TornType, GotoKeeps
<1>8. Current.call \notin Acts /\ Current.call # "bad_script"
  BY <1>1, <1>2 DEF Acts, Leads
<1>9. ClosingAfterAct' /\ DoneOnce' /\ SuccessWasCarriedOut'
  BY <1>0, <1>1, <1>2, <1>5, <1>8, TornType, OkEnds
<1>10. TwiceOnlyAfterFailure'
  BY <1>0, <1>1, <1>4 DEF TwiceOnlyAfterFailure
<1> QED  BY <1>7, <1>9, <1>10 DEF IInv

-----------------------------------------------------------------------------
(* Reading the child's answers *)

\* Once the answer to the last request is on the wire no request is left.
LEMMA AnsweredEmpty ==
  ASSUME TypeOK, Numbered, NEW j \in 1..Len(wire), wire[j].id = nextId - 1
  PROVE  1..Len(inbox) = {}
<1> SUFFICES ASSUME NEW i \in 1..Len(inbox) PROVE FALSE
  OBVIOUS
<1>1. inbox[i].id \in 1..nextId - 1 /\ wire[j].id < inbox[i].id
  BY DEF Numbered
<1>2. nextId \in Nat
  BY DEF TypeOK
<1> QED  BY <1>1, <1>2

\* A call that ends without its answer leaves no request that could carry out the
\* tool, unless it was such a request.
LEMMA QuietUnanswered ==
  ASSUME TypeOK, LastIsOwn, DoneOnce, pc = "reading", inbox' = inbox, acts' = acts,
         tool' = tool, failed' = (failed \/ Current.call \in Acts)
  PROVE  Quiet
<1>1. acts \in Nat /\ acts' \in Nat /\ acts' >= acts
  BY DEF TypeOK
<1>2. Sure' => Sure /\ Current.call \notin Acts
  BY DEF Sure
<1>3. ASSUME Sure', NEW i \in 1..Len(inbox'), inbox'[i].act, inbox'[i].of.n = n
      PROVE  FALSE
  <2>1. Sure /\ Current.call \notin Acts
    BY <1>2, <1>3
  <2>2. i \in 1..Len(inbox) /\ inbox[i].act /\ inbox[i].of.n = n
    BY <1>3
  <2>3. inbox[i].id = nextId - 1
    BY <2>1, <2>2 DEF DoneOnce
  <2>4. inbox[i].act = (Current.call \in Acts)
    BY <2>2, <2>3 DEF LastIsOwn
  <2> QED  BY <2>1, <2>2, <2>4
<1> QED  BY <1>1, <1>2, <1>3 DEF Quiet

\* MCP_TIMEOUT, or the end of the child's output.
LEMMA McpGivesUpKeeps == ASSUME IInv, McpGivesUp PROVE IInv'
<1>0. /\ TypeOK /\ Placed /\ Numbered /\ LastIsOwn /\ AnswerIsTrue /\ ClosingAfterAct /\ DoneOnce
      /\ TwiceOnlyAfterFailure
  BY DEF IInv
<1>1. PICK tears \in BOOLEAN : Fails(<<>>, tears)
  BY DEF McpGivesUp
<1>2. /\ pc = "reading" /\ failed' = (failed \/ Current.call \in Acts)
      /\ UNCHANGED <<child, inbox, nextId, restarts, disabled, deaths, got, acts>>
  BY DEF McpGivesUp
<1>3. Leads
  BY <1>0, <1>2, PlacedLeads
<1>4. Goto(Current.err, <<>>, tears) /\ UNCHANGED cached
  BY <1>1 DEF Fails
<1>5. /\ cached' \in BOOLEAN /\ got' \in Tags /\ acts' \in 0..2
      /\ child' \in {"none", "running", "exited"}
      /\ restarts' \in 0..MaxRestarts /\ disabled' \in BOOLEAN
  BY <1>0, <1>2, <1>4 DEF TypeOK
<1>6. failed' \in BOOLEAN
  BY <1>2, Zenon
<1>12. tool' = tool /\ (Sure' => Sure /\ Current.call \notin Acts)
  BY <1>2, <1>4, GotoSameTool DEF Sure
<1>7. Quiet
  BY <1>0, <1>2, <1>12, QuietUnanswered
<1>8. \A g \in Goes(Current.err) : Target(g)
  BY <1>3, LeadsTargets
<1>9. TypeOK' /\ Placed' /\ Numbered' /\ LastIsOwn' /\ AnswerIsTrue'
  BY <1>0, <1>2, <1>4, <1>5, <1>6, <1>8, TornType, GotoKeeps
<1>10. ClosingAfterAct' /\ DoneOnce' /\ SuccessWasCarriedOut'
  BY <1>0, <1>2, <1>3, <1>4, <1>7, <1>12, ErrEnds
<1>11. TwiceOnlyAfterFailure'
  BY <1>0, <1>2, <1>12 DEF TwiceOnlyAfterFailure
<1> QED  BY <1>9, <1>10, <1>11 DEF IInv

\* Its own answer, or a torn line.
LEMMA McpReadsKeeps == ASSUME IInv, McpReads PROVE IInv'
<1> DEFINE line == Head(wire)
<1>0. /\ TypeOK /\ Placed /\ Numbered /\ LastIsOwn /\ AnswerIsTrue /\ ClosingAfterAct /\ DoneOnce
      /\ TwiceOnlyAfterFailure
  BY DEF IInv
<1>1. /\ pc = "reading" /\ wire # <<>>
      /\ line.torn \/ line.id = nextId - 1
      /\ got' = line.of
      /\ failed' = (failed \/ (~line.ok /\ Current.call \in Acts))
      /\ line.ok => Succeeds(Tail(wire))
      /\ ~line.ok => Fails(Tail(wire), torn)
      /\ UNCHANGED <<child, inbox, nextId, restarts, disabled, deaths, acts>>
  BY DEF McpReads
<1>2. line \in Line /\ 1 \in 1..Len(wire) /\ line = wire[1] /\ Rest(Tail(wire))
  BY <1>0, <1>1 DEF TypeOK, Rest
<1>3. line.torn => line.of = NoTag /\ ~line.ok
  BY <1>0, <1>2 DEF AnswerIsTrue
<1>4. ~line.torn =>
        /\ line.id = nextId - 1 /\ line.of = Tag
        /\ line.ok => Current.call # "bad_script" /\ (Current.call \in Acts => acts > 0)
  BY <1>0, <1>1, <1>2 DEF AnswerIsTrue
<1>5. Leads
  BY <1>0, <1>1, PlacedLeads
<1>6. /\ got' \in Tags /\ acts' \in 0..2 /\ acts \in Nat /\ acts' \in Nat
      /\ child' \in {"none", "running", "exited"} /\ torn \in BOOLEAN
      /\ restarts' \in 0..MaxRestarts /\ disabled' \in BOOLEAN
  BY <1>0, <1>1, <1>2 DEF TypeOK, Line
<1>7. failed' \in BOOLEAN
  BY <1>1, Zenon
<1>12. tool' = tool /\ (Sure' => Sure /\ (~line.ok => Current.call \notin Acts))
  <2>1. tool' = tool
    BY <1>1, GotoSameTool DEF Succeeds, Fails
  <2> QED  BY <1>1, <2>1 DEF Sure
<1>8. Quiet
  <2>1. CASE line.torn
    <3>1. failed' = (failed \/ Current.call \in Acts)
      BY <1>1, <1>3, <2>1
    <3> QED  BY <1>0, <1>1, <1>12, <3>1, QuietUnanswered
  <2>2. CASE ~line.torn
    <3>1. 1..Len(inbox) = {}
      BY <1>0, <1>2, <1>4, <2>2, AnsweredEmpty
    <3>2. 1..Len(inbox') = {}
      BY <1>1, <3>1
    <3>3. Sure' => Sure
      BY <1>12
    <3>4. acts' >= acts
      BY <1>1, <1>6
    <3> QED  BY <1>6, <3>2, <3>3, <3>4 DEF Quiet
  <2> QED  BY <2>1, <2>2
<1>9. TwiceOnlyAfterFailure'
  BY <1>0, <1>1, <1>12 DEF TwiceOnlyAfterFailure
<1>10. CASE line.ok
  <2>1. Goto(Current.ok, Tail(wire), torn)
    BY <1>1, <1>10 DEF Succeeds
  <2>2. cached' \in BOOLEAN
    <3>1. cached' = \/ Current.call \in {"list_pages", "list_all_pages"}
                    \/ cached /\ Current.call # "new_page"
      BY <1>1, <1>10 DEF Succeeds
    <3> QED  BY <3>1, Zenon
  <2>3. \A g \in Goes(Current.ok) : Target(g)
    BY <1>5, LeadsTargets
  <2>4. TypeOK' /\ Placed' /\ Numbered' /\ LastIsOwn' /\ AnswerIsTrue'
    BY <1>0, <1>1, <1>2, <1>6, <1>7, <2>1, <2>2, <2>3, GotoKeeps
  <2>5. ~line.torn
    BY <1>3, <1>10
  <2>6. enabled /\ Current.call # "bad_script" /\ (Current.call \in Acts => acts > 0)
    BY <1>0, <1>1, <1>4, <1>10, <2>5 DEF Placed
  <2>7. ClosingAfterAct' /\ DoneOnce' /\ SuccessWasCarriedOut'
    BY <1>0, <1>1, <1>5, <1>6, <1>8, <2>1, <2>6, OkEnds
  <2> QED  BY <1>9, <2>4, <2>7 DEF IInv
<1>11. CASE ~line.ok
  <2>1. Goto(Current.err, Tail(wire), torn) /\ cached' = cached
    BY <1>1, <1>11 DEF Fails
  <2>2. cached' \in BOOLEAN
    BY <1>0, <2>1 DEF TypeOK
  <2>3. \A g \in Goes(Current.err) : Target(g)
    BY <1>5, LeadsTargets
  <2>4. TypeOK' /\ Placed' /\ Numbered' /\ LastIsOwn' /\ AnswerIsTrue'
    BY <1>0, <1>1, <1>2, <1>6, <1>7, <2>1, <2>2, <2>3, GotoKeeps
  <2>5. Sure' => Current.call \notin Acts
    BY <1>11, <1>12
  <2>6. ClosingAfterAct' /\ DoneOnce' /\ SuccessWasCarriedOut'
    BY <1>0, <1>1, <1>5, <1>6, <1>8, <2>1, <2>5, ErrEnds
  <2> QED  BY <1>9, <2>4, <2>6 DEF IInv
<1> QED  BY <1>10, <1>11

-----------------------------------------------------------------------------
(* The runtime's answers *)

\* A call over the daemon, or over a connection of its own.
LEMMA RuntimeEndsKeeps == ASSUME IInv, pc \in {"daemon", "direct"}, RuntimeEnds PROVE IInv'
<1> DEFINE act == Current.call \in Acts
<1>0. /\ TypeOK /\ Placed /\ Numbered /\ AnswerIsTrue /\ ClosingAfterAct /\ DoneOnce
      /\ TwiceOnlyAfterFailure
  BY DEF IInv
<1>1. UNCHANGED <<child, inbox, nextId, restarts, disabled, deaths, got>>
  BY DEF RuntimeEnds
<1>2. Leads /\ Current.by = "runtime" /\ Current.call # "bad_script"
  <2>1. Leads /\ Current.by = "runtime"
    BY <1>0, PlacedLeads DEF Placed
  <2> QED  BY <2>1 DEF Leads
<1>3. /\ got' \in Tags /\ acts \in 0..2 /\ failed \in BOOLEAN /\ torn \in BOOLEAN
      /\ child' \in {"none", "running", "exited"} /\ cached \in BOOLEAN
      /\ restarts' \in 0..MaxRestarts /\ disabled' \in BOOLEAN
  BY <1>0, <1>1 DEF TypeOK
<1>4. Tag.n = n /\ Rest(wire)
  BY DEF Tag, Rest
<1>5. (acts > 0 /\ Sure) => Current.call \in Closing /\ ~act
  <2>1. (acts > 0 /\ Sure) => Current.call \in Closing
    BY <1>0 DEF DoneOnce
  <2> QED  BY <2>1 DEF Closing, Acts
<1>6. ASSUME Done(Tag, act), Succeeds(wire), failed' = failed
      PROVE  IInv'
  <2>1. /\ acts' \in 0..2 /\ acts' \in Nat /\ acts' >= acts /\ acts' <= acts + 1
        /\ act => acts' > 0
        /\ ~act => acts' = acts
    BY <1>3, <1>4, <1>6 DEF Done
  <2>2. Goto(Current.ok, wire, torn)
    BY <1>6 DEF Succeeds
  <2>3. cached' \in BOOLEAN
    <3>1. cached' = \/ Current.call \in {"list_pages", "list_all_pages"}
                    \/ cached /\ Current.call # "new_page"
      BY <1>6 DEF Succeeds
    <3> QED  BY <3>1, Zenon
  <2>9. tool' = tool /\ (Sure' <=> Sure)
    BY <1>6, <2>2, GotoSameTool, SureStays
  <2>4. Quiet
    BY <1>0, <1>1, <2>1, <2>9, QuietCall
  <2>5. \A g \in Goes(Current.ok) : Target(g)
    BY <1>2, LeadsTargets
  <2>6. TypeOK' /\ Placed' /\ Numbered' /\ LastIsOwn' /\ AnswerIsTrue'
    BY <1>0, <1>1, <1>3, <1>4, <1>6, <2>1, <2>2, <2>3, <2>5, GotoKeeps
  <2>7. ClosingAfterAct' /\ DoneOnce' /\ SuccessWasCarriedOut'
    BY <1>0, <1>2, <1>3, <2>1, <2>2, <2>4, OkEnds
  <2>8. TwiceOnlyAfterFailure'
    BY <1>0, <1>3, <1>5, <1>6, <2>1, <2>9 DEF TwiceOnlyAfterFailure, Sure
  <2> QED  BY <2>6, <2>7, <2>8 DEF IInv
<1>7. ASSUME Fails(wire, torn), acts' = acts \/ Done(Tag, act), failed' \in BOOLEAN,
             failed => failed', Sure' => acts' = acts
      PROVE  IInv'
  <2>1. acts' \in 0..2 /\ acts' \in Nat /\ acts' >= acts
    BY <1>3, <1>7, DoneStep
  <2>2. Goto(Current.err, wire, torn) /\ cached' = cached
    BY <1>7 DEF Fails
  <2>3. tool' = tool /\ (Sure' => Sure)
    BY <1>7, <2>2, GotoSameTool DEF Sure
  <2>4. Quiet
    BY <1>0, <1>1, <2>1, <2>3, QuietCall
  <2>5. \A g \in Goes(Current.err) : Target(g)
    BY <1>2, LeadsTargets
  <2>6. TypeOK' /\ Placed' /\ Numbered' /\ LastIsOwn' /\ AnswerIsTrue'
    BY <1>0, <1>1, <1>3, <1>4, <1>7, <2>1, <2>2, <2>5, GotoKeeps
  <2>7. ClosingAfterAct' /\ DoneOnce' /\ SuccessWasCarriedOut'
    BY <1>0, <1>2, <1>3, <1>7, <2>1, <2>2, <2>4, ErrEnds
  <2>8. TwiceOnlyAfterFailure'
    BY <1>0, <1>3, <1>7, <2>1, <2>3 DEF TwiceOnlyAfterFailure, Sure
  <2> QED  BY <2>6, <2>7, <2>8 DEF IInv
<1>8. CASE Done(Tag, act) /\ Succeeds(wire) /\ UNCHANGED failed
  BY <1>6, <1>8
<1>9. CASE Fails(wire, torn) /\ UNCHANGED <<acts, failed>>
  BY <1>3, <1>7, <1>9
<1>10. CASE /\ Fails(wire, torn)
            /\ acts' = acts \/ Done(Tag, act)
            /\ failed' = (failed \/ act)
  <2>1. failed' \in BOOLEAN /\ (failed => failed')
    BY <1>10, Zenon
  <2>2. Sure' => ~act
    BY <1>10 DEF Sure
  <2>3. Sure' => acts' = acts
    <3>1. CASE acts' = acts
      BY <3>1
    <3>2. CASE Done(Tag, act)
      <4> HIDE DEF act
      <4>1. ~act => acts' = acts
        BY <3>2 DEF Done
      <4> QED  BY <2>2, <4>1
    <3> QED  BY <1>10, <3>1, <3>2
  <2> QED  BY <1>7, <1>10, <2>1, <2>3
<1> QED  BY <1>8, <1>9, <1>10 DEF RuntimeEnds

\* Over the daemon.
LEMMA DaemonAnswersKeeps == ASSUME IInv, DaemonAnswers PROVE IInv'
BY RuntimeEndsKeeps DEF DaemonAnswers

\* Over a connection of its own.
LEMMA DirectAnswersKeeps == ASSUME IInv, DirectAnswers PROVE IInv'
BY RuntimeEndsKeeps DEF DirectAnswers

-----------------------------------------------------------------------------
(* The steps within a call *)

\* The invariant depends on the state only through these parts.
LEMMA StepKeeps ==
  ASSUME IInv, UNCHANGED <<enabled, inbox, wire, nextId, n, tool, k, c, result, got, acts, failed>>,
         pc # "reading", pc # "idle", pc' \notin {"reading", "idle"},
         TypeOK', pc' = "alive" => enabled /\ Current.by = "mcp",
         pc' \in {"daemon", "connecting", "direct"} => Current.by = "runtime"
  PROVE  IInv'
<1>0. /\ TypeOK /\ Placed /\ Numbered /\ LastIsOwn /\ AnswerIsTrue /\ ClosingAfterAct /\ DoneOnce
      /\ SuccessWasCarriedOut /\ TwiceOnlyAfterFailure
  BY DEF IInv
<1>1. Current' = Current /\ Tag' = Tag /\ NoTag' = NoTag /\ (InScript(k, c)' <=> InScript(k, c))
  BY DEF Current, Tag, NoTag, InScript
<1>2. Placed'
  BY <1>0, <1>1 DEF Placed
<1>3. Numbered'
  BY <1>0 DEF Numbered
<1>4. LastIsOwn' /\ AnswerIsTrue'
  BY <1>0, <1>1 DEF LastIsOwn, AnswerIsTrue
<1>5. ClosingAfterAct'
  BY <1>0, <1>1 DEF ClosingAfterAct
<1>6. DoneOnce'
  BY <1>0, <1>1, SureStays DEF DoneOnce
<1>7. SuccessWasCarriedOut' /\ TwiceOnlyAfterFailure'
  BY <1>0 DEF SuccessWasCarriedOut, TwiceOnlyAfterFailure
<1> QED  BY <1>2, <1>3, <1>4, <1>5, <1>6, <1>7 DEF IInv

\* The child runs.
LEMMA McpAliveKeeps == ASSUME IInv, McpAlive PROVE IInv'
<1>1. TypeOK'
  BY DEF IInv, TypeOK, McpAlive, proc, Line, Tags
<1> QED  BY <1>1, StepKeeps DEF McpAlive, McpCalls, proc

\* A daemon is looked for.
LEMMA RuntimeProbesKeeps == ASSUME IInv, RuntimeProbes PROVE IInv'
<1>1. pc' \in {"daemon", "panicked", "connecting", "direct"}
  BY DEF RuntimeProbes
<1>2. TypeOK'
  BY <1>1 DEF IInv, TypeOK, RuntimeProbes, proc, Line, Tags
<1> QED  BY <1>1, <1>2, StepKeeps DEF RuntimeProbes, RuntimeCalls, proc

\* A connection of its own stands.
LEMMA DirectConnectsKeeps == ASSUME IInv, DirectConnects PROVE IInv'
<1>1. TypeOK'
  BY DEF IInv, TypeOK, DirectConnects, proc, Line, Tags
<1>2. Current.by = "runtime"
  BY DEF IInv, Placed, DirectConnects
<1> QED  BY <1>1, <1>2, StepKeeps DEF DirectConnects, proc

\* It does not.
LEMMA DirectConnectFailsKeeps == ASSUME IInv, DirectConnectFails PROVE IInv'
<1>1. /\ pc = "connecting" /\ Fails(wire, torn)
      /\ UNCHANGED <<child, inbox, nextId, restarts, disabled, deaths, got, acts, failed>>
  BY DEF DirectConnectFails
<1>2. child' \in {"none", "running", "exited"} /\ restarts' \in 0..MaxRestarts /\ disabled' \in BOOLEAN
  BY <1>1 DEF IInv, TypeOK
<1> QED  BY <1>1, <1>2, TornType, FailsKeeps

\* A new child has no requests, and its ids start over.
LEMMA McpSpawnsKeeps == ASSUME IInv, McpSpawns PROVE IInv'
<1>0. /\ TypeOK /\ Placed /\ ClosingAfterAct /\ DoneOnce
      /\ SuccessWasCarriedOut /\ TwiceOnlyAfterFailure
  BY DEF IInv
<1>1. /\ pc = "call" /\ Current.by = "mcp" /\ enabled
      /\ child' = "running" /\ bound' = TRUE /\ inbox' = <<>> /\ wire' = <<>> /\ torn' = FALSE
      /\ nextId' = 3 /\ pc' = "alive"
      /\ restarts' = (IF restarts = MaxRestarts THEN 0 ELSE restarts) + 1
      /\ UNCHANGED <<enabled, disabled, deaths, cached, n, tool, k, c, result, got, acts, failed>>
  BY DEF McpSpawns, McpCalls
<1>2. Current' = Current /\ (InScript(k, c)' <=> InScript(k, c))
  BY <1>1 DEF Current, InScript
<1>3. TypeOK'
  <2>1. restarts' \in 0..MaxRestarts
    BY <1>0, <1>1, ToolsAssumption DEF TypeOK
  <2>2. Tags' = Tags
    BY DEF Tags
  <2>3. inbox' \in Seq([id: Nat, of: Tags, act: BOOLEAN, bad: BOOLEAN]) /\ wire' \in Seq(Line')
    BY <1>1
  <2> QED  BY <1>0, <1>1, <2>1, <2>2, <2>3 DEF TypeOK
<1>4. Placed'
  BY <1>0, <1>1, <1>2 DEF Placed
<1>5. Numbered' /\ LastIsOwn' /\ AnswerIsTrue'
  BY <1>1 DEF Numbered, LastIsOwn, AnswerIsTrue
<1>6. ClosingAfterAct'
  BY <1>0, <1>1, <1>2 DEF ClosingAfterAct
<1>7. DoneOnce'
  BY <1>0, <1>1, <1>2, SureStays DEF DoneOnce
<1>8. SuccessWasCarriedOut' /\ TwiceOnlyAfterFailure'
  BY <1>0, <1>1 DEF SuccessWasCarriedOut, TwiceOnlyAfterFailure
<1> QED  BY <1>3, <1>4, <1>5, <1>6, <1>7, <1>8 DEF IInv

\* The lines have ids.
LEMMA WireType == ASSUME TypeOK PROVE \A i \in 1..Len(wire) : wire[i] \in Line /\ wire[i].id \in Nat
<1>1. wire \in Seq(Line)
  BY DEF TypeOK
<1>2. \A i \in 1..Len(wire) : wire[i] \in Line
  BY <1>1
<1>3. \A l \in Line : l.id \in Nat
  BY DEF Line
<1> QED  BY <1>2, <1>3

\* A request is written under the next id.
LEMMA McpSendsKeeps == ASSUME IInv, McpSends PROVE IInv'
<1> DEFINE r == [id |-> nextId, of |-> Tag, act |-> Current.call \in Acts,
                 bad |-> Current.call = "bad_script"]
<1>0. /\ TypeOK /\ Placed /\ Numbered /\ AnswerIsTrue /\ ClosingAfterAct /\ DoneOnce
      /\ SuccessWasCarriedOut /\ TwiceOnlyAfterFailure
  BY DEF IInv
<1>1. /\ pc = "alive" /\ bound /\ pc' = "reading" /\ nextId' = nextId + 1 /\ inbox' = Append(inbox, r)
      /\ UNCHANGED <<enabled, child, bound, wire, torn, restarts, disabled, deaths, cached,
                     n, tool, k, c, result, got, acts, failed>>
  BY DEF McpSends
<1>2. Current' = Current /\ Tag' = Tag /\ NoTag' = NoTag /\ (InScript(k, c)' <=> InScript(k, c))
  BY <1>1 DEF Current, Tag, NoTag, InScript
<1>3. /\ inbox \in Seq([id: Nat, of: Tags, act: BOOLEAN, bad: BOOLEAN])
      /\ nextId \in Nat /\ nextId >= 1 /\ n \in Nat
  BY <1>0, ToolsAssumption DEF TypeOK, Numbered
<1>4. r.id = nextId /\ r.of = Tag /\ r.of.n = n
  BY DEF Tag
<1>5. (r.act <=> Current.call \in Acts) /\ (r.bad <=> Current.call = "bad_script")
  OBVIOUS
<1>6. Tag \in Tags
  BY <1>0 DEF Tag, Tags, TypeOK
<1>7. r \in [id: Nat, of: Tags, act: BOOLEAN, bad: BOOLEAN]
  <2>1. (Current.call \in Acts) \in BOOLEAN
    OBVIOUS
  <2>2. (Current.call = "bad_script") \in BOOLEAN
    OBVIOUS
  <2> QED  BY <1>3, <1>6, <2>1, <2>2
<1>8. /\ inbox' \in Seq([id: Nat, of: Tags, act: BOOLEAN, bad: BOOLEAN])
      /\ Len(inbox') = Len(inbox) + 1 /\ Len(inbox) \in Nat /\ inbox'[Len(inbox) + 1] = r
      /\ \A i \in 1..Len(inbox) : inbox'[i] = inbox[i]
  <2> HIDE DEF r
  <2> QED  BY <1>1, <1>3, <1>7, AppendProperties
<1>9. \A i \in 1..Len(inbox') : \/ i \in 1..Len(inbox) /\ inbox'[i] = inbox[i]
                                \/ i = Len(inbox) + 1 /\ inbox'[i] = r
  BY <1>8
<1> HIDE DEF r
<1>10. TypeOK'
  BY <1>0, <1>1, <1>8 DEF TypeOK, Line, Tags
<1>11. Placed'
  BY <1>0, <1>1, <1>2 DEF Placed
<1>12. Numbered'
  <2>1. nextId' >= 1 /\ nextId' >= 2
    BY <1>1, <1>3
  <2>2. \A i \in 1..Len(inbox') : inbox'[i].id \in 1..nextId' - 1 /\ inbox'[i].of.n <= n'
    BY <1>0, <1>1, <1>3, <1>4, <1>9 DEF Numbered
  <2>3. \A i, j \in 1..Len(inbox') : i < j => inbox'[i].id < inbox'[j].id
    <3>1. SUFFICES ASSUME NEW i \in 1..Len(inbox'), NEW j \in 1..Len(inbox'), i < j
                   PROVE  inbox'[i].id < inbox'[j].id
      OBVIOUS
    <3>2. i \in 1..Len(inbox) /\ inbox'[i] = inbox[i] /\ inbox[i].id \in 1..nextId - 1
      BY <1>0, <1>8, <3>1 DEF Numbered
    <3>3. CASE j \in 1..Len(inbox) /\ inbox'[j] = inbox[j]
      BY <1>0, <3>1, <3>2, <3>3 DEF Numbered
    <3>4. CASE j = Len(inbox) + 1 /\ inbox'[j] = r
      BY <1>3, <1>4, <3>2, <3>4
    <3> QED  BY <1>9, <3>3, <3>4
  <2>4. \A i \in 1..Len(wire') : wire'[i].id < nextId'
    <3>1. \A i \in 1..Len(wire) : wire[i].id < nextId /\ wire[i].id \in Nat
      BY <1>0, WireType DEF Numbered
    <3> QED  BY <1>1, <1>3, <3>1
  <2>5. \A i \in 1..Len(wire'), j \in 1..Len(inbox') : wire'[i].id < inbox'[j].id
    BY <1>0, <1>1, <1>4, <1>9 DEF Numbered
  <2> QED  BY <2>1, <2>2, <2>3, <2>4, <2>5 DEF Numbered
<1>13. LastIsOwn'
  <2>1. SUFFICES ASSUME NEW i \in 1..Len(inbox'), inbox'[i].id = nextId' - 1
                 PROVE  inbox'[i] = r
    BY <1>2, <1>4, <1>5 DEF LastIsOwn, r
  <2>2. i \in 1..Len(inbox) => inbox[i].id < nextId
    BY <1>0, <1>3 DEF Numbered
  <2> QED  BY <1>1, <1>3, <1>9, <2>1, <2>2
<1>14. AnswerIsTrue'
  <2>1. \A i \in 1..Len(wire) : wire[i].id # nextId' - 1
    <3>1. \A i \in 1..Len(wire) : wire[i].id < nextId /\ wire[i].id \in Nat
      BY <1>0, WireType DEF Numbered
    <3> QED  BY <1>1, <1>3, <3>1
  <2> QED  BY <1>0, <1>1, <1>2, <2>1 DEF AnswerIsTrue
<1>15. ClosingAfterAct'
  BY <1>0, <1>1, <1>2 DEF ClosingAfterAct
<1>16. DoneOnce'
  <2>0. Sure' <=> Sure
    BY <1>1, SureStays
  <2>1. Sure => /\ \A i \in 1..Len(inbox) : ~(inbox[i].act /\ inbox[i].of.n = n)
                /\ acts > 0 => Current.call \in Closing
    BY <1>0, <1>1 DEF DoneOnce
  <2>2. Current.call \in Closing => Current.call \notin Acts
    BY DEF Closing, Acts
  <2>3. acts \in Nat
    BY <1>0 DEF TypeOK
  <2>4. ASSUME Sure', NEW i \in 1..Len(inbox'), inbox'[i].act, inbox'[i].of.n = n'
        PROVE  inbox'[i].id = nextId' - 1 /\ acts' = 0
    <3>1. inbox'[i] = r
      BY <1>1, <1>9, <2>0, <2>1, <2>4
    <3> QED  BY <1>1, <1>3, <1>4, <1>5, <2>0, <2>1, <2>2, <2>3, <2>4, <3>1
  <2>5. (Sure' /\ acts' > 0) => Current'.call \in Closing
    BY <1>1, <1>2, <2>0, <2>1
  <2> QED  BY <1>1, <2>4, <2>5 DEF DoneOnce
<1>17. SuccessWasCarriedOut' /\ TwiceOnlyAfterFailure'
  BY <1>0, <1>1 DEF SuccessWasCarriedOut, TwiceOnlyAfterFailure
<1> QED  BY <1>10, <1>11, <1>12, <1>13, <1>14, <1>15, <1>16, <1>17 DEF IInv

\* A line that is not this call's.
LEMMA McpSkipsKeeps == ASSUME IInv, McpSkips PROVE IInv'
<1>0. /\ TypeOK /\ Placed /\ Numbered /\ LastIsOwn /\ AnswerIsTrue /\ ClosingAfterAct /\ DoneOnce
      /\ SuccessWasCarriedOut /\ TwiceOnlyAfterFailure
  BY DEF IInv
<1>1. /\ wire # <<>> /\ wire' = Tail(wire)
      /\ UNCHANGED <<enabled, child, bound, inbox, torn, nextId, restarts, disabled, deaths,
                     cached, n, tool, k, c, pc, result, got, acts, failed>>
  BY DEF McpSkips, caller
<1>2. /\ wire' \in Seq(Line)
      /\ \A i \in 1..Len(wire') : \E j \in 1..Len(wire) : wire'[i] = wire[j]
  BY <1>0, <1>1, RestLines DEF Rest
<1>3. Current' = Current /\ Tag' = Tag /\ NoTag' = NoTag /\ (InScript(k, c)' <=> InScript(k, c))
  BY <1>1 DEF Current, Tag, NoTag, InScript
<1>4. TypeOK'
  <2>1. Tags' = Tags /\ Line' = Line
    BY DEF Tags, Line
  <2> QED  BY <1>0, <1>1, <1>2, <2>1 DEF TypeOK
<1>5. Placed'
  BY <1>0, <1>1, <1>3 DEF Placed
<1>6. Numbered'
  BY <1>0, <1>1, <1>2 DEF Numbered
<1>7. LastIsOwn'
  BY <1>0, <1>1, <1>3 DEF LastIsOwn
<1>8. AnswerIsTrue'
  BY <1>0, <1>1, <1>2, <1>3 DEF AnswerIsTrue
<1>9. ClosingAfterAct'
  BY <1>0, <1>1, <1>3 DEF ClosingAfterAct
<1>10. DoneOnce'
  BY <1>0, <1>1, <1>3, SureStays DEF DoneOnce
<1>11. SuccessWasCarriedOut' /\ TwiceOnlyAfterFailure'
  BY <1>0, <1>1 DEF SuccessWasCarriedOut, TwiceOnlyAfterFailure
<1> QED  BY <1>4, <1>5, <1>6, <1>7, <1>8, <1>9, <1>10, <1>11 DEF IInv

\* A tool call starts; no request of it is under way.
LEMMA ToolStartsKeeps == ASSUME IInv, ToolStarts PROVE IInv'
<1>0. /\ TypeOK /\ Numbered /\ AnswerIsTrue
  BY DEF IInv
<1>1. /\ n < MaxTools /\ n' = n + 1 /\ tool' \in Asked
      /\ k' = 1 /\ c' = 1 /\ pc' = "call" /\ result' = "none" /\ got' = NoTag
      /\ acts' = 0 /\ failed' = FALSE
      /\ UNCHANGED <<enabled, child, bound, inbox, wire, torn, nextId, restarts, disabled, deaths, cached>>
  BY DEF ToolStarts, proc
<1>2. n \in Nat /\ n \in 0..MaxTools /\ n' \in 0..MaxTools /\ MaxTools \in Nat
  BY <1>0, <1>1, ToolsAssumption DEF TypeOK
<1>3. NoTag \in Tags /\ NoTag' = NoTag
  BY ToolsAssumption DEF NoTag, Tags
<1>4. /\ tool' \in DOMAIN Script
      /\ 1 \in 1..Len(Script[tool']) /\ 1 \in 1..Len(Script[tool'][1])
      /\ Script[tool'][1][1].call \notin Closing
  BY <1>1, ToolsAssumption, ScriptBegins
<1>5. TypeOK'
  <2>1. Tags' = Tags /\ Line' = Line
    BY DEF Tags, Line
  <2>2. DOMAIN Script' = DOMAIN Script
    BY DEF Script
  <2>3. /\ enabled' \in BOOLEAN /\ bound' \in BOOLEAN /\ torn' \in BOOLEAN
        /\ child' \in {"none", "running", "exited"} /\ nextId' \in Nat
        /\ restarts' \in 0..MaxRestarts /\ deaths' \in 0..MaxDeaths
        /\ disabled' \in BOOLEAN /\ cached' \in BOOLEAN
    BY <1>0, <1>1 DEF TypeOK
  <2>4. inbox' \in Seq([id: Nat, of: Tags, act: BOOLEAN, bad: BOOLEAN]) /\ wire' \in Seq(Line)
    BY <1>0, <1>1 DEF TypeOK
  <2>5. k' \in Nat /\ c' \in Nat /\ pc' = "call" /\ result' = "none" /\ acts' \in 0..2
    BY <1>1
  <2>6. got' \in Tags /\ failed' \in BOOLEAN
    BY <1>1, <1>3, Zenon
  <2> QED  BY <1>2, <1>4, <2>1, <2>2, <2>3, <2>4, <2>5, <2>6 DEF TypeOK
<1>6. InScript(k, c)' /\ Current'.call \notin Closing
  BY <1>1, <1>4 DEF InScript, Current
<1>7. Placed'
  BY <1>1, <1>6 DEF Placed
<1>8. \A i \in 1..Len(inbox) : inbox[i].of.n \in Nat
  <2>1. \A i \in 1..Len(inbox) : inbox[i] \in [id: Nat, of: Tags, act: BOOLEAN, bad: BOOLEAN]
    <3> DEFINE Requests == [id: Nat, of: Tags, act: BOOLEAN, bad: BOOLEAN]
    <3>1. inbox \in Seq(Requests)
      BY <1>0 DEF TypeOK
    <3> HIDE DEF Requests
    <3>2. \A i \in 1..Len(inbox) : inbox[i] \in Requests
      BY <3>1
    <3> QED  BY <3>2 DEF Requests
  <2>2. \A x \in [id: Nat, of: Tags, act: BOOLEAN, bad: BOOLEAN] : x.of \in Tags
    OBVIOUS
  <2>3. \A x \in Tags : x.n \in Nat
    BY <1>2 DEF Tags
  <2> QED  BY <2>1, <2>2, <2>3
<1>9. \A i \in 1..Len(inbox) : inbox[i].of.n <= n /\ inbox[i].of.n < n'
  BY <1>0, <1>1, <1>2, <1>8 DEF Numbered
<1>10. Numbered'
  <2>1. \A i \in 1..Len(inbox) : inbox[i].of.n <= n'
    BY <1>1, <1>2, <1>8, <1>9
  <2> QED  BY <1>0, <1>1, <2>1 DEF Numbered
<1>11. LastIsOwn' /\ AnswerIsTrue'
  BY <1>0, <1>1, <1>3 DEF LastIsOwn, AnswerIsTrue
<1>12. ClosingAfterAct' /\ SuccessWasCarriedOut' /\ TwiceOnlyAfterFailure'
  BY <1>1, <1>6 DEF ClosingAfterAct, SuccessWasCarriedOut, TwiceOnlyAfterFailure
<1>13. DoneOnce'
  <2>1. \A i \in 1..Len(inbox') : inbox'[i].of.n # n'
    BY <1>1, <1>2, <1>8, <1>9
  <2> QED  BY <1>1, <2>1 DEF DoneOnce
<1> QED  BY <1>5, <1>7, <1>10, <1>11, <1>12, <1>13 DEF IInv

-----------------------------------------------------------------------------
(* The child *)

\* The child carries out the tool only for the call that is waiting for it, and
\* only once, unless a call failed.
LEMMA HeadDone ==
  ASSUME TypeOK, LastIsOwn, DoneOnce, inbox # <<>>,
         NEW a \in BOOLEAN, a => Head(inbox).act, Done(Head(inbox).of, a)
  PROVE  /\ acts' \in 0..2 /\ acts' >= acts /\ acts \in 0..2
         /\ ~(a /\ Head(inbox).of.n = n) => acts' = acts
         /\ (a /\ Head(inbox).of.n = n) => acts' > 0
         /\ (Sure /\ acts' # acts) =>
              /\ pc = "reading" /\ Head(inbox).id = nextId - 1 /\ Current.call \in Acts
              /\ acts = 0 /\ acts' = 1
<1>1. 1 \in 1..Len(inbox) /\ Head(inbox) = inbox[1]
  BY DEF TypeOK
<1>2. acts \in 0..2
  BY DEF TypeOK
<1>3. /\ acts' \in 0..2 /\ acts' >= acts /\ acts' <= acts + 1
      /\ (a /\ Head(inbox).of.n = n) => acts' > 0
      /\ ~(a /\ Head(inbox).of.n = n) => acts' = acts
  BY <1>2, DoneStep
<1>4. ASSUME Sure, acts' # acts
      PROVE  /\ pc = "reading" /\ Head(inbox).id = nextId - 1 /\ Current.call \in Acts
             /\ acts = 0
  <2>1. inbox[1].act /\ inbox[1].of.n = n
    BY <1>1, <1>3, <1>4
  <2>2. pc = "reading" /\ inbox[1].id = nextId - 1 /\ acts = 0
    BY <1>1, <1>4, <2>1 DEF DoneOnce
  <2>3. inbox[1].act = (Current.call \in Acts)
    BY <1>1, <2>2 DEF LastIsOwn
  <2> QED  BY <1>1, <2>1, <2>2, <2>3
<1> QED  BY <1>2, <1>3, <1>4

\* What the child carries out keeps the properties of the tool's counter; of the
\* requests, the first goes, or all of them.
LEMMA ChildKeeps ==
  ASSUME IInv, acts' \in 0..2, acts' >= acts,
         (Sure /\ acts' # acts) =>
              /\ pc = "reading" /\ Head(inbox).id = nextId - 1 /\ Current.call \in Acts
              /\ acts = 0 /\ acts' = 1,
         inbox # <<>>, inbox' = Tail(inbox) \/ inbox' = <<>>,
         UNCHANGED <<enabled, nextId, n, tool, k, c, pc, result, got, failed>>
  PROVE  /\ inbox' \in Seq([id: Nat, of: Tags, act: BOOLEAN, bad: BOOLEAN])
         /\ \A i \in 1..Len(inbox') : i + 1 \in 1..Len(inbox) /\ inbox'[i] = inbox[i + 1]
         /\ LastIsOwn' /\ ClosingAfterAct' /\ DoneOnce'
         /\ SuccessWasCarriedOut' /\ TwiceOnlyAfterFailure'
<1>0. /\ TypeOK /\ Numbered /\ LastIsOwn /\ ClosingAfterAct /\ DoneOnce
      /\ SuccessWasCarriedOut /\ TwiceOnlyAfterFailure
  BY DEF IInv
<1>1. inbox \in Seq([id: Nat, of: Tags, act: BOOLEAN, bad: BOOLEAN]) /\ acts \in 0..2 /\ nextId \in Nat
  BY <1>0 DEF TypeOK
<1>2. 1 \in 1..Len(inbox) /\ Head(inbox) = inbox[1]
  BY <1>1
<1>3. /\ inbox' \in Seq([id: Nat, of: Tags, act: BOOLEAN, bad: BOOLEAN])
      /\ \A i \in 1..Len(inbox') : i + 1 \in 1..Len(inbox) /\ inbox'[i] = inbox[i + 1]
  <2>1. CASE inbox' = Tail(inbox)
    <3>1. /\ Tail(inbox) \in Seq([id: Nat, of: Tags, act: BOOLEAN, bad: BOOLEAN])
          /\ Len(Tail(inbox)) = Len(inbox) - 1
          /\ \A i \in 1..Len(Tail(inbox)) : Tail(inbox)[i] = inbox[i + 1]
      BY <1>1
    <3> QED  BY <1>1, <2>1, <3>1
  <2>2. CASE inbox' = <<>>
    BY <2>2
  <2> QED  BY <2>1, <2>2
<1>4. Current' = Current /\ Tag' = Tag
  BY DEF Current, Tag
<1>5. LastIsOwn'
  BY <1>0, <1>3, <1>4 DEF LastIsOwn
<1>6. ClosingAfterAct'
  BY <1>0, <1>1, <1>4 DEF ClosingAfterAct
<1>7. DoneOnce'
  <2>1. ASSUME Sure, NEW i \in 1..Len(inbox'), inbox'[i].act, inbox'[i].of.n = n
        PROVE  pc = "reading" /\ inbox'[i].id = nextId - 1 /\ acts' = 0
    <3>1. pc = "reading" /\ inbox[i + 1].id = nextId - 1 /\ acts = 0
      BY <1>0, <1>3, <2>1 DEF DoneOnce
    <3>2. inbox[1].id < inbox[i + 1].id /\ inbox[1].id \in 1..nextId - 1
      BY <1>0, <1>2, <1>3 DEF Numbered
    <3>3. acts' = acts
      BY <1>1, <1>2, <2>1, <3>1, <3>2
    <3> QED  BY <1>3, <3>1, <3>3
  <2>2. ASSUME Sure, acts' > 0, pc # "idle"
        PROVE  Current.call \in Closing \/ (pc = "reading" /\ Current.call \in Acts)
    BY <1>0, <1>1, <2>2 DEF DoneOnce
  <2> QED  BY <1>4, <2>1, <2>2, SureStays DEF DoneOnce
<1>8. SuccessWasCarriedOut'
  BY <1>0, <1>1 DEF SuccessWasCarriedOut
<1>9. TwiceOnlyAfterFailure'
  BY <1>0, <1>1 DEF TwiceOnlyAfterFailure, Sure
<1> QED  BY <1>3, <1>5, <1>6, <1>7, <1>8, <1>9

\* The requests have fields.
LEMMA RequestType ==
  ASSUME TypeOK, inbox # <<>>
  PROVE  /\ Head(inbox).id \in Nat /\ Head(inbox).of \in Tags
         /\ Head(inbox).act \in BOOLEAN /\ Head(inbox).bad \in BOOLEAN
<1> DEFINE Requests == [id: Nat, of: Tags, act: BOOLEAN, bad: BOOLEAN]
<1>1. inbox \in Seq(Requests)
  BY DEF TypeOK
<1> HIDE DEF Requests
<1>2. Head(inbox) \in Requests
  BY <1>1
<1> QED  BY <1>2 DEF Requests

\* The child dies: what is on the wire stays, and its requests go.
LEMMA ChildDiesKeeps == ASSUME IInv, ChildDies PROVE IInv'
<1>0. /\ TypeOK /\ Placed /\ Numbered /\ LastIsOwn /\ AnswerIsTrue /\ ClosingAfterAct /\ DoneOnce
      /\ SuccessWasCarriedOut /\ TwiceOnlyAfterFailure
  BY DEF IInv
<1>1. /\ child' = "exited" /\ deaths < MaxDeaths /\ deaths' = deaths + 1 /\ inbox' = <<>> /\ torn' = FALSE
      /\ \/ acts' = acts
         \/ inbox # <<>> /\ Done(Head(inbox).of, Head(inbox).act)
      /\ UNCHANGED <<enabled, bound, wire, nextId, restarts, disabled, cached,
                     n, tool, k, c, pc, result, got, failed>>
  BY DEF ChildDies
<1>2. Current' = Current /\ Tag' = Tag /\ NoTag' = NoTag /\ (InScript(k, c)' <=> InScript(k, c))
  BY <1>1 DEF Current, Tag, NoTag, InScript
<1>3. /\ acts' \in 0..2 /\ acts' >= acts /\ acts \in 0..2
      /\ (Sure /\ acts' # acts) =>
              /\ pc = "reading" /\ Head(inbox).id = nextId - 1 /\ Current.call \in Acts
              /\ acts = 0 /\ acts' = 1
  <2>1. acts \in 0..2
    BY <1>0 DEF TypeOK
  <2>2. CASE acts' = acts
    BY <2>1, <2>2
  <2>3. CASE inbox # <<>> /\ Done(Head(inbox).of, Head(inbox).act)
    <3>1. Head(inbox).act \in BOOLEAN
      BY <1>0, <2>3, RequestType
    <3> QED  BY <1>0, <2>3, <3>1, HeadDone
  <2> QED  BY <1>1, <2>2, <2>3
<1>4. TypeOK'
  <2>1. Tags' = Tags /\ Line' = Line
    BY DEF Tags, Line
  <2>2. deaths' \in 0..MaxDeaths
    BY <1>0, <1>1, ToolsAssumption DEF TypeOK
  <2>3. inbox' \in Seq([id: Nat, of: Tags, act: BOOLEAN, bad: BOOLEAN])
    BY <1>1
  <2>4. torn' \in BOOLEAN
    BY <1>1, Zenon
  <2> QED  BY <1>0, <1>1, <1>3, <2>1, <2>2, <2>3, <2>4 DEF TypeOK
<1>5. Placed'
  BY <1>0, <1>1, <1>2 DEF Placed
<1>6. Numbered'
  BY <1>0, <1>1 DEF Numbered
<1>7. LastIsOwn' /\ ClosingAfterAct' /\ DoneOnce' /\ SuccessWasCarriedOut' /\ TwiceOnlyAfterFailure'
  <2>1. LastIsOwn'
    BY <1>1 DEF LastIsOwn
  <2>2. ClosingAfterAct'
    BY <1>0, <1>1, <1>2, <1>3 DEF ClosingAfterAct
  <2>3. DoneOnce'
    BY <1>0, <1>1, <1>2, <1>3, SureStays DEF DoneOnce
  <2>4. SuccessWasCarriedOut' /\ TwiceOnlyAfterFailure'
    BY <1>0, <1>1, <1>3 DEF SuccessWasCarriedOut, TwiceOnlyAfterFailure, Sure
  <2> QED  BY <2>1, <2>2, <2>3, <2>4
<1>8. AnswerIsTrue'
  <2>1. ASSUME NEW i \in 1..Len(wire), wire[i].id = nextId - 1
        PROVE  acts' = acts
    <3>1. 1..Len(inbox) = {}
      BY <1>0, <2>1, AnsweredEmpty
    <3>2. inbox # <<>> => 1 \in 1..Len(inbox)
      BY <1>0 DEF TypeOK
    <3> QED  BY <1>1, <3>1, <3>2
  <2> QED  BY <1>0, <1>1, <1>2, <2>1 DEF AnswerIsTrue
<1> QED  BY <1>4, <1>5, <1>6, <1>7, <1>8 DEF IInv

\* What the child writes in answer to r.
Answers(r, ok, l) ==
  /\ l \in Line /\ l.id \in {0, r.id}
  /\ l.torn => l.of = NoTag /\ ~l.ok
  /\ (~l.torn /\ l.id # 0) => l.of = r.of /\ l.ok = ok

\* The first of the lines of an answer is torn.
LEMMA TornLines ==
  ASSUME NEW r, NEW ok, NEW s \in Seq(Line), s # <<>>,
         \A i \in 1..Len(s) : Answers(r, ok, s[i]),
         NEW u, u = [s EXCEPT ![1] = [@ EXCEPT !.torn = TRUE, !.ok = FALSE, !.of = NoTag]]
  PROVE  u \in Seq(Line) /\ \A i \in 1..Len(u) : Answers(r, ok, u[i])
<1> DEFINE l == s[1]
           t == [l EXCEPT !.torn = TRUE, !.ok = FALSE, !.of = NoTag]
<1>1. 1 \in 1..Len(s)
  OBVIOUS
<1>2. l \in Line /\ l.id \in {0, r.id} /\ NoTag \in Tags
  BY <1>1, ToolsAssumption DEF Answers, NoTag, Tags
<1>3. t \in Line /\ t.id = l.id /\ t.torn = TRUE /\ t.ok = FALSE /\ t.of = NoTag
  <2> HIDE DEF l
  <2> QED  BY <1>2 DEF Line
<1> HIDE DEF t
<1>4. Answers(r, ok, t)
  BY <1>2, <1>3 DEF Answers
<1>5. u = [s EXCEPT ![1] = t]
  BY DEF t
<1>6. u \in Seq(Line) /\ Len(u) = Len(s) /\ \A i \in 1..Len(s) : u[i] = IF i = 1 THEN t ELSE s[i]
  BY <1>1, <1>3, <1>5, ExceptSeq
<1> QED  BY <1>4, <1>6

\* The lines of an answer: perhaps a notification, and the answer.
LEMMA AnswerLines ==
  ASSUME NEW r, r.id \in Nat, r.of \in Tags, NEW ok \in BOOLEAN, NEW pre \in Seq(Line), NEW b,
         b = [id |-> r.id, of |-> r.of, ok |-> ok, torn |-> FALSE],
         \A i \in 1..Len(pre) : pre[i].id = 0 /\ pre[i].torn = FALSE
  PROVE  /\ pre \o <<b>> \in Seq(Line) /\ pre \o <<b>> # <<>>
         /\ \A i \in 1..Len(pre \o <<b>>) : Answers(r, ok, (pre \o <<b>>)[i])
<1> DEFINE s == pre \o <<b>>
<1>1. b \in Line /\ Answers(r, ok, b)
  <2>1. b \in Line /\ b.id = r.id /\ b.of = r.of /\ b.ok = ok /\ b.torn = FALSE
    BY DEF Line
  <2> QED  BY <2>1 DEF Answers
<1>2. \A i \in 1..Len(pre) : Answers(r, ok, pre[i])
  <2>1. SUFFICES ASSUME NEW i \in 1..Len(pre) PROVE Answers(r, ok, pre[i])
    OBVIOUS
  <2>2. pre[i] \in Line /\ pre[i].id = 0 /\ pre[i].torn = FALSE
    BY <2>1
  <2> QED  BY <2>2 DEF Answers
<1>3. /\ s \in Seq(Line) /\ Len(s) = Len(pre) + 1 /\ Len(pre) \in Nat
      /\ \A i \in 1..Len(pre) : s[i] = pre[i]
      /\ s[Len(pre) + 1] = b
  <2>1. <<b>> \in Seq(Line) /\ Len(<<b>>) = 1 /\ <<b>>[1] = b
    BY <1>1
  <2> QED  BY <2>1, ConcatProperties
<1> HIDE DEF s
<1>4. \A i \in 1..Len(s) : Answers(r, ok, s[i])
  <2>1. SUFFICES ASSUME NEW i \in 1..Len(s) PROVE Answers(r, ok, s[i])
    OBVIOUS
  <2>2. i \in 1..Len(pre) \/ i = Len(pre) + 1
    BY <1>3
  <2>3. CASE i \in 1..Len(pre)
    BY <1>2, <1>3, <2>3, Zenon
  <2>4. CASE i = Len(pre) + 1
    BY <1>1, <1>3, <2>4, Zenon
  <2> QED  BY <2>2, <2>3, <2>4
<1>5. s # <<>>
  BY <1>3
<1> QED  BY <1>3, <1>4, <1>5 DEF s

\* What a concatenation consists of.
LEMMA ConcatElements ==
  ASSUME NEW S, NEW s \in Seq(S), NEW t \in Seq(S)
  PROVE  /\ s \o t \in Seq(S)
         /\ \A i \in 1..Len(s \o t) : \/ \E j \in 1..Len(s) : (s \o t)[i] = s[j]
                                     \/ \E j \in 1..Len(t) : (s \o t)[i] = t[j]
<1>1. /\ s \o t \in Seq(S) /\ Len(s \o t) = Len(s) + Len(t)
      /\ Len(s) \in Nat /\ Len(t) \in Nat
      /\ \A i \in 1..Len(s) + Len(t) : (s \o t)[i] = IF i <= Len(s) THEN s[i] ELSE t[i - Len(s)]
  BY ConcatProperties
<1>2. ASSUME NEW i \in 1..Len(s \o t)
      PROVE  \/ \E j \in 1..Len(s) : (s \o t)[i] = s[j]
             \/ \E j \in 1..Len(t) : (s \o t)[i] = t[j]
  <2>0. i \in 1..Len(s) + Len(t) /\ i \in Int
    BY <1>1
  <2>1. CASE i <= Len(s)
    <3>1. i \in 1..Len(s) /\ (s \o t)[i] = s[i]
      BY <1>1, <2>0, <2>1
    <3> QED  BY <3>1
  <2>2. CASE ~(i <= Len(s))
    <3>1. i - Len(s) \in 1..Len(t)
      BY <1>1, <2>0, <2>2
    <3>2. (s \o t)[i] = t[i - Len(s)]
      BY <1>1, <2>0, <2>2
    <3> QED  BY <3>1, <3>2
  <2> QED  BY <2>1, <2>2
<1> QED  BY <1>1, <1>2

\* What is on the wire after an answer: what was there, and the answer's lines.
LEMMA WireAfter ==
  ASSUME TypeOK, NEW r, r.id \in Nat, r.of \in Tags, NEW ok \in BOOLEAN, NEW note \in BOOLEAN,
         LET lines == (IF note THEN <<[id |-> 0, of |-> NoTag, ok |-> TRUE, torn |-> FALSE]>>
                       ELSE <<>>)
                      \o <<[id |-> r.id, of |-> r.of, ok |-> ok, torn |-> FALSE]>>
         IN  wire' = IF ~bound THEN <<>>
                     ELSE wire \o (IF torn THEN [lines EXCEPT ![1] = [@ EXCEPT !.torn = TRUE, !.ok = FALSE, !.of = NoTag]]
                                   ELSE lines)
  PROVE  /\ wire' \in Seq(Line)
         /\ \A i \in 1..Len(wire') : \/ \E j \in 1..Len(wire) : wire'[i] = wire[j]
                                     \/ Answers(r, ok, wire'[i])
<1> DEFINE a == [id |-> 0, of |-> NoTag, ok |-> TRUE, torn |-> FALSE]
           b == [id |-> r.id, of |-> r.of, ok |-> ok, torn |-> FALSE]
           pre == IF note THEN <<a>> ELSE <<>>
           s == pre \o <<b>>
           u == IF torn THEN [s EXCEPT ![1] = [@ EXCEPT !.torn = TRUE, !.ok = FALSE, !.of = NoTag]]
                ELSE s
<1>1. wire \in Seq(Line)
  BY DEF TypeOK
<1>2. wire' = IF ~bound THEN <<>> ELSE wire \o u
  BY Zenon
<1>3. a \in Line /\ a.id = 0 /\ a.torn = FALSE
  BY ToolsAssumption DEF Line, NoTag, Tags
<1>4. pre \in Seq(Line) /\ \A i \in 1..Len(pre) : pre[i].id = 0 /\ pre[i].torn = FALSE
  <2> HIDE DEF a
  <2>1. CASE note
    <3>1. pre = <<a>>
      BY <2>1, Zenon
    <3>2. <<a>> \in Seq(Line) /\ Len(<<a>>) = 1 /\ <<a>>[1] = a
      BY <1>3
    <3>3. \A i \in 1..1 : i = 1
      OBVIOUS
    <3> HIDE DEF pre
    <3> QED  BY <1>3, <3>1, <3>2, <3>3
  <2>2. CASE ~note
    <3>1. pre = <<>>
      BY <2>2, Zenon
    <3> HIDE DEF pre
    <3> QED  BY <3>1
  <2> QED  BY <2>1, <2>2
<1>5. s \in Seq(Line) /\ s # <<>> /\ \A i \in 1..Len(s) : Answers(r, ok, s[i])
  <2> HIDE DEF pre
  <2> QED  BY <1>4, AnswerLines
<1>6. u \in Seq(Line) /\ \A i \in 1..Len(u) : Answers(r, ok, u[i])
  <2> HIDE DEF s
  <2>1. CASE torn
    <3>1. u = [s EXCEPT ![1] = [@ EXCEPT !.torn = TRUE, !.ok = FALSE, !.of = NoTag]]
      BY <2>1, Zenon
    <3> HIDE DEF u
    <3> QED  BY <1>5, <3>1, TornLines
  <2>2. CASE ~torn
    <3>1. u = s
      BY <2>2, Zenon
    <3> HIDE DEF u
    <3> QED  BY <1>5, <3>1
  <2> QED  BY <2>1, <2>2
<1> HIDE DEF u
<1>7. CASE ~bound
  <2>1. wire' = <<>>
    BY <1>2, <1>7, Zenon
  <2> QED  BY <2>1
<1>8. CASE bound
  <2>1. wire' = wire \o u
    BY <1>2, <1>8, Zenon
  <2>2. /\ wire \o u \in Seq(Line)
        /\ \A i \in 1..Len(wire \o u) : \/ \E j \in 1..Len(wire) : (wire \o u)[i] = wire[j]
                                       \/ \E j \in 1..Len(u) : (wire \o u)[i] = u[j]
    BY <1>1, <1>6, ConcatElements
  <2> QED  BY <1>6, <2>1, <2>2
<1> QED  BY <1>7, <1>8

\* The child answers.
LEMMA ChildAnswersKeeps == ASSUME IInv, ChildAnswers PROVE IInv'
<1> DEFINE r == Head(inbox)
<1>0. /\ TypeOK /\ Placed /\ Numbered /\ LastIsOwn /\ AnswerIsTrue /\ DoneOnce
  BY DEF IInv
<1>1. /\ inbox # <<>> /\ inbox' = Tail(inbox) /\ torn' = FALSE
      /\ UNCHANGED <<enabled, child, bound, nextId, restarts, disabled, deaths, cached,
                     n, tool, k, c, pc, result, got, failed>>
  BY DEF ChildAnswers
<1>2. PICK ok \in BOOLEAN, note \in BOOLEAN :
         /\ r.bad => ~ok
         /\ Done(r.of, r.act) \/ (~ok /\ UNCHANGED acts)
         /\ LET lines == (IF note THEN <<[id |-> 0, of |-> NoTag, ok |-> TRUE, torn |-> FALSE]>>
                          ELSE <<>>)
                         \o <<[id |-> r.id, of |-> r.of, ok |-> ok, torn |-> FALSE]>>
            IN  wire' = IF ~bound THEN <<>>
                        ELSE wire \o (IF torn THEN [lines EXCEPT ![1] = [@ EXCEPT !.torn = TRUE, !.ok = FALSE, !.of = NoTag]]
                                      ELSE lines)
  BY Zenon DEF ChildAnswers
<1>3. r.id \in Nat /\ r.of \in Tags /\ r.act \in BOOLEAN /\ r.bad \in BOOLEAN
  BY <1>0, <1>1, RequestType
<1>4. /\ 1 \in 1..Len(inbox) /\ r = inbox[1] /\ r.id \in 1..nextId - 1
      /\ nextId \in Nat /\ n \in Nat
  BY <1>0, <1>1, ToolsAssumption DEF TypeOK, Numbered
<1> HIDE DEF r
<1>5. /\ wire' \in Seq(Line)
      /\ \A i \in 1..Len(wire') : \/ \E j \in 1..Len(wire) : wire'[i] = wire[j]
                                  \/ Answers(r, ok, wire'[i])
  BY <1>0, <1>2, <1>3, WireAfter
<1>6. /\ acts' \in 0..2 /\ acts' >= acts /\ acts \in 0..2
      /\ (r.act /\ ok /\ r.of.n = n) => acts' > 0
      /\ (Sure /\ acts' # acts) =>
           /\ pc = "reading" /\ r.id = nextId - 1 /\ Current.call \in Acts
           /\ acts = 0 /\ acts' = 1
  <2>1. acts \in 0..2
    BY <1>0 DEF TypeOK
  <2>2. CASE Done(r.of, r.act)
    BY <1>0, <1>1, <1>3, <2>2, HeadDone DEF r
  <2>3. CASE ~ok /\ acts' = acts
    BY <2>1, <2>3
  <2> QED  BY <1>2, <2>2, <2>3
<1>7. /\ inbox' \in Seq([id: Nat, of: Tags, act: BOOLEAN, bad: BOOLEAN])
      /\ \A i \in 1..Len(inbox') : i + 1 \in 1..Len(inbox) /\ inbox'[i] = inbox[i + 1]
      /\ LastIsOwn' /\ ClosingAfterAct' /\ DoneOnce'
      /\ SuccessWasCarriedOut' /\ TwiceOnlyAfterFailure'
  BY <1>1, <1>6, ChildKeeps DEF r
<1>8. Current' = Current /\ Tag' = Tag /\ NoTag' = NoTag /\ (InScript(k, c)' <=> InScript(k, c))
  BY <1>1 DEF Current, Tag, NoTag, InScript
<1>9. TypeOK'
  <2>1. Tags' = Tags /\ Line' = Line
    BY DEF Tags, Line
  <2>2. torn' \in BOOLEAN
    BY <1>1, Zenon
  <2> QED  BY <1>0, <1>1, <1>5, <1>6, <1>7, <2>1, <2>2 DEF TypeOK
<1>10. Placed'
  BY <1>0, <1>1, <1>8 DEF Placed
<1>11. Numbered'
  <2>1. \A i \in 1..Len(inbox') : /\ inbox'[i].id \in 1..nextId - 1 /\ inbox'[i].of.n <= n
                                  /\ r.id < inbox'[i].id
    <3>1. SUFFICES ASSUME NEW i \in 1..Len(inbox')
                   PROVE  /\ inbox'[i].id \in 1..nextId - 1 /\ inbox'[i].of.n <= n
                          /\ r.id < inbox'[i].id
      OBVIOUS
    <3>2. i + 1 \in 1..Len(inbox) /\ inbox'[i] = inbox[i + 1] /\ 1 < i + 1
      BY <1>7
    <3> QED  BY <1>0, <1>4, <3>2 DEF Numbered
  <2>2. \A i, j \in 1..Len(inbox') : i < j => inbox'[i].id < inbox'[j].id
    <3>1. SUFFICES ASSUME NEW i \in 1..Len(inbox'), NEW j \in 1..Len(inbox'), i < j
                   PROVE  inbox'[i].id < inbox'[j].id
      OBVIOUS
    <3>2. i + 1 \in 1..Len(inbox) /\ inbox'[i] = inbox[i + 1]
      BY <1>7
    <3>3. j + 1 \in 1..Len(inbox) /\ inbox'[j] = inbox[j + 1]
      BY <1>7
    <3>4. i + 1 < j + 1
      BY <3>1
    <3> QED  BY <1>0, <3>2, <3>3, <3>4 DEF Numbered
  <2>3. ASSUME NEW i \in 1..Len(wire')
        PROVE  wire'[i].id < nextId /\ \A j \in 1..Len(inbox') : wire'[i].id < inbox'[j].id
    <3>1. CASE \E j \in 1..Len(wire) : wire'[i] = wire[j]
      BY <1>0, <1>7, <3>1 DEF Numbered
    <3>2. CASE Answers(r, ok, wire'[i])
      <4>1. wire'[i].id = 0 \/ wire'[i].id = r.id
        BY <3>2 DEF Answers
      <4>2. nextId >= 1
        BY <1>0 DEF Numbered
      <4>3. CASE wire'[i].id = 0
        BY <1>4, <2>1, <4>2, <4>3
      <4>4. CASE wire'[i].id = r.id
        BY <1>4, <2>1, <4>4
      <4> QED  BY <4>1, <4>3, <4>4
    <3> QED  BY <1>5, <3>1, <3>2
  <2>4. nextId >= 1 /\ (pc = "reading" => nextId >= 2)
    BY <1>0 DEF Numbered
  <2>5. nextId' = nextId /\ n' = n /\ pc' = pc
    BY <1>1
  <2> QED  BY <2>1, <2>2, <2>3, <2>4, <2>5 DEF Numbered
<1>12. AnswerIsTrue'
  <2>1. ASSUME NEW i \in 1..Len(wire'), wire'[i].torn
        PROVE  wire'[i].of = NoTag /\ ~wire'[i].ok
    BY <1>0, <1>5, <2>1 DEF AnswerIsTrue, Answers
  <2>2. ASSUME pc = "reading", NEW i \in 1..Len(wire'), wire'[i].id = nextId - 1, ~wire'[i].torn
        PROVE  /\ wire'[i].of = Tag
               /\ wire'[i].ok => Current.call # "bad_script" /\ (Current.call \in Acts => acts' > 0)
    <3>1. ~ \E j \in 1..Len(wire) : wire'[i] = wire[j]
      BY <1>0, <1>4, <2>2, AnsweredEmpty
    <3>2. Answers(r, ok, wire'[i])
      BY <1>5, <2>2, <3>1
    <3>3. nextId - 1 # 0
      BY <1>0, <1>4, <2>2 DEF Numbered
    <3>4. r.id = nextId - 1 /\ wire'[i].of = r.of /\ wire'[i].ok = ok
      BY <2>2, <3>2, <3>3 DEF Answers
    <3>5. /\ r.of = Tag /\ r.act = (Current.call \in Acts)
          /\ r.bad = (Current.call = "bad_script")
      BY <1>0, <1>4, <2>2, <3>4 DEF LastIsOwn
    <3>6. r.of.n = n
      BY <3>5 DEF Tag
    <3>7. wire'[i].ok => Current.call # "bad_script" /\ (Current.call \in Acts => acts' > 0)
      BY <1>2, <1>6, <3>4, <3>5, <3>6
    <3> QED  BY <3>4, <3>5, <3>7
  <2>3. nextId' = nextId /\ pc' = pc
    BY <1>1
  <2> QED  BY <1>8, <2>1, <2>2, <2>3 DEF AnswerIsTrue
<1> QED  BY <1>7, <1>9, <1>10, <1>11, <1>12 DEF IInv

-----------------------------------------------------------------------------
(* The theorems *)

\* The invariant holds when the server starts.
LEMMA IInvInit == ASSUME Init PROVE IInv
<1>1. NoTag \in Tags
  BY ToolsAssumption DEF NoTag, Tags
<1>2. TypeOK
  <2>1. /\ inbox \in Seq([id: Nat, of: Tags, act: BOOLEAN, bad: BOOLEAN]) /\ wire \in Seq(Line)
    BY DEF Init
  <2>2. bound \in BOOLEAN /\ torn \in BOOLEAN /\ disabled \in BOOLEAN /\ cached \in BOOLEAN
        /\ failed \in BOOLEAN
    BY Zenon DEF Init
  <2>3. tool \in DOMAIN Script
    BY ToolsAssumption DEF Init
  <2>4. nextId \in Nat /\ restarts \in 0..MaxRestarts /\ deaths \in 0..MaxDeaths /\ n \in 0..MaxTools
        /\ k \in Nat /\ c \in Nat /\ acts \in 0..2
    BY ToolsAssumption DEF Init
  <2> QED  BY <1>1, <2>1, <2>2, <2>3, <2>4 DEF TypeOK, Init
<1>3. Placed /\ Numbered /\ LastIsOwn /\ AnswerIsTrue
  BY DEF Init, Placed, Numbered, LastIsOwn, AnswerIsTrue
<1>4. ClosingAfterAct /\ DoneOnce /\ SuccessWasCarriedOut /\ TwiceOnlyAfterFailure
  BY DEF Init, ClosingAfterAct, DoneOnce, SuccessWasCarriedOut, TwiceOnlyAfterFailure
<1> QED  BY <1>2, <1>3, <1>4 DEF IInv

\* The invariant does not depend on anything else.
LEMMA IInvStutters == ASSUME IInv, UNCHANGED vars PROVE IInv'
<1>1. UNCHANGED <<enabled, child, bound, inbox, wire, torn, nextId, restarts, disabled, deaths,
                  cached, n, tool, k, c, pc, result, got, acts, failed>>
  BY DEF vars, proc, caller
<1>2. Current' = Current /\ Tag' = Tag /\ NoTag' = NoTag /\ (InScript(k, c)' <=> InScript(k, c))
  BY <1>1 DEF Current, Tag, NoTag, InScript
<1>3. TypeOK'
  BY <1>1 DEF IInv, TypeOK, Line, Tags
<1>4. Placed'
  BY <1>1, <1>2 DEF IInv, Placed
<1>5. Numbered'
  BY <1>1 DEF IInv, Numbered
<1>6. LastIsOwn' /\ AnswerIsTrue'
  BY <1>1, <1>2 DEF IInv, LastIsOwn, AnswerIsTrue
<1>7. ClosingAfterAct' /\ DoneOnce'
  BY <1>1, <1>2, SureStays DEF IInv, ClosingAfterAct, DoneOnce
<1>8. SuccessWasCarriedOut' /\ TwiceOnlyAfterFailure'
  BY <1>1 DEF IInv, SuccessWasCarriedOut, TwiceOnlyAfterFailure
<1> QED  BY <1>3, <1>4, <1>5, <1>6, <1>7, <1>8 DEF IInv

\* Every step of the server and of the child keeps it.
LEMMA IInvNext == ASSUME IInv, [Next]_vars PROVE IInv'
BY ToolStartsKeeps, McpOffKeeps, McpDisabledKeeps, McpCachedPagesKeeps, McpAliveKeeps,
   McpExhaustedKeeps, McpSpawnFailsKeeps, McpSpawnsKeeps, McpSendsKeeps, McpNotSentKeeps,
   McpReadsKeeps, McpSkipsKeeps, McpGivesUpKeeps, NoCallKeeps, RuntimeProbesKeeps,
   DaemonAnswersKeeps, DirectConnectsKeeps, DirectConnectFailsKeeps, DirectAnswersKeeps, ChildAnswersKeeps, ChildDiesKeeps, IInvStutters
   DEF Next, ServerStep

\* The invariant holds throughout.
LEMMA Invariance == Spec => []IInv
BY IInvInit, IInvNext, PTL DEF Spec

\* The variables of the tools' model have their types, whatever tools are asked
\* for and however often the child dies.
THEOREM TypeCorrect == Spec => []TypeOK
<1>1. IInv => TypeOK
  BY DEF IInv
<1> QED  BY <1>1, Invariance, PTL

\* A tool that reports success has been carried out, over whichever route; but for
\* select_option and a click on ref 0, which report it without.
THEOREM SuccessMeansDone == Spec => []SuccessWasCarriedOut
<1>1. IInv => SuccessWasCarriedOut
  BY DEF IInv
<1> QED  BY <1>1, Invariance, PTL

\* Falling back from route to route carries a tool out a second time only after a
\* call that was sent and did not succeed, but for press_key.
THEOREM SuccessIsNotRepeated == Spec => []TwiceOnlyAfterFailure
<1>1. IInv => TwiceOnlyAfterFailure
  BY DEF IInv
<1> QED  BY <1>1, Invariance, PTL

\* What a step takes for an answer is a torn line or the answer to its own call.
LEMMA StepAnswersOwn == ASSUME IInv, [Next]_vars PROVE got' \in {got, NoTag, Tag}
<1>1. CASE McpReads
  <2>1. /\ pc = "reading" /\ wire # <<>> /\ got' = Head(wire).of
        /\ Head(wire).torn \/ Head(wire).id = nextId - 1
    BY <1>1 DEF McpReads
  <2>2. 1 \in 1..Len(wire) /\ Head(wire) = wire[1]
    BY <2>1 DEF IInv, TypeOK
  <2>3. wire[1].of = NoTag \/ wire[1].of = Tag
    BY <2>1, <2>2 DEF IInv, AnswerIsTrue
  <2> QED  BY <2>1, <2>2, <2>3
<1>2. CASE ToolStarts
  BY <1>2 DEF ToolStarts
<1>3. CASE (ServerStep /\ ~McpReads) \/ ChildAnswers \/ ChildDies \/ UNCHANGED vars
  <2>1. got' = got
    BY <1>3 DEF ServerStep, ChildAnswers, ChildDies, vars, caller, McpOff, McpDisabled,
       McpCachedPages, McpAlive, McpExhausted, McpSpawnFails, McpSpawns, McpSends, McpNotSent,
       McpSkips, McpGivesUp, NoCall, RuntimeProbes, DaemonAnswers, DirectConnects,
       DirectConnectFails, DirectAnswers, RuntimeEnds
  <2> QED  BY <2>1
<1> QED  BY <1>1, <1>2, <1>3 DEF Next, ServerStep

\* Late answers, lost lines and restarts never give a call the answer to another
\* call or tool.
THEOREM OwnAnswers == Spec => OwnToolAnswer
<1>1. IInv /\ [Next]_vars => [got' \in {got, NoTag, Tag}]_vars
  BY StepAnswersOwn
<1> QED  BY <1>1, Invariance, PTL DEF Spec, OwnToolAnswer

-----------------------------------------------------------------------------
(* The operators that decode an answer *)

\* The numbers of a finite set, in order, are numbers of that set: as many
\* places as the set has elements, and the element at each place exists.
LEMMA InOrderOf ==
  ASSUME NEW S \in SUBSET Nat, IsFiniteSet(S)
  PROVE  InOrder(S) \in Seq(S) /\ Len(InOrder(S)) = Cardinality(S)
<1> DEFINE upTo(q) == {p \in S : p <= q}
           rank == [q \in S |-> Cardinality(upTo(q))]
           card == Cardinality(S)
<1>1. card \in Nat
  BY FS_CardinalityType
<1>2. ASSUME NEW q \in S
      PROVE  IsFiniteSet(upTo(q)) /\ Cardinality(upTo(q)) \in 1 .. card
  <2>1. upTo(q) \in SUBSET S /\ q \in upTo(q)
    OBVIOUS
  <2>2. IsFiniteSet(upTo(q)) /\ Cardinality(upTo(q)) <= card
    BY <2>1, FS_Subset
  <2>3. Cardinality(upTo(q)) \in Nat
    BY <2>2, FS_CardinalityType
  <2>4. Cardinality(upTo(q)) # 0
    BY <2>1, <2>2, FS_EmptySet
  <2> HIDE DEF upTo, card
  <2> QED  BY <1>1, <2>2, <2>3, <2>4
<1>3. ASSUME NEW q \in S, NEW p \in S, q < p
      PROVE  Cardinality(upTo(q)) # Cardinality(upTo(p))
  <2>1. upTo(q) \in SUBSET upTo(p) /\ p \in upTo(p) /\ p \notin upTo(q)
    <3>1. q \in Nat /\ p \in Nat /\ S \subseteq Nat
      OBVIOUS
    <3>2. \A w \in Nat : w <= q => w <= p
      BY <1>3, <3>1
    <3>3. p <= p /\ ~(p <= q)
      BY <1>3, <3>1
    <3> QED  BY <3>1, <3>2, <3>3
  <2>2. IsFiniteSet(upTo(p))
    BY <1>2
  <2> HIDE DEF upTo
  <2> QED  BY <2>1, <2>2, FS_Subset
<1>4. rank \in Injection(S, 1 .. card)
  <2>1. rank \in [S -> 1 .. card]
    BY <1>2
  <2>2. ASSUME NEW q \in S, NEW p \in S, rank[q] = rank[p]
        PROVE  q = p
    <3> HIDE DEF upTo
    <3>1. q \in Nat /\ p \in Nat
      OBVIOUS
    <3> QED  BY <1>3, <2>2, <3>1
  <2> QED  BY <2>1, <2>2 DEF Injection, IsInjective
<1>5. IsFiniteSet(1 .. card) /\ Cardinality(1 .. card) = card
  BY <1>1, FS_Interval
<1>6. rank \in Surjection(S, 1 .. card)
  BY <1>4, <1>5, FS_Injection
<1>7. ASSUME NEW j \in 1 .. card
      PROVE  (CHOOSE q \in S : Cardinality(upTo(q)) = j) \in S
  BY <1>6 DEF Surjection
<1>8. InOrder(S) = [j \in 1 .. card |-> CHOOSE q \in S : Cardinality(upTo(q)) = j]
  BY DEF InOrder
<1> DEFINE at(j) == CHOOSE q \in S : Cardinality(upTo(q)) = j
<1>9. InOrder(S) = [j \in 1 .. card |-> at(j)] /\ \A j \in 1 .. card : at(j) \in S
  BY <1>7, <1>8
<1> HIDE DEF at, upTo
<1> QED  BY <1>1, <1>9, IsASeq

\* The first numbers are in order as they are.
LEMMA InOrderOfInterval ==
  ASSUME NEW m \in Nat
  PROVE  InOrder(1 .. m) = [j \in 1 .. m |-> j]
<1>1. Cardinality(1 .. m) = m
  BY FS_Interval
<1>2. ASSUME NEW q \in 1 .. m
      PROVE  Cardinality({p \in 1 .. m : p <= q}) = q
  <2>1. {p \in 1 .. m : p <= q} = 1 .. q
    OBVIOUS
  <2>2. Cardinality(1 .. q) = q
    BY FS_Interval
  <2> QED  BY <2>1, <2>2, Zenon
<1>3. ASSUME NEW j \in 1 .. m
      PROVE  (CHOOSE q \in 1 .. m : Cardinality({p \in 1 .. m : p <= q}) = j) = j
  BY <1>2
<1> QED  BY <1>1, <1>3 DEF InOrder

\* Every set of numbers that is not empty has a least one.
LEMMA LeastNumber ==
  ASSUME NEW S \in SUBSET Nat, S # {}
  PROVE  \E i \in S : \A j \in S : i <= j
<1>1. \E i \in S : \A j \in S : ~(<<j, i>> \in OpToRel(<, Nat))
  BY NatLessThanWellFounded, WFMin, Zenon
<1>2. PICK i \in S : \A j \in S : ~(<<j, i>> \in OpToRel(<, Nat))
  BY <1>1, Zenon
<1>3. ASSUME NEW j \in S PROVE i <= j
  <2>1. i \in Nat /\ j \in Nat
    OBVIOUS
  <2>2. ~(j < i)
    BY <1>2, <2>1 DEF OpToRel
  <2> QED  BY <2>1, <2>2
<1> QED  BY <1>3

\* normalize_choices returns an option: the one with the number, else the first
\* one with the text; nothing else is taken for an option.
LEMMA NormalizeChoiceOf ==
  ASSUME NEW options \in Seq(STRING), NEW choice, NormalizeChoice(options, choice) # 0
  PROVE  /\ NormalizeChoice(options, choice) \in DOMAIN options
         /\ \/ /\ choice \in DOMAIN Numeral
               /\ Numeral[choice] = NormalizeChoice(options, choice)
            \/ options[NormalizeChoice(options, choice)] = choice
<1> DEFINE byId == {i \in DOMAIN options : choice \in DOMAIN Numeral /\ Numeral[choice] = i}
           byText == {i \in DOMAIN options : options[i] = choice}
           first(S) == CHOOSE i \in S : \A j \in S : i <= j
           taken == NormalizeChoice(options, choice)
<1>1. byId \in SUBSET Nat /\ byText \in SUBSET Nat
  OBVIOUS
<1>2. taken = IF byId # {} THEN first(byId) ELSE IF byText # {} THEN first(byText) ELSE 0
  BY DEF NormalizeChoice
<1>3. byId # {} => first(byId) \in byId
  BY <1>1, LeastNumber
<1>4. byText # {} => first(byText) \in byText
  BY <1>1, LeastNumber
<1>5. taken \in byId \/ taken \in byText
  <2> HIDE DEF byId, byText, first
  <2> QED  BY <1>2, <1>3, <1>4
<1> QED  BY <1>5

\* A choice that is the id of an option, or its text unless that reads as a
\* number, is taken for an option with the same text as the one that was meant.
LEMMA NormalizedAsMeant ==
  ASSUME NEW options \in Seq(STRING), NEW m \in DOMAIN options, m \in DOMAIN Ids,
         NEW choice \in {Ids[m], options[m]}, NormalizeChoice(options, choice) # 0
  PROVE  \/ options[NormalizeChoice(options, choice)] = options[m]
         \/ options[m] \in DOMAIN Numeral
<1> DEFINE taken == NormalizeChoice(options, choice)
<1>1. /\ taken \in DOMAIN options
      /\ (choice \in DOMAIN Numeral /\ Numeral[choice] = taken) \/ options[taken] = choice
  BY NormalizeChoiceOf
<1>2. CASE choice = options[m]
  BY <1>1, <1>2
<1>3. CASE choice = Ids[m] /\ choice # options[m]
  <2>1. taken = m
    <3> DEFINE byId == {i \in DOMAIN options : choice \in DOMAIN Numeral /\ Numeral[choice] = i}
    <3>1. byId = {m}
      BY <1>3, IdsAssumption
    <3>2. (CHOOSE i \in {m} : \A j \in {m} : i <= j) = m
      <4>1. m \in Nat /\ m <= m
        OBVIOUS
      <4> QED  BY <4>1
    <3>3. byId # {}
      BY <3>1
    <3>4. taken = CHOOSE i \in byId : \A j \in byId : i <= j
      BY <3>3 DEF NormalizeChoice
    <3> QED  BY <3>1, <3>2, <3>4, Zenon
  <2> QED  BY <2>1
<1> QED  BY <1>2, <1>3

\* The first m numbers are m numbers, and so a subset of them is finite.
LEMMA FirstNumbers ==
  ASSUME NEW m \in Nat
  PROVE  /\ IsFiniteSet(1 .. m) /\ Cardinality(1 .. m) = m
         /\ \A S \in SUBSET (1 .. m) : IsFiniteSet(S) /\ Cardinality(S) \in Nat
<1>1. IsFiniteSet(1 .. m) /\ Cardinality(1 .. m) = m
  BY FS_Interval
<1> QED  BY <1>1, FS_Subset, FS_CardinalityType

\* A reply that has a decision for every question has them in the order of the
\* questions: none is missing or malformed.
LEMMA DecodeWhole ==
  ASSUME NEW asked \in Seq(Seq(STRING)), NEW r \in Replies(asked),
         Len(Decode(asked, r)) = Len(asked)
  PROVE  Decode(asked, r) = [j \in DOMAIN asked |-> Decision(asked, r, j)]
<1> DEFINE there == {q \in DOMAIN asked : r.fate[q] # "missing"}
           whole == {q \in DOMAIN asked : r.fate[q] = "ok"}
           read == IF r.shape = "list" /\ whole # there THEN {} ELSE whole
<1>1. read \in SUBSET (1 .. Len(asked)) /\ DOMAIN asked = 1 .. Len(asked) /\ Len(asked) \in Nat
  OBVIOUS
<1>2. Decode(asked, r) = [j \in DOMAIN InOrder(read) |-> Decision(asked, r, InOrder(read)[j])]
  BY DEF Decode
<1> HIDE DEF read
<1>3. IsFiniteSet(1 .. Len(asked)) /\ Cardinality(1 .. Len(asked)) = Len(asked)
  BY <1>1, FirstNumbers
<1>4. IsFiniteSet(read) /\ Cardinality(read) \in Nat
  BY <1>1, FirstNumbers
<1>5. DOMAIN InOrder(read) = 1 .. Cardinality(read)
  BY DEF InOrder
<1>6. Len(Decode(asked, r)) = Cardinality(read)
  BY <1>2, <1>4, <1>5
<1>7. read = 1 .. Len(asked)
  BY <1>1, <1>3, <1>6, FS_Subset
<1>8. InOrder(read) = [j \in 1 .. Len(asked) |-> j]
  BY <1>1, <1>7, InOrderOfInterval
<1> QED  BY <1>1, <1>2, <1>8

\* The decisions of an accepted answer: one per question, of that question, for
\* one of its options, which is the one that was meant.
Decided(asked, said) ==
  /\ DOMAIN said = DOMAIN asked
  /\ \A q \in DOMAIN asked :
       /\ said[q].of = q
       /\ said[q].choice \in DOMAIN asked[q] /\ said[q].means \in DOMAIN asked[q]
       /\ TakenAsMeant(asked[q], said[q])

\* A decision has the fields it is made of.
LEMMA DecisionRecord ==
  ASSUME NEW q \in Nat, NEW m \in Nat, NEW conf \in {"high", "low", "none"}, NEW o \in Nat
  PROVE  [of |-> q, means |-> m, conf |-> conf, choice |-> o] \in Decisions
BY DEF Decisions

\* The ids are numbered from one on.
LEMMA IdsAreSeq == DOMAIN Ids = 1 .. Len(Ids) /\ Len(Ids) \in Nat
<1>1. Ids \in Seq(STRING)
  BY IdsAssumption
<1> QED  BY <1>1

\* What is decoded, normalised and validated is decided.
LEMMA ValidIsDecided ==
  ASSUME NEW asked \in Seq(Seq(STRING)), Valid(asked), NEW r \in Replies(asked),
         ValidResponse(asked, Normalize(asked, Decode(asked, r)))
  PROVE  /\ Normalize(asked, Decode(asked, r)) \in Seq(Decisions)
         /\ Decided(asked, Normalize(asked, Decode(asked, r)))
<1> DEFINE read == Decode(asked, r)
           said == Normalize(asked, read)
<1>1. DOMAIN said = DOMAIN read /\ Len(said) = Len(asked)
  BY DEF Normalize, ValidResponse
<1>2. Len(read) = Len(asked)
  <2>1. \E m \in Nat : DOMAIN read = 1 .. m
    <3> DEFINE there == {q \in DOMAIN asked : r.fate[q] # "missing"}
               whole == {q \in DOMAIN asked : r.fate[q] = "ok"}
               some == IF r.shape = "list" /\ whole # there THEN {} ELSE whole
    <3>1. some \in SUBSET (1 .. Len(asked)) /\ Len(asked) \in Nat
      OBVIOUS
    <3>2. DOMAIN read = 1 .. Cardinality(some)
      BY DEF Decode, InOrder
    <3> HIDE DEF some
    <3>3. Cardinality(some) \in Nat
      BY <3>1, FirstNumbers
    <3> QED  BY <3>2, <3>3
  <2>2. Len(said) = Len(read)
    BY <1>1, <2>1
  <2> QED  BY <1>1, <2>2
<1>3. read = [j \in DOMAIN asked |-> Decision(asked, r, j)]
  BY <1>2, DecodeWhole
<1> DEFINE taken(q) == NormalizeChoice(asked[q], Decision(asked, r, q).choice)
<1>4. said = [q \in DOMAIN asked |-> [Decision(asked, r, q) EXCEPT !.choice = taken(q)]]
  BY <1>3 DEF Normalize
<1>5. ASSUME NEW q \in DOMAIN asked
      PROVE  /\ said[q] = [of |-> q, means |-> r.means[q], conf |-> r.conf, choice |-> taken(q)]
             /\ taken(q) # 0
  <2>1. said[q] = [of |-> q, means |-> r.means[q], conf |-> r.conf, choice |-> taken(q)]
    BY <1>4 DEF Decision
  <2>2. ValidDecision(said[q])
    BY <1>4 DEF ValidResponse
  <2> HIDE DEF taken, said
  <2> QED  BY <2>1, <2>2 DEF ValidDecision
<1>6. ASSUME NEW q \in DOMAIN asked
      PROVE  /\ said[q] \in Decisions /\ said[q].of = q
             /\ said[q].choice \in DOMAIN asked[q] /\ said[q].means \in DOMAIN asked[q]
             /\ TakenAsMeant(asked[q], said[q])
  <2>1. /\ asked[q] \in Seq(STRING) /\ r.means[q] \in DOMAIN asked[q] /\ r.means[q] \in DOMAIN Ids
        /\ r.conf \in {"high", "low", "none"} /\ r.form \in {"id", "text", "unknown"}
        /\ q \in Nat
    <3>1. asked[q] \in Seq(STRING) /\ q \in Nat
      OBVIOUS
    <3>2. /\ r.means \in {m \in [DOMAIN asked -> DOMAIN Ids] : \A p \in DOMAIN asked : m[p] <= Len(asked[p])}
          /\ r.conf \in {"high", "low", "none"} /\ r.form \in {"id", "text", "unknown"}
      BY DEF Replies
    <3>3. r.means[q] \in DOMAIN Ids /\ r.means[q] <= Len(asked[q])
      BY <3>2
    <3>4. r.means[q] \in 1 .. Len(asked[q])
      <4>1. DOMAIN Ids = 1 .. Len(Ids) /\ Len(Ids) \in Nat
        BY IdsAreSeq
      <4>2. r.means[q] \in Nat /\ r.means[q] >= 1 /\ Len(asked[q]) \in Nat
        BY <3>1, <3>3, <4>1
      <4> QED  BY <3>3, <4>2
    <3> QED  BY <3>1, <3>2, <3>3, <3>4
  <2>2. Decision(asked, r, q).choice =
           IF r.form = "id" THEN Ids[r.means[q]]
           ELSE IF r.form = "text" THEN asked[q][r.means[q]] ELSE ""
    BY DEF Decision
  <2>3. taken(q) \in DOMAIN asked[q]
    BY <1>5, <2>1, NormalizeChoiceOf
  <2>4. Decision(asked, r, q).choice \in {Ids[r.means[q]], asked[q][r.means[q]]}
    <3>1. CASE r.form = "unknown"
      <4>1. Decision(asked, r, q).choice = ""
        BY <2>2, <3>1
      <4>2. "" \notin DOMAIN Numeral
        BY IdsAssumption
      <4>3. \A o \in DOMAIN asked[q] : asked[q][o] # ""
        BY DEF Valid
      <4>4. \/ "" \in DOMAIN Numeral
            \/ asked[q][taken(q)] = ""
        BY <1>5, <2>1, <4>1, NormalizeChoiceOf
      <4> HIDE DEF taken
      <4> QED  BY <2>3, <4>2, <4>3, <4>4
    <3> QED  BY <2>1, <2>2, <3>1
  <2>5. \/ asked[q][taken(q)] = asked[q][r.means[q]]
        \/ asked[q][r.means[q]] \in DOMAIN Numeral
    BY <1>5, <2>1, <2>4, NormalizedAsMeant
  <2>0. said[q] = [of |-> q, means |-> r.means[q], conf |-> r.conf, choice |-> taken(q)]
    BY <1>5
  <2> HIDE DEF said, taken
  <2>6. taken(q) \in Nat /\ r.means[q] \in Nat
    BY <2>1, <2>3
  <2>7. said[q] \in Decisions
    BY <2>0, <2>1, <2>6, DecisionRecord
  <2>8. said[q].of = q /\ said[q].choice = taken(q) /\ said[q].means = r.means[q]
    BY <2>0
  <2> QED  BY <2>1, <2>3, <2>5, <2>7, <2>8 DEF TakenAsMeant
<1>7. DOMAIN said = DOMAIN asked
  BY <1>1, <1>3
<1>8. said \in Seq(Decisions)
  <2>1. said = [q \in 1 .. Len(asked) |-> said[q]]
    BY <1>4, <1>7
  <2>0. \A q \in 1 .. Len(asked) : said[q] \in Decisions
    BY <1>6
  <2> HIDE DEF said
  <2>2. said \in [1 .. Len(asked) -> Decisions] /\ Len(asked) \in Nat
    BY <2>0, <2>1
  <2> QED  BY <2>2, SMTT(30)
<1>9. said = Normalize(asked, Decode(asked, r))
  OBVIOUS
<1> HIDE DEF said
<1> QED  BY <1>6, <1>7, <1>8, <1>9 DEF Decided

-----------------------------------------------------------------------------
(* The inductive invariant of the perception tools *)

\* Only a valid request is sent, and only one that is answered has decisions.
RequestsDecided ==
  \A i \in DOMAIN reqs :
    /\ reqs[i].at \in {"sent", "answered"} => Valid(reqs[i].asked)
    /\ reqs[i].at = "answered" => Decided(reqs[i].asked, reqs[i].said)
    /\ reqs[i].at # "answered" => reqs[i].said = <<>>

\* The requests under way are those of the tool.
OwnQuestions ==
  step = "asking" /\ query.kind # "find" =>
    /\ Len(reqs) = Len(query.asks)
    /\ \A i \in DOMAIN reqs : reqs[i].asked = query.asks[i]

\* A find asks about candidates of its own: those of the chunk it is at, while
\* there are chunks left, and it has picked one winner per chunk so far.
OwnCandidates ==
  step = "asking" /\ query.kind = "find" =>
    /\ Len(reqs) = 1 /\ reqs[1].asked = <<Texts(reqs[1].offer)>>
    /\ Range(reqs[1].offer) \subseteq Range(query.cands)
    /\ round \in Nat \ {0} /\ Len(picked) = round - 1
    /\ round <= ChunkCount(query.cands) => reqs[1].offer = Chunk(query.cands, round)

NothingPicked == step # "asking" \/ query.kind # "find" => picked = <<>>

\* How long the service may have been down unnoticed: no longer than a good
\* verdict has been in the slot and its probe took.
VerdictAge ==
  /\ service = "up" => downFor = 0
  /\ slot.up /\ slot.age < TtlUp => downFor <= slot.age + ProbeTime
  /\ step \in {"probing", "probed"} /\ probe.ok => downFor <= probe.age

DeciderIInv ==
  /\ DeciderTypeOK /\ RequestsDecided /\ OwnQuestions /\ OwnCandidates /\ NothingPicked
  /\ VerdictAge /\ WinnersOfChunks /\ ResultSaid

\* The parts of it that are about the service and the routing, and about the
\* tool and its requests: most actions touch one of them.
WorldTyped ==
  /\ mode \in Modes /\ service \in {"up", "down"}
  /\ downFor \in 0..(TtlUp + ProbeTime + 1)
  /\ slot \in [up: BOOLEAN, age: 0..TtlUp]
  /\ probe \in [path: 0..Paths, age: 0..ProbeTime, ok: BOOLEAN]

ToolTyped ==
  /\ step \in {"idle", "page", "routing", "probing", "probed", "asking", "ground"}
  /\ why \in {"gate", "route", "explain", "ground"}
  /\ query \in Queries /\ late \in BOOLEAN /\ round \in Nat /\ picked \in Seq(Nat)
  /\ reqs \in Seq(RequestRecords) /\ out \in ResultRecords

WorldInv == WorldTyped /\ VerdictAge

ToolInv ==
  /\ ToolTyped /\ RequestsDecided /\ OwnQuestions /\ OwnCandidates /\ NothingPicked
  /\ WinnersOfChunks /\ ResultSaid

\* The two parts are the whole.
LEMMA InvParts ==
  /\ DeciderIInv <=> WorldInv /\ ToolInv
  /\ DeciderIInv' <=> WorldInv' /\ ToolInv'
BY DEF DeciderIInv, WorldInv, ToolInv, DeciderTypeOK, WorldTyped, ToolTyped

\* A tool call has the fields its description gives it.
LEMMA QueryFields ==
  ASSUME NEW t \in Queries
  PROVE  /\ t.kind \in Kinds /\ t.asks \in Seq(Seq(Seq(STRING))) /\ t.cands \in Seq(Nat)
         /\ t.kind = "choose" => Len(t.asks) = 1
         /\ t.kind \in {"detect", "verify", "wait"} => t.asks = <<<<Verdicts>>>>
         /\ \A j \in DOMAIN t.cands : TextOf[t.cands[j]] \in STRING
<1>1. t \in [kind: Kinds, asks: Seq(Seq(Seq(STRING))), cands: Seq(Nat \ {0})]
  BY QueriesAssumption
<1>2. t.cands \in Seq(Nat)
  <2>1. t.cands \in Seq(Nat \ {0})
    BY <1>1
  <2> QED  BY <2>1, SeqMonotonic
<1> QED  BY <1>1, <1>2, QueriesAssumption

\* A part of a sequence is made of its elements.
LEMMA PartOf ==
  ASSUME NEW s \in Seq(Nat), NEW m \in Nat, NEW e \in Nat, e <= Len(s)
  PROVE  /\ SubSeq(s, m + 1, e) \in Seq(Nat)
         /\ \A i \in DOMAIN SubSeq(s, m + 1, e) :
              m + i \in DOMAIN s /\ SubSeq(s, m + 1, e)[i] = s[m + i]
<1>1. CASE m + 1 <= e
  <2>1. SubSeq(s, m + 1, e) \in Seq(Nat) /\ Len(SubSeq(s, m + 1, e)) = e - (m + 1) + 1
    BY <1>1, SubSeqProperties
  <2>2. \A i \in 1 .. e - (m + 1) + 1 : SubSeq(s, m + 1, e)[i] = s[m + 1 + i - 1]
    BY <1>1, SubSeqProperties
  <2>3. \A i \in 1 .. e - (m + 1) + 1 : m + 1 + i - 1 = m + i /\ m + i \in 1 .. Len(s)
    BY <1>1
  <2> QED  BY <2>1, <2>2, <2>3
<1>2. CASE ~(m + 1 <= e)
  <2>1. SubSeq(s, m + 1, e) = <<>>
    BY <1>2, SubSeqEmpty
  <2> QED  BY <2>1
<1> QED  BY <1>1, <1>2

\* A chunk is made of candidates, and a choice in it is the candidate that
\* map_choice_to_global_id gives.
LEMMA ChunkOf ==
  ASSUME NEW s \in Seq(Nat), NEW j \in Nat \ {0}
  PROVE  /\ Chunk(s, j) \in Seq(Nat)
         /\ \A i \in DOMAIN Chunk(s, j) :
              /\ (j - 1) * Budget + i \in DOMAIN s
              /\ Chunk(s, j)[i] = MapChoiceToGlobalId(s, j, i)
<1> DEFINE m == (j - 1) * Budget
           e == IF j * Budget < Len(s) THEN j * Budget ELSE Len(s)
<1>1. m \in Nat /\ j * Budget \in Nat
  BY BoundsAssumption
<1>2. Chunk(s, j) = SubSeq(s, m + 1, e)
  BY DEF Chunk
<1>3. \A i : MapChoiceToGlobalId(s, j, i) = s[m + i]
  BY DEF MapChoiceToGlobalId
<1>4. e \in Nat /\ e <= Len(s)
  <2>1. Len(s) \in Nat
    OBVIOUS
  <2> QED  BY <1>1, <2>1
<1> HIDE DEF m, e
<1>5. /\ SubSeq(s, m + 1, e) \in Seq(Nat)
      /\ \A i \in DOMAIN SubSeq(s, m + 1, e) :
           m + i \in DOMAIN s /\ SubSeq(s, m + 1, e)[i] = s[m + i]
  BY <1>1, <1>4, PartOf
<1>6. \A i \in DOMAIN Chunk(s, j) : m + i \in DOMAIN s /\ Chunk(s, j)[i] = MapChoiceToGlobalId(s, j, i)
  BY <1>2, <1>3, <1>5
<1>7. Chunk(s, j) \in Seq(Nat)
  BY <1>2, <1>5
<1> QED  BY <1>6, <1>7 DEF m

\* The numbers of chunks are counted from zero.
LEMMA ChunkCountType ==
  ASSUME NEW s \in Seq(Nat)
  PROVE  ChunkCount(s) \in Nat
<1>1. Len(s) \in Nat /\ Budget \in Nat \ {0}
  BY BoundsAssumption
<1>2. \A b \in Nat \ {0}, m \in Nat : (m + b - 1) \div b \in Nat
  OBVIOUS
<1> QED  BY <1>1, <1>2 DEF ChunkCount

-----------------------------------------------------------------------------
(* The end of a tool, and the routing *)

\* A result is made of its fields.
LEMMA ResultRecord ==
  ASSUME NEW status \in {"none", "answered", "fallback", "success", "failure", "uncertain", "panicked"},
         NEW source \in {"none", "page", "service"}, NEW said \in Seq(Seq(Decisions)),
         NEW offer \in Seq(Nat), NEW pick \in Nat
  PROVE  /\ Result(status, source, said, offer, pick) \in ResultRecords
         /\ Result(status, source, said, offer, pick).source = source
BY DEF Result, ResultRecords

\* A tool that ends leaves no request and no winner behind.
LEMMA FinishKeeps ==
  ASSUME ToolInv, NEW w \in ResultRecords, Finish(w), ResultSaid'
  PROVE  ToolInv' /\ step' = "idle"
<1>1. ToolTyped'
  <2>1. <<>> \in Seq(RequestRecords) /\ <<>> \in Seq(Nat)
    OBVIOUS
  <2> QED  BY <2>1 DEF ToolInv, ToolTyped, Finish
<1>2. RequestsDecided' /\ OwnQuestions' /\ OwnCandidates' /\ NothingPicked' /\ WinnersOfChunks'
  BY DEF Finish, RequestsDecided, OwnQuestions, OwnCandidates, NothingPicked, WinnersOfChunks
<1> QED  BY <1>1, <1>2 DEF ToolInv, Finish

\* So does one that ends without the service.
LEMMA FinishUnsaid ==
  ASSUME ToolInv,
         NEW status \in {"none", "answered", "fallback", "success", "failure", "uncertain", "panicked"},
         NEW source \in {"none", "page"}, NEW pick \in Nat,
         Finish(Result(status, source, <<>>, <<>>, pick))
  PROVE  ToolInv' /\ step' = "idle"
<1> DEFINE w == Result(status, source, <<>>, <<>>, pick)
<1>1. <<>> \in Seq(Seq(Decisions)) /\ <<>> \in Seq(Nat)
  OBVIOUS
<1>2. w \in ResultRecords /\ w.source # "service"
  <2>1. source \in {"none", "page", "service"} /\ source # "service"
    OBVIOUS
  <2>2. w \in ResultRecords /\ w.source = source
    BY <1>1, <2>1 DEF Result, ResultRecords
  <2> QED  BY <2>1, <2>2
<1>3. Finish(w)
  OBVIOUS
<1> HIDE DEF w
<1>4. ResultSaid'
  BY <1>2, <1>3 DEF Finish, ResultSaid
<1> QED  BY <1>2, <1>3, <1>4, FinishKeeps

\* A tool that turns to the page or to the routing has no request under way
\* yet, or no longer.
LEMMA TurnKeeps ==
  ASSUME ToolInv, NEW place \in {"page", "routing"},
         NEW reason \in {"gate", "route", "explain", "ground"}, Turn(place, reason)
  PROVE  ToolInv' /\ step' = place
<1>1. ToolTyped'
  <2>1. <<>> \in Seq(RequestRecords) /\ <<>> \in Seq(Nat)
    OBVIOUS
  <2> QED  BY <2>1 DEF ToolInv, ToolTyped, Turn
<1>2. RequestsDecided' /\ OwnQuestions' /\ OwnCandidates' /\ NothingPicked' /\ WinnersOfChunks'
  BY DEF Turn, RequestsDecided, OwnQuestions, OwnCandidates, NothingPicked, WinnersOfChunks
<1>3. ResultSaid'
  BY DEF ToolInv, Turn, ResultSaid, AskedIn
<1> QED  BY <1>1, <1>2, <1>3 DEF ToolInv, Turn

\* So has one that is routed.
LEMMA ResolveKeeps ==
  ASSUME ToolInv, NEW reason \in {"gate", "route", "explain", "ground"}, Resolve(reason)
  PROVE  ToolInv' /\ step' = "routing"
BY TurnKeeps DEF Resolve

\* What a tool does without the service.
LEMMA FallbackKeeps ==
  ASSUME ToolInv, Fallback
  PROVE  ToolInv' /\ step' \in {"idle", "routing"}
<1>1. CASE Finish(Result("fallback", "none", <<>>, <<>>, 0))
  BY <1>1, FinishUnsaid
<1>2. CASE Finish(Result("uncertain", "none", <<>>, <<>>, 0))
  BY <1>2, FinishUnsaid
<1>3. CASE Finish(Result("failure", "none", <<>>, <<>>, 0))
  BY <1>3, FinishUnsaid
<1>4. CASE Resolve("ground")
  BY <1>4, ResolveKeeps
<1> QED  BY <1>1, <1>2, <1>3, <1>4 DEF Fallback

\* A request that is made has no decisions and no endpoint yet.
LEMMA EmptyRequest == <<>> \in Seq(Decisions) /\ 0 \in 0 .. Endpoints
BY DEF Endpoints

\* The question about some candidates of a find.
LEMMA AskAboutKeeps ==
  ASSUME NEW ids \in Seq(Nat), query \in Queries, Range(ids) \subseteq Range(query.cands),
         AskAbout(ids)
  PROVE  /\ reqs' \in Seq(RequestRecords) /\ RequestsDecided'
         /\ Len(reqs') = 1 /\ reqs'[1].offer = ids /\ reqs'[1].asked = <<Texts(ids)>>
<1>1. Texts(ids) \in Seq(STRING)
  <2>1. \A j \in DOMAIN ids : TextOf[ids[j]] \in STRING
    <3> TAKE j \in DOMAIN ids
    <3>1. PICK i \in DOMAIN query.cands : ids[j] = query.cands[i]
      BY DEF Range
    <3> QED  BY <3>1, QueryFields
  <2>2. DOMAIN ids = 1 .. Len(ids) /\ Len(ids) \in Nat
    OBVIOUS
  <2> QED  BY <2>1, <2>2 DEF Texts
<1>0. PICK at \in {"picture", "queued"} : reqs' = <<Request(<<Texts(ids)>>, ids, at)>>
  BY DEF AskAbout
<1> DEFINE w == Request(<<Texts(ids)>>, ids, at)
<1>2. <<Texts(ids)>> \in Seq(Seq(STRING))
  BY <1>1
<1>3. /\ w \in RequestRecords /\ w.asked = <<Texts(ids)>> /\ w.offer = ids
      /\ w.at \in {"picture", "queued"} /\ w.said = <<>>
  <2>1. at \in {"picture", "queued"}
    BY <1>0
  <2>2. /\ w \in RequestRecords /\ w.asked = <<Texts(ids)>> /\ w.offer = ids
        /\ w.at = at /\ w.said = <<>>
    BY <1>2, <2>1, EmptyRequest DEF Request, RequestRecords
  <2> HIDE DEF w
  <2> QED  BY <2>1, <2>2
<1>4. reqs' = <<w>>
  BY <1>0
<1> HIDE DEF w
<1>5. reqs' \in Seq(RequestRecords) /\ Len(reqs') = 1 /\ reqs'[1] = w /\ DOMAIN reqs' = {1}
  BY <1>3, <1>4
<1>6. RequestsDecided'
  BY <1>3, <1>5 DEF RequestsDecided
<1> QED  BY <1>3, <1>5, <1>6

\* A tool asks its own questions, or about its first chunk.
LEMMA AskKeeps ==
  ASSUME ToolInv, step # "asking", Ask
  PROVE  ToolInv'
<1>0. query \in Queries /\ picked = <<>>
  BY DEF ToolInv, ToolTyped, NothingPicked
<1>2. CASE step' = "asking" /\ UNCHANGED <<why, query, late, picked, out>> /\ query.kind = "find"
           /\ round' = 1 /\ AskAbout(Chunk(query.cands, 1))
  <2>1. /\ query.cands \in Seq(Nat) /\ Chunk(query.cands, 1) \in Seq(Nat)
        /\ Range(Chunk(query.cands, 1)) \subseteq Range(query.cands)
    <3>1. query.cands \in Seq(Nat)
      BY <1>0, QueryFields
    <3>2. /\ Chunk(query.cands, 1) \in Seq(Nat)
          /\ \A i \in DOMAIN Chunk(query.cands, 1) :
               /\ (1 - 1) * Budget + i \in DOMAIN query.cands
               /\ Chunk(query.cands, 1)[i] = MapChoiceToGlobalId(query.cands, 1, i)
      BY <3>1, ChunkOf
    <3> QED  BY <3>1, <3>2 DEF Range, MapChoiceToGlobalId
  <2>2. /\ reqs' \in Seq(RequestRecords) /\ RequestsDecided'
        /\ Len(reqs') = 1 /\ reqs'[1].offer = Chunk(query.cands, 1)
        /\ reqs'[1].asked = <<Texts(Chunk(query.cands, 1))>>
    BY <1>0, <1>2, <2>1, AskAboutKeeps
  <2>3. ToolTyped'
    BY <1>2, <2>2 DEF ToolInv, ToolTyped
  <2>4. OwnCandidates'
    BY <1>0, <1>2, <2>1, <2>2 DEF OwnCandidates
  <2>5. OwnQuestions' /\ NothingPicked' /\ WinnersOfChunks' /\ ResultSaid'
    BY <1>0, <1>2 DEF ToolInv, OwnQuestions, NothingPicked, WinnersOfChunks, ResultSaid, AskedIn
  <2> QED  BY <2>2, <2>3, <2>4, <2>5 DEF ToolInv
<1>3. ASSUME NEW at \in {"picture", "queued"},
             step' = "asking", UNCHANGED <<why, query, late, picked, out, round>>,
             query.kind # "find",
             reqs' = [i \in DOMAIN query.asks |-> Request(query.asks[i], <<>>, at)]
      PROVE  ToolInv'
  <2>1. /\ DOMAIN query.asks = 1 .. Len(query.asks) /\ Len(query.asks) \in Nat
        /\ \A i \in DOMAIN query.asks : query.asks[i] \in Seq(Seq(STRING))
    <3>1. query.asks \in Seq(Seq(Seq(STRING)))
      BY <1>0, QueryFields
    <3> QED  BY <3>1
  <2>2. \A i \in DOMAIN query.asks :
          /\ Request(query.asks[i], <<>>, at) \in RequestRecords
          /\ Request(query.asks[i], <<>>, at).asked = query.asks[i]
          /\ Request(query.asks[i], <<>>, at).at = at
          /\ Request(query.asks[i], <<>>, at).said = <<>>
    <3>1. <<>> \in Seq(Nat)
      OBVIOUS
    <3>2. at \in {"picture", "queued"}
      BY <1>3
    <3> TAKE i \in DOMAIN query.asks
    <3>3. query.asks[i] \in Seq(Seq(STRING))
      BY <2>1
    <3> QED  BY <3>1, <3>2, <3>3, EmptyRequest DEF Request, RequestRecords
  <2>3. reqs' \in [1 .. Len(query.asks) -> RequestRecords] /\ Len(reqs') = Len(query.asks)
    BY <1>3, <2>1, <2>2
  <2>4. reqs' \in Seq(RequestRecords)
    BY <2>1, <2>3
  <2>5. ToolTyped'
    BY <1>3, <2>4 DEF ToolInv, ToolTyped
  <2>6. RequestsDecided'
    BY <1>3, <2>2 DEF RequestsDecided
  <2>7. OwnQuestions'
    BY <1>3, <2>2, <2>3 DEF OwnQuestions
  <2>8. OwnCandidates' /\ NothingPicked' /\ WinnersOfChunks' /\ ResultSaid'
    BY <1>0, <1>3 DEF ToolInv, OwnCandidates, NothingPicked, WinnersOfChunks, ResultSaid, AskedIn
  <2> QED  BY <2>5, <2>6, <2>7, <2>8 DEF ToolInv
<1>4. Beginnings(query.kind) \subseteq {"picture", "queued"}
  BY DEF Beginnings
<1>5. CASE query.kind = "find"
  BY <1>2, <1>5 DEF Ask
<1>6. CASE query.kind # "find"
  <2>1. PICK at \in Beginnings(query.kind) :
          reqs' = [i \in DOMAIN query.asks |-> Request(query.asks[i], <<>>, at)]
    BY <1>6 DEF Ask
  <2> QED  BY <1>3, <1>4, <1>6, <2>1 DEF Ask
<1> QED  BY <1>5, <1>6

\* Wherever the routing leads, the tool goes on as it should, and it is not
\* the routing again that has to wait for a probe.
LEMMA RoutedKeeps ==
  ASSUME ToolInv, step # "asking",
         \/ Resolve("route") \/ Resolve("explain") \/ Turn("page", "explain") \/ Fallback \/ Ask
         \/ step' = "ground" /\ UNCHANGED <<why, query, late, round, picked, reqs, out>>
  PROVE  ToolInv' /\ step' \in {"idle", "page", "routing", "asking", "ground"}
<1>1. CASE Resolve("route")
  BY <1>1, ResolveKeeps
<1>2. CASE Resolve("explain")
  BY <1>2, ResolveKeeps
<1>3. CASE Fallback
  BY <1>3, FallbackKeeps
<1>4. CASE Ask
  <2>1. ToolInv'
    BY <1>4, AskKeeps
  <2>2. step' = "asking"
    BY <1>4 DEF Ask
  <2> QED  BY <2>1, <2>2
<1>5. CASE step' = "ground" /\ UNCHANGED <<why, query, late, round, picked, reqs, out>>
  <2>1. ToolTyped'
    BY <1>5 DEF ToolInv, ToolTyped
  <2>2. RequestsDecided' /\ OwnQuestions' /\ OwnCandidates' /\ NothingPicked'
    BY <1>5 DEF ToolInv, RequestsDecided, OwnQuestions, OwnCandidates, NothingPicked
  <2>3. WinnersOfChunks' /\ ResultSaid'
    BY <1>5 DEF ToolInv, WinnersOfChunks, ResultSaid, AskedIn
  <2> QED  BY <1>5, <2>1, <2>2, <2>3 DEF ToolInv
<1>6. CASE Turn("page", "explain")
  BY <1>6, TurnKeeps
<1> QED  BY <1>1, <1>2, <1>3, <1>4, <1>5, <1>6

-----------------------------------------------------------------------------
(* The steps of a tool until it asks *)

\* The verdict and the service stay as they are, and no probe starts.
LEMMA SameWorld ==
  ASSUME WorldInv, UNCHANGED <<mode, world, slot, probe>>, step' \notin {"probing", "probed"}
  PROVE  WorldInv'
BY DEF WorldInv, WorldTyped, VerdictAge, world

\* A step of the tool that keeps its call, its requests and its result.
LEMMA SameTool ==
  ASSUME ToolInv, UNCHANGED <<query, round, picked, reqs, out>>,
         step # "asking" /\ step' # "asking",
         step' \in {"idle", "page", "routing", "probing", "probed", "ground"},
         why' \in {"gate", "route", "explain", "ground"}, late' \in BOOLEAN
  PROVE  ToolInv'
<1>1. ToolTyped'
  BY DEF ToolInv, ToolTyped
<1>2. RequestsDecided' /\ OwnQuestions' /\ OwnCandidates' /\ NothingPicked'
  BY DEF ToolInv, RequestsDecided, OwnQuestions, OwnCandidates, NothingPicked
<1>3. WinnersOfChunks' /\ ResultSaid'
  BY DEF ToolInv, WinnersOfChunks, ResultSaid, AskedIn
<1> QED  BY <1>1, <1>2, <1>3 DEF ToolInv

\* A tool starts with no result.
LEMMA StartKeeps ==
  ASSUME DeciderIInv, NEW t \in Queries, Start(t)
  PROVE  DeciderIInv'
<1>0. WorldInv /\ ToolInv /\ picked = <<>>
  BY InvParts DEF Start, ToolInv, NothingPicked
<1>1. WorldInv'
  BY <1>0, SameWorld DEF Start, routing
<1>2. NoResult \in ResultRecords /\ NoResult.source = "none"
  <2>1. <<>> \in Seq(Seq(Decisions)) /\ <<>> \in Seq(Nat)
    OBVIOUS
  <2> QED  BY <2>1 DEF NoResult, Result, ResultRecords
<1>3. ToolTyped'
  BY <1>0, <1>2 DEF Start, routing, ToolInv, ToolTyped
<1>4. RequestsDecided' /\ OwnQuestions' /\ OwnCandidates' /\ NothingPicked' /\ WinnersOfChunks'
  BY <1>0 DEF Start, ToolInv, RequestsDecided, OwnQuestions, OwnCandidates, NothingPicked,
     WinnersOfChunks
<1>5. ResultSaid'
  BY <1>2 DEF Start, ResultSaid
<1> QED  BY <1>1, <1>3, <1>4, <1>5, InvParts DEF ToolInv

\* The page has what is looked for.
LEMMA PageHitKeeps ==
  ASSUME DeciderIInv, PageHit \/ TierHit
  PROVE  DeciderIInv'
<1>0. WorldInv /\ ToolInv
  BY InvParts
<1>1. ToolInv' /\ step' = "idle" /\ UNCHANGED <<mode, world, slot, probe>>
  <2>1. CASE PageHit
    BY <1>0, <2>1, FinishUnsaid DEF PageHit
  <2>2. CASE TierHit
    <3>1. PICK pick \in Range(query.cands) : Finish(Result("success", "page", <<>>, <<>>, pick))
      BY <2>2 DEF TierHit
    <3>2. query.cands \in Seq(Nat)
      BY <1>0, QueryFields DEF ToolInv, ToolTyped
    <3>3. pick \in Nat
      BY <3>2 DEF Range
    <3> QED  BY <1>0, <2>2, <3>1, <3>3, FinishUnsaid DEF TierHit
  <2> QED  BY <2>1, <2>2
<1> QED  BY <1>0, <1>1, SameWorld, InvParts

\* It has not.
LEMMA PageMissKeeps ==
  ASSUME DeciderIInv, PageMiss
  PROVE  DeciderIInv'
<1>0. WorldInv /\ ToolInv
  BY InvParts
<1>1. ToolInv' /\ step' \in {"idle", "routing"}
  <2>1. CASE Finish(Result("failure", "page", <<>>, <<>>, 0))
    BY <1>0, <2>1, FinishUnsaid
  <2>2. CASE Resolve("gate")
    BY <1>0, <2>2, ResolveKeeps
  <2>3. CASE Resolve("route")
    BY <1>0, <2>3, ResolveKeeps
  <2>4. CASE Fallback
    BY <1>0, <2>4, FallbackKeeps
  <2>5. CASE Resolve(why)
    <3>1. why \in {"gate", "route", "explain", "ground"}
      BY <1>0 DEF ToolInv, ToolTyped
    <3> QED  BY <1>0, <2>5, <3>1, ResolveKeeps
  <2> QED  BY <2>1, <2>2, <2>3, <2>4, <2>5 DEF PageMiss
<1>2. UNCHANGED <<mode, world, slot, probe>>
  BY DEF PageMiss
<1> QED  BY <1>0, <1>1, <1>2, SameWorld, InvParts

\* The timeout of wait_until passes.
LEMMA DeadlineKeeps ==
  ASSUME DeciderIInv, Deadline
  PROVE  DeciderIInv'
<1>0. WorldInv /\ ToolInv
  BY InvParts
<1>1. ToolInv'
  <2>1. step = "page" /\ late' = TRUE /\ UNCHANGED <<why, step, query, round, picked, reqs, out>>
    BY DEF Deadline, routing
  <2>2. why \in {"gate", "route", "explain", "ground"}
    BY <1>0 DEF ToolInv, ToolTyped
  <2> QED  BY <1>0, <2>1, <2>2, SameTool
<1>2. WorldInv'
  BY <1>0, SameWorld DEF Deadline, routing
<1> QED  BY <1>1, <1>2, InvParts

\* DECIDER_ENABLED or a verdict that still holds decides.
LEMMA RoutesKeep ==
  ASSUME DeciderIInv, Explicit \/ Cached
  PROVE  DeciderIInv'
<1>0. WorldInv /\ ToolInv
  BY InvParts
<1>1. /\ step = "routing" /\ UNCHANGED <<mode, world, slot, probe>>
      /\ \/ Resolve("route") \/ Resolve("explain") \/ Turn("page", "explain") \/ Fallback \/ Ask
         \/ step' = "ground" /\ UNCHANGED <<why, query, late, round, picked, reqs, out>>
  BY DEF Explicit, Cached, Routed
<1>2. ToolInv' /\ step' \in {"idle", "page", "routing", "asking", "ground"}
  BY <1>0, <1>1, RoutedKeeps
<1> QED  BY <1>0, <1>1, <1>2, SameWorld, InvParts

\* A probe starts with no verdict.
LEMMA StartProbeKeeps ==
  ASSUME DeciderIInv, StartProbe
  PROVE  DeciderIInv'
<1>0. WorldInv /\ ToolInv
  BY InvParts
<1>1. ToolInv'
  <2>1. /\ step = "routing" /\ step' = "probing"
        /\ UNCHANGED <<why, query, late, round, picked, reqs, out>>
    BY DEF StartProbe
  <2>2. why \in {"gate", "route", "explain", "ground"} /\ late \in BOOLEAN
    BY <1>0 DEF ToolInv, ToolTyped
  <2> QED  BY <1>0, <2>1, <2>2, SameTool
<1>2. probe' = [path |-> 1, age |-> 0, ok |-> FALSE]
  BY DEF StartProbe, NoProbe
<1>3. WorldTyped'
  <2>1. probe' \in [path: 0..Paths, age: 0..ProbeTime, ok: BOOLEAN]
    BY <1>2, BoundsAssumption DEF Paths
  <2> QED  BY <1>0, <2>1 DEF StartProbe, WorldInv, WorldTyped, world
<1>4. VerdictAge'
  BY <1>0, <1>2 DEF StartProbe, WorldInv, VerdictAge, world
<1> QED  BY <1>1, <1>3, <1>4, InvParts DEF WorldInv

\* A good verdict means that the service is up.
LEMMA ProbePathKeeps ==
  ASSUME DeciderIInv, ProbePath
  PROVE  DeciderIInv'
<1>0. WorldInv /\ ToolInv
  BY InvParts
<1>1. ToolInv'
  <2>1. /\ step = "probing" /\ step' \in {"probing", "probed"}
        /\ UNCHANGED <<why, query, late, round, picked, reqs, out>>
    BY DEF ProbePath
  <2>2. why \in {"gate", "route", "explain", "ground"} /\ late \in BOOLEAN
    BY <1>0 DEF ToolInv, ToolTyped
  <2> QED  BY <1>0, <2>1, <2>2, SameTool
<1>2. probe \in [path: 0..Paths, age: 0..ProbeTime, ok: BOOLEAN]
  BY <1>0 DEF WorldInv, WorldTyped
<1>3. /\ probe' \in [path: 0..Paths, age: 0..ProbeTime, ok: BOOLEAN]
      /\ probe'.age = probe.age
      /\ (probe'.ok = probe.ok) \/ service = "up"
  <2>1. CASE service = "up" /\ probe' = [probe EXCEPT !.ok = TRUE]
    BY <1>2, <2>1
  <2>2. CASE probe.path < Paths /\ probe' = [probe EXCEPT !.path = @ + 1]
    <3>1. probe.path + 1 \in 0..Paths
      BY <1>2, <2>2 DEF Paths
    <3> QED  BY <1>2, <2>2, <3>1
  <2>3. CASE probe' = probe
    BY <1>2, <2>3
  <2> QED  BY <2>1, <2>2, <2>3 DEF ProbePath
<1>4. WorldTyped'
  BY <1>0, <1>3 DEF ProbePath, WorldInv, WorldTyped, world
<1>5. VerdictAge'
  <2>1. service = "up" => downFor <= probe.age
    BY <1>0, <1>2, BoundsAssumption DEF WorldInv, VerdictAge
  <2>2. probe.ok => downFor <= probe.age
    BY <1>0 DEF ProbePath, WorldInv, VerdictAge
  <2> QED  BY <1>0, <1>3, <2>1, <2>2 DEF ProbePath, WorldInv, VerdictAge, world
<1> QED  BY <1>1, <1>4, <1>5, InvParts DEF WorldInv

\* The verdict is stored with the age of the probe still to be counted.
LEMMA StoreProbeKeeps ==
  ASSUME DeciderIInv, StoreProbe
  PROVE  DeciderIInv'
<1>0. WorldInv /\ ToolInv
  BY InvParts
<1>1. /\ step = "probed" /\ UNCHANGED <<mode, service, downFor>>
      /\ \/ Resolve("route") \/ Resolve("explain") \/ Turn("page", "explain") \/ Fallback \/ Ask
         \/ step' = "ground" /\ UNCHANGED <<why, query, late, round, picked, reqs, out>>
  BY DEF StoreProbe, Routed, world
<1>2. ToolInv' /\ step' \in {"idle", "page", "routing", "asking", "ground"}
  BY <1>0, <1>1, RoutedKeeps
<1>3. probe \in [path: 0..Paths, age: 0..ProbeTime, ok: BOOLEAN]
  BY <1>0 DEF WorldInv, WorldTyped
<1>4. slot' = [up |-> probe.ok, age |-> 0] /\ probe' = [path |-> 0, age |-> 0, ok |-> FALSE]
  BY DEF StoreProbe, NoProbe
<1>5. WorldTyped'
  <2>1. slot' \in [up: BOOLEAN, age: 0..TtlUp]
    BY <1>3, <1>4, BoundsAssumption
  <2>2. probe' \in [path: 0..Paths, age: 0..ProbeTime, ok: BOOLEAN]
    BY <1>4, BoundsAssumption DEF Paths
  <2> QED  BY <1>0, <1>1, <2>1, <2>2 DEF WorldInv, WorldTyped
<1>6. VerdictAge'
  <2>1. probe.ok => downFor <= probe.age
    BY <1>0, <1>1 DEF WorldInv, VerdictAge
  <2>2. slot'.up = probe.ok /\ slot'.age = 0
    BY <1>4
  <2>3. probe.ok => downFor <= 0 + ProbeTime
    BY <1>0, <1>3, <2>1, BoundsAssumption DEF WorldInv, WorldTyped
  <2>4. service = "up" => downFor = 0
    BY <1>0 DEF WorldInv, VerdictAge
  <2> QED  BY <1>1, <1>2, <2>2, <2>3, <2>4 DEF VerdictAge
<1> QED  BY <1>2, <1>5, <1>6, InvParts DEF WorldInv

-----------------------------------------------------------------------------
(* The requests *)

\* A request may change its state, but not its questions.
LEMMA SetRequestKeeps ==
  ASSUME DeciderIInv, step = "asking", NEW i \in DOMAIN reqs, NEW w \in RequestRecords,
         SetRequest(i, w), w.asked = reqs[i].asked, w.offer = reqs[i].offer,
         w.at \in {"sent", "answered"} => Valid(w.asked),
         w.at = "answered" => Decided(w.asked, w.said),
         w.at # "answered" => w.said = <<>>
  PROVE  DeciderIInv'
<1>0. WorldInv /\ ToolInv
  BY InvParts
<1>1. UNCHANGED <<mode, world, routing, step, query, late, round, picked, out>>
  BY DEF SetRequest
<1>2. WorldInv'
  BY <1>0, <1>1, SameWorld DEF routing
<1>3. reqs \in Seq(RequestRecords)
  BY <1>0 DEF ToolInv, ToolTyped
<1>4. reqs' = [reqs EXCEPT ![i] = w]
  BY DEF SetRequest
<1>5. /\ reqs' \in Seq(RequestRecords) /\ Len(reqs') = Len(reqs) /\ DOMAIN reqs' = DOMAIN reqs
      /\ \A j \in DOMAIN reqs : reqs'[j] = IF j = i THEN w ELSE reqs[j]
  BY <1>3, <1>4
<1>6. ToolTyped'
  BY <1>0, <1>1, <1>5 DEF ToolInv, ToolTyped, routing
<1>7. RequestsDecided'
  BY <1>0, <1>5 DEF ToolInv, RequestsDecided
<1>8. OwnQuestions'
  BY <1>0, <1>1, <1>5 DEF ToolInv, OwnQuestions
<1>9. OwnCandidates'
  <2> SUFFICES ASSUME query.kind = "find" PROVE OwnCandidates'
    BY <1>1 DEF OwnCandidates
  <2>1. /\ Len(reqs) = 1 /\ reqs[1].asked = <<Texts(reqs[1].offer)>>
        /\ Range(reqs[1].offer) \subseteq Range(query.cands)
        /\ round \in Nat \ {0} /\ Len(picked) = round - 1
        /\ round <= ChunkCount(query.cands) => reqs[1].offer = Chunk(query.cands, round)
    BY <1>0 DEF ToolInv, OwnCandidates
  <2>2. 1 \in DOMAIN reqs
    BY <1>3, <2>1
  <2>3. reqs'[1].asked = reqs[1].asked /\ reqs'[1].offer = reqs[1].offer
    BY <1>5, <2>2
  <2> QED  BY <1>1, <1>5, <2>1, <2>3 DEF OwnCandidates
<1>10. NothingPicked' /\ WinnersOfChunks' /\ ResultSaid'
  BY <1>0, <1>1 DEF ToolInv, NothingPicked, WinnersOfChunks, ResultSaid, AskedIn
<1> QED  BY <1>2, <1>6, <1>7, <1>8, <1>9, <1>10, InvParts DEF ToolInv

\* What a request is known to be before it changes.
LEMMA RequestNow ==
  ASSUME DeciderIInv, NEW i \in DOMAIN reqs
  PROVE  /\ reqs[i] \in RequestRecords
         /\ reqs[i].at \in {"sent", "answered"} => Valid(reqs[i].asked)
         /\ reqs[i].at # "answered" => reqs[i].said = <<>>
BY DEF DeciderIInv, DeciderTypeOK, RequestsDecided

\* The screenshot of a request is there, or can do without, or cannot.
LEMMA TakePictureKeeps ==
  ASSUME DeciderIInv, NEW i \in DOMAIN reqs, TakePicture(i)
  PROVE  DeciderIInv'
<1>1. reqs[i] \in RequestRecords /\ reqs[i].said = <<>> /\ step = "asking" /\ reqs[i].at = "picture"
  BY RequestNow DEF TakePicture
<1>2. ASSUME NEW at \in {"queued", "failed"}, SetRequest(i, [reqs[i] EXCEPT !.at = at])
      PROVE  DeciderIInv'
  <2> DEFINE w == [reqs[i] EXCEPT !.at = at]
  <2>1. /\ w \in RequestRecords /\ w.asked = reqs[i].asked /\ w.offer = reqs[i].offer
        /\ w.at \in {"queued", "failed"} /\ w.said = <<>>
    BY <1>1 DEF RequestRecords
  <2>2. SetRequest(i, w)
    BY <1>2
  <2> HIDE DEF w
  <2> QED  BY <1>1, <2>1, <2>2, SetRequestKeeps
<1> QED  BY <1>2 DEF TakePicture

\* A request is refused or sent.
LEMMA AcquireKeeps ==
  ASSUME DeciderIInv, NEW i \in DOMAIN reqs, Acquire(i)
  PROVE  DeciderIInv'
<1>1. reqs[i] \in RequestRecords /\ reqs[i].said = <<>> /\ step = "asking" /\ reqs[i].at = "queued"
  BY RequestNow DEF Acquire
<1>2. CASE SetRequest(i, [reqs[i] EXCEPT !.at = "failed"])
  <2> DEFINE w == [reqs[i] EXCEPT !.at = "failed"]
  <2>1. /\ w \in RequestRecords /\ w.asked = reqs[i].asked /\ w.offer = reqs[i].offer
        /\ w.at = "failed" /\ w.said = <<>>
    BY <1>1 DEF RequestRecords
  <2>2. SetRequest(i, w)
    BY <1>2
  <2> HIDE DEF w
  <2> QED  BY <1>1, <2>1, <2>2, SetRequestKeeps
<1>3. CASE Valid(reqs[i].asked) /\ SetRequest(i, [reqs[i] EXCEPT !.at = "sent", !.url = 1])
  <2> DEFINE w == [reqs[i] EXCEPT !.at = "sent", !.url = 1]
  <2>1. /\ w \in RequestRecords /\ w.asked = reqs[i].asked /\ w.offer = reqs[i].offer
        /\ w.at = "sent" /\ w.said = <<>>
    <3>1. 1 \in 0 .. Endpoints
      BY DEF Endpoints
    <3> QED  BY <1>1, <3>1 DEF RequestRecords
  <2>2. SetRequest(i, w) /\ Valid(w.asked)
    BY <1>3, <2>1
  <2> HIDE DEF w
  <2> QED  BY <1>1, <2>1, <2>2, SetRequestKeeps
<1> QED  BY <1>2, <1>3 DEF Acquire

\* It fails.
LEMMA CallFailsKeeps ==
  ASSUME DeciderIInv, NEW i \in DOMAIN reqs, CallFails(i)
  PROVE  DeciderIInv'
<1>1. reqs[i] \in RequestRecords /\ reqs[i].said = <<>> /\ step = "asking" /\ reqs[i].at = "sent"
  BY RequestNow DEF CallFails
<1> DEFINE w == [reqs[i] EXCEPT !.at = "failed"]
<1>2. /\ w \in RequestRecords /\ w.asked = reqs[i].asked /\ w.offer = reqs[i].offer
      /\ w.at = "failed" /\ w.said = <<>>
  BY <1>1 DEF RequestRecords
<1>3. SetRequest(i, w)
  BY DEF CallFails
<1> HIDE DEF w
<1> QED  BY <1>1, <1>2, <1>3, SetRequestKeeps

\* It is tried at the next endpoint.
LEMMA TryNextEndpointKeeps ==
  ASSUME DeciderIInv, NEW i \in DOMAIN reqs, TryNextEndpoint(i)
  PROVE  DeciderIInv'
<1>1. /\ reqs[i] \in RequestRecords /\ reqs[i].said = <<>> /\ step = "asking"
      /\ reqs[i].at = "sent" /\ Valid(reqs[i].asked) /\ reqs[i].url < Endpoints
  BY RequestNow DEF TryNextEndpoint
<1> DEFINE w == [reqs[i] EXCEPT !.url = @ + 1]
<1>2. /\ w \in RequestRecords /\ w.asked = reqs[i].asked /\ w.offer = reqs[i].offer
      /\ w.at = "sent" /\ w.said = <<>>
  <2>1. reqs[i].url + 1 \in 0 .. Endpoints
    BY <1>1 DEF RequestRecords, Endpoints
  <2> QED  BY <1>1, <2>1 DEF RequestRecords
<1>3. SetRequest(i, w) /\ Valid(w.asked)
  BY <1>1, <1>2 DEF TryNextEndpoint
<1> HIDE DEF w
<1> QED  BY <1>1, <1>2, <1>3, SetRequestKeeps

\* It is answered, and the answer is accepted only if it decides every question.
LEMMA ReplyKeeps ==
  ASSUME DeciderIInv, NEW i \in DOMAIN reqs, Reply(i)
  PROVE  DeciderIInv'
<1>1. /\ reqs[i] \in RequestRecords /\ reqs[i].said = <<>> /\ step = "asking"
      /\ reqs[i].at = "sent" /\ Valid(reqs[i].asked)
  BY RequestNow DEF Reply
<1> DEFINE asked == reqs[i].asked
<1>2. PICK r \in Replies(asked) :
        SetRequest(i, IF ValidResponse(asked, Normalize(asked, Decode(asked, r)))
                      THEN [reqs[i] EXCEPT !.at = "answered", !.said = Normalize(asked, Decode(asked, r))]
                      ELSE [reqs[i] EXCEPT !.at = "failed"])
  BY DEF Reply
<1> DEFINE said == Normalize(asked, Decode(asked, r))
<1>3. asked \in Seq(Seq(STRING))
  BY <1>1 DEF RequestRecords
<1>4. CASE ValidResponse(asked, said)
  <2>1. said \in Seq(Decisions) /\ Decided(asked, said)
    BY <1>1, <1>3, <1>4, ValidIsDecided
  <2> DEFINE w == [reqs[i] EXCEPT !.at = "answered", !.said = said]
  <2>2. SetRequest(i, w)
    BY <1>2, <1>4
  <2> HIDE DEF said
  <2>3. /\ w \in RequestRecords /\ w.asked = reqs[i].asked /\ w.offer = reqs[i].offer
        /\ w.at = "answered" /\ w.said = said
    BY <1>1, <2>1 DEF RequestRecords
  <2> HIDE DEF w
  <2>4. Valid(w.asked) /\ Decided(w.asked, w.said)
    BY <1>1, <2>1, <2>3
  <2> QED  BY <1>1, <2>2, <2>3, <2>4, SetRequestKeeps
<1>5. CASE ~ValidResponse(asked, said)
  <2> DEFINE w == [reqs[i] EXCEPT !.at = "failed"]
  <2>1. /\ w \in RequestRecords /\ w.asked = reqs[i].asked /\ w.offer = reqs[i].offer
        /\ w.at = "failed" /\ w.said = <<>>
    BY <1>1 DEF RequestRecords
  <2>2. SetRequest(i, w)
    BY <1>2, <1>5
  <2> HIDE DEF w
  <2> QED  BY <1>1, <2>1, <2>2, SetRequestKeeps
<1> QED  BY <1>4, <1>5

-----------------------------------------------------------------------------
(* What the tools make of the answers *)

\* An answered request has a first decision, for an option of its first question.
LEMMA FirstDecided ==
  ASSUME ToolInv, 1 \in DOMAIN reqs, reqs[1].at = "answered"
  PROVE  /\ reqs[1].said \in Seq(Decisions) /\ 1 \in DOMAIN reqs[1].said /\ First \in Decisions
         /\ First.choice \in DOMAIN reqs[1].asked[1] /\ First.means \in DOMAIN reqs[1].asked[1]
         /\ TakenAsMeant(reqs[1].asked[1], First)
         /\ reqs[1].offer \in Seq(Nat) /\ Decided(reqs[1].asked, reqs[1].said)
<1>1. reqs[1] \in RequestRecords /\ Valid(reqs[1].asked) /\ Decided(reqs[1].asked, reqs[1].said)
  BY DEF ToolInv, ToolTyped, RequestsDecided
<1>2. /\ reqs[1].asked \in Seq(Seq(STRING)) /\ reqs[1].said \in Seq(Decisions)
      /\ reqs[1].offer \in Seq(Nat)
  BY <1>1 DEF RequestRecords
<1>3. 1 \in DOMAIN reqs[1].asked
  <2> DEFINE asked == reqs[1].asked
  <2>1. asked # <<>> /\ asked \in Seq(Seq(STRING))
    BY <1>1, <1>2 DEF Valid
  <2> HIDE DEF asked
  <2>2. 1 \in DOMAIN asked
    BY <2>1
  <2> QED  BY <2>2 DEF asked
<1>4. 1 \in DOMAIN reqs[1].said
  BY <1>1, <1>3 DEF Decided
<1>5. First \in Decisions
  BY <1>2, <1>4 DEF First
<1> QED  BY <1>1, <1>2, <1>3, <1>4, <1>5 DEF Decided, First

\* The request of a tool that has one.
LEMMA OnlyRequest ==
  ASSUME ToolInv, step = "asking", query.kind \notin {"decide", "batch"}
  PROVE  /\ 1 \in DOMAIN reqs /\ DOMAIN reqs = {1} /\ query.kind \in Kinds
         /\ query.kind # "find" => reqs[1].asked = query.asks[1]
         /\ query.kind \in {"detect", "verify", "wait"} => reqs[1].asked = <<Verdicts>>
         /\ query.kind = "find" => /\ reqs[1].asked = <<Texts(reqs[1].offer)>>
                                   /\ Range(reqs[1].offer) \subseteq Range(query.cands)
<1>1. query \in Queries /\ reqs \in Seq(RequestRecords)
  BY DEF ToolInv, ToolTyped
<1>2. /\ query.kind \in Kinds
      /\ query.kind = "choose" => Len(query.asks) = 1
      /\ query.kind \in {"detect", "verify", "wait"} => query.asks = <<<<Verdicts>>>>
  BY <1>1, QueryFields
<1>3. Len(reqs) = 1
  BY <1>2 DEF ToolInv, OwnQuestions, OwnCandidates, Kinds, Askers
<1>4. DOMAIN reqs = {1}
  BY <1>1, <1>3
<1>5. query.kind # "find" => reqs[1].asked = query.asks[1]
  BY <1>4 DEF ToolInv, OwnQuestions
<1>6. query.kind = "find" => /\ reqs[1].asked = <<Texts(reqs[1].offer)>>
                             /\ Range(reqs[1].offer) \subseteq Range(query.cands)
  BY DEF ToolInv, OwnCandidates
<1>7. query.kind \in {"detect", "verify", "wait"} => reqs[1].asked = <<Verdicts>>
  BY <1>2, <1>5
<1> QED  BY <1>2, <1>4, <1>5, <1>6, <1>7

\* A verdict is a yes only if a yes was meant: yes, no and uncertain are three
\* texts, and none reads as a number.
LEMMA YesIsMeant ==
  ASSUME NEW d, d.choice = 1, d.means \in DOMAIN Verdicts, TakenAsMeant(Verdicts, d)
  PROVE  d.means = 1
<1>1. DOMAIN Verdicts = {1, 2, 3} /\ Verdicts[1] = "yes" /\ Verdicts[2] = "no" /\ Verdicts[3] = "uncertain"
  BY DEF Verdicts
<1>2. "yes" \notin DOMAIN Numeral /\ "no" \notin DOMAIN Numeral /\ "uncertain" \notin DOMAIN Numeral
  BY IdsAssumption
<1>3. Verdicts[1] = Verdicts[d.means] \/ Verdicts[d.means] \in DOMAIN Numeral
  BY DEF TakenAsMeant
<1>4. CASE d.means = 2
  BY <1>1, <1>2, <1>3, <1>4
<1>5. CASE d.means = 3
  BY <1>1, <1>2, <1>3, <1>5
<1> QED  BY <1>1, <1>4, <1>5

\* A result that is attributed to the service.
LEMMA JudgeKeeps ==
  ASSUME ToolInv, step = "asking", query.kind \notin {"decide", "batch"}, reqs[1].at = "answered",
         NEW status \in {"answered", "success", "failure", "uncertain"}, NEW pick \in Nat,
         Finish(Result(status, "service", <<reqs[1].said>>, reqs[1].offer, pick)),
         query.kind \in {"choose", "detect"} => pick = First.choice,
         status = "success" => ~Low(First),
         status = "success" /\ query.kind # "find" => First.means = 1,
         status = "success" /\ query.kind = "find" =>
           pick = reqs[1].offer[First.choice] /\ pick \in Range(query.cands)
  PROVE  ToolInv' /\ step' = "idle"
<1> DEFINE w == Result(status, "service", <<reqs[1].said>>, reqs[1].offer, pick)
<1>1. 1 \in DOMAIN reqs
  BY OnlyRequest
<1>2. /\ reqs[1].said \in Seq(Decisions) /\ reqs[1].offer \in Seq(Nat)
      /\ Decided(reqs[1].asked, reqs[1].said)
  BY <1>1, FirstDecided
<1>3. <<reqs[1].said>> \in Seq(Seq(Decisions))
  BY <1>2
<1>4. /\ w \in ResultRecords /\ w.source = "service" /\ w.status = status /\ w.pick = pick
      /\ w.said = <<reqs[1].said>> /\ w.offer = reqs[1].offer
  BY <1>2, <1>3 DEF Result, ResultRecords
<1>5. Finish(w)
  OBVIOUS
<1> HIDE DEF w
<1>6. out' = w /\ query' = query
  BY <1>5 DEF Finish
<1>7. out'.said[1] = reqs[1].said /\ DOMAIN out'.said = {1} /\ out'.said[1][1] = First
  BY <1>4, <1>6 DEF First
<1>8. AskedIn(1)' = reqs[1].asked
  <2>1. query.kind = "find" => reqs[1].asked = <<Texts(reqs[1].offer)>>
    BY OnlyRequest
  <2>2. query.kind # "find" => reqs[1].asked = query.asks[1]
    BY OnlyRequest
  <2> QED  BY <1>4, <1>6, <2>1, <2>2 DEF AskedIn, Texts
<1>9. ResultSaid'
  <2>1. ASSUME NEW i \in DOMAIN out'.said, NEW q \in DOMAIN out'.said[i]
        PROVE  /\ out'.said[i][q].of = q
               /\ out'.said[i][q].choice \in DOMAIN (AskedIn(i)')[q]
               /\ TakenAsMeant((AskedIn(i)')[q], out'.said[i][q])
    <3>1. i = 1
      BY <1>7
    <3> QED  BY <1>2, <1>7, <1>8, <3>1 DEF Decided
  <2>2. status = "success" => First.conf # "low"
    BY DEF Low
  <2> QED  BY <1>4, <1>6, <1>7, <2>1, <2>2 DEF ResultSaid, TakenAsMeant
<1> QED  BY <1>4, <1>5, <1>9, FinishKeeps

\* decide and decider_batch hand on every decision of every request.
LEMMA CollectDecisionsKeeps ==
  ASSUME DeciderIInv, CollectDecisions
  PROVE  DeciderIInv'
<1>0. WorldInv /\ ToolInv /\ step = "asking" /\ query.kind \in {"decide", "batch"}
  BY InvParts DEF CollectDecisions, Answered
<1> DEFINE said == [i \in DOMAIN reqs |-> reqs[i].said]
           w == Result("answered", "service", said, <<>>, 0)
<1>1. reqs \in Seq(RequestRecords) /\ \A i \in DOMAIN reqs : reqs[i].said \in Seq(Decisions)
  <2>1. reqs \in Seq(RequestRecords)
    BY <1>0 DEF ToolInv, ToolTyped
  <2>2. \A i \in DOMAIN reqs : reqs[i] \in RequestRecords
    BY <2>1
  <2> QED  BY <2>1, <2>2 DEF RequestRecords
<1>2. said \in Seq(Seq(Decisions))
  <2>1. DOMAIN reqs = 1 .. Len(reqs) /\ Len(reqs) \in Nat
    BY <1>1
  <2>2. said \in [1 .. Len(reqs) -> Seq(Decisions)]
    BY <1>1, <2>1
  <2> HIDE DEF said
  <2> QED  BY <2>1, <2>2
<1>3. Finish(w)
  BY DEF CollectDecisions
<1>4. ASSUME NEW i \in DOMAIN reqs, NEW q \in DOMAIN reqs[i].said
      PROVE  /\ reqs[i].said[q].of = q
             /\ reqs[i].said[q].choice \in DOMAIN query.asks[i][q]
             /\ TakenAsMeant(query.asks[i][q], reqs[i].said[q])
  <2>1. reqs[i].asked = query.asks[i]
    BY <1>0 DEF ToolInv, OwnQuestions
  <2>2. reqs[i].at = "answered"
    <3>1. reqs[i].said # <<>>
      OBVIOUS
    <3> QED  BY <1>0, <3>1 DEF ToolInv, RequestsDecided
  <2>3. Decided(query.asks[i], reqs[i].said)
    BY <1>0, <2>1, <2>2 DEF ToolInv, RequestsDecided
  <2> QED  BY <2>3 DEF Decided
<1>5. /\ DOMAIN said = DOMAIN reqs
      /\ \A i \in DOMAIN reqs : said[i] = reqs[i].said
  OBVIOUS
<1> HIDE DEF said
<1>6. w \in ResultRecords /\ w.said = said /\ w.status = "answered" /\ w.source = "service"
  <2>1. <<>> \in Seq(Nat) /\ 0 \in Nat
    OBVIOUS
  <2> QED  BY <1>2, <2>1 DEF Result, ResultRecords
<1> HIDE DEF w
<1>7. out' = w /\ query' = query
  BY <1>3 DEF Finish
<1>8. ResultSaid'
  <2>1. \A i : AskedIn(i)' = query.asks[i]
    BY <1>0, <1>7 DEF AskedIn
  <2> QED  BY <1>0, <1>4, <1>5, <1>6, <1>7, <2>1 DEF ResultSaid, TakenAsMeant
<1>9. ToolInv' /\ step' = "idle"
  BY <1>0, <1>3, <1>6, <1>8, FinishKeeps
<1> QED  BY <1>0, <1>9, SameWorld, InvParts DEF CollectDecisions

\* choose hands on the option the service chose.
LEMMA CollectChoiceKeeps ==
  ASSUME DeciderIInv, CollectChoice
  PROVE  DeciderIInv'
<1>0. /\ WorldInv /\ ToolInv /\ step = "asking" /\ query.kind = "choose"
      /\ UNCHANGED <<mode, world, slot, probe>>
  BY InvParts DEF CollectChoice, Answered
<1>1. CASE Fallback
  BY <1>0, <1>1, FallbackKeeps, SameWorld, InvParts
<1>2. CASE reqs[1].at = "answered" /\ Finish([Judge("answered") EXCEPT !.pick = First.choice])
  <2>1. 1 \in DOMAIN reqs
    BY <1>0, OnlyRequest
  <2>2. First \in Decisions
    BY <1>0, <1>2, <2>1, FirstDecided
  <2>3. First.choice \in Nat
    BY <2>2 DEF Decisions
  <2>4. Finish(Result("answered", "service", <<reqs[1].said>>, reqs[1].offer, First.choice))
    BY <1>2 DEF Judge, Result
  <2>5. ToolInv' /\ step' = "idle"
    BY <1>0, <1>2, <2>3, <2>4, JudgeKeeps
  <2> QED  BY <1>0, <2>5, SameWorld, InvParts
<1> QED  BY <1>1, <1>2 DEF CollectChoice

\* detect hands on the verdict.
LEMMA CollectDetectedKeeps ==
  ASSUME DeciderIInv, CollectDetected
  PROVE  DeciderIInv'
<1>0. /\ WorldInv /\ ToolInv /\ step = "asking" /\ query.kind = "detect"
      /\ UNCHANGED <<mode, world, slot, probe>>
  BY InvParts DEF CollectDetected, Answered
<1>1. CASE Fallback
  BY <1>0, <1>1, FallbackKeeps, SameWorld, InvParts
<1>2. CASE /\ reqs[1].at = "answered"
           /\ Finish([Judge("answered") EXCEPT !.pick = IF First.choice \in {1, 2} THEN First.choice ELSE 3])
  <2>1. 1 \in DOMAIN reqs /\ reqs[1].asked = <<Verdicts>>
    BY <1>0, OnlyRequest
  <2>2. First \in Decisions /\ First.choice \in DOMAIN reqs[1].asked[1]
    BY <1>0, <1>2, <2>1, FirstDecided
  <2>3. First.choice \in {1, 2, 3}
    BY <2>1, <2>2 DEF Verdicts
  <2>4. (IF First.choice \in {1, 2} THEN First.choice ELSE 3) = First.choice /\ First.choice \in Nat
    BY <2>3
  <2>5. Finish(Result("answered", "service", <<reqs[1].said>>, reqs[1].offer, First.choice))
    BY <1>2, <2>4 DEF Judge, Result
  <2>6. ToolInv' /\ step' = "idle"
    BY <1>0, <1>2, <2>4, <2>5, JudgeKeeps
  <2> QED  BY <1>0, <2>6, SameWorld, InvParts
<1> QED  BY <1>1, <1>2 DEF CollectDetected

\* A verification succeeds with a sure yes only.
LEMMA CollectVerdictKeeps ==
  ASSUME DeciderIInv, CollectVerdict
  PROVE  DeciderIInv'
<1>0. /\ WorldInv /\ ToolInv /\ step = "asking" /\ query.kind \in {"verify", "wait"}
      /\ UNCHANGED <<mode, world, slot, probe>>
  BY InvParts DEF CollectVerdict, Answered
<1>1. CASE Fallback
  BY <1>0, <1>1, FallbackKeeps, SameWorld, InvParts
<1> DEFINE status == IF Low(First) \/ First.choice \notin {1, 2} THEN "uncertain"
                     ELSE IF First.choice = 1 THEN "success" ELSE "failure"
<1>2. CASE reqs[1].at = "answered" /\ Finish(Judge(status))
  <2>1. 1 \in DOMAIN reqs /\ reqs[1].asked = <<Verdicts>>
    BY <1>0, OnlyRequest
  <2>2. First.means \in DOMAIN reqs[1].asked[1] /\ TakenAsMeant(reqs[1].asked[1], First)
    BY <1>0, <1>2, <2>1, FirstDecided
  <2>3. reqs[1].asked[1] = Verdicts
    BY <2>1
  <2>4. First.choice = 1 => First.means = 1
    BY <2>2, <2>3, YesIsMeant
  <2>5. /\ status \in {"answered", "success", "failure", "uncertain"}
        /\ status = "success" => ~Low(First) /\ First.choice = 1
    OBVIOUS
  <2>6. Finish(Result(status, "service", <<reqs[1].said>>, reqs[1].offer, 0))
    BY <1>2 DEF Judge
  <2> HIDE DEF status
  <2>7. ToolInv' /\ step' = "idle"
    BY <1>0, <1>2, <2>4, <2>5, <2>6, JudgeKeeps
  <2> QED  BY <1>0, <2>7, SameWorld, InvParts
<1> QED  BY <1>1, <1>2 DEF CollectVerdict

\* An element of a sequence of candidates.
LEMMA ElementInRange ==
  ASSUME NEW s \in Seq(Nat), NEW i \in DOMAIN s, NEW T, Range(s) \subseteq T
  PROVE  s[i] \in Nat /\ s[i] \in Range(s) /\ s[i] \in T
<1>1. s[i] \in Range(s)
  BY DEF Range
<1> QED  BY <1>1

\* A find settles on the candidate the service chose, if it is sure.
LEMMA SettleKeeps ==
  ASSUME ToolInv, step = "asking", query.kind = "find", reqs[1].at = "answered",
         Settle(reqs[1].offer[First.choice])
  PROVE  ToolInv' /\ step' \in {"idle", "routing"}
<1> DEFINE pick == reqs[1].offer[First.choice]
<1>1. CASE Fallback
  BY <1>1, FallbackKeeps
<1>2. CASE ~Low(First) /\ Finish([Judge("success") EXCEPT !.pick = pick])
  <2>1. /\ 1 \in DOMAIN reqs /\ reqs[1].asked = <<Texts(reqs[1].offer)>>
        /\ Range(reqs[1].offer) \subseteq Range(query.cands)
    BY OnlyRequest
  <2>2. First.choice \in DOMAIN reqs[1].asked[1] /\ reqs[1].offer \in Seq(Nat)
    BY <2>1, FirstDecided
  <2>3. First.choice \in DOMAIN reqs[1].offer
    BY <2>1, <2>2 DEF Texts
  <2>4. pick \in Nat /\ pick \in Range(query.cands)
    BY <2>1, <2>2, <2>3, ElementInRange
  <2>5. Finish(Result("success", "service", <<reqs[1].said>>, reqs[1].offer, pick))
    BY <1>2 DEF Judge, Result
  <2> QED  BY <1>2, <2>4, <2>5, JudgeKeeps
<1> QED  BY <1>1, <1>2 DEF Settle

\* With one chunk, and in the last question.
LEMMA CollectFindKeeps ==
  ASSUME DeciderIInv, CollectOnlyChunk \/ CollectWinner
  PROVE  DeciderIInv'
<1>0. /\ WorldInv /\ ToolInv /\ step = "asking" /\ query.kind = "find"
      /\ UNCHANGED <<mode, world, slot, probe>>
  BY InvParts DEF CollectOnlyChunk, CollectWinner, Answered
<1>1. Fallback \/ (reqs[1].at = "answered" /\ Settle(reqs[1].offer[First.choice]))
  BY DEF CollectOnlyChunk, CollectWinner
<1>2. ToolInv' /\ step' \in {"idle", "routing"}
  BY <1>0, <1>1, FallbackKeeps, SettleKeeps
<1> QED  BY <1>0, <1>2, SameWorld, InvParts

\* The candidates of a chunk are candidates.
LEMMA ChunkRange ==
  ASSUME NEW s \in Seq(Nat), NEW j \in Nat \ {0}
  PROVE  Chunk(s, j) \in Seq(Nat) /\ Range(Chunk(s, j)) \subseteq Range(s)
BY ChunkOf DEF Range, MapChoiceToGlobalId

\* The winners are winners.
LEMMA WinnersRange ==
  ASSUME NEW s \in Seq(Nat)
  PROVE  GroupWinners(s) \in Seq(Nat) /\ Range(GroupWinners(s)) \subseteq Range(s)
<1>1. DOMAIN s = 1 .. Len(s) /\ Len(s) \in Nat /\ s \in [DOMAIN s -> Nat]
  OBVIOUS
<1>2. Range(s) \in SUBSET Nat
  BY <1>1 DEF Range
<1>3. IsFiniteSet(Range(s))
  <2>1. IsFiniteSet(DOMAIN s)
    BY <1>1, FirstNumbers
  <2>2. s \in Surjection(DOMAIN s, Range(s))
    BY <1>1 DEF Surjection, Range
  <2> QED  BY <2>1, <2>2, FS_Surjection
<1>4. InOrder(Range(s)) \in Seq(Range(s))
  BY <1>2, <1>3, InOrderOf
<1> HIDE DEF Range
<1>5. GroupWinners(s) \in Seq(Range(s))
  BY <1>4 DEF GroupWinners
<1>6. GroupWinners(s) \in Seq(Nat)
  BY <1>2, <1>5, SeqMonotonic
<1>7. \A i \in DOMAIN GroupWinners(s) : GroupWinners(s)[i] \in Range(s)
  BY <1>5
<1>8. \A x \in Range(GroupWinners(s)) : x \in Range(s)
  BY <1>7 DEF Range
<1> QED  BY <1>6, <1>8

\* With several chunks: the winner of a chunk is one of that chunk, and the
\* next question is about the next chunk or the winners.
LEMMA CollectChunkKeeps ==
  ASSUME DeciderIInv, CollectChunk
  PROVE  DeciderIInv'
<1>0. /\ WorldInv /\ ToolInv /\ step = "asking" /\ query.kind = "find"
      /\ UNCHANGED <<mode, world, slot, probe>> /\ round <= ChunkCount(query.cands)
  BY InvParts DEF CollectChunk, Answered
<1>1. CASE Fallback
  BY <1>0, <1>1, FallbackKeeps, SameWorld, InvParts
<1> DEFINE won == MapChoiceToGlobalId(query.cands, round, First.choice)
           ids == Append(picked, won)
           next == IF round = ChunkCount(query.cands) THEN GroupWinners(ids)
                   ELSE Chunk(query.cands, round + 1)
<1>2. CASE /\ reqs[1].at = "answered"
           /\ picked' = ids /\ round' = round + 1 /\ AskAbout(next)
           /\ UNCHANGED <<step, why, query, late, out>>
  <2>1. query \in Queries /\ query.cands \in Seq(Nat) /\ picked \in Seq(Nat) /\ round \in Nat
    BY <1>0, QueryFields DEF ToolInv, ToolTyped
  <2>2. /\ 1 \in DOMAIN reqs /\ reqs[1].asked = <<Texts(reqs[1].offer)>>
        /\ Range(reqs[1].offer) \subseteq Range(query.cands)
    BY <1>0, OnlyRequest
  <2>3. /\ round \in Nat \ {0} /\ Len(picked) = round - 1
        /\ reqs[1].offer = Chunk(query.cands, round)
    BY <1>0 DEF ToolInv, OwnCandidates
  <2>4. First.choice \in DOMAIN reqs[1].asked[1] /\ reqs[1].offer \in Seq(Nat)
    BY <1>0, <1>2, <2>2, FirstDecided
  <2>5. First.choice \in DOMAIN reqs[1].offer
    BY <2>2, <2>4 DEF Texts
  <2>6. won = reqs[1].offer[First.choice]
    <3>1. \A i \in DOMAIN Chunk(query.cands, round) :
            Chunk(query.cands, round)[i] = MapChoiceToGlobalId(query.cands, round, i)
      BY <2>1, <2>3, ChunkOf
    <3> QED  BY <2>3, <2>5, <3>1
  <2>7. /\ won \in Nat /\ won \in Range(query.cands)
        /\ won \in Range(Chunk(query.cands, round))
    <3>1. /\ reqs[1].offer[First.choice] \in Nat
          /\ reqs[1].offer[First.choice] \in Range(reqs[1].offer)
          /\ reqs[1].offer[First.choice] \in Range(query.cands)
      BY <2>2, <2>4, <2>5, ElementInRange
    <3> HIDE DEF won
    <3> QED  BY <2>3, <2>6, <3>1
  <2> HIDE DEF won
  <2>8. /\ ids \in Seq(Nat) /\ Len(ids) = round /\ DOMAIN ids = 1 .. round
        /\ ids[round] = won /\ \A j \in 1 .. round - 1 : ids[j] = picked[j]
    BY <2>1, <2>3, <2>7
  <2>9. \A j \in DOMAIN ids : ids[j] \in Range(Chunk(query.cands, j))
    <3> TAKE j \in DOMAIN ids
    <3>1. CASE j = round
      BY <2>7, <2>8, <3>1
    <3>2. CASE j # round
      <4>1. j \in 1 .. round - 1
        BY <2>3, <2>8, <3>2
      <4>2. j \in DOMAIN picked
        BY <2>1, <2>3, <4>1
      <4> QED  BY <1>0, <2>8, <4>1, <4>2 DEF ToolInv, WinnersOfChunks
    <3> QED  BY <3>1, <3>2
  <2>10. Range(ids) \subseteq Range(query.cands)
    <3> SUFFICES ASSUME NEW j \in DOMAIN ids PROVE ids[j] \in Range(query.cands)
      BY DEF Range
    <3>1. j \in Nat \ {0}
      BY <2>3, <2>8
    <3>2. Range(Chunk(query.cands, j)) \subseteq Range(query.cands)
      BY <2>1, <3>1, ChunkRange
    <3> QED  BY <2>9, <3>2
  <2> HIDE DEF ids
  <2>11. next \in Seq(Nat) /\ Range(next) \subseteq Range(query.cands)
    <3>1. GroupWinners(ids) \in Seq(Nat) /\ Range(GroupWinners(ids)) \subseteq Range(query.cands)
      BY <2>8, <2>10, WinnersRange
    <3>2. round + 1 \in Nat \ {0}
      BY <2>1
    <3>3. /\ Chunk(query.cands, round + 1) \in Seq(Nat)
          /\ Range(Chunk(query.cands, round + 1)) \subseteq Range(query.cands)
      BY <2>1, <3>2, ChunkRange
    <3> QED  BY <3>1, <3>3
  <2>12. round' <= ChunkCount(query.cands) => next = Chunk(query.cands, round')
    <3>1. ChunkCount(query.cands) \in Nat
      BY <2>1, ChunkCountType
    <3> QED  BY <1>0, <1>2, <2>1, <3>1
  <2> HIDE DEF next
  <2>13. /\ reqs' \in Seq(RequestRecords) /\ RequestsDecided'
         /\ Len(reqs') = 1 /\ reqs'[1].offer = next /\ reqs'[1].asked = <<Texts(next)>>
    BY <1>2, <2>1, <2>11, AskAboutKeeps
  <2>14. ToolTyped'
    BY <1>0, <1>2, <2>1, <2>8, <2>13 DEF ToolInv, ToolTyped
  <2>15. OwnCandidates'
    BY <1>2, <2>3, <2>8, <2>11, <2>12, <2>13 DEF OwnCandidates
  <2>16. WinnersOfChunks'
    BY <1>2, <2>9 DEF WinnersOfChunks
  <2>17. OwnQuestions' /\ NothingPicked' /\ ResultSaid'
    BY <1>0, <1>2 DEF ToolInv, OwnQuestions, NothingPicked, ResultSaid, AskedIn
  <2>18. ToolInv' /\ step' = "asking"
    BY <1>0, <1>2, <2>13, <2>14, <2>15, <2>16, <2>17 DEF ToolInv
  <2> QED  BY <1>0, <2>18, SameWorld, InvParts
<1> QED  BY <1>1, <1>2 DEF CollectChunk

\* Gemini is not asked, or the process ends and a new one knows no verdict.
LEMMA GroundKeeps ==
  ASSUME DeciderIInv, Ground
  PROVE  DeciderIInv'
<1>0. WorldInv /\ ToolInv /\ UNCHANGED <<mode, service, downFor, probe>>
  BY InvParts DEF Ground, world
<1>1. ToolInv' /\ step' = "idle"
  BY <1>0, FinishUnsaid DEF Ground
<1>2. slot' = slot \/ slot' = [up |-> FALSE, age |-> TtlUp]
  BY DEF Ground, NoSlot
<1>3. WorldInv'
  <2>1. slot' \in [up: BOOLEAN, age: 0..TtlUp]
    <3>1. slot \in [up: BOOLEAN, age: 0..TtlUp] /\ TtlUp \in 0..TtlUp
      BY <1>0, BoundsAssumption DEF WorldInv, WorldTyped
    <3>2. [up |-> FALSE, age |-> TtlUp] \in [up: BOOLEAN, age: 0..TtlUp]
      BY <3>1
    <3> QED  BY <1>2, <3>1, <3>2, Zenon
  <2>2. slot'.up => slot' = slot
    BY <1>2
  <2> QED  BY <1>0, <1>1, <2>1, <2>2 DEF WorldInv, WorldTyped, VerdictAge
<1> QED  BY <1>1, <1>3, InvParts

\* The service comes or goes: it has been down for no time.
LEMMA ServiceChangesKeeps ==
  ASSUME DeciderIInv, ServiceChanges
  PROVE  DeciderIInv'
<1>0. WorldInv /\ ToolInv
  BY InvParts
<1>1. UNCHANGED <<mode, slot, probe, why, step, query, late, round, picked, reqs, out>> /\ downFor' = 0
  BY DEF ServiceChanges, routing
<1>2. ToolInv'
  <2>1. ToolTyped'
    BY <1>0, <1>1 DEF ToolInv, ToolTyped
  <2>2. RequestsDecided' /\ OwnQuestions' /\ OwnCandidates' /\ NothingPicked'
    BY <1>0, <1>1 DEF ToolInv, RequestsDecided, OwnQuestions, OwnCandidates, NothingPicked
  <2>3. WinnersOfChunks' /\ ResultSaid'
    BY <1>0, <1>1 DEF ToolInv, WinnersOfChunks, ResultSaid, AskedIn
  <2> QED  BY <2>1, <2>2, <2>3 DEF ToolInv
<1>3. WorldTyped'
  BY <1>0, <1>1, BoundsAssumption DEF ServiceChanges, WorldInv, WorldTyped
<1>4. VerdictAge'
  BY <1>0, <1>1, BoundsAssumption DEF WorldInv, WorldTyped, VerdictAge
<1> QED  BY <1>2, <1>3, <1>4, InvParts DEF WorldInv

\* The ages grow together, as long as they count.
LEMMA OlderTogether ==
  ASSUME NEW top \in Nat, NEW cap \in Nat, NEW m \in 0..top, NEW a \in 0..cap, NEW d \in Nat
  PROVE  /\ Older(m, top) \in 0..top /\ Older(a, cap) \in 0..cap
         /\ Older(a, cap) < cap => a < cap
         /\ Older(a, cap) < cap /\ m <= a + d => Older(m, top) <= Older(a, cap) + d
         /\ m <= a => Older(m, top) <= a + 1
BY DEF Older

\* Time passes.
LEMMA TickKeeps ==
  ASSUME DeciderIInv, Tick
  PROVE  DeciderIInv'
<1>0. WorldInv /\ ToolInv
  BY InvParts
<1>1. /\ UNCHANGED <<mode, service, why, step, query, late, round, picked, reqs, out>>
      /\ slot' = [slot EXCEPT !.age = Older(@, TtlUp)]
      /\ downFor' = IF service = "up" THEN 0 ELSE Older(downFor, TtlUp + ProbeTime + 1)
      /\ probe' = IF step \in {"probing", "probed"} THEN [probe EXCEPT !.age = @ + 1] ELSE probe
      /\ step \in {"probing", "probed"} => probe.age < ProbeTime
  BY DEF Tick
<1>2. ToolInv'
  <2>1. ToolTyped'
    BY <1>0, <1>1 DEF ToolInv, ToolTyped
  <2>2. RequestsDecided' /\ OwnQuestions' /\ OwnCandidates' /\ NothingPicked'
    BY <1>0, <1>1 DEF ToolInv, RequestsDecided, OwnQuestions, OwnCandidates, NothingPicked
  <2>3. WinnersOfChunks' /\ ResultSaid'
    BY <1>0, <1>1 DEF ToolInv, WinnersOfChunks, ResultSaid, AskedIn
  <2> QED  BY <2>1, <2>2, <2>3 DEF ToolInv
<1> DEFINE top == TtlUp + ProbeTime + 1
<1>3. /\ top \in Nat /\ TtlUp \in Nat /\ ProbeTime \in Nat /\ downFor \in 0..top
      /\ slot \in [up: BOOLEAN, age: 0..TtlUp]
      /\ probe \in [path: 0..Paths, age: 0..ProbeTime, ok: BOOLEAN]
  BY <1>0, BoundsAssumption DEF WorldInv, WorldTyped
<1>4. slot.age \in 0..TtlUp /\ slot'.age = Older(slot.age, TtlUp) /\ slot'.up = slot.up
  BY <1>1, <1>3
<1>5. downFor' = 0 \/ downFor' = Older(downFor, top)
  BY <1>1
<1>6. service' = "up" => downFor' = 0
  BY <1>1
<1> HIDE DEF top
<1>7. /\ Older(downFor, top) \in 0..top /\ Older(slot.age, TtlUp) \in 0..TtlUp
      /\ Older(slot.age, TtlUp) < TtlUp => slot.age < TtlUp
      /\ Older(slot.age, TtlUp) < TtlUp /\ downFor <= slot.age + ProbeTime =>
           Older(downFor, top) <= Older(slot.age, TtlUp) + ProbeTime
  BY <1>3, <1>4, OlderTogether
<1>8. slot' \in [up: BOOLEAN, age: 0..TtlUp]
  BY <1>1, <1>3, <1>7
<1>9. /\ probe' \in [path: 0..Paths, age: 0..ProbeTime, ok: BOOLEAN]
      /\ probe'.ok = probe.ok
      /\ step \in {"probing", "probed"} => probe'.age = probe.age + 1
  <2>1. CASE step \in {"probing", "probed"}
    <3>1. probe.age + 1 \in 0..ProbeTime
      BY <1>1, <1>3, <2>1
    <3>2. probe' = [probe EXCEPT !.age = probe.age + 1]
      BY <1>1, <2>1
    <3> QED  BY <1>3, <3>1, <3>2
  <2>2. CASE step \notin {"probing", "probed"}
    BY <1>1, <1>3, <2>2
  <2> QED  BY <2>1, <2>2
<1>10. downFor' \in 0..top
  BY <1>3, <1>5, <1>7
<1>11. WorldTyped'
  BY <1>0, <1>1, <1>8, <1>9, <1>10 DEF WorldInv, WorldTyped, top
<1>12. slot'.up /\ slot'.age < TtlUp => downFor' <= slot'.age + ProbeTime
  <2> SUFFICES ASSUME slot'.up, slot'.age < TtlUp PROVE downFor' <= slot'.age + ProbeTime
    OBVIOUS
  <2>1. slot.up /\ slot.age < TtlUp
    BY <1>4, <1>7
  <2>2. downFor <= slot.age + ProbeTime
    BY <1>0, <2>1 DEF WorldInv, VerdictAge
  <2>3. Older(downFor, top) <= slot'.age + ProbeTime /\ slot'.age \in Nat
    BY <1>3, <1>4, <1>7, <2>2
  <2> QED  BY <1>3, <1>5, <2>3
<1>13. step' \in {"probing", "probed"} /\ probe'.ok => downFor' <= probe'.age
  <2> SUFFICES ASSUME step' \in {"probing", "probed"}, probe'.ok PROVE downFor' <= probe'.age
    OBVIOUS
  <2>1. step \in {"probing", "probed"} /\ probe.ok
    BY <1>1, <1>9
  <2>2. downFor <= probe.age /\ probe.age \in 0..ProbeTime /\ probe'.age = probe.age + 1
    BY <1>0, <1>3, <1>9, <2>1 DEF WorldInv, VerdictAge
  <2>3. Older(downFor, top) <= probe.age + 1
    BY <1>3, <2>2, OlderTogether
  <2> QED  BY <1>3, <1>5, <2>2, <2>3
<1>14. VerdictAge'
  BY <1>6, <1>12, <1>13 DEF VerdictAge
<1> QED  BY <1>2, <1>11, <1>14, InvParts DEF WorldInv

-----------------------------------------------------------------------------
(* The theorems about the perception tools *)

\* The invariant holds in a process that has just started.
LEMMA DeciderIInvInit == DeciderInit => DeciderIInv
<1> SUFFICES ASSUME DeciderInit PROVE DeciderIInv
  OBVIOUS
<1>1. /\ <<>> \in Seq(Seq(Decisions)) /\ <<>> \in Seq(Nat) /\ <<>> \in Seq(RequestRecords)
      /\ DOMAIN <<>> = {}
  OBVIOUS
<1>2. NoResult \in ResultRecords /\ NoResult.source = "none"
  BY <1>1 DEF NoResult, Result, ResultRecords
<1>3. ToolTyped
  BY <1>1, <1>2 DEF DeciderInit, ToolTyped
<1>4. RequestsDecided /\ OwnQuestions /\ OwnCandidates /\ NothingPicked /\ WinnersOfChunks
  BY <1>1 DEF DeciderInit, RequestsDecided, OwnQuestions, OwnCandidates, NothingPicked,
     WinnersOfChunks
<1>5. ResultSaid
  BY <1>2 DEF DeciderInit, ResultSaid
<1>6. slot = [up |-> FALSE, age |-> TtlUp] /\ probe = [path |-> 0, age |-> 0, ok |-> FALSE]
  BY DEF DeciderInit, NoSlot, NoProbe
<1>7. WorldTyped
  <2>1. slot \in [up: BOOLEAN, age: 0..TtlUp]
    BY <1>6, BoundsAssumption
  <2>2. probe \in [path: 0..Paths, age: 0..ProbeTime, ok: BOOLEAN]
    BY <1>6, BoundsAssumption DEF Paths
  <2> QED  BY <2>1, <2>2, BoundsAssumption DEF DeciderInit, WorldTyped
<1>8. VerdictAge
  BY <1>6 DEF DeciderInit, VerdictAge
<1> QED  BY <1>3, <1>4, <1>5, <1>7, <1>8, InvParts DEF WorldInv, ToolInv

\* Nothing happens to it when nothing happens.
LEMMA DeciderStutters ==
  ASSUME DeciderIInv, UNCHANGED deciderVars
  PROVE  DeciderIInv'
<1>0. /\ WorldInv /\ ToolInv
      /\ UNCHANGED <<mode, service, downFor, slot, probe, why, step, query, late, round, picked, reqs, out>>
  BY InvParts DEF deciderVars, world, routing
<1>1. WorldInv'
  BY <1>0 DEF WorldInv, WorldTyped, VerdictAge
<1>2. ToolTyped'
  BY <1>0 DEF ToolInv, ToolTyped
<1>3. RequestsDecided' /\ OwnQuestions' /\ OwnCandidates' /\ NothingPicked'
  BY <1>0 DEF ToolInv, RequestsDecided, OwnQuestions, OwnCandidates, NothingPicked
<1>4. WinnersOfChunks' /\ ResultSaid'
  BY <1>0 DEF ToolInv, WinnersOfChunks, ResultSaid, AskedIn
<1> QED  BY <1>1, <1>2, <1>3, <1>4, InvParts DEF ToolInv

\* Every step of a tool, of the service and of time keeps it.
LEMMA DeciderIInvNext == DeciderIInv /\ [DeciderNext]_deciderVars => DeciderIInv'
<1> SUFFICES ASSUME DeciderIInv, [DeciderNext]_deciderVars PROVE DeciderIInv'
  OBVIOUS
<1>1. ASSUME NEW t \in Queries, Start(t) PROVE DeciderIInv'
  BY <1>1, StartKeeps
<1>2. CASE Proceed
  <2>1. ASSUME NEW i \in DOMAIN reqs, Acquire(i) \/ CallFails(i) \/ TryNextEndpoint(i) \/ Reply(i)
        PROVE  DeciderIInv'
    BY <2>1, AcquireKeeps, CallFailsKeeps, TryNextEndpointKeeps, ReplyKeeps
  <2>2. CASE Explicit \/ Cached \/ StartProbe \/ ProbePath \/ StoreProbe
    BY <2>2, RoutesKeep, StartProbeKeeps, ProbePathKeeps, StoreProbeKeeps
  <2>3. CASE CollectDecisions \/ CollectChoice \/ CollectDetected \/ CollectVerdict
    BY <2>3, CollectDecisionsKeeps, CollectChoiceKeeps, CollectDetectedKeeps, CollectVerdictKeeps
  <2>4. CASE CollectOnlyChunk \/ CollectChunk \/ CollectWinner
    BY <2>4, CollectFindKeeps, CollectChunkKeeps
  <2> QED  BY <1>2, <2>1, <2>2, <2>3, <2>4 DEF Proceed
<1>3. CASE PageHit \/ TierHit \/ Deadline
  BY <1>3, PageHitKeeps, DeadlineKeeps
<1>4. CASE ServiceChanges \/ Tick
  BY <1>4, ServiceChangesKeeps, TickKeeps
<1>5. CASE UNCHANGED deciderVars
  BY <1>5, DeciderStutters
<1>6. CASE LookEnds
  BY <1>6, PageMissKeeps, GroundKeeps, TakePictureKeeps DEF LookEnds
<1> QED  BY <1>1, <1>2, <1>3, <1>4, <1>5, <1>6 DEF DeciderNext

\* The inductive invariant of the perception tools.
THEOREM DeciderInvariance == DeciderSpec => []DeciderIInv
BY DeciderIInvInit, DeciderIInvNext, PTL DEF DeciderSpec

\* Every reachable state of the perception tools is type correct, whatever the
\* tools ask and the service answers.
THEOREM DeciderTypeCorrect == DeciderSpec => []DeciderTypeOK
<1>1. DeciderIInv => DeciderTypeOK
  BY DEF DeciderIInv
<1> QED  BY <1>1, DeciderInvariance, PTL

\* However many questions, options, candidates and chunks there are, whatever
\* strings read as numbers and however the service answers, nothing is attributed to it that it did not say.
THEOREM NothingPutInItsMouth == DeciderSpec => []SaidByService
<1>1. DeciderIInv => SaidByService
  BY DEF DeciderIInv, SaidByService
<1> QED  BY <1>1, DeciderInvariance, PTL

\* A tool goes over to asking only by way of the routing.
LEMMA AskingIsRouted ==
  ASSUME DeciderIInv, [DeciderNext]_deciderVars, step # "asking", step' = "asking", mode = "unset"
  PROVE  (Cached /\ slot.up) \/ (StoreProbe /\ probe.ok)
<1>0. ToolInv
  BY InvParts
<1>1. ~(UNCHANGED deciderVars) /\ ~ServiceChanges /\ ~Tick /\ ~Deadline
  BY DEF deciderVars, ServiceChanges, Tick, Deadline
<1>2. ASSUME NEW t \in Queries PROVE ~Start(t)
  BY DEF Start
<1>3. ~PageHit /\ ~TierHit /\ ~Ground
  BY DEF PageHit, TierHit, Ground, Finish
<1>4. Fallback => step' # "asking"
  BY DEF Fallback, Finish, Resolve, Turn
<1>5. ~PageMiss
  BY <1>4 DEF PageMiss, Finish, Resolve, Turn
<1>6. ~Explicit /\ ~StartProbe /\ ~ProbePath
  BY DEF Explicit, StartProbe, ProbePath
<1>7. \A i \in DOMAIN reqs : ~TakePicture(i) /\ ~Acquire(i) /\ ~CallFails(i) /\ ~TryNextEndpoint(i) /\ ~Reply(i)
  BY DEF TakePicture, Acquire, CallFails, TryNextEndpoint, Reply
<1>8. /\ ~CollectDecisions /\ ~CollectChoice /\ ~CollectDetected /\ ~CollectVerdict
      /\ ~CollectOnlyChunk /\ ~CollectChunk /\ ~CollectWinner
  BY DEF CollectDecisions, CollectChoice, CollectDetected, CollectVerdict, CollectOnlyChunk,
     CollectChunk, CollectWinner, Answered
<1>9. Cached \/ StoreProbe
  BY <1>1, <1>2, <1>3, <1>5, <1>6, <1>7, <1>8 DEF DeciderNext, LookEnds, Proceed
<1>10. CASE Cached
  <2>1. slot.up
    BY <1>4, <1>10 DEF Cached, Routed, Resolve, Turn
  <2> QED  BY <1>10, <2>1
<1>11. CASE StoreProbe
  <2>1. probe.ok
    BY <1>4, <1>11 DEF StoreProbe, Routed, Resolve, Turn
  <2> QED  BY <1>11, <2>1
<1> QED  BY <1>9, <1>10, <1>11

\* A service that is gone is noticed within the life of a verdict and the time
\* of a probe, for every life and every probe time.
THEOREM GoneIsNoticed == DeciderSpec => NoticedInTime
<1>1. DeciderIInv /\ [DeciderNext]_deciderVars =>
        [(step # "asking" /\ step' = "asking" /\ mode = "unset") => downFor < TtlUp + ProbeTime]_deciderVars
  <2> SUFFICES ASSUME DeciderIInv, [DeciderNext]_deciderVars, step # "asking", step' = "asking",
                      mode = "unset"
               PROVE  downFor < TtlUp + ProbeTime
    OBVIOUS
  <2>1. WorldInv /\ TtlUp \in Nat \ {0} /\ ProbeTime \in Nat
    BY InvParts, BoundsAssumption
  <2>2. downFor \in Nat
    BY <2>1 DEF WorldInv, WorldTyped
  <2>3. CASE Cached /\ slot.up
    <3>1. slot.age \in Nat /\ slot.age < TtlUp
      BY <2>1, <2>3 DEF Cached, Fresh, WorldInv, WorldTyped
    <3>2. downFor <= slot.age + ProbeTime
      BY <2>1, <2>3, <3>1 DEF WorldInv, VerdictAge
    <3> QED  BY <2>1, <2>2, <3>1, <3>2
  <2>4. CASE StoreProbe /\ probe.ok
    <3>1. probe.age \in 0..ProbeTime
      BY <2>1 DEF WorldInv, WorldTyped
    <3>2. downFor <= probe.age
      BY <2>1, <2>4 DEF StoreProbe, WorldInv, VerdictAge
    <3> QED  BY <2>1, <2>2, <3>1, <3>2
  <2> QED  BY <2>3, <2>4, AskingIsRouted
<1> QED  BY <1>1, DeciderInvariance, PTL DEF DeciderSpec, NoticedInTime

=============================================================================
