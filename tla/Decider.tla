------------------------------ MODULE Decider -------------------------------
(***************************************************************************)
(* The perception tools of one hyprfast process (decider/tools.rs,         *)
(* perception/): decide, decider_batch, choose and detect ask the resident *)
(* decider service; find, verify and wait_until ask the page first and the *)
(* service when that is not enough.  Whether the service is asked at all   *)
(* is decided by a cached health probe (decider/config.rs); the requests   *)
(* go through one client with a bounded number in flight (decider/client   *)
(* .rs), and an answer is decoded, normalised and checked against its      *)
(* questions (types.rs).                                                   *)
(*                                                                         *)
(* Tools are served one at a time; only a batch has several requests in    *)
(* flight.  The page, the service and the passage of time are external.    *)
(* Ages are counted in ticks and capped where no test of the code tells    *)
(* larger ones apart, so time itself is unbounded.                         *)
(***************************************************************************)
EXTENDS Naturals, Sequences, FiniteSets, Functions

CONSTANTS
    Queries,    \* the tool calls that are made
    Modes,      \* the values of DECIDER_ENABLED: "unset", "on", "off"
    Permits,    \* the permits of SEMAPHORE (4 in the code)
    Ids,        \* the ids of the options of a question ("1" to "255" in the code)
    Numeral,    \* str::parse::<usize>: the number of every string that reads as one
    TextOf,     \* the option text of each candidate
    Budget,     \* options of one question of a find, max_per (10 or 255 in the code)
    TtlUp,      \* PROBE_TTL_UP in ticks
    TtlDown,    \* PROBE_TTL_DOWN
    ProbeTime   \* what a probe may take

\* The tools that only ask, and those that look at the page first.
Askers == {"decide", "batch", "choose", "detect"}
Kinds == Askers \cup {"find", "verify", "wait"}

\* The options of every question that asks for a verdict.
Verdicts == <<"yes", "no", "uncertain">>

\* asks: per request its questions, each the texts of its options; cands: the
\* ids of the candidates of a find, in order, after the filters.
ASSUME QueriesAssumption ==
    /\ Queries \subseteq [kind: Kinds, asks: Seq(Seq(Seq(STRING))), cands: Seq(Nat \ {0})]
    /\ \A t \in Queries :
           /\ t.kind = "choose" => Len(t.asks) = 1
           /\ t.kind \in {"detect", "verify", "wait"} => t.asks = <<<<Verdicts>>>>
           /\ \A j \in DOMAIN t.cands : t.cands[j] \in DOMAIN TextOf /\ TextOf[t.cands[j]] \in STRING
ASSUME IdsAssumption ==
    /\ Ids \in Seq(STRING)
    /\ Numeral \in [DOMAIN Numeral -> Nat]
    /\ \A i \in DOMAIN Ids : Ids[i] \in DOMAIN Numeral /\ Numeral[Ids[i]] = i
    /\ DOMAIN Numeral \cap {"", "yes", "no", "uncertain"} = {}
ASSUME BoundsAssumption ==
    /\ Modes \subseteq {"unset", "on", "off"}
    /\ Permits \in Nat \ {0} /\ Budget \in Nat \ {0}
    /\ TtlUp \in Nat \ {0} /\ TtlDown \in Nat /\ ProbeTime \in Nat

VARIABLES
    mode,     \* DECIDER_ENABLED
    service,  \* "up" or "down"
    downFor,  \* history: the ticks since the service was last up
    slot,     \* PROBE_SLOT: the verdict of the last probe and its age
    probe,    \* the probe under way: the path it is at, its age, its verdict
    step,     \* where the tool is
    why,      \* what resolve_enabled is asked for
    query,    \* the tool
    late,     \* wait_until: the timeout has passed
    round,    \* find: the chunk that is asked about
    picked,   \* find: the winners of the chunks so far
    reqs,     \* the requests to the service
    out       \* the result of the last tool

world == <<service, downFor>>
routing == <<slot, probe, why>>
deciderVars == <<mode, world, routing, step, query, late, round, picked, reqs, out>>

NoSlot == [up |-> FALSE, age |-> TtlUp]
NoProbe == [path |-> 0, age |-> 0, ok |-> FALSE]
Paths == 3      \* PROBE_PATHS
Endpoints == 3  \* predict, decide, v1/predict

\* A request that is put together; at = "picture" if a screenshot comes first.
Request(asked, offer, at) ==
    [asked |-> asked, offer |-> offer, at |-> at, url |-> 0, said |-> <<>>]

\* source: who the result is from; said: per request the decisions of the
\* service; offer: the candidates the last one was about.
Result(status, source, said, offer, pick) ==
    [status |-> status, source |-> source, said |-> said, offer |-> offer, pick |-> pick]
NoResult == Result("none", "none", <<>>, <<>>, 0)

\* of: the question a decision was made for; means: the option it was meant for
\* (both known to the service only); choice: the option it is taken for.
Decisions == [of: Nat, means: Nat, conf: {"high", "low", "none"}, choice: Nat]

RequestRecords ==
    [asked: Seq(Seq(STRING)), offer: Seq(Nat), url: 0..Endpoints,
     at: {"picture", "queued", "sent", "failed", "answered"}, said: Seq(Decisions)]

ResultRecords ==
    [status: {"none", "answered", "fallback", "success", "failure", "uncertain", "panicked"},
     source: {"none", "page", "service"}, said: Seq(Seq(Decisions)), offer: Seq(Nat), pick: Nat]

DeciderTypeOK ==
    /\ mode \in Modes /\ service \in {"up", "down"}
    /\ downFor \in 0..(TtlUp + ProbeTime + 1)
    /\ slot \in [up: BOOLEAN, age: 0..TtlUp]
    /\ probe \in [path: 0..Paths, age: 0..ProbeTime, ok: BOOLEAN]
    /\ step \in {"idle", "page", "routing", "probing", "probed", "asking", "ground"}
    /\ why \in {"gate", "route", "explain", "ground"}
    /\ query \in Queries /\ late \in BOOLEAN /\ round \in Nat /\ picked \in Seq(Nat)
    /\ reqs \in Seq(RequestRecords) /\ out \in ResultRecords

DeciderInit ==
    /\ mode \in Modes
    /\ \/ service = "up" /\ downFor = 0
       \/ service = "down" /\ downFor = TtlUp + ProbeTime + 1
    /\ slot = NoSlot /\ probe = NoProbe
    /\ step = "idle" /\ why = "route"
    /\ query \in Queries /\ late = FALSE /\ round = 0 /\ picked = <<>>
    /\ reqs = <<>> /\ out = NoResult

-----------------------------------------------------------------------------
(* The end of a tool, and where a tool goes without the service.           *)

Finish(result) ==
    /\ step' = "idle" /\ out' = result
    /\ why' = "route" /\ reqs' = <<>> /\ round' = 0 /\ picked' = <<>> /\ late' = FALSE
    /\ UNCHANGED query

Turn(place, reason) ==
    /\ step' = place /\ why' = reason
    /\ reqs' = <<>> /\ round' = 0 /\ picked' = <<>>
    /\ UNCHANGED <<query, late, out>>

Resolve(reason) == Turn("routing", reason)

\* What a tool answers without the service.  A find tries Gemini if it is
\* allowed to, and that asks for the routing once more.
Fallback ==
    \/ query.kind \in Askers /\ Finish(Result("fallback", "none", <<>>, <<>>, 0))
    \/ query.kind \in {"verify", "find"} /\ Finish(Result("uncertain", "none", <<>>, <<>>, 0))
    \/ query.kind = "wait" /\ Finish(Result("failure", "none", <<>>, <<>>, 0))
    \/ query.kind = "find" /\ Resolve("ground")

-----------------------------------------------------------------------------
(* A tool starts, and looks at the page.                                   *)

\* A detect may take a screenshot before it resolves its routing.
Start(t) ==
    /\ step = "idle"
    /\ query' = t /\ out' = NoResult
    /\ \/ t.kind \in Askers /\ step' = "routing"
       \/ t.kind \notin Askers \ {"detect"} /\ step' = "page"
    /\ UNCHANGED <<mode, world, routing, late, round, picked, reqs>>

\* The page shows what is looked for, in the DOM or among its hints.
PageHit ==
    /\ step = "page" /\ query.kind \in {"verify", "wait"}
    /\ Finish(Result("success", "page", <<>>, <<>>, 0))
    /\ UNCHANGED <<mode, world, slot, probe>>

\* One of the deterministic tiers of resolve_target has a candidate.
TierHit ==
    /\ step = "page" /\ query.kind = "find" /\ query.cands # <<>>
    /\ \E pick \in Range(query.cands) : Finish(Result("success", "page", <<>>, <<>>, pick))
    /\ UNCHANGED <<mode, world, slot, probe>>

\* It does not.  For a query that is a selector verify stops here; wait_until
\* looks again until its timeout; verify and wait_until then check whether the
\* service is there before they ask for it.  For choose and detect the page is
\* only a screenshot, which they can do without.
PageMiss ==
    /\ step = "page"
    /\ \/ query.kind = "verify" /\ Finish(Result("failure", "page", <<>>, <<>>, 0))
       \/ (query.kind = "verify" \/ (query.kind = "wait" /\ late)) /\ Resolve("gate")
       \/ query.kind = "find" /\ query.cands # <<>> /\ Resolve("route")
       \/ query.kind = "find" /\ query.cands = <<>> /\ Fallback
       \/ query.kind \in {"choose", "detect"} /\ Resolve(why)
    /\ UNCHANGED <<mode, world, slot, probe>>

\* wait_until's timeout.
Deadline ==
    /\ step = "page" /\ query.kind = "wait" /\ ~late
    /\ late' = TRUE
    /\ UNCHANGED <<mode, world, routing, step, query, round, picked, reqs, out>>

-----------------------------------------------------------------------------
(* The candidates of a find: chunks and winners.                           *)

ChunkCount(cands) == (Len(cands) + Budget - 1) \div Budget

Chunk(cands, k) ==
    SubSeq(cands, (k - 1) * Budget + 1,
           IF k * Budget < Len(cands) THEN k * Budget ELSE Len(cands))

MapChoiceToGlobalId(cands, k, choice) == cands[(k - 1) * Budget + choice]

\* The numbers of S, from the lowest to the highest.
InOrder(S) ==
    [j \in 1..Cardinality(S) |-> CHOOSE q \in S : Cardinality({p \in S : p <= q}) = j]

\* The winners, without duplicates, by id.
GroupWinners(ids) == InOrder(Range(ids))

\* build_decider_question: texts are not unique (vision_text cuts long names).
Texts(ids) == [j \in DOMAIN ids |-> TextOf[ids[j]]]

AskAbout(ids) ==
    \E at \in {"picture", "queued"} : reqs' = <<Request(<<Texts(ids)>>, ids, at)>>

-----------------------------------------------------------------------------
(* resolve_enabled.                                                        *)

\* verify and wait_until need a screenshot; choose and find take one if they are
\* asked to use vision.
Beginnings(kind) ==
    (IF kind \in {"verify", "wait"} THEN {} ELSE {"queued"})
        \cup (IF kind \in {"verify", "wait", "choose"} THEN {"picture"} ELSE {})

\* The requests of a tool.
Ask ==
    /\ step' = "asking"
    /\ IF query.kind = "find"
       THEN round' = 1 /\ AskAbout(Chunk(query.cands, 1))
       ELSE /\ \E at \in Beginnings(query.kind) :
                   reqs' = [i \in DOMAIN query.asks |-> Request(query.asks[i], <<>>, at)]
            /\ UNCHANGED round
    /\ UNCHANGED <<why, query, late, picked, out>>

\* What the answer is for: to go on at all, to ask, to say in words why not
\* (off_reason; choose may take its screenshot first), or nothing (ground,
\* inside a runtime).
Routed(up) ==
    \/ why = "gate" /\ up /\ Resolve("route")
    \/ why = "gate" /\ ~up /\ Fallback
    \/ why = "route" /\ up /\ Ask
    \/ why = "route" /\ ~up /\ Resolve("explain")
    \/ why = "route" /\ ~up /\ query.kind = "choose" /\ Turn("page", "explain")
    \/ why = "explain" /\ Fallback
    \/ why = "ground" /\ step' = "ground" /\ UNCHANGED <<why, query, late, round, picked, reqs, out>>

Explicit ==
    /\ step = "routing" /\ mode # "unset"
    /\ Routed(mode = "on")
    /\ UNCHANGED <<mode, world, slot, probe>>

Fresh == slot.age < IF slot.up THEN TtlUp ELSE TtlDown

\* Mutant of Cached: a verdict that is used lives on.
CachedSlides ==
    /\ step = "routing" /\ mode = "unset" /\ Fresh
    /\ slot' = [slot EXCEPT !.age = 0]
    /\ Routed(slot.up)
    /\ UNCHANGED <<mode, world, probe>>

\* probe_health_cached with a verdict that still holds.
Cached ==
    /\ step = "routing" /\ mode = "unset" /\ Fresh
    /\ Routed(slot.up)
    /\ UNCHANGED <<mode, world, slot, probe>>

StartProbe ==
    /\ step = "routing" /\ mode = "unset" /\ ~Fresh
    /\ step' = "probing"
    /\ probe' = [NoProbe EXCEPT !.path = 1]
    /\ UNCHANGED <<mode, world, slot, why, query, late, round, picked, reqs, out>>

\* One path of the sweep: a success ends it, a 404 leads to the next path, and
\* everything else (refused, closed, timed out, another status) is the end.
ProbePath ==
    /\ step = "probing"
    /\ \/ service = "up" /\ step' = "probed" /\ probe' = [probe EXCEPT !.ok = TRUE]
       \/ /\ service = "up" /\ probe.path < Paths
          /\ probe' = [probe EXCEPT !.path = @ + 1] /\ UNCHANGED step
       \/ step' = "probed" /\ UNCHANGED probe
    /\ UNCHANGED <<mode, world, slot, why, query, late, round, picked, reqs, out>>

\* The verdict is stored, good or bad, and used.
StoreProbe ==
    /\ step = "probed"
    /\ slot' = [up |-> probe.ok, age |-> 0]
    /\ probe' = NoProbe
    /\ Routed(probe.ok)
    /\ UNCHANGED <<mode, world>>

-----------------------------------------------------------------------------
(* DeciderClient::decide.                                                  *)

\* DeciderRequest::validate: there are questions; each has options, no more
\* than there are ids, and none of them is empty.
Valid(asked) ==
    /\ asked # <<>>
    /\ \A q \in DOMAIN asked :
           /\ Len(asked[q]) \in 1..Len(Ids)
           /\ \A o \in DOMAIN asked[q] : asked[q][o] # ""

InFlight == {i \in DOMAIN reqs : reqs[i].at = "sent"}

SetRequest(i, changed) ==
    /\ reqs' = [reqs EXCEPT ![i] = changed]
    /\ UNCHANGED <<mode, world, routing, step, query, late, round, picked, out>>

\* The screenshot of a request (external: the browser's, else grim's).  Without
\* one the request is made all the same, except that of a verification.
TakePicture(i) ==
    /\ step = "asking" /\ reqs[i].at = "picture"
    /\ \/ SetRequest(i, [reqs[i] EXCEPT !.at = "queued"])
       \/ query.kind \in {"verify", "wait"} /\ SetRequest(i, [reqs[i] EXCEPT !.at = "failed"])

\* An invalid request is refused; the others get a permit in turn.
Acquire(i) ==
    /\ step = "asking" /\ reqs[i].at = "queued"
    /\ \/ ~Valid(reqs[i].asked) /\ SetRequest(i, [reqs[i] EXCEPT !.at = "failed"])
       \/ /\ Valid(reqs[i].asked) /\ Cardinality(InFlight) < Permits
          /\ \A j \in 1..(i - 1) : reqs[j].at # "queued"
          /\ SetRequest(i, [reqs[i] EXCEPT !.at = "sent", !.url = 1])

\* Mutant of CallFails: nothing bounds the wait for a service that is down.
CallFailsIfUp(i) ==
    /\ step = "asking" /\ reqs[i].at = "sent" /\ service = "up"
    /\ SetRequest(i, [reqs[i] EXCEPT !.at = "failed"])

\* A timeout, no connection, another status than success or 404, or a body
\* that is no answer.  The permit is dropped.
CallFails(i) ==
    /\ step = "asking" /\ reqs[i].at = "sent"
    /\ SetRequest(i, [reqs[i] EXCEPT !.at = "failed"])

\* A 404, or an error that is neither a timeout nor a failed connect: the next
\* endpoint is tried, and after the last the request has failed.
TryNextEndpoint(i) ==
    /\ step = "asking" /\ reqs[i].at = "sent" /\ reqs[i].url < Endpoints
    /\ SetRequest(i, [reqs[i] EXCEPT !.url = @ + 1])

\* The replies of the service (external): a decision per question, meant for
\* one option and named by its id or its text or not at all, as a list or as a
\* map by question; decisions may be missing or malformed.  An id comes as it
\* was given out, a text may be a numeral of another form ("02").
Replies(asked) ==
    [shape: {"list", "map"}, form: {"id", "text", "unknown"}, conf: {"high", "low", "none"},
     means: {m \in [DOMAIN asked -> DOMAIN Ids] : \A q \in DOMAIN asked : m[q] <= Len(asked[q])},
     fate: [DOMAIN asked -> {"ok", "malformed", "missing"}]]

\* "" stands for every string that is neither an id nor a text.
Decision(asked, r, q) ==
    [of |-> q, means |-> r.means[q], conf |-> r.conf,
     choice |-> IF r.form = "id" THEN Ids[r.means[q]]
                ELSE IF r.form = "text" THEN asked[q][r.means[q]] ELSE ""]

\* A malformed decision costs a list all of its decisions, a map only that one;
\* a map is read in the order of its keys.
Decode(asked, r) ==
    LET there == {q \in DOMAIN asked : r.fate[q] # "missing"}
        whole == {q \in DOMAIN asked : r.fate[q] = "ok"}
        read == InOrder(IF r.shape = "list" /\ whole # there THEN {} ELSE whole)
    IN [j \in DOMAIN read |-> Decision(asked, r, read[j])]

\* The option a choice stands for: the one whose number it reads as, else the
\* first with that text, else none.
NormalizeChoice(options, choice) ==
    LET byId == {i \in DOMAIN options : choice \in DOMAIN Numeral /\ Numeral[choice] = i}
        byText == {i \in DOMAIN options : options[i] = choice}
        first(S) == CHOOSE i \in S : \A j \in S : i <= j
    IN IF byId # {} THEN first(byId) ELSE IF byText # {} THEN first(byText) ELSE 0

\* normalize_choices: decisions and questions are paired by position.
Normalize(asked, decisions) ==
    [j \in DOMAIN decisions |->
        [decisions[j] EXCEPT
            !.choice = IF j \in DOMAIN asked THEN NormalizeChoice(asked[j], @) ELSE 0]]

ValidDecision(decision) == decision.choice # 0

\* Mutant of ValidResponse: the decisions are not counted.
ValidResponseUncounted(asked, decisions) ==
    /\ decisions # <<>>
    /\ \A j \in DOMAIN decisions : ValidDecision(decisions[j])

\* DeciderResponse::validate.
ValidResponse(asked, decisions) ==
    /\ Len(decisions) = Len(asked)
    /\ \A j \in DOMAIN decisions : ValidDecision(decisions[j])

Reply(i) ==
    /\ step = "asking" /\ reqs[i].at = "sent" /\ service = "up"
    /\ \E r \in Replies(reqs[i].asked) :
           LET said == Normalize(reqs[i].asked, Decode(reqs[i].asked, r))
           IN SetRequest(i, IF ValidResponse(reqs[i].asked, said)
                            THEN [reqs[i] EXCEPT !.at = "answered", !.said = said]
                            ELSE [reqs[i] EXCEPT !.at = "failed"])

-----------------------------------------------------------------------------
(* What the tools make of the answers.                                     *)

Answered == step = "asking" /\ \A i \in DOMAIN reqs : reqs[i].at \in {"failed", "answered"}

\* decide and decider_batch: every request for itself, one that failed with
\* the deterministic answer.
CollectDecisions ==
    /\ Answered /\ query.kind \in {"decide", "batch"}
    /\ Finish(Result("answered", "service", [i \in DOMAIN reqs |-> reqs[i].said], <<>>, 0))
    /\ UNCHANGED <<mode, world, slot, probe>>

First == reqs[1].said[1]

\* confidence_is_low; no confidence is not low.
Low(decision) == decision.conf = "low"

Judge(status) == Result(status, "service", <<reqs[1].said>>, reqs[1].offer, 0)

\* choose: the option with the number of the choice.
CollectChoice ==
    /\ Answered /\ query.kind = "choose"
    /\ \/ reqs[1].at = "failed" /\ Fallback
       \/ reqs[1].at = "answered" /\ Finish([Judge("answered") EXCEPT !.pick = First.choice])
    /\ UNCHANGED <<mode, world, slot, probe>>

\* detect: yes, no or uncertain, however sure the service is.
CollectDetected ==
    /\ Answered /\ query.kind = "detect"
    /\ \/ reqs[1].at = "failed" /\ Fallback
       \/ reqs[1].at = "answered" /\
             Finish([Judge("answered") EXCEPT !.pick = IF First.choice \in {1, 2} THEN First.choice ELSE 3])
    /\ UNCHANGED <<mode, world, slot, probe>>

\* decider_visual_verify_async: the options are yes, no and uncertain.
CollectVerdict ==
    /\ Answered /\ query.kind \in {"verify", "wait"}
    /\ \/ reqs[1].at = "failed" /\ Fallback
       \/ reqs[1].at = "answered" /\
             Finish(Judge(IF Low(First) \/ First.choice \notin {1, 2} THEN "uncertain"
                          ELSE IF First.choice = 1 THEN "success" ELSE "failure"))
    /\ UNCHANGED <<mode, world, slot, probe>>

\* A candidate is found if the service is sure of it; else Gemini is tried.
Settle(pick) ==
    IF Low(First) THEN Fallback
    ELSE Finish([Judge("success") EXCEPT !.pick = pick])

\* decider_select_async with one chunk (map_decider_response).
CollectOnlyChunk ==
    /\ Answered /\ query.kind = "find" /\ ChunkCount(query.cands) = 1
    /\ \/ reqs[1].at = "failed" /\ Fallback
       \/ reqs[1].at = "answered" /\ Settle(reqs[1].offer[First.choice])
    /\ UNCHANGED <<mode, world, slot, probe>>

\* With several: a winner per chunk, then a last question about the winners
\* if they fit into one.
CollectChunk ==
    /\ Answered /\ query.kind = "find"
    /\ ChunkCount(query.cands) > 1 /\ round <= ChunkCount(query.cands)
    /\ \/ reqs[1].at = "failed" /\ Fallback
       \/ /\ reqs[1].at = "answered"
          /\ LET ids == Append(picked, MapChoiceToGlobalId(query.cands, round, First.choice))
                 last == round = ChunkCount(query.cands)
                 next == IF last THEN GroupWinners(ids) ELSE Chunk(query.cands, round + 1)
             IN \/ Len(next) > Budget /\ Fallback
                \/ /\ Len(next) <= Budget
                   /\ picked' = ids /\ round' = round + 1 /\ AskAbout(next)
                   /\ UNCHANGED <<step, why, query, late, out>>
    /\ UNCHANGED <<mode, world, slot, probe>>

\* The last answer counts only if its number is also the id of a winner
\* (winners_cands.get).
CollectWinner ==
    /\ Answered /\ query.kind = "find"
    /\ ChunkCount(query.cands) > 1 /\ round = ChunkCount(query.cands) + 1
    /\ \/ reqs[1].at = "failed" /\ Fallback
       \/ /\ reqs[1].at = "answered"
          /\ IF First.choice \in Range(reqs[1].offer)
             THEN Settle(reqs[1].offer[First.choice])
             ELSE Fallback
    /\ UNCHANGED <<mode, world, slot, probe>>

\* Gemini is not asked without a screenshot (grim) and a key.  With them, the call
\* starts a runtime inside that of the tool and panics, and the process ends:
\* the next tool meets a new one.
Ground ==
    /\ step = "ground"
    /\ \/ Finish(Result("uncertain", "none", <<>>, <<>>, 0)) /\ UNCHANGED slot
       \/ Finish(Result("panicked", "none", <<>>, <<>>, 0)) /\ slot' = NoSlot
    /\ UNCHANGED <<mode, world, probe>>

-----------------------------------------------------------------------------
(* The service and time (external).                                        *)

ServiceChanges ==
    /\ service' = IF service = "up" THEN "down" ELSE "up"
    /\ downFor' = 0
    /\ UNCHANGED <<mode, routing, step, query, late, round, picked, reqs, out>>

Older(age, cap) == IF age < cap THEN age + 1 ELSE age

\* A probe ends within its budget.
Tick ==
    /\ step \in {"probing", "probed"} => probe.age < ProbeTime
    /\ downFor' = IF service = "up" THEN 0 ELSE Older(downFor, TtlUp + ProbeTime + 1)
    /\ slot' = [slot EXCEPT !.age = Older(@, TtlUp)]
    /\ probe' = IF step \in {"probing", "probed"} THEN [probe EXCEPT !.age = @ + 1] ELSE probe
    /\ UNCHANGED <<mode, service, why, step, query, late, round, picked, reqs, out>>

-----------------------------------------------------------------------------
\* The steps that end a look at the page or a screenshot.
LookEnds == PageMiss \/ Ground \/ \E i \in DOMAIN reqs : TakePicture(i)

Proceed ==
    \/ Explicit \/ Cached \/ StartProbe \/ ProbePath \/ StoreProbe
    \/ \E i \in DOMAIN reqs : Acquire(i) \/ CallFails(i) \/ TryNextEndpoint(i) \/ Reply(i)
    \/ CollectDecisions \/ CollectChoice \/ CollectDetected \/ CollectVerdict
    \/ CollectOnlyChunk \/ CollectChunk \/ CollectWinner

DeciderNext ==
    \/ \E t \in Queries : Start(t)
    \/ PageHit \/ TierHit \/ LookEnds \/ Deadline \/ Proceed
    \/ ServiceChanges \/ Tick

\* The process runs and its timers fire: every call to the service has a
\* timeout.  No tool has to be called, no page to show anything, no service to
\* come up, and no look at the page has to end: without a daemon it opens a
\* WebSocket of its own, and the connect has no timeout (connection.rs), nor has
\* the run of grim (screenshot.rs).
Fairness == WF_deciderVars(Proceed) /\ WF_deciderVars(Deadline)

DeciderSpec == DeciderInit /\ [][DeciderNext]_deciderVars /\ Fairness

-----------------------------------------------------------------------------
(* Properties.                                                             *)

\* The questions that request i of the last result asked.
AskedIn(i) == IF query.kind = "find" THEN <<Texts(out.offer)>> ELSE query.asks[i]

\* The option taken is the one that was meant, or one with the same text; only
\* an option whose text reads as a number may be taken for another:
\* normalize_choices looks for numbers first, so that of "02" and "01" the first
\* is taken for the second.
TakenAsMeant(options, decision) ==
    \/ options[decision.choice] = options[decision.means]
    \/ options[decision.means] \in DOMAIN Numeral

WinnersOfChunks == \A j \in DOMAIN picked : picked[j] \in Range(Chunk(query.cands, j))

ResultSaid ==
    out.source = "service" =>
        /\ \A i \in DOMAIN out.said : \A q \in DOMAIN out.said[i] :
               /\ out.said[i][q].of = q
               /\ out.said[i][q].choice \in DOMAIN AskedIn(i)[q]
               /\ TakenAsMeant(AskedIn(i)[q], out.said[i][q])
        /\ query.kind \in {"choose", "detect"} => out.pick = out.said[1][1].choice
        /\ out.status = "success" => out.said[1][1].conf # "low"
        /\ out.status = "success" /\ query.kind # "find" => out.said[1][1].means = 1
        /\ out.status = "success" /\ query.kind = "find" =>
               /\ out.pick = out.offer[out.said[1][1].choice]
               /\ out.pick \in Range(query.cands)

\* What a tool attributes to the service the service has said: decision by
\* decision, though decisions may be missing or malformed or name their option
\* by text; the option for choose and detect; a sure yes for a verification;
\* and for a find the very candidate the service chose, one of its candidates,
\* and the winner kept for a chunk is one of that chunk.
SaidByService == WinnersOfChunks /\ ResultSaid

\* No tool is routed to a service that has been gone for longer than a good
\* verdict lives and a probe takes: a cached verdict is not kept alive by
\* being used.  (DECIDER_ENABLED=1 overrides this; the screenshot a routed tool
\* then takes may delay its request.)
NoticedInTime ==
    [][(step # "asking" /\ step' = "asking" /\ mode = "unset") => downFor < TtlUp + ProbeTime]_deciderVars

\* A look at the page or a screenshot that is still under way; wait_until looks
\* again and again until its timeout, and then this look is its last.
Looking ==
    \/ step = "page" /\ (query.kind = "wait" => late)
    \/ step = "ground"
    \/ \E i \in DOMAIN reqs : reqs[i].at = "picture"

\* Every tool ends, whatever the service does and whatever the page shows: with
\* a result, or, for a find that reaches Gemini, with the process; the one thing
\* that can keep it for good is a look or a screenshot that never ends.
EveryPerceptionEnds == (step # "idle") ~> (step = "idle" \/ []Looking)

=============================================================================
