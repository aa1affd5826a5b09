-------------------------- MODULE ResolvePipeline ---------------------------
(***************************************************************************)
(* One DNS query on its way through anyNS: the recursor's Lua hook posts   *)
(* it to the plugin runtime, whose handler for /api/v1/resolve asks the    *)
(* analyzer, resolves the name unless the query is refused at once, asks   *)
(* the analyzer about the answer, logs one event, hands a suspicious query *)
(* to the honeypot and replies; the hook applies the reply or leaves the   *)
(* query to ICANN recursion.                                               *)
(*                                                                         *)
(* Several queries are in flight at a time, each with a handler goroutine. *)
(* The hook waits HookTimeout for the reply, then it leaves the query to   *)
(* ICANN recursion while the handler goes on.                              *)
(*                                                                         *)
(* A query is what SecurityAnalyzer reads of it, and routed: whether one   *)
(* of the runtime's routes takes the name.                                 *)
(***************************************************************************)
EXTENDS SecurityAnalyzer

CONSTANTS
  Workers,
  Queries,
  HookTimeout,      \* ANYNS_RUNTIME_TIMEOUT_SECONDS of the Lua hook
  RequestTimeout,   \* request_timeout of the runtime
  HoneypotTimeout   \* the limit deliverIfNeeded sets

ASSUME TimeoutAssumption ==
  /\ HookTimeout \in Nat \ {0}
  /\ RequestTimeout \in Nat \ {0}
  /\ HoneypotTimeout \in Nat \ {0}

ASSUME QueriesAssumption ==
  /\ None \notin Queries
  /\ \A q \in Queries :
       /\ q.client \in Clients /\ q.base \in Bases /\ q.label \in Labels \cup {None}
       /\ q.routed \in BOOLEAN

VARIABLES
  pc,         \* pc[w]: where handler w is
  query,      \* query[w]: the query it serves
  pre,        \* pre[w]: what AnalyzeQuery found
  verdict,    \* verdict[w]: the finding it acts on
  reply,      \* reply[w]: the body and status it replies with
  events,     \* events[w]: the events it appended to the DNS log
  held,       \* held[w]: time spent in the step it is at
  dns,        \* dns[w]: what the DNS client of its query sees
  waited,     \* waited[w]: how long the hook has been waiting
  \* History: ages of what came through since the analyzer was created.
  admitted,   \* admitted[c]: queries the rate limit let through
  missing     \* missing[c]: NXDOMAIN results passed on, of queries not rated high

handlerVars == <<pc, query, pre, verdict, reply, events, held>>
hookVars    == <<dns, waited>>
historyVars == <<admitted, missing>>
vars == <<windows, handlerVars, hookVars, historyVars>>

-----------------------------------------------------------------------------
Result(rcode, private) == [rcode |-> rcode, private |-> private]

\* What Registry.Resolve may return.  Without a route it is the router's own
\* NXDOMAIN; a remote backend may also send a code the hook does not know.
Results(q) ==
  IF q.routed
    THEN {Result("NOERROR", FALSE), Result("NOERROR", TRUE), Result("NXDOMAIN", FALSE),
          Result("SERVFAIL", FALSE), Result("OTHER", FALSE)}
    ELSE {Result("NXDOMAIN", FALSE)}

\* The finding on the query standing whatever the answer holds.
QueryFindingStands(left, right) == left

\* strongest: at equal risk the finding on the query stands.
Strongest(left, right) ==
  IF Score[right.risk] > Score[left.risk] THEN right ELSE left

Reply(status, result) == [status |-> status, result |-> result]

\* blockedResult, with the status of its action.
Refusal(action) ==
  Reply(IF action = "block" THEN 403 ELSE 429, Result("SERVFAIL", FALSE))

Refuses(finding) == finding.action \in {"block", "rate_limit"}

\* makeEvent.
Event(finding, result) == [action |-> finding.action, rcode |-> result.rcode]

\* apply_runtime_result of the hook: it leaves a code it does not know to
\* ICANN recursion.
ByRcode(result) ==
  CASE result.rcode = "NOERROR"  -> IF result.private THEN "private" ELSE "answer"
    [] result.rcode = "NXDOMAIN" -> "nxdomain"
    [] result.rcode = "SERVFAIL" -> "servfail"
    [] result.rcode = "OTHER"    -> "icann"

\* A hook that applies successful replies only.
AppliedOnSuccess(r) == IF r.status = 200 THEN ByRcode(r.result) ELSE "icann"

\* A hook that takes every reply for the runtime's answer.
AppliedAlways(r) == ByRcode(r.result)

Applied(r) == IF r.status \in {200, 403, 429} THEN ByRcode(r.result) ELSE "icann"

Count(ages, threshold) == IF 0 \in DOMAIN ages THEN Seen(ages, threshold) ELSE ages

-----------------------------------------------------------------------------
Init ==
  /\ WindowsInit
  /\ pc = [w \in Workers |-> "idle"]
  /\ query = [w \in Workers |-> None]
  /\ pre = [w \in Workers |-> None]
  /\ verdict = [w \in Workers |-> None]
  /\ reply = [w \in Workers |-> None]
  /\ events = [w \in Workers |-> <<>>]
  /\ held = [w \in Workers |-> 0]
  /\ dns = [w \in Workers |-> "none"]
  /\ waited = [w \in Workers |-> 0]
  /\ admitted = [c \in Clients |-> Empty(Policy.queryWindow)]
  /\ missing = [c \in Clients |-> Empty(Policy.nxWindow)]

\* A handler that logs what it found first, and one that lacks a return.
ConcludeLoggingFirst(w, finding, r, next) ==
  /\ verdict' = [verdict EXCEPT ![w] = finding]
  /\ reply' = [reply EXCEPT ![w] = r]
  /\ events' = [events EXCEPT ![w] =
                  Append(@, Event(IF pre[w] = None THEN finding ELSE pre[w], r.result))]
  /\ pc' = [pc EXCEPT ![w] = next]
  /\ held' = [held EXCEPT ![w] = 0]

\* Every path of the handler: decide the reply, append one event.
Conclude(w, finding, r, next) ==
  /\ verdict' = [verdict EXCEPT ![w] = finding]
  /\ reply' = [reply EXCEPT ![w] = r]
  /\ events' = [events EXCEPT ![w] = Append(@, Event(finding, r.result))]
  /\ pc' = [pc EXCEPT ![w] = next]
  /\ held' = [held EXCEPT ![w] = 0]

Arrive(w, q) ==
  /\ pc[w] = "idle"
  /\ query' = [query EXCEPT ![w] = q]
  /\ pre' = [pre EXCEPT ![w] = QueryFinding(q)]
  /\ dns' = [dns EXCEPT ![w] = "waiting"]
  /\ AnalyzeQuery(q)
  /\ admitted' = IF QueryFinding(q) = QueryRate \/ Listed(q) THEN admitted
                 ELSE [admitted EXCEPT ![q.client] = Count(@, Policy.queryThreshold)]
  /\ UNCHANGED <<waited, missing>>

\* Blocked, limited or sinkholed before anything is resolved.  The sinkhole
\* answers with the configured public address.
Refuse(w, q) ==
  LET finding == QueryFinding(q)
  IN  /\ Arrive(w, q)
      /\ Refuses(finding) \/ finding.action = "sinkhole"
      /\ Conclude(w, finding,
                  IF finding.action = "sinkhole"
                    THEN Reply(200, Result("NOERROR", FALSE))
                    ELSE Refusal(finding.action),
                  "reply")

Admit(w, q) ==
  /\ Arrive(w, q)
  /\ ~Refuses(QueryFinding(q)) /\ QueryFinding(q).action # "sinkhole"
  /\ pc' = [pc EXCEPT ![w] = "resolve"]
  /\ UNCHANGED <<verdict, reply, events, held>>

\* Registry.Resolve returns, the answer is analyzed, the event is logged.
Resolve(w) ==
  /\ pc[w] = "resolve"
  /\ \E result \in Results(query[w]) :
       LET c       == query[w].client
           finding == Strongest(pre[w], ResponseFinding(c, result))
       IN  /\ AnalyzeResponse(c, result)
           /\ Conclude(w, finding,
                       IF Refuses(finding) THEN Refusal(finding.action)
                       ELSE Reply(IF query[w].routed THEN 200 ELSE 404, result),
                       IF finding.action = "forward_to_honeypot" THEN "deliver"
                                                                 ELSE "reply")
           /\ missing' = IF \/ ~CountsNXDomain(result) \/ Refuses(finding)
                            \/ Score[pre[w].risk] >= Score[NXFlood.risk] THEN missing
                         ELSE [missing EXCEPT ![c] = Count(@, Policy.nxThreshold)]
  /\ UNCHANGED <<query, pre, hookVars, admitted>>

\* deliverIfNeeded returns, delivered or queued; the handler waits for it.
Deliver(w) ==
  /\ pc[w] = "deliver"
  /\ pc' = [pc EXCEPT ![w] = "reply"]
  /\ held' = [held EXCEPT ![w] = 0]
  /\ UNCHANGED <<windows, query, pre, verdict, reply, events, hookVars, historyVars>>

\* The reply reaches the hook if that still waits for it.
WriteReply(w) ==
  /\ pc[w] = "reply"
  /\ pc' = [pc EXCEPT ![w] = "replied"]
  /\ dns' = [dns EXCEPT ![w] = IF @ = "waiting" THEN Applied(reply[w]) ELSE @]
  /\ waited' = [waited EXCEPT ![w] = 0]
  /\ UNCHANGED <<windows, query, pre, verdict, reply, events, held, historyVars>>

\* The hook's HTTP request timed out.
GiveUp(w) ==
  /\ dns[w] = "waiting"
  /\ waited[w] = HookTimeout
  /\ dns' = [dns EXCEPT ![w] = "gaveup"]
  /\ waited' = [waited EXCEPT ![w] = 0]
  /\ UNCHANGED <<windows, handlerVars, historyVars>>

Finish(w) ==
  /\ pc[w] = "replied"
  /\ pc' = [pc EXCEPT ![w] = "idle"]
  /\ query' = [query EXCEPT ![w] = None]
  /\ pre' = [pre EXCEPT ![w] = None]
  /\ verdict' = [verdict EXCEPT ![w] = None]
  /\ reply' = [reply EXCEPT ![w] = None]
  /\ events' = [events EXCEPT ![w] = <<>>]
  /\ dns' = [dns EXCEPT ![w] = "none"]
  /\ UNCHANGED <<windows, held, waited, historyVars>>

\* POST /api/v1/policies/reload replaces the analyzer, windows and all.
Reload ==
  /\ WindowsReset
  /\ admitted' = [c \in Clients |-> Empty(Policy.queryWindow)]
  /\ missing' = [c \in Clients |-> Empty(Policy.nxWindow)]
  /\ UNCHANGED <<handlerVars, hookVars>>

\* How long a handler may stay in a step; 0 where it does not wait at all.
Limit(w) ==
  CASE pc[w] = "resolve" /\ query[w].routed -> RequestTimeout
    [] pc[w] = "deliver" -> HoneypotTimeout
    [] OTHER -> 0

Waits(w) == pc[w] \in {"idle", "replied"} \/ held[w] < Limit(w)

\* The history ages on its own terms: what is older than a window is gone.
Elapse(ages) == [a \in DOMAIN ages |-> IF a = 0 THEN 0 ELSE ages[a - 1]]

Tick ==
  /\ \A w \in Workers : Waits(w) /\ (dns[w] = "waiting" => waited[w] < HookTimeout)
  /\ WindowsAge
  /\ held' = [w \in Workers |-> IF pc[w] \in {"resolve", "deliver"}
                                  THEN held[w] + 1 ELSE held[w]]
  /\ waited' = [w \in Workers |-> IF dns[w] = "waiting" THEN waited[w] + 1 ELSE waited[w]]
  /\ admitted' = [c \in Clients |-> Elapse(admitted[c])]
  /\ missing' = [c \in Clients |-> Elapse(missing[c])]
  /\ UNCHANGED <<pc, query, pre, verdict, reply, events, dns>>

Serve(w) ==
  \/ \E q \in Queries : Refuse(w, q) \/ Admit(w, q)
  \/ Resolve(w)
  \/ Deliver(w)
  \/ WriteReply(w)
  \/ GiveUp(w)
  \/ Finish(w)

Next ==
  \/ \E w \in Workers : Serve(w)
  \/ Reload
  \/ Tick

Spec == Init /\ [][Next]_vars

-----------------------------------------------------------------------------
RuleNames == {"default-allow", "security-disabled", "allowlist-domain", "external-dnslog-platform",
              "denylist-domain", "sinkhole-domain", "query-rate-limit",
              "random-subdomain-rate-limit", "nxdomain-flood", "dns-rebinding-private-address",
              "dns-tunnel-high-entropy", "dga-high-entropy", "abnormal-rr-query",
              "reflection-amplification-rr"}

Findings == [rule : RuleNames, risk : DOMAIN Score,
             action : Actions \cup {Policy.abnormalAction, Policy.amplifyAction}]
Statuses == {200, 403, 404, 429}
Rcodes   == {"NOERROR", "NXDOMAIN", "SERVFAIL", "OTHER"}

\* Every state component has its type; in particular a handler appends at
\* most one event for its query and stays within its time limits.
TypeOK ==
  /\ queryAges \in [Clients -> [Ages(Policy.queryWindow) -> Nat]]
  /\ subdomainAge \in
       [Clients -> [Bases -> [Labels -> {Policy.subdomainWindow} \cup 0..Policy.subdomainWindow]]]
  /\ nxAges \in [Clients -> [Ages(Policy.nxWindow) -> Nat]]
  /\ pc \in [Workers -> {"idle", "resolve", "deliver", "reply", "replied"}]
  /\ query \in [Workers -> Queries \cup {None}]
  /\ dns \in [Workers -> {"none", "waiting", "gaveup", "icann", "answer", "private",
                          "nxdomain", "servfail"}]
  /\ \A w \in Workers :
       /\ pre[w] = None \/ pre[w] \in Findings
       /\ verdict[w] = None \/ verdict[w] \in Findings
       /\ reply[w] = None \/ reply[w].status \in Statuses
       /\ Len(events[w]) <= 1
       /\ held[w] \in 0..Limit(w)
       /\ waited[w] \in 0..HookTimeout

\* What the DNS log says of a query is what was done: the one event of a
\* query that has a reply carries the action and the code of that reply, even
\* if the hook was gone before it was written.
AuditMatchesReply ==
  \A w \in Workers : pc[w] \in {"deliver", "reply", "replied"} =>
    /\ Len(events[w]) = 1
    /\ events[w][1].rcode = reply[w].result.rcode
    /\ events[w][1].action = "block" <=> reply[w].status = 403
    /\ events[w][1].action = "rate_limit" <=> reply[w].status = 429

\* In no window does a client get more queries past the rate limit than one
\* below the threshold, however they are spread over the handlers and time.
QueryRateBound ==
  TracksQueries => \A c \in Clients : Total(admitted[c]) < Policy.queryThreshold

\* The same for NXDOMAIN results, except those of queries that were rated high
\* themselves: at equal risk the first finding stands and the flood rule loses.
NXDomainBound ==
  TracksNXDomain => \A c \in Clients : Total(missing[c]) < Policy.nxThreshold

\* A name the lists refuse is never resolved, by a plugin or by ICANN: its
\* client sees SERVFAIL, or the sinkhole's answer if it is only sinkholed.
RefusedNamesStayRefused ==
  \A w \in Workers :
    (Policy.enabled /\ dns[w] # "none" /\ Listed(query[w])
       /\ "allow" \notin query[w].lists) =>
      dns[w] \in {"waiting", "servfail"} \cup
                 (IF "deny" \in query[w].lists THEN {} ELSE {"answer"})

\* A private address reaches a client only when its query had been rated high
\* for a rule of its own: only then can the rebinding rule lose the tie.
RebindingShield ==
  \A w \in Workers :
    (Policy.enabled /\ Policy.blockRebinding /\ dns[w] = "private") => pre[w].risk = "high"

\* While the hook waits, a name goes where it belongs: one a route takes is
\* left to ICANN recursion only if its backend sent a response code the hook
\* does not know, and one no route takes stays with the runtime only if a rule
\* refused it or answered for it.
RightResolver ==
  \A w \in Workers :
    /\ dns[w] = "icann" => ~query[w].routed \/ reply[w].result.rcode = "OTHER"
    /\ dns[w] \in {"answer", "private", "nxdomain", "servfail"} =>
         query[w].routed \/ Refuses(verdict[w]) \/ verdict[w].action = "sinkhole"

-----------------------------------------------------------------------------
(* What the documents say beyond that and the code does not do, for        *)
(* MCPipelineTimeout.cfg and MCPipelineICANN.cfg.                          *)

\* A name one of the routes takes is never left to ICANN recursion, unless its
\* backend sent a response code the hook does not know.
RoutedNeverFallsBack ==
  \A w \in Workers :
    (dns[w] \in {"icann", "gaveup"} /\ query[w].routed) =>
      reply[w] # None /\ reply[w].result.rcode = "OTHER"

\* A name no route takes and no rule on queries objects to is left to ICANN
\* recursion.
UnroutedGoesToICANN ==
  \A w \in Workers :
    (dns[w] # "none" /\ ~query[w].routed /\ pre[w] = DefaultAllow) =>
      dns[w] \in {"waiting", "icann", "gaveup"}

=============================================================================
