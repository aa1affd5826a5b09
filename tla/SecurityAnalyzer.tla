-------------------------- MODULE SecurityAnalyzer --------------------------
(***************************************************************************)
(* The DNS security analyzer, internal/security/analyzer.go: the rules a   *)
(* query and an answer are held against, and the sliding windows that      *)
(* count a client's queries, its distinct subdomains of one base domain    *)
(* and its NXDOMAIN answers.                                               *)
(*                                                                         *)
(* A window holds ages instead of timestamps: ages[a] is how many events   *)
(* lie a units back, and an event as old as the window has dropped out,    *)
(* which is what trackWindowCount's "seen.After(cutoff)" says.  Counts     *)
(* stop at the threshold: more of them cannot change any comparison.       *)
(*                                                                         *)
(* What the rules read of a query is a record:                             *)
(*   client  the client's address                                          *)
(*   lists   which of the domain lists match its name                      *)
(*   base, label   the base domain and the rest of a name of three labels  *)
(*                 or more; label = None for a shorter one                 *)
(*   shape   the first of the lexical rules that matches: "tunnel", "dga", *)
(*           "abnormal", "amplify", or "plain" when none does              *)
(***************************************************************************)
EXTENDS Integers, Sequences, FiniteSets

CONSTANTS
  Clients,
  Bases,       \* base domains
  Labels,      \* what may stand in front of a base domain
  Policy,      \* the configured security.Policy
  None

ASSUME PolicyAssumption ==
  /\ Policy.enabled \in BOOLEAN
  /\ Policy.rejectPlatforms \in BOOLEAN
  /\ Policy.blockRebinding \in BOOLEAN
  /\ \A n \in {"queryWindow", "queryThreshold", "subdomainWindow",
               "subdomainThreshold", "nxWindow", "nxThreshold"} :
       Policy[n] \in Int

VARIABLES
  queryAges,     \* queryAges[c]: clientQueries
  subdomainAge,  \* subdomainAge[c][b][l]: age of the last query, or the window
  nxAges         \* nxAges[c]: clientNXDomains

windows == <<queryAges, subdomainAge, nxAges>>

-----------------------------------------------------------------------------
Actions == {"allow", "log_only", "block", "sinkhole", "rate_limit",
            "forward_to_honeypot", "tag_and_continue"}

Score == [none |-> 1, low |-> 2, medium |-> 3, high |-> 4, critical |-> 5]

Finding(rule, risk, action) == [rule |-> rule, risk |-> risk, action |-> action]

DefaultAllow == Finding("default-allow", "none", "allow")
Disabled     == Finding("security-disabled", "none", "allow")
QueryRate    == Finding("query-rate-limit", "medium", "rate_limit")
Subdomains   == Finding("random-subdomain-rate-limit", "high", "rate_limit")
NXFlood      == Finding("nxdomain-flood", "high", "rate_limit")
Rebinding    == Finding("dns-rebinding-private-address", "high", "block")
Tunnel       == Finding("dns-tunnel-high-entropy", "high", "forward_to_honeypot")

-----------------------------------------------------------------------------
(* Windows.                                                                *)

Tracked(threshold, window) == threshold > 0 /\ window > 0

Ages(window) == 0..window - 1

Empty(window) == [a \in Ages(window) |-> 0]

Least(m, n) == IF m < n THEN m ELSE n

\* The count includes the event itself.
Seen(ages, threshold) == [ages EXCEPT ![0] = Least(@ + 1, threshold)]

\* A cutoff one unit too late: an event is forgotten before its window ends.
OlderTooSoon(ages) ==
  [a \in DOMAIN ages |->
     IF a = 0 \/ a + 1 \notin DOMAIN ages THEN 0 ELSE ages[a - 1]]

\* Everything one unit older; what reaches the window's length is forgotten.
Older(ages) == [a \in DOMAIN ages |-> IF a = 0 THEN 0 ELSE ages[a - 1]]

\* The events in a window, each with its age and a number of its own.
Within(ages) == UNION {{a} \X (1..ages[a]) : a \in DOMAIN ages}

Total(ages) == Cardinality(Within(ages))

\* A threshold that is exceeded instead of reached.
OverBeyond(ages, threshold) == Total(ages) > threshold

Over(ages, threshold) == Total(ages) >= threshold

\* trackRandomSubdomain counts the distinct labels seen within the window.
Distinct(age) == Cardinality({l \in DOMAIN age : age[l] < Policy.subdomainWindow})

TracksQueries    == Tracked(Policy.queryThreshold, Policy.queryWindow)
TracksSubdomains == Tracked(Policy.subdomainThreshold, Policy.subdomainWindow)
TracksNXDomain   == Tracked(Policy.nxThreshold, Policy.nxWindow)

WindowsInit ==
  /\ queryAges = [c \in Clients |-> Empty(Policy.queryWindow)]
  /\ subdomainAge =
       [c \in Clients |-> [b \in Bases |-> [l \in Labels |-> Policy.subdomainWindow]]]
  /\ nxAges = [c \in Clients |-> Empty(Policy.nxWindow)]

\* NewAnalyzerWithPolicy, when a reload replaces the analyzer.
WindowsReset ==
  /\ queryAges' = [c \in Clients |-> Empty(Policy.queryWindow)]
  /\ subdomainAge' =
       [c \in Clients |-> [b \in Bases |-> [l \in Labels |-> Policy.subdomainWindow]]]
  /\ nxAges' = [c \in Clients |-> Empty(Policy.nxWindow)]

\* One unit of time passes.
WindowsAge ==
  /\ queryAges' = [c \in Clients |-> Older(queryAges[c])]
  /\ subdomainAge' =
       [c \in Clients |-> [b \in Bases |-> [l \in Labels |->
          Least(subdomainAge[c][b][l] + 1, Policy.subdomainWindow)]]]
  /\ nxAges' = [c \in Clients |-> Older(nxAges[c])]

-----------------------------------------------------------------------------
(* AnalyzeQuery: the first rule that applies decides.  The lists come first  *)
(* and leave the windows alone, then the windows, then the shape.            *)

Rule(applies, finding) == [applies |-> applies, finding |-> finding]

FirstOf(rules) ==
  rules[CHOOSE i \in DOMAIN rules :
          rules[i].applies /\ \A j \in 1..i - 1 : ~rules[j].applies].finding

ListRules(q) ==
  <<Rule(~Policy.enabled, Disabled),
    Rule("allow" \in q.lists, Finding("allowlist-domain", "none", "allow")),
    Rule("platform" \in q.lists /\ Policy.rejectPlatforms,
         Finding("external-dnslog-platform", "high", "block")),
    Rule("deny" \in q.lists, Finding("denylist-domain", "critical", "block")),
    Rule("sinkhole" \in q.lists, Finding("sinkhole-domain", "high", "sinkhole"))>>

Listed(q) == \E i \in DOMAIN ListRules(q) : ListRules(q)[i].applies

QueriesWith(q) == Seen(queryAges[q.client], Policy.queryThreshold)

\* trackQueryRate and trackRandomSubdomain, the query itself included.
TooManyQueries(q) ==
  TracksQueries /\ Over(QueriesWith(q), Policy.queryThreshold)

LabelsWith(q) == [subdomainAge[q.client][q.base] EXCEPT ![q.label] = 0]

TooManySubdomains(q) ==
  /\ TracksSubdomains
  /\ q.label # None
  /\ Distinct(LabelsWith(q)) >= Policy.subdomainThreshold

ShapeRules(q) ==
  <<Rule(q.shape = "tunnel", Tunnel),
    Rule(q.shape = "dga", Finding("dga-high-entropy", "high", "block")),
    Rule(q.shape = "abnormal",
         Finding("abnormal-rr-query", "medium", Policy.abnormalAction)),
    Rule(q.shape = "amplify",
         Finding("reflection-amplification-rr", "medium", Policy.amplifyAction)),
    Rule(TRUE, DefaultAllow)>>

QueryFinding(q) ==
  FirstOf(ListRules(q) \o <<Rule(TooManyQueries(q), QueryRate),
                            Rule(TooManySubdomains(q), Subdomains)>> \o ShapeRules(q))

\* What AnalyzeQuery does to the windows: a query over the rate is counted,
\* but its subdomain is not.
AnalyzeQuery(q) ==
  /\ queryAges' = IF Listed(q) \/ ~TracksQueries THEN queryAges
                  ELSE [queryAges EXCEPT ![q.client] = QueriesWith(q)]
  /\ subdomainAge' =
       IF Listed(q) \/ TooManyQueries(q) \/ ~TracksSubdomains \/ q.label = None
         THEN subdomainAge
         ELSE [subdomainAge EXCEPT ![q.client][q.base] = LabelsWith(q)]
  /\ UNCHANGED nxAges

-----------------------------------------------------------------------------
(* AnalyzeResponse: result.rcode, and result.private when an answer holds a  *)
(* private or local address.  It does not look at the domain lists.          *)

NXDomainsWith(c) == Seen(nxAges[c], Policy.nxThreshold)

CountsNXDomain(result) ==
  Policy.enabled /\ result.rcode = "NXDOMAIN" /\ TracksNXDomain

ResponseFinding(c, result) ==
  FirstOf(<<Rule(~Policy.enabled, Disabled),
            Rule(CountsNXDomain(result) /\ Over(NXDomainsWith(c), Policy.nxThreshold),
                 NXFlood),
            Rule(Policy.blockRebinding /\ result.private, Rebinding),
            Rule(TRUE, DefaultAllow)>>)

AnalyzeResponse(c, result) ==
  /\ nxAges' = IF CountsNXDomain(result)
               THEN [nxAges EXCEPT ![c] = NXDomainsWith(c)] ELSE nxAges
  /\ UNCHANGED <<queryAges, subdomainAge>>

=============================================================================
