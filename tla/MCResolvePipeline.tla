------------------------- MODULE MCResolvePipeline -------------------------
(***************************************************************************)
(* Small instances of ResolvePipeline: one client with up to two queries   *)
(* in flight, windows of two units that are full after two or three events.*)
(***************************************************************************)
EXTENDS ResolvePipeline, TLC

CONSTANTS w1, w2, client

MCWorkers == {w1, w2}
MCSymmetry == Permutations(MCWorkers)
MCClients == {client}
MCBases == {"base"}
MCLabels == {"x", "y"}

MCPolicy ==
  [enabled |-> TRUE, rejectPlatforms |-> TRUE, blockRebinding |-> TRUE,
   queryWindow |-> 2, queryThreshold |-> 3,
   subdomainWindow |-> 2, subdomainThreshold |-> 2,
   nxWindow |-> 2, nxThreshold |-> 2,
   abnormalAction |-> "log_only", amplifyAction |-> "rate_limit"]

\* The windows of queries and subdomains switched off, as a negative
\* threshold does, for the runs about NXDOMAIN results.
MCOnlyNXDomain ==
  [MCPolicy EXCEPT !.queryThreshold = -1, !.subdomainThreshold = -1]

Query(lists, label, shape, routed) ==
  [client |-> client, lists |-> lists, base |-> "base", label |-> label,
   shape |-> shape, routed |-> routed]

Plain == Query({}, None, "plain", TRUE)
Public == Query({}, None, "plain", FALSE)
Suspicious == Query({}, None, "tunnel", TRUE)

\* One query for every way through the analyzer: refused at once, limited by a
\* window or by a rule, passed with or without a delivery to the honeypot.
MCQueries ==
  {Query({"deny"}, None, "plain", TRUE), Query({}, "x", "plain", FALSE),
   Query({}, "y", "abnormal", TRUE), Suspicious}

MCRoutedOrNot == {Plain, Public, Suspicious}
MCPublic == {Public}

=============================================================================
