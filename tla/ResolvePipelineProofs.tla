----------------------- MODULE ResolvePipelineProofs -----------------------
(***************************************************************************)
(* Theorems about ResolvePipeline, for any number of handlers, clients and *)
(* queries, any policy, and any time limits.  The invariant says of each   *)
(* handler what its locals and the hook that waits for it may be at each   *)
(* of its steps; it rests on which findings the rules of the analyzer can  *)
(* come to, and on a count of the windows that covers what was let         *)
(* through.                                                                *)
(***************************************************************************)
EXTENDS ResolvePipeline, FiniteSetTheorems, SequenceTheorems, TLAPS

Acts  == Actions \cup {Policy.abnormalAction, Policy.amplifyAction}
Rules == [applies : BOOLEAN, finding : Findings]

-----------------------------------------------------------------------------
(* What the analyzer can find.                                             *)

\* A finding of a rule in a list of at most twelve, of which the last applies,
\* is that of the first that applies.
LEMMA FirstApplies ==
  ASSUME NEW rules \in Seq(Rules), NEW n \in 1 .. 12, Len(rules) = n, rules[n].applies
  PROVE  \E i \in 1 .. n : /\ rules[i].applies /\ \A j \in 1 .. i - 1 : ~rules[j].applies
                           /\ FirstOf(rules) = rules[i].finding
<1> DEFINE First(i) == rules[i].applies /\ \A j \in 1 .. i - 1 : ~rules[j].applies
           A(i) == i \in 1 .. n /\ rules[i].applies
           B(k) == \A j \in 1 .. k : ~A(j)
<1>1. \E i \in 1 .. n : First(i)
  <2> SUFFICES ASSUME \A i \in 1 .. n : ~First(i)
               PROVE  FALSE
    OBVIOUS
  <2>1. \A i \in Nat : A(i) => \E j \in 1 .. i - 1 : A(j)
    OBVIOUS
  <2> HIDE DEF A
  <2>2. \A k \in Nat : B(k) => B(k + 1)
    BY <2>1
  <2>3. B(0)
    OBVIOUS
  <2> HIDE DEF B
  <2>4. B(0 + 1) /\ B(1 + 1) /\ B(2 + 1) /\ B(3 + 1)
    BY <2>2, <2>3
  <2>5. B(4 + 1) /\ B(5 + 1) /\ B(6 + 1) /\ B(7 + 1)
    BY <2>2, <2>4
  <2>6. B(8 + 1) /\ B(9 + 1) /\ B(10 + 1) /\ B(11 + 1)
    BY <2>2, <2>5
  <2>9. A(n)
    BY DEF A
  <2>7. \A j \in 1 .. 12 : ~A(j)
    BY <2>6 DEF B
  <2> QED
    BY <2>7, <2>9
<1>2. DOMAIN rules = 1 .. n
  OBVIOUS
<1> DEFINE k == CHOOSE i \in DOMAIN rules : First(i)
<1>3. k \in 1 .. n /\ First(k)
  BY <1>1, <1>2
<1> QED
  BY <1>3 DEF FirstOf

LEMMA FindingTypes ==
  /\ {DefaultAllow, Disabled, QueryRate, Subdomains, NXFlood, Rebinding, Tunnel} \subseteq Findings
  /\ \A rule \in RuleNames, risk \in {"none", "low", "medium", "high", "critical"},
        action \in {"allow", "log_only", "block", "sinkhole", "rate_limit", "forward_to_honeypot"}
                   \cup {Policy.abnormalAction, Policy.amplifyAction} :
        Finding(rule, risk, action) \in Findings
<1>1. DOMAIN Score = {"none", "low", "medium", "high", "critical"}
  BY DEF Score
<1>2. \A rule \in RuleNames, risk \in DOMAIN Score, action \in Acts : Finding(rule, risk, action) \in Findings
  BY DEF Finding, Findings, Acts
<1>3. {"allow", "log_only", "block", "sinkhole", "rate_limit", "forward_to_honeypot"} \subseteq Acts
  BY DEF Acts, Actions
<1>4. \A rule \in RuleNames, action \in {"allow", "log_only", "block", "sinkhole", "rate_limit", "forward_to_honeypot"},
         risk \in {"none", "low", "medium", "high", "critical"} : Finding(rule, risk, action) \in Findings
  BY <1>1, <1>2, <1>3
<1>5. \A rule \in RuleNames, action \in {Policy.abnormalAction, Policy.amplifyAction},
         risk \in {"none", "low", "medium", "high", "critical"} : Finding(rule, risk, action) \in Findings
  BY <1>1, <1>2 DEF Acts
<1> HIDE DEF Finding
<1>6. DefaultAllow \in Findings /\ Disabled \in Findings
  BY <1>4 DEF RuleNames, DefaultAllow, Disabled
<1>7. QueryRate \in Findings /\ Subdomains \in Findings
  BY <1>4 DEF RuleNames, QueryRate, Subdomains
<1>8. NXFlood \in Findings /\ Rebinding \in Findings /\ Tunnel \in Findings
  BY <1>4 DEF RuleNames, NXFlood, Rebinding, Tunnel
<1> QED
  BY <1>4, <1>5, <1>6, <1>7, <1>8

\* The rules on a query in their order.
AllRules(q) ==
  ListRules(q) \o <<Rule(TooManyQueries(q), QueryRate),
                    Rule(TooManySubdomains(q), Subdomains)>> \o ShapeRules(q)

LEMMA RuleTypes ==
  ASSUME NEW applies \in BOOLEAN, NEW finding \in Findings
  PROVE  /\ Rule(applies, finding) \in Rules
         /\ Rule(applies, finding).applies = applies /\ Rule(applies, finding).finding = finding
  BY DEF Rule, Rules

LEMMA ListRuleFacts ==
  ASSUME NEW q
  PROVE  /\ ListRules(q) \in Seq(Rules) /\ Len(ListRules(q)) = 5
         /\ ListRules(q)[1].finding = Disabled
         /\ ListRules(q)[2].finding = Finding("allowlist-domain", "none", "allow")
         /\ ListRules(q)[3].finding = Finding("external-dnslog-platform", "high", "block")
         /\ ListRules(q)[4].finding = Finding("denylist-domain", "critical", "block")
         /\ ListRules(q)[5].finding = Finding("sinkhole-domain", "high", "sinkhole")
         /\ ListRules(q)[1].applies <=> ~Policy.enabled
         /\ ListRules(q)[2].applies <=> "allow" \in q.lists
         /\ ListRules(q)[4].applies <=> "deny" \in q.lists
<1> DEFINE F1 == Disabled
           F2 == Finding("allowlist-domain", "none", "allow")
           F3 == Finding("external-dnslog-platform", "high", "block")
           F4 == Finding("denylist-domain", "critical", "block")
           F5 == Finding("sinkhole-domain", "high", "sinkhole")
           A1 == ~Policy.enabled
           A2 == "allow" \in q.lists
           A3 == "platform" \in q.lists /\ Policy.rejectPlatforms
           A4 == "deny" \in q.lists
           A5 == "sinkhole" \in q.lists
<1>1. {F1, F2, F3, F4, F5} \subseteq Findings
  BY FindingTypes DEF RuleNames
<1>2. {A1, A2, A3, A4, A5} \subseteq BOOLEAN
  OBVIOUS
<1>3. ListRules(q) = <<Rule(A1, F1), Rule(A2, F2), Rule(A3, F3), Rule(A4, F4), Rule(A5, F5)>>
  BY DEF ListRules
<1> HIDE DEF F1, F2, F3, F4, F5, A1, A2, A3, A4, A5
<1>4. /\ Rule(A1, F1) \in Rules /\ Rule(A1, F1).applies = A1 /\ Rule(A1, F1).finding = F1
      /\ Rule(A2, F2) \in Rules /\ Rule(A2, F2).applies = A2 /\ Rule(A2, F2).finding = F2
      /\ Rule(A3, F3) \in Rules /\ Rule(A3, F3).applies = A3 /\ Rule(A3, F3).finding = F3
      /\ Rule(A4, F4) \in Rules /\ Rule(A4, F4).applies = A4 /\ Rule(A4, F4).finding = F4
      /\ Rule(A5, F5) \in Rules /\ Rule(A5, F5).applies = A5 /\ Rule(A5, F5).finding = F5
  BY <1>1, <1>2, RuleTypes
<1>5. /\ ListRules(q) \in Seq(Rules) /\ Len(ListRules(q)) = 5
      /\ ListRules(q)[1] = Rule(A1, F1) /\ ListRules(q)[2] = Rule(A2, F2)
      /\ ListRules(q)[3] = Rule(A3, F3) /\ ListRules(q)[4] = Rule(A4, F4)
      /\ ListRules(q)[5] = Rule(A5, F5)
  BY <1>3, <1>4
<1> QED
  BY <1>4, <1>5 DEF F1, F2, F3, F4, F5, A1, A2, A4

LEMMA ShapeRuleFacts ==
  ASSUME NEW q
  PROVE  /\ ShapeRules(q) \in Seq(Rules) /\ Len(ShapeRules(q)) = 5
         /\ ShapeRules(q)[5].applies
         /\ \A i \in 1 .. 5 : ShapeRules(q)[i].finding.risk \in {"none", "medium", "high"}
<1> DEFINE F1 == Tunnel
           F2 == Finding("dga-high-entropy", "high", "block")
           F3 == Finding("abnormal-rr-query", "medium", Policy.abnormalAction)
           F4 == Finding("reflection-amplification-rr", "medium", Policy.amplifyAction)
           F5 == DefaultAllow
           A1 == q.shape = "tunnel"
           A2 == q.shape = "dga"
           A3 == q.shape = "abnormal"
           A4 == q.shape = "amplify"
           A5 == TRUE
<1>1. {F1, F2, F3, F4, F5} \subseteq Findings
  BY FindingTypes DEF RuleNames
<1>2. {A1, A2, A3, A4, A5} \subseteq BOOLEAN
  OBVIOUS
<1>3. ShapeRules(q) = <<Rule(A1, F1), Rule(A2, F2), Rule(A3, F3), Rule(A4, F4), Rule(A5, F5)>>
  BY DEF ShapeRules
<1>4. \A f \in {F1, F2, F3, F4, F5} : f.risk \in {"none", "medium", "high"}
  BY DEF Finding, Tunnel, DefaultAllow
<1>0. A5 = TRUE
  OBVIOUS
<1> HIDE DEF F1, F2, F3, F4, F5, A1, A2, A3, A4, A5
<1>5. /\ Rule(A1, F1) \in Rules /\ Rule(A1, F1).finding = F1
      /\ Rule(A2, F2) \in Rules /\ Rule(A2, F2).finding = F2
      /\ Rule(A3, F3) \in Rules /\ Rule(A3, F3).finding = F3
      /\ Rule(A4, F4) \in Rules /\ Rule(A4, F4).finding = F4
      /\ Rule(A5, F5) \in Rules /\ Rule(A5, F5).finding = F5 /\ Rule(A5, F5).applies
  BY <1>0, <1>1, <1>2, RuleTypes
<1>6. /\ ShapeRules(q) \in Seq(Rules) /\ Len(ShapeRules(q)) = 5
      /\ ShapeRules(q)[1] = Rule(A1, F1) /\ ShapeRules(q)[2] = Rule(A2, F2)
      /\ ShapeRules(q)[3] = Rule(A3, F3) /\ ShapeRules(q)[4] = Rule(A4, F4)
      /\ ShapeRules(q)[5] = Rule(A5, F5)
  BY <1>3, <1>5
<1>7. \A i \in 1 .. 5 : i \in {1, 2, 3, 4, 5}
  OBVIOUS
<1> QED
  BY <1>4, <1>5, <1>6, <1>7

LEMMA TwoParts ==
  ASSUME NEW s \in Seq(Rules), NEW t \in Seq(Rules)
  PROVE  /\ s \o t \in Seq(Rules) /\ Len(s \o t) = Len(s) + Len(t)
         /\ \A i \in 1 .. Len(s) : (s \o t)[i] = s[i]
         /\ \A i \in 1 .. Len(t) : (s \o t)[Len(s) + i] = t[i]
<1>1. Len(s) \in Nat /\ Len(t) \in Nat
  OBVIOUS
<1>2. /\ s \o t \in Seq(Rules) /\ Len(s \o t) = Len(s) + Len(t)
      /\ \A i \in 1 .. Len(s) + Len(t) :
           (s \o t)[i] = IF i <= Len(s) THEN s[i] ELSE t[i - Len(s)]
  BY ConcatProperties
<1>3. \A i \in 1 .. Len(s) : i \in 1 .. Len(s) + Len(t) /\ i <= Len(s)
  BY <1>1
<1>4. \A i \in 1 .. Len(t) : /\ Len(s) + i \in 1 .. Len(s) + Len(t)
                             /\ ~(Len(s) + i <= Len(s)) /\ (Len(s) + i) - Len(s) = i
  BY <1>1
<1>5. \A i \in 1 .. Len(t) : (s \o t)[Len(s) + i] = t[(Len(s) + i) - Len(s)]
  BY <1>2, <1>4
<1> QED
  BY <1>2, <1>3, <1>4, <1>5

LEMMA AllRuleFacts ==
  ASSUME NEW q
  PROVE  /\ AllRules(q) \in Seq(Rules) /\ Len(AllRules(q)) = 12 /\ AllRules(q)[12].applies
         /\ \A i \in 1 .. 5 : AllRules(q)[i] = ListRules(q)[i]
         /\ AllRules(q)[6].finding = QueryRate /\ (AllRules(q)[6].applies <=> TooManyQueries(q))
         /\ \A i \in 6 .. 12 : AllRules(q)[i].finding.risk \in {"none", "medium", "high"}
<1> DEFINE L == ListRules(q)
           W == <<Rule(TooManyQueries(q), QueryRate), Rule(TooManySubdomains(q), Subdomains)>>
           S == ShapeRules(q)
<1>1. L \in Seq(Rules) /\ Len(L) = 5
  BY ListRuleFacts
<1>2. /\ S \in Seq(Rules) /\ Len(S) = 5 /\ S[5].applies
      /\ \A i \in 1 .. 5 : S[i].finding.risk \in {"none", "medium", "high"}
  BY ShapeRuleFacts
<1>3. TooManyQueries(q) \in BOOLEAN /\ TooManySubdomains(q) \in BOOLEAN
  BY DEF TooManyQueries, TooManySubdomains
<1>4. /\ W \in Seq(Rules) /\ Len(W) = 2
      /\ W[1].finding = QueryRate /\ W[2].finding = Subdomains
      /\ W[1].applies = TooManyQueries(q)
  BY <1>3, RuleTypes, FindingTypes
<1>5. QueryRate.risk = "medium" /\ Subdomains.risk = "high"
  BY DEF QueryRate, Subdomains, Finding
<1> HIDE DEF L, W, S
<1>6. /\ Len((L \o W) \o S) = 12 /\ (L \o W) \o S \in Seq(Rules)
      /\ \A i \in 1 .. 5 : ((L \o W) \o S)[i] = L[i]
      /\ ((L \o W) \o S)[6] = W[1] /\ ((L \o W) \o S)[7] = W[2]
      /\ \A i \in 8 .. 12 : ((L \o W) \o S)[i] = S[i - 7]
  <2>1. /\ L \o W \in Seq(Rules) /\ Len(L \o W) = 7
        /\ \A i \in 1 .. 5 : (L \o W)[i] = L[i]
        /\ (L \o W)[6] = W[1] /\ (L \o W)[7] = W[2]
    <3>1. /\ L \o W \in Seq(Rules) /\ Len(L \o W) = Len(L) + Len(W)
          /\ \A i \in 1 .. Len(L) : (L \o W)[i] = L[i]
          /\ \A i \in 1 .. Len(W) : (L \o W)[Len(L) + i] = W[i]
      BY <1>1, <1>4, TwoParts
    <3>2. Len(L) + Len(W) = 7 /\ Len(L) + 1 = 6 /\ Len(L) + 2 = 7 /\ 1 .. Len(W) = {1, 2}
      BY <1>1, <1>4
    <3> QED
      BY <3>1, <3>2, <1>1
  <2> DEFINE V == L \o W
  <2> HIDE DEF V
  <2>2. /\ V \o S \in Seq(Rules) /\ Len(V \o S) = 12
        /\ \A i \in 1 .. 7 : (V \o S)[i] = V[i]
        /\ \A i \in 8 .. 12 : (V \o S)[i] = S[i - 7]
    <3>1. V \in Seq(Rules) /\ Len(V) = 7
      BY <2>1 DEF V
    <3>2. /\ V \o S \in Seq(Rules) /\ Len(V \o S) = 12
          /\ \A i \in 1 .. 7 : (V \o S)[i] = V[i]
          /\ \A i \in 1 .. 5 : (V \o S)[7 + i] = S[i]
      <4>1. /\ V \o S \in Seq(Rules) /\ Len(V \o S) = Len(V) + Len(S)
            /\ \A i \in 1 .. Len(V) : (V \o S)[i] = V[i]
            /\ \A i \in 1 .. Len(S) : (V \o S)[Len(V) + i] = S[i]
        BY <3>1, <1>2, TwoParts
      <4>2. Len(V) + Len(S) = 12
        BY <3>1, <1>2
      <4> QED
        BY <4>1, <4>2, <3>1, <1>2
    <3>3. \A i \in 8 .. 12 : i - 7 \in 1 .. 5 /\ 7 + (i - 7) = i
      OBVIOUS
    <3> QED
      BY <3>2, <3>3
  <2>3. \A i \in 1 .. 5 : (V \o S)[i] = V[i] /\ V[i] = L[i]
    <3>1. \A i \in 1 .. 5 : V[i] = L[i]
      BY <2>1 DEF V
    <3>2. \A i \in 1 .. 5 : i \in 1 .. 7
      OBVIOUS
    <3> QED
      BY <2>2, <3>1, <3>2
  <2>4. (V \o S)[6] = W[1] /\ (V \o S)[7] = W[2]
    BY <2>1, <2>2 DEF V
  <2> QED
    BY <2>2, <2>3, <2>4 DEF V
<1>7. AllRules(q) = (L \o W) \o S
  BY DEF AllRules, L, W, S
<1>8. \A i \in 6 .. 12 : i = 6 \/ i = 7 \/ (i \in 8 .. 12 /\ i - 7 \in 1 .. 5)
  OBVIOUS
<1> DEFINE R == (L \o W) \o S
<1>9. R[12] = S[12 - 7] /\ 12 - 7 = 5
  <2>1. 12 \in 8 .. 12 /\ 12 - 7 = 5
    OBVIOUS
  <2> QED
    BY <1>6, <2>1
<1>10. \A i \in 6 .. 12 : R[i] = W[1] \/ R[i] = W[2] \/ \E k \in 1 .. 5 : R[i] = S[k]
  BY <1>6, <1>8
<1> HIDE DEF R
<1>11. \A i \in 6 .. 12 : R[i].finding.risk \in {"none", "medium", "high"}
  BY <1>2, <1>4, <1>5, <1>10
<1> QED
  BY <1>2, <1>4, <1>6, <1>7, <1>9, <1>11 DEF L, R

\* A query the lists refuse.
Refused(q) == Policy.enabled /\ Listed(q) /\ "allow" \notin q.lists

\* Only a denied name is rated critical, and the lists have their way.
LEMMA QueryFindings ==
  ASSUME NEW q
  PROVE  /\ QueryFinding(q) \in Findings
         /\ QueryFinding(q).risk = "critical" => QueryFinding(q).action = "block"
         /\ Refused(q) => /\ QueryFinding(q).action \in {"block", "sinkhole"}
                          /\ "deny" \in q.lists => QueryFinding(q).action = "block"
         /\ ~Listed(q) /\ TooManyQueries(q) => QueryFinding(q) = QueryRate
<1> DEFINE R == AllRules(q)
           L == ListRules(q)
           F == QueryFinding(q)
<1>1. /\ R \in Seq(Rules) /\ Len(R) = 12 /\ R[12].applies
      /\ \A i \in 1 .. 5 : R[i] = L[i]
      /\ R[6].finding = QueryRate /\ (R[6].applies <=> TooManyQueries(q))
      /\ \A i \in 6 .. 12 : R[i].finding.risk \in {"none", "medium", "high"}
  BY AllRuleFacts
<1>2. F = FirstOf(R)
  BY DEF QueryFinding, AllRules
<1>3. 12 \in 1 .. 12
  OBVIOUS
<1> HIDE DEF R, F
<1>4. PICK i \in 1 .. 12 : /\ R[i].applies /\ \A j \in 1 .. i - 1 : ~R[j].applies
                           /\ FirstOf(R) = R[i].finding
  BY <1>1, <1>3, FirstApplies
<1>41. F = R[i].finding
  BY <1>2, <1>4
<1>42. R[i] \in Rules
  BY <1>1, <1>4, ElementOfSeq
<1>5. F \in Findings
  BY <1>41, <1>42 DEF Rules
<1>6. /\ L[1].finding = Disabled
      /\ L[2].finding = Finding("allowlist-domain", "none", "allow")
      /\ L[3].finding = Finding("external-dnslog-platform", "high", "block")
      /\ L[4].finding = Finding("denylist-domain", "critical", "block")
      /\ L[5].finding = Finding("sinkhole-domain", "high", "sinkhole")
      /\ L[1].applies <=> ~Policy.enabled
      /\ L[2].applies <=> "allow" \in q.lists
      /\ L[4].applies <=> "deny" \in q.lists
  BY ListRuleFacts
<1>7. DOMAIN L = 1 .. 5
  BY ListRuleFacts
<1> HIDE DEF L
<1>8. i \in 1 .. 5 => F = L[i].finding /\ L[i].applies
  BY <1>1, <1>4, <1>41
<1>9. /\ L[1].finding.risk = "none" /\ L[2].finding.risk = "none" /\ L[3].finding.risk = "high"
      /\ L[5].finding.risk = "high" /\ L[4].finding.action = "block"
      /\ L[3].finding.action = "block" /\ L[5].finding.action = "sinkhole"
  BY <1>6 DEF Finding, Disabled
<1>10. i \in 1 .. 5 => i = 1 \/ i = 2 \/ i = 3 \/ i = 4 \/ i = 5
  BY <1>4, <1>41
<1>11. F.risk = "critical" => F.action = "block"
  <2>1. CASE i \in 1 .. 5
    BY <2>1, <1>8, <1>9, <1>10
  <2>2. CASE i \in 6 .. 12
    BY <2>2, <1>1, <1>4, <1>41
  <2> QED
    BY <2>1, <2>2, <1>4, <1>41
<1>12. ASSUME Refused(q)
       PROVE  F.action \in {"block", "sinkhole"} /\ ("deny" \in q.lists => F.action = "block")
  <2>1. PICK j \in 1 .. 5 : L[j].applies
    BY <1>7, <1>12 DEF Refused, Listed, L
  <2>2. R[j].applies
    BY <2>1, <1>1
  <2>3. i <= j
    BY <2>1, <2>2, <1>4, <1>41
  <2>4. i \in {1, 2, 3, 4, 5}
    BY <2>1, <2>3, <1>4, <1>41
  <2>5. i \notin {1, 2}
    BY <1>6, <1>8, <1>12 DEF Refused
  <2>6. i \in {3, 4, 5} /\ F.action \in {"block", "sinkhole"}
    BY <2>4, <2>5, <1>8, <1>9
  <2>7. ASSUME "deny" \in q.lists
        PROVE  F.action = "block"
    <3>1. L[4].applies
      BY <1>6, <2>7
    <3>2. R[4].applies
      BY <3>1, <1>1
    <3>3. i <= 4
      BY <3>2, <1>4, <1>41
    <3> QED
      BY <3>3, <2>6, <1>8, <1>9
  <2> QED
    BY <2>6, <2>7
<1>13. ASSUME ~Listed(q), TooManyQueries(q)
       PROVE  F = QueryRate
  <2>1. \A j \in 1 .. 5 : ~L[j].applies
    BY <1>7, <1>13 DEF Listed, L
  <2>2. i \notin 1 .. 5
    BY <2>1, <1>8
  <2>3. i = 6
    BY <2>2, <1>1, <1>4, <1>13
  <2> QED
    BY <2>3, <1>1, <1>41
<1> QED
  BY <1>5, <1>11, <1>12, <1>13 DEF F

\* A private answer is blocked, or the client is over its NXDOMAIN limit.
LEMMA ResponseFindings ==
  ASSUME NEW c, NEW result
  PROVE  /\ ResponseFinding(c, result) \in {Disabled, NXFlood, Rebinding, DefaultAllow}
         /\ Policy.enabled /\ Policy.blockRebinding /\ result.private =>
              ResponseFinding(c, result) \in {NXFlood, Rebinding}
         /\ CountsNXDomain(result) /\ Over(NXDomainsWith(c), Policy.nxThreshold) =>
              ResponseFinding(c, result) = NXFlood
<1> DEFINE A1 == ~Policy.enabled
           A2 == CountsNXDomain(result) /\ Over(NXDomainsWith(c), Policy.nxThreshold)
           A3 == Policy.blockRebinding /\ result.private
           A4 == TRUE
           R == <<Rule(A1, Disabled), Rule(A2, NXFlood), Rule(A3, Rebinding), Rule(A4, DefaultAllow)>>
           F == ResponseFinding(c, result)
<1>0. F = FirstOf(R)
  BY DEF ResponseFinding
<1>1. {A1, A2, A3, A4} \subseteq BOOLEAN
  OBVIOUS
<1>2. A4 = TRUE
  OBVIOUS
<1> HIDE DEF A1, A2, A3, A4, F
<1>3. /\ Rule(A1, Disabled) \in Rules /\ Rule(A1, Disabled).applies = A1 /\ Rule(A1, Disabled).finding = Disabled
      /\ Rule(A2, NXFlood) \in Rules /\ Rule(A2, NXFlood).applies = A2 /\ Rule(A2, NXFlood).finding = NXFlood
      /\ Rule(A3, Rebinding) \in Rules /\ Rule(A3, Rebinding).applies = A3 /\ Rule(A3, Rebinding).finding = Rebinding
      /\ Rule(A4, DefaultAllow) \in Rules /\ Rule(A4, DefaultAllow).applies = A4 /\ Rule(A4, DefaultAllow).finding = DefaultAllow
  BY <1>1, RuleTypes, FindingTypes
<1>4. /\ R \in Seq(Rules) /\ Len(R) = 4
      /\ R[1] = Rule(A1, Disabled) /\ R[2] = Rule(A2, NXFlood)
      /\ R[3] = Rule(A3, Rebinding) /\ R[4] = Rule(A4, DefaultAllow)
  BY <1>3
<1> HIDE DEF R
<1>5. R[4].applies /\ 4 \in 1 .. 12
  <2>1. Rule(A4, DefaultAllow).applies
    BY <1>2, <1>3
  <2> QED
    BY <2>1, <1>4
<1>6. PICK i \in 1 .. 4 : /\ R[i].applies /\ \A j \in 1 .. i - 1 : ~R[j].applies
                          /\ FirstOf(R) = R[i].finding
  BY <1>4, <1>5, FirstApplies
<1>7. i = 1 \/ i = 2 \/ i = 3 \/ i = 4
  OBVIOUS
<1>8. F \in {Disabled, NXFlood, Rebinding, DefaultAllow}
  BY <1>0, <1>3, <1>4, <1>6, <1>7
<1>9. ASSUME Policy.enabled, Policy.blockRebinding, result.private
      PROVE  F \in {NXFlood, Rebinding}
  <2>1. ~A1 /\ A3
    BY <1>9 DEF A1, A3
  <2>2. ~R[1].applies /\ R[3].applies
    BY <2>1, <1>3, <1>4
  <2>3. i = 2 \/ i = 3
    BY <2>2, <1>6, <1>7
  <2> QED
    BY <2>3, <1>0, <1>3, <1>4, <1>6
<1>10. ASSUME CountsNXDomain(result), Over(NXDomainsWith(c), Policy.nxThreshold)
       PROVE  F = NXFlood
  <2>1. ~A1 /\ A2
    BY <1>10 DEF A1, A2, CountsNXDomain
  <2>2. ~R[1].applies /\ R[2].applies
    BY <2>1, <1>3, <1>4
  <2>3. i = 2
    BY <2>2, <1>6, <1>7
  <2> QED
    BY <2>3, <1>0, <1>3, <1>4, <1>6
<1> QED
  BY <1>8, <1>9, <1>10 DEF F

-----------------------------------------------------------------------------
(* The invariant: the types, and for each handler what its step, query,    *)
(* findings, reply, events, what its hook did and the times say together.  *)
Steps    == {"idle", "resolve", "deliver", "reply", "replied"}
Outcomes == {"none", "waiting", "gaveup", "icann", "answer", "private", "nxdomain", "servfail"}
AllResults == [rcode : Rcodes, private : BOOLEAN]
Replies  == [status : Statuses, result : AllResults]
Logged   == [action : Acts, rcode : Rcodes]

Typed ==
  /\ pc \in [Workers -> Steps] /\ query \in [Workers -> Queries \cup {None}]
  /\ pre \in [Workers -> Findings \cup {None}] /\ verdict \in [Workers -> Findings \cup {None}]
  /\ reply \in [Workers -> Replies \cup {None}] /\ events \in [Workers -> Seq(Logged)]
  /\ held \in [Workers -> Nat] /\ dns \in [Workers -> Outcomes] /\ waited \in [Workers -> Nat]

AtRest(p, e, h, d) == p = "idle" => d = "none" /\ e = << >> /\ h = 0

AtWork(p, q, f, e, h, d) ==
  p = "resolve" =>
    /\ q \in Queries /\ f \in Findings /\ ~Refuses(f) /\ f.action # "sinkhole"
    /\ f.risk # "critical" /\ ~Refused(q)
    /\ e = << >> /\ d \in {"waiting", "gaveup"}
    /\ h <= (IF q.routed THEN RequestTimeout ELSE 0)

\* A reply and what it is based on.
Fits(q, f, v, r) ==
  /\ v.action = "block" <=> r.status = 403
  /\ v.action = "rate_limit" <=> r.status = 429
  /\ Refuses(v) => r.result = Result("SERVFAIL", FALSE)
  /\ r.status = 404 => ~q.routed
  /\ r.status = 200 => q.routed \/ v.action = "sinkhole"
  /\ (Policy.enabled /\ Policy.blockRebinding /\ r.result.private) => f.risk = "high"
  /\ Refused(q) => /\ v.action \in {"block", "sinkhole"}
                   /\ "deny" \in q.lists => v.action = "block"
                   /\ v.action = "sinkhole" => r = Reply(200, Result("NOERROR", FALSE))

Concluded(p, q, f, v, r, e, h, d, t) ==
  p \in {"deliver", "reply", "replied"} =>
    /\ q \in Queries /\ f \in Findings /\ v \in Findings /\ r \in Replies
    /\ e = << Event(v, r.result) >> /\ Fits(q, f, v, r)
    /\ p = "deliver" => ~Refused(q) /\ d \in {"waiting", "gaveup"} /\ h <= HoneypotTimeout
    /\ p # "deliver" => h = 0
    /\ p = "reply" => d \in {"waiting", "gaveup"} /\ (Refused(q) => d = "waiting" /\ t = 0)
    /\ p = "replied" => d = Applied(r) \/ (d = "gaveup" /\ ~Refused(q))

Waiting(d, t) == t <= HookTimeout /\ (d # "waiting" => t = 0)

HandlerOK(p, q, f, v, r, e, h, d, t) ==
  /\ AtRest(p, e, h, d) /\ AtWork(p, q, f, e, h, d)
  /\ Concluded(p, q, f, v, r, e, h, d, t) /\ Waiting(d, t)

HandlersOK ==
  \A w \in Workers :
    HandlerOK(pc[w], query[w], pre[w], verdict[w], reply[w], events[w], held[w], dns[w], waited[w])

IInv == Typed /\ HandlersOK

WindowsTyped ==
  /\ queryAges \in [Clients -> [Ages(Policy.queryWindow) -> Nat]]
  /\ subdomainAge \in
       [Clients -> [Bases -> [Labels -> {Policy.subdomainWindow} \cup 0..Policy.subdomainWindow]]]
  /\ nxAges \in [Clients -> [Ages(Policy.nxWindow) -> Nat]]

-----------------------------------------------------------------------------
(* What the steps of a handler do to its locals.                           *)

LEMMA ReplyTypes ==
  /\ \A rcode \in Rcodes, private \in BOOLEAN : Result(rcode, private) \in AllResults
  /\ \A status \in Statuses, result \in AllResults : Reply(status, result) \in Replies
  /\ \A action : Refusal(action) \in Replies
  /\ \A v \in Findings, result \in AllResults : Event(v, result) \in Logged
  /\ \A q : Results(q) \subseteq AllResults
  /\ \A r \in Replies : Applied(r) \in {"icann", "answer", "private", "nxdomain", "servfail"}
<1>1. \A rcode \in Rcodes, private \in BOOLEAN : Result(rcode, private) \in AllResults
  BY DEF Result, AllResults
<1>2. \A status \in Statuses, result \in AllResults : Reply(status, result) \in Replies
  BY DEF Reply, Replies
<1>3. Result("SERVFAIL", FALSE) \in AllResults
  BY <1>1 DEF Rcodes
<1>4. \A action : Refusal(action) \in Replies
  <2> DEFINE servfail == Result("SERVFAIL", FALSE)
  <2>1. 403 \in Statuses /\ 429 \in Statuses /\ servfail \in AllResults
    BY <1>3 DEF Statuses
  <2>2. \A action : Refusal(action) = Reply(IF action = "block" THEN 403 ELSE 429, servfail)
    BY DEF Refusal
  <2> HIDE DEF servfail
  <2> QED
    BY <2>1, <2>2, <1>2
<1>5. \A v \in Findings, result \in AllResults : Event(v, result) \in Logged
  BY DEF Event, Logged, Findings, Acts, AllResults
<1>6. \A q : Results(q) \subseteq AllResults
  BY <1>1 DEF Results, Rcodes
<1>7. \A r \in Replies : Applied(r) \in {"icann", "answer", "private", "nxdomain", "servfail"}
  BY DEF Applied, ByRcode, Replies, AllResults, Rcodes
<1> QED
  BY <1>1, <1>2, <1>4, <1>5, <1>6, <1>7

LEMMA InitOK == Init => IInv /\ WindowsTyped
<1> SUFFICES ASSUME Init PROVE IInv /\ WindowsTyped
  OBVIOUS
<1>1. Typed
  BY DEF Init, Typed, Steps, Outcomes
<1>2. HandlersOK
  BY TimeoutAssumption DEF Init, HandlersOK, HandlerOK, AtRest, AtWork, Concluded, Waiting
<1>3. WindowsTyped
  BY PolicyAssumption DEF Init, WindowsInit, WindowsTyped, Empty
<1> QED
  BY <1>1, <1>2, <1>3 DEF IInv

\* The handlers that take no step.
LEMMA OthersOK ==
  ASSUME IInv, Typed', NEW w \in Workers,
         HandlerOK(pc'[w], query'[w], pre'[w], verdict'[w], reply'[w], events'[w], held'[w], dns'[w], waited'[w]),
         \A u \in Workers \ {w} :
           /\ pc'[u] = pc[u] /\ query'[u] = query[u] /\ pre'[u] = pre[u] /\ verdict'[u] = verdict[u]
           /\ reply'[u] = reply[u] /\ events'[u] = events[u] /\ held'[u] = held[u]
           /\ dns'[u] = dns[u] /\ waited'[u] = waited[u]
  PROVE  IInv'
<1> SUFFICES ASSUME NEW u \in Workers
             PROVE  HandlerOK(pc'[u], query'[u], pre'[u], verdict'[u], reply'[u], events'[u], held'[u], dns'[u], waited'[u])
  BY DEF IInv, HandlersOK
<1>1. HandlerOK(pc[u], query[u], pre[u], verdict[u], reply[u], events[u], held[u], dns[u], waited[u])
  BY DEF IInv, HandlersOK
<1> QED
  BY <1>1

LEMMA RefuseOK ==
  ASSUME IInv, NEW w \in Workers, NEW q \in Queries, Refuse(w, q)
  PROVE  IInv'
<1> DEFINE f == QueryFinding(q)
           r == IF f.action = "sinkhole" THEN Reply(200, Result("NOERROR", FALSE)) ELSE Refusal(f.action)
<1>1. /\ pc[w] = "idle" /\ query' = [query EXCEPT ![w] = q] /\ pre' = [pre EXCEPT ![w] = f]
      /\ dns' = [dns EXCEPT ![w] = "waiting"] /\ waited' = waited
      /\ Refuses(f) \/ f.action = "sinkhole"
      /\ verdict' = [verdict EXCEPT ![w] = f] /\ reply' = [reply EXCEPT ![w] = r]
      /\ events' = [events EXCEPT ![w] = Append(@, Event(f, r.result))]
      /\ pc' = [pc EXCEPT ![w] = "reply"] /\ held' = [held EXCEPT ![w] = 0]
  BY DEF Refuse, Arrive, Conclude
<1>2. /\ f \in Findings
      /\ Refused(q) => /\ f.action \in {"block", "sinkhole"}
                       /\ "deny" \in q.lists => f.action = "block"
  BY QueryFindings
<1> HIDE DEF f
<1>3. Result("NOERROR", FALSE) \in AllResults
  BY ReplyTypes DEF Rcodes
<1>4. r \in Replies
  <2>1. 200 \in Statuses
    BY DEF Statuses
  <2> QED
    BY <2>1, <1>3, ReplyTypes
<1>5. r.result \in AllResults
  BY <1>4 DEF Replies
<1>6. Event(f, r.result) \in Logged
  BY <1>2, <1>5, ReplyTypes
<1>7. Fits(q, f, f, r)
  BY <1>1, <1>2 DEF Fits, Refuses, Refusal, Reply, Result
<1> HIDE DEF r
<1>8. events[w] = << >> /\ dns[w] = "none" /\ waited[w] = 0 /\ waited[w] <= HookTimeout
  BY <1>1 DEF IInv, HandlersOK, HandlerOK, AtRest, Waiting
<1>9. Typed'
  BY <1>1, <1>2, <1>4, <1>6 DEF IInv, Typed, Steps, Outcomes
<1>10. /\ pc'[w] = "reply" /\ query'[w] = q /\ pre'[w] = f /\ verdict'[w] = f /\ reply'[w] = r
       /\ events'[w] = << Event(f, r.result) >> /\ held'[w] = 0 /\ dns'[w] = "waiting" /\ waited'[w] = 0
  BY <1>1, <1>8 DEF IInv, Typed
<1>11. HandlerOK("reply", q, f, f, r, << Event(f, r.result) >>, 0, "waiting", 0)
  BY <1>2, <1>4, <1>7, TimeoutAssumption DEF HandlerOK, AtRest, AtWork, Concluded, Waiting
<1>12. HandlerOK(pc'[w], query'[w], pre'[w], verdict'[w], reply'[w], events'[w], held'[w], dns'[w], waited'[w])
  BY <1>10, <1>11
<1>13. \A u \in Workers \ {w} :
         /\ pc'[u] = pc[u] /\ query'[u] = query[u] /\ pre'[u] = pre[u] /\ verdict'[u] = verdict[u]
         /\ reply'[u] = reply[u] /\ events'[u] = events[u] /\ held'[u] = held[u]
         /\ dns'[u] = dns[u] /\ waited'[u] = waited[u]
  BY <1>1 DEF IInv, Typed
<1> QED
  BY <1>9, <1>12, <1>13, OthersOK

LEMMA AdmitOK ==
  ASSUME IInv, NEW w \in Workers, NEW q \in Queries, Admit(w, q)
  PROVE  IInv'
<1> DEFINE f == QueryFinding(q)
<1>1. /\ pc[w] = "idle" /\ query' = [query EXCEPT ![w] = q] /\ pre' = [pre EXCEPT ![w] = f]
      /\ dns' = [dns EXCEPT ![w] = "waiting"] /\ pc' = [pc EXCEPT ![w] = "resolve"]
      /\ waited' = waited /\ verdict' = verdict /\ reply' = reply /\ events' = events /\ held' = held
      /\ ~Refuses(f) /\ f.action # "sinkhole"
  BY DEF Admit, Arrive
<1>2. f \in Findings /\ f.risk # "critical" /\ ~Refused(q)
  BY <1>1, QueryFindings DEF Refuses
<1> HIDE DEF f
<1>3. /\ events[w] = << >> /\ dns[w] = "none" /\ waited[w] = 0 /\ held[w] = 0
  BY <1>1 DEF IInv, HandlersOK, HandlerOK, AtRest, Waiting
<1>4. Typed'
  BY <1>1, <1>2 DEF IInv, Typed, Steps, Outcomes
<1>5. /\ pc'[w] = "resolve" /\ query'[w] = q /\ pre'[w] = f /\ verdict'[w] = verdict[w]
      /\ reply'[w] = reply[w] /\ events'[w] = << >> /\ held'[w] = 0 /\ dns'[w] = "waiting" /\ waited'[w] = 0
  BY <1>1, <1>3 DEF IInv, Typed
<1>6. HandlerOK("resolve", q, f, verdict[w], reply[w], << >>, 0, "waiting", 0)
  BY <1>1, <1>2, TimeoutAssumption, QueriesAssumption DEF HandlerOK, AtRest, AtWork, Concluded, Waiting
<1>7. HandlerOK(pc'[w], query'[w], pre'[w], verdict'[w], reply'[w], events'[w], held'[w], dns'[w], waited'[w])
  BY <1>5, <1>6
<1>8. \A u \in Workers \ {w} :
         /\ pc'[u] = pc[u] /\ query'[u] = query[u] /\ pre'[u] = pre[u] /\ verdict'[u] = verdict[u]
         /\ reply'[u] = reply[u] /\ events'[u] = events[u] /\ held'[u] = held[u]
         /\ dns'[u] = dns[u] /\ waited'[u] = waited[u]
  BY <1>1 DEF IInv, Typed
<1> QED
  BY <1>4, <1>7, <1>8, OthersOK

LEMMA ResolveOK ==
  ASSUME IInv, NEW w \in Workers, Resolve(w)
  PROVE  IInv'
<1> DEFINE q == query[w]
           f == pre[w]
<1>1. PICK result \in Results(q) :
        LET g == ResponseFinding(q.client, result)
            v == Strongest(f, g)
            r == IF Refuses(v) THEN Refusal(v.action) ELSE Reply(IF q.routed THEN 200 ELSE 404, result)
        IN  Conclude(w, v, r, IF v.action = "forward_to_honeypot" THEN "deliver" ELSE "reply")
  BY DEF Resolve
<1> DEFINE g == ResponseFinding(q.client, result)
           v == Strongest(f, g)
           r == IF Refuses(v) THEN Refusal(v.action) ELSE Reply(IF q.routed THEN 200 ELSE 404, result)
           p == IF v.action = "forward_to_honeypot" THEN "deliver" ELSE "reply"
<1>2. /\ pc[w] = "resolve" /\ query' = query /\ pre' = pre /\ dns' = dns /\ waited' = waited
      /\ verdict' = [verdict EXCEPT ![w] = v] /\ reply' = [reply EXCEPT ![w] = r]
      /\ events' = [events EXCEPT ![w] = Append(@, Event(v, r.result))]
      /\ pc' = [pc EXCEPT ![w] = p] /\ held' = [held EXCEPT ![w] = 0]
  BY <1>1 DEF Resolve, Conclude, hookVars
<1>3. /\ q \in Queries /\ f \in Findings /\ ~Refuses(f) /\ f.action # "sinkhole" /\ f.risk # "critical"
      /\ ~Refused(q) /\ events[w] = << >> /\ dns[w] \in {"waiting", "gaveup"}
      /\ Waiting(dns[w], waited[w])
  BY <1>2 DEF IInv, HandlersOK, HandlerOK, AtWork
<1>4. q.routed \in BOOLEAN
  BY <1>3, QueriesAssumption
<1>5. result \in AllResults
  BY ReplyTypes
<1>6. /\ g \in {Disabled, NXFlood, Rebinding, DefaultAllow}
      /\ Policy.enabled /\ Policy.blockRebinding /\ result.private => g \in {NXFlood, Rebinding}
  BY ResponseFindings
<1> HIDE DEF g, q, f
<1>7. g \in Findings
  BY <1>6, FindingTypes
<1>8. v \in {f, g} /\ (v = g \/ Score[g.risk] <= Score[f.risk])
  <2>1. Score[g.risk] \in Int /\ Score[f.risk] \in Int
    BY <1>3, <1>7 DEF Findings, Score
  <2> QED
    BY <2>1 DEF Strongest
<1>9. g \in {NXFlood, Rebinding} => g.risk = "high" /\ Refuses(g)
  BY DEF NXFlood, Rebinding, Finding, Refuses
<1>10. g.action # "sinkhole"
  BY <1>6 DEF NXFlood, Rebinding, Disabled, DefaultAllow, Finding
<1> HIDE DEF v
<1>11. v \in Findings /\ v.action # "sinkhole"
  BY <1>3, <1>7, <1>8, <1>10
<1>12. r \in Replies
  <2>1. 200 \in Statuses /\ 404 \in Statuses
    BY DEF Statuses
  <2>2. Reply(200, result) \in Replies /\ Reply(404, result) \in Replies /\ Refusal(v.action) \in Replies
    BY <2>1, <1>5, ReplyTypes
  <2> QED
    BY <2>2
<1>13. Refuses(v) => r.result = Result("SERVFAIL", FALSE)
  BY DEF Refusal, Reply
<1>14. ~Refuses(v) => r.result = result /\ r.status = (IF q.routed THEN 200 ELSE 404)
  BY DEF Reply
<1>15. (Policy.enabled /\ Policy.blockRebinding /\ r.result.private) => f.risk = "high"
  <2> SUFFICES ASSUME Policy.enabled, Policy.blockRebinding, r.result.private PROVE f.risk = "high"
    OBVIOUS
  <2>1. ~Refuses(v)
    BY <1>13 DEF Result
  <2>2. result.private
    BY <2>1, <1>14
  <2>3. g.risk = "high" /\ Refuses(g)
    BY <2>2, <1>6, <1>9
  <2>4. Score["high"] <= Score[f.risk]
    BY <2>1, <2>3, <1>8
  <2>5. f.risk \in {"none", "low", "medium", "high", "critical"}
    BY <1>3 DEF Findings, Score
  <2> QED
    BY <2>4, <2>5, <1>3 DEF Score
<1>16. (v.action = "block" <=> r.status = 403) /\ (v.action = "rate_limit" <=> r.status = 429)
  <2>1. CASE Refuses(v)
    BY <2>1 DEF Refuses, Refusal, Reply
  <2>2. CASE ~Refuses(v)
    BY <2>2, <1>4, <1>14 DEF Refuses
  <2> QED
    BY <2>1, <2>2
<1>17. (r.status = 404 => ~q.routed) /\ (r.status = 200 => q.routed)
  <2>1. CASE Refuses(v)
    BY <2>1 DEF Refuses, Refusal, Reply
  <2>2. CASE ~Refuses(v)
    BY <2>2, <1>4, <1>14
  <2> QED
    BY <2>1, <2>2
<1> HIDE DEF r
<1>18. Fits(q, f, v, r)
  BY <1>3, <1>13, <1>15, <1>16, <1>17 DEF Fits
<1>19. Event(v, r.result) \in Logged
  BY <1>11, <1>12, ReplyTypes DEF Replies
<1>20. p \in {"deliver", "reply"}
  OBVIOUS
<1> HIDE DEF p
<1>21. Typed'
  BY <1>2, <1>11, <1>12, <1>19, <1>20 DEF IInv, Typed, Steps
<1>22. /\ pc'[w] = p /\ query'[w] = q /\ pre'[w] = f /\ verdict'[w] = v /\ reply'[w] = r
       /\ events'[w] = << Event(v, r.result) >> /\ held'[w] = 0 /\ dns'[w] = dns[w] /\ waited'[w] = waited[w]
  BY <1>2, <1>3 DEF IInv, Typed, q, f
<1>23. HandlerOK(p, q, f, v, r, << Event(v, r.result) >>, 0, dns[w], waited[w])
  BY <1>3, <1>11, <1>12, <1>18, <1>20, TimeoutAssumption DEF HandlerOK, AtRest, AtWork, Concluded
<1>24. HandlerOK(pc'[w], query'[w], pre'[w], verdict'[w], reply'[w], events'[w], held'[w], dns'[w], waited'[w])
  BY <1>22, <1>23
<1>25. \A u \in Workers \ {w} :
         /\ pc'[u] = pc[u] /\ query'[u] = query[u] /\ pre'[u] = pre[u] /\ verdict'[u] = verdict[u]
         /\ reply'[u] = reply[u] /\ events'[u] = events[u] /\ held'[u] = held[u]
         /\ dns'[u] = dns[u] /\ waited'[u] = waited[u]
  BY <1>2 DEF IInv, Typed
<1> QED
  BY <1>21, <1>24, <1>25, OthersOK

LEMMA DeliverOK ==
  ASSUME IInv, NEW w \in Workers, Deliver(w)
  PROVE  IInv'
<1>1. /\ pc[w] = "deliver" /\ pc' = [pc EXCEPT ![w] = "reply"] /\ held' = [held EXCEPT ![w] = 0]
      /\ query' = query /\ pre' = pre /\ verdict' = verdict /\ reply' = reply /\ events' = events
      /\ dns' = dns /\ waited' = waited
  BY DEF Deliver, hookVars
<1>2. HandlerOK("deliver", query[w], pre[w], verdict[w], reply[w], events[w], held[w], dns[w], waited[w])
  BY <1>1 DEF IInv, HandlersOK
<1>3. HandlerOK("reply", query[w], pre[w], verdict[w], reply[w], events[w], 0, dns[w], waited[w])
  BY <1>2 DEF HandlerOK, AtRest, AtWork, Concluded
<1>4. Typed'
  BY <1>1 DEF IInv, Typed, Steps
<1>5. HandlerOK(pc'[w], query'[w], pre'[w], verdict'[w], reply'[w], events'[w], held'[w], dns'[w], waited'[w])
  BY <1>1, <1>3 DEF IInv, Typed
<1>6. \A u \in Workers \ {w} :
         /\ pc'[u] = pc[u] /\ query'[u] = query[u] /\ pre'[u] = pre[u] /\ verdict'[u] = verdict[u]
         /\ reply'[u] = reply[u] /\ events'[u] = events[u] /\ held'[u] = held[u]
         /\ dns'[u] = dns[u] /\ waited'[u] = waited[u]
  BY <1>1 DEF IInv, Typed
<1> QED
  BY <1>4, <1>5, <1>6, OthersOK

LEMMA WriteReplyOK ==
  ASSUME IInv, NEW w \in Workers, WriteReply(w)
  PROVE  IInv'
<1> DEFINE d == IF dns[w] = "waiting" THEN Applied(reply[w]) ELSE dns[w]
<1>1. /\ pc[w] = "reply" /\ pc' = [pc EXCEPT ![w] = "replied"] /\ held' = held
      /\ query' = query /\ pre' = pre /\ verdict' = verdict /\ reply' = reply /\ events' = events
      /\ dns' = [dns EXCEPT ![w] = d] /\ waited' = [waited EXCEPT ![w] = 0]
  BY DEF WriteReply
<1>2. HandlerOK("reply", query[w], pre[w], verdict[w], reply[w], events[w], held[w], dns[w], waited[w])
  BY <1>1 DEF IInv, HandlersOK
<1>3. /\ reply[w] \in Replies /\ dns[w] \in {"waiting", "gaveup"}
      /\ Refused(query[w]) => dns[w] = "waiting"
  BY <1>2 DEF HandlerOK, Concluded
<1>4. d = Applied(reply[w]) \/ (d = "gaveup" /\ ~Refused(query[w]))
  BY <1>3
<1>5. d \in Outcomes /\ d # "waiting"
  BY <1>3, ReplyTypes DEF Outcomes
<1> HIDE DEF d
<1>6. HandlerOK("replied", query[w], pre[w], verdict[w], reply[w], events[w], held[w], d, 0)
  BY <1>2, <1>4, <1>5, TimeoutAssumption DEF HandlerOK, AtRest, AtWork, Concluded, Waiting
<1>7. Typed'
  BY <1>1, <1>5 DEF IInv, Typed, Steps
<1>8. HandlerOK(pc'[w], query'[w], pre'[w], verdict'[w], reply'[w], events'[w], held'[w], dns'[w], waited'[w])
  BY <1>1, <1>6 DEF IInv, Typed
<1>9. \A u \in Workers \ {w} :
         /\ pc'[u] = pc[u] /\ query'[u] = query[u] /\ pre'[u] = pre[u] /\ verdict'[u] = verdict[u]
         /\ reply'[u] = reply[u] /\ events'[u] = events[u] /\ held'[u] = held[u]
         /\ dns'[u] = dns[u] /\ waited'[u] = waited[u]
  BY <1>1 DEF IInv, Typed
<1> QED
  BY <1>7, <1>8, <1>9, OthersOK

LEMMA GiveUpOK ==
  ASSUME IInv, NEW w \in Workers, GiveUp(w)
  PROVE  IInv'
<1>1. /\ dns[w] = "waiting" /\ waited[w] = HookTimeout
      /\ dns' = [dns EXCEPT ![w] = "gaveup"] /\ waited' = [waited EXCEPT ![w] = 0]
      /\ pc' = pc /\ query' = query /\ pre' = pre /\ verdict' = verdict /\ reply' = reply
      /\ events' = events /\ held' = held
  BY DEF GiveUp, handlerVars
<1>2. HandlerOK(pc[w], query[w], pre[w], verdict[w], reply[w], events[w], held[w], "waiting", HookTimeout)
  BY <1>1 DEF IInv, HandlersOK
<1>3. reply[w] \in Replies => Applied(reply[w]) # "waiting"
  BY ReplyTypes
<1>4. HandlerOK(pc[w], query[w], pre[w], verdict[w], reply[w], events[w], held[w], "gaveup", 0)
  BY <1>2, <1>3, TimeoutAssumption DEF HandlerOK, AtRest, AtWork, Concluded, Waiting
<1>5. Typed'
  BY <1>1 DEF IInv, Typed, Outcomes
<1>6. HandlerOK(pc'[w], query'[w], pre'[w], verdict'[w], reply'[w], events'[w], held'[w], dns'[w], waited'[w])
  BY <1>1, <1>4 DEF IInv, Typed
<1>7. \A u \in Workers \ {w} :
         /\ pc'[u] = pc[u] /\ query'[u] = query[u] /\ pre'[u] = pre[u] /\ verdict'[u] = verdict[u]
         /\ reply'[u] = reply[u] /\ events'[u] = events[u] /\ held'[u] = held[u]
         /\ dns'[u] = dns[u] /\ waited'[u] = waited[u]
  BY <1>1 DEF IInv, Typed
<1> QED
  BY <1>5, <1>6, <1>7, OthersOK

LEMMA FinishOK ==
  ASSUME IInv, NEW w \in Workers, Finish(w)
  PROVE  IInv'
<1>1. /\ pc[w] = "replied" /\ pc' = [pc EXCEPT ![w] = "idle"] /\ query' = [query EXCEPT ![w] = None]
      /\ pre' = [pre EXCEPT ![w] = None] /\ verdict' = [verdict EXCEPT ![w] = None]
      /\ reply' = [reply EXCEPT ![w] = None] /\ events' = [events EXCEPT ![w] = << >>]
      /\ dns' = [dns EXCEPT ![w] = "none"] /\ held' = held /\ waited' = waited
  BY DEF Finish
<1>2. HandlerOK("replied", query[w], pre[w], verdict[w], reply[w], events[w], held[w], dns[w], waited[w])
  BY <1>1 DEF IInv, HandlersOK
<1>3. reply[w] \in Replies => Applied(reply[w]) # "waiting"
  BY ReplyTypes
<1>4. held[w] = 0 /\ waited[w] = 0
  BY <1>2, <1>3 DEF HandlerOK, Concluded, Waiting
<1>5. HandlerOK("idle", None, None, None, None, << >>, 0, "none", 0)
  BY TimeoutAssumption DEF HandlerOK, AtRest, AtWork, Concluded, Waiting
<1>6. Typed'
  BY <1>1 DEF IInv, Typed, Steps, Outcomes
<1>7. HandlerOK(pc'[w], query'[w], pre'[w], verdict'[w], reply'[w], events'[w], held'[w], dns'[w], waited'[w])
  BY <1>1, <1>4, <1>5 DEF IInv, Typed
<1>8. \A u \in Workers \ {w} :
         /\ pc'[u] = pc[u] /\ query'[u] = query[u] /\ pre'[u] = pre[u] /\ verdict'[u] = verdict[u]
         /\ reply'[u] = reply[u] /\ events'[u] = events[u] /\ held'[u] = held[u]
         /\ dns'[u] = dns[u] /\ waited'[u] = waited[u]
  BY <1>1 DEF IInv, Typed
<1> QED
  BY <1>6, <1>7, <1>8, OthersOK

\* Time passes only while every handler may wait.
LEMMA TickOK ==
  ASSUME IInv, Tick
  PROVE  IInv'
<1>1. /\ \A w \in Workers : Waits(w) /\ (dns[w] = "waiting" => waited[w] < HookTimeout)
      /\ held' = [w \in Workers |-> IF pc[w] \in {"resolve", "deliver"} THEN held[w] + 1 ELSE held[w]]
      /\ waited' = [w \in Workers |-> IF dns[w] = "waiting" THEN waited[w] + 1 ELSE waited[w]]
      /\ pc' = pc /\ query' = query /\ pre' = pre /\ verdict' = verdict /\ reply' = reply
      /\ events' = events /\ dns' = dns
  BY DEF Tick
<1>2. Typed'
  BY <1>1 DEF IInv, Typed
<1>3. ASSUME NEW w \in Workers
      PROVE  HandlerOK(pc'[w], query'[w], pre'[w], verdict'[w], reply'[w], events'[w], held'[w], dns'[w], waited'[w])
  <2>1. HandlerOK(pc[w], query[w], pre[w], verdict[w], reply[w], events[w], held[w], dns[w], waited[w])
    BY DEF IInv, HandlersOK
  <2>2. pc[w] \in Steps /\ held[w] \in Nat /\ waited[w] \in Nat
    BY DEF IInv, Typed
  <2>3. Waits(w) /\ (dns[w] = "waiting" => waited[w] < HookTimeout)
    BY <1>1
  <2>4. pc[w] # "reply"
    BY <2>2, <2>3 DEF Waits, Limit
  <2>5. /\ held'[w] = IF pc[w] \in {"resolve", "deliver"} THEN held[w] + 1 ELSE held[w]
        /\ waited'[w] = IF dns[w] = "waiting" THEN waited[w] + 1 ELSE waited[w]
    BY <1>1
  <2>6. Waiting(dns[w], waited'[w])
    BY <2>1, <2>2, <2>3, <2>5, TimeoutAssumption DEF HandlerOK, Waiting
  <2>7. pc[w] = "resolve" => held'[w] <= (IF query[w].routed THEN RequestTimeout ELSE 0)
    <3> SUFFICES ASSUME pc[w] = "resolve"
                 PROVE  held'[w] <= (IF query[w].routed THEN RequestTimeout ELSE 0)
      OBVIOUS
    <3>1. query[w].routed \in BOOLEAN
      BY <2>1, QueriesAssumption DEF HandlerOK, AtWork
    <3>2. held[w] < (IF query[w].routed THEN RequestTimeout ELSE 0)
      BY <2>3, <3>1 DEF Waits, Limit
    <3> QED
      BY <3>1, <3>2, <2>2, <2>5, TimeoutAssumption
  <2>8. pc[w] = "deliver" => held'[w] <= HoneypotTimeout
    BY <2>2, <2>3, <2>5, TimeoutAssumption DEF Waits, Limit
  <2>9. pc[w] \notin {"resolve", "deliver"} => held'[w] = held[w]
    BY <2>5
  <2>10. HandlerOK(pc[w], query[w], pre[w], verdict[w], reply[w], events[w], held'[w], dns[w], waited'[w])
    BY <2>1, <2>4, <2>6, <2>7, <2>8, <2>9 DEF HandlerOK, AtRest, AtWork, Concluded
  <2> QED
    BY <2>10, <1>1
<1> QED
  BY <1>2, <1>3 DEF IInv, HandlersOK

LEMMA NextOK == IInv /\ [Next]_vars => IInv'
<1> SUFFICES ASSUME IInv, [Next]_vars PROVE IInv'
  OBVIOUS
<1>1. ASSUME NEW w \in Workers, Serve(w)
      PROVE  IInv'
  <2>1. CASE \E q \in Queries : Refuse(w, q)
    BY <2>1, RefuseOK
  <2>2. CASE \E q \in Queries : Admit(w, q)
    BY <2>2, AdmitOK
  <2>3. CASE Resolve(w)
    BY <2>3, ResolveOK
  <2>4. CASE Deliver(w)
    BY <2>4, DeliverOK
  <2>5. CASE WriteReply(w)
    BY <2>5, WriteReplyOK
  <2>6. CASE GiveUp(w)
    BY <2>6, GiveUpOK
  <2>7. CASE Finish(w)
    BY <2>7, FinishOK
  <2> QED
    BY <1>1, <2>1, <2>2, <2>3, <2>4, <2>5, <2>6, <2>7 DEF Serve
<1>2. CASE Reload
  BY <1>2 DEF Reload, handlerVars, hookVars, IInv, Typed, HandlersOK
<1>3. CASE Tick
  BY <1>3, TickOK
<1>4. CASE UNCHANGED vars
  BY <1>4 DEF vars, handlerVars, hookVars, IInv, Typed, HandlersOK
<1> QED
  BY <1>1, <1>2, <1>3, <1>4 DEF Next

-----------------------------------------------------------------------------
(* The windows keep their types: nothing is counted in one that is off.    *)

LEMMA CountTypes ==
  ASSUME NEW window \in Int, NEW threshold \in Int, Tracked(threshold, window),
         NEW ages \in [Ages(window) -> Nat]
  PROVE  Seen(ages, threshold) \in [Ages(window) -> Nat]
<1>1. 0 \in Ages(window)
  BY DEF Tracked, Ages
<1>2. ages[0] \in Nat
  BY <1>1
<1>3. Least(ages[0] + 1, threshold) \in Nat
  BY <1>2 DEF Least, Tracked
<1> QED
  BY <1>1, <1>3 DEF Seen

LEMMA OlderTypes ==
  ASSUME NEW window \in Int, NEW ages \in [Ages(window) -> Nat]
  PROVE  Older(ages) \in [Ages(window) -> Nat]
  BY DEF Older, Ages

LEMMA QueriesTyped ==
  ASSUME WindowsTyped, NEW q \in Queries, AnalyzeQuery(q)
  PROVE  WindowsTyped'
<1>1. q.client \in Clients /\ q.base \in Bases /\ q.label \in Labels \cup {None}
  BY QueriesAssumption
<1>2. queryAges' \in [Clients -> [Ages(Policy.queryWindow) -> Nat]]
  <2>1. CASE Listed(q) \/ ~TracksQueries
    BY <2>1 DEF AnalyzeQuery, WindowsTyped
  <2>2. CASE ~(Listed(q) \/ ~TracksQueries)
    <3>1. queryAges' = [queryAges EXCEPT ![q.client] = QueriesWith(q)]
      BY <2>2 DEF AnalyzeQuery
    <3>2. /\ Policy.queryWindow \in Int /\ Policy.queryThreshold \in Int
          /\ Tracked(Policy.queryThreshold, Policy.queryWindow)
      BY <2>2, PolicyAssumption DEF TracksQueries
    <3>3. queryAges[q.client] \in [Ages(Policy.queryWindow) -> Nat]
      BY <1>1 DEF WindowsTyped
    <3>4. QueriesWith(q) \in [Ages(Policy.queryWindow) -> Nat]
      BY <3>2, <3>3, CountTypes DEF QueriesWith
    <3> QED
      BY <3>1, <3>4 DEF WindowsTyped
  <2> QED
    BY <2>1, <2>2
<1>3. subdomainAge' \in
        [Clients -> [Bases -> [Labels -> {Policy.subdomainWindow} \cup 0..Policy.subdomainWindow]]]
  <2>1. CASE Listed(q) \/ TooManyQueries(q) \/ ~TracksSubdomains \/ q.label = None
    BY <2>1 DEF AnalyzeQuery, WindowsTyped
  <2>2. CASE ~(Listed(q) \/ TooManyQueries(q) \/ ~TracksSubdomains \/ q.label = None)
    <3>1. subdomainAge' = [subdomainAge EXCEPT ![q.client][q.base] = LabelsWith(q)]
      BY <2>2 DEF AnalyzeQuery
    <3>2. 0 \in 0 .. Policy.subdomainWindow
      BY <2>2, PolicyAssumption DEF TracksSubdomains, Tracked
    <3>3. LabelsWith(q) \in [Labels -> {Policy.subdomainWindow} \cup 0..Policy.subdomainWindow]
      BY <1>1, <2>2, <3>2 DEF LabelsWith, WindowsTyped
    <3> QED
      BY <1>1, <3>1, <3>3 DEF WindowsTyped
  <2> QED
    BY <2>1, <2>2
<1>4. nxAges' = nxAges
  BY DEF AnalyzeQuery
<1> QED
  BY <1>2, <1>3, <1>4 DEF WindowsTyped

LEMMA ResponsesTyped ==
  ASSUME WindowsTyped, NEW c \in Clients, NEW result, AnalyzeResponse(c, result)
  PROVE  WindowsTyped'
<1>1. queryAges' = queryAges /\ subdomainAge' = subdomainAge
  BY DEF AnalyzeResponse
<1>2. nxAges' \in [Clients -> [Ages(Policy.nxWindow) -> Nat]]
  <2>1. CASE ~CountsNXDomain(result)
    BY <2>1 DEF AnalyzeResponse, WindowsTyped
  <2>2. CASE CountsNXDomain(result)
    <3>1. nxAges' = [nxAges EXCEPT ![c] = NXDomainsWith(c)]
      BY <2>2 DEF AnalyzeResponse
    <3>2. /\ Policy.nxWindow \in Int /\ Policy.nxThreshold \in Int
          /\ Tracked(Policy.nxThreshold, Policy.nxWindow)
      BY <2>2, PolicyAssumption DEF CountsNXDomain, TracksNXDomain
    <3>3. nxAges[c] \in [Ages(Policy.nxWindow) -> Nat]
      BY DEF WindowsTyped
    <3>4. NXDomainsWith(c) \in [Ages(Policy.nxWindow) -> Nat]
      BY <3>2, <3>3, CountTypes DEF NXDomainsWith
    <3> QED
      BY <3>1, <3>4 DEF WindowsTyped
  <2> QED
    BY <2>1, <2>2
<1> QED
  BY <1>1, <1>2 DEF WindowsTyped

LEMMA WindowsOK ==
  ASSUME IInv, WindowsTyped, [Next]_vars
  PROVE  WindowsTyped'
<1>1. CASE UNCHANGED windows
  BY <1>1 DEF windows, WindowsTyped
<1>2. ASSUME NEW w \in Workers, NEW q \in Queries, Refuse(w, q) \/ Admit(w, q)
      PROVE  WindowsTyped'
  <2>1. AnalyzeQuery(q)
    BY <1>2 DEF Refuse, Admit, Arrive
  <2> QED
    BY <2>1, QueriesTyped
<1>3. ASSUME NEW w \in Workers, Resolve(w)
      PROVE  WindowsTyped'
  <2>1. query[w] \in Queries
    BY <1>3 DEF Resolve, IInv, HandlersOK, HandlerOK, AtWork
  <2>2. query[w].client \in Clients
    BY <2>1, QueriesAssumption
  <2>3. \E result : AnalyzeResponse(query[w].client, result)
    BY <1>3 DEF Resolve
  <2> QED
    BY <2>2, <2>3, ResponsesTyped
<1>4. CASE Reload
  BY <1>4 DEF Reload, WindowsReset, WindowsTyped, Empty
<1>5. CASE Tick
  <2>1. /\ Policy.queryWindow \in Int /\ Policy.nxWindow \in Int /\ Policy.subdomainWindow \in Int
    BY PolicyAssumption
  <2>2. /\ queryAges' = [c \in Clients |-> Older(queryAges[c])]
        /\ nxAges' = [c \in Clients |-> Older(nxAges[c])]
        /\ subdomainAge' =
             [c \in Clients |-> [b \in Bases |-> [l \in Labels |->
                Least(subdomainAge[c][b][l] + 1, Policy.subdomainWindow)]]]
    BY <1>5 DEF Tick, WindowsAge
  <2>3. \A c \in Clients : Older(queryAges[c]) \in [Ages(Policy.queryWindow) -> Nat]
    BY <2>1, OlderTypes DEF WindowsTyped
  <2>4. \A c \in Clients : Older(nxAges[c]) \in [Ages(Policy.nxWindow) -> Nat]
    BY <2>1, OlderTypes DEF WindowsTyped
  <2>5. \A age \in {Policy.subdomainWindow} \cup 0..Policy.subdomainWindow :
          Least(age + 1, Policy.subdomainWindow) \in {Policy.subdomainWindow} \cup 0..Policy.subdomainWindow
    BY <2>1 DEF Least
  <2>6. \A c \in Clients, b \in Bases, l \in Labels :
          Least(subdomainAge[c][b][l] + 1, Policy.subdomainWindow)
            \in {Policy.subdomainWindow} \cup 0..Policy.subdomainWindow
    BY <2>5 DEF WindowsTyped
  <2> QED
    BY <2>2, <2>3, <2>4, <2>6 DEF WindowsTyped
<1>6. ASSUME NEW w \in Workers, Deliver(w) \/ WriteReply(w) \/ GiveUp(w) \/ Finish(w)
      PROVE  UNCHANGED windows
  BY <1>6 DEF Deliver, WriteReply, GiveUp, Finish, windows
<1> QED
  BY <1>1, <1>2, <1>3, <1>4, <1>5, <1>6 DEF Next, Serve, vars

-----------------------------------------------------------------------------
(* Counting.                                                               *)

\* As a set of pairs the events of a window are finitely many.
LEMMA WithinFacts ==
  ASSUME NEW window \in Int, NEW threshold \in Int, NEW ages \in [Ages(window) -> Nat],
         \A a \in Ages(window) : ages[a] <= threshold
  PROVE  /\ IsFiniteSet(Within(ages)) /\ Total(ages) \in Nat
         /\ Within(ages) = {e \in Ages(window) \X Nat : e[2] \in 1 .. ages[e[1]]}
<1>1. Within(ages) = {e \in Ages(window) \X Nat : e[2] \in 1 .. ages[e[1]]}
  <2>1. ASSUME NEW e \in Within(ages)
        PROVE  e \in Ages(window) \X Nat /\ e[2] \in 1 .. ages[e[1]]
    BY DEF Within
  <2>2. ASSUME NEW e \in Ages(window) \X Nat, e[2] \in 1 .. ages[e[1]]
        PROVE  e \in Within(ages)
    <3>1. e = << e[1], e[2] >> /\ e[1] \in DOMAIN ages
      OBVIOUS
    <3>2. e \in {e[1]} \X (1 .. ages[e[1]])
      BY <2>2, <3>1
    <3> QED
      BY <3>1, <3>2 DEF Within
  <2> QED
    BY <2>1, <2>2
<1>2. IsFiniteSet(Ages(window)) /\ IsFiniteSet(1 .. threshold)
  BY FS_Interval DEF Ages
<1>3. IsFiniteSet(Ages(window) \X (1 .. threshold))
  BY <1>2, FS_Product
<1>4. Within(ages) \subseteq Ages(window) \X (1 .. threshold)
  <2> SUFFICES ASSUME NEW e \in Within(ages)
               PROVE  e \in Ages(window) \X (1 .. threshold)
    OBVIOUS
  <2>1. e \in Ages(window) \X Nat /\ e[2] \in 1 .. ages[e[1]]
    BY <1>1
  <2>2. ages[e[1]] <= threshold /\ ages[e[1]] \in Nat
    BY <2>1
  <2>3. e[2] \in 1 .. threshold
    BY <2>1, <2>2
  <2> QED
    BY <2>1, <2>3
<1>5. IsFiniteSet(Within(ages))
  BY <1>3, <1>4, FS_Subset
<1> QED
  BY <1>1, <1>5, FS_CardinalityType DEF Total

\* A window that holds more of every age holds more.
LEMMA MoreEvents ==
  ASSUME NEW window \in Int, NEW threshold \in Int,
         NEW some \in [Ages(window) -> Nat], NEW all \in [Ages(window) -> Nat],
         \A a \in Ages(window) : some[a] <= all[a] /\ all[a] <= threshold
  PROVE  /\ Total(some) \in Nat /\ Total(all) \in Nat /\ Total(some) <= Total(all)
<1>1. \A a \in Ages(window) : some[a] <= threshold
  OBVIOUS
<1>2. /\ IsFiniteSet(Within(some)) /\ Total(some) \in Nat
      /\ Within(some) = {e \in Ages(window) \X Nat : e[2] \in 1 .. some[e[1]]}
  BY <1>1, WithinFacts
<1>3. /\ IsFiniteSet(Within(all)) /\ Total(all) \in Nat
      /\ Within(all) = {e \in Ages(window) \X Nat : e[2] \in 1 .. all[e[1]]}
  BY WithinFacts
<1>4. Within(some) \subseteq Within(all)
  <2> SUFFICES ASSUME NEW e \in Ages(window) \X Nat, e[2] \in 1 .. some[e[1]]
               PROVE  e[2] \in 1 .. all[e[1]]
    BY <1>2, <1>3
  <2>1. e[1] \in Ages(window)
    OBVIOUS
  <2>2. some[e[1]] <= all[e[1]] /\ some[e[1]] \in Nat /\ all[e[1]] \in Nat
    BY <2>1
  <2> QED
    BY <2>2
<1> QED
  BY <1>2, <1>3, <1>4, FS_Subset DEF Total

\* Time lets events drop out and brings none.
LEMMA FewerWhenOlder ==
  ASSUME NEW window \in Int, NEW threshold \in Nat, NEW ages \in [Ages(window) -> Nat],
         \A a \in Ages(window) : ages[a] <= threshold
  PROVE  /\ Older(ages) \in [Ages(window) -> Nat] /\ \A a \in Ages(window) : Older(ages)[a] <= threshold
         /\ Total(Older(ages)) \in Nat /\ Total(Older(ages)) <= Total(ages)
<1> DEFINE older == Older(ages)
<1>1. /\ older \in [Ages(window) -> Nat]
      /\ \A a \in Ages(window) : older[a] = IF a = 0 THEN 0 ELSE ages[a - 1]
      /\ \A a \in Ages(window) \ {0} : a - 1 \in Ages(window)
      /\ \A a \in Ages(window) : older[a] <= threshold
  BY DEF Older, Ages
<1> HIDE DEF older
<1>2. /\ IsFiniteSet(Within(older)) /\ Total(older) \in Nat
      /\ Within(older) = {e \in Ages(window) \X Nat : e[2] \in 1 .. older[e[1]]}
  BY <1>1, WithinFacts
<1>3. /\ IsFiniteSet(Within(ages)) /\ Total(ages) \in Nat
      /\ Within(ages) = {e \in Ages(window) \X Nat : e[2] \in 1 .. ages[e[1]]}
  BY WithinFacts
<1> DEFINE before == [e \in Within(older) |-> << e[1] - 1, e[2] >>]
<1>4. \A e \in Within(older) : << e[1] - 1, e[2] >> \in Within(ages) /\ e[1] \in Int
  <2> SUFFICES ASSUME NEW e \in Within(older)
               PROVE  << e[1] - 1, e[2] >> \in Within(ages) /\ e[1] \in Int
    OBVIOUS
  <2>1. e \in Ages(window) \X Nat /\ e[2] \in 1 .. older[e[1]]
    BY <1>2
  <2>2. e[1] # 0
    BY <2>1, <1>1
  <2>3. e[1] \in Ages(window) \ {0}
    BY <2>1, <2>2
  <2>4. e[1] - 1 \in Ages(window) /\ older[e[1]] = ages[e[1] - 1]
    BY <2>3, <1>1
  <2>5. e[1] \in Int
    BY <2>3 DEF Ages
  <2> QED
    BY <2>1, <2>4, <2>5, <1>3
<1>5. before \in Injection(Within(older), Within(ages))
  <2>1. before \in [Within(older) -> Within(ages)]
    BY <1>4
  <2>2. \A d, e \in Within(older) : before[d] = before[e] => d = e
    <3> SUFFICES ASSUME NEW d \in Within(older), NEW e \in Within(older), before[d] = before[e]
                 PROVE  d = e
      OBVIOUS
    <3>1. d = << d[1], d[2] >> /\ e = << e[1], e[2] >>
      BY <1>2
    <3>2. d[1] - 1 = e[1] - 1 /\ d[2] = e[2]
      OBVIOUS
    <3>3. d[1] = e[1]
      BY <3>2, <1>4
    <3> QED
      BY <3>1, <3>2, <3>3
  <2> QED
    BY <2>1, <2>2 DEF Injection, IsInjective
<1>6. Total(older) <= Total(ages)
  BY <1>3, <1>5, FS_Injection DEF Total
<1> QED
  BY <1>1, <1>2, <1>6 DEF older

\* What a window counts covers what was let through, and that is below the
\* threshold.
Covered(window, threshold, counted, passed) ==
  /\ counted \in [Ages(window) -> Nat] /\ passed \in [Ages(window) -> Nat]
  /\ \A a \in Ages(window) : passed[a] <= counted[a] /\ counted[a] <= threshold
  /\ Total(passed) < threshold

CInv ==
  /\ TracksQueries => \A c \in Clients :
       Covered(Policy.queryWindow, Policy.queryThreshold, queryAges[c], admitted[c])
  /\ TracksNXDomain => \A c \in Clients :
       Covered(Policy.nxWindow, Policy.nxThreshold, nxAges[c], missing[c])
  /\ DOMAIN queryAges = Clients /\ DOMAIN admitted = Clients
  /\ DOMAIN nxAges = Clients /\ DOMAIN missing = Clients

LEMMA EmptyCovered ==
  ASSUME NEW window \in Int, NEW threshold \in Int, Tracked(threshold, window)
  PROVE  Covered(window, threshold, Empty(window), Empty(window))
<1> DEFINE none == Empty(window)
<1>1. /\ none \in [Ages(window) -> Nat] /\ \A a \in Ages(window) : none[a] = 0
      /\ DOMAIN none = Ages(window) /\ threshold > 0
  BY DEF Empty, Tracked
<1> HIDE DEF none
<1>2. Within(none) = {}
  BY <1>1 DEF Within
<1>3. Total(none) = 0
  BY <1>2, FS_EmptySet DEF Total
<1> QED
  BY <1>1, <1>3 DEF Covered, none

LEMMA OlderCovered ==
  ASSUME NEW window \in Int, NEW threshold \in Int, Tracked(threshold, window),
         NEW counted, NEW passed, Covered(window, threshold, counted, passed)
  PROVE  Covered(window, threshold, Older(counted), Elapse(passed))
<1>1. /\ counted \in [Ages(window) -> Nat] /\ passed \in [Ages(window) -> Nat] /\ threshold \in Nat
      /\ \A a \in Ages(window) : passed[a] <= counted[a] /\ counted[a] <= threshold /\ passed[a] <= threshold
      /\ Total(passed) < threshold
  BY DEF Covered, Tracked
<1>2. Elapse(passed) = Older(passed)
  BY DEF Elapse, Older
<1>3. /\ Older(passed) \in [Ages(window) -> Nat] /\ Total(Older(passed)) \in Nat
      /\ Total(Older(passed)) <= Total(passed)
  BY <1>1, FewerWhenOlder
<1>4. /\ Older(counted) \in [Ages(window) -> Nat]
      /\ \A a \in Ages(window) : Older(counted)[a] <= threshold
  BY <1>1, FewerWhenOlder
<1>5. Total(passed) \in Nat
  BY <1>1, WithinFacts
<1>6. \A a \in Ages(window) : Older(passed)[a] <= Older(counted)[a]
  BY <1>1 DEF Older, Ages
<1> QED
  BY <1>1, <1>2, <1>3, <1>4, <1>5, <1>6 DEF Covered

\* One more event, let through only while the count stays below the threshold.
LEMMA SeenCovered ==
  ASSUME NEW window \in Int, NEW threshold \in Int, Tracked(threshold, window),
         NEW counted, NEW passed, Covered(window, threshold, counted, passed)
  PROVE  /\ Covered(window, threshold, Seen(counted, threshold), passed)
         /\ ~Over(Seen(counted, threshold), threshold) =>
              Covered(window, threshold, Seen(counted, threshold), Count(passed, threshold))
<1> DEFINE more == Seen(counted, threshold)
           let  == Count(passed, threshold)
<1>1. /\ counted \in [Ages(window) -> Nat] /\ passed \in [Ages(window) -> Nat] /\ threshold \in Nat
      /\ \A a \in Ages(window) : passed[a] <= counted[a] /\ counted[a] <= threshold
      /\ Total(passed) < threshold
  BY DEF Covered, Tracked
<1>2. 0 \in Ages(window)
  BY DEF Tracked, Ages
<1>3. /\ more \in [Ages(window) -> Nat] /\ let \in [Ages(window) -> Nat]
      /\ \A a \in Ages(window) \ {0} : more[a] = counted[a] /\ let[a] = passed[a]
      /\ more[0] = Least(counted[0] + 1, threshold) /\ let[0] = Least(passed[0] + 1, threshold)
  <2>1. counted[0] \in Nat /\ passed[0] \in Nat
    BY <1>1, <1>2
  <2>2. Least(counted[0] + 1, threshold) \in Nat /\ Least(passed[0] + 1, threshold) \in Nat
    BY <2>1, <1>1 DEF Least
  <2>3. let = Seen(passed, threshold)
    BY <1>1, <1>2 DEF Count
  <2> QED
    BY <1>1, <1>2, <2>2, <2>3 DEF Seen
<1> HIDE DEF more, let
<1>4. \A a \in Ages(window) : /\ passed[a] <= more[a] /\ let[a] <= more[a] /\ more[a] <= threshold
  BY <1>1, <1>2, <1>3 DEF Least
<1>5. Covered(window, threshold, more, passed)
  BY <1>1, <1>3, <1>4 DEF Covered
<1>6. ASSUME ~Over(more, threshold)
      PROVE  Covered(window, threshold, more, let)
  <2>1. Total(let) \in Nat /\ Total(more) \in Nat /\ Total(let) <= Total(more)
    BY <1>3, <1>4, MoreEvents
  <2>2. Total(more) < threshold
    BY <2>1, <1>6, <1>1 DEF Over
  <2>3. Total(let) < threshold
    BY <2>1, <2>2, <1>1
  <2> QED
    BY <1>3, <1>4, <2>3 DEF Covered
<1> QED
  BY <1>5, <1>6 DEF more, let

LEMMA WindowNumbers ==
  /\ Policy.queryWindow \in Int /\ Policy.queryThreshold \in Int
  /\ Policy.nxWindow \in Int /\ Policy.nxThreshold \in Int
  /\ TracksQueries => Tracked(Policy.queryThreshold, Policy.queryWindow)
  /\ TracksNXDomain => Tracked(Policy.nxThreshold, Policy.nxWindow)
  BY PolicyAssumption DEF TracksQueries, TracksNXDomain

LEMMA CleanSlate ==
  ASSUME /\ queryAges' = [c \in Clients |-> Empty(Policy.queryWindow)]
         /\ nxAges' = [c \in Clients |-> Empty(Policy.nxWindow)]
         /\ admitted' = [c \in Clients |-> Empty(Policy.queryWindow)]
         /\ missing' = [c \in Clients |-> Empty(Policy.nxWindow)]
  PROVE  CInv'
<1>1. TracksQueries =>
        Covered(Policy.queryWindow, Policy.queryThreshold,
                Empty(Policy.queryWindow), Empty(Policy.queryWindow))
  BY WindowNumbers, EmptyCovered
<1>2. TracksNXDomain =>
        Covered(Policy.nxWindow, Policy.nxThreshold, Empty(Policy.nxWindow), Empty(Policy.nxWindow))
  BY WindowNumbers, EmptyCovered
<1> QED
  BY <1>1, <1>2 DEF CInv

LEMMA CountsAtInit == Init => CInv
<1> SUFFICES ASSUME Init PROVE CInv
  OBVIOUS
<1>1. TracksQueries =>
        Covered(Policy.queryWindow, Policy.queryThreshold,
                Empty(Policy.queryWindow), Empty(Policy.queryWindow))
  BY WindowNumbers, EmptyCovered
<1>2. TracksNXDomain =>
        Covered(Policy.nxWindow, Policy.nxThreshold, Empty(Policy.nxWindow), Empty(Policy.nxWindow))
  BY WindowNumbers, EmptyCovered
<1>3. /\ queryAges = [c \in Clients |-> Empty(Policy.queryWindow)]
      /\ nxAges = [c \in Clients |-> Empty(Policy.nxWindow)]
      /\ admitted = [c \in Clients |-> Empty(Policy.queryWindow)]
      /\ missing = [c \in Clients |-> Empty(Policy.nxWindow)]
  BY DEF Init, WindowsInit
<1> QED
  BY <1>1, <1>2, <1>3 DEF CInv

LEMMA ArriveCounts ==
  ASSUME CInv, NEW w \in Workers, NEW q \in Queries, Arrive(w, q)
  PROVE  CInv'
<1> DEFINE c == q.client
<1>1. /\ queryAges' = IF Listed(q) \/ ~TracksQueries THEN queryAges
                      ELSE [queryAges EXCEPT ![c] = QueriesWith(q)]
      /\ admitted' = IF QueryFinding(q) = QueryRate \/ Listed(q) THEN admitted
                     ELSE [admitted EXCEPT ![c] = Count(@, Policy.queryThreshold)]
      /\ nxAges' = nxAges /\ missing' = missing
  BY DEF Arrive, AnalyzeQuery
<1>2. c \in Clients
  BY QueriesAssumption
<1>3. /\ DOMAIN queryAges' = Clients /\ DOMAIN admitted' = Clients
      /\ DOMAIN nxAges' = Clients /\ DOMAIN missing' = Clients
  BY <1>1 DEF CInv
<1>4. ASSUME TracksQueries, NEW d \in Clients
      PROVE  Covered(Policy.queryWindow, Policy.queryThreshold, queryAges'[d], admitted'[d])
  <2>1. Covered(Policy.queryWindow, Policy.queryThreshold, queryAges[d], admitted[d])
    BY <1>4 DEF CInv
  <2>2. CASE d # c \/ Listed(q)
    <3>1. queryAges'[d] = queryAges[d] /\ admitted'[d] = admitted[d]
      BY <2>2, <1>1 DEF CInv
    <3> QED
      BY <2>1, <3>1
  <2>3. CASE d = c /\ ~Listed(q)
    <3>1. queryAges'[d] = Seen(queryAges[d], Policy.queryThreshold)
      BY <2>3, <1>1, <1>2, <1>4 DEF CInv, QueriesWith
    <3>2. CASE QueryFinding(q) = QueryRate
      <4>1. admitted'[d] = admitted[d]
        BY <3>2, <1>1
      <4> QED
        BY <2>1, <3>1, <4>1, <1>4, WindowNumbers, SeenCovered
    <3>3. CASE QueryFinding(q) # QueryRate
      <4>1. admitted'[d] = Count(admitted[d], Policy.queryThreshold)
        BY <2>3, <3>3, <1>1, <1>2 DEF CInv
      <4>2. ~TooManyQueries(q)
        BY <2>3, <3>3, QueryFindings
      <4>3. ~Over(Seen(queryAges[d], Policy.queryThreshold), Policy.queryThreshold)
        BY <4>2, <2>3, <1>4 DEF TooManyQueries, QueriesWith
      <4> QED
        BY <2>1, <3>1, <4>1, <4>3, <1>4, WindowNumbers, SeenCovered
    <3> QED
      BY <3>2, <3>3
  <2> QED
    BY <2>2, <2>3
<1> QED
  BY <1>1, <1>3, <1>4 DEF CInv

LEMMA ResolveCounts ==
  ASSUME IInv, CInv, NEW w \in Workers, Resolve(w)
  PROVE  CInv'
<1>1. PICK result \in Results(query[w]) :
        LET c       == query[w].client
            finding == Strongest(pre[w], ResponseFinding(c, result))
        IN  /\ AnalyzeResponse(c, result)
            /\ missing' = IF \/ ~CountsNXDomain(result) \/ Refuses(finding)
                             \/ Score[pre[w].risk] >= Score[NXFlood.risk] THEN missing
                          ELSE [missing EXCEPT ![c] = Count(@, Policy.nxThreshold)]
  BY DEF Resolve
<1> DEFINE c == query[w].client
           finding == Strongest(pre[w], ResponseFinding(c, result))
<1>2. /\ query[w] \in Queries /\ pre[w] \in Findings
  BY DEF Resolve, IInv, HandlersOK, HandlerOK, AtWork
<1>3. c \in Clients
  BY <1>2, QueriesAssumption
<1>4. /\ nxAges' = IF CountsNXDomain(result) THEN [nxAges EXCEPT ![c] = NXDomainsWith(c)] ELSE nxAges
      /\ queryAges' = queryAges /\ admitted' = admitted
      /\ missing' = IF \/ ~CountsNXDomain(result) \/ Refuses(finding)
                       \/ Score[pre[w].risk] >= Score[NXFlood.risk] THEN missing
                    ELSE [missing EXCEPT ![c] = Count(@, Policy.nxThreshold)]
  BY <1>1 DEF AnalyzeResponse, Resolve
<1>5. /\ DOMAIN queryAges' = Clients /\ DOMAIN admitted' = Clients
      /\ DOMAIN nxAges' = Clients /\ DOMAIN missing' = Clients
  BY <1>4 DEF CInv
<1>6. ASSUME CountsNXDomain(result), ~Refuses(finding), ~(Score[pre[w].risk] >= Score[NXFlood.risk])
      PROVE  ~Over(NXDomainsWith(c), Policy.nxThreshold)
  <2> SUFFICES ASSUME Over(NXDomainsWith(c), Policy.nxThreshold) PROVE FALSE
    OBVIOUS
  <2>1. ResponseFinding(c, result) = NXFlood
    BY <1>6, ResponseFindings
  <2>2. Score[NXFlood.risk] > Score[pre[w].risk]
    BY <1>2, <1>6 DEF Findings, Score, NXFlood, Finding
  <2>3. finding = NXFlood
    BY <2>1, <2>2 DEF Strongest
  <2>4. Refuses(NXFlood)
    BY DEF Refuses, NXFlood, Finding
  <2> QED
    BY <2>3, <2>4, <1>6
<1> HIDE DEF finding
<1>7. ASSUME TracksNXDomain, NEW d \in Clients
      PROVE  Covered(Policy.nxWindow, Policy.nxThreshold, nxAges'[d], missing'[d])
  <2>1. Covered(Policy.nxWindow, Policy.nxThreshold, nxAges[d], missing[d])
    BY <1>7 DEF CInv
  <2>2. CASE d # c \/ ~CountsNXDomain(result)
    <3>1. nxAges'[d] = nxAges[d] /\ missing'[d] = missing[d]
      BY <2>2, <1>4 DEF CInv
    <3> QED
      BY <2>1, <3>1
  <2>3. CASE d = c /\ CountsNXDomain(result)
    <3>1. nxAges'[d] = Seen(nxAges[d], Policy.nxThreshold)
      BY <2>3, <1>3, <1>4 DEF CInv, NXDomainsWith
    <3>2. CASE Refuses(finding) \/ Score[pre[w].risk] >= Score[NXFlood.risk]
      <4>1. missing'[d] = missing[d]
        BY <3>2, <1>4
      <4> QED
        BY <2>1, <3>1, <4>1, <1>7, WindowNumbers, SeenCovered
    <3>3. CASE ~(Refuses(finding) \/ Score[pre[w].risk] >= Score[NXFlood.risk])
      <4>1. missing'[d] = Count(missing[d], Policy.nxThreshold)
        BY <2>3, <3>3, <1>3, <1>4 DEF CInv
      <4>2. ~Over(Seen(nxAges[d], Policy.nxThreshold), Policy.nxThreshold)
        BY <1>6, <2>3, <3>3 DEF NXDomainsWith
      <4> QED
        BY <2>1, <3>1, <4>1, <4>2, <1>7, WindowNumbers, SeenCovered
    <3> QED
      BY <3>2, <3>3
  <2> QED
    BY <2>2, <2>3
<1> QED
  BY <1>4, <1>5, <1>7 DEF CInv

LEMMA TickCounts ==
  ASSUME CInv, Tick
  PROVE  CInv'
<1>1. /\ queryAges' = [c \in Clients |-> Older(queryAges[c])]
      /\ nxAges' = [c \in Clients |-> Older(nxAges[c])]
      /\ admitted' = [c \in Clients |-> Elapse(admitted[c])]
      /\ missing' = [c \in Clients |-> Elapse(missing[c])]
  BY DEF Tick, WindowsAge
<1>2. ASSUME TracksQueries, NEW c \in Clients
      PROVE  Covered(Policy.queryWindow, Policy.queryThreshold, queryAges'[c], admitted'[c])
  <2>1. Covered(Policy.queryWindow, Policy.queryThreshold, queryAges[c], admitted[c])
    BY <1>2 DEF CInv
  <2> QED
    BY <2>1, <1>1, <1>2, WindowNumbers, OlderCovered
<1>3. ASSUME TracksNXDomain, NEW c \in Clients
      PROVE  Covered(Policy.nxWindow, Policy.nxThreshold, nxAges'[c], missing'[c])
  <2>1. Covered(Policy.nxWindow, Policy.nxThreshold, nxAges[c], missing[c])
    BY <1>3 DEF CInv
  <2> QED
    BY <2>1, <1>1, <1>3, WindowNumbers, OlderCovered
<1> QED
  BY <1>1, <1>2, <1>3 DEF CInv

LEMMA CountsOK ==
  ASSUME IInv, CInv, [Next]_vars
  PROVE  CInv'
<1>1. CASE UNCHANGED << queryAges, nxAges, admitted, missing >>
  BY <1>1 DEF CInv
<1>2. ASSUME NEW w \in Workers, NEW q \in Queries, Refuse(w, q) \/ Admit(w, q)
      PROVE  CInv'
  BY <1>2, ArriveCounts DEF Refuse, Admit
<1>3. ASSUME NEW w \in Workers, Resolve(w)
      PROVE  CInv'
  BY <1>3, ResolveCounts
<1>4. CASE Reload
  BY <1>4, CleanSlate DEF Reload, WindowsReset
<1>5. CASE Tick
  BY <1>5, TickCounts
<1>6. ASSUME NEW w \in Workers, Deliver(w) \/ WriteReply(w) \/ GiveUp(w) \/ Finish(w)
      PROVE  UNCHANGED << queryAges, nxAges, admitted, missing >>
  BY <1>6 DEF Deliver, WriteReply, GiveUp, Finish, windows, historyVars
<1> QED
  BY <1>1, <1>2, <1>3, <1>4, <1>5, <1>6 DEF Next, Serve, vars, windows, historyVars

-----------------------------------------------------------------------------
(* The theorems.                                                           *)

LEMMA Invariance == Spec => [](IInv /\ WindowsTyped)
<1>1. Init => IInv /\ WindowsTyped
  BY InitOK
<1>2. (IInv /\ WindowsTyped) /\ [Next]_vars => (IInv /\ WindowsTyped)'
  BY NextOK, WindowsOK
<1> QED
  BY <1>1, <1>2, PTL DEF Spec

LEMMA TypeFollows == IInv /\ WindowsTyped => TypeOK
<1> SUFFICES ASSUME IInv, WindowsTyped PROVE TypeOK
  OBVIOUS
<1>1. ASSUME NEW w \in Workers
      PROVE  /\ pre[w] = None \/ pre[w] \in Findings
             /\ verdict[w] = None \/ verdict[w] \in Findings
             /\ reply[w] = None \/ reply[w].status \in Statuses
             /\ Len(events[w]) <= 1 /\ held[w] \in 0..Limit(w) /\ waited[w] \in 0..HookTimeout
  <2>1. HandlerOK(pc[w], query[w], pre[w], verdict[w], reply[w], events[w], held[w], dns[w], waited[w])
    BY DEF IInv, HandlersOK
  <2>2. pc[w] \in Steps /\ held[w] \in Nat /\ waited[w] \in Nat
    BY DEF IInv, Typed
  <2>3. /\ pre[w] = None \/ pre[w] \in Findings
        /\ verdict[w] = None \/ verdict[w] \in Findings
        /\ reply[w] = None \/ reply[w].status \in Statuses
    BY DEF IInv, Typed, Replies
  <2>4. waited[w] \in 0..HookTimeout
    BY <2>1, <2>2, TimeoutAssumption DEF HandlerOK, Waiting
  <2>5. held[w] \in 0..Limit(w)
    <3>1. CASE pc[w] = "resolve"
      <4>1. query[w].routed \in BOOLEAN
        BY <3>1, <2>1, QueriesAssumption DEF HandlerOK, AtWork
      <4> QED
        BY <3>1, <4>1, <2>1, <2>2, TimeoutAssumption DEF HandlerOK, AtWork, Limit
    <3>2. CASE pc[w] = "deliver"
      BY <3>2, <2>1, <2>2, TimeoutAssumption DEF HandlerOK, Concluded, Limit
    <3>3. CASE pc[w] \notin {"resolve", "deliver"}
      <4>1. held[w] = 0
        BY <3>3, <2>1, <2>2 DEF HandlerOK, AtRest, Concluded, Steps
      <4> QED
        BY <3>3, <4>1 DEF Limit
    <3> QED
      BY <3>1, <3>2, <3>3
  <2>6. CASE pc[w] \in {"idle", "resolve"}
    <3>1. events[w] = << >>
      BY <2>1, <2>6 DEF HandlerOK, AtRest, AtWork
    <3> QED
      BY <3>1, <2>3, <2>4, <2>5
  <2>7. CASE pc[w] \notin {"idle", "resolve"}
    <3>1. events[w] = << Event(verdict[w], reply[w].result) >>
      BY <2>1, <2>2, <2>7 DEF HandlerOK, Concluded, Steps
    <3>2. Len(events[w]) = 1
      BY <3>1
    <3> QED
      BY <3>2, <2>3, <2>4, <2>5
  <2> QED
    BY <2>6, <2>7
<1>2. /\ pc \in [Workers -> {"idle", "resolve", "deliver", "reply", "replied"}]
      /\ query \in [Workers -> Queries \cup {None}]
      /\ dns \in [Workers -> {"none", "waiting", "gaveup", "icann", "answer", "private",
                              "nxdomain", "servfail"}]
  BY DEF IInv, Typed, Steps, Outcomes
<1> QED
  BY <1>1, <1>2 DEF TypeOK, WindowsTyped

\* Every reachable state of the handlers, their hooks and the windows is well
\* typed; a handler appends one event and stays within its time limits.
THEOREM TypeCorrect == Spec => []TypeOK
  BY Invariance, TypeFollows, PTL

\* The one event of a query carries the action and the code of the reply, by
\* whichever of its exits the handler left.
THEOREM EventsTellTheReply == Spec => []AuditMatchesReply
<1>1. IInv => AuditMatchesReply
  <2> SUFFICES ASSUME IInv, NEW w \in Workers, pc[w] \in {"deliver", "reply", "replied"}
               PROVE  /\ Len(events[w]) = 1
                      /\ events[w][1].rcode = reply[w].result.rcode
                      /\ events[w][1].action = "block" <=> reply[w].status = 403
                      /\ events[w][1].action = "rate_limit" <=> reply[w].status = 429
    BY DEF AuditMatchesReply
  <2>1. events[w] = << Event(verdict[w], reply[w].result) >> /\ Fits(query[w], pre[w], verdict[w], reply[w])
    BY DEF IInv, HandlersOK, HandlerOK, Concluded
  <2>2. Len(events[w]) = 1 /\ events[w][1] = Event(verdict[w], reply[w].result)
    BY <2>1
  <2> QED
    BY <2>1, <2>2 DEF Event, Fits
<1> QED
  BY <1>1, Invariance, PTL

\* A name the lists refuse is answered with SERVFAIL or the sinkhole's
\* address: the hook neither gives up on it nor leaves it to recursion.
THEOREM RefusalsHold == Spec => []RefusedNamesStayRefused
<1>1. IInv => RefusedNamesStayRefused
  <2> SUFFICES ASSUME IInv, NEW w \in Workers, Refused(query[w]), dns[w] # "none"
               PROVE  dns[w] \in {"waiting", "servfail"} \cup
                        (IF "deny" \in query[w].lists THEN {} ELSE {"answer"})
    BY DEF RefusedNamesStayRefused, Refused
  <2>1. HandlerOK(pc[w], query[w], pre[w], verdict[w], reply[w], events[w], held[w], dns[w], waited[w])
    BY DEF IInv, HandlersOK
  <2>2. pc[w] \in Steps
    BY DEF IInv, Typed
  <2>3. pc[w] \in {"reply", "replied"}
    BY <2>1, <2>2 DEF HandlerOK, AtRest, AtWork, Concluded, Steps
  <2>4. CASE pc[w] = "reply"
    BY <2>1, <2>4 DEF HandlerOK, Concluded
  <2>5. CASE pc[w] = "replied"
    <3>1. /\ dns[w] = Applied(reply[w]) /\ Fits(query[w], pre[w], verdict[w], reply[w])
          /\ reply[w] \in Replies
      BY <2>1, <2>5 DEF HandlerOK, Concluded
    <3>2. CASE verdict[w].action = "block"
      <4>1. reply[w].status = 403 /\ reply[w].result.rcode = "SERVFAIL"
        BY <3>1, <3>2 DEF Fits, Refuses, Result
      <4> QED
        BY <3>1, <4>1 DEF Applied, ByRcode
    <3>3. CASE verdict[w].action = "sinkhole"
      <4>1. /\ reply[w] = Reply(200, Result("NOERROR", FALSE)) /\ "deny" \notin query[w].lists
        BY <3>1, <3>3 DEF Fits
      <4> QED
        BY <3>1, <4>1 DEF Applied, ByRcode, Reply, Result
    <3> QED
      BY <3>1, <3>2, <3>3 DEF Fits
  <2> QED
    BY <2>3, <2>4, <2>5
<1> QED
  BY <1>1, Invariance, PTL

\* A private address passes only with a query that had been rated high for a
\* rule of its own.
THEOREM PrivateAnswersAreKeptBack == Spec => []RebindingShield
<1>1. IInv => RebindingShield
  <2> SUFFICES ASSUME IInv, NEW w \in Workers, Policy.enabled, Policy.blockRebinding, dns[w] = "private"
               PROVE  pre[w].risk = "high"
    BY DEF RebindingShield
  <2>1. HandlerOK(pc[w], query[w], pre[w], verdict[w], reply[w], events[w], held[w], dns[w], waited[w])
    BY DEF IInv, HandlersOK
  <2>2. pc[w] = "replied"
    BY <2>1 DEF HandlerOK, AtRest, AtWork, Concluded, IInv, Typed, Steps
  <2>3. Applied(reply[w]) = "private" /\ Fits(query[w], pre[w], verdict[w], reply[w])
    BY <2>1, <2>2 DEF HandlerOK, Concluded
  <2>4. reply[w] \in Replies
    BY <2>1, <2>2 DEF HandlerOK, Concluded
  <2>5. reply[w].result.private
    BY <2>3, <2>4 DEF Applied, ByRcode, Replies, AllResults, Rcodes
  <2> QED
    BY <2>3, <2>5 DEF Fits
<1> QED
  BY <1>1, Invariance, PTL

\* While the hook waits a routed name stays with the runtime, and a name
\* without a route goes to recursion unless a rule applied.
THEOREM NamesGoWhereTheyBelong == Spec => []RightResolver
<1>1. IInv => RightResolver
  <2> SUFFICES ASSUME IInv, NEW w \in Workers
               PROVE  /\ dns[w] = "icann" => ~query[w].routed \/ reply[w].result.rcode = "OTHER"
                      /\ dns[w] \in {"answer", "private", "nxdomain", "servfail"} =>
                           query[w].routed \/ Refuses(verdict[w]) \/ verdict[w].action = "sinkhole"
    BY DEF RightResolver
  <2> SUFFICES ASSUME dns[w] \in {"icann", "answer", "private", "nxdomain", "servfail"}
               PROVE  /\ dns[w] = "icann" => ~query[w].routed \/ reply[w].result.rcode = "OTHER"
                      /\ dns[w] \in {"answer", "private", "nxdomain", "servfail"} =>
                           query[w].routed \/ Refuses(verdict[w]) \/ verdict[w].action = "sinkhole"
    OBVIOUS
  <2>1. HandlerOK(pc[w], query[w], pre[w], verdict[w], reply[w], events[w], held[w], dns[w], waited[w])
    BY DEF IInv, HandlersOK
  <2>2. pc[w] = "replied"
    BY <2>1 DEF HandlerOK, AtRest, AtWork, Concluded, IInv, Typed, Steps
  <2>3. /\ dns[w] = Applied(reply[w]) /\ Fits(query[w], pre[w], verdict[w], reply[w])
        /\ reply[w] \in Replies /\ query[w] \in Queries
    BY <2>1, <2>2 DEF HandlerOK, Concluded
  <2>4. reply[w].status \in {200, 403, 404, 429} /\ reply[w].result.rcode \in Rcodes
    BY <2>3 DEF Replies, AllResults, Statuses
  <2>5. CASE reply[w].status = 404
    BY <2>5, <2>3 DEF Fits, Applied
  <2>6. CASE reply[w].status \in {200, 403, 429}
    <3>1. dns[w] = ByRcode(reply[w].result)
      BY <2>6, <2>3 DEF Applied
    <3>2. dns[w] = "icann" => reply[w].result.rcode = "OTHER"
      BY <3>1, <2>4 DEF ByRcode, Rcodes
    <3>3. query[w].routed \/ Refuses(verdict[w]) \/ verdict[w].action = "sinkhole"
      BY <2>6, <2>3 DEF Fits, Refuses
    <3> QED
      BY <3>2, <3>3
  <2> QED
    BY <2>4, <2>5, <2>6
<1> QED
  BY <1>1, Invariance, PTL

LEMMA CountsInvariant == Spec => []CInv
<1>1. CInv /\ IInv /\ [Next]_vars => CInv'
  BY CountsOK
<1> QED
  BY <1>1, CountsAtInit, Invariance, PTL DEF Spec

\* However its queries are spread over handlers and time, a client gets fewer
\* of them past the rate limit in a window than the threshold.
THEOREM QueriesAreLimited == Spec => []QueryRateBound
<1>1. CInv => QueryRateBound
  BY DEF CInv, QueryRateBound, Covered
<1> QED
  BY <1>1, CountsInvariant, PTL

\* The same of NXDOMAIN results, the threshold of the flood rule, and queries
\* not rated high themselves.
THEOREM NXDomainsAreLimited == Spec => []NXDomainBound
<1>1. CInv => NXDomainBound
  BY DEF CInv, NXDomainBound, Covered
<1> QED
  BY <1>1, CountsInvariant, PTL

=============================================================================
