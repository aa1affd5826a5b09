---------------------------- MODULE LookupsProofs ---------------------------
(***************************************************************************)
(* Lookups implements LookupPromise, for any services, question types,     *)
(* fields, changes of the name, gateways and datagrams under way.          *)
(***************************************************************************)
EXTENDS Lookups, SequenceTheorems, TLAPS

-----------------------------------------------------------------------------
(* Fields and types.                                                       *)

\* A mapper knows no field of a name its service does not know, and yields
\* record types.
Sound(mapper) == "unknown" \notin DOMAIN mapper /\ \A f \in DOMAIN mapper : mapper[f] \in RRTypes

LEMMA SoundMapper ==
  ASSUME NEW mapper, Sound(mapper)
  PROVE  Mapped(mapper, Absent) = {} /\ \A h : Mapped(mapper, h) \subseteq RRTypes
  BY DEF Sound, Mapped, Absent

LEMMA Mappers ==
  /\ mapperOf("unstoppable-domains") = unstoppableRecordsFromMap
  /\ mapperOf("pns-polkadot") = pnsPolkadotRecordsFromData
  /\ mapperOf("space-id") = spaceIDRecords
  /\ mapperOf("tezos-domains") = tezosDomainRecords
  /\ mapperOf("aptos-names") = aptosNameRecords
  /\ mapperOf("solana-sns") = solanaSNSRecords
  /\ mapperOf("fio-handle") = fioHandleRecords
  /\ mapperOf("freename-fns") = freenameRecordsFromAPI
  /\ mapperOf("did-bit") = didDocumentRecords
  /\ mapperOf("openalias") = parseOpenAliasTXT
  /\ mapperOf("ada-handle") = adaHandleRecordsFromMap
  /\ mapperOf("ton-dns") = tonDNSRecords
  /\ mapperOf("suins") = suinsRecords
  /\ mapperOf("namecoin-bit") = namecoinRecordsFromMap
  /\ mapperOf("stacks-bns") = stacksBNSJSONRecords
  /\ mapperOf("remote") = tezosDomainRecords
  /\ mapperOf("ens") = [wallet |-> "WALLET", txt |-> "TXT", site |-> "URI"]
  /\ mapperOf("hns") = [a |-> "A", txt |-> "TXT", cname |-> "CNAME", wallet |-> "WALLET"]
<1>1. mapperOf("unstoppable-domains") = unstoppableRecordsFromMap
  BY ZenonT(30) DEF mapperOf, Chain, Dns
<1>2. mapperOf("pns-polkadot") = pnsPolkadotRecordsFromData
  BY ZenonT(30) DEF mapperOf, Chain, Dns
<1>3. mapperOf("space-id") = spaceIDRecords
  BY ZenonT(30) DEF mapperOf, Chain, Dns
<1>4. mapperOf("tezos-domains") = tezosDomainRecords
  BY ZenonT(30) DEF mapperOf, Chain, Dns
<1>5. mapperOf("aptos-names") = aptosNameRecords
  BY ZenonT(30) DEF mapperOf, Chain, Dns
<1>6. mapperOf("solana-sns") = solanaSNSRecords
  BY ZenonT(30) DEF mapperOf, Chain, Dns
<1>7. mapperOf("fio-handle") = fioHandleRecords
  BY ZenonT(30) DEF mapperOf, Chain, Dns
<1>8. mapperOf("freename-fns") = freenameRecordsFromAPI
  BY ZenonT(30) DEF mapperOf, Chain, Dns
<1>9. mapperOf("did-bit") = didDocumentRecords
  BY ZenonT(30) DEF mapperOf, Chain, Dns
<1>10. mapperOf("openalias") = parseOpenAliasTXT
  BY ZenonT(30) DEF mapperOf, Chain, Dns
<1>11. mapperOf("ada-handle") = adaHandleRecordsFromMap
  BY ZenonT(30) DEF mapperOf, Chain, Dns
<1>12. mapperOf("ton-dns") = tonDNSRecords
  BY ZenonT(30) DEF mapperOf, Chain, Dns
<1>13. mapperOf("suins") = suinsRecords
  BY ZenonT(30) DEF mapperOf, Chain, Dns
<1>14. mapperOf("namecoin-bit") = namecoinRecordsFromMap
  BY ZenonT(30) DEF mapperOf, Chain, Dns
<1>15. mapperOf("stacks-bns") = stacksBNSJSONRecords
  BY ZenonT(30) DEF mapperOf, Chain, Dns
<1>16. mapperOf("remote") = tezosDomainRecords
  BY ZenonT(30) DEF mapperOf, Chain, Dns
<1>17. mapperOf("ens") = [wallet |-> "WALLET", txt |-> "TXT", site |-> "URI"]
  BY ZenonT(30) DEF mapperOf, Chain, Dns
<1>18. mapperOf("hns") = [a |-> "A", txt |-> "TXT", cname |-> "CNAME", wallet |-> "WALLET"]
  BY ZenonT(30) DEF mapperOf, Chain, Dns
<1> QED
  BY <1>1, <1>2, <1>3, <1>4, <1>5, <1>6, <1>7, <1>8, <1>9, <1>10, <1>11, <1>12, <1>13, <1>14, <1>15, <1>16, <1>17, <1>18

LEMMA SoundRecords ==
  /\ Sound(unstoppableRecordsFromMap)
  /\ Sound(pnsPolkadotRecordsFromData)
  /\ Sound(spaceIDRecords)
  /\ Sound(tezosDomainRecords)
  /\ Sound(aptosNameRecords)
  /\ Sound(solanaSNSRecords)
  /\ Sound(fioHandleRecords)
  /\ Sound(freenameRecordsFromAPI)
  /\ Sound(didDocumentRecords)
  /\ Sound(parseOpenAliasTXT)
  /\ Sound(adaHandleRecordsFromMap)
  /\ Sound(tonDNSRecords)
  /\ Sound(suinsRecords)
  /\ Sound(namecoinRecordsFromMap)
  /\ Sound(stacksBNSJSONRecords)
  /\ Sound(stacksBNSLegacyZoneRecords)
  /\ Sound([wallet |-> "WALLET", txt |-> "TXT", site |-> "URI"])
  /\ Sound([a |-> "A", txt |-> "TXT", cname |-> "CNAME", wallet |-> "WALLET"])
<1>1. Sound(unstoppableRecordsFromMap)
  BY DEF Sound, RRTypes, unstoppableRecordsFromMap
<1>2. Sound(pnsPolkadotRecordsFromData)
  BY DEF Sound, RRTypes, pnsPolkadotRecordsFromData
<1>3. Sound(spaceIDRecords)
  BY DEF Sound, RRTypes, spaceIDRecords
<1>4. Sound(tezosDomainRecords)
  BY DEF Sound, RRTypes, tezosDomainRecords
<1>5. Sound(aptosNameRecords)
  BY DEF Sound, RRTypes, aptosNameRecords
<1>6. Sound(solanaSNSRecords)
  BY DEF Sound, RRTypes, solanaSNSRecords
<1>7. Sound(fioHandleRecords)
  BY DEF Sound, RRTypes, fioHandleRecords
<1>8. Sound(freenameRecordsFromAPI)
  BY DEF Sound, RRTypes, freenameRecordsFromAPI
<1>9. Sound(didDocumentRecords)
  BY DEF Sound, RRTypes, didDocumentRecords
<1>10. Sound(parseOpenAliasTXT)
  BY DEF Sound, RRTypes, parseOpenAliasTXT
<1>11. Sound(adaHandleRecordsFromMap)
  BY DEF Sound, RRTypes, adaHandleRecordsFromMap
<1>12. Sound(tonDNSRecords)
  BY DEF Sound, RRTypes, tonDNSRecords
<1>13. Sound(suinsRecords)
  BY DEF Sound, RRTypes, suinsRecords
<1>14. Sound(namecoinRecordsFromMap)
  BY DEF Sound, RRTypes, namecoinRecordsFromMap
<1>15. Sound(stacksBNSJSONRecords)
  BY DEF Sound, RRTypes, stacksBNSJSONRecords
<1>16. Sound(stacksBNSLegacyZoneRecords)
  BY DEF Sound, RRTypes, stacksBNSLegacyZoneRecords
<1>17. Sound([wallet |-> "WALLET", txt |-> "TXT", site |-> "URI"])
  BY DEF Sound, RRTypes
<1>18. Sound([a |-> "A", txt |-> "TXT", cname |-> "CNAME", wallet |-> "WALLET"])
  BY DEF Sound, RRTypes
<1> QED
  BY <1>1, <1>2, <1>3, <1>4, <1>5, <1>6, <1>7, <1>8, <1>9, <1>10, <1>11, <1>12, <1>13, <1>14, <1>15, <1>16, <1>17, <1>18

\* What a service holds has record types, and none when it does not know the
\* name.
LEMMA TypesAreTypes ==
  ASSUME NEW s \in ServiceNames
  PROVE  TypesOf(s, Absent) = {} /\ \A h : TypesOf(s, h) \subseteq RRTypes
<1>1. CASE s = "stacks-bns"
  <2>1. \A r : Sound(stacksBNSRecords(r))
    BY SoundRecords DEF stacksBNSRecords
  <2>2. \A h : TypesOf(s, h) = Mapped(stacksBNSRecords(Reply("data", h)), h)
    BY <1>1 DEF TypesOf
  <2> QED
    BY <2>1, <2>2, SoundMapper
<1>2. CASE s # "stacks-bns"
  <2>1. Sound(mapperOf(s))
    BY Mappers, SoundRecords DEF ServiceNames
  <2>2. \A h : TypesOf(s, h) = Mapped(mapperOf(s), h)
    BY <1>2 DEF TypesOf
  <2> QED
    BY <2>1, <2>2, SoundMapper
<1> QED
  BY <1>1, <1>2

-----------------------------------------------------------------------------
(* The resolvers of the HTTP services.                                     *)

\* A result that tells the truth about a name with these types, or fails.
Judged(types, result) ==
  \/ result.rcode = "SERVFAIL"
  \/ result = Missing /\ types = {}
  \/ result = Found(types, q)

LEMMA JudgeData ==
  ASSUME NEW r, NEW D, NEW B, NEW mapper, NEW e,
         r.kind \in D => Mapped(mapper, r.fields) = {}
  PROVE  Judged(Mapped(mapper, r.fields), Judge(r, q, D, B, mapper, e))
  BY DEF Judge, Judged, serviceFailure

LEMMA JudgeFault ==
  ASSUME NEW r, NEW D, NEW B, NEW mapper, NEW e, r.kind \notin D \cup B \cup {"data"}, NEW types
  PROVE  Judged(types, Judge(r, q, D, B, mapper, e))
  BY DEF Judge, Judged, serviceFailure

\* How a service that is judged by these rules answers a reply that is honest
\* or a fault.
LEMMA RulesJudge ==
  ASSUME NEW s, NEW h, NEW D, NEW B, NEW mapper, NEW e, NEW r \in HonestReplies(s, h) \cup Faults(s),
         r.kind # "noMethod", NEW types,
         h = Absent => types = {},
         h # Absent => types = Mapped(mapper, h),
         "data" \notin D, {"failed", "status", "garbled"} \cap (D \cup B) = {},
         s \in TellsErrors => "error" \notin D \cup B, s # "remote"
  PROVE  Judged(types, Judge(r, q, D, B, mapper, e))
<1>1. CASE r \in HonestReplies(s, h) /\ h = Absent
  <2>1. r.fields = {}
    BY <1>1 DEF HonestReplies, Reply
  <2>2. Mapped(mapper, r.fields) = {}
    BY <2>1 DEF Mapped
  <2> QED
    BY <1>1, <2>2, JudgeData
<1>2. CASE r \in HonestReplies(s, h) /\ h # Absent
  <2>1. r.fields = h /\ r.kind = "data"
    BY <1>2 DEF HonestReplies, Reply
  <2> QED
    BY <1>2, <2>1, JudgeData
<1>3. CASE r \in Faults(s)
  <2>1. r.kind \in {"failed", "status", "garbled"} \/ (s \in TellsErrors /\ r.kind = "error")
    BY <1>3 DEF Faults, Reply
  <2>2. "failed" # "data" /\ "status" # "data" /\ "garbled" # "data" /\ "error" # "data"
    OBVIOUS
  <2> QED
    BY <2>1, <2>2, JudgeFault
<1> QED
  BY <1>1, <1>2, <1>3

LEMMA Resolvers ==
  ASSUME NEW r
  PROVE  /\ Resolve("unstoppable-domains", r, q) = resolveUnstoppableResolutionAPI(r, q)
         /\ Resolve("pns-polkadot", r, q) = resolvePNSPolkadotAPI(r, q)
         /\ Resolve("space-id", r, q) = resolveSpaceIDAPI(r, q)
         /\ Resolve("tezos-domains", r, q) = resolveTezosDomainsAPI(r, q)
         /\ Resolve("aptos-names", r, q) = resolveAptosNamesAPI(r, q)
         /\ Resolve("solana-sns", r, q) = resolveSolanaSNSQuickNode(r, q)
         /\ Resolve("fio-handle", r, q) = resolveFIOChainAPI(r, q)
         /\ Resolve("freename-fns", r, q) = resolveFreenameResolutionAPI(r, q)
         /\ Resolve("did-bit", r, q) = resolveDIDUniversalResolver(r, q)
         /\ Resolve("openalias", r, q) = resolveOpenAliasDNSTXT(r, q)
         /\ Resolve("ada-handle", r, q) = resolveADAHandleAPI(r, q)
         /\ Resolve("ton-dns", r, q) = resolveTONCenterV3DNS(r, q)
         /\ Resolve("suins", r, q) = resolveSuiNSJSONRPC(r, q)
         /\ Resolve("namecoin-bit", r, q) = resolveNamecoinJSONRPC(r, q)
         /\ Resolve("stacks-bns", r, q) = resolveStacksBNSAPI(r, q)
         /\ Resolve("remote", r, q) = resolveRemote(r, q)
<1>1. Resolve("unstoppable-domains", r, q) = resolveUnstoppableResolutionAPI(r, q)
  BY ZenonT(30) DEF Resolve
<1>2. Resolve("pns-polkadot", r, q) = resolvePNSPolkadotAPI(r, q)
  BY ZenonT(30) DEF Resolve
<1>3. Resolve("space-id", r, q) = resolveSpaceIDAPI(r, q)
  BY ZenonT(30) DEF Resolve
<1>4. Resolve("tezos-domains", r, q) = resolveTezosDomainsAPI(r, q)
  BY ZenonT(30) DEF Resolve
<1>5. Resolve("aptos-names", r, q) = resolveAptosNamesAPI(r, q)
  BY ZenonT(30) DEF Resolve
<1>6. Resolve("solana-sns", r, q) = resolveSolanaSNSQuickNode(r, q)
  BY ZenonT(30) DEF Resolve
<1>7. Resolve("fio-handle", r, q) = resolveFIOChainAPI(r, q)
  BY ZenonT(30) DEF Resolve
<1>8. Resolve("freename-fns", r, q) = resolveFreenameResolutionAPI(r, q)
  BY ZenonT(30) DEF Resolve
<1>9. Resolve("did-bit", r, q) = resolveDIDUniversalResolver(r, q)
  BY ZenonT(30) DEF Resolve
<1>10. Resolve("openalias", r, q) = resolveOpenAliasDNSTXT(r, q)
  BY ZenonT(30) DEF Resolve
<1>11. Resolve("ada-handle", r, q) = resolveADAHandleAPI(r, q)
  BY ZenonT(30) DEF Resolve
<1>12. Resolve("ton-dns", r, q) = resolveTONCenterV3DNS(r, q)
  BY ZenonT(30) DEF Resolve
<1>13. Resolve("suins", r, q) = resolveSuiNSJSONRPC(r, q)
  BY ZenonT(30) DEF Resolve
<1>14. Resolve("namecoin-bit", r, q) = resolveNamecoinJSONRPC(r, q)
  BY ZenonT(30) DEF Resolve
<1>15. Resolve("stacks-bns", r, q) = resolveStacksBNSAPI(r, q)
  BY ZenonT(30) DEF Resolve
<1>16. Resolve("remote", r, q) = resolveRemote(r, q)
  BY ZenonT(30) DEF Resolve
<1> QED
  BY <1>1, <1>2, <1>3, <1>4, <1>5, <1>6, <1>7, <1>8, <1>9, <1>10, <1>11, <1>12, <1>13, <1>14, <1>15, <1>16

LEMMA ServiceJudged ==
  ASSUME NEW s \in ServiceNames \ (Chain \cup Dns), s # "remote", s # "stacks-bns", NEW h,
         NEW r \in HonestReplies(s, h) \cup Faults(s), r.kind # "noMethod",
         NEW D, NEW B, NEW e, Resolve(s, r, q) = Judge(r, q, D, B, mapperOf(s), e),
         "data" \notin D, {"failed", "status", "garbled"} \cap (D \cup B) = {},
         s \in TellsErrors => "error" \notin D \cup B
  PROVE  Judged(TypesOf(s, h), Resolve(s, r, q))
<1> DEFINE types  == TypesOf(s, h)
           mapper == mapperOf(s)
<1>1. h = Absent => types = {}
  BY TypesAreTypes
<1>2. h # Absent => types = Mapped(mapper, h)
  BY DEF TypesOf
<1>3. Resolve(s, r, q) = Judge(r, q, D, B, mapper, e)
  OBVIOUS
<1> HIDE DEF types, mapper
<1>4. Judged(types, Judge(r, q, D, B, mapper, e))
  BY <1>1, <1>2, RulesJudge
<1> QED
  BY <1>3, <1>4 DEF types

\* No service turns an honest reply into an untrue result, or a fault into
\* one that is not a failure - but for the "method not found" of a node.
LEMMA HttpJudged ==
  ASSUME NEW s \in ServiceNames \ (Chain \cup Dns), NEW h,
         NEW r \in HonestReplies(s, h) \cup Faults(s), r.kind # "noMethod"
  PROVE  Judged(TypesOf(s, h), Resolve(s, r, q))
<1>1. /\ h = Absent => TypesOf(s, h) = {}
      /\ s # "stacks-bns" => TypesOf(s, h) = Mapped(mapperOf(s), h)
      /\ s = "stacks-bns" => TypesOf(s, h) = Mapped(stacksBNSRecords(Reply("data", h)), h)
  BY TypesAreTypes DEF TypesOf
<1>2. CASE s = "unstoppable-domains"
  <2> DEFINE D == {"404"}
             B == {"null", "error"}
             e == FALSE
  <2>1. Resolve(s, r, q) = Judge(r, q, D, B, mapperOf(s), e)
    BY <1>2, Mappers, Resolvers DEF resolveUnstoppableResolutionAPI
  <2>2. /\ "data" \notin D /\ {"failed", "status", "garbled"} \cap (D \cup B) = {}
        /\ s \in TellsErrors => "error" \notin D \cup B
    BY <1>2 DEF TellsErrors
  <2>3. s # "remote" /\ s # "stacks-bns"
    BY <1>2
  <2> HIDE DEF D, B, e
  <2> QED
    BY <2>1, <2>2, <2>3, ServiceJudged
<1>3. CASE s = "pns-polkadot"
  <2> DEFINE D == {"404"}
             B == {}
             e == FALSE
  <2>1. Resolve(s, r, q) = Judge(r, q, D, B, mapperOf(s), e)
    BY <1>3, Mappers, Resolvers DEF resolvePNSPolkadotAPI
  <2>2. /\ "data" \notin D /\ {"failed", "status", "garbled"} \cap (D \cup B) = {}
        /\ s \in TellsErrors => "error" \notin D \cup B
    BY <1>3 DEF TellsErrors
  <2>3. s # "remote" /\ s # "stacks-bns"
    BY <1>3
  <2> HIDE DEF D, B, e
  <2> QED
    BY <2>1, <2>2, <2>3, ServiceJudged
<1>4. CASE s = "space-id"
  <2> DEFINE D == {"404", "denied"}
             B == {"null"}
             e == TRUE
  <2>1. Resolve(s, r, q) = Judge(r, q, D, B, mapperOf(s), e)
    BY <1>4, Mappers, Resolvers DEF resolveSpaceIDAPI
  <2>2. /\ "data" \notin D /\ {"failed", "status", "garbled"} \cap (D \cup B) = {}
        /\ s \in TellsErrors => "error" \notin D \cup B
    BY <1>4 DEF TellsErrors
  <2>3. s # "remote" /\ s # "stacks-bns"
    BY <1>4
  <2> HIDE DEF D, B, e
  <2> QED
    BY <2>1, <2>2, <2>3, ServiceJudged
<1>5. CASE s = "tezos-domains"
  <2> DEFINE D == {"null"}
             B == {}
             e == FALSE
  <2>1. Resolve(s, r, q) = Judge(r, q, D, B, mapperOf(s), e)
    BY <1>5, Mappers, Resolvers DEF resolveTezosDomainsAPI
  <2>2. /\ "data" \notin D /\ {"failed", "status", "garbled"} \cap (D \cup B) = {}
        /\ s \in TellsErrors => "error" \notin D \cup B
    BY <1>5 DEF TellsErrors
  <2>3. s # "remote" /\ s # "stacks-bns"
    BY <1>5
  <2> HIDE DEF D, B, e
  <2> QED
    BY <2>1, <2>2, <2>3, ServiceJudged
<1>6. CASE s = "aptos-names"
  <2> DEFINE D == {"404"}
             B == {"null"}
             e == TRUE
  <2>1. Resolve(s, r, q) = Judge(r, q, D, B, mapperOf(s), e)
    BY <1>6, Mappers, Resolvers DEF resolveAptosNamesAPI
  <2>2. /\ "data" \notin D /\ {"failed", "status", "garbled"} \cap (D \cup B) = {}
        /\ s \in TellsErrors => "error" \notin D \cup B
    BY <1>6 DEF TellsErrors
  <2>3. s # "remote" /\ s # "stacks-bns"
    BY <1>6
  <2> HIDE DEF D, B, e
  <2> QED
    BY <2>1, <2>2, <2>3, ServiceJudged
<1>7. CASE s = "solana-sns"
  <2> DEFINE D == {"denied", "noMethod"}
             B == {"null"}
             e == TRUE
  <2>1. Resolve(s, r, q) = Judge(r, q, D, B, mapperOf(s), e)
    BY <1>7, Mappers, Resolvers DEF resolveSolanaSNSQuickNode
  <2>2. /\ "data" \notin D /\ {"failed", "status", "garbled"} \cap (D \cup B) = {}
        /\ s \in TellsErrors => "error" \notin D \cup B
    BY <1>7 DEF TellsErrors
  <2>3. s # "remote" /\ s # "stacks-bns"
    BY <1>7
  <2> HIDE DEF D, B, e
  <2> QED
    BY <2>1, <2>2, <2>3, ServiceJudged
<1>8. CASE s = "fio-handle"
  <2> DEFINE D == {"404"}
             B == {"null"}
             e == TRUE
  <2>1. Resolve(s, r, q) = Judge(r, q, D, B, mapperOf(s), e)
    BY <1>8, Mappers, Resolvers DEF resolveFIOChainAPI
  <2>2. /\ "data" \notin D /\ {"failed", "status", "garbled"} \cap (D \cup B) = {}
        /\ s \in TellsErrors => "error" \notin D \cup B
    BY <1>8 DEF TellsErrors
  <2>3. s # "remote" /\ s # "stacks-bns"
    BY <1>8
  <2> HIDE DEF D, B, e
  <2> QED
    BY <2>1, <2>2, <2>3, ServiceJudged
<1>9. CASE s = "freename-fns"
  <2> DEFINE D == {"404"}
             B == {"null", "error"}
             e == TRUE
  <2>1. Resolve(s, r, q) = Judge(r, q, D, B, mapperOf(s), e)
    BY <1>9, Mappers, Resolvers DEF resolveFreenameResolutionAPI
  <2>2. /\ "data" \notin D /\ {"failed", "status", "garbled"} \cap (D \cup B) = {}
        /\ s \in TellsErrors => "error" \notin D \cup B
    BY <1>9 DEF TellsErrors
  <2>3. s # "remote" /\ s # "stacks-bns"
    BY <1>9
  <2> HIDE DEF D, B, e
  <2> QED
    BY <2>1, <2>2, <2>3, ServiceJudged
<1>10. CASE s = "did-bit"
  <2> DEFINE D == {"404", "410", "null", "error"}
             B == {}
             e == FALSE
  <2>1. Resolve(s, r, q) = Judge(r, q, D, B, mapperOf(s), e)
    BY <1>10, Mappers, Resolvers DEF resolveDIDUniversalResolver
  <2>2. /\ "data" \notin D /\ {"failed", "status", "garbled"} \cap (D \cup B) = {}
        /\ s \in TellsErrors => "error" \notin D \cup B
    BY <1>10 DEF TellsErrors
  <2>3. s # "remote" /\ s # "stacks-bns"
    BY <1>10
  <2> HIDE DEF D, B, e
  <2> QED
    BY <2>1, <2>2, <2>3, ServiceJudged
<1>11. CASE s = "openalias"
  <2> DEFINE D == {"404"}
             B == {"null", "error"}
             e == TRUE
  <2>1. Resolve(s, r, q) = Judge(r, q, D, B, mapperOf(s), e)
    BY <1>11, Mappers, Resolvers DEF resolveOpenAliasDNSTXT
  <2>2. /\ "data" \notin D /\ {"failed", "status", "garbled"} \cap (D \cup B) = {}
        /\ s \in TellsErrors => "error" \notin D \cup B
    BY <1>11 DEF TellsErrors
  <2>3. s # "remote" /\ s # "stacks-bns"
    BY <1>11
  <2> HIDE DEF D, B, e
  <2> QED
    BY <2>1, <2>2, <2>3, ServiceJudged
<1>12. CASE s = "ada-handle"
  <2> DEFINE D == {"404"}
             B == {"null", "error"}
             e == TRUE
  <2>1. Resolve(s, r, q) = Judge(r, q, D, B, mapperOf(s), e)
    BY <1>12, Mappers, Resolvers DEF resolveADAHandleAPI
  <2>2. /\ "data" \notin D /\ {"failed", "status", "garbled"} \cap (D \cup B) = {}
        /\ s \in TellsErrors => "error" \notin D \cup B
    BY <1>12 DEF TellsErrors
  <2>3. s # "remote" /\ s # "stacks-bns"
    BY <1>12
  <2> HIDE DEF D, B, e
  <2> QED
    BY <2>1, <2>2, <2>3, ServiceJudged
<1>13. CASE s = "ton-dns"
  <2> DEFINE D == {"404", "null"}
             B == {}
             e == FALSE
  <2>1. Resolve(s, r, q) = Judge(r, q, D, B, mapperOf(s), e)
    BY <1>13, Mappers, Resolvers DEF resolveTONCenterV3DNS
  <2>2. /\ "data" \notin D /\ {"failed", "status", "garbled"} \cap (D \cup B) = {}
        /\ s \in TellsErrors => "error" \notin D \cup B
    BY <1>13 DEF TellsErrors
  <2>3. s # "remote" /\ s # "stacks-bns"
    BY <1>13
  <2> HIDE DEF D, B, e
  <2> QED
    BY <2>1, <2>2, <2>3, ServiceJudged
<1>14. CASE s = "suins"
  <2> DEFINE D == {}
             B == {"null"}
             e == TRUE
  <2>1. Resolve(s, r, q) = Judge(r, q, D, B, mapperOf(s), e)
    BY <1>14, Mappers, Resolvers DEF resolveSuiNSJSONRPC
  <2>2. /\ "data" \notin D /\ {"failed", "status", "garbled"} \cap (D \cup B) = {}
        /\ s \in TellsErrors => "error" \notin D \cup B
    BY <1>14 DEF TellsErrors
  <2>3. s # "remote" /\ s # "stacks-bns"
    BY <1>14
  <2> HIDE DEF D, B, e
  <2> QED
    BY <2>1, <2>2, <2>3, ServiceJudged
<1>15. CASE s = "namecoin-bit"
  <2> DEFINE D == {"denied"}
             B == {}
             e == FALSE
  <2>1. Resolve(s, r, q) = Judge(r, q, D, B, mapperOf(s), e)
    BY <1>15, Mappers, Resolvers DEF resolveNamecoinJSONRPC
  <2>2. /\ "data" \notin D /\ {"failed", "status", "garbled"} \cap (D \cup B) = {}
        /\ s \in TellsErrors => "error" \notin D \cup B
    BY <1>15 DEF TellsErrors
  <2>3. s # "remote" /\ s # "stacks-bns"
    BY <1>15
  <2> HIDE DEF D, B, e
  <2> QED
    BY <2>1, <2>2, <2>3, ServiceJudged
<1>16. CASE s = "stacks-bns"
  <2> DEFINE mapper == stacksBNSRecords(r)
             D == {"404"}
             B == {"null"}
             e == FALSE
  <2>1. Resolve(s, r, q) = Judge(r, q, D, B, mapper, e)
    BY <1>16, Resolvers DEF resolveStacksBNSAPI
  <2>2. CASE r \in HonestReplies(s, h) /\ h = Absent
    <3>1. r.fields = {}
      BY <2>2 DEF HonestReplies, Reply
    <3>2. Mapped(mapper, r.fields) = {}
      BY <3>1 DEF Mapped
    <3> HIDE DEF mapper, D, B, e
    <3>3. TypesOf(s, h) = Mapped(mapper, r.fields)
      BY <1>1, <2>2, <3>2
    <3> QED
      BY <2>1, <3>2, <3>3, JudgeData
  <2>3. CASE r \in HonestReplies(s, h) /\ h # Absent
    <3>1. r = Reply("data", h) /\ r.fields = h /\ r.kind = "data"
      BY <2>3 DEF HonestReplies, Reply
    <3>2. TypesOf(s, h) = Mapped(mapper, r.fields)
      BY <1>1, <1>16, <3>1
    <3>3. r.kind \in D => Mapped(mapper, r.fields) = {}
      BY <3>1
    <3> HIDE DEF mapper, D, B, e
    <3> QED
      BY <2>1, <3>2, <3>3, JudgeData
  <2>4. CASE r \in Faults(s)
    <3>1. r.kind \in {"failed", "status", "garbled"}
      BY <2>4, <1>16 DEF Faults, Reply, TellsErrors
    <3>2. r.kind \notin D \cup B \cup {"data"}
      BY <3>1
    <3> HIDE DEF mapper, D, B, e
    <3> QED
      BY <2>1, <3>2, JudgeFault
  <2> QED
    BY <2>2, <2>3, <2>4
<1>17. CASE s = "remote"
  <2>1. Resolve(s, r, q) = resolveRemote(r, q) /\ TypesOf(s, h) = Mapped(tezosDomainRecords, h)
    BY <1>1, <1>17, Resolvers, Mappers
  <2>2. CASE r \in HonestReplies(s, h) /\ h = Absent
    <3>1. r.kind = "denied"
      BY <2>2, <1>17 DEF HonestReplies, Reply, Denials
    <3> QED
      BY <1>1, <2>1, <2>2, <3>1 DEF resolveRemote, Judged
  <2>3. CASE r \in HonestReplies(s, h) /\ h # Absent
    <3>1. r.fields = h /\ r.kind = "data"
      BY <2>3 DEF HonestReplies, Reply
    <3> QED
      BY <2>1, <3>1 DEF resolveRemote, Judged
  <2>4. CASE r \in Faults(s)
    <3>1. r.kind \in {"failed", "status", "garbled", "servfail"}
      BY <2>4, <1>17 DEF Faults, Reply, TellsErrors
    <3> QED
      BY <2>1, <3>1 DEF resolveRemote, Judged, serviceFailure
  <2> QED
    BY <2>2, <2>3, <2>4
<1> QED
  BY <1>2, <1>3, <1>4, <1>5, <1>6, <1>7, <1>8, <1>9, <1>10, <1>11, <1>12, <1>13, <1>14, <1>15, <1>16, <1>17
  DEF ServiceNames, Chain, Dns

-----------------------------------------------------------------------------
(* What may be told: the parts of LookupPromise for a service s, a question *)
(* k and a history h.                                                      *)

AskedOf(s, k) == filterRecords(RRTypes, k) \cup (IF s \in Dns THEN {"CNAME"} ELSE {})

\* One of the versions from n on had the type or had it not, as types says.
Settled(s, h, n, types, t) == \E i \in n .. Len(h) : t \in types <=> t \in TypesOf(s, h[i])

\* In one of them there was no such name.
Gone(s, h, n) == \E i \in n .. Len(h) : TypesOf(s, h[i]) = {}

Holds(s, k, h, n, types) ==
  types \subseteq AskedOf(s, k) /\ \A t \in AskedOf(s, k) : Settled(s, h, n, types, t)

Honest(s, k, h, n, answer) ==
  \/ answer.rcode = "SERVFAIL" \/ (answer.rcode \in {"NOERROR", "NXDOMAIN"} /\ answer.unsure)
  \/ answer.rcode = "NXDOMAIN" /\ Gone(s, h, n)
  \/ answer.rcode = "NOERROR" /\ Holds(s, k, h, n, answer.types)

FloorOf(h, c, a) == IF a # None THEN a.since ELSE IF c # Idle THEN c.since ELSE Len(h)

LEMMA NowHolds ==
  ASSUME NEW s, NEW k, NEW h, Len(h) \in Nat, NEW n \in 1 .. Len(h), NEW types,
         types \subseteq AskedOf(s, k),
         \A t \in AskedOf(s, k) : t \in types <=> t \in TypesOf(s, h[Len(h)])
  PROVE  Holds(s, k, h, n, types)
<1>1. Len(h) \in n .. Len(h)
  OBVIOUS
<1> QED
  BY <1>1 DEF Holds, Settled

\* What was true stays so when the name changes again.
LEMMA StillHonest ==
  ASSUME NEW s, NEW S, NEW h \in Seq(S), NEW n \in 1 .. Len(h), NEW x \in S
  PROVE  /\ \A types, t : Settled(s, h, n, types, t) => Settled(s, Append(h, x), n, types, t)
         /\ Gone(s, h, n) => Gone(s, Append(h, x), n)
         /\ \A k, types : Holds(s, k, h, n, types) => Holds(s, k, Append(h, x), n, types)
         /\ \A k, answer : Honest(s, k, h, n, answer) => Honest(s, k, Append(h, x), n, answer)
<1>1. Len(Append(h, x)) = Len(h) + 1 /\ \A i \in 1 .. Len(h) : Append(h, x)[i] = h[i]
  BY AppendProperties
<1>2. \A i \in n .. Len(h) : i \in n .. Len(Append(h, x)) /\ Append(h, x)[i] = h[i]
  BY <1>1
<1> DEFINE g == Append(h, x)
<1> HIDE DEF g
<1>3. \A types, t : Settled(s, h, n, types, t) => Settled(s, g, n, types, t)
  BY <1>2 DEF Settled, g
<1>4. Gone(s, h, n) => Gone(s, g, n)
  BY <1>2 DEF Gone, g
<1>5. \A k, types : Holds(s, k, h, n, types) => Holds(s, k, g, n, types)
  BY <1>3 DEF Holds
<1>6. \A k, answer : Honest(s, k, h, n, answer) => Honest(s, k, g, n, answer)
  BY <1>4, <1>5 DEF Honest
<1> QED
  BY <1>3, <1>4, <1>5, <1>6 DEF g

-----------------------------------------------------------------------------
(* A lookup in contracts.                                                  *)

EnsTypes == {"WALLET", "TXT", "URI"}
InSeq(t, todo) == \E i \in 1 .. Len(todo) : todo[i] = t

LookupFields == {"at", "for", "todo", "got", "depth", "to", "urls", "lost", "result"}

\* What it has found is settled, and so is every type it has asked for, unless
\* a call was lost; its calls go to the contract of the name.
Underway(s, k, h, n, l) ==
  /\ DOMAIN l = LookupFields /\ l.to = "own"
  /\ l.todo \in Seq(EnsTypes) /\ l.got \subseteq EnsTypes /\ l.lost \in BOOLEAN
  /\ ~l.lost => /\ \A t \in l.got : Settled(s, h, n, l.got, t)
                /\ \A t \in EnsTypes : InSeq(t, CallsFor(k)) =>
                     InSeq(t, l.todo) \/ t = l.for \/ Settled(s, h, n, l.got, t)

LookupOK(s, k, h, n, l) ==
  Underway(s, k, h, n, l) /\ l.at \in {"eth", "gateway"} /\ l.for \in EnsTypes \cup {"resolver"}

Outcome(result, unsure) == [rcode |-> result.rcode, types |-> result.types, err |-> result.err, unsure |-> unsure]

AdvanceOK(s, k, h, n, l) ==
  IF l.at = "end" THEN l.lost \in BOOLEAN /\ Honest(s, k, h, n, Outcome(l.result, l.lost))
  ELSE LookupOK(s, k, h, n, l)

LEMMA Calls ==
  ASSUME NEW k
  PROVE  /\ CallsFor(k) \in Seq(EnsTypes)
         /\ \A t \in EnsTypes : Wanted(t, k) => InSeq(t, CallsFor(k))
<1> DEFINE A == IF k \in {"ANY", "WALLET", "TYPE262"} THEN << "WALLET" >> ELSE << >>
           B == IF k \in {"ANY", "TXT"} THEN << "TXT" >> ELSE << >>
           C == IF k \in {"ANY", "URI", "TXT"} THEN << "URI" >> ELSE << >>
<1>0. /\ << "WALLET" >> \in Seq(EnsTypes) /\ << "TXT" >> \in Seq(EnsTypes) /\ << "URI" >> \in Seq(EnsTypes)
      /\ << >> \in Seq(EnsTypes)
  BY DEF EnsTypes
<1>1. A \in Seq(EnsTypes) /\ B \in Seq(EnsTypes) /\ C \in Seq(EnsTypes)
  <2>1. A \in Seq(EnsTypes)
    BY <1>0, Zenon
  <2>2. B \in Seq(EnsTypes)
    BY <1>0, Zenon
  <2>3. C \in Seq(EnsTypes)
    BY <1>0, Zenon
  <2> QED
    BY <2>1, <2>2, <2>3
<1>2. /\ Wanted("WALLET", k) => Len(A) = 1 /\ A[1] = "WALLET"
      /\ Wanted("TXT", k) => Len(B) = 1 /\ B[1] = "TXT"
      /\ Wanted("URI", k) => Len(C) = 1 /\ C[1] = "URI"
  BY DEF Wanted
<1> HIDE DEF A, B, C
<1>3. CallsFor(k) = A \o B \o C
  BY DEF CallsFor, A, B, C
<1>4. /\ A \o B \in Seq(EnsTypes) /\ Len(A \o B) = Len(A) + Len(B)
      /\ \A i \in 1 .. Len(A) : (A \o B)[i] = A[i]
      /\ \A i \in 1 .. Len(B) : (A \o B)[Len(A) + i] = B[i]
  BY <1>1
<1>5. /\ (A \o B) \o C \in Seq(EnsTypes) /\ Len((A \o B) \o C) = Len(A) + Len(B) + Len(C)
      /\ \A i \in 1 .. Len(A \o B) : ((A \o B) \o C)[i] = (A \o B)[i]
      /\ \A i \in 1 .. Len(C) : ((A \o B) \o C)[Len(A \o B) + i] = C[i]
  BY <1>1, <1>4
<1>6. Len(A) \in Nat /\ Len(B) \in Nat /\ Len(C) \in Nat
  BY <1>1
<1>7. \A t : InSeq(t, A) \/ InSeq(t, B) => InSeq(t, A \o B)
  BY <1>4, <1>6 DEF InSeq
<1>8. \A t : InSeq(t, A \o B) \/ InSeq(t, C) => InSeq(t, (A \o B) \o C)
  <2> DEFINE AB == A \o B
             all == AB \o C
  <2>1. /\ Len(AB) = Len(A) + Len(B) /\ Len(all) = Len(A) + Len(B) + Len(C)
        /\ \A i \in 1 .. Len(AB) : all[i] = AB[i]
        /\ \A i \in 1 .. Len(C) : all[Len(AB) + i] = C[i]
    BY <1>4, <1>5
  <2> HIDE DEF AB, all
  <2>2. \A i \in 1 .. Len(AB) : i \in 1 .. Len(all)
    BY <2>1, <1>6
  <2>3. \A i \in 1 .. Len(C) : Len(AB) + i \in 1 .. Len(all)
    BY <2>1, <1>6
  <2>4. \A t : InSeq(t, AB) => InSeq(t, all)
    BY <2>1, <2>2 DEF InSeq
  <2>5. \A t : InSeq(t, C) => InSeq(t, all)
    BY <2>1, <2>3 DEF InSeq
  <2> QED
    BY <2>4, <2>5 DEF AB, all
<1>9. /\ Wanted("WALLET", k) => InSeq("WALLET", A)
      /\ Wanted("TXT", k) => InSeq("TXT", B)
      /\ Wanted("URI", k) => InSeq("URI", C)
  BY <1>2 DEF InSeq
<1> QED
  BY <1>3, <1>5, <1>7, <1>8, <1>9 DEF EnsTypes

LEMMA ChainTypes ==
  ASSUME NEW s \in Chain, NEW h
  PROVE  TypesOf(s, h) \subseteq EnsTypes
<1>1. s = "ens" /\ mapperOf(s) = [wallet |-> "WALLET", txt |-> "TXT", site |-> "URI"]
  BY Mappers DEF Chain
<1>2. TypesOf(s, h) = Mapped([wallet |-> "WALLET", txt |-> "TXT", site |-> "URI"], h)
  BY <1>1 DEF TypesOf
<1> QED
  BY <1>2 DEF Mapped, EnsTypes

\* A result of the chain that is put together from settled types.
LEMMA NextCallOK ==
  ASSUME NEW s \in Chain, NEW k, NEW h, Len(h) \in Nat, NEW n \in 1 .. Len(h), NEW l,
         Underway(s, k, h, n, l),
         ~l.lost => \A t \in EnsTypes : InSeq(t, CallsFor(k)) =>
                      InSeq(t, l.todo) \/ Settled(s, h, n, l.got, t)
  PROVE  AdvanceOK(s, k, h, n, NextCall(l, k))
<1>1. CASE l.todo = << >>
  <2> DEFINE m == Finish(l, Found(l.got, k))
             types == filterRecords(l.got, k)
  <2>1. /\ m.at = "end" /\ m.lost = l.lost /\ m.result = Found(l.got, k)
        /\ NextCall(l, k) = m
    BY <1>1 DEF NextCall, Finish, Underway, LookupFields
  <2>2. /\ Outcome(m.result, m.lost).rcode = "NOERROR" /\ Outcome(m.result, m.lost).types = types
        /\ Outcome(m.result, m.lost).unsure = l.lost
    BY <2>1 DEF Outcome, Found
  <2>3. ASSUME ~l.lost
        PROVE  Holds(s, k, h, n, types)
    <3>1. AskedOf(s, k) = {t \in RRTypes : Wanted(t, k)}
      BY DEF AskedOf, Chain, Dns, filterRecords
    <3>2. types \subseteq AskedOf(s, k)
      BY <3>1 DEF filterRecords, Underway, EnsTypes, RRTypes
    <3>3. ASSUME NEW t \in AskedOf(s, k)
          PROVE  Settled(s, h, n, types, t)
      <4>1. t \in types <=> t \in l.got
        BY <3>1 DEF filterRecords
      <4>2. CASE t \in EnsTypes
        <5>1. InSeq(t, CallsFor(k))
          BY <3>1, <4>2, Calls
        <5>2. ~InSeq(t, l.todo)
          BY <1>1 DEF InSeq
        <5>3. Settled(s, h, n, l.got, t)
          BY <2>3, <4>2, <5>1, <5>2
        <5> QED
          BY <4>1, <5>3 DEF Settled
      <4>3. CASE t \notin EnsTypes
        <5>1. t \notin types /\ t \notin TypesOf(s, h[n])
          BY <4>1, <4>3, ChainTypes DEF Underway
        <5>2. n \in n .. Len(h)
          OBVIOUS
        <5> QED
          BY <5>1, <5>2 DEF Settled
      <4> QED
        BY <4>2, <4>3
    <3> QED
      BY <3>2, <3>3 DEF Holds
  <2> HIDE DEF m, types
  <2>4. Honest(s, k, h, n, Outcome(m.result, m.lost))
    BY <2>2, <2>3 DEF Honest
  <2> QED
    BY <2>1, <2>4 DEF AdvanceOK, Underway
<1>2. CASE l.todo # << >>
  <2> DEFINE m == [l EXCEPT !.at = "eth", !.for = Head(l.todo), !.todo = Tail(l.todo), !.depth = 0, !.to = "own"]
  <2>1. /\ DOMAIN m = LookupFields /\ m.at = "eth" /\ m.for = Head(l.todo) /\ m.todo = Tail(l.todo)
        /\ m.to = "own" /\ m.got = l.got /\ m.lost = l.lost
    BY DEF Underway, LookupFields
  <2>2. NextCall(l, k) = m
    BY <1>2 DEF NextCall
  <2> HIDE DEF m
  <2>3. Head(l.todo) \in EnsTypes /\ Tail(l.todo) \in Seq(EnsTypes)
    BY <1>2 DEF Underway
  <2>4. \A t : InSeq(t, l.todo) => t = Head(l.todo) \/ InSeq(t, Tail(l.todo))
    <3>1. l.todo \in Seq(EnsTypes) /\ Len(l.todo) \in Nat /\ Head(l.todo) = l.todo[1]
          /\ Len(Tail(l.todo)) = Len(l.todo) - 1
          /\ \A i \in 1 .. Len(l.todo) - 1 : Tail(l.todo)[i] = l.todo[i + 1]
      BY <1>2 DEF Underway
    <3> SUFFICES ASSUME NEW i \in 1 .. Len(l.todo), i # 1
                 PROVE  InSeq(l.todo[i], Tail(l.todo))
      BY <3>1 DEF InSeq
    <3>2. i - 1 \in 1 .. Len(l.todo) - 1 /\ (i - 1) + 1 = i
      BY <3>1
    <3>3. Tail(l.todo)[i - 1] = l.todo[i]
      BY <3>1, <3>2
    <3> QED
      BY <3>1, <3>2, <3>3 DEF InSeq
  <2>5. Underway(s, k, h, n, m)
    BY <2>1, <2>3, <2>4 DEF Underway
  <2> QED
    BY <2>1, <2>2, <2>3, <2>5 DEF AdvanceOK, LookupOK
<1> QED
  BY <1>1, <1>2

\* A failed call ends the lookup as a failure or marks it.
LEMMA CallFailedOK ==
  ASSUME NEW s \in Chain, NEW k, NEW h, Len(h) \in Nat, NEW n \in 1 .. Len(h), NEW l,
         LookupOK(s, k, h, n, l)
  PROVE  AdvanceOK(s, k, h, n, CallFailed(l, k))
<1>1. CASE l.for = "resolver"
  <2> DEFINE m == Finish(l, serviceFailure)
  <2>1. CallFailed(l, k) = m /\ m.at = "end" /\ m.lost = l.lost /\ m.result = serviceFailure
    BY <1>1 DEF CallFailed, Finish, LookupOK, Underway, LookupFields
  <2>2. Outcome(serviceFailure, l.lost).rcode = "SERVFAIL"
    BY DEF Outcome, serviceFailure
  <2> QED
    BY <2>1, <2>2 DEF AdvanceOK, Honest, LookupOK, Underway
<1>2. CASE l.for # "resolver"
  <2> DEFINE m == [l EXCEPT !.lost = TRUE, !.urls = << >>]
  <2>1. /\ DOMAIN m = LookupFields /\ m.lost = TRUE /\ m.to = l.to /\ m.todo = l.todo /\ m.got = l.got
    BY DEF LookupOK, Underway, LookupFields
  <2>2. CallFailed(l, k) = NextCall(m, k)
    BY <1>2 DEF CallFailed
  <2> HIDE DEF m
  <2>3. Underway(s, k, h, n, m)
    BY <2>1 DEF LookupOK, Underway
  <2> QED
    BY <2>1, <2>2, <2>3, NextCallOK
<1> QED
  BY <1>1, <1>2

\* A call that is answered settles what it asks for.
LEMMA CallAnsweredOK ==
  ASSUME NEW s \in Chain, NEW k, NEW h, Len(h) \in Nat, NEW n \in 1 .. Len(h), NEW l,
         LookupOK(s, k, h, n, l), NEW present \in BOOLEAN,
         l.for = "resolver" => (present <=> h[Len(h)] # Absent),
         l.for # "resolver" => (present <=> l.for \in TypesOf(s, h[Len(h)]))
  PROVE  AdvanceOK(s, k, h, n, CallAnswered(l, k, present))
<1>0. Len(h) \in n .. Len(h) /\ s \in ServiceNames
  BY DEF Chain, ServiceNames
<1>1. CASE l.for = "resolver" /\ ~present
  <2> DEFINE m == Finish(l, Missing)
  <2>1. CallAnswered(l, k, present) = m /\ m.at = "end" /\ m.lost = l.lost /\ m.result = Missing
    BY <1>1 DEF CallAnswered, Finish, LookupOK, Underway, LookupFields
  <2>2. Outcome(Missing, l.lost).rcode = "NXDOMAIN"
    BY DEF Outcome, Missing
  <2>3. TypesOf(s, h[Len(h)]) = {}
    BY <1>0, <1>1, TypesAreTypes
  <2>4. Gone(s, h, n)
    BY <1>0, <2>3 DEF Gone
  <2> QED
    BY <2>1, <2>2, <2>4 DEF AdvanceOK, Honest, LookupOK, Underway
<1>2. CASE l.for = "resolver" /\ present
  <2>1. CallAnswered(l, k, present) = NextCall(l, k)
    BY <1>2 DEF CallAnswered
  <2>2. \A t \in EnsTypes : t # l.for
    BY <1>2 DEF EnsTypes
  <2>3. Underway(s, k, h, n, l)
    BY DEF LookupOK
  <2>4. ~l.lost => \A t \in EnsTypes : InSeq(t, CallsFor(k)) =>
                     InSeq(t, l.todo) \/ Settled(s, h, n, l.got, t)
    BY <2>2, <2>3 DEF Underway
  <2> QED
    BY <2>1, <2>3, <2>4, NextCallOK
<1>3. CASE l.for # "resolver"
  <2> DEFINE found == IF present THEN l.got \cup {l.for} ELSE l.got
             m == [l EXCEPT !.got = found]
  <2>1. /\ DOMAIN m = LookupFields /\ m.lost = l.lost /\ m.to = l.to /\ m.todo = l.todo
        /\ m.got = found
    BY DEF LookupOK, Underway, LookupFields
  <2>2. CallAnswered(l, k, present) = NextCall(m, k)
    BY <1>3 DEF CallAnswered
  <2>3. found \subseteq EnsTypes /\ (l.for \in found => present \/ l.for \in l.got)
        /\ \A t : t # l.for => (t \in found <=> t \in l.got)
        /\ (present => l.for \in found) /\ l.got \subseteq found
    BY <1>3 DEF LookupOK, Underway
  <2> HIDE DEF m, found
  <2>4. ASSUME ~l.lost
        PROVE  /\ Settled(s, h, n, found, l.for)
               /\ \A t : Settled(s, h, n, l.got, t) => Settled(s, h, n, found, t)
    <3>1. Settled(s, h, n, found, l.for)
      <4>1. CASE present <=> l.for \in found
        BY <4>1, <1>0, <1>3 DEF Settled
      <4>2. CASE ~(present <=> l.for \in found)
        <5>1. ~present /\ l.for \in l.got /\ l.for \in found
          BY <4>2, <2>3
        <5>2. Settled(s, h, n, l.got, l.for)
          BY <5>1, <2>4 DEF LookupOK, Underway
        <5> QED
          BY <5>1, <5>2 DEF Settled
      <4> QED
        BY <4>1, <4>2
    <3>2. \A t : t # l.for /\ Settled(s, h, n, l.got, t) => Settled(s, h, n, found, t)
      BY <2>3 DEF Settled
    <3> QED
      BY <3>1, <3>2
  <2>5. ASSUME ~l.lost
        PROVE  /\ \A t \in found : Settled(s, h, n, found, t)
               /\ \A t \in EnsTypes : InSeq(t, CallsFor(k)) =>
                    InSeq(t, l.todo) \/ Settled(s, h, n, found, t)
    <3>1. \A t \in l.got : Settled(s, h, n, l.got, t)
      BY <2>5 DEF LookupOK, Underway
    <3>2. \A t \in EnsTypes : InSeq(t, CallsFor(k)) =>
            InSeq(t, l.todo) \/ t = l.for \/ Settled(s, h, n, l.got, t)
      BY <2>5 DEF LookupOK, Underway
    <3> QED
      BY <2>3, <2>4, <2>5, <3>1, <3>2
  <2>6. Underway(s, k, h, n, m)
    BY <2>1, <2>3, <2>5 DEF LookupOK, Underway
  <2> QED
    BY <2>1, <2>2, <2>5, <2>6, NextCallOK
<1> QED
  BY <1>1, <1>2, <1>3

\* Gateways change nothing but the way to the answer.
LEMMA OffchainOK ==
  ASSUME NEW s \in Chain, NEW k, NEW h, Len(h) \in Nat, NEW n \in 1 .. Len(h), NEW l,
         LookupOK(s, k, h, n, l)
  PROVE  /\ \A sender, urls : AdvanceOK(s, k, h, n, ccipRead(l, k, sender, urls))
         /\ \A answered : AdvanceOK(s, k, h, n, fetchCCIPResponse(l, k, answered))
<1>1. AdvanceOK(s, k, h, n, CallFailed(l, k))
  BY CallFailedOK
<1>2. ASSUME NEW m, DOMAIN m = LookupFields, m.at \in {"eth", "gateway"}, m.for = l.for, m.todo = l.todo,
             m.got = l.got, m.to = l.to, m.lost = l.lost
      PROVE  AdvanceOK(s, k, h, n, m)
  BY <1>2 DEF AdvanceOK, LookupOK, Underway
<1>3. /\ \A urls : AdvanceOK(s, k, h, n, [l EXCEPT !.at = "gateway", !.urls = urls])
      /\ AdvanceOK(s, k, h, n, [l EXCEPT !.at = "eth", !.depth = @ + 1, !.urls = << >>])
      /\ AdvanceOK(s, k, h, n, [l EXCEPT !.urls = Tail(@)])
  BY <1>2 DEF LookupOK, Underway, LookupFields
<1> QED
  BY <1>1, <1>3 DEF ccipRead, fetchCCIPResponse

-----------------------------------------------------------------------------
(* A lookup in DNS.                                                        *)

TypesIn(records) == {rr[2] : rr \in {r \in records : r[1] = "asked"}}

\* A packet that was honest, but for a truncated one, at a version from n on.
PacketOK(s, k, h, n, p) ==
  ~p.tc => /\ p.rcode = "NXDOMAIN" => Gone(s, h, n)
           /\ p.rcode = "NOERROR" => Holds(s, k, h, n, TypesIn(p.records))

\* The packets that may be taken for the reply to the query are.
WireOK(s, k, h, c, w) ==
  c.at = "udp" => \A p \in w : p.id = c.id /\ p.q = k => PacketOK(s, k, h, c.since, p)

\* What was held at the time of every version is known.
HistOK == svc \in Services /\ q \in QTypes /\ hist \in Seq(Holdings(svc)) /\ Len(hist) >= 1

\* The records a name has in DNS: an alias alone, or others.
LEMMA DnsTypes ==
  ASSUME NEW s \in Dns, NEW h \in Holdings(s), "CNAME" \in TypesOf(s, h)
  PROVE  TypesOf(s, h) = {"CNAME"}
<1> DEFINE mapper == [a |-> "A", txt |-> "TXT", cname |-> "CNAME", wallet |-> "WALLET"]
<1>1. s = "hns" /\ mapperOf(s) = mapper
  BY Mappers DEF Dns
<1>2. TypesOf(s, h) = Mapped(mapper, h)
  BY <1>1 DEF TypesOf
<1>3. h # Absent
  BY <1>1, TypesAreTypes DEF ServiceNames
<1>4. "cname" \in h
  BY <1>2 DEF Mapped
<1>5. h = {"cname"}
  BY <1>3, <1>4 DEF Holdings
<1> QED
  BY <1>2, <1>5 DEF Mapped

\* Projections of sets of pairs.
LEMMA Seconds ==
  ASSUME NEW S
  PROVE  {rr[2] : rr \in {<< "asked", t >> : t \in S}} = S
<1> DEFINE P == {<< "asked", t >> : t \in S}
           X == {rr[2] : rr \in P}
<1>1. \A t : << "asked", t >>[2] = t
  OBVIOUS
<1>2. \A x \in X : x \in S
  <2> SUFFICES ASSUME NEW rr \in P PROVE rr[2] \in S
    OBVIOUS
  <2> QED
    BY <1>1
<1>3. ASSUME NEW x \in S PROVE x \in X
  <2>1. << "asked", x >> \in P
    OBVIOUS
  <2> HIDE DEF P
  <2>2. << "asked", x >>[2] \in X
    BY <2>1, Zenon
  <2> QED
    BY <2>2, <1>1
<1>4. X = S
  BY <1>2, <1>3
<1> QED
  BY <1>4

LEMMA RecordsOK ==
  ASSUME svc \in Dns, NEW n \in 1 .. Len(hist), HistOK
  PROVE  Holds(svc, q, hist, n, TypesIn(Records))
<1> DEFINE own == TypesOf(svc, Now)
<1>0. Len(hist) \in Nat /\ Now = hist[Len(hist)] /\ Now \in Holdings(svc)
  BY DEF HistOK, Now
<1>1. own \subseteq RRTypes
  BY TypesAreTypes DEF Dns, ServiceNames
<1>2. "CNAME" \in own => own = {"CNAME"}
  BY <1>0, DnsTypes
<1>3. Records = IF "CNAME" \in own
                THEN {<< "asked", "CNAME" >>} \cup {<< "other", t >> : t \in filterRecords({"A", "TXT"}, q)}
                ELSE {<< "asked", t >> : t \in filterRecords(own, q)}
  BY DEF Records
<1>4. AskedOf(svc, q) = {t \in RRTypes : Wanted(t, q)} \cup {"CNAME"}
  BY DEF AskedOf, filterRecords
<1> HIDE DEF own
<1>5. TypesIn(Records) = IF "CNAME" \in own THEN {"CNAME"} ELSE {t \in own : Wanted(t, q)}
  <2>1. CASE "CNAME" \in own
    <3>1. {r \in Records : r[1] = "asked"} = {<< "asked", t >> : t \in {"CNAME"}}
      BY <2>1, <1>3
    <3> QED
      BY <2>1, <3>1, Seconds DEF TypesIn
  <2>2. CASE "CNAME" \notin own
    <3>1. {r \in Records : r[1] = "asked"} = {<< "asked", t >> : t \in filterRecords(own, q)}
      BY <2>2, <1>3
    <3>2. {rr[2] : rr \in {<< "asked", t >> : t \in filterRecords(own, q)}} = filterRecords(own, q)
      BY Seconds
    <3> QED
      BY <2>2, <3>1, <3>2 DEF TypesIn, filterRecords
  <2> QED
    BY <2>1, <2>2
<1>6. /\ TypesIn(Records) \subseteq AskedOf(svc, q)
      /\ \A t \in AskedOf(svc, q) : t \in TypesIn(Records) <=> t \in own
  BY <1>1, <1>2, <1>4, <1>5
<1> QED
  BY <1>0, <1>6, NowHolds DEF own

\* What the server says of this moment is honest at every earlier version.
LEMMA RepliesOK ==
  ASSUME svc \in Dns, NEW n \in 1 .. Len(hist), HistOK, NEW id, NEW p \in Replies(id)
  PROVE  p.id = id /\ p.q = q /\ PacketOK(svc, q, hist, n, p)
<1>1. CASE p.rcode \in {"SERVFAIL", "garbled"} \/ p.tc
  BY <1>1 DEF Replies, Packet, PacketOK
<1>2. CASE Now = Absent /\ p = Packet(id, "NXDOMAIN", {}, FALSE)
  <2>1. TypesOf(svc, hist[Len(hist)]) = {}
    BY <1>2, TypesAreTypes DEF Now, Dns, ServiceNames
  <2>2. Len(hist) \in n .. Len(hist)
    BY DEF HistOK
  <2>3. Gone(svc, hist, n)
    BY <2>1, <2>2 DEF Gone
  <2> QED
    BY <1>2, <2>3 DEF Packet, PacketOK
<1>3. CASE p = Packet(id, "NOERROR", Records, FALSE)
  <2>1. p.id = id /\ p.q = q /\ p.rcode = "NOERROR" /\ p.records = Records
    BY <1>3 DEF Packet
  <2> QED
    BY <2>1, RecordsOK DEF PacketOK
<1> QED
  BY <1>1, <1>2, <1>3 DEF Replies, Packet

\* Whatever the packet, the result tells the truth or is a failure.
LEMMA ParseOK ==
  ASSUME NEW n, NEW id, NEW p, ~(p.id = id /\ p.tc),
         p.id = id /\ p.q = q => PacketOK(svc, q, hist, n, p)
  PROVE  Honest(svc, q, hist, n, Outcome(parseDNSResponse(p, id, q), FALSE))
<1>1. CASE p.id # id \/ p.q # q \/ p.rcode \notin {"NOERROR", "NXDOMAIN"}
  <2>1. parseDNSResponse(p, id, q) = serviceFailure
    BY <1>1 DEF parseDNSResponse
  <2> QED
    BY <2>1 DEF Honest, Outcome, serviceFailure
<1>2. CASE p.id = id /\ p.q = q /\ p.rcode = "NXDOMAIN"
  <2>1. parseDNSResponse(p, id, q) = Missing /\ Gone(svc, hist, n)
    BY <1>2 DEF parseDNSResponse, PacketOK
  <2> QED
    BY <2>1 DEF Honest, Outcome, Missing
<1>3. CASE p.id = id /\ p.q = q /\ p.rcode = "NOERROR"
  <2>1. parseDNSResponse(p, id, q) = Found(TypesIn(p.records), "ANY")
    BY <1>3 DEF parseDNSResponse, TypesIn
  <2>2. filterRecords(TypesIn(p.records), "ANY") = TypesIn(p.records)
    BY DEF filterRecords, Wanted
  <2>3. Holds(svc, q, hist, n, TypesIn(p.records))
    BY <1>3 DEF PacketOK
  <2> QED
    BY <2>1, <2>2, <2>3 DEF Honest, Outcome, Found
<1> QED
  BY <1>1, <1>2, <1>3

-----------------------------------------------------------------------------
(* The invariant.                                                          *)

CallOK(s, k, h, c) ==
  \/ c = Idle
  \/ /\ c.since \in 1 .. Len(h)
     /\ \/ c.at = "http" /\ s \notin Chain \cup Dns
        \/ /\ c.at = "chain" /\ s \in Chain /\ DOMAIN c = {"at", "since", "l"}
           /\ LookupOK(s, k, h, c.since, c.l)
        \/ c.at \in {"udp", "tcp"} /\ s \in Dns /\ DOMAIN c = {"at", "since", "id"}

HeldOK(s, k, h, c, a) ==
  a # None => c = Idle /\ a.since \in 1 .. Len(h) /\ Honest(s, k, h, a.since, a.answer)

Inv ==
  /\ HistOK
  /\ CallOK(svc, q, hist, call)
  /\ WireOK(svc, q, hist, call, wire)
  /\ HeldOK(svc, q, hist, call, held)

-----------------------------------------------------------------------------
(* Steps of the promise.                                                   *)

HadOf(s, h) == [i \in DOMAIN h |-> TypesOf(s, h[i])]
Floor == FloorOf(hist, call, held)

LEMMA HadFacts ==
  ASSUME NEW s \in ServiceNames, NEW S, NEW h \in Seq(S)
  PROVE  /\ Len(h) \in Nat /\ DOMAIN h = 1 .. Len(h)
         /\ HadOf(s, h) \in Seq(SUBSET RRTypes) /\ Len(HadOf(s, h)) = Len(h)
         /\ \A i \in 1 .. Len(h) : HadOf(s, h)[i] = TypesOf(s, h[i]) /\ TypesOf(s, h[i]) \subseteq RRTypes
<1>1. Len(h) \in Nat /\ DOMAIN h = 1 .. Len(h)
  OBVIOUS
<1>2. \A i \in 1 .. Len(h) : TypesOf(s, h[i]) \in SUBSET RRTypes
  BY TypesAreTypes
<1>3. HadOf(s, h) = [i \in 1 .. Len(h) |-> TypesOf(s, h[i])]
  BY <1>1 DEF HadOf
<1> HIDE DEF HadOf
<1>4. HadOf(s, h) \in [1 .. Len(h) -> SUBSET RRTypes]
  BY <1>2, <1>3
<1>5. HadOf(s, h) \in Seq(SUBSET RRTypes) /\ Len(HadOf(s, h)) = Len(h)
  BY <1>1, <1>3, <1>4, IsASeq, LenProperties
<1> QED
  BY <1>1, <1>2, <1>3, <1>5

\* What LookupPromise makes of an honest answer.
LEMMA BarHonest ==
  ASSUME NEW s, NEW k, NEW h, NEW n, NEW answer, Honest(s, k, h, n, answer)
  PROVE  \/ Bar(answer) = [kind |-> "failure", types |-> {}]
         \/ Bar(answer) = [kind |-> "missing", types |-> {}] /\ Gone(s, h, n)
         \/ Bar(answer) = [kind |-> "answer", types |-> answer.types] /\ Holds(s, k, h, n, answer.types)
  BY DEF Honest, Bar

LEMMA Asking ==
  ASSUME HistOK
  PROVE  svc \in ServiceNames /\ AskedOf(svc, q) \subseteq RRTypes /\ q # "another"
  BY ServicesAssumption DEF HistOK, AskedOf, filterRecords, RRTypes

\* A step that tells nothing new.
LEMMA Quiet ==
  ASSUME HistOK, UNCHANGED << svc, q, hist, told >>, Floor' \in Floor .. Len(hist)
  PROVE  Promise!Next
<1>1. Len(HadOf(svc, hist)) = Len(hist)
  BY HadFacts, Asking DEF HistOK
<1>2. Promise!Forget
  BY <1>1 DEF Promise!Forget, HadOf, Floor, FloorOf
<1> QED
  BY <1>2 DEF Promise!Next

\* A step that tells an honest answer.
LEMMA Telling ==
  ASSUME HistOK, UNCHANGED << svc, q, hist >>, Floor \in 1 .. Len(hist), Floor' \in Floor .. Len(hist),
         Honest(svc, q, hist, Floor, told')
  PROVE  Promise!Next
<1> DEFINE had == HadOf(svc, hist)
           asked == AskedOf(svc, q)
           recent == {had[i] : i \in Floor .. Len(had)}
<1>1. /\ Len(hist) \in Nat /\ Len(had) = Len(hist)
      /\ \A i \in 1 .. Len(hist) : had[i] = TypesOf(svc, hist[i])
  BY HadFacts, Asking DEF HistOK
<1>2. Promise!Forget
  BY <1>1 DEF Promise!Forget, HadOf, Floor, FloorOf
<1>3. /\ Promise!TellFailure <=> Bar(told') = [kind |-> "failure", types |-> {}]
      /\ Promise!TellMissing <=> {} \in recent /\ Bar(told') = [kind |-> "missing", types |-> {}]
      /\ Promise!TellAnswer <=> /\ Bar(told').kind = "answer" /\ Bar(told').types \subseteq asked
                                /\ \A t \in asked : \E v \in recent : t \in Bar(told').types <=> t \in v
  BY DEF Promise!TellFailure, Promise!TellMissing, Promise!TellAnswer, Promise!Recent,
         HadOf, Floor, FloorOf, AskedOf, Bar
<1>4. had' = had /\ asked' = asked
  OBVIOUS
<1> HIDE DEF had, asked
<1>5. \A i \in Floor .. Len(hist) : TypesOf(svc, hist[i]) \in recent
  BY <1>1
<1> HIDE DEF recent
<1>6. Promise!TellAnswer \/ Promise!TellMissing \/ Promise!TellFailure
  <2>1. CASE Bar(told') = [kind |-> "failure", types |-> {}]
    BY <2>1, <1>3
  <2>2. CASE Bar(told') = [kind |-> "missing", types |-> {}] /\ Gone(svc, hist, Floor)
    BY <2>2, <1>3, <1>5 DEF Gone
  <2>3. CASE Bar(told') = [kind |-> "answer", types |-> told'.types] /\ Holds(svc, q, hist, Floor, told'.types)
    BY <2>3, <1>3, <1>5 DEF Holds, Settled, asked
  <2> QED
    BY <2>1, <2>2, <2>3, BarHonest
<1>7. Promise!Tell
  BY <1>4, <1>6 DEF Promise!Tell, had, HadOf
<1> QED
  BY <1>2, <1>7 DEF Promise!Next

\* The owner's change.
LEMMA Changing ==
  ASSUME HistOK, UNCHANGED << svc, q, told >>, NEW h \in Holdings(svc), hist' = Append(hist, h),
         Floor' \in Floor .. Len(hist')
  PROVE  Promise!Next
<1> DEFINE had  == HadOf(svc, hist)
           had1 == HadOf(svc, hist')
<1>1. hist \in Seq(Holdings(svc)) /\ hist' \in Seq(Holdings(svc)) /\ Len(hist') = Len(hist) + 1
      /\ \A i \in 1 .. Len(hist) : hist'[i] = hist[i]
  BY AppendProperties DEF HistOK
<1>2. /\ Len(hist) \in Nat /\ had \in Seq(SUBSET RRTypes) /\ Len(had) = Len(hist)
      /\ \A i \in 1 .. Len(hist) : had[i] = TypesOf(svc, hist[i])
  BY <1>1, HadFacts, Asking
<1>3. /\ had1 \in Seq(SUBSET RRTypes) /\ Len(had1) = Len(hist')
      /\ \A i \in 1 .. Len(hist') : had1[i] = TypesOf(svc, hist'[i]) /\ TypesOf(svc, hist'[i]) \subseteq RRTypes
  BY <1>1, HadFacts, Asking
<1>4. Promise!Forget
  BY <1>3 DEF Promise!Forget, HadOf, Floor, FloorOf
<1>5. Promise!Change <=> /\ Len(had1) = Len(had) + 1 /\ SubSeq(had1, 1, Len(had)) = had
                         /\ had1[Len(had1)] \subseteq RRTypes
  BY DEF Promise!Change, HadOf, Bar
<1> HIDE DEF had, had1
<1>6. SubSeq(had1, 1, Len(had)) = had
  <2>1. \A i \in 1 .. Len(had) : had1[i] = had[i]
    BY <1>1, <1>2, <1>3
  <2>2. SubSeq(had1, 1, Len(had)) \in Seq(SUBSET RRTypes) /\ Len(SubSeq(had1, 1, Len(had))) = Len(had)
        /\ \A i \in 1 .. Len(had) : SubSeq(had1, 1, Len(had))[i] = had1[i]
    BY <1>1, <1>2, <1>3
  <2> QED
    BY <1>2, <2>1, <2>2, SeqEqual
<1>7. Len(hist') \in 1 .. Len(hist')
  BY <1>1, <1>2
<1>8. Promise!Change
  BY <1>1, <1>2, <1>3, <1>5, <1>6, <1>7
<1> QED
  BY <1>4, <1>8 DEF Promise!Next

\* A call is under way: nothing is held, and the floor is where it began.
LEMMA InACall ==
  ASSUME Inv, call # Idle
  PROVE  /\ HistOK /\ held = None /\ Len(hist) \in Nat
         /\ call.since \in 1 .. Len(hist) /\ Floor = call.since
  BY DEF Inv, HistOK, HeldOK, CallOK, Floor, FloorOf

LEMMA Concluding ==
  ASSUME Inv, call # Idle, UNCHANGED << svc, q, hist >>, NEW result, NEW unsure,
         Conclude(result, unsure), Honest(svc, q, hist, call.since, Outcome(result, unsure))
  PROVE  Promise!Next /\ Inv'
<1> DEFINE answer == Outcome(result, unsure)
<1>1. /\ told' = answer /\ call' = Idle
      /\ held' = IF result.err THEN None ELSE [answer |-> answer, since |-> call.since]
  BY DEF Conclude, Outcome
<1> HIDE DEF answer
<1>2. /\ HistOK /\ held = None /\ Len(hist) \in Nat
      /\ call.since \in 1 .. Len(hist) /\ Floor = call.since
  BY InACall
<1>3. held' = None \/ (held' # None /\ held'.since = call.since /\ held'.answer = answer)
  BY <1>1, <1>2 DEF None
<1>4. Floor' \in Floor .. Len(hist)
  BY <1>1, <1>2, <1>3 DEF Floor, FloorOf
<1>5. Honest(svc, q, hist, Floor, told')
  BY <1>1, <1>2 DEF answer
<1>6. Promise!Next
  BY <1>2, <1>4, <1>5, Telling
<1>7. HistOK' /\ CallOK(svc, q, hist, call)' /\ WireOK(svc, q, hist, call, wire)'
  BY <1>1, <1>2 DEF HistOK, CallOK, WireOK, Idle
<1>8. HeldOK(svc, q, hist, call, held)'
  BY <1>1, <1>2, <1>3, <1>5 DEF HeldOK
<1> QED
  BY <1>6, <1>7, <1>8 DEF Inv

LEMMA Advancing ==
  ASSUME Inv, call.at = "chain", call # Idle, NEW l, Advance(l), AdvanceOK(svc, q, hist, call.since, l)
  PROVE  Promise!Next /\ Inv'
<1>1. UNCHANGED << svc, q, hist, wire >>
  BY DEF Advance
<1>2. CASE l.at = "end"
  <2>1. Conclude(l.result, l.lost) /\ Honest(svc, q, hist, call.since, Outcome(l.result, l.lost))
    BY <1>2 DEF Advance, AdvanceOK
  <2> QED
    BY <1>1, <2>1, Concluding
<1>3. CASE l.at # "end"
  <2>1. call' = [call EXCEPT !.l = l] /\ UNCHANGED << told, held >> /\ LookupOK(svc, q, hist, call.since, l)
    BY <1>3 DEF Advance, AdvanceOK
  <2>2. svc \in Chain /\ DOMAIN call = {"at", "since", "l"}
    BY DEF Inv, CallOK
  <2>3. /\ HistOK /\ held = None /\ Len(hist) \in Nat
        /\ call.since \in 1 .. Len(hist) /\ Floor = call.since
    BY InACall
  <2>4. call'.at = "chain" /\ call'.since = call.since /\ call'.l = l /\ DOMAIN call' = {"at", "since", "l"}
    BY <2>1, <2>2
  <2>5. Floor' = Floor
    BY <1>1, <2>1, <2>3, <2>4 DEF Floor, FloorOf, Idle
  <2>6. Promise!Next
    BY <1>1, <2>1, <2>3, <2>5, Quiet
  <2>7. CallOK(svc, q, hist, call)'
    BY <1>1, <2>1, <2>2, <2>3, <2>4 DEF CallOK
  <2>8. HistOK' /\ WireOK(svc, q, hist, call, wire)' /\ HeldOK(svc, q, hist, call, held)'
    BY <1>1, <2>1, <2>3, <2>4 DEF HistOK, WireOK, HeldOK
  <2> QED
    BY <2>6, <2>7, <2>8 DEF Inv
<1> QED
  BY <1>2, <1>3

-----------------------------------------------------------------------------
(* The steps.                                                              *)

LEMMA InitPromise == Init => Inv /\ Promise!Init
<1> SUFFICES ASSUME Init
             PROVE  Inv /\ Promise!Init
  OBVIOUS
<1>0. svc \in Services /\ q \in QTypes /\ hist \in Seq(Holdings(svc)) /\ Len(hist) = 1
  <2>1. PICK h \in Holdings(svc) : hist = << h >>
    BY DEF Init
  <2>2. hist \in Seq(Holdings(svc)) /\ Len(hist) = 1
    BY <2>1
  <2> QED
    BY <2>2 DEF Init
<1>1. /\ HistOK /\ Len(hist) = 1 /\ call = Idle /\ wire = {} /\ held = None
      /\ told.rcode = "nothing yet"
  <2>1. HistOK
    BY <1>0 DEF HistOK
  <2> QED
    BY <1>0, <2>1 DEF Init
<1>2. Inv
  BY <1>1 DEF Inv, CallOK, WireOK, HeldOK, Idle
<1>3. Len(HadOf(svc, hist)) = 1 /\ HadOf(svc, hist)[1] \subseteq RRTypes
  <2>1. 1 \in 1 .. Len(hist)
    BY <1>0
  <2>2. svc \in ServiceNames
    BY <1>1, Asking
  <2> QED
    BY <1>0, <2>1, <2>2, HadFacts
<1>4. AskedOf(svc, q) \subseteq RRTypes /\ FloorOf(hist, call, held) = 1
  BY <1>1, Asking DEF FloorOf
<1>5. Bar(told) = [kind |-> "nothing yet", types |-> {}]
  BY <1>1 DEF Bar
<1>6. Promise!Init
  BY <1>3, <1>4, <1>5 DEF Promise!Init, HadOf, AskedOf, FloorOf
<1> QED
  BY <1>2, <1>6

LEMMA StepChange == Inv /\ Change => Promise!Next /\ Inv'
<1> SUFFICES ASSUME Inv, Change
             PROVE  Promise!Next /\ Inv'
  OBVIOUS
<1>1. PICK h \in Holdings(svc) : hist' = Append(hist, h)
  BY DEF Change
<1>2. UNCHANGED << svc, q, call, wire, held, told >>
  BY DEF Change
<1>3. HistOK /\ hist \in Seq(Holdings(svc)) /\ Len(hist) \in Nat /\ Len(hist) >= 1
  BY DEF Inv, HistOK
<1>4. hist' \in Seq(Holdings(svc)) /\ Len(hist') = Len(hist) + 1
  BY <1>1, <1>3, AppendProperties
<1>5. HistOK'
  BY <1>2, <1>3, <1>4 DEF HistOK
<1>6. \A n \in 1 .. Len(hist) :
        /\ \A types, t : Settled(svc, hist, n, types, t) => Settled(svc, hist', n, types, t)
        /\ Gone(svc, hist, n) => Gone(svc, hist', n)
        /\ \A types : Holds(svc, q, hist, n, types) => Holds(svc, q, hist', n, types)
        /\ \A answer : Honest(svc, q, hist, n, answer) => Honest(svc, q, hist', n, answer)
  BY <1>1, <1>3, StillHonest
<1>7. \A n \in 1 .. Len(hist) : n \in 1 .. Len(hist')
  BY <1>3, <1>4
<1>8. CallOK(svc, q, hist', call)
  <2>1. \A n \in 1 .. Len(hist) : \A l : LookupOK(svc, q, hist, n, l) => LookupOK(svc, q, hist', n, l)
    BY <1>6 DEF LookupOK, Underway
  <2> QED
    BY <1>7, <2>1 DEF Inv, CallOK
<1>9. WireOK(svc, q, hist', call, wire)
  <2>1. \A n \in 1 .. Len(hist) : \A p : PacketOK(svc, q, hist, n, p) => PacketOK(svc, q, hist', n, p)
    BY <1>6 DEF PacketOK
  <2>2. call.at = "udp" => call.since \in 1 .. Len(hist)
    BY DEF Inv, CallOK, Idle
  <2> QED
    BY <2>1, <2>2 DEF Inv, WireOK
<1>10. HeldOK(svc, q, hist', call, held)
  BY <1>6, <1>7 DEF Inv, HeldOK
<1>11. Inv'
  BY <1>2, <1>5, <1>8, <1>9, <1>10 DEF Inv
<1>12. Floor \in 1 .. Len(hist) /\ (Floor' = Floor \/ Floor' = Len(hist'))
  BY <1>2, <1>3 DEF Inv, Floor, FloorOf, HeldOK, CallOK
<1>13. Promise!Next
  BY <1>1, <1>2, <1>3, <1>4, <1>12, Changing
<1> QED
  BY <1>11, <1>13

LEMMA StepHit == Inv /\ Hit => Promise!Next /\ Inv'
<1> SUFFICES ASSUME Inv, Hit
             PROVE  Promise!Next /\ Inv'
  OBVIOUS
<1>1. held # None /\ told' = held.answer /\ UNCHANGED << svc, q, hist, call, wire, held >>
  BY DEF Hit
<1>2. HistOK /\ Len(hist) \in Nat /\ held.since \in 1 .. Len(hist) /\ Honest(svc, q, hist, held.since, held.answer)
  BY <1>1 DEF Inv, HistOK, HeldOK
<1>3. Floor = held.since /\ Floor' = Floor
  BY <1>1 DEF Floor, FloorOf
<1>4. Promise!Next
  BY <1>1, <1>2, <1>3, Telling
<1>5. Inv'
  BY <1>1 DEF Inv, HistOK
<1> QED
  BY <1>4, <1>5

LEMMA StepExpire == Inv /\ Expire => Promise!Next /\ Inv'
<1> SUFFICES ASSUME Inv, Expire
             PROVE  Promise!Next /\ Inv'
  OBVIOUS
<1>1. held # None /\ held' = None /\ UNCHANGED << svc, q, hist, call, wire, told >>
  BY DEF Expire
<1>2. HistOK /\ Len(hist) \in Nat /\ held.since \in 1 .. Len(hist) /\ call = Idle
  BY <1>1 DEF Inv, HistOK, HeldOK
<1>3. Floor = held.since /\ Floor' = Len(hist)
  BY <1>1, <1>2 DEF Floor, FloorOf
<1>4. Promise!Next
  BY <1>1, <1>2, <1>3, Quiet
<1>5. Inv'
  BY <1>1 DEF Inv, HistOK, HeldOK
<1> QED
  BY <1>4, <1>5

\* A lookup of contracts begins with nothing found and all calls before it.
LEMMA BeginOK ==
  ASSUME NEW s, NEW k, NEW h, NEW n
  PROVE  LookupOK(s, k, h, n, Begin(k))
<1>1. CallsFor(k) \in Seq(EnsTypes)
  BY Calls
<1> DEFINE l == Begin(k)
<1>2. /\ DOMAIN l = LookupFields /\ l.at = "eth" /\ l.for = "resolver" /\ l.todo = CallsFor(k)
      /\ l.got = {} /\ l.to = "own" /\ l.lost = FALSE
  BY DEF Begin, LookupFields
<1> HIDE DEF l
<1>3. LookupOK(s, k, h, n, l)
  BY <1>1, <1>2 DEF LookupOK, Underway
<1> QED
  BY <1>3 DEF l

LEMMA StepAsk == Inv /\ Ask => Promise!Next /\ Inv'
<1> SUFFICES ASSUME Inv, Ask
             PROVE  Promise!Next /\ Inv'
  OBVIOUS
<1>1. call = Idle /\ held = None /\ UNCHANGED << svc, q, hist, wire, held, told >>
  BY DEF Ask
<1>2. HistOK /\ Len(hist) \in Nat /\ Len(hist) \in 1 .. Len(hist)
  BY DEF Inv, HistOK
<1>3. call'.since = Len(hist) /\ call' # Idle
  BY DEF Ask, Idle
<1>4. Floor = Len(hist) /\ Floor' = Len(hist)
  BY <1>1, <1>3 DEF Floor, FloorOf
<1>5. Promise!Next
  BY <1>1, <1>2, <1>4, Quiet
<1>6. HistOK' /\ HeldOK(svc, q, hist, call, held)'
  BY <1>1, <1>2 DEF HistOK, HeldOK
<1>7. CallOK(svc, q, hist, call') /\ WireOK(svc, q, hist, call', wire)
  <2>1. CASE svc \in Chain /\ call' = [at |-> "chain", since |-> Len(hist), l |-> Begin(q)]
    BY <1>2, <2>1, BeginOK DEF CallOK, WireOK
  <2>2. CASE svc \in Dns /\ \E id \in 1 .. 2 : /\ \A p \in wire : p.id = id => p.q # q
                                               /\ call' = [at |-> "udp", since |-> Len(hist), id |-> id]
    BY <1>2, <2>2 DEF CallOK, WireOK
  <2>3. CASE svc \notin Chain \cup Dns /\ call' = [at |-> "http", since |-> Len(hist)]
    BY <1>2, <2>3 DEF CallOK, WireOK
  <2> QED
    BY <2>1, <2>2, <2>3 DEF Ask
<1> QED
  BY <1>1, <1>5, <1>6, <1>7 DEF Inv

LEMMA StepReplied == Inv /\ Replied => Promise!Next /\ Inv'
<1> SUFFICES ASSUME Inv, Replied
             PROVE  Promise!Next /\ Inv'
  OBVIOUS
<1>1. PICK r \in HonestReplies(svc, Now) \cup Faults(svc) : Conclude(Resolve(svc, r, q), r.kind = "noMethod")
  BY DEF Replied
<1>2. call.at = "http" /\ call # Idle /\ UNCHANGED << svc, q, hist, wire >>
  BY DEF Replied, Idle
<1>3. HistOK /\ Len(hist) \in Nat /\ call.since \in 1 .. Len(hist) /\ Len(hist) \in call.since .. Len(hist)
  BY <1>2, InACall
<1>4. svc \in ServiceNames \ (Chain \cup Dns)
  BY <1>2, <1>3, Asking DEF Inv, CallOK
<1> DEFINE unsure == r.kind = "noMethod"
           result == Resolve(svc, r, q)
           answer == Outcome(result, unsure)
<1>5. answer.rcode = result.rcode /\ answer.types = result.types /\ answer.unsure = unsure
  BY DEF Outcome
<1>6. Conclude(result, unsure)
  BY <1>1
<1>7. CASE r.kind = "noMethod"
  <2>1. r.kind \notin Denials(svc) \cup {"data"}
    BY <1>7 DEF Denials
  <2>2. svc = "solana-sns"
    BY <1>7, <2>1 DEF HonestReplies, Faults, Reply
  <2>3. result = Missing
    BY <1>7, <2>2, Resolvers DEF resolveSolanaSNSQuickNode, Judge
  <2>4. unsure
    BY <1>7
  <2> HIDE DEF answer, result, unsure
  <2>5. Honest(svc, q, hist, call.since, answer)
    BY <1>5, <2>3, <2>4 DEF Honest, Missing
  <2> QED
    BY <1>2, <1>6, <2>5, Concluding DEF answer
<1>8. CASE r.kind # "noMethod"
  <2>1. Judged(TypesOf(svc, Now), result)
    BY <1>4, <1>8, HttpJudged
  <2>2. Now = hist[Len(hist)] /\ TypesOf(svc, Now) \subseteq RRTypes
    BY <1>4, TypesAreTypes DEF Now
  <2> HIDE DEF answer, result, unsure
  <2>3. Honest(svc, q, hist, call.since, answer)
    <3>1. CASE result.rcode = "SERVFAIL"
      BY <1>5, <3>1 DEF Honest
    <3>2. CASE result = Missing /\ TypesOf(svc, Now) = {}
      <4>1. Gone(svc, hist, call.since)
        BY <1>3, <2>2, <3>2 DEF Gone
      <4> QED
        BY <1>5, <3>2, <4>1 DEF Honest, Missing
    <3>3. CASE result = Found(TypesOf(svc, Now), q)
      <4>1. result.rcode = "NOERROR" /\ result.types = {t \in TypesOf(svc, Now) : Wanted(t, q)}
        BY <3>3 DEF Found, filterRecords
      <4>2. AskedOf(svc, q) = {t \in RRTypes : Wanted(t, q)}
        BY <1>4 DEF AskedOf, filterRecords
      <4>3. Holds(svc, q, hist, call.since, result.types)
        BY <1>3, <2>2, <4>1, <4>2, NowHolds
      <4> QED
        BY <1>5, <4>1, <4>3 DEF Honest
    <3> QED
      BY <2>1, <3>1, <3>2, <3>3 DEF Judged
  <2> QED
    BY <1>2, <1>6, <2>3, Concluding DEF answer
<1> QED
  BY <1>7, <1>8

\* A lookup of contracts is under way.
LEMMA InALookup ==
  ASSUME Inv, call.at = "chain"
  PROVE  /\ call # Idle /\ svc \in Chain /\ LookupOK(svc, q, hist, call.since, call.l)
         /\ Len(hist) \in Nat /\ call.since \in 1 .. Len(hist)
<1>1. call # Idle
  BY DEF Idle
<1> QED
  BY <1>1, InACall DEF Inv, CallOK

LEMMA StepEthAnswered == Inv /\ EthAnswered => Promise!Next /\ Inv'
<1> SUFFICES ASSUME Inv, EthAnswered
             PROVE  Promise!Next /\ Inv'
  OBVIOUS
<1> DEFINE l == call.l
<1>1. PICK present \in Present(l) : Advance(CallAnswered(l, q, present))
  BY DEF EthAnswered
<1>2. call.at = "chain"
  BY DEF EthAnswered, ChainCall
<1>3. /\ svc \in Chain /\ LookupOK(svc, q, hist, call.since, l) /\ call # Idle
      /\ Len(hist) \in Nat /\ call.since \in 1 .. Len(hist)
  BY <1>2, InALookup
<1>4. l.to = "own"
  BY <1>3 DEF LookupOK, Underway
<1> HIDE DEF l
<1>5. /\ present \in BOOLEAN
      /\ l.for = "resolver" => (present <=> hist[Len(hist)] # Absent)
      /\ l.for # "resolver" => (present <=> l.for \in TypesOf(svc, hist[Len(hist)]))
  <2>1. CASE l.for = "resolver"
    <3>1. Present(l) = {Now # Absent}
      BY <1>4, <2>1, Zenon DEF Present
    <3>2. present = (Now # Absent)
      BY <1>1, <3>1, Zenon DEF l
    <3> QED
      BY <2>1, <3>2, Zenon DEF Now
  <2>2. CASE l.for # "resolver"
    <3>1. Present(l) = {l.for \in TypesOf(svc, Now)}
      BY <1>4, <2>2, Zenon DEF Present
    <3>2. present = (l.for \in TypesOf(svc, Now))
      BY <1>1, <3>1, Zenon DEF l
    <3>3. (l.for \in TypesOf(svc, Now)) \in BOOLEAN
      OBVIOUS
    <3>4. present \in BOOLEAN /\ (present <=> l.for \in TypesOf(svc, hist[Len(hist)]))
      BY <3>2, <3>3, Zenon DEF Now
    <3> QED
      BY <2>2, <3>4, Zenon
  <2> QED
    BY <2>1, <2>2
<1>6. AdvanceOK(svc, q, hist, call.since, CallAnswered(l, q, present))
  BY <1>3, <1>5, CallAnsweredOK
<1> QED
  BY <1>1, <1>2, <1>3, <1>6, Advancing DEF l

LEMMA StepEthFailed == Inv /\ EthFailed => Promise!Next /\ Inv'
<1> SUFFICES ASSUME Inv, EthFailed
             PROVE  Promise!Next /\ Inv'
  OBVIOUS
<1>1. call.at = "chain" /\ Advance(CallFailed(call.l, q))
  BY DEF EthFailed, ChainCall
<1>2. AdvanceOK(svc, q, hist, call.since, CallFailed(call.l, q))
  BY <1>1, InALookup, CallFailedOK
<1> QED
  BY <1>1, <1>2, InALookup, Advancing

LEMMA StepOffchain == Inv /\ (EthAsksOffchain \/ GatewayReplied) => Promise!Next /\ Inv'
<1> SUFFICES ASSUME Inv, EthAsksOffchain \/ GatewayReplied
             PROVE  Promise!Next /\ Inv'
  OBVIOUS
<1>1. call.at = "chain"
  BY DEF EthAsksOffchain, GatewayReplied, ChainCall
<1>2. /\ \A sender, urls : AdvanceOK(svc, q, hist, call.since, ccipRead(call.l, q, sender, urls))
      /\ \A answered : AdvanceOK(svc, q, hist, call.since, fetchCCIPResponse(call.l, q, answered))
  BY <1>1, InALookup, OffchainOK
<1>3. PICK l : Advance(l) /\ AdvanceOK(svc, q, hist, call.since, l)
  BY <1>2 DEF EthAsksOffchain, GatewayReplied
<1> QED
  BY <1>1, <1>3, InALookup, Advancing

\* A query of a DNS server is under way.
LEMMA InAQuery ==
  ASSUME Inv, call.at \in {"udp", "tcp"}
  PROVE  /\ call # Idle /\ svc \in Dns /\ DOMAIN call = {"at", "since", "id"}
         /\ HistOK /\ held = None /\ Len(hist) \in Nat /\ call.since \in 1 .. Len(hist) /\ Floor = call.since
<1>1. call # Idle
  BY DEF Idle
<1> QED
  BY <1>1, InACall DEF Inv, CallOK

LEMMA StepServerReplies == Inv /\ ServerReplies => Promise!Next /\ Inv'
<1> SUFFICES ASSUME Inv, ServerReplies
             PROVE  Promise!Next /\ Inv'
  OBVIOUS
<1>1. call.at = "udp" /\ UNCHANGED << svc, q, hist, call, held, told >>
  BY DEF ServerReplies
<1>2. /\ svc \in Dns /\ HistOK /\ Len(hist) \in Nat /\ call.since \in 1 .. Len(hist)
      /\ Floor = call.since /\ Floor' = Floor
  BY <1>1, InAQuery DEF Floor
<1>3. Promise!Next
  BY <1>1, <1>2, Quiet
<1>4. \E p : wire' = wire \cup {p} /\ (p.q = q => PacketOK(svc, q, hist, call.since, p))
  <2>1. PICK p : /\ wire' = wire \cup {p}
                 /\ p \in Replies(call.id)
                          \cup {[id |-> i, q |-> "another", rcode |-> "NOERROR",
                                 records |-> {<< "asked", "A" >>}, tc |-> FALSE] : i \in 1 .. 2}
    BY DEF ServerReplies
  <2>2. CASE p \in Replies(call.id)
    BY <1>2, <2>1, <2>2, RepliesOK
  <2>3. CASE p \notin Replies(call.id)
    <3>1. p.q = "another"
      BY <2>1, <2>3
    <3> QED
      BY <1>2, <2>1, <3>1, Asking
  <2> QED
    BY <2>2, <2>3
<1>5. WireOK(svc, q, hist, call, wire')
  BY <1>4 DEF Inv, WireOK
<1> QED
  BY <1>1, <1>3, <1>5 DEF Inv, HistOK

LEMMA StepDatagramRead == Inv /\ DatagramRead => Promise!Next /\ Inv'
<1> SUFFICES ASSUME Inv, DatagramRead
             PROVE  Promise!Next /\ Inv'
  OBVIOUS
<1>1. call.at = "udp" /\ UNCHANGED << svc, q, hist >>
  BY DEF DatagramRead
<1>2. /\ call # Idle /\ svc \in Dns /\ DOMAIN call = {"at", "since", "id"}
      /\ HistOK /\ held = None /\ Len(hist) \in Nat /\ call.since \in 1 .. Len(hist) /\ Floor = call.since
  BY <1>1, InAQuery
<1>3. PICK p \in wire :
        LET after == afterDatagram(p, call.id, q) IN
          IF after.at = "tcp" THEN call' = [call EXCEPT !.at = "tcp"] /\ UNCHANGED << told, held >>
          ELSE Conclude(after.result, FALSE)
  BY DEF DatagramRead
<1>4. CASE p.id = call.id /\ p.tc
  <2>1. call' = [call EXCEPT !.at = "tcp"] /\ UNCHANGED << told, held >>
    BY <1>3, <1>4 DEF afterDatagram, dnsResponseTruncated
  <2>2. call'.at = "tcp" /\ call'.since = call.since /\ DOMAIN call' = {"at", "since", "id"}
    BY <1>2, <2>1
  <2>3. Floor' = Floor
    BY <1>1, <1>2, <2>1, <2>2 DEF Floor, FloorOf, Idle
  <2>4. Promise!Next
    BY <1>1, <1>2, <2>1, <2>3, Quiet
  <2>5. HistOK' /\ CallOK(svc, q, hist, call)' /\ WireOK(svc, q, hist, call, wire)'
        /\ HeldOK(svc, q, hist, call, held)'
    BY <1>1, <1>2, <2>1, <2>2 DEF HistOK, CallOK, WireOK, HeldOK
  <2> QED
    BY <2>4, <2>5 DEF Inv
<1>5. CASE ~(p.id = call.id /\ p.tc)
  <2> DEFINE result == parseDNSResponse(p, call.id, q)
             unsure == FALSE
  <2>1. Conclude(result, unsure)
    BY <1>3, <1>5 DEF afterDatagram, dnsResponseTruncated
  <2>2. p.id = call.id /\ p.q = q => PacketOK(svc, q, hist, call.since, p)
    BY <1>1 DEF Inv, WireOK
  <2>3. Honest(svc, q, hist, call.since, Outcome(result, unsure))
    BY <1>5, <2>2, ParseOK
  <2> HIDE DEF result, unsure
  <2> QED
    BY <1>1, <1>2, <2>1, <2>3, Concluding
<1> QED
  BY <1>4, <1>5

LEMMA StepStreamRead == Inv /\ StreamRead => Promise!Next /\ Inv'
<1> SUFFICES ASSUME Inv, StreamRead
             PROVE  Promise!Next /\ Inv'
  OBVIOUS
<1>1. call.at = "tcp" /\ UNCHANGED << svc, q, hist, wire >>
  BY DEF StreamRead
<1>2. call # Idle /\ svc \in Dns /\ HistOK /\ call.since \in 1 .. Len(hist)
  BY <1>1, InAQuery
<1>3. PICK p \in Replies(call.id) : ~p.tc /\ Conclude(parseDNSResponse(p, call.id, q), FALSE)
  BY DEF StreamRead
<1>4. PacketOK(svc, q, hist, call.since, p)
  BY <1>2, RepliesOK
<1> DEFINE result == parseDNSResponse(p, call.id, q)
           unsure == FALSE
<1>5. Conclude(result, unsure) /\ Honest(svc, q, hist, call.since, Outcome(result, unsure))
  BY <1>3, <1>4, ParseOK
<1> HIDE DEF result, unsure
<1> QED
  BY <1>1, <1>2, <1>5, Concluding

LEMMA StepTimedOut == Inv /\ TimedOut => Promise!Next /\ Inv'
<1> SUFFICES ASSUME Inv, TimedOut
             PROVE  Promise!Next /\ Inv'
  OBVIOUS
<1>1. call.at \in {"udp", "tcp"} /\ UNCHANGED << svc, q, hist, wire >>
  BY DEF TimedOut
<1>2. call # Idle
  BY <1>1, InAQuery
<1> DEFINE result == serviceFailure
           unsure == FALSE
<1>3. Conclude(result, unsure)
  BY DEF TimedOut
<1>4. Honest(svc, q, hist, call.since, Outcome(result, unsure))
  BY DEF Honest, Outcome, serviceFailure
<1> HIDE DEF result, unsure
<1> QED
  BY <1>1, <1>2, <1>3, <1>4, Concluding

LEMMA StepLost == Inv /\ Lost => Promise!Next /\ Inv'
<1> SUFFICES ASSUME Inv, Lost
             PROVE  Promise!Next /\ Inv'
  OBVIOUS
<1>1. wire' \subseteq wire /\ UNCHANGED << svc, q, hist, call, held, told >>
  BY DEF Lost
<1>2. HistOK /\ Floor \in Floor .. Len(hist) /\ Floor' = Floor
  BY <1>1 DEF Inv, HistOK, Floor, FloorOf, CallOK, HeldOK
<1>3. Promise!Next
  BY <1>1, <1>2, Quiet
<1>4. Inv'
  BY <1>1 DEF Inv, HistOK, WireOK
<1> QED
  BY <1>3, <1>4

LEMMA StepStutter == Inv /\ UNCHANGED vars => UNCHANGED Promise!vars /\ Inv'
<1> SUFFICES ASSUME Inv, UNCHANGED vars
             PROVE  UNCHANGED Promise!vars /\ Inv'
  OBVIOUS
<1>1. UNCHANGED << svc, q, hist, call, wire, held, told >>
  BY DEF vars
<1>2. Inv'
  BY <1>1 DEF Inv, HistOK
<1>3. UNCHANGED Promise!vars
  BY <1>1 DEF Promise!vars, Bar
<1> QED
  BY <1>2, <1>3

LEMMA StepPromise == Inv /\ [Next]_vars => [Promise!Next]_(Promise!vars) /\ Inv'
  BY StepChange, StepHit, StepAsk, StepExpire, StepServerReplies, StepLost, StepReplied, StepEthAnswered,
     StepEthFailed, StepOffchain, StepDatagramRead, StepStreamRead, StepTimedOut, StepStutter DEF Next, Step

-----------------------------------------------------------------------------
(* Types.                                                                  *)

Results == [rcode : {"NOERROR", "NXDOMAIN", "SERVFAIL"}, types : SUBSET RRTypes, err : BOOLEAN]

\* A result has records only with NOERROR.
Typed(result) == result \in Results /\ (result.types # {} => result.rcode = "NOERROR")

LEMMA ResultsTyped ==
  /\ Typed(serviceFailure) /\ Typed([serviceFailure EXCEPT !.err = FALSE]) /\ Typed(Missing)
  /\ \A types \in SUBSET RRTypes : \A k : Typed(Found(types, k))
  BY DEF Typed, Results, serviceFailure, Missing, Found, filterRecords

\* Whatever a service replies.
LEMMA ResolveTyped ==
  ASSUME NEW s \in ServiceNames \ (Chain \cup Dns), NEW r
  PROVE  Typed(Resolve(s, r, q))
<1>1. /\ \A mapper : Sound(mapper) => Mapped(mapper, r.fields) \in SUBSET RRTypes
      /\ \A mapper, k : Sound(mapper) => filterRecords(Mapped(mapper, r.fields), k) \in SUBSET RRTypes
  BY SoundMapper DEF filterRecords
<1>2. Typed(Resolve("unstoppable-domains", r, q))
  BY <1>1, Resolvers, ResultsTyped, SoundRecords DEF resolveUnstoppableResolutionAPI, Judge
<1>3. Typed(Resolve("pns-polkadot", r, q))
  BY <1>1, Resolvers, ResultsTyped, SoundRecords DEF resolvePNSPolkadotAPI, Judge
<1>4. Typed(Resolve("space-id", r, q))
  BY <1>1, Resolvers, ResultsTyped, SoundRecords DEF resolveSpaceIDAPI, Judge
<1>5. Typed(Resolve("tezos-domains", r, q))
  BY <1>1, Resolvers, ResultsTyped, SoundRecords DEF resolveTezosDomainsAPI, Judge
<1>6. Typed(Resolve("aptos-names", r, q))
  BY <1>1, Resolvers, ResultsTyped, SoundRecords DEF resolveAptosNamesAPI, Judge
<1>7. Typed(Resolve("solana-sns", r, q))
  BY <1>1, Resolvers, ResultsTyped, SoundRecords DEF resolveSolanaSNSQuickNode, Judge
<1>8. Typed(Resolve("fio-handle", r, q))
  BY <1>1, Resolvers, ResultsTyped, SoundRecords DEF resolveFIOChainAPI, Judge
<1>9. Typed(Resolve("freename-fns", r, q))
  BY <1>1, Resolvers, ResultsTyped, SoundRecords DEF resolveFreenameResolutionAPI, Judge
<1>10. Typed(Resolve("did-bit", r, q))
  BY <1>1, Resolvers, ResultsTyped, SoundRecords DEF resolveDIDUniversalResolver, Judge
<1>11. Typed(Resolve("openalias", r, q))
  BY <1>1, Resolvers, ResultsTyped, SoundRecords DEF resolveOpenAliasDNSTXT, Judge
<1>12. Typed(Resolve("ada-handle", r, q))
  BY <1>1, Resolvers, ResultsTyped, SoundRecords DEF resolveADAHandleAPI, Judge
<1>13. Typed(Resolve("ton-dns", r, q))
  BY <1>1, Resolvers, ResultsTyped, SoundRecords DEF resolveTONCenterV3DNS, Judge
<1>14. Typed(Resolve("suins", r, q))
  BY <1>1, Resolvers, ResultsTyped, SoundRecords DEF resolveSuiNSJSONRPC, Judge
<1>15. Typed(Resolve("stacks-bns", r, q))
  BY <1>1, Resolvers, ResultsTyped, SoundRecords DEF resolveStacksBNSAPI, Judge, stacksBNSRecords
<1>16. Typed(Resolve("namecoin-bit", r, q))
  BY <1>1, Resolvers, ResultsTyped, SoundRecords DEF resolveNamecoinJSONRPC, Judge
<1>17. Typed(Resolve("remote", r, q))
  <2>1. Mapped(tezosDomainRecords, r.fields) \in SUBSET RRTypes
    BY <1>1, SoundRecords
  <2>2. Typed(Found(Mapped(tezosDomainRecords, r.fields), q))
    BY <2>1, ResultsTyped
  <2>3. Typed(resolveRemote(r, q))
    BY <2>2, ResultsTyped, Zenon DEF resolveRemote
  <2> QED
    BY <2>3, Resolvers
<1> QED
  BY <1>2, <1>3, <1>4, <1>5, <1>6, <1>7, <1>8, <1>9, <1>10, <1>11, <1>12, <1>13, <1>14, <1>15, <1>16, <1>17
  DEF ServiceNames, Chain, Dns

\* However a lookup of contracts goes on, its result is typed if it ends.
Ended(m) == m.at = "end" => Typed(m.result) /\ m.lost \in BOOLEAN

LEMMA AdvanceTyped ==
  ASSUME NEW s, NEW k, NEW h, NEW n, NEW l, LookupOK(s, k, h, n, l)
  PROVE  /\ \A present : Ended(CallAnswered(l, k, present))
         /\ Ended(CallFailed(l, k))
         /\ \A sender, urls : Ended(ccipRead(l, k, sender, urls))
         /\ \A answered : Ended(fetchCCIPResponse(l, k, answered))
<1>1. /\ DOMAIN l = LookupFields /\ l.at \in {"eth", "gateway"} /\ l.got \in SUBSET EnsTypes
      /\ l.for \in EnsTypes \cup {"resolver"} /\ EnsTypes \subseteq RRTypes
      /\ l.lost \in BOOLEAN
  BY DEF LookupOK, Underway, EnsTypes, RRTypes
<1>2. ASSUME NEW m, DOMAIN m = LookupFields, m.lost \in BOOLEAN, NEW result, Typed(result)
      PROVE  Ended(Finish(m, result))
  BY <1>2 DEF Ended, Finish, LookupFields
<1>3. ASSUME NEW m, DOMAIN m = LookupFields, m.lost \in BOOLEAN, m.got \in SUBSET RRTypes
      PROVE  Ended(NextCall(m, k))
  <2>1. Ended(Finish(m, Found(m.got, k)))
    BY <1>2, <1>3, ResultsTyped
  <2>2. Ended([m EXCEPT !.at = "eth", !.for = Head(m.todo), !.todo = Tail(m.todo), !.depth = 0, !.to = "own"])
    BY <1>3 DEF Ended, LookupFields
  <2> QED
    BY <2>1, <2>2 DEF NextCall
<1>4. Ended(CallFailed(l, k))
  <2>1. Ended(Finish(l, serviceFailure))
    BY <1>1, <1>2, ResultsTyped
  <2>2. Ended(NextCall([l EXCEPT !.lost = TRUE, !.urls = << >>], k))
    BY <1>1, <1>3 DEF LookupFields
  <2> QED
    BY <2>1, <2>2 DEF CallFailed
<1>5. ASSUME NEW present
      PROVE  Ended(CallAnswered(l, k, present))
  <2> DEFINE found == IF present THEN l.got \cup {l.for} ELSE l.got
  <2>1. Ended(Finish(l, Missing)) /\ Ended(NextCall(l, k))
    BY <1>1, <1>2, <1>3, ResultsTyped
  <2>2. CASE l.for = "resolver"
    BY <2>1, <2>2 DEF CallAnswered
  <2>3. CASE l.for # "resolver"
    <3>1. found \in SUBSET RRTypes
      BY <1>1, <2>3
    <3> HIDE DEF found
    <3>2. Ended(NextCall([l EXCEPT !.got = found], k))
      BY <1>1, <1>3, <3>1 DEF LookupFields
    <3> QED
      BY <2>3, <3>2 DEF CallAnswered, found
  <2> QED
    BY <2>2, <2>3
<1>6. /\ \A urls : Ended([l EXCEPT !.at = "gateway", !.urls = urls])
      /\ Ended([l EXCEPT !.at = "eth", !.depth = @ + 1, !.urls = << >>])
      /\ Ended([l EXCEPT !.urls = Tail(@)])
  BY <1>1 DEF Ended, LookupFields
<1>7. /\ \A sender, urls : Ended(ccipRead(l, k, sender, urls))
      /\ \A answered : Ended(fetchCCIPResponse(l, k, answered))
  BY <1>4, <1>6 DEF ccipRead, fetchCCIPResponse
<1> QED
  BY <1>4, <1>5, <1>7

\* The packets under way and their results.
WireTyped == \A p \in wire : TypesIn(p.records) \subseteq RRTypes

LEMMA ParseTyped ==
  ASSUME NEW p, NEW id, TypesIn(p.records) \subseteq RRTypes
  PROVE  Typed(parseDNSResponse(p, id, q))
<1>1. Typed(Found(TypesIn(p.records), "ANY"))
  BY ResultsTyped
<1> QED
  BY <1>1, ResultsTyped DEF parseDNSResponse, TypesIn

LEMMA RepliesTyped ==
  ASSUME svc \in Dns, NEW id, NEW p \in Replies(id)
  PROVE  TypesIn(p.records) \subseteq RRTypes
<1>1. TypesOf(svc, Now) \subseteq RRTypes
  BY TypesAreTypes DEF Dns, ServiceNames
<1>2. \A rr \in Records : rr[2] \in RRTypes
  <2>1. \A t \in filterRecords(TypesOf(svc, Now), q) \cup filterRecords({"A", "TXT"}, q) \cup {"CNAME"} : t \in RRTypes
    BY <1>1 DEF filterRecords, RRTypes
  <2>2. \A rr \in Records : \E t \in filterRecords(TypesOf(svc, Now), q) \cup filterRecords({"A", "TXT"}, q) \cup {"CNAME"} :
          rr = << "asked", t >> \/ rr = << "other", t >>
    BY DEF Records
  <2> QED
    BY <2>1, <2>2
<1>3. p.records \subseteq Records
  BY DEF Replies, Packet
<1> QED
  BY <1>2, <1>3 DEF TypesIn

\* TypeOK with the same of what is held as of what is told.
TInv ==
  /\ TypeOK /\ WireTyped
  /\ held # None /\ held.answer.types # {} => held.answer.rcode = "NOERROR"

LEMMA ConcludingTyped ==
  ASSUME TInv, HistOK', WireTyped', NEW result, NEW unsure \in BOOLEAN, Conclude(result, unsure), Typed(result)
  PROVE  TInv'
<1> DEFINE answer == [rcode |-> result.rcode, types |-> result.types, err |-> result.err, unsure |-> unsure]
<1>1. /\ told' = answer /\ call' = Idle
      /\ held' = IF result.err THEN None ELSE [answer |-> answer, since |-> call.since]
  BY DEF Conclude
<1>2. /\ answer \in Answers /\ answer.types = result.types /\ answer.rcode = result.rcode
      /\ answer.err = result.err /\ result.err \in BOOLEAN
  BY DEF Typed, Results, Answers
<1> HIDE DEF answer
<1>3. answer.types # {} => answer.rcode = "NOERROR"
  BY <1>2 DEF Typed
<1>4. held' = None \/ (held'.answer = answer /\ ~answer.err)
  BY <1>1, <1>2
<1> QED
  BY <1>1, <1>2, <1>3, <1>4 DEF TInv, TypeOK, HistOK, Idle

LEMMA InitTyped == Init => TInv
<1> SUFFICES ASSUME Init
             PROVE  TInv
  OBVIOUS
<1>1. svc \in Services /\ q \in QTypes /\ hist \in Seq(Holdings(svc))
  BY InitPromise DEF Inv, HistOK
<1>2. call.at = "idle" /\ held = None
  BY DEF Init, Idle
<1>3. told \in Answers /\ told.types = {}
  BY DEF Init, Answers
<1>4. wire = {}
  BY DEF Init
<1> QED
  BY <1>1, <1>2, <1>3, <1>4 DEF TInv, TypeOK, WireTyped

LEMMA AdvancingTyped ==
  ASSUME Inv, TInv, HistOK', WireTyped', call.at = "chain", call # Idle, NEW l, Advance(l), Ended(l)
  PROVE  TInv'
<1>1. CASE l.at = "end"
  <2>1. Conclude(l.result, l.lost) /\ l.lost \in BOOLEAN
    BY <1>1 DEF Advance, Ended
  <2> QED
    BY <1>1, <2>1, ConcludingTyped DEF Ended
<1>2. CASE l.at # "end"
  <2>1. call' = [call EXCEPT !.l = l] /\ UNCHANGED << told, held >>
    BY <1>2 DEF Advance
  <2>2. call'.at = "chain"
    BY <2>1 DEF Inv, CallOK
  <2> QED
    BY <2>1, <2>2 DEF TInv, TypeOK, HistOK
<1> QED
  BY <1>1, <1>2

LEMMA StepWireTyped == Inv /\ TInv /\ [Next]_vars => WireTyped'
<1> SUFFICES ASSUME Inv, TInv, [Next]_vars
             PROVE  WireTyped'
  OBVIOUS
<1>1. CASE ServerReplies
  <2>1. svc \in Dns
    BY <1>1, InAQuery DEF ServerReplies
  <2>2. PICK p : /\ wire' = wire \cup {p}
                 /\ p \in Replies(call.id)
                          \cup {[id |-> i, q |-> "another", rcode |-> "NOERROR",
                                 records |-> {<< "asked", "A" >>}, tc |-> FALSE] : i \in 1 .. 2}
    BY <1>1 DEF ServerReplies
  <2>3. CASE p \in Replies(call.id)
    BY <2>1, <2>2, <2>3, RepliesTyped DEF TInv, WireTyped
  <2>4. CASE p \notin Replies(call.id)
    <3>1. p.records = {<< "asked", t >> : t \in {"A"}}
      BY <2>2, <2>4
    <3>2. TypesIn(p.records) = {"A"}
      <4>1. {r \in p.records : r[1] = "asked"} = {<< "asked", t >> : t \in {"A"}}
        BY <3>1
      <4> QED
        BY <4>1, Seconds DEF TypesIn
    <3> QED
      BY <2>2, <3>2 DEF TInv, WireTyped, RRTypes
  <2> QED
    BY <2>3, <2>4
<1>2. CASE ~ServerReplies
  <2>1. wire' \subseteq wire
    BY <1>2 DEF Next, Step, Change, Hit, Ask, Expire, Lost, Replied, EthAnswered, EthFailed, EthAsksOffchain,
                GatewayReplied, Advance, DatagramRead, StreamRead, TimedOut, vars
  <2> QED
    BY <2>1 DEF TInv, WireTyped
<1> QED
  BY <1>1, <1>2

LEMMA StepTyped == Inv /\ TInv /\ [Next]_vars => TInv'
<1> SUFFICES ASSUME Inv, TInv, [Next]_vars
             PROVE  TInv'
  OBVIOUS
<1>0. HistOK' /\ WireTyped'
  BY StepPromise, StepWireTyped DEF Inv
<1>1. CASE Change \/ Hit \/ Expire \/ ServerReplies \/ Lost \/ UNCHANGED vars
  <2>1. (held' = held \/ held' = None) /\ call' = call
        /\ (told' = told \/ (held # None /\ told' = held.answer))
    BY <1>1 DEF Change, Hit, Expire, ServerReplies, Lost, vars
  <2> QED
    BY <1>0, <2>1 DEF TInv, TypeOK, HistOK
<1>2. CASE Ask
  <2>1. call'.at \in {"http", "chain", "udp"} /\ UNCHANGED << held, told >>
    BY <1>2 DEF Ask
  <2> QED
    BY <1>0, <2>1 DEF TInv, TypeOK, HistOK
<1>3. CASE Replied
  <2>1. PICK r : Conclude(Resolve(svc, r, q), r.kind = "noMethod")
    BY <1>3 DEF Replied
  <2>2. call.at = "http" /\ call # Idle
    BY <1>3 DEF Replied, Idle
  <2>3. svc \in ServiceNames \ (Chain \cup Dns)
    BY <2>2, Asking DEF Inv, CallOK
  <2>4. Typed(Resolve(svc, r, q))
    BY <2>3, ResolveTyped
  <2> DEFINE unsure == r.kind = "noMethod"
             result == Resolve(svc, r, q)
  <2>5. Conclude(result, unsure) /\ unsure \in BOOLEAN /\ Typed(result)
    BY <2>1, <2>4
  <2> HIDE DEF unsure, result
  <2> QED
    BY <1>0, <2>5, ConcludingTyped
<1>4. CASE EthAnswered \/ EthFailed \/ EthAsksOffchain \/ GatewayReplied
  <2>1. call.at = "chain"
    BY <1>4 DEF EthAnswered, EthFailed, EthAsksOffchain, GatewayReplied, ChainCall
  <2>2. call # Idle /\ LookupOK(svc, q, hist, call.since, call.l)
    BY <2>1, InALookup
  <2>3. PICK l : Advance(l) /\ Ended(l)
    BY <1>4, <2>2, AdvanceTyped DEF EthAnswered, EthFailed, EthAsksOffchain, GatewayReplied
  <2> QED
    BY <1>0, <2>1, <2>2, <2>3, AdvancingTyped
<1>5. CASE StreamRead
  <2>1. call.at = "tcp" /\ svc \in Dns
    BY <1>5, InAQuery DEF StreamRead
  <2>2. PICK p \in Replies(call.id) : Conclude(parseDNSResponse(p, call.id, q), FALSE)
    BY <1>5 DEF StreamRead
  <2> DEFINE result == parseDNSResponse(p, call.id, q)
             unsure == FALSE
  <2>3. Conclude(result, unsure) /\ unsure \in BOOLEAN /\ Typed(result)
    BY <2>1, <2>2, RepliesTyped, ParseTyped
  <2> HIDE DEF result, unsure
  <2> QED
    BY <1>0, <2>3, ConcludingTyped
<1>6. CASE DatagramRead
  <2>1. PICK p \in wire :
          LET after == afterDatagram(p, call.id, q) IN
            IF after.at = "tcp" THEN call' = [call EXCEPT !.at = "tcp"] /\ UNCHANGED << told, held >>
            ELSE Conclude(after.result, FALSE)
    BY <1>6 DEF DatagramRead
  <2>2. CASE p.id = call.id /\ p.tc
    <3>1. call' = [call EXCEPT !.at = "tcp"] /\ UNCHANGED << told, held >>
      BY <2>1, <2>2 DEF afterDatagram, dnsResponseTruncated
    <3>2. call'.at = "tcp"
      BY <1>6, <3>1, InAQuery DEF DatagramRead
    <3> QED
      BY <1>0, <3>1, <3>2 DEF TInv, TypeOK, HistOK
  <2>3. CASE ~(p.id = call.id /\ p.tc)
    <3> DEFINE result == parseDNSResponse(p, call.id, q)
               unsure == FALSE
    <3>1. Conclude(result, unsure) /\ unsure \in BOOLEAN
      BY <2>1, <2>3 DEF afterDatagram, dnsResponseTruncated
    <3>2. Typed(result)
      BY ParseTyped DEF TInv, WireTyped
    <3> HIDE DEF result, unsure
    <3> QED
      BY <1>0, <3>1, <3>2, ConcludingTyped
  <2> QED
    BY <2>2, <2>3
<1>7. CASE TimedOut
  <2> DEFINE result == serviceFailure
             unsure == FALSE
  <2>1. Conclude(result, unsure) /\ unsure \in BOOLEAN /\ Typed(result)
    BY <1>7, ResultsTyped DEF TimedOut
  <2> HIDE DEF result, unsure
  <2> QED
    BY <1>0, <2>1, ConcludingTyped
<1> QED
  BY <1>1, <1>2, <1>3, <1>4, <1>5, <1>6, <1>7 DEF Next, Step

-----------------------------------------------------------------------------
(* How much of a resolution is left.                                       *)

\* What is left of one contract call when its offchain lookups are this deep.
Below(depth) == (MaxCCIPDepth - depth) * (MaxGateways + 1)

\* The calls after it, each with all the offchain lookups it may ask for, and
\* the gateways not tried yet.
LookupRank(l) ==
  Len(l.todo) * (Below(0) + 1)
  + (IF l.at = "gateway" THEN Below(l.depth + 1) + Len(l.urls) ELSE Below(l.depth))

CallRank(c) ==
  IF c.at = "idle" THEN 0 ELSE IF c.at = "udp" THEN 2 ELSE IF c.at = "chain" THEN LookupRank(c.l) + 1 ELSE 1

\* The depth and the gateways are within their bounds.
Bounded(l) ==
  /\ DOMAIN l = LookupFields /\ l.todo \in Seq(EnsTypes)
  /\ \/ l.at = "eth" /\ l.depth \in 0 .. MaxCCIPDepth
     \/ /\ l.at = "gateway" /\ l.depth \in 0 .. MaxCCIPDepth - 1
        /\ l.urls \in Seq({"outer", "inner"}) /\ Len(l.urls) \in 1 .. MaxGateways

LEMMA BelowFacts ==
  /\ Below(0) \in Nat
  /\ \A depth \in 0 .. MaxCCIPDepth : Below(depth) \in Nat
  /\ \A depth \in 0 .. MaxCCIPDepth - 1 : Below(depth) = Below(depth + 1) + MaxGateways + 1
<1>1. MaxCCIPDepth \in Nat /\ MaxGateways \in Nat
  BY LookupsAssumption
<1>2. \A m \in Nat : m * (MaxGateways + 1) \in Nat
  BY <1>1
<1>3. \A depth \in 0 .. MaxCCIPDepth : MaxCCIPDepth - depth \in Nat
  BY <1>1
<1>4. \A depth \in 0 .. MaxCCIPDepth : Below(depth) \in Nat
  BY <1>2, <1>3 DEF Below
<1>5. ASSUME NEW depth \in 0 .. MaxCCIPDepth - 1
      PROVE  Below(depth) = Below(depth + 1) + MaxGateways + 1
  <2>1. \A m, k \in Int : (m + 1) * k = m * k + k
    OBVIOUS
  <2>2. MaxCCIPDepth - depth = (MaxCCIPDepth - (depth + 1)) + 1 /\ MaxCCIPDepth - (depth + 1) \in Int
        /\ MaxGateways + 1 \in Int
    BY <1>1
  <2> QED
    BY <2>1, <2>2, <1>1 DEF Below
<1>6. 0 \in 0 .. MaxCCIPDepth
  BY <1>1
<1> QED
  BY <1>4, <1>5, <1>6

\* Shorter(l, m): a lookup that goes on has less to do.
Shorter(l, m) == m.at # "end" => Bounded(m) /\ LookupRank(m) < LookupRank(l)

LEMMA RankIsNat ==
  ASSUME NEW l, Bounded(l)
  PROVE  LookupRank(l) \in Nat /\ LookupRank(l) >= Len(l.todo) * (Below(0) + 1)
<1>1. Len(l.todo) \in Nat /\ Below(0) + 1 \in Nat
  BY BelowFacts DEF Bounded
<1> DEFINE rest == IF l.at = "gateway" THEN Below(l.depth + 1) + Len(l.urls) ELSE Below(l.depth)
           calls == Len(l.todo) * (Below(0) + 1)
<1>2. calls \in Nat
  BY <1>1
<1>3. rest \in Nat
  <2>1. CASE l.at = "eth"
    BY <2>1, BelowFacts DEF Bounded
  <2>2. CASE l.at = "gateway"
    <3>1. l.depth + 1 \in 0 .. MaxCCIPDepth /\ Len(l.urls) \in Nat
      BY <2>2, LookupsAssumption DEF Bounded
    <3> QED
      BY <2>2, <3>1, BelowFacts
  <2> QED
    BY <2>1, <2>2 DEF Bounded
<1>4. LookupRank(l) = calls + rest
  BY DEF LookupRank
<1> HIDE DEF calls, rest
<1>5. LookupRank(l) \in Nat /\ LookupRank(l) >= calls
  BY <1>2, <1>3, <1>4
<1> QED
  BY <1>5 DEF calls

LEMMA NextCallShorter ==
  ASSUME NEW l, Bounded(l), NEW k, NEW n, DOMAIN n = LookupFields, n.todo = l.todo
  PROVE  Shorter(l, NextCall(n, k))
<1>1. CASE l.todo = << >>
  <2>1. NextCall(n, k).at = "end"
    BY <1>1 DEF NextCall, Finish, LookupFields
  <2> QED
    BY <2>1 DEF Shorter
<1>2. CASE l.todo # << >>
  <2> DEFINE m == [n EXCEPT !.at = "eth", !.for = Head(n.todo), !.todo = Tail(n.todo), !.depth = 0, !.to = "own"]
  <2>1. /\ DOMAIN m = LookupFields /\ m.at = "eth" /\ m.todo = Tail(l.todo) /\ m.depth = 0
        /\ NextCall(n, k) = m
    BY <1>2 DEF NextCall, LookupFields
  <2> HIDE DEF m
  <2>2. l.todo \in Seq(EnsTypes) /\ Len(l.todo) \in Nat
    BY DEF Bounded
  <2>3. Tail(l.todo) \in Seq(EnsTypes) /\ Len(Tail(l.todo)) = Len(l.todo) - 1 /\ Len(l.todo) - 1 \in Nat
    BY <1>2, <2>2
  <2>4. Bounded(m)
    BY <2>1, <2>3, LookupsAssumption DEF Bounded
  <2>5. LookupRank(m) = (Len(l.todo) - 1) * (Below(0) + 1) + Below(0)
    BY <2>1, <2>3 DEF LookupRank
  <2>6. \A i, b \in Nat : i * (b + 1) = (i - 1) * (b + 1) + b + 1
    OBVIOUS
  <2>7. Len(l.todo) * (Below(0) + 1) = (Len(l.todo) - 1) * (Below(0) + 1) + Below(0) + 1
    BY <2>2, <2>6, BelowFacts
  <2> DEFINE x == (Len(l.todo) - 1) * (Below(0) + 1)
  <2>8. x \in Int
    BY <2>2, BelowFacts
  <2>9. LookupRank(m) = x + Below(0) /\ LookupRank(l) >= x + Below(0) + 1 /\ LookupRank(l) \in Nat
    BY <2>5, <2>7, RankIsNat
  <2> HIDE DEF x
  <2>10. LookupRank(m) < LookupRank(l)
    BY <2>8, <2>9, BelowFacts
  <2> QED
    BY <2>1, <2>4, <2>10 DEF Shorter
<1> QED
  BY <1>1, <1>2

LEMMA CallsShorter ==
  ASSUME NEW l, Bounded(l), NEW k
  PROVE  /\ Shorter(l, CallFailed(l, k))
         /\ \A present : Shorter(l, CallAnswered(l, k, present))
<1>1. \A result : Shorter(l, Finish(l, result))
  BY DEF Shorter, Finish, Bounded, LookupFields
<1>2. Shorter(l, NextCall(l, k))
  BY NextCallShorter DEF Bounded
<1>3. Shorter(l, NextCall([l EXCEPT !.lost = TRUE, !.urls = << >>], k))
  BY NextCallShorter DEF Bounded, LookupFields
<1>4. \A got : Shorter(l, NextCall([l EXCEPT !.got = got], k))
  BY NextCallShorter DEF Bounded, LookupFields
<1>5. Shorter(l, CallFailed(l, k))
  BY <1>1, <1>3 DEF CallFailed
<1>6. ASSUME NEW present
      PROVE  Shorter(l, CallAnswered(l, k, present))
  BY <1>1, <1>2, <1>4 DEF CallAnswered
<1> QED
  BY <1>5, <1>6

\* Every offchain lookup is one deeper, and no gateway is tried twice.
LEMMA OffchainShorter ==
  ASSUME NEW l, Bounded(l), NEW k
  PROVE  /\ l.at = "eth" => \A sender : \A urls \in Gateways : Shorter(l, ccipRead(l, k, sender, urls))
         /\ l.at = "gateway" => \A answered : Shorter(l, fetchCCIPResponse(l, k, answered))
<1> DEFINE x == Len(l.todo) * (Below(0) + 1)
<1>0. x \in Int /\ MaxCCIPDepth \in Nat /\ MaxGateways \in Nat
  BY BelowFacts, LookupsAssumption DEF Bounded
<1>1. Shorter(l, CallFailed(l, k))
  BY CallsShorter
<1>2. ASSUME l.at = "eth", NEW sender, NEW urls \in Gateways
      PROVE  Shorter(l, ccipRead(l, k, sender, urls))
  <2>1. CASE l.depth >= MaxCCIPDepth \/ urls = << >> \/ sender # l.to
    BY <2>1, <1>1 DEF ccipRead
  <2>2. CASE ~(l.depth >= MaxCCIPDepth \/ urls = << >> \/ sender # l.to)
    <3> DEFINE m == [l EXCEPT !.at = "gateway", !.urls = urls]
    <3>1. /\ DOMAIN m = LookupFields /\ m.at = "gateway" /\ m.todo = l.todo /\ m.depth = l.depth /\ m.urls = urls
          /\ ccipRead(l, k, sender, urls) = m
      BY <2>2 DEF ccipRead, Bounded, LookupFields
    <3> HIDE DEF m
    <3>2. urls \in Seq({"outer", "inner"}) /\ Len(urls) \in 1 .. MaxGateways
      <4>1. PICK n \in 0 .. MaxGateways : urls \in [1 .. n -> {"outer", "inner"}]
        BY DEF Gateways
      <4>2. urls \in Seq({"outer", "inner"}) /\ Len(urls) = n
        BY <4>1, IsASeq, LenProperties
      <4>3. Len(urls) # 0
        BY <2>2, <4>2, EmptySeq
      <4> QED
        BY <4>2, <4>3, <1>0
    <3>3. l.depth \in 0 .. MaxCCIPDepth - 1
      BY <1>0, <1>2, <2>2 DEF Bounded
    <3>4. Bounded(m)
      BY <3>1, <3>2, <3>3 DEF Bounded
    <3>5. LookupRank(m) = x + (Below(l.depth + 1) + Len(urls)) /\ LookupRank(l) = x + Below(l.depth)
      BY <1>2, <3>1 DEF LookupRank
    <3>6. Below(l.depth) = Below(l.depth + 1) + MaxGateways + 1 /\ Below(l.depth) \in Nat /\ Below(l.depth + 1) \in Nat
      <4>1. l.depth \in 0 .. MaxCCIPDepth /\ l.depth + 1 \in 0 .. MaxCCIPDepth
        BY <1>0, <3>3
      <4> QED
        BY <3>3, <4>1, BelowFacts
    <3> HIDE DEF x
    <3>7. LookupRank(m) < LookupRank(l)
      BY <1>0, <3>2, <3>5, <3>6
    <3> QED
      BY <3>1, <3>4, <3>7 DEF Shorter
  <2> QED
    BY <2>1, <2>2
<1>3. ASSUME l.at = "gateway", NEW answered
      PROVE  Shorter(l, fetchCCIPResponse(l, k, answered))
  <2>0. /\ DOMAIN l = LookupFields /\ l.depth \in 0 .. MaxCCIPDepth - 1 /\ l.todo \in Seq(EnsTypes)
        /\ l.urls \in Seq({"outer", "inner"}) /\ Len(l.urls) \in 1 .. MaxGateways
    BY <1>3 DEF Bounded
  <2>1. /\ LookupRank(l) = x + (Below(l.depth + 1) + Len(l.urls)) /\ Below(l.depth + 1) \in Nat
        /\ l.depth + 1 \in 0 .. MaxCCIPDepth
    <3>1. l.depth + 1 \in 0 .. MaxCCIPDepth
      BY <1>0, <2>0
    <3> QED
      BY <1>3, <3>1, BelowFacts DEF LookupRank
  <2>2. Shorter(l, [l EXCEPT !.at = "eth", !.depth = @ + 1, !.urls = << >>])
    <3> DEFINE m == [l EXCEPT !.at = "eth", !.depth = @ + 1, !.urls = << >>]
    <3>1. DOMAIN m = LookupFields /\ m.at = "eth" /\ m.todo = l.todo /\ m.depth = l.depth + 1
      BY <2>0 DEF LookupFields
    <3> HIDE DEF m
    <3>2. Bounded(m)
      BY <2>0, <2>1, <3>1 DEF Bounded
    <3>3. LookupRank(m) = x + Below(l.depth + 1)
      BY <3>1 DEF LookupRank
    <3> HIDE DEF x
    <3>4. LookupRank(m) < LookupRank(l)
      BY <1>0, <2>0, <2>1, <3>3
    <3> QED
      BY <3>2, <3>4 DEF Shorter, m
  <2>3. ASSUME Tail(l.urls) # << >>
        PROVE  Shorter(l, [l EXCEPT !.urls = Tail(@)])
    <3> DEFINE m == [l EXCEPT !.urls = Tail(@)]
    <3>1. DOMAIN m = LookupFields /\ m.at = "gateway" /\ m.todo = l.todo /\ m.depth = l.depth /\ m.urls = Tail(l.urls)
      BY <1>3, <2>0 DEF LookupFields
    <3> HIDE DEF m
    <3>2. /\ Tail(l.urls) \in Seq({"outer", "inner"}) /\ Len(Tail(l.urls)) = Len(l.urls) - 1
          /\ Len(Tail(l.urls)) \in Nat /\ Len(Tail(l.urls)) # 0
      <4>1. l.urls \in Seq({"outer", "inner"}) /\ l.urls # << >> /\ Len(l.urls) \in Nat
        BY <2>0
      <4>2. Tail(l.urls) \in Seq({"outer", "inner"}) /\ Len(Tail(l.urls)) = Len(l.urls) - 1
        BY <4>1
      <4>3. Len(Tail(l.urls)) \in Nat /\ Len(Tail(l.urls)) # 0
        BY <2>3, <4>2, EmptySeq
      <4> QED
        BY <4>2, <4>3
    <3>3. Bounded(m)
      <4> DEFINE n == Len(l.urls)
                 i == Len(Tail(l.urls))
      <4>1. n \in 1 .. MaxGateways /\ i = n - 1 /\ i \in Nat /\ i # 0 /\ MaxGateways \in Nat
        BY <2>0, <3>2, LookupsAssumption
      <4> HIDE DEF n, i
      <4>2. i \in 1 .. MaxGateways
        BY <4>1
      <4> QED
        BY <2>0, <3>1, <3>2, <4>2 DEF Bounded, i
    <3>4. LookupRank(m) = x + (Below(l.depth + 1) + Len(Tail(l.urls)))
      BY <3>1 DEF LookupRank
    <3> HIDE DEF x
    <3>5. LookupRank(m) < LookupRank(l)
      BY <1>0, <2>0, <2>1, <3>2, <3>4
    <3> QED
      BY <3>3, <3>5 DEF Shorter, m
  <2> QED
    BY <1>1, <2>2, <2>3 DEF fetchCCIPResponse
<1> QED
  BY <1>2, <1>3

\* The lookup under way stays within its bounds, and every step that changes
\* the resolution has less before it.
RInv == call.at = "chain" => Bounded(call.l)

Nearer == call # Idle /\ call' # call => CallRank(call') \in Nat /\ CallRank(call') < CallRank(call)

LEMMA ConcludingNearer ==
  ASSUME Inv, RInv, call # Idle, call' = Idle
  PROVE  RInv' /\ Nearer
<1>1. CallRank(call') = 0 /\ call'.at # "chain"
  BY DEF CallRank, Idle
<1>2. CallRank(call) \in Nat /\ CallRank(call) > 0
  <2>1. call.at \in {"http", "chain", "udp", "tcp"}
    BY DEF Inv, CallOK
  <2>2. call.at = "chain" => LookupRank(call.l) \in Nat
    BY RankIsNat DEF RInv
  <2> QED
    BY <2>1, <2>2 DEF CallRank
<1> QED
  BY <1>1, <1>2 DEF RInv, Nearer

LEMMA AdvancingNearer ==
  ASSUME Inv, RInv, call.at = "chain", call # Idle, NEW l, Advance(l), Shorter(call.l, l)
  PROVE  RInv' /\ Nearer
<1>1. CASE l.at = "end"
  BY <1>1, ConcludingNearer DEF Advance, Conclude
<1>2. CASE l.at # "end"
  <2>1. call' = [call EXCEPT !.l = l] /\ DOMAIN call = {"at", "since", "l"}
    BY <1>2 DEF Advance, Inv, CallOK
  <2>2. call'.at = "chain" /\ call'.l = l
    BY <2>1
  <2>3. Bounded(l) /\ LookupRank(l) < LookupRank(call.l)
    BY <1>2 DEF Shorter
  <2>4. LookupRank(l) \in Nat /\ LookupRank(call.l) \in Nat
    BY <2>3, RankIsNat DEF RInv
  <2>5. CallRank(call') = LookupRank(l) + 1 /\ CallRank(call) = LookupRank(call.l) + 1
    BY <2>2 DEF CallRank
  <2> QED
    BY <2>2, <2>3, <2>4, <2>5 DEF RInv, Nearer
<1> QED
  BY <1>1, <1>2

LEMMA StepNearer == Inv /\ RInv /\ [Next]_vars => RInv' /\ Nearer
<1> SUFFICES ASSUME Inv, RInv, [Next]_vars
             PROVE  RInv' /\ Nearer
  OBVIOUS
<1>1. CASE Change \/ Hit \/ Expire \/ ServerReplies \/ Lost \/ UNCHANGED vars
  <2>1. call' = call
    BY <1>1 DEF Change, Hit, Expire, ServerReplies, Lost, vars
  <2> QED
    BY <2>1 DEF RInv, Nearer
<1>2. CASE Ask
  <2>1. call = Idle
    BY <1>2 DEF Ask
  <2>2. CASE call' = [at |-> "chain", since |-> Len(hist), l |-> Begin(q)]
    <3> DEFINE l == Begin(q)
    <3>1. DOMAIN l = LookupFields /\ l.at = "eth" /\ l.depth = 0 /\ l.todo = CallsFor(q)
      BY DEF Begin, LookupFields
    <3> HIDE DEF l
    <3>2. Bounded(l)
      BY <3>1, Calls, LookupsAssumption DEF Bounded
    <3> QED
      BY <2>1, <2>2, <3>2 DEF RInv, Nearer, l
  <2>3. CASE call'.at # "chain"
    BY <2>1, <2>3 DEF RInv, Nearer
  <2> QED
    BY <1>2, <2>2, <2>3 DEF Ask
<1>3. CASE Replied \/ StreamRead \/ TimedOut
  <2>1. call # Idle /\ call' = Idle
    BY <1>3 DEF Replied, StreamRead, TimedOut, Conclude, Idle
  <2> QED
    BY <2>1, ConcludingNearer
<1>4. CASE EthAnswered \/ EthFailed \/ EthAsksOffchain \/ GatewayReplied
  <2>1. call.at = "chain"
    BY <1>4 DEF EthAnswered, EthFailed, EthAsksOffchain, GatewayReplied, ChainCall
  <2>2. call # Idle /\ Bounded(call.l)
    BY <2>1 DEF RInv, Idle
  <2>3. PICK l : Advance(l) /\ Shorter(call.l, l)
    <3>1. CASE EthAnswered \/ EthFailed
      BY <2>2, <3>1, CallsShorter DEF EthAnswered, EthFailed
    <3>2. CASE EthAsksOffchain
      <4>1. call.l.at = "eth"
        BY <3>2 DEF EthAsksOffchain, ChainCall
      <4>2. PICK sender \in {"own", "foreign"}, urls \in Gateways : Advance(ccipRead(call.l, q, sender, urls))
        BY <3>2 DEF EthAsksOffchain
      <4>3. Shorter(call.l, ccipRead(call.l, q, sender, urls))
        BY <2>2, <4>1, OffchainShorter
      <4> QED
        BY <4>2, <4>3
    <3>3. CASE GatewayReplied
      BY <2>2, <3>3, OffchainShorter DEF GatewayReplied
    <3> QED
      BY <1>4, <3>1, <3>2, <3>3
  <2> QED
    BY <2>1, <2>2, <2>3, AdvancingNearer
<1>5. CASE DatagramRead
  <2>1. call.at = "udp" /\ call # Idle /\ DOMAIN call = {"at", "since", "id"}
    BY <1>5, InAQuery DEF DatagramRead
  <2>2. call' = [call EXCEPT !.at = "tcp"] \/ call' = Idle
    BY <1>5 DEF DatagramRead, Conclude
  <2>3. CASE call' = [call EXCEPT !.at = "tcp"]
    <3>1. call'.at = "tcp"
      BY <2>1, <2>3
    <3> QED
      BY <2>1, <3>1 DEF RInv, Nearer, CallRank
  <2> QED
    BY <2>1, <2>2, <2>3, ConcludingNearer
<1> QED
  BY <1>1, <1>2, <1>3, <1>4, <1>5 DEF Next, Step

-----------------------------------------------------------------------------
\* TypeOK.
THEOREM TypeCorrect == Spec => []TypeOK
<1>1. TInv => TypeOK
  BY DEF TInv
<1> QED
  BY <1>1, InitPromise, InitTyped, StepPromise, StepTyped, PTL DEF Spec

\* Fulfils: whatever a service, its contracts, gateways and the network do,
\* and however the name changes meanwhile, the router's cache and the
\* resolvers behind it tell only what LookupPromise allows: of every type
\* what one of the versions since the call began or the entry was filled had,
\* NXDOMAIN only when one of them had nothing, and otherwise a failure.
THEOREM LookupsKeepThePromise == Spec => Fulfils
<1>1. Spec => [][Promise!Next]_(Promise!vars)
  BY InitPromise, StepPromise, PTL DEF Spec
<1>2. Spec => Promise!Init
  BY InitPromise, PTL DEF Spec
<1> QED
  BY <1>1, <1>2, PTL DEF Fulfils, Promise!Spec

\* The safe half of CallsEnd: every reply, failure and offchain lookup leaves
\* a resolution with less to do than before (EIP-3668 limits the depth, the
\* gateways are a list, the record calls a list, UDP goes to TCP once), so
\* that nothing a contract, a gateway or a server does can prolong it.
THEOREM ResolutionsGetShorter == Spec => [][Nearer]_vars
<1>1. Init => RInv
  <2>1. Init => call = Idle
    BY DEF Init
  <2> QED
    BY <2>1 DEF Idle, RInv
<1>2. Inv /\ RInv /\ [Next]_vars => RInv' /\ [Nearer]_vars
  BY StepNearer
<1> QED
  BY <1>1, <1>2, InitPromise, StepPromise, PTL DEF Spec

=============================================================================
