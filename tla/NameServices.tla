---------------------------- MODULE NameServices ----------------------------
(***************************************************************************)
(* The resolvers of the name services (internal/plugins/wave1/plugin.go    *)
(* and the HTTP half of internal/plugins/hns/plugin.go).  Each turns one   *)
(* reply of a service into the result the router gets.                     *)
(*                                                                         *)
(* A reply is abstracted to what the resolvers tell apart: a request that  *)
(* failed, a status, a body that cannot be decoded, a null, the API's own  *)
(* "no such name", its other errors, or data: the set of the fields the    *)
(* service holds for the name.  A result keeps its rcode, the types of its *)
(* records and whether an error was returned beside it.                    *)
(***************************************************************************)
EXTENDS Naturals, FiniteSets

RRTypes == {"A", "AAAA", "CNAME", "NS", "MX", "SRV", "CAA", "DS", "TLSA", "TXT", "URI", "WALLET"}

Reply(kind, fields) == [kind |-> kind, fields |-> fields]

serviceFailure == [rcode |-> "SERVFAIL", types |-> {}, err |-> TRUE]
Missing        == [rcode |-> "NXDOMAIN", types |-> {}, err |-> FALSE]

(* TYPE262 is the wallet type under another name; ANY asks for everything *)
Wanted(t, q) == q \in {t, "ANY"} \/ (q = "TYPE262" /\ t = "WALLET")

filterRecords(types, q) == {t \in types : Wanted(t, q)}

Found(types, q) == [rcode |-> "NOERROR", types |-> filterRecords(types, q), err |-> FALSE]

(* The records of some fields: a mapper says which type a field becomes,   *)
(* and drops the fields it does not know.                                  *)
Mapped(mapper, fields) == {mapper[f] : f \in fields \cap DOMAIN mapper}

(* One that looks for the asked type alone *)
JudgeAsked(r, q, denials, blank, mapper, emptyIsMissing) ==
  LET asked == filterRecords(Mapped(mapper, r.fields), q) IN
  IF r.kind \in denials THEN Missing
  ELSE IF r.kind \notin blank \cup {"data"} THEN serviceFailure
  ELSE IF asked = {} /\ emptyIsMissing THEN Missing ELSE Found(asked, q)

(* What all resolvers have in common: the replies that deny the name, then *)
(* the ones no body can be read from, then the records.  A body of another *)
(* shape than expected is read as one without fields where nothing tells   *)
(* the difference (blank); some resolvers take a name without any record   *)
(* for one that does not exist.                                            *)
Judge(r, q, denials, blank, mapper, emptyIsMissing) ==
  LET all == Mapped(mapper, r.fields) IN
  IF r.kind \in denials THEN Missing
  ELSE IF r.kind \notin blank \cup {"data"} THEN serviceFailure
  ELSE IF all = {} /\ emptyIsMissing THEN Missing ELSE Found(all, q)

-----------------------------------------------------------------------------
(* Fields to types, service by service.  "other" stands for the keys a     *)
(* service may hold that its mapper has no case for.                       *)

unstoppableRecordsFromMap ==
  [a |-> "A", aaaa |-> "AAAA", cname |-> "CNAME", txt |-> "TXT", site |-> "URI", wallet |-> "WALLET"]

pnsPolkadotRecordsFromData ==
  [a |-> "A", aaaa |-> "AAAA", cname |-> "CNAME", txt |-> "TXT", site |-> "URI", wallet |-> "WALLET",
   other |-> "TXT"]

tezosDomainRecords ==
  [a |-> "A", aaaa |-> "AAAA", cname |-> "CNAME", ns |-> "NS", txt |-> "TXT", site |-> "URI",
   wallet |-> "WALLET", owner |-> "TXT", other |-> "TXT"]

(* Freename has no case for address records: they become text *)
freenameRecordsFromAPI ==
  [wallet |-> "WALLET", site |-> "URI", txt |-> "TXT", owner |-> "TXT", a |-> "TXT", other |-> "TXT"]

(* id and controller, the verification methods and the service endpoints *)
didDocumentRecords == [wallet |-> "WALLET", owner |-> "TXT", txt |-> "TXT", site |-> "URI"]

(* A text that is not an oa1 record with a recipient is dropped *)
parseOpenAliasTXT == [wallet |-> "WALLET"]

adaHandleRecordsFromMap == [wallet |-> "WALLET", owner |-> "WALLET", txt |-> "TXT", site |-> "URI"]

tonDNSRecords == [wallet |-> "WALLET", site |-> "URI", owner |-> "TXT"]

stacksBNSJSONRecords == [owner |-> "TXT", txt |-> "TXT", site |-> "URI", wallet |-> "WALLET"]

stacksBNSLegacyZoneRecords ==
  [a |-> "A", aaaa |-> "AAAA", cname |-> "CNAME", txt |-> "TXT", ns |-> "NS", mx |-> "MX",
   srv |-> "SRV", site |-> "URI", tlsa |-> "TLSA", caa |-> "CAA"]

namecoinRecordsFromMap ==
  [a |-> "A", aaaa |-> "AAAA", ns |-> "NS", ds |-> "DS", tlsa |-> "TLSA", mx |-> "MX", srv |-> "SRV",
   site |-> "URI", caa |-> "CAA", txt |-> "TXT", cname |-> "CNAME"]

(* The services that know one thing about a name, an address *)
spaceIDRecords   == [wallet |-> "WALLET"]
aptosNameRecords == [wallet |-> "WALLET"]
solanaSNSRecords == [wallet |-> "WALLET"]
fioHandleRecords == [wallet |-> "WALLET"]
suinsRecords     == [wallet |-> "WALLET"]

-----------------------------------------------------------------------------
(* The resolvers.  A status that is not 2xx is a failure except where 404  *)
(* (or 410) means that the name does not exist.                            *)

(* No error field: an error told with status 200 is a body without records *)
resolveUnstoppableResolutionAPI(r, q) ==
  Judge(r, q, {"404"}, {"null", "error"}, unstoppableRecordsFromMap, FALSE)

(* A body without data is a failure *)
resolvePNSPolkadotAPI(r, q) == Judge(r, q, {"404"}, {}, pnsPolkadotRecordsFromData, FALSE)

(* Code 1 and an empty address deny; every other code is an error *)
resolveSpaceIDAPI(r, q) == Judge(r, q, {"404", "denied"}, {"null"}, spaceIDRecords, TRUE)

(* A null domain denies; 404 does not *)
resolveTezosDomainsAPI(r, q) == Judge(r, q, {"null"}, {}, tezosDomainRecords, FALSE)

resolveAptosNamesAPI(r, q) == Judge(r, q, {"404"}, {"null"}, aptosNameRecords, TRUE)

(* Any error whose text contains "not found" denies: the service's "name   *)
(* not found", but a "method not found" of the node as well                *)
resolveSolanaSNSQuickNode(r, q) ==
  Judge(r, q, {"denied", "noMethod"}, {"null"}, solanaSNSRecords, TRUE)

resolveFIOChainAPI(r, q) == Judge(r, q, {"404"}, {"null"}, fioHandleRecords, TRUE)

resolveFreenameResolutionAPI(r, q) ==
  Judge(r, q, {"404"}, {"null", "error"}, freenameRecordsFromAPI, TRUE)

resolveDIDUniversalResolver(r, q) ==
  Judge(r, q, {"404", "410", "null", "error"}, {}, didDocumentRecords, FALSE)

resolveOpenAliasDNSTXT(r, q) == Judge(r, q, {"404"}, {"null", "error"}, parseOpenAliasTXT, TRUE)

resolveADAHandleAPI(r, q) == Judge(r, q, {"404"}, {"null", "error"}, adaHandleRecordsFromMap, TRUE)

(* An empty list ("null") denies.  Records of another domain are skipped,  *)
(* which leaves an empty answer                                            *)
resolveTONCenterV3DNS(r, q) == Judge(r, q, {"404", "null"}, {}, tonDNSRecords, FALSE)

resolveSuiNSJSONRPC(r, q) == Judge(r, q, {}, {"null"}, suinsRecords, TRUE)

(* A zone file is JSON or the older text, told by its first character; a   *)
(* JSON body with neither a zone file nor a name's data is a failure       *)
stacksBNSRecords(r) ==
  IF "zone" \in r.fields THEN stacksBNSLegacyZoneRecords ELSE stacksBNSJSONRecords
resolveStacksBNSAPI(r, q) == Judge(r, q, {"404"}, {"null"}, stacksBNSRecords(r), FALSE)

(* Error -4 or "name not found" denies *)
resolveNamecoinJSONRPC(r, q) == Judge(r, q, {"denied"}, {}, namecoinRecordsFromMap, FALSE)

(* A service that speaks the project's own format answers with the result  *)
(* itself, a denial or a failure of its own included; its failure is taken *)
(* over without an error beside it, and its records are not filtered.      *)
resolveRemote(r, q) ==
  IF r.kind = "denied" THEN Missing
  ELSE IF r.kind = "servfail" THEN [serviceFailure EXCEPT !.err = FALSE]
  ELSE IF r.kind = "data" THEN Found(Mapped(tezosDomainRecords, r.fields), q) ELSE serviceFailure

-----------------------------------------------------------------------------
(* Resolve: the plugin and its backend type choose the resolver.  A plugin *)
(* without a backend answers with a failure.                               *)
Resolve(svc, r, q) ==
  CASE svc = "unstoppable-domains" -> resolveUnstoppableResolutionAPI(r, q)
    [] svc = "pns-polkadot" -> resolvePNSPolkadotAPI(r, q)
    [] svc = "space-id" -> resolveSpaceIDAPI(r, q)
    [] svc = "tezos-domains" -> resolveTezosDomainsAPI(r, q)
    [] svc = "aptos-names" -> resolveAptosNamesAPI(r, q)
    [] svc = "solana-sns" -> resolveSolanaSNSQuickNode(r, q)
    [] svc = "fio-handle" -> resolveFIOChainAPI(r, q)
    [] svc = "freename-fns" -> resolveFreenameResolutionAPI(r, q)
    [] svc = "did-bit" -> resolveDIDUniversalResolver(r, q)
    [] svc = "openalias" -> resolveOpenAliasDNSTXT(r, q)
    [] svc = "ada-handle" -> resolveADAHandleAPI(r, q)
    [] svc = "ton-dns" -> resolveTONCenterV3DNS(r, q)
    [] svc = "suins" -> resolveSuiNSJSONRPC(r, q)
    [] svc = "stacks-bns" -> resolveStacksBNSAPI(r, q)
    [] svc = "namecoin-bit" -> resolveNamecoinJSONRPC(r, q)
    [] svc = "remote" -> resolveRemote(r, q)
    [] OTHER -> serviceFailure

=============================================================================
