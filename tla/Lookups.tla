------------------------------ MODULE Lookups ------------------------------
(***************************************************************************)
(* One question, asked again and again while the name's records change and *)
(* its service and the network fail: the router's cache in front of it, a  *)
(* resolver of NameServices, the chain lookup of EnsLookup or the DNS      *)
(* exchange of HnsExchange behind it.                                      *)
(***************************************************************************)
EXTENDS EnsLookup, HnsExchange

CONSTANTS
  Services,     \* the plugins that may serve the name
  QTypes,       \* the question types
  Fields,       \* the fields a service may hold
  MaxFields,    \* bound: fields a name has at a time
  MaxChanges,   \* bound: how often the records change
  MaxGateways,  \* bound: gateways in an offchain lookup
  MaxLate       \* bound: datagrams under way

ASSUME LookupsAssumption ==
  /\ MaxCCIPDepth \in Nat /\ MaxFields \in Nat /\ MaxChanges \in Nat
  /\ MaxGateways \in Nat /\ MaxLate \in Nat

None   == [since |-> 0]
Absent == {"unknown"}    \* what a service holds of a name it does not know
Chain  == {"ens"}        \* served by EnsLookup
Dns    == {"hns"}        \* served by HnsExchange

VARIABLES
  svc,     \* the service of the name (fixed)
  q,       \* the type the question asks for (fixed)
  hist,    \* what the service held, change after change; the last is current
  call,    \* the resolution under way
  wire,    \* DNS: datagrams not delivered yet
  held,    \* the answer in the router's cache
  told     \* what the client was told last

vars == << svc, q, hist, call, wire, held, told >>

Idle == [at |-> "idle"]
Now  == hist[Len(hist)]

-----------------------------------------------------------------------------
(* The services, from what the resolvers expect of them.                   *)

ServiceNames ==
  {"unstoppable-domains", "pns-polkadot", "space-id", "tezos-domains", "aptos-names", "solana-sns",
   "fio-handle", "freename-fns", "did-bit", "openalias", "ada-handle", "ton-dns", "suins",
   "stacks-bns", "namecoin-bit", "remote", "ens", "hns"}

ASSUME ServicesAssumption == Services \subseteq ServiceNames /\ "another" \notin QTypes

(* The fields a service may hold for a name *)
mapperOf(s) ==
  CASE s = "unstoppable-domains" -> unstoppableRecordsFromMap [] s = "pns-polkadot" -> pnsPolkadotRecordsFromData
    [] s = "space-id" -> spaceIDRecords [] s = "tezos-domains" -> tezosDomainRecords
    [] s = "aptos-names" -> aptosNameRecords [] s = "solana-sns" -> solanaSNSRecords
    [] s = "fio-handle" -> fioHandleRecords [] s = "freename-fns" -> freenameRecordsFromAPI
    [] s = "did-bit" -> didDocumentRecords [] s = "openalias" -> parseOpenAliasTXT
    [] s = "ada-handle" -> adaHandleRecordsFromMap [] s = "ton-dns" -> tonDNSRecords
    [] s = "suins" -> suinsRecords [] s = "stacks-bns" -> stacksBNSJSONRecords
    [] s = "namecoin-bit" -> namecoinRecordsFromMap [] s = "remote" -> tezosDomainRecords
    [] s \in Chain -> [wallet |-> "WALLET", txt |-> "TXT", site |-> "URI"]
    [] s \in Dns -> [a |-> "A", txt |-> "TXT", cname |-> "CNAME", wallet |-> "WALLET"]

fieldsOf(s) == DOMAIN mapperOf(s) \cup {"other"}
               \cup (IF s = "stacks-bns" THEN {"zone"} \cup DOMAIN stacksBNSLegacyZoneRecords ELSE {})

(* In DNS an alias has no other records *)
Holdings(s) ==
  {Absent} \cup {f \in SUBSET (Fields \cap fieldsOf(s)) :
                   Cardinality(f) <= MaxFields /\ (s \in Dns /\ "cname" \in f => f = {"cname"})}

(* The types a name has, in the terms of its service *)
TypesOf(s, h) == Mapped(IF s = "stacks-bns" THEN stacksBNSRecords(Reply("data", h)) ELSE mapperOf(s), h)

(* How a service denies a name *)
Denials(s) ==
  {k \in {"404", "410", "null", "data", "denied"} :
     \/ k = "404" /\ s \in {"unstoppable-domains", "pns-polkadot", "stacks-bns", "aptos-names", "fio-handle",
                           "freename-fns", "openalias", "ada-handle", "ton-dns", "did-bit", "space-id"}
     \/ k = "410" /\ s = "did-bit"
     \/ k = "null" /\ s \in {"tezos-domains", "suins", "ton-dns", "did-bit"}
     \/ k = "data" /\ s \in {"freename-fns", "openalias", "ada-handle"}
     \/ k = "denied" /\ s \in {"space-id", "solana-sns", "namecoin-bit", "remote"}}

HonestReplies(s, h) == IF h = Absent THEN {Reply(k, {}) : k \in Denials(s)} ELSE {Reply("data", h)}

(* What may come back instead.  Only an API with a field for its errors    *)
(* tells them with status 200.                                             *)
TellsErrors ==
  {"space-id", "tezos-domains", "aptos-names", "solana-sns", "fio-handle", "ton-dns", "suins", "namecoin-bit"}
Faults(s) ==
  {Reply(k, {}) : k \in {"failed", "status", "garbled"}
                        \cup (IF s \in TellsErrors THEN {"error"} ELSE {})
                        \cup (IF s = "solana-sns" THEN {"noMethod"} ELSE {})
                        \cup (IF s = "remote" THEN {"servfail"} ELSE {})}

-----------------------------------------------------------------------------

Init ==
  /\ svc \in Services /\ q \in QTypes
  /\ hist \in {<< h >> : h \in Holdings(svc)}
  /\ call = Idle /\ wire = {} /\ held = None
  /\ told = [rcode |-> "nothing yet", types |-> {}, err |-> FALSE, unsure |-> FALSE]

(* The owner of the name changes its records *)
Change ==
  /\ Len(hist) <= MaxChanges
  /\ \E h \in Holdings(svc) \ {Now} : hist' = Append(hist, h)
  /\ UNCHANGED << svc, q, call, wire, held, told >>

(* Registry.Resolve with an entry in its cache, and without.  since is the *)
(* version from which the answer may be.                                   *)
Hit ==
  /\ call = Idle /\ held # None
  /\ told' = held.answer
  /\ UNCHANGED << svc, q, hist, call, wire, held >>

(* The id is random: it is not that of a reply to this question that is    *)
(* still under way, but it may be that of a reply to another question      *)
Ask ==
  /\ call = Idle /\ held = None
  /\ \/ /\ svc \in Chain
        /\ call' = [at |-> "chain", since |-> Len(hist), l |-> Begin(q)]
     \/ /\ svc \in Dns
        /\ \E id \in 1 .. 2 : /\ \A p \in wire : p.id = id => p.q # q
                              /\ call' = [at |-> "udp", since |-> Len(hist), id |-> id]
     \/ /\ svc \notin Chain \cup Dns
        /\ call' = [at |-> "http", since |-> Len(hist)]
  /\ UNCHANGED << svc, q, hist, wire, held, told >>

Expire ==
  /\ held # None /\ held' = None
  /\ UNCHANGED << svc, q, hist, call, wire, told >>

(* The end of a resolution: the router keeps what came without an error.   *)
(* unsure marks a failure the resolver did not pass on.                    *)
Conclude(result, unsure) ==
  LET answer == [rcode |-> result.rcode, types |-> result.types, err |-> result.err, unsure |-> unsure] IN
  /\ told' = answer
  /\ held' = IF result.err THEN None ELSE [answer |-> answer, since |-> call.since]
  /\ call' = Idle

-----------------------------------------------------------------------------
(* HTTP services: the reply is of the moment, or a fault *)
Replied ==
  /\ call.at = "http"
  /\ \E r \in HonestReplies(svc, Now) \cup Faults(svc) :
        Conclude(Resolve(svc, r, q), r.kind = "noMethod")
  /\ UNCHANGED << svc, q, hist, wire >>

-----------------------------------------------------------------------------
(* Contracts *)

(* The lookup goes on, or ends *)
Advance(l) ==
  /\ IF l.at = "end" THEN Conclude(l.result, l.lost) ELSE call' = [call EXCEPT !.l = l] /\ UNCHANGED << told, held >>
  /\ UNCHANGED << svc, q, hist, wire >>

ChainCall == call.at = "chain" /\ call.l.at = "eth"

(* Does the contract have what the call asks for?  A contract that is not  *)
(* the name's own says anything.                                           *)
Present(l) ==
  IF l.to # "own" THEN BOOLEAN
  ELSE {IF l.for = "resolver" THEN Now # Absent ELSE l.for \in TypesOf(svc, Now)}

EthAnswered ==
  /\ ChainCall
  /\ \E present \in Present(call.l) : Advance(CallAnswered(call.l, q, present))

EthFailed ==
  /\ ChainCall
  /\ Advance(CallFailed(call.l, q))

Gateways == UNION {[1 .. n -> {"outer", "inner"}] : n \in 0 .. MaxGateways}

EthAsksOffchain ==
  /\ ChainCall
  /\ \E sender \in {"own", "foreign"}, urls \in Gateways : Advance(ccipRead(call.l, q, sender, urls))

GatewayReplied ==
  /\ call.at = "chain" /\ call.l.at = "gateway"
  /\ \E answered \in BOOLEAN : Advance(fetchCCIPResponse(call.l, q, answered))

-----------------------------------------------------------------------------
(* DNS *)

(* What the server says: the records of the asked types, or an alias with  *)
(* the records of its target; a truncated reply has some of them           *)
Records ==
  LET own == TypesOf(svc, Now)
      wanted == filterRecords(own, q)
  IN IF "CNAME" \in own THEN {<< "asked", "CNAME" >>} \cup {<< "other", t >> : t \in filterRecords({"A", "TXT"}, q)}
     ELSE {<< "asked", t >> : t \in wanted}

Packet(id, rcode, records, tc) == [id |-> id, q |-> q, rcode |-> rcode, records |-> records, tc |-> tc]

Replies(id) ==
  {Packet(id, rc, {}, FALSE) : rc \in {"SERVFAIL", "garbled"}} \cup
  IF Now = Absent THEN {Packet(id, "NXDOMAIN", {}, FALSE)}
  ELSE {Packet(id, "NOERROR", Records, FALSE)} \cup {Packet(id, "NOERROR", some, TRUE) : some \in SUBSET Records}

(* The server's datagram for the query, or one for another question of the *)
(* same process, goes on its way                                           *)
ServerReplies ==
  /\ call.at = "udp" /\ Cardinality(wire) < MaxLate
  /\ \E p \in Replies(call.id) \cup {[id |-> i, q |-> "another", rcode |-> "NOERROR",
                                       records |-> {<< "asked", "A" >>}, tc |-> FALSE] : i \in 1 .. 2} :
        p \notin wire /\ wire' = wire \cup {p}
  /\ UNCHANGED << svc, q, hist, call, held, told >>

DatagramRead ==
  /\ call.at = "udp"
  /\ \E p \in wire :
       LET after == afterDatagram(p, call.id, q) IN
       /\ wire' \in {wire, wire \ {p}}     \* a datagram may be delivered twice
       /\ IF after.at = "tcp" THEN call' = [call EXCEPT !.at = "tcp"] /\ UNCHANGED << told, held >>
          ELSE Conclude(after.result, FALSE)
  /\ UNCHANGED << svc, q, hist >>

StreamRead ==
  /\ call.at = "tcp"
  /\ \E p \in {r \in Replies(call.id) : ~r.tc} : Conclude(parseDNSResponse(p, call.id, q), FALSE)
  /\ UNCHANGED << svc, q, hist, wire >>

TimedOut ==
  /\ call.at \in {"udp", "tcp"}
  /\ Conclude(serviceFailure, FALSE)
  /\ UNCHANGED << svc, q, hist, wire >>

Lost ==
  /\ \E p \in wire : wire' = wire \ {p}
  /\ UNCHANGED << svc, q, hist, call, held, told >>

-----------------------------------------------------------------------------
Step ==
  \/ Replied
  \/ EthAnswered \/ EthFailed \/ EthAsksOffchain \/ GatewayReplied
  \/ DatagramRead \/ StreamRead \/ TimedOut

Next == Change \/ Hit \/ Ask \/ Expire \/ ServerReplies \/ Lost \/ Step

(* Every call has a deadline, so the one under way is answered or fails.   *)
(* Entries expire with their TTL.                                          *)
Spec == Init /\ [][Next]_vars /\ WF_vars(Step) /\ WF_vars(Expire)

-----------------------------------------------------------------------------
(* TypeOK *)
Answers == [rcode : {"nothing yet", "NOERROR", "NXDOMAIN", "SERVFAIL"}, types : SUBSET RRTypes,
            err : BOOLEAN, unsure : BOOLEAN]

(* The variables stay in their types: a result without NOERROR has no      *)
(* records, and only results without an error are in the router's cache.   *)
TypeOK ==
  /\ svc \in Services /\ q \in QTypes
  /\ hist \in Seq(Holdings(svc))
  /\ call.at \in {"idle", "http", "chain", "udp", "tcp"}
  /\ told \in Answers /\ (told.types # {} => told.rcode = "NOERROR")
  /\ held # None => held.answer \in Answers /\ ~held.answer.err

(* No resolution lasts for ever, however a contract and its gateways keep *)
(* asking for another lookup: the depth and the lists of gateways end it.  *)
CallsEnd == call # Idle ~> call = Idle

(* A call to the chain that failed shows in the result.                    *)
NoFailureIsAnswered == told.unsure => told.err

(* The promise of LookupPromise, with a result that hides a failure        *)
(* counted as the failure it is: NoFailureIsAnswered is about those.       *)
Bar(answer) ==
  IF answer.rcode = "nothing yet" THEN [kind |-> "nothing yet", types |-> {}]
  ELSE IF answer.rcode = "SERVFAIL" \/ answer.unsure THEN [kind |-> "failure", types |-> {}]
  ELSE IF answer.rcode = "NXDOMAIN" THEN [kind |-> "missing", types |-> {}]
  ELSE [kind |-> "answer", types |-> answer.types]

Promise == INSTANCE LookupPromise WITH
  Types <- RRTypes,
  asked <- filterRecords(RRTypes, q) \cup (IF svc \in Dns THEN {"CNAME"} ELSE {}),
  hist  <- [i \in DOMAIN hist |-> TypesOf(svc, hist[i])],
  floor <- IF held # None THEN held.since ELSE IF call # Idle THEN call.since ELSE Len(hist),
  told  <- Bar(told)

(* Every answer is true, type by type, of one of the versions since the    *)
(* call began or the entry was filled; NXDOMAIN means that there was no    *)
(* record of any type, for the recursor takes it for the whole name; and   *)
(* nothing that failed is told as an answer.                               *)
Fulfils == Promise!Spec

=============================================================================
