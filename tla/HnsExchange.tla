---------------------------- MODULE HnsExchange ----------------------------
(***************************************************************************)
(* A lookup in a DNS server of the Handshake root                          *)
(* (internal/plugins/hns/dns_backend.go): one datagram, and the same       *)
(* question over TCP when the reply is truncated.  The network may keep    *)
(* datagrams back and deliver them to a later lookup.                      *)
(*                                                                         *)
(* A packet has the id and the question of the query it answers, its       *)
(* rcode, the truncation flag and its records: pairs of an owner (the name *)
(* that was asked for, or another one such as the target of a CNAME) and a *)
(* type.                                                                   *)
(***************************************************************************)
EXTENDS NameServices

(* Only a reply to this query is read for the flag *)
dnsResponseTruncated(p, id) == p.id = id /\ p.tc

(* The first packet is judged, whatever it is: one with another id or      *)
(* question, one that cannot be read and every rcode but two are failures. *)
(* Records of other owners are left out.                                   *)
parseDNSResponse(p, id, q) ==
  IF p.id # id \/ p.q # q \/ p.rcode \notin {"NOERROR", "NXDOMAIN"} THEN serviceFailure
  ELSE IF p.rcode = "NXDOMAIN" THEN Missing
  ELSE Found({rr[2] : rr \in {r \in p.records : r[1] = "asked"}}, "ANY")

(* exchangeDNS: the datagram decides, or asks for TCP *)
afterDatagram(p, id, q) ==
  IF dnsResponseTruncated(p, id) THEN [at |-> "tcp", result |-> serviceFailure]
  ELSE [at |-> "end", result |-> parseDNSResponse(p, id, q)]

=============================================================================
