------------------------------ MODULE MCZones ------------------------------
(* Instances of Zones for TLC: two requests at one zone, and an issuance   *)
(* among the requests of one user.                                         *)
EXTENDS Zones

AtOneZone   == [ops |-> {"create", "delete", "soa", "hand", "keys"}, zones |-> {"parent"}, requesters |-> 1 .. 2]
AroundAnIssuance == [ops |-> {"create", "delete", "txt", "acme"}, zones |-> Names, requesters |-> {1}]
OnlyTheSOA  == [ops |-> {"create", "soa"}, zones |-> {"parent"}, requesters |-> 1 .. 2]

BothScenes  == {AtOneZone, AroundAnIssuance}
SOAScene    == {OnlyTheSOA}
TwoNames    == << "v1", "v2" >>
=============================================================================
