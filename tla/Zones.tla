------------------------------- MODULE Zones -------------------------------
(***************************************************************************)
(* The PowerDNS client (internal/powerdns/client.go) under the requests of *)
(* the admin API and under the issuer that answers ACME's DNS challenges   *)
(* (certificates/powerdns_provider.go, certificates/acme.go).              *)
(*                                                                         *)
(* The client keeps no state and takes no lock: an operation is a sequence *)
(* of calls to PowerDNS, each of which may be refused, or applied with its *)
(* answer lost, and between which other operations make theirs.  Requests  *)
(* that validation turns away make no call and are left out.               *)
(***************************************************************************)
EXTENDS Integers, Sequences, FiniteSets

CONSTANTS
  Scenes,       \* the situations to look at: [ops, zones, requesters]
  UserValues,   \* TXT values users put beside the challenge
  Challenges,   \* the values of the order's authorizations, in order
  MaxSerial,    \* the greatest serial, 2^32 - 1 in the code
  MaxKeys       \* bound: DNSSEC keys of a zone

ChallengeValues == {Challenges[c] : c \in DOMAIN Challenges}

ASSUME ZonesAssumption ==
  /\ MaxSerial \in Nat \ {0, 1} /\ MaxKeys \in Nat
  /\ Challenges \in Seq(ChallengeValues) \ {<< >>}
  /\ ChallengeValues \cap UserValues = {}

Ops   == {"create", "delete", "soa", "hand", "txt", "keys", "acme"}
Names == {"parent", "child"}   \* the challenge's name lies in both
Gone  == [exists |-> FALSE]

VARIABLES
  scene,    \* the situation (fixed)
  store,    \* PowerDNS: the zones
  req,      \* the requests under way at the admin API
  issuer,   \* the issuance under way
  owed,     \* zones that exist according to the answers given
  kept,     \* per zone, the users' TXT values that were accepted
  blame     \* what has happened that excuses a deviation

vars == << scene, store, req, issuer, owed, kept, blame >>

Exists(z) == store[z].exists
Idle      == [at |-> "idle"]
Busy(z)   == {r \in DOMAIN req : req[r] # Idle /\ req[r].zone = z}
Issuing   == issuer.at \notin {"new", "done"}

(* A call to PowerDNS: refused or without connection, or applied and then  *)
(* answered or not                                                         *)
Outcomes == {"ok", "refused", "lost"}
Fault(outcome) == IF outcome = "lost" THEN {"fault"} ELSE {}

Start(r, op) == op \in scene.ops /\ r \in scene.requesters /\ req[r] = Idle
Answer(r)    == req' = [req EXCEPT ![r] = Idle]
PutZone(z, zone) == store' = [store EXCEPT ![z] = zone]

(* What a change of this zone by another request under way is blamed with, *)
(* and the coming or going of a zone while a challenge is being answered   *)
Overlap(r, z) == IF Busy(z) \ {r} # {} THEN {"overlap"} ELSE {}
Moved == IF Issuing THEN {"moved"} ELSE {}

Init ==
  /\ scene \in Scenes
  /\ store = [z \in Names |-> Gone]
  /\ req = [r \in scene.requesters |-> Idle]
  /\ issuer = [at |-> "new"]
  /\ owed = {} /\ kept = [z \in Names |-> {}] /\ blame = {}

-----------------------------------------------------------------------------
(* Zones.  POST makes the zone, with a SOA of PowerDNS' own; a second call *)
(* puts the records that were asked for, and when it fails the zone is     *)
(* deleted again, whatever comes of that.                                  *)
CreatePost(r, z, bare, outcome) ==
  /\ Start(r, "create") /\ z \in scene.zones
  /\ outcome # "refused" => ~Exists(z)
  /\ IF outcome = "refused" THEN UNCHANGED << store, req, owed, blame >>
     ELSE /\ \E serial \in 0 .. 1 :
               PutZone(z, [exists |-> TRUE, serial |-> serial, ready |-> bare, txt |-> {}, keys |-> 0])
          /\ blame' = blame \cup Fault(outcome) \cup Overlap(r, z) \cup Moved
          /\ IF outcome = "ok" /\ ~bare
             THEN req' = [req EXCEPT ![r] = [at |-> "init", zone |-> z]] /\ UNCHANGED owed
             ELSE UNCHANGED req /\ owed' = IF outcome = "ok" THEN owed \cup {z} ELSE owed
  /\ UNCHANGED << scene, issuer, kept >>

(* The records that were asked for, the SOA among them *)
initialZoneRRSets(zone, serial) == [zone EXCEPT !.ready = TRUE, !.serial = serial]

(* One that leaves what it could not finish *)
CreateInitKeeping(r, serial, outcome) ==
  /\ req[r].at = "init"
  /\ LET z == req[r].zone IN
     /\ outcome # "refused" => Exists(z)
     /\ IF outcome = "refused" THEN UNCHANGED store
        ELSE PutZone(z, initialZoneRRSets(store[z], serial))
     /\ owed' = IF outcome = "ok" THEN owed \cup {z} ELSE owed
  /\ Answer(r)
  /\ UNCHANGED << scene, issuer, kept, blame >>

CreateInit(r, serial, outcome) ==
  /\ req[r].at = "init"
  /\ LET z == req[r].zone IN
     /\ outcome # "refused" => Exists(z)
     /\ IF outcome = "refused" THEN UNCHANGED store
        ELSE PutZone(z, initialZoneRRSets(store[z], serial))
     /\ IF outcome = "ok" THEN Answer(r) /\ owed' = owed \cup {z}
        ELSE req' = [req EXCEPT ![r].at = "undo"] /\ UNCHANGED owed
  /\ UNCHANGED << scene, issuer, kept, blame >>

CreateUndo(r, outcome) ==
  /\ req[r].at = "undo"
  /\ LET z == req[r].zone IN
     /\ IF outcome = "refused" THEN UNCHANGED << store, kept >>
        ELSE PutZone(z, Gone) /\ kept' = [kept EXCEPT ![z] = {}]
     /\ blame' = blame \cup Moved \cup (IF outcome = "refused" /\ Exists(z) THEN {"fault"} ELSE {})
  /\ Answer(r)
  /\ UNCHANGED << scene, issuer, owed >>

DeleteZone(r, z, outcome) ==
  /\ Start(r, "delete") /\ Exists(z)
  /\ outcome # "refused"     \* refused, or no such zone: nothing happens
  /\ PutZone(z, Gone)
  /\ kept' = [kept EXCEPT ![z] = {}]
  /\ owed' = IF outcome = "ok" THEN owed \ {z} ELSE owed
  /\ blame' = blame \cup Fault(outcome) \cup Overlap(r, z) \cup Moved
  /\ UNCHANGED << scene, req, issuer >>

-----------------------------------------------------------------------------
(* The SOA: read the zone, then replace the record.  0 asks for the next   *)
(* serial.                                                                 *)
NextSerialsAnyAsked(current, asked)  == IF asked = 0 THEN {current + 1} \cap (0 .. MaxSerial) ELSE {asked}

NextSerials(current, asked) ==
  IF asked = 0 THEN {current + 1} \cap (0 .. MaxSerial) ELSE {asked} \ (0 .. current)

(* A SOA with serial 0 counts as invalid, and then there is no next one *)
zoneSOA(z) == IF Exists(z) THEN {store[z].serial} \ {0} ELSE {}

SoaRead(r, z, asked) ==
  /\ Start(r, "soa")
  /\ \E current \in zoneSOA(z) : \E serial \in NextSerials(current, asked) :
        req' = [req EXCEPT ![r] = [at |-> "soa", zone |-> z, serial |-> serial]]
  /\ blame' = blame \cup Overlap(r, z)
  /\ UNCHANGED << scene, store, issuer, owed, kept >>

SoaWrite(r, outcome) ==
  /\ req[r].at = "soa"
  /\ LET z == req[r].zone IN
     IF outcome = "refused" \/ ~Exists(z) THEN UNCHANGED store
     ELSE PutZone(z, [store[z] EXCEPT !.serial = req[r].serial])
  /\ Answer(r)
  /\ UNCHANGED << scene, issuer, owed, kept, blame >>

-----------------------------------------------------------------------------
(* Requests of one call.  PATCH of RRsets replaces the SOA as well, without*)
(* a look at its serial.                                                   *)
PatchSOA(r, z, serial) ==
  /\ Start(r, "hand") /\ Exists(z)
  /\ PutZone(z, [store[z] EXCEPT !.serial = serial])
  /\ blame' = blame \cup {"hand"}
  /\ UNCHANGED << scene, req, issuer, owed, kept >>

(* A user replaces the TXT records at the challenge's name *)
PatchTXT(r, z, values) ==
  /\ Start(r, "txt") /\ Exists(z)
  /\ PutZone(z, [store[z] EXCEPT !.txt = values])
  /\ kept' = [kept EXCEPT ![z] = values]
  /\ blame' = IF issuer.at = "write" /\ issuer.zone = z THEN blame \cup {"race"} ELSE blame
  /\ UNCHANGED << scene, req, issuer, owed >>

(* DNSSEC keys: made and deleted one at a time *)
WriteKeys(r, z, keys) ==
  /\ Start(r, "keys") /\ Exists(z)
  /\ keys \in 0 .. MaxKeys /\ keys - store[z].keys \in {1, -1}
  /\ PutZone(z, [store[z] EXCEPT !.keys = keys])
  /\ UNCHANGED << scene, req, issuer, owed, kept, blame >>

-----------------------------------------------------------------------------
(* The issuer.  One authorization after the other: Present, wait for the   *)
(* record, have it validated, Cleanup.  Present and Cleanup both look for  *)
(* the zone, read it and replace the RRset.                                *)
IssuerOnly == UNCHANGED << scene, req, owed, kept >>

Value     == Head(issuer.todo)
Presents  == issuer.purpose = "present"
Selected  == IF Exists("child") THEN "child" ELSE "parent"
Look(todo, purpose) == [at |-> "list", todo |-> todo, purpose |-> purpose]

IssueBegin ==
  /\ "acme" \in scene.ops /\ issuer.at = "new"
  /\ issuer' = Look(Challenges, "present")
  /\ UNCHANGED << store, blame >> /\ IssuerOnly

(* After the Cleanup of an authorization: the next one, or the end, as     *)
(* after the first failure                                                 *)
AfterCleanup(todo, failed) ==
  IF failed \/ Tail(todo) = << >> THEN [at |-> "done"] ELSE Look(Tail(todo), "present")

(* Present's error ends the issuance, Cleanup's is ignored *)
ProviderFails ==
  IF Presents THEN [at |-> "done"] ELSE AfterCleanup(issuer.todo, issuer.purpose = "abandon")

challengeRRSet(answered) ==
  /\ issuer.at \in {"list", "get"}
  /\ issuer' =
       IF ~answered \/ ~Exists(IF issuer.at = "list" THEN Selected ELSE issuer.zone) THEN ProviderFails
       ELSE IF issuer.at = "list"
       THEN [at |-> "get", todo |-> issuer.todo, purpose |-> issuer.purpose, zone |-> Selected]
       ELSE [at |-> "write", todo |-> issuer.todo, purpose |-> issuer.purpose, zone |-> issuer.zone,
             seen |-> store[issuer.zone].txt]
  /\ blame' = IF answered \/ Presents THEN blame ELSE blame \cup {"fault"}
  /\ UNCHANGED store /\ IssuerOnly

Waiting(todo) == [at |-> "wait", todo |-> todo]

Present(outcome) ==
  /\ issuer.at = "write" /\ Presents
  /\ IF Value \in issuer.seen THEN issuer' = Waiting(issuer.todo) /\ UNCHANGED << store, blame >>
     ELSE /\ outcome # "refused" => Exists(issuer.zone)
          /\ IF outcome = "refused" THEN UNCHANGED store
             ELSE PutZone(issuer.zone, [store[issuer.zone] EXCEPT !.txt = issuer.seen \cup {Value}])
          /\ issuer' = IF outcome = "ok" THEN Waiting(issuer.todo) ELSE [at |-> "done"]
          /\ blame' = blame \cup Fault(outcome)
  /\ IssuerOnly

(* A failed validation that returns at once *)
ValidatedOrEnd(confirmed) ==
  /\ issuer.at = "wait"
  /\ confirmed => Exists(Selected) /\ Value \in store[Selected].txt
  /\ issuer' = IF confirmed THEN Look(issuer.todo, "cleanup") ELSE [at |-> "done"]
  /\ UNCHANGED << store, blame >> /\ IssuerOnly

(* The poll finds the record where a resolver does, in the deepest zone,   *)
(* and the authority confirms it; or the time is up                        *)
Validated(confirmed) ==
  /\ issuer.at = "wait"
  /\ confirmed => Exists(Selected) /\ Value \in store[Selected].txt
  /\ issuer' = Look(issuer.todo, IF confirmed THEN "cleanup" ELSE "abandon")
  /\ UNCHANGED << store, blame >> /\ IssuerOnly

(* One that deletes the RRset *)
CleanupAll(outcome) ==
  /\ issuer.at = "write" /\ ~Presents
  /\ outcome # "refused" => Exists(issuer.zone)
  /\ IF outcome = "refused" THEN UNCHANGED store
     ELSE PutZone(issuer.zone, [store[issuer.zone] EXCEPT !.txt = {}])
  /\ issuer' = AfterCleanup(issuer.todo, issuer.purpose = "abandon")
  /\ blame' = IF outcome = "refused" THEN blame \cup {"fault"} ELSE blame
  /\ IssuerOnly

Cleanup(outcome) ==
  /\ issuer.at = "write" /\ ~Presents
  /\ outcome # "refused" => Exists(issuer.zone)
  /\ IF outcome = "refused" THEN UNCHANGED store
     ELSE PutZone(issuer.zone, [store[issuer.zone] EXCEPT !.txt = issuer.seen \ {Value}])
  /\ issuer' = AfterCleanup(issuer.todo, issuer.purpose = "abandon")
  /\ blame' = IF outcome = "refused" THEN blame \cup {"fault"} ELSE blame
  /\ IssuerOnly

(* The process dies with whatever it was doing *)
Crash ==
  /\ Issuing \/ \E r \in DOMAIN req : req[r] # Idle
  /\ req' = [r \in DOMAIN req |-> Idle]
  /\ issuer' = IF Issuing THEN [at |-> "done"] ELSE issuer
  /\ blame' = blame \cup {"fault"}
  /\ UNCHANGED << scene, store, owed, kept >>

-----------------------------------------------------------------------------
Serials == 1 .. MaxSerial

Request(r) ==
  \/ \E z \in Names, bare \in BOOLEAN, o \in Outcomes : CreatePost(r, z, bare, o)
  \/ \E serial \in {1, 2}, o \in Outcomes : CreateInit(r, serial, o)
  \/ \E o \in Outcomes : CreateUndo(r, o) \/ SoaWrite(r, o)
  \/ \E z \in Names, o \in Outcomes : DeleteZone(r, z, o)
  \/ \E z \in Names, asked \in 0 .. MaxSerial : SoaRead(r, z, asked)
  \/ \E z \in Names, serial \in Serials : PatchSOA(r, z, serial)
  \/ \E z \in Names, values \in SUBSET UserValues : PatchTXT(r, z, values)
  \/ \E z \in Names, keys \in 0 .. MaxKeys : WriteKeys(r, z, keys)

Issuance ==
  \/ IssueBegin
  \/ \E answered \in BOOLEAN : challengeRRSet(answered) \/ Validated(answered)
  \/ \E o \in Outcomes : Present(o) \/ Cleanup(o)

Next == (\E r \in DOMAIN req : Request(r)) \/ Issuance \/ Crash

Spec == Init /\ [][Next]_vars

-----------------------------------------------------------------------------
Values == UserValues \cup ChallengeValues

(* The variables stay in their types, and no serial leaves its 32 bits.    *)
TypeOK ==
  /\ store \in [Names -> {Gone} \cup
       [exists : {TRUE}, serial : 0 .. MaxSerial, ready : BOOLEAN, txt : SUBSET Values, keys : 0 .. MaxKeys]]
  /\ \A r \in DOMAIN req : req[r].at \in {"idle", "init", "undo", "soa"}
  /\ issuer.at \in {"new", "list", "get", "write", "wait", "done"}
  /\ owed \subseteq Names /\ kept \in [Names -> SUBSET UserValues]

Excused(reasons) == blame \cap reasons # {}

(* When no request is under way, exactly the zones exist that the answers  *)
(* say, with their records: a creation that failed half way has been taken *)
(* back.  Lost calls, a failed undo and changes by another request in the  *)
(* middle of a creation are excepted; two creations at once are not.       *)
ZonesAsAnswered ==
  (~Excused({"fault", "overlap"}) /\ \A r \in DOMAIN req : req[r] = Idle)
     => \A z \in Names : (Exists(z) <=> z \in owed) /\ (z \in owed => store[z].ready)

(* The SOA endpoint never takes a serial back, as long as its requests and *)
(* the zone's creation come one after the other: there is no call that     *)
(* compares and writes in one.                                             *)
Grows == \A z \in Names : (Exists(z) /\ store'[z].exists) => store'[z].serial >= store[z].serial
Recreated == \E r \in DOMAIN req : req[r] # Idle /\ req[r].at = "init"
SerialsGrow == [][Excused({"overlap", "hand"})' \/ Recreated \/ Grows]_vars

(* The same without the exception: what the documents say. *)
SerialRollbackRefused == [][Recreated \/ Grows]_vars

(* Answering a challenge leaves the other TXT records of the name alone,   *)
(* unless they are replaced between the issuer's read and its write.       *)
OthersKept == Excused({"race"}) \/ \A z \in Names : Exists(z) => kept[z] \subseteq store[z].txt

(* After an issuance, failed or not, no challenge is left in any zone,     *)
(* unless calls failed or zones came and went meanwhile.                   *)
NothingLeftBehind ==
  (issuer.at = "done" /\ ~Excused({"fault", "moved"}))
     => \A z \in Names : Exists(z) => store[z].txt \subseteq UserValues

=============================================================================
