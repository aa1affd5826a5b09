---------------------------- MODULE ZonesProofs ----------------------------
(***************************************************************************)
(* Theorems about Zones, for any situation, any values and any order of    *)
(* authorizations.  Each property has an invariant of its own, which says  *)
(* what a request holds between two of its calls; all rest on the types.   *)
(***************************************************************************)
EXTENDS Zones, SequenceTheorems, TLAPS

Zone == [exists : {TRUE}, serial : 0 .. MaxSerial, ready : BOOLEAN, txt : SUBSET Values, keys : 0 .. MaxKeys]

Requests == {Idle} \cup [at : {"init", "undo"}, zone : Names]
                   \cup [at : {"soa"}, zone : Names, serial : 0 .. MaxSerial]

Todos == Seq(ChallengeValues) \ {<< >>}
Purposes == {"present", "cleanup", "abandon"}
Ends == {[at |-> "new"], [at |-> "done"]}
Lists == [at : {"list"}, todo : Todos, purpose : Purposes]
Gets == [at : {"get"}, todo : Todos, purpose : Purposes, zone : Names]
Writes == [at : {"write"}, todo : Todos, purpose : Purposes, zone : Names, seen : SUBSET Values]
Waits == [at : {"wait"}, todo : Todos]
Issuers == Ends \cup Lists \cup Gets \cup Writes \cup Waits

TInv ==
  /\ store \in [Names -> {Gone} \cup Zone]
  /\ req \in [DOMAIN req -> Requests]
  /\ issuer \in Issuers
  /\ owed \subseteq Names /\ kept \in [Names -> SUBSET UserValues]

LEMMA PutFacts ==
  ASSUME TInv, NEW z \in Names, NEW zone, PutZone(z, zone)
  PROVE  store'[z] = zone /\ \A y \in Names : y # z => store'[y] = store[y]
  BY DEF TInv, PutZone

\* A zone that exists has records and a serial.
LEMMA ZoneFacts ==
  ASSUME TInv, NEW z \in Names
  PROVE  /\ Exists(z) <=> store[z] \in Zone
         /\ ~Exists(z) <=> store[z] = Gone
<1>1. ~Gone.exists
  BY DEF Gone
<1>2. \A zone \in Zone : zone.exists
  BY DEF Zone
<1>3. store[z] = Gone \/ store[z] \in Zone
  BY DEF TInv
<1> QED
  BY <1>1, <1>2, <1>3 DEF Exists

\* What a request changes of a zone leaves a zone.
LEMMA ZoneUpdates ==
  ASSUME NEW zone \in Zone
  PROVE  /\ \A serial \in 0 .. MaxSerial : [zone EXCEPT !.serial = serial] \in Zone
         /\ \A serial \in 0 .. MaxSerial : initialZoneRRSets(zone, serial) \in Zone
         /\ \A txt \in SUBSET Values : [zone EXCEPT !.txt = txt] \in Zone
         /\ \A keys \in 0 .. MaxKeys : [zone EXCEPT !.keys = keys] \in Zone
  BY DEF Zone, initialZoneRRSets

LEMMA IssuerFacts ==
  ASSUME TInv
  PROVE  /\ issuer.at = "list" <=> issuer \in Lists
         /\ issuer.at = "get" <=> issuer \in Gets
         /\ issuer.at = "write" <=> issuer \in Writes
         /\ issuer.at = "wait" <=> issuer \in Waits
         /\ issuer.at = "new" <=> issuer = [at |-> "new"]
         /\ issuer.at = "done" <=> issuer = [at |-> "done"]
         /\ issuer.at \in {"new", "done", "list", "get", "write", "wait"}
  BY DEF TInv, Issuers, Ends, Lists, Gets, Writes, Waits

LEMMA RequestFacts ==
  ASSUME TInv, NEW r \in DOMAIN req
  PROVE  /\ req[r].at \in {"init", "undo", "soa"} => req[r] # Idle /\ req[r].zone \in Names
         /\ req[r].at \in {"init", "undo"} => req[r] \in [at : {"init", "undo"}, zone : Names]
         /\ req[r].at = "soa" => req[r].serial \in 0 .. MaxSerial
         /\ req[r] # Idle => req[r].at \in {"init", "undo", "soa"}
         /\ req[r] = Idle => req[r].at = "idle"
  BY DEF TInv, Requests, Idle

LEMMA AfterTypes ==
  ASSUME NEW todo \in Todos, NEW failed \in BOOLEAN
  PROVE  AfterCleanup(todo, failed) \in Ends \cup Lists
  BY HeadTailProperties DEF AfterCleanup, Todos, Ends, Lists, Look, Purposes

LEMMA FailTypes ==
  ASSUME NEW i \in Lists \cup Gets \cup Writes, issuer = i
  PROVE  ProviderFails \in Ends \cup Lists
  BY AfterTypes DEF ProviderFails, Presents, Lists, Gets, Writes, Ends

LEMMA TNext == TInv /\ [Next]_vars => TInv'
<1> SUFFICES ASSUME TInv, [Next]_vars PROVE TInv'
  OBVIOUS
<1> USE ZonesAssumption
<1>1. ASSUME NEW r \in DOMAIN req, NEW z \in Names, NEW bare \in BOOLEAN, NEW o \in Outcomes, CreatePost(r, z, bare, o)
      PROVE  TInv'
  <2>1. CASE o = "refused"
    BY <1>1, <2>1 DEF CreatePost, TInv
  <2>2. CASE o # "refused"
    <3>1. PICK serial \in 0 .. 1 : PutZone(z, [exists |-> TRUE, serial |-> serial, ready |-> bare, txt |-> {}, keys |-> 0])
      BY <1>1, <2>2 DEF CreatePost
    <3>2. [exists |-> TRUE, serial |-> serial, ready |-> bare, txt |-> {}, keys |-> 0] \in Zone
      BY DEF Zone
    <3>3. store' \in [Names -> {Gone} \cup Zone]
      BY <3>1, <3>2 DEF TInv, PutZone
    <3>4. req' \in [DOMAIN req' -> Requests]
      <4>1. req' = req \/ req' = [req EXCEPT ![r] = [at |-> "init", zone |-> z]]
        BY <1>1, <2>2 DEF CreatePost
      <4> QED
        BY <4>1 DEF TInv, Requests
    <3> QED
      BY <1>1, <2>2, <3>3, <3>4 DEF CreatePost, TInv
  <2> QED
    BY <2>1, <2>2
<1>2. ASSUME NEW r \in DOMAIN req, NEW serial \in {1, 2}, NEW o \in Outcomes, CreateInit(r, serial, o) PROVE TInv'
  <2>1. req[r] \in [at : {"init", "undo"}, zone : Names]
    BY <1>2, RequestFacts DEF CreateInit
  <2>2. store' \in [Names -> {Gone} \cup Zone]
    <3>1. CASE o = "refused"
      BY <1>2, <3>1 DEF CreateInit, TInv
    <3>2. CASE o # "refused"
      <4>1. PutZone(req[r].zone, initialZoneRRSets(store[req[r].zone], serial)) /\ Exists(req[r].zone)
        BY <1>2, <3>2 DEF CreateInit
      <4>2. initialZoneRRSets(store[req[r].zone], serial) \in Zone
        BY <4>1, <2>1, ZoneFacts, ZoneUpdates
      <4> QED
        BY <4>1, <4>2, <2>1 DEF TInv, PutZone
    <3> QED
      BY <3>1, <3>2
  <2>3. req' \in [DOMAIN req' -> Requests]
    <3>1. req' = [req EXCEPT ![r] = Idle] \/ req' = [req EXCEPT ![r].at = "undo"]
      BY <1>2 DEF CreateInit, Answer
    <3>2. [req[r] EXCEPT !.at = "undo"] \in Requests
      BY <2>1 DEF Requests
    <3> QED
      BY <3>1, <3>2 DEF TInv, Requests
  <2> QED
    BY <1>2, <2>1, <2>2, <2>3 DEF CreateInit, TInv
<1>3. ASSUME NEW r \in DOMAIN req, NEW o \in Outcomes, CreateUndo(r, o) PROVE TInv'
  <2>1. req[r].zone \in Names
    BY <1>3, RequestFacts DEF CreateUndo
  <2> QED
    BY <1>3, <2>1 DEF CreateUndo, Answer, PutZone, TInv, Requests
<1>4. ASSUME NEW r \in DOMAIN req, NEW o \in Outcomes, SoaWrite(r, o) PROVE TInv'
  <2>1. req[r].zone \in Names /\ req[r].serial \in 0 .. MaxSerial
    BY <1>4, RequestFacts DEF SoaWrite
  <2>2. store' = store \/ (Exists(req[r].zone) /\ PutZone(req[r].zone, [store[req[r].zone] EXCEPT !.serial = req[r].serial]))
    BY <1>4 DEF SoaWrite
  <2>3. store' \in [Names -> {Gone} \cup Zone]
    BY <2>1, <2>2, ZoneFacts, ZoneUpdates DEF TInv, PutZone
  <2> QED
    BY <1>4, <2>3 DEF SoaWrite, Answer, TInv, Requests
<1>5. ASSUME NEW r \in DOMAIN req, NEW z \in Names, NEW o \in Outcomes, DeleteZone(r, z, o) PROVE TInv'
  BY <1>5 DEF DeleteZone, PutZone, TInv
<1>6. ASSUME NEW r \in DOMAIN req, NEW z \in Names, NEW asked \in 0 .. MaxSerial, SoaRead(r, z, asked) PROVE TInv'
  <2>1. PICK current \in zoneSOA(z) : \E serial \in NextSerials(current, asked) :
          req' = [req EXCEPT ![r] = [at |-> "soa", zone |-> z, serial |-> serial]]
    BY <1>6 DEF SoaRead
  <2>0. PICK serial \in NextSerials(current, asked) :
          req' = [req EXCEPT ![r] = [at |-> "soa", zone |-> z, serial |-> serial]]
    BY <2>1
  <2>2. serial \in 0 .. MaxSerial
    BY <2>0 DEF NextSerials
  <2>3. req' \in [DOMAIN req' -> Requests]
    BY <2>0, <2>2 DEF TInv, Requests
  <2> QED
    BY <1>6, <2>3 DEF SoaRead, TInv
<1>7. ASSUME NEW r \in DOMAIN req, NEW z \in Names, NEW serial \in Serials, PatchSOA(r, z, serial) PROVE TInv'
  <2>1. [store[z] EXCEPT !.serial = serial] \in Zone
    BY <1>7, ZoneFacts, ZoneUpdates DEF PatchSOA, Serials
  <2> QED
    BY <1>7, <2>1 DEF PatchSOA, PutZone, TInv
<1>8. ASSUME NEW r \in DOMAIN req, NEW z \in Names, NEW values \in SUBSET UserValues, PatchTXT(r, z, values) PROVE TInv'
  <2>1. [store[z] EXCEPT !.txt = values] \in Zone
    BY <1>8, ZoneFacts, ZoneUpdates DEF PatchTXT, Values
  <2> QED
    BY <1>8, <2>1 DEF PatchTXT, PutZone, TInv
<1>9. ASSUME NEW r \in DOMAIN req, NEW z \in Names, NEW keys \in 0 .. MaxKeys, WriteKeys(r, z, keys) PROVE TInv'
  <2>1. [store[z] EXCEPT !.keys = keys] \in Zone
    BY <1>9, ZoneFacts, ZoneUpdates DEF WriteKeys
  <2> QED
    BY <1>9, <2>1 DEF WriteKeys, PutZone, TInv
<1>10. CASE IssueBegin
  BY <1>10 DEF IssueBegin, IssuerOnly, Look, TInv, Issuers, Lists, Todos, Purposes
<1>11. ASSUME NEW answered \in BOOLEAN, challengeRRSet(answered) PROVE TInv'
  <2>1. issuer \in Lists \cup Gets
    BY <1>11, IssuerFacts DEF challengeRRSet
  <2>2. ProviderFails \in Issuers
    BY <2>1, FailTypes DEF Issuers
  <2>3. Selected \in Names
    BY DEF Selected, Names
  <2>4. issuer' \in Issuers
    <3>1. CASE ~answered \/ ~Exists(IF issuer.at = "list" THEN Selected ELSE issuer.zone)
      BY <1>11, <3>1, <2>2 DEF challengeRRSet
    <3>2. CASE issuer.at = "list" /\ answered /\ Exists(Selected)
      BY <1>11, <3>2, <2>1, <2>3 DEF challengeRRSet, Issuers, Lists, Gets
    <3>3. CASE issuer.at # "list" /\ answered /\ Exists(issuer.zone)
      <4>1. issuer \in Gets /\ store[issuer.zone].txt \in SUBSET Values
        BY <2>1, <3>3, ZoneFacts DEF Lists, Gets, Zone
      <4> QED
        BY <1>11, <3>3, <4>1 DEF challengeRRSet, Issuers, Gets, Writes
    <3> QED
      BY <3>1, <3>2, <3>3
  <2> QED
    BY <1>11, <2>4 DEF challengeRRSet, IssuerOnly, TInv
<1>12. ASSUME NEW confirmed \in BOOLEAN, Validated(confirmed) PROVE TInv'
  <2>1. issuer \in Waits
    BY <1>12, IssuerFacts DEF Validated
  <2>2. issuer' \in Issuers
    BY <1>12, <2>1 DEF Validated, Look, Issuers, Lists, Waits, Purposes
  <2> QED
    BY <1>12, <2>2 DEF Validated, IssuerOnly, TInv
<1>13. ASSUME NEW o \in Outcomes, Present(o) PROVE TInv'
  <2>1. issuer \in Writes
    BY <1>13, IssuerFacts DEF Present
  <2>2. issuer' \in Issuers
    BY <1>13, <2>1 DEF Present, Waiting, Issuers, Writes, Waits, Ends
  <2>3. store' = store \/ (Exists(issuer.zone) /\ PutZone(issuer.zone, [store[issuer.zone] EXCEPT !.txt = issuer.seen \cup {Value}]))
    BY <1>13 DEF Present
  <2>4. Value \in Values
    BY <2>1, HeadTailProperties DEF Value, Writes, Todos, Values
  <2>5. issuer.zone \in Names /\ issuer.seen \cup {Value} \in SUBSET Values
    BY <2>1, <2>4 DEF Writes
  <2>6. Exists(issuer.zone) => [store[issuer.zone] EXCEPT !.txt = issuer.seen \cup {Value}] \in Zone
    BY <2>5, ZoneFacts, ZoneUpdates
  <2>7. store' \in [Names -> {Gone} \cup Zone]
    BY <2>3, <2>5, <2>6 DEF TInv, PutZone
  <2> QED
    BY <1>13, <2>2, <2>7 DEF Present, IssuerOnly, TInv
<1>14. ASSUME NEW o \in Outcomes, Cleanup(o) PROVE TInv'
  <2>1. issuer \in Writes
    BY <1>14, IssuerFacts DEF Cleanup
  <2>2. issuer' \in Issuers
    BY <1>14, <2>1, AfterTypes DEF Cleanup, Issuers, Writes
  <2>3. store' = store \/ (Exists(issuer.zone) /\ PutZone(issuer.zone, [store[issuer.zone] EXCEPT !.txt = issuer.seen \ {Value}]))
    BY <1>14 DEF Cleanup
  <2>4. issuer.zone \in Names /\ issuer.seen \ {Value} \in SUBSET Values
    BY <2>1 DEF Writes
  <2>5. Exists(issuer.zone) => [store[issuer.zone] EXCEPT !.txt = issuer.seen \ {Value}] \in Zone
    BY <2>4, ZoneFacts, ZoneUpdates
  <2>6. store' \in [Names -> {Gone} \cup Zone]
    BY <2>3, <2>4, <2>5 DEF TInv, PutZone
  <2> QED
    BY <1>14, <2>2, <2>6 DEF Cleanup, IssuerOnly, TInv
<1>15. CASE Crash
  BY <1>15 DEF Crash, TInv, Requests, Issuers, Ends
<1>16. CASE UNCHANGED vars
  BY <1>16 DEF vars, TInv
<1> QED
  BY <1>1, <1>2, <1>3, <1>4, <1>5, <1>6, <1>7, <1>8, <1>9, <1>10, <1>11, <1>12, <1>13, <1>14, <1>15, <1>16
  DEF Next, Request, Issuance

LEMMA TInit == Init => TInv
  BY DEF Init, TInv, Requests, Issuers, Ends

\* The zones, the requests and the issuance stay in their types, and no serial
\* leaves its 32 bits.
THEOREM TypeCorrect == Spec => []TypeOK
<1>1. TInv => TypeOK
  <2> SUFFICES ASSUME TInv PROVE TypeOK
    OBVIOUS
  <2>1. \A r \in DOMAIN req : req[r].at \in {"idle", "init", "undo", "soa"}
    BY RequestFacts
  <2> QED
    BY <2>1, IssuerFacts DEF TypeOK, TInv, Zone
<1> QED
  BY <1>1, TInit, TNext, PTL DEF Spec

-----------------------------------------------------------------------------
(* What the steps leave of the zones *)
SameTxt    == \A y \in Names : (Exists(y)' <=> Exists(y)) /\ (Exists(y) => store'[y].txt = store[y].txt)
SameReady  == \A y \in Names : (Exists(y)' <=> Exists(y)) /\ (Exists(y) => store'[y].ready = store[y].ready)
SameSerial == \A y \in Names : Exists(y) => store'[y].serial = store[y].serial
Rest(z)    == \A y \in Names : y # z => store'[y] = store[y]

LEMMA SameStore == store' = store => SameTxt /\ SameReady /\ SameSerial
  BY DEF SameTxt, SameReady, SameSerial, Exists

LEMMA OneZone ==
  ASSUME NEW z \in Names, Rest(z), Exists(z), Exists(z)'
  PROVE  /\ store'[z].txt = store[z].txt => SameTxt
         /\ store'[z].ready = store[z].ready => SameReady
         /\ store'[z].serial = store[z].serial => SameSerial
  BY DEF Rest, SameTxt, SameReady, SameSerial, Exists

LEMMA Fields ==
  ASSUME NEW zone \in Zone, NEW v
  PROVE  /\ LET n == [zone EXCEPT !.serial = v] IN
              n.exists /\ n.txt = zone.txt /\ n.ready = zone.ready /\ n.serial = v
         /\ LET n == [zone EXCEPT !.keys = v] IN
              n.exists /\ n.txt = zone.txt /\ n.ready = zone.ready /\ n.serial = zone.serial
         /\ LET n == [zone EXCEPT !.txt = v] IN
              n.exists /\ n.txt = v /\ n.ready = zone.ready /\ n.serial = zone.serial
         /\ LET n == initialZoneRRSets(zone, v) IN n.exists /\ n.txt = zone.txt /\ n.ready
  BY DEF Zone, initialZoneRRSets

LEMMA PutField ==
  ASSUME TInv, NEW z \in Names, Exists(z), NEW value
  PROVE  /\ PutZone(z, [store[z] EXCEPT !.serial = value]) =>
              SameTxt /\ SameReady /\ Rest(z) /\ store'[z].serial = value
         /\ PutZone(z, [store[z] EXCEPT !.keys = value]) => SameTxt /\ SameReady /\ SameSerial
         /\ PutZone(z, [store[z] EXCEPT !.txt = value]) =>
              SameReady /\ SameSerial /\ Rest(z) /\ Exists(z)' /\ store'[z].txt = value
         /\ PutZone(z, initialZoneRRSets(store[z], value)) =>
              SameTxt /\ Rest(z) /\ Exists(z)' /\ store'[z].ready
<1>1. store[z] \in Zone
  BY ZoneFacts
<1>2. ASSUME NEW zone, PutZone(z, zone) PROVE store'[z] = zone /\ Rest(z) /\ (zone.exists => Exists(z)')
  BY <1>2, PutFacts DEF Rest, Exists
<1>3. ASSUME PutZone(z, [store[z] EXCEPT !.serial = value])
      PROVE  SameTxt /\ SameReady /\ Rest(z) /\ store'[z].serial = value
  <2>1. store'[z] = [store[z] EXCEPT !.serial = value] /\ Rest(z)
    BY <1>2, <1>3
  <2>2. /\ store'[z].exists /\ store'[z].txt = store[z].txt
        /\ store'[z].ready = store[z].ready /\ store'[z].serial = value
    BY <1>1, <2>1, Fields
  <2> QED
    BY <2>1, <2>2, OneZone DEF Exists
<1>4. ASSUME PutZone(z, [store[z] EXCEPT !.keys = value]) PROVE SameTxt /\ SameReady /\ SameSerial
  <2>1. store'[z] = [store[z] EXCEPT !.keys = value] /\ Rest(z)
    BY <1>2, <1>4
  <2>2. /\ store'[z].exists /\ store'[z].txt = store[z].txt
        /\ store'[z].ready = store[z].ready /\ store'[z].serial = store[z].serial
    BY <1>1, <2>1, Fields
  <2> QED
    BY <2>1, <2>2, OneZone DEF Exists
<1>5. ASSUME PutZone(z, [store[z] EXCEPT !.txt = value])
      PROVE  SameReady /\ SameSerial /\ Rest(z) /\ Exists(z)' /\ store'[z].txt = value
  <2>1. store'[z] = [store[z] EXCEPT !.txt = value] /\ Rest(z)
    BY <1>2, <1>5
  <2>2. /\ store'[z].exists /\ store'[z].txt = value
        /\ store'[z].ready = store[z].ready /\ store'[z].serial = store[z].serial
    BY <1>1, <2>1, Fields
  <2> QED
    BY <2>1, <2>2, OneZone DEF Exists
<1>6. ASSUME PutZone(z, initialZoneRRSets(store[z], value))
      PROVE  SameTxt /\ Rest(z) /\ Exists(z)' /\ store'[z].ready
  <2>1. store'[z] = initialZoneRRSets(store[z], value) /\ Rest(z)
    BY <1>2, <1>6
  <2>2. store'[z].exists /\ store'[z].txt = store[z].txt /\ store'[z].ready
    BY <1>1, <2>1, Fields
  <2> QED
    BY <2>1, <2>2, OneZone DEF Exists
<1> QED
  BY <1>3, <1>4, <1>5, <1>6

\* What the calls of each request put into the store.
LEMMA Effects ==
  ASSUME TInv, NEW r \in DOMAIN req
  PROVE  /\ \A serial, o : CreateInit(r, serial, o) => SameTxt
         /\ \A o : SoaWrite(r, o) => SameTxt /\ SameReady
         /\ \A z \in Names : \A serial : PatchSOA(r, z, serial) => SameTxt /\ SameReady
         /\ \A z \in Names : \A values : PatchTXT(r, z, values) =>
              SameReady /\ SameSerial /\ Rest(z) /\ Exists(z) /\ Exists(z)' /\ store'[z].txt = values
         /\ \A z \in Names : \A keys : WriteKeys(r, z, keys) => SameTxt /\ SameReady /\ SameSerial
<1>1. ASSUME NEW serial, NEW o, CreateInit(r, serial, o) PROVE SameTxt
  <2>1. req[r].zone \in Names
    BY <1>1, RequestFacts DEF CreateInit
  <2> QED
    BY <1>1, <2>1, PutField, SameStore DEF CreateInit
<1>2. ASSUME NEW o, SoaWrite(r, o) PROVE SameTxt /\ SameReady
  <2>1. req[r].zone \in Names
    BY <1>2, RequestFacts DEF SoaWrite
  <2> QED
    BY <1>2, <2>1, PutField, SameStore DEF SoaWrite
<1>3. ASSUME NEW z \in Names, NEW serial, PatchSOA(r, z, serial) PROVE SameTxt /\ SameReady
  BY <1>3, PutField DEF PatchSOA
<1>4. ASSUME NEW z \in Names, NEW values, PatchTXT(r, z, values)
      PROVE  SameReady /\ SameSerial /\ Rest(z) /\ Exists(z) /\ Exists(z)' /\ store'[z].txt = values
  BY <1>4, PutField DEF PatchTXT
<1>5. ASSUME NEW z \in Names, NEW keys, WriteKeys(r, z, keys) PROVE SameTxt /\ SameReady /\ SameSerial
  BY <1>5, PutField DEF WriteKeys
<1> QED
  BY <1>1, <1>2, <1>3, <1>4, <1>5

\* What the issuer's writes put into it.
Written(z, txt) ==
  /\ Exists(z) /\ Exists(z)' /\ Rest(z)
  /\ SameReady /\ SameSerial /\ store'[z].txt = txt

LEMMA IssuerEffects ==
  ASSUME TInv
  PROVE  /\ \A o : Present(o) =>
              \/ store' = store
              \/ o # "refused" /\ \E z \in Names : z = issuer.zone /\ Written(z, issuer.seen \cup {Value})
         /\ \A o : Cleanup(o) =>
              \/ store' = store /\ o = "refused"
              \/ o # "refused" /\ \E z \in Names : z = issuer.zone /\ Written(z, issuer.seen \ {Value})
<1>1. issuer.at = "write" => issuer.zone \in Names
  BY IssuerFacts DEF Writes
<1>2. ASSUME NEW z \in Names, Exists(z), NEW txt, PutZone(z, [store[z] EXCEPT !.txt = txt])
      PROVE  Written(z, txt)
  BY <1>2, PutField DEF Written
<1>3. ASSUME NEW o, Present(o), store' # store
      PROVE  o # "refused" /\ \E z \in Names : z = issuer.zone /\ Written(z, issuer.seen \cup {Value})
  <2>1. PICK z \in Names : z = issuer.zone
    BY <1>1, <1>3 DEF Present
  <2>2. o # "refused" /\ Exists(z) /\ PutZone(z, [store[z] EXCEPT !.txt = issuer.seen \cup {Value}])
    BY <1>3, <2>1 DEF Present
  <2> QED
    BY <1>2, <2>1, <2>2
<1>4. ASSUME NEW o, Cleanup(o), o # "refused"
      PROVE  \E z \in Names : z = issuer.zone /\ Written(z, issuer.seen \ {Value})
  <2>1. PICK z \in Names : z = issuer.zone
    BY <1>1, <1>4 DEF Cleanup
  <2>2. Exists(z) /\ PutZone(z, [store[z] EXCEPT !.txt = issuer.seen \ {Value}])
    BY <1>4, <2>1 DEF Cleanup
  <2> QED
    BY <1>2, <2>1, <2>2
<1>5. ASSUME NEW o, Cleanup(o), o = "refused" PROVE store' = store
  BY <1>5 DEF Cleanup
<1> QED
  BY <1>3, <1>4, <1>5

-----------------------------------------------------------------------------
(* The other TXT records *)

\* What the users put is in the zone, and in what the issuer has read of it.
OInv ==
  /\ \A z \in Names : ~Exists(z) => kept[z] = {}
  /\ "race" \notin blame => /\ \A z \in Names : Exists(z) => kept[z] \subseteq store[z].txt
                            /\ issuer.at = "write" => kept[issuer.zone] \subseteq issuer.seen

LEMMA OFrame ==
  ASSUME OInv, SameTxt, kept' = kept, blame \subseteq blame', issuer' = issuer \/ issuer'.at # "write"
  PROVE  OInv'
  BY DEF OInv, SameTxt

LEMMA ONext == TInv /\ OInv /\ [Next]_vars => OInv'
<1> SUFFICES ASSUME TInv, OInv, [Next]_vars PROVE OInv'
  OBVIOUS
<1>1. ASSUME NEW r \in DOMAIN req, NEW z \in Names, NEW bare \in BOOLEAN, NEW o \in Outcomes, CreatePost(r, z, bare, o)
      PROVE  OInv'
  <2>1. CASE o = "refused"
    BY <1>1, <2>1, OFrame, SameStore DEF CreatePost
  <2>2. CASE o # "refused"
    <3>1. PICK serial \in 0 .. 1 : PutZone(z, [exists |-> TRUE, serial |-> serial, ready |-> bare, txt |-> {}, keys |-> 0])
      BY <1>1, <2>2 DEF CreatePost
    <3>2. Exists(z)' /\ Rest(z) /\ ~Exists(z) /\ blame \subseteq blame' /\ kept' = kept /\ issuer' = issuer
      BY <1>1, <2>2, <3>1, PutFacts DEF CreatePost, Exists, Rest
    <3> QED
      BY <3>2 DEF OInv, Rest, Exists
  <2> QED
    BY <2>1, <2>2
<1>2. ASSUME NEW r \in DOMAIN req, NEW z \in Names, NEW o, (CreateUndo(r, o) /\ z = req[r].zone) \/ DeleteZone(r, z, o)
      PROVE  OInv'
  <2>1. \/ UNCHANGED << store, kept >>
        \/ PutZone(z, Gone) /\ kept' = [kept EXCEPT ![z] = {}]
    BY <1>2 DEF CreateUndo, DeleteZone
  <2>2. issuer' = issuer /\ blame \subseteq blame'
    BY <1>2 DEF CreateUndo, DeleteZone
  <2>3. CASE UNCHANGED << store, kept >>
    BY <2>2, <2>3, OFrame, SameStore
  <2>4. CASE PutZone(z, Gone) /\ kept' = [kept EXCEPT ![z] = {}]
    <3>1. ~Exists(z)' /\ Rest(z)
      BY <2>4, PutFacts DEF Exists, Rest, Gone
    <3>2. kept'[z] = {} /\ \A y \in Names : y # z => kept'[y] = kept[y]
      BY <2>4 DEF TInv
    <3>3. issuer.at = "write" => issuer.zone \in Names
      BY IssuerFacts DEF Writes
    <3> QED
      BY <2>2, <3>1, <3>2, <3>3 DEF OInv, Rest, Exists
  <2> QED
    BY <2>1, <2>3, <2>4
<1>3. ASSUME NEW r \in DOMAIN req, NEW z \in Names, NEW values \in SUBSET UserValues, PatchTXT(r, z, values) PROVE OInv'
  <2>1. Rest(z) /\ Exists(z) /\ Exists(z)' /\ store'[z].txt = values
    BY <1>3, Effects
  <2>2. /\ kept' = [kept EXCEPT ![z] = values] /\ issuer' = issuer
        /\ blame' = IF issuer.at = "write" /\ issuer.zone = z THEN blame \cup {"race"} ELSE blame
    BY <1>3 DEF PatchTXT
  <2>3. kept'[z] = values /\ \A y \in Names : y # z => kept'[y] = kept[y]
    BY <2>2 DEF TInv
  <2>4. issuer.at = "write" => issuer.zone \in Names
    BY IssuerFacts DEF Writes
  <2> QED
    BY <2>1, <2>2, <2>3, <2>4 DEF OInv, Rest, Exists
<1>4. ASSUME NEW r \in DOMAIN req, NEW o, NEW z \in Names, NEW x,
             CreateInit(r, x, o) \/ SoaRead(r, z, x) \/ SoaWrite(r, o) \/ PatchSOA(r, z, x) \/ WriteKeys(r, z, x)
      PROVE  OInv'
  <2>1. SameTxt
    BY <1>4, Effects, SameStore DEF SoaRead
  <2> QED
    BY <1>4, <2>1, OFrame DEF CreateInit, SoaRead, SoaWrite, PatchSOA, WriteKeys
<1>5. ASSUME NEW answered \in BOOLEAN, challengeRRSet(answered) PROVE OInv'
  <2>1. SameTxt /\ kept' = kept /\ blame \subseteq blame'
    BY <1>5, SameStore DEF challengeRRSet, IssuerOnly
  <2>2. issuer \in Lists \cup Gets
    BY <1>5, IssuerFacts DEF challengeRRSet
  <2>3. ProviderFails.at # "write"
    BY <2>2, FailTypes DEF Lists, Ends
  <2>4. \/ issuer'.at # "write"
        \/ /\ issuer \in Gets /\ Exists(issuer.zone)
           /\ issuer'.zone = issuer.zone /\ issuer'.seen = store[issuer.zone].txt
    BY <1>5, <2>2, <2>3 DEF challengeRRSet, Lists, Gets
  <2>5. CASE issuer'.at # "write"
    BY <2>1, <2>5, OFrame
  <2>6. CASE /\ issuer \in Gets /\ Exists(issuer.zone)
             /\ issuer'.zone = issuer.zone /\ issuer'.seen = store[issuer.zone].txt
    BY <2>1, <2>6 DEF OInv, SameTxt, Gets
  <2> QED
    BY <2>4, <2>5, <2>6
<1>6. ASSUME NEW o \in Outcomes, Present(o) \/ Cleanup(o) PROVE OInv'
  <2>1. issuer \in Writes /\ kept' = kept /\ blame \subseteq blame'
    BY <1>6, IssuerFacts DEF Present, Cleanup, IssuerOnly
  <2>2. issuer'.at # "write"
    <3>1. \A failed \in BOOLEAN : AfterCleanup(issuer.todo, failed).at # "write"
      BY <2>1, AfterTypes DEF Writes, Ends, Lists
    <3>2. (issuer.purpose = "abandon") \in BOOLEAN
      OBVIOUS
    <3>3. CASE Present(o)
      BY <3>3 DEF Present, Waiting
    <3>4. CASE Cleanup(o)
      <4>1. issuer' = AfterCleanup(issuer.todo, issuer.purpose = "abandon")
        BY <3>4 DEF Cleanup
      <4> QED
        BY <3>1, <3>2, <4>1
    <3> QED
      BY <1>6, <3>3, <3>4
  <2>3. CASE store' = store
    BY <2>1, <2>2, <2>3, OFrame, SameStore
  <2>4. CASE store' # store
    <3>1. PICK z \in Names : /\ z = issuer.zone
                             /\ Written(z, issuer.seen \cup {Value}) \/ Written(z, issuer.seen \ {Value})
      BY <1>6, <2>4, IssuerEffects
    <3>2. /\ Exists(z) /\ Exists(z)'
          /\ store'[z].txt \in {issuer.seen \cup {Value}, issuer.seen \ {Value}}
          /\ \A y \in Names : y # z => (Exists(y)' <=> Exists(y)) /\ store'[y] = store[y]
      BY <3>1 DEF Written, Rest, Exists
    <3>3. Value \notin UserValues /\ kept[z] \subseteq UserValues
      <4>1. Value \in ChallengeValues
        BY <2>1, HeadTailProperties DEF Value, Writes, Todos
      <4> QED
        BY <4>1, ZonesAssumption DEF TInv
    <3>4. "race" \notin blame => kept[z] \subseteq store'[z].txt
      BY <2>1, <3>1, <3>2, <3>3 DEF OInv, Writes
    <3> QED
      BY <2>1, <2>2, <3>2, <3>4 DEF OInv
  <2> QED
    BY <2>3, <2>4
<1>7. CASE IssueBegin
  BY <1>7, OFrame, SameStore DEF IssueBegin, IssuerOnly, Look
<1>8. ASSUME NEW confirmed \in BOOLEAN, Validated(confirmed) PROVE OInv'
  BY <1>8, OFrame, SameStore DEF Validated, IssuerOnly, Look
<1>9. CASE Crash
  BY <1>9, OFrame, SameStore DEF Crash
<1>10. CASE UNCHANGED vars
  BY <1>10, OFrame, SameStore DEF vars
<1> QED
  <2>1. ASSUME NEW r \in DOMAIN req, NEW o, CreateUndo(r, o) PROVE req[r].zone \in Names
    BY <2>1, RequestFacts DEF CreateUndo
  <2>2. ASSUME NEW r \in DOMAIN req, Request(r) PROVE OInv'
    <3>1. "parent" \in Names
      BY DEF Names
    <3> QED
      BY <2>1, <2>2, <3>1, <1>1, <1>2, <1>3, <1>4 DEF Request
  <2>3. CASE Issuance
    BY <2>3, <1>5, <1>6, <1>7, <1>8 DEF Issuance
  <2> QED
    BY <2>2, <2>3, <1>9, <1>10 DEF Next

\* Answering a challenge leaves the users' TXT records of the name alone, unless
\* they are replaced between the issuer's read and its write (Present, Cleanup).
THEOREM OtherRecordsAreKept == Spec => []OthersKept
<1>1. Init => OInv
  BY DEF Init, OInv, Exists, Gone
<1>2. OInv => OthersKept
  BY DEF OInv, OthersKept, Excused
<1> QED
  BY <1>1, <1>2, TInit, TNext, ONext, PTL DEF Spec

-----------------------------------------------------------------------------
(* What an issuance leaves *)
Clean(z) == Exists(z) => store[z].txt \subseteq UserValues
Quiet    == blame \cap {"fault", "moved"} = {}

\* The only challenge in a zone is that of the authorization under way, in the
\* zone that is selected for it, and never before it is presented.
NInv == Quiet =>
  /\ \A z \in Names : ~Clean(z) =>
       /\ z = Selected /\ store[z].txt \subseteq UserValues \cup {Value}
       /\ issuer.at = "wait" \/ (issuer.at \in {"list", "get", "write"} /\ ~Presents)
  /\ issuer.at \in {"get", "write"} => issuer.zone = Selected
  /\ issuer.at = "write" => /\ issuer.seen \subseteq UserValues \cup {Value}
                            /\ Presents => issuer.seen \subseteq UserValues

\* A step of a request that makes no zone come or go and no record dirty.
LEMMA NFrame ==
  ASSUME NInv, blame \subseteq blame', issuer' = issuer, SameReady \/ SameTxt,
         \A z \in Names : Exists(z)' => store'[z].txt = store[z].txt \/ store'[z].txt \subseteq UserValues
  PROVE  NInv'
<1>1. \A z \in Names : Exists(z)' <=> Exists(z)
  BY DEF SameReady, SameTxt
<1>2. Selected' = Selected
  BY <1>1 DEF Selected, Names
<1>3. Quiet' => Quiet
  BY DEF Quiet
<1>4. Value' = Value /\ (Presents' <=> Presents)
  BY DEF Value, Presents
<1>5. ASSUME NEW z \in Names, ~Clean(z)' PROVE ~Clean(z) /\ store'[z].txt = store[z].txt
  BY <1>1, <1>5 DEF Clean
<1> QED
  BY <1>2, <1>3, <1>4, <1>5 DEF NInv

\* A step after which every zone is clean and none has been read.
LEMMA NClean ==
  ASSUME \A z \in Names : Clean(z)', issuer'.at \notin {"get", "write"}
  PROVE  NInv'
  BY DEF NInv

\* A step of the issuer that goes on with the same value and writes nothing.
LEMMA NGoes ==
  ASSUME NInv, store' = store, blame \subseteq blame', Value' = Value,
         issuer'.at \in {"list", "get", "write", "wait"},
         issuer.at = "wait" \/ Presents => issuer'.at = "wait" \/ ~Presents' \/ \A z \in Names : Quiet => Clean(z),
         issuer.at # "wait" /\ ~Presents => issuer'.at = "wait" \/ ~Presents',
         issuer'.at \in {"get", "write"} => issuer'.zone = Selected,
         issuer'.at = "write" /\ Quiet => /\ issuer'.seen \subseteq UserValues \cup {Value}
                                          /\ Presents' => issuer'.seen \subseteq UserValues
  PROVE  NInv'
<1>1. Selected' = Selected
  BY DEF Selected, Exists
<1>2. Quiet' => Quiet
  BY DEF Quiet
<1>3. \A z \in Names : Clean(z)' <=> Clean(z)
  BY DEF Clean, Exists
<1> QED
  BY <1>1, <1>2, <1>3 DEF NInv

\* A zone comes or goes: during an issuance that is an excuse.
LEMMA NMoved ==
  ASSUME NInv, blame \cup Moved \subseteq blame', issuer' = issuer, issuer.at \in {"new", "done"} \/ Issuing,
         \A z \in Names : Clean(z) => Clean(z)'
  PROVE  NInv'
<1>1. Quiet' => Quiet /\ ~Issuing
  BY DEF Quiet, Moved
<1>2. ~Issuing => issuer.at \in {"new", "done"}
  BY DEF Issuing
<1> QED
  BY <1>1, <1>2 DEF NInv

LEMMA NNext == TInv /\ NInv /\ [Next]_vars => NInv'
<1> SUFFICES ASSUME TInv, NInv, [Next]_vars PROVE NInv'
  OBVIOUS
<1>0. issuer.at \in {"new", "done"} \/ Issuing
  BY DEF Issuing
<1>1. ASSUME NEW r \in DOMAIN req, NEW z \in Names, NEW bare \in BOOLEAN, NEW o \in Outcomes, CreatePost(r, z, bare, o)
      PROVE  NInv'
  <2>1. CASE o = "refused"
    BY <1>1, <2>1, NFrame, SameStore DEF CreatePost
  <2>2. CASE o # "refused"
    <3>1. PICK serial \in 0 .. 1 : PutZone(z, [exists |-> TRUE, serial |-> serial, ready |-> bare, txt |-> {}, keys |-> 0])
      BY <1>1, <2>2 DEF CreatePost
    <3>2. store'[z].txt = {} /\ Rest(z) /\ blame \cup Moved \subseteq blame' /\ issuer' = issuer
      BY <1>1, <2>2, <3>1, PutFacts DEF CreatePost, Rest
    <3>3. \A y \in Names : Clean(y) => Clean(y)'
      BY <3>2 DEF Clean, Rest, Exists
    <3> QED
      BY <1>0, <3>2, <3>3, NMoved
  <2> QED
    BY <2>1, <2>2
<1>2. ASSUME NEW r \in DOMAIN req, NEW z \in Names, NEW o, (CreateUndo(r, o) /\ z = req[r].zone) \/ DeleteZone(r, z, o)
      PROVE  NInv'
  <2>1. (store' = store \/ PutZone(z, Gone)) /\ issuer' = issuer /\ blame \cup Moved \subseteq blame'
    BY <1>2 DEF CreateUndo, DeleteZone
  <2>2. ASSUME PutZone(z, Gone) PROVE ~Exists(z)' /\ Rest(z)
    BY <2>2, PutFacts DEF Exists, Rest, Gone
  <2>3. \A y \in Names : Clean(y) => Clean(y)'
    BY <2>1, <2>2 DEF Clean, Rest, Exists
  <2> QED
    BY <1>0, <2>1, <2>3, NMoved
<1>3. ASSUME NEW r \in DOMAIN req, NEW z \in Names, NEW values \in SUBSET UserValues, PatchTXT(r, z, values) PROVE NInv'
  <2>1. SameReady /\ Rest(z) /\ store'[z].txt = values
    BY <1>3, Effects
  <2>2. issuer' = issuer /\ blame \subseteq blame'
    BY <1>3 DEF PatchTXT
  <2> QED
    BY <2>1, <2>2, NFrame DEF Rest
<1>4. ASSUME NEW r \in DOMAIN req, NEW o, NEW z \in Names, NEW x,
             CreateInit(r, x, o) \/ SoaRead(r, z, x) \/ SoaWrite(r, o) \/ PatchSOA(r, z, x) \/ WriteKeys(r, z, x)
      PROVE  NInv'
  <2>1. SameTxt
    BY <1>4, Effects, SameStore DEF SoaRead
  <2>2. issuer' = issuer /\ blame \subseteq blame'
    BY <1>4 DEF CreateInit, SoaRead, SoaWrite, PatchSOA, WriteKeys
  <2> QED
    BY <2>1, <2>2, NFrame DEF SameTxt
<1>5. ASSUME NEW answered \in BOOLEAN, challengeRRSet(answered) PROVE NInv'
  <2> DEFINE looked == IF issuer.at = "list" THEN Selected ELSE issuer.zone
  <2>1. /\ store' = store /\ blame \subseteq blame' /\ issuer \in Lists \cup Gets
        /\ blame' = IF answered \/ Presents THEN blame ELSE blame \cup {"fault"}
    BY <1>5, IssuerFacts DEF challengeRRSet, IssuerOnly
  <2>2. Quiet' => Quiet /\ (answered \/ Presents)
    BY <2>1 DEF Quiet
  <2>3. CASE ~answered \/ ~Exists(looked)
    <3>1. issuer'.at \in {"done", "list", "new"}
      <4>1. issuer' = ProviderFails
        BY <1>5, <2>3 DEF challengeRRSet
      <4> QED
        BY <4>1, <2>1, FailTypes DEF Ends, Lists
    <3>2. ASSUME Quiet', NEW z \in Names PROVE Clean(z)
      <4>1. CASE Presents
        BY <4>1, <3>2, <2>1, <2>2 DEF NInv, Lists, Gets
      <4>2. CASE ~Presents
        <5>1. ~Exists(looked) /\ looked = Selected
          BY <4>2, <3>2, <2>1, <2>2, <2>3 DEF NInv, Lists, Gets
        <5>2. ~Exists(z)
          BY <5>1 DEF Selected, Names
        <5> QED
          BY <5>2 DEF Clean
      <4> QED
        BY <4>1, <4>2
    <3>3. Quiet' => \A z \in Names : Clean(z)'
      BY <3>2, <2>1 DEF Clean, Exists
    <3> QED
      BY <3>1, <3>3 DEF NInv
  <2>4. CASE issuer.at = "list" /\ answered /\ Exists(looked)
    <3>1. issuer' = [at |-> "get", todo |-> issuer.todo, purpose |-> issuer.purpose, zone |-> Selected]
      BY <1>5, <2>4 DEF challengeRRSet
    <3>2. Value' = Value /\ (Presents' <=> Presents) /\ issuer'.at = "get" /\ issuer'.zone = Selected
      BY <3>1 DEF Value, Presents
    <3>3. Presents => \A z \in Names : Quiet => Clean(z)
      BY <2>4 DEF NInv
    <3> QED
      BY <2>1, <2>4, <3>2, <3>3, NGoes
  <2>5. CASE issuer.at # "list" /\ answered /\ Exists(looked)
    <3>1. issuer' = [at |-> "write", todo |-> issuer.todo, purpose |-> issuer.purpose, zone |-> issuer.zone,
                     seen |-> store[issuer.zone].txt]
      BY <1>5, <2>5 DEF challengeRRSet
    <3>2. issuer.at = "get" /\ issuer.zone \in Names
      BY <2>1, <2>5 DEF Lists, Gets
    <3>3. Value' = Value /\ (Presents' <=> Presents) /\ issuer'.at = "write" /\ issuer'.zone = issuer.zone
          /\ issuer'.seen = store[issuer.zone].txt
      BY <3>1 DEF Value, Presents
    <3>4. Presents => \A z \in Names : Quiet => Clean(z)
      BY <3>2 DEF NInv
    <3>5. Quiet => issuer.zone = Selected /\ store[issuer.zone].txt \subseteq UserValues \cup {Value}
      BY <2>5, <3>2 DEF NInv, Clean
    <3>6. Quiet /\ Presents => store[issuer.zone].txt \subseteq UserValues
      BY <2>5, <3>2, <3>4 DEF Clean
    <3>7. CASE Quiet
      BY <2>1, <3>2, <3>3, <3>4, <3>5, <3>6, <3>7, NGoes
    <3>8. CASE ~Quiet
      BY <2>2, <3>8 DEF NInv
    <3> QED
      BY <3>7, <3>8
  <2> QED
    BY <2>3, <2>4, <2>5
<1>6. ASSUME NEW o \in Outcomes, Present(o) PROVE NInv'
  <2>1. issuer \in Writes /\ issuer.at = "write" /\ Presents /\ blame \subseteq blame'
    BY <1>6, IssuerFacts DEF Present
  <2>2. Quiet' => Quiet
    BY <2>1 DEF Quiet
  <2>3. Quiet => (\A z \in Names : Clean(z)) /\ issuer.zone = Selected /\ issuer.seen \subseteq UserValues
    BY <2>1 DEF NInv
  <2>4. issuer' = Waiting(issuer.todo) \/ issuer' = [at |-> "done"]
    BY <1>6 DEF Present
  <2>5. issuer'.at \in {"wait", "done"} /\ (issuer'.at = "wait" => issuer'.todo = issuer.todo)
    BY <2>4 DEF Waiting
  <2>6. CASE store' = store
    <3>1. Quiet' => \A z \in Names : Clean(z)'
      BY <2>2, <2>3, <2>6 DEF Clean, Exists
    <3> QED
      BY <2>5, <3>1 DEF NInv
  <2>7. CASE store' # store
    <3>1. PICK z \in Names : z = issuer.zone /\ Written(z, issuer.seen \cup {Value}) /\ o # "refused"
      BY <1>6, <2>7, IssuerEffects
    <3>2. Quiet' => o = "ok"
      BY <1>6, <2>7, <3>1 DEF Present, Quiet, Outcomes, Fault
    <3>3. o = "ok" => issuer'.at = "wait" /\ Value' = Value
      BY <1>6 DEF Present, Waiting, Value
    <3>4. Selected' = Selected
      BY <3>1 DEF Written, SameReady, Selected, Names
    <3>5. \A y \in Names : y # z => (Clean(y) => Clean(y)')
      BY <3>1 DEF Written, Rest, Clean, Exists
    <3>6. store'[z].txt = issuer.seen \cup {Value}
      BY <3>1 DEF Written
    <3> QED
      BY <2>2, <2>3, <3>1, <3>2, <3>3, <3>4, <3>5, <3>6 DEF NInv
  <2> QED
    BY <2>6, <2>7
<1>7. ASSUME NEW o \in Outcomes, Cleanup(o) PROVE NInv'
  <2>1. issuer \in Writes /\ issuer.at = "write" /\ ~Presents /\ blame \subseteq blame'
    BY <1>7, IssuerFacts DEF Cleanup
  <2>2. issuer'.at \in {"new", "done", "list"}
    <3>1. issuer' = AfterCleanup(issuer.todo, issuer.purpose = "abandon")
      BY <1>7 DEF Cleanup
    <3>2. (issuer.purpose = "abandon") \in BOOLEAN
      OBVIOUS
    <3>3. issuer.todo \in Todos
      BY <2>1 DEF Writes
    <3>4. issuer' \in Ends \cup Lists
      BY <3>1, <3>2, <3>3, AfterTypes
    <3> QED
      BY <3>4 DEF Ends, Lists
  <2>3. Quiet' => Quiet /\ o # "refused"
    BY <1>7 DEF Quiet, Cleanup
  <2>4. ASSUME Quiet' PROVE \A y \in Names : Clean(y)'
    <3>1. PICK z \in Names : z = issuer.zone /\ Written(z, issuer.seen \ {Value})
      BY <1>7, <2>3, <2>4, IssuerEffects
    <3>2. z = Selected /\ issuer.seen \subseteq UserValues \cup {Value}
      BY <2>1, <2>3, <2>4, <3>1 DEF NInv
    <3>3. Clean(z)'
      BY <3>1, <3>2 DEF Written, Clean
    <3>4. ASSUME NEW y \in Names, y # z PROVE Clean(y)'
      BY <2>3, <2>4, <3>1, <3>2, <3>4 DEF NInv, Written, Rest, Clean, Exists
    <3> QED
      BY <3>3, <3>4
  <2> QED
    BY <2>2, <2>4 DEF NInv
<1>8. CASE IssueBegin
  <2>1. issuer.at = "new" /\ issuer' = Look(Challenges, "present") /\ UNCHANGED << store, blame >>
    BY <1>8 DEF IssueBegin
  <2>2. Quiet' => \A z \in Names : Clean(z)'
    BY <2>1 DEF NInv, Quiet, Clean, Exists
  <2> QED
    BY <2>1, <2>2 DEF NInv, Look
<1>9. ASSUME NEW confirmed \in BOOLEAN, Validated(confirmed) PROVE NInv'
  <2>1. issuer.at = "wait" /\ UNCHANGED << store, blame >>
        /\ issuer' = Look(issuer.todo, IF confirmed THEN "cleanup" ELSE "abandon")
    BY <1>9 DEF Validated
  <2>2. issuer'.at = "list" /\ issuer'.todo = issuer.todo /\ ~Presents'
    BY <2>1 DEF Look, Presents
  <2> QED
    BY <2>1, <2>2, NGoes DEF Value
<1>10. CASE Crash
  BY <1>10 DEF Crash, NInv, Quiet
<1>11. CASE UNCHANGED vars
  BY <1>11, NFrame, SameStore DEF vars
<1> QED
  <2>1. ASSUME NEW r \in DOMAIN req, NEW o, CreateUndo(r, o) PROVE req[r].zone \in Names
    BY <2>1, RequestFacts DEF CreateUndo
  <2>2. ASSUME NEW r \in DOMAIN req, Request(r) PROVE NInv'
    <3>1. "parent" \in Names
      BY DEF Names
    <3> QED
      BY <2>1, <2>2, <3>1, <1>1, <1>2, <1>3, <1>4 DEF Request
  <2>3. CASE Issuance
    BY <2>3, <1>5, <1>6, <1>7, <1>8, <1>9 DEF Issuance
  <2> QED
    BY <2>2, <2>3, <1>10, <1>11 DEF Next

\* After an issuance, failed or not, no challenge is left in any zone, unless
\* calls failed or zones came and went meanwhile (presentAndWait, Cleanup).
THEOREM NoChallengeIsLeft == Spec => []NothingLeftBehind
<1>1. Init => NInv
  BY DEF Init, NInv, Clean, Exists, Gone
<1>2. NInv => NothingLeftBehind
  BY DEF NInv, NothingLeftBehind, Excused, Quiet, Clean
<1> QED
  BY <1>1, <1>2, TInit, TNext, NNext, PTL DEF Spec

-----------------------------------------------------------------------------
(* The zones and the answers *)
Making(z) == {r \in DOMAIN req : req[r].at \in {"init", "undo"} /\ req[r].zone = z}
Answered  == blame \cap {"fault", "overlap"} = {}

\* A zone that is being made is there and belongs to one request; every other
\* zone is as the answers say.
AInv == Answered => \A z \in Names :
  /\ Making(z) = {} => (Exists(z) <=> z \in owed) /\ (z \in owed => store[z].ready)
  /\ \A r \in Making(z) : Making(z) = {r} /\ Exists(z) /\ z \notin owed

LEMMA AFrame ==
  ASSUME AInv, blame \subseteq blame', SameReady, owed' = owed, \A z \in Names : Making(z)' = Making(z)
  PROVE  AInv'
<1>1. Answered' => Answered
  BY DEF Answered
<1> QED
  BY <1>1 DEF AInv, SameReady

\* A step of a request that is not about making a zone.
LEMMA SameMaking ==
  ASSUME TInv, NEW r \in DOMAIN req, NEW q, req' = [req EXCEPT ![r] = q],
         req[r].at \in {"idle", "soa"}, q.at \in {"idle", "soa"}
  PROVE  \A z : Making(z)' = Making(z)
  BY DEF TInv, Making

\* One that starts or ends making a zone.
LEMMA MakingStep ==
  ASSUME TInv, NEW r \in DOMAIN req, NEW q, req' = [req EXCEPT ![r] = q], NEW z \in Names
  PROVE  /\ q.at = "idle" => Making(z)' = Making(z) \ {r}
         /\ q.at = "init" /\ q.zone = z => Making(z)' = Making(z) \cup {r}
         /\ q.at = "init" /\ q.zone # z /\ r \notin Making(z) => Making(z)' = Making(z)
  BY DEF TInv, Making

LEMMA ANext == TInv /\ AInv /\ [Next]_vars => AInv'
<1> SUFFICES ASSUME TInv, AInv, [Next]_vars PROVE AInv'
  OBVIOUS
<1>0. Idle.at = "idle"
  BY DEF Idle
<1>1. ASSUME NEW r \in DOMAIN req, NEW z \in Names, NEW bare \in BOOLEAN, NEW o \in Outcomes, CreatePost(r, z, bare, o)
      PROVE  AInv'
  <2>1. CASE o = "refused"
    BY <1>1, <2>1, AFrame, SameStore DEF CreatePost, Making
  <2>2. CASE o # "refused"
    <3>1. PICK serial \in 0 .. 1 : PutZone(z, [exists |-> TRUE, serial |-> serial, ready |-> bare, txt |-> {}, keys |-> 0])
      BY <1>1, <2>2 DEF CreatePost
    <3>2. Exists(z)' /\ (store'[z].ready <=> bare) /\ Rest(z)
      BY <3>1, PutFacts DEF Exists, Rest
    <3>3. blame \subseteq blame' /\ ~Exists(z) /\ req[r] = Idle /\ (Answered' => o = "ok")
      BY <1>1, <2>2 DEF CreatePost, Start, Answered, Fault, Outcomes
    <3>4. Answered' => Answered
      BY <3>3 DEF Answered
    <3>5. ASSUME Answered' PROVE Making(z) = {} /\ z \notin owed
      BY <3>3, <3>4, <3>5 DEF AInv
    <3>6. \A y \in Names : y # z => (Exists(y)' <=> Exists(y)) /\ store'[y] = store[y]
      BY <3>2 DEF Rest, Exists
    <3>7. CASE o = "ok" /\ ~bare
      <4> DEFINE q == [at |-> "init", zone |-> z]
      <4>1. req' = [req EXCEPT ![r] = q] /\ owed' = owed
        BY <1>1, <3>7 DEF CreatePost
      <4>2. q.at = "init" /\ q.zone = z
        OBVIOUS
      <4> HIDE DEF q
      <4>3. \A y \in Names : r \notin Making(y)
        BY <3>3, <1>0 DEF Making
      <4>4. \A y \in Names : Making(y)' = IF y = z THEN Making(z) \cup {r} ELSE Making(y)
        BY <4>1, <4>2, <4>3, MakingStep
      <4> QED
        BY <3>2, <3>4, <3>5, <3>6, <4>1, <4>4 DEF AInv
    <3>8. CASE o = "ok" /\ bare
      <4>1. req' = req /\ owed' = owed \cup {z}
        BY <1>1, <3>8 DEF CreatePost
      <4>2. \A y \in Names : Making(y)' = Making(y)
        BY <4>1 DEF Making
      <4> QED
        BY <3>2, <3>4, <3>5, <3>6, <3>8, <4>1, <4>2 DEF AInv
    <3>9. CASE o # "ok"
      BY <3>3, <3>9 DEF AInv
    <3> QED
      BY <3>7, <3>8, <3>9
  <2> QED
    BY <2>1, <2>2
<1>2. ASSUME NEW r \in DOMAIN req, NEW serial, NEW o, CreateInit(r, serial, o) PROVE AInv'
  <2>1. PICK z \in Names : z = req[r].zone
    BY <1>2, RequestFacts DEF CreateInit
  <2>2. r \in Making(z) /\ blame' = blame /\ (Answered' <=> Answered)
    BY <1>2, <2>1 DEF CreateInit, Making, Answered
  <2>3. SameTxt /\ Rest(z)
    <3>1. o # "refused" => Exists(z) /\ PutZone(z, initialZoneRRSets(store[z], serial))
      BY <1>2, <2>1 DEF CreateInit
    <3>2. o = "refused" => store' = store
      BY <1>2 DEF CreateInit
    <3> QED
      BY <3>1, <3>2, PutField, SameStore DEF Rest
  <2>4. CASE o = "ok"
    <3>1. req' = [req EXCEPT ![r] = Idle] /\ owed' = owed \cup {z}
      BY <1>2, <2>1, <2>4 DEF CreateInit, Answer
    <3>2. store'[z].ready
      <4>1. Exists(z) /\ PutZone(z, initialZoneRRSets(store[z], serial))
        BY <1>2, <2>1, <2>4 DEF CreateInit
      <4> QED
        BY <4>1, PutField
    <3>3. \A y \in Names : Making(y)' = Making(y) \ {r}
      BY <1>0, <3>1, MakingStep
    <3>4. \A y \in Names : y # z => r \notin Making(y)
      BY <2>1 DEF Making
    <3>5. Answered => Making(z) = {r} /\ Exists(z)
      BY <2>2 DEF AInv
    <3> QED
      BY <2>2, <2>3, <3>1, <3>2, <3>3, <3>4, <3>5 DEF AInv, SameTxt, Rest
  <2>5. CASE o # "ok"
    <3>1. req' = [req EXCEPT ![r].at = "undo"] /\ owed' = owed
      BY <1>2, <2>5 DEF CreateInit
    <3>2. req[r] \in [at : {"init", "undo"}, zone : Names]
      BY <1>2, RequestFacts DEF CreateInit
    <3>3. req'[r].at = "undo" /\ req'[r].zone = z /\ \A s \in DOMAIN req : s # r => req'[s] = req[s]
      BY <2>1, <3>1, <3>2 DEF TInv
    <3>4. DOMAIN req' = DOMAIN req
      BY <3>1
    <3>5. \A y \in Names : Making(y)' = Making(y)
      BY <2>1, <2>2, <3>3, <3>4 DEF Making
    <3> QED
      BY <2>2, <2>3, <3>1, <3>5 DEF AInv, SameTxt, Rest
  <2> QED
    BY <2>4, <2>5
<1>3. ASSUME NEW r \in DOMAIN req, NEW o, CreateUndo(r, o) PROVE AInv'
  <2>1. PICK z \in Names : z = req[r].zone
    BY <1>3, RequestFacts DEF CreateUndo
  <2>2. r \in Making(z) /\ req' = [req EXCEPT ![r] = Idle] /\ owed' = owed /\ blame \subseteq blame'
    BY <1>3, <2>1 DEF CreateUndo, Answer, Making
  <2>3. Answered' => Answered
    BY <2>2 DEF Answered
  <2>4. Answered => Making(z) = {r} /\ Exists(z) /\ z \notin owed
    BY <2>2 DEF AInv
  <2>5. Answered' => o # "refused"
    BY <1>3, <2>1, <2>3, <2>4 DEF CreateUndo, Answered
  <2>6. o # "refused" => ~Exists(z)' /\ Rest(z)
    BY <1>3, <2>1, PutFacts DEF CreateUndo, Exists, Rest, Gone
  <2>7. \A y \in Names : Making(y)' = Making(y) \ {r}
    BY <1>0, <2>2, MakingStep
  <2>8. \A y \in Names : y # z => r \notin Making(y)
    BY <2>1 DEF Making
  <2> QED
    BY <2>2, <2>3, <2>4, <2>5, <2>6, <2>7, <2>8 DEF AInv, Rest, Exists
<1>4. ASSUME NEW r \in DOMAIN req, NEW z \in Names, NEW o \in Outcomes, DeleteZone(r, z, o) PROVE AInv'
  <2>1. /\ req[r] = Idle /\ req' = req /\ blame \cup Fault(o) \cup Overlap(r, z) \subseteq blame'
        /\ owed' = (IF o = "ok" THEN owed \ {z} ELSE owed) /\ o # "refused"
    BY <1>4 DEF DeleteZone, Start
  <2>2. ~Exists(z)' /\ Rest(z)
    BY <1>4, PutFacts DEF DeleteZone, Exists, Rest, Gone
  <2>3. \A y \in Names : Making(y)' = Making(y)
    BY <2>1 DEF Making
  <2>4. Answered' => Answered /\ o = "ok" /\ Busy(z) \ {r} = {}
    BY <2>1 DEF Answered, Fault, Overlap, Outcomes
  <2>5. Making(z) \subseteq Busy(z) \ {r}
    BY <2>1, <1>0, RequestFacts DEF Making, Busy
  <2> QED
    BY <2>1, <2>2, <2>3, <2>4, <2>5 DEF AInv, Rest, Exists
<1>5. ASSUME NEW r \in DOMAIN req, NEW z \in Names, NEW x, NEW o,
             SoaRead(r, z, x) \/ SoaWrite(r, o) \/ PatchSOA(r, z, x) \/ PatchTXT(r, z, x) \/ WriteKeys(r, z, x)
      PROVE  AInv'
  <2>1. SameReady /\ owed' = owed /\ blame \subseteq blame'
    BY <1>5, Effects, SameStore DEF SoaRead, SoaWrite, PatchSOA, PatchTXT, WriteKeys
  <2>2. \A y \in Names : Making(y)' = Making(y)
    <3>1. CASE SoaRead(r, z, x)
      <4>1. PICK serial : req' = [req EXCEPT ![r] = [at |-> "soa", zone |-> z, serial |-> serial]]
        BY <3>1 DEF SoaRead
      <4>2. req[r].at = "idle"
        BY <3>1, <1>0 DEF SoaRead, Start
      <4> QED
        BY <4>1, <4>2, SameMaking
    <3>2. CASE SoaWrite(r, o)
      BY <3>2, <1>0, SameMaking DEF SoaWrite, Answer
    <3>3. CASE req' = req
      BY <3>3 DEF Making
    <3> QED
      BY <1>5, <3>1, <3>2, <3>3 DEF PatchSOA, PatchTXT, WriteKeys
  <2> QED
    BY <2>1, <2>2, AFrame
<1>6. CASE Issuance
  <2>1. SameReady
    BY <1>6, IssuerEffects, SameStore DEF Issuance, IssueBegin, challengeRRSet, Validated, Written
  <2>2. req' = req /\ owed' = owed /\ blame \subseteq blame'
    BY <1>6 DEF Issuance, IssueBegin, challengeRRSet, Validated, Present, Cleanup, IssuerOnly
  <2> QED
    BY <2>1, <2>2, AFrame DEF Making
<1>7. CASE Crash
  BY <1>7 DEF Crash, AInv, Answered
<1>8. CASE UNCHANGED vars
  BY <1>8, AFrame, SameStore DEF vars, Making
<1> QED
  <2>1. ASSUME NEW r \in DOMAIN req, Request(r) PROVE AInv'
    <3>1. "parent" \in Names
      BY DEF Names
    <3> QED
      BY <2>1, <3>1, <1>1, <1>2, <1>3, <1>4, <1>5 DEF Request
  <2> QED
    BY <2>1, <1>6, <1>7, <1>8 DEF Next

\* When no request is under way, exactly the zones exist that the answers say,
\* with their records, unless calls were lost, an undo failed or another request
\* interfered (CreateZone and its undo, DeleteZone).
THEOREM AnswersAreTrue == Spec => []ZonesAsAnswered
<1>1. Init => AInv
  BY DEF Init, AInv, Making, Exists, Gone, Idle
<1>2. AInv => ZonesAsAnswered
  BY DEF AInv, ZonesAsAnswered, Excused, Answered, Making, Idle
<1> QED
  BY <1>1, <1>2, TInit, TNext, ANext, PTL DEF Spec

-----------------------------------------------------------------------------
(* Serials *)

\* No two requests are at one zone, and one that is about to write a serial has
\* one that is not behind the zone's.
SInv == "overlap" \notin blame =>
  /\ \A r, s \in DOMAIN req : r # s /\ req[r] # Idle /\ req[s] # Idle => req[r].zone # req[s].zone
  /\ "hand" \notin blame => \A r \in DOMAIN req : \A z \in Names :
       req[r].at = "soa" /\ req[r].zone = z /\ Exists(z) => req[r].serial >= store[z].serial

\* A step that brings no request to a zone and changes no serial.
LEMMA SFrame ==
  ASSUME SInv, blame \subseteq blame', DOMAIN req' = DOMAIN req,
         \A r \in DOMAIN req : req'[r] = Idle \/ req'[r] = req[r],
         \A z \in Names : Exists(z)' => Exists(z),
         "hand" \in blame' \/ \A z \in Names : Exists(z)' => store'[z].serial = store[z].serial
  PROVE  SInv'
  BY DEF SInv, Idle

LEMMA SNext == TInv /\ SInv /\ [Next]_vars => SInv'
<1> SUFFICES ASSUME TInv, SInv, [Next]_vars PROVE SInv'
  OBVIOUS
<1>0. DOMAIN req' = DOMAIN req
  <2>1. ASSUME NEW r \in DOMAIN req, Request(r) PROVE DOMAIN req' = DOMAIN req
    BY <2>1 DEF Request, CreatePost, CreateInit, CreateUndo, SoaWrite, DeleteZone, SoaRead, PatchSOA,
                PatchTXT, WriteKeys, Answer
  <2> QED
    BY <2>1 DEF Next, Issuance, IssueBegin, challengeRRSet, Validated, Present, Cleanup, IssuerOnly, Crash, vars
<1>1. ASSUME NEW r \in DOMAIN req, NEW z \in Names, NEW bare \in BOOLEAN, NEW o \in Outcomes, CreatePost(r, z, bare, o)
      PROVE  SInv'
  <2>1. CASE o = "refused"
    BY <1>1, <2>1, SFrame DEF CreatePost, Exists
  <2>2. CASE o # "refused"
    <3>1. PICK serial \in 0 .. 1 : PutZone(z, [exists |-> TRUE, serial |-> serial, ready |-> bare, txt |-> {}, keys |-> 0])
      BY <1>1, <2>2 DEF CreatePost
    <3>2. Rest(z)
      BY <3>1, PutFacts DEF Rest
    <3>3. req[r] = Idle /\ blame \cup Overlap(r, z) \subseteq blame'
      BY <1>1, <2>2 DEF CreatePost, Start
    <3>4. req' = req \/ req' = [req EXCEPT ![r] = [at |-> "init", zone |-> z]]
      BY <1>1, <2>2 DEF CreatePost
    <3>5. /\ \A s \in DOMAIN req : s # r => req'[s] = req[s]
          /\ req'[r] = Idle \/ (req'[r].at = "init" /\ req'[r].zone = z)
      BY <3>3, <3>4 DEF TInv
    <3>6. "overlap" \notin blame' => \A s \in DOMAIN req : s # r /\ req[s] # Idle => req[s].zone # z
      BY <3>3 DEF Overlap, Busy
    <3>7. \A y \in Names : y # z => (Exists(y)' <=> Exists(y)) /\ store'[y] = store[y]
      BY <3>2 DEF Rest, Exists
    <3>8. Idle.at = "idle"
      BY DEF Idle
    <3> QED
      BY <1>0, <3>3, <3>5, <3>6, <3>7, <3>8 DEF SInv
  <2> QED
    BY <2>1, <2>2
<1>2. ASSUME NEW r \in DOMAIN req, NEW z \in Names, z = req[r].zone, NEW x, NEW o,
             CreateInit(r, x, o) \/ SoaWrite(r, o)
      PROVE  SInv'
  <2>1. SameTxt /\ blame' = blame /\ Rest(z)
    <3>1. store' = store \/ (Exists(z) /\ \E v : PutZone(z, initialZoneRRSets(store[z], v))
                                               \/ PutZone(z, [store[z] EXCEPT !.serial = v]))
      BY <1>2 DEF CreateInit, SoaWrite
    <3> QED
      BY <1>2, <3>1, PutField, SameStore DEF CreateInit, SoaWrite, Rest
  <2>2. req[r] # Idle
    BY <1>2 DEF CreateInit, SoaWrite, Idle
  <2>3. "overlap" \notin blame => \A s \in DOMAIN req : s # r /\ req[s] # Idle => req[s].zone # z
    BY <1>2, <2>2 DEF SInv
  <2>4. /\ \A s \in DOMAIN req : s # r => req'[s] = req[s]
        /\ req'[r] = Idle \/ (req'[r].at = "undo" /\ req'[r].zone = z)
    <3>1. CASE req' = [req EXCEPT ![r] = Idle]
      BY <3>1 DEF TInv
    <3>2. CASE req' = [req EXCEPT ![r].at = "undo"] /\ CreateInit(r, x, o)
      <4>1. req[r] \in [at : {"init", "undo"}, zone : Names]
        BY <3>2, RequestFacts DEF CreateInit
      <4> QED
        BY <3>2, <4>1, <1>2 DEF TInv
    <3> QED
      BY <1>2, <3>1, <3>2 DEF CreateInit, SoaWrite, Answer
  <2>5. Idle.at = "idle" /\ \A s \in DOMAIN req : req[s].at = "soa" => req[s] # Idle
    BY DEF Idle
  <2> QED
    BY <1>0, <2>1, <2>2, <2>3, <2>4, <2>5 DEF SInv, SameTxt, Rest
<1>3. ASSUME NEW r \in DOMAIN req, NEW z \in Names, NEW o, (CreateUndo(r, o) /\ z = req[r].zone) \/ DeleteZone(r, z, o)
      PROVE  SInv'
  <2>1. (store' = store \/ PutZone(z, Gone)) /\ blame \subseteq blame'
    BY <1>3 DEF CreateUndo, DeleteZone
  <2>2. \A y \in Names : Exists(y)' => Exists(y) /\ store'[y] = store[y]
    BY <2>1, PutFacts DEF Exists, Gone
  <2>3. \A s \in DOMAIN req : req'[s] = Idle \/ req'[s] = req[s]
    BY <1>3 DEF CreateUndo, DeleteZone, Answer, TInv
  <2> QED
    BY <1>0, <2>1, <2>2, <2>3, SFrame
<1>4. ASSUME NEW r \in DOMAIN req, NEW z \in Names, NEW asked \in 0 .. MaxSerial, SoaRead(r, z, asked) PROVE SInv'
  <2>1. PICK current \in zoneSOA(z) : \E serial \in NextSerials(current, asked) :
          req' = [req EXCEPT ![r] = [at |-> "soa", zone |-> z, serial |-> serial]]
    BY <1>4 DEF SoaRead
  <2>2. PICK serial \in NextSerials(current, asked) :
          req' = [req EXCEPT ![r] = [at |-> "soa", zone |-> z, serial |-> serial]]
    BY <2>1
  <2>3. current = store[z].serial /\ current \in 0 .. MaxSerial /\ Exists(z)
    BY <2>1, ZoneFacts DEF zoneSOA, Zone
  <2>4. serial >= current
    BY <2>2, <2>3 DEF NextSerials
  <2>5. store' = store /\ req[r] = Idle /\ blame' = blame \cup Overlap(r, z)
    BY <1>4 DEF SoaRead, Start
  <2>6. /\ \A s \in DOMAIN req : s # r => req'[s] = req[s]
        /\ req'[r].at = "soa" /\ req'[r].zone = z /\ req'[r].serial = serial
    BY <2>2 DEF TInv
  <2>7. "overlap" \notin blame' => \A s \in DOMAIN req : s # r /\ req[s] # Idle => req[s].zone # z
    BY <2>5 DEF Overlap, Busy
  <2>8. "hand" \in blame' <=> "hand" \in blame
    BY <2>5 DEF Overlap
  <2> QED
    BY <1>0, <2>3, <2>4, <2>5, <2>6, <2>7, <2>8 DEF SInv, Exists
<1>5. ASSUME NEW r \in DOMAIN req, NEW z \in Names, NEW x, PatchSOA(r, z, x) \/ PatchTXT(r, z, x) \/ WriteKeys(r, z, x)
      PROVE  SInv'
  <2>1. SameReady /\ ("hand" \in blame' \/ SameSerial) /\ req' = req /\ blame \subseteq blame'
    BY <1>5, Effects DEF PatchSOA, PatchTXT, WriteKeys
  <2> QED
    BY <2>1, SFrame DEF SameReady, SameSerial
<1>6. CASE Issuance
  <2>1. SameReady /\ SameSerial
    BY <1>6, IssuerEffects, SameStore DEF Issuance, IssueBegin, challengeRRSet, Validated, Written
  <2>2. req' = req /\ blame \subseteq blame'
    BY <1>6 DEF Issuance, IssueBegin, challengeRRSet, Validated, Present, Cleanup, IssuerOnly
  <2> QED
    BY <2>1, <2>2, SFrame DEF SameReady, SameSerial
<1>7. CASE Crash
  BY <1>0, <1>7, SFrame DEF Crash, Exists
<1>8. CASE UNCHANGED vars
  BY <1>8, SFrame DEF vars, Exists
<1> QED
  <2>1. ASSUME NEW r \in DOMAIN req, Request(r) PROVE SInv'
    <3>1. "parent" \in Names
      BY DEF Names
    <3>2. req[r].at \in {"init", "undo", "soa"} => req[r].zone \in Names
      BY RequestFacts
    <3> QED
      BY <2>1, <3>1, <3>2, <1>1, <1>2, <1>3, <1>4, <1>5 DEF Request, CreateInit, CreateUndo, SoaWrite
  <2> QED
    BY <2>1, <1>6, <1>7, <1>8 DEF Next

LEMMA SGrows == TInv /\ SInv /\ [Next]_vars => Excused({"overlap", "hand"})' \/ Recreated \/ Grows
<1> SUFFICES ASSUME TInv, SInv, [Next]_vars, ~Excused({"overlap", "hand"})', ~Recreated PROVE Grows
  OBVIOUS
<1>1. \A z \in Names : Exists(z) => store[z].serial \in 0 .. MaxSerial
  BY ZoneFacts DEF Zone
<1>2. ASSUME \A z \in Names : Exists(z) /\ store'[z].exists => store'[z].serial = store[z].serial PROVE Grows
  BY <1>1, <1>2 DEF Grows
<1>11. ASSUME NEW r \in DOMAIN req, NEW z \in Names, NEW bare \in BOOLEAN, NEW o \in Outcomes, CreatePost(r, z, bare, o)
       PROVE  Grows
  <2>1. CASE o = "refused"
    BY <1>2, <1>11, <2>1 DEF CreatePost
  <2>2. CASE o # "refused"
    <3>1. ~Exists(z) /\ \E zone : PutZone(z, zone)
      BY <1>11, <2>2 DEF CreatePost
    <3>2. Rest(z)
      BY <3>1, PutFacts DEF Rest
    <3> QED
      BY <1>2, <3>1, <3>2 DEF Rest
  <2> QED
    BY <2>1, <2>2
<1>3. ASSUME NEW r \in DOMAIN req, NEW z \in Names, NEW o, DeleteZone(r, z, o) \/ (CreateUndo(r, o) /\ z = req[r].zone)
      PROVE  Grows
  <2>1. CASE store' = store
    BY <1>2, <2>1
  <2>2. CASE PutZone(z, Gone)
    BY <1>2, <2>2, PutFacts DEF Gone
  <2> QED
    BY <1>3, <2>1, <2>2 DEF DeleteZone, CreateUndo
<1>4. ASSUME NEW r \in DOMAIN req, NEW o, SoaWrite(r, o) PROVE Grows
  <2>1. PICK z \in Names : z = req[r].zone
    BY <1>4, RequestFacts DEF SoaWrite
  <2>2. blame' = blame /\ req[r].at = "soa"
    BY <1>4 DEF SoaWrite
  <2>3. Exists(z) => req[r].serial >= store[z].serial
    BY <2>1, <2>2 DEF SInv, Excused
  <2>4. store' = store \/ (Exists(z) /\ PutZone(z, [store[z] EXCEPT !.serial = req[r].serial]))
    BY <1>4, <2>1 DEF SoaWrite
  <2>5. CASE Exists(z) /\ PutZone(z, [store[z] EXCEPT !.serial = req[r].serial])
    <3>1. Rest(z) /\ store'[z].serial = req[r].serial
      BY <2>5, PutField
    <3> QED
      BY <1>1, <2>3, <2>5, <3>1 DEF Grows, Rest
  <2> QED
    BY <1>2, <2>4, <2>5
<1>5. ASSUME SameSerial PROVE Grows
  BY <1>2, <1>5 DEF SameSerial
<1>6. ASSUME NEW r \in DOMAIN req, NEW x, NEW o, CreateInit(r, x, o) PROVE FALSE
  BY <1>6 DEF CreateInit, Recreated, Idle
<1>7. ASSUME NEW r \in DOMAIN req, NEW z \in Names, NEW x, PatchSOA(r, z, x) PROVE FALSE
  BY <1>7 DEF PatchSOA, Excused
<1>8. ASSUME NEW r \in DOMAIN req, NEW z \in Names, NEW x, PatchTXT(r, z, x) \/ WriteKeys(r, z, x) \/ SoaRead(r, z, x)
      PROVE  Grows
  BY <1>5, <1>8, Effects, SameStore DEF SoaRead
<1>9. CASE Issuance
  BY <1>5, <1>9, IssuerEffects, SameStore DEF Issuance, IssueBegin, challengeRRSet, Validated, Written
<1>10. CASE Crash \/ UNCHANGED vars
  BY <1>5, <1>10, SameStore DEF Crash, vars
<1> QED
  <2>1. ASSUME NEW r \in DOMAIN req, Request(r) PROVE Grows
    <3>1. ASSUME NEW o, CreateUndo(r, o) PROVE req[r].zone \in Names
      BY <3>1, RequestFacts DEF CreateUndo
    <3>2. ASSUME NEW o, CreateUndo(r, o) PROVE Grows
      BY <3>1, <3>2, <1>3
    <3>3. CASE \E z \in Names, bare \in BOOLEAN, o \in Outcomes : CreatePost(r, z, bare, o)
      BY <3>3, <1>11
    <3>7. CASE \E z \in Names, o \in Outcomes : DeleteZone(r, z, o)
      BY <3>7, <1>3
    <3>4. CASE \E serial \in {1, 2}, o \in Outcomes : CreateInit(r, serial, o) \/ SoaWrite(r, o)
      BY <3>4, <1>4, <1>6
    <3>5. CASE \E z \in Names, serial \in Serials : PatchSOA(r, z, serial)
      BY <3>5, <1>7
    <3>6. CASE \E z \in Names : \E x : PatchTXT(r, z, x) \/ WriteKeys(r, z, x) \/ SoaRead(r, z, x)
      BY <3>6, <1>8
    <3> QED
      BY <2>1, <3>2, <3>3, <3>4, <3>5, <3>6, <3>7 DEF Request
  <2> QED
    BY <2>1, <1>9, <1>10 DEF Next

\* The SOA endpoint never takes a serial back, as long as its requests and the
\* zone's creation come one after the other (UpdateAuthoritativeSOA, nextSOASerial).
THEOREM SerialsNeverShrink == Spec => SerialsGrow
<1>1. Init => SInv
  BY DEF Init, SInv, Idle
<1> QED
  BY <1>1, TInit, TNext, SNext, SGrows, PTL DEF Spec, SerialsGrow

=============================================================================
