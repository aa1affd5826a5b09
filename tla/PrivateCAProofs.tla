-------------------------- MODULE PrivateCAProofs --------------------------
(***************************************************************************)
(* Theorems about PrivateCA, for any number of requests, certificates and  *)
(* roots.  The inductive invariant says what each request may hold at its  *)
(* step, and which root each file has while a swap that is alone, or the   *)
(* start of the process, is between two of them.                           *)
(***************************************************************************)
EXTENDS PrivateCA, TLAPS

Steps    == {"key", "cert", "load", "pair", "install", "record"}
Purposes == {"boot", "swap", "crl", "backup"}
Leaves(m) == {NoLeaf} \cup
  [at : {"called", "allowed", "issued", "revoked"}, root : 1 .. m, open : BOOLEAN, fresh : BOOLEAN]

\* What a request under way knows at its step, of m roots.
StateOK(c, s, m) ==
  /\ {"at", "purpose"} \subseteq DOMAIN s
  /\ s.at \in Steps /\ s.purpose \in Purposes
  /\ s.purpose = "boot" <=> c = "boot"
  /\ s.purpose = "backup" <=> s.at = "record"
  /\ s.purpose = "crl" => s.at \in {"load", "pair"} /\ "owed" \in DOMAIN s /\ s.owed \subseteq Jobs
  /\ s.purpose = "swap" => {"root", "alone"} \subseteq DOMAIN s /\ s.root \in 1 .. m /\ s.alone \in BOOLEAN
  /\ s.at \in {"key", "cert", "install", "record"} => "root" \in DOMAIN s /\ s.root \in 1 .. m
  /\ s.at = "pair" => "key" \in DOMAIN s /\ s.key \in 0 .. m

CallOK(c) == call[c] = Idle \/ StateOK(c, call[c], made)

TInv ==
  /\ made \in 0 .. MaxRoots
  /\ keyFile \in 0 .. made /\ certFile \in 0 .. made /\ backup \in 0 .. made /\ issuer \in 0 .. made
  /\ disabled \in BOOLEAN /\ blame \subseteq {"overlap", "fault"}
  /\ vouched \subseteq 1 .. made /\ unlisted \subseteq Jobs
  /\ call = [c \in Calls |-> call[c]] /\ \A c \in Calls : CallOK(c)
  /\ leaf \in [Jobs -> Leaves(made)]
  /\ issuer # 0 => certFile # 0 /\ call["boot"] = Idle
  /\ issuer = 0 => \A c \in Admins : call[c] = Idle
  /\ call["boot"].at = "install" => certFile # 0

LEMMA WithFacts ==
  ASSUME NEW state, NEW field, NEW value
  PROVE  /\ DOMAIN With(state, field, value) = DOMAIN state \cup {field}
         /\ With(state, field, value)[field] = value
         /\ \A f \in DOMAIN state : f # field => With(state, field, value)[f] = state[f]
  BY DEF With

LEMMA GotoFacts ==
  ASSUME TInv, NEW c \in Calls, NEW s, Goto(c, s)
  PROVE  /\ call' = [d \in Calls |-> call'[d]]
         /\ call'[c] = s
         /\ \A d \in Calls : d # c => call'[d] = call[d]
  BY DEF TInv, Goto

LEMMA TInit == Init => TInv
<1> SUFFICES ASSUME Init PROVE TInv OBVIOUS
<1>1. "boot" \in Calls BY DEF Calls
<1>2. call["boot"] = Boot /\ \A c \in Calls : c # "boot" => call[c] = Idle
  BY <1>1 DEF Init
<1>3. \A c \in Calls : CallOK(c)
  BY <1>2 DEF CallOK, StateOK, Boot, Steps, Purposes
<1>4. call = [c \in Calls |-> call[c]]
  BY DEF Init
<1>5. \A c \in Admins : call[c] = Idle
  BY <1>2, PrivateCAAssumption DEF Calls
<1>6. leaf \in [Jobs -> Leaves(made)]
  BY DEF Init, Leaves
<1>7. made \in 0 .. MaxRoots
  BY PrivateCAAssumption DEF Init
<1>a. call["boot"].at # "install"
  BY <1>2 DEF Boot
<1>8. /\ keyFile = 0 /\ certFile = 0 /\ backup = 0 /\ issuer = 0 /\ made = 0
      /\ disabled = FALSE /\ blame = {} /\ vouched = {} /\ unlisted = {}
  BY DEF Init
<1>9. 0 \in 0 .. made
  BY <1>8
<1> QED
  BY <1>3, <1>4, <1>5, <1>6, <1>7, <1>8, <1>9, <1>a DEF TInv

\* A later root does not disturb what a request knows.
LEMMA StateGrows ==
  ASSUME NEW c, NEW s, NEW m \in Nat, NEW n \in Nat, m <= n, StateOK(c, s, m)
  PROVE  StateOK(c, s, n)
  BY DEF StateOK

LEMMA LeavesGrow ==
  ASSUME NEW m \in Nat, NEW n \in Nat, m <= n
  PROVE  Leaves(m) \subseteq Leaves(n)
  BY DEF Leaves

LEMMA CallStep ==
  ASSUME TInv, NEW c \in Calls, NEW s, Goto(c, s), made' \in Nat, made <= made',
         s = Idle \/ StateOK(c, s, made')
  PROVE  call' = [d \in Calls |-> call'[d]] /\ \A d \in Calls : CallOK(d)'
<1>1. made \in Nat
  BY DEF TInv
<1>2. ASSUME NEW d \in Calls PROVE CallOK(d)'
  <2>1. CASE d = c
    BY <2>1, GotoFacts DEF CallOK
  <2>2. CASE d # c
    <3>1. call'[d] = call[d]
      BY <2>2, GotoFacts
    <3>2. CallOK(d)
      BY DEF TInv
    <3> QED
      BY <3>1, <3>2, <1>1, StateGrows DEF CallOK
  <2> QED
    BY <2>1, <2>2
<1> QED
  BY <1>2, GotoFacts

\* What a request that is under way is.
LEMMA Under ==
  ASSUME TInv, NEW c \in Calls, call[c].at # "idle"
  PROVE  /\ StateOK(c, call[c], made)
         /\ c # "boot" => issuer # 0 /\ certFile # 0
         /\ c = "boot" => issuer = 0
  BY DEF TInv, CallOK, Idle, Calls

LEMMA CallsFacts == "boot" \in Calls /\ Admins \subseteq Calls /\ \A c \in Admins : c # "boot"
  BY PrivateCAAssumption DEF Calls

\* A call of an administrator leaves the start of the process alone, and the
\* other way round.
LEMMA BootStep ==
  ASSUME TInv, NEW c \in Calls, NEW s, Goto(c, s), c # "boot" => issuer # 0
  PROVE  /\ c # "boot" => call'["boot"] = call["boot"]
         /\ issuer = 0 => \A d \in Admins : call'[d] = Idle
  BY CallsFacts, GotoFacts DEF TInv

LEMMA TSwap ==
  ASSUME TInv, NEW c \in Admins, NEW root \in 1 .. MaxRoots, root <= made',
         made' \in {made, made + 1}, made' <= MaxRoots, Swap(c, root)
  PROVE  TInv'
<1>1. made \in Nat /\ made' \in Nat /\ made <= made' /\ made' \in 0 .. MaxRoots /\ root \in 1 .. made'
  BY PrivateCAAssumption DEF TInv
<1>2. /\ call[c] = Idle /\ issuer # 0 /\ c \in Calls /\ c # "boot"
      /\ UNCHANGED << keyFile, certFile, disabled, backup, issuer, vouched, unlisted >>
  BY CallsFacts DEF Swap, Free, Serving, files
<1>3. call' = [d \in Calls |-> call'[d]]
  BY DEF Swap
<1>4. ASSUME NEW d \in Calls PROVE CallOK(d)'
  <2>1. CASE d = c
    <3>1. call'[d] = [at |-> "key", purpose |-> "swap", root |-> root, alone |-> Swaps = {}]
      BY <2>1 DEF Swap
    <3> QED
      BY <3>1, <2>1, <1>1, <1>2 DEF CallOK, StateOK, Steps, Purposes
  <2>2. CASE d # c /\ d \in Swaps
    <3>1. call'[d] = [call[d] EXCEPT !.alone = FALSE]
      BY <2>2 DEF Swap
    <3>2. StateOK(d, call[d], made)
      BY <2>2 DEF TInv, CallOK, Swaps, Is
    <3>3. StateOK(d, call[d], made')
      BY <3>2, <1>1, StateGrows
    <3>4. DOMAIN call'[d] = DOMAIN call[d] /\ \A f \in DOMAIN call[d] : f # "alone" => call'[d][f] = call[d][f]
      BY <3>1
    <3>5. call'[d].alone = FALSE
      BY <3>1, <3>2, <2>2 DEF StateOK, Swaps, Is
    <3>6. StateOK(d, call'[d], made')
      BY <3>3, <3>4, <3>5 DEF StateOK
    <3> QED
      BY <3>6 DEF CallOK
  <2>3. CASE d # c /\ d \notin Swaps
    <3>1. call'[d] = call[d]
      BY <2>3 DEF Swap
    <3> QED
      BY <3>1, <1>1, StateGrows DEF TInv, CallOK
  <2> QED
    BY <2>1, <2>2, <2>3
<1>5. leaf' \in [Jobs -> Leaves(made')]
  <2>1. ASSUME NEW j \in Jobs PROVE leaf'[j] \in Leaves(made')
    <3>1. leaf[j] \in Leaves(made')
      BY <1>1, LeavesGrow DEF TInv
    <3>2. leaf'[j] = IF leaf[j] = NoLeaf THEN NoLeaf ELSE [leaf[j] EXCEPT !.fresh = FALSE]
      BY DEF Swap
    <3> QED
      BY <3>1, <3>2 DEF Leaves
  <2> QED
    BY <2>1 DEF Swap
<1>6. call'["boot"] = call["boot"]
  <2>1. "boot" \in Calls /\ "boot" \notin Swaps
    BY CallsFacts DEF Swaps
  <2> QED
    BY <2>1, <1>2 DEF Swap
<1>7. blame' \subseteq {"overlap", "fault"}
  BY DEF Swap, TInv
<1>8. /\ keyFile \in 0 .. made' /\ certFile \in 0 .. made' /\ backup \in 0 .. made' /\ issuer \in 0 .. made'
      /\ vouched \subseteq 1 .. made'
  BY <1>1 DEF TInv
<1> QED
  BY <1>1, <1>2, <1>3, <1>4, <1>5, <1>6, <1>7, <1>8 DEF TInv

\* A step of a request that makes no root and touches no certificate.
LEMMA TStep ==
  ASSUME TInv, NEW c \in Calls, NEW s, Goto(c, s),
         s = Idle \/ (StateOK(c, s, made) /\ (s.at = "install" => certFile' # 0)),
         c # "boot" => issuer # 0, c = "boot" => issuer = 0,
         made' = made, leaf' = leaf, issuer' = issuer, unlisted' \subseteq Jobs,
         keyFile' \in 0 .. made, certFile' \in 0 .. made, certFile # 0 => certFile' # 0,
         backup' \in 0 .. made, vouched' \subseteq 1 .. made,
         disabled' \in BOOLEAN, blame' \subseteq {"overlap", "fault"}
  PROVE  TInv'
<1>1. made \in Nat /\ made' \in Nat /\ made <= made'
  BY DEF TInv
<1>2. call' = [d \in Calls |-> call'[d]] /\ \A d \in Calls : CallOK(d)'
  BY <1>1, CallStep
<1>3. issuer # 0 => call'["boot"] = Idle
  BY CallsFacts, BootStep DEF TInv
<1>4. call'["boot"].at = "install" => certFile' # 0
  BY BootStep, CallsFacts, GotoFacts DEF TInv, Idle
<1> QED
  BY <1>1, <1>2, <1>3, <1>4, BootStep DEF TInv

LEMMA TWriteKey ==
  ASSUME TInv, NEW c \in Calls, NEW written \in BOOLEAN, WriteKey(c, written)
  PROVE  TInv'
<1>1. StateOK(c, call[c], made) /\ (c # "boot" => issuer # 0) /\ (c = "boot" => issuer = 0)
  BY Under DEF WriteKey
<1>2. call[c].at = "key" /\ call[c].root \in 1 .. made
  BY <1>1 DEF WriteKey, StateOK
<1> DEFINE s == IF written THEN [call[c] EXCEPT !.at = "cert"] ELSE Idle
<1>3. Goto(c, s)
  BY DEF WriteKey, Leave
<1>4. StateOK(c, [call[c] EXCEPT !.at = "cert"], made) /\ [call[c] EXCEPT !.at = "cert"].at = "cert"
  BY <1>1, <1>2 DEF StateOK, Steps
<1>5. s = Idle \/ (StateOK(c, s, made) /\ (s.at = "install" => certFile' # 0))
  BY <1>4
<1>6. keyFile' \in 0 .. made
  BY <1>2 DEF WriteKey, TInv
<1> HIDE DEF s
<1> QED
  BY <1>1, <1>3, <1>5, <1>6, TStep DEF WriteKey, TInv

LEMMA TWriteCert ==
  ASSUME TInv, NEW c \in Calls, NEW written \in BOOLEAN, WriteCert(c, written)
  PROVE  TInv'
<1>1. StateOK(c, call[c], made) /\ (c # "boot" => issuer # 0) /\ (c = "boot" => issuer = 0)
  BY Under DEF WriteCert
<1>2. call[c].at = "cert" /\ call[c].root \in 1 .. made
  BY <1>1 DEF WriteCert, StateOK
<1> DEFINE t == [call[c] EXCEPT !.at = IF c = "boot" THEN "install" ELSE "load"]
           s == IF written THEN t ELSE Idle
<1>3. Goto(c, s)
  BY DEF WriteCert, Leave
<1>4. StateOK(c, t, made) /\ t.at = IF c = "boot" THEN "install" ELSE "load"
  <2>1. DOMAIN t = DOMAIN call[c] /\ \A f \in DOMAIN call[c] : f # "at" => t[f] = call[c][f]
    OBVIOUS
  <2>2. t.at = IF c = "boot" THEN "install" ELSE "load"
    BY <1>1 DEF StateOK
  <2> HIDE DEF t
  <2> QED
    BY <1>1, <1>2, <2>1, <2>2 DEF StateOK, Steps, Purposes
<1> HIDE DEF t
<1>5. certFile' \in 0 .. made /\ (certFile # 0 => certFile' # 0)
  BY <1>2 DEF WriteCert, TInv
<1>6. blame' \subseteq {"overlap", "fault"} /\ (written => certFile' # 0)
  BY <1>2 DEF WriteCert, TInv
<1> QED
  BY <1>1, <1>3, <1>4, <1>5, <1>6, TStep DEF WriteCert, TInv

LEMMA TLoadKey ==
  ASSUME TInv, NEW c \in Calls, LoadKey(c)
  PROVE  TInv'
<1>1. StateOK(c, call[c], made) /\ (c # "boot" => issuer # 0) /\ (c = "boot" => issuer = 0)
  BY Under DEF LoadKey
<1> DEFINE t == [call[c] EXCEPT !.at = "pair"]
           s == With(t, "key", keyFile)
<1>2. Goto(c, s)
  BY DEF LoadKey
<1>3. StateOK(c, s, made) /\ s.at = "pair"
  <2>1. DOMAIN t = DOMAIN call[c] /\ t.at = "pair" /\ \A f \in DOMAIN call[c] : f # "at" => t[f] = call[c][f]
    BY <1>1 DEF StateOK
  <2> HIDE DEF t
  <2>2. /\ DOMAIN s = DOMAIN call[c] \cup {"key"} /\ s.key = keyFile
        /\ \A f \in DOMAIN call[c] : f # "key" => s[f] = t[f]
    BY <2>1 DEF With
  <2> HIDE DEF s
  <2>3. s.at = "pair" /\ \A f \in DOMAIN call[c] : f \notin {"key", "at"} => s[f] = call[c][f]
    BY <2>1, <2>2, <1>1 DEF StateOK
  <2>4. call[c].at = "load" /\ keyFile \in 0 .. made
    BY DEF LoadKey, TInv
  <2> QED
    BY <1>1, <2>2, <2>3, <2>4 DEF StateOK, Steps, Purposes
<1> HIDE DEF s
<1> QED
  BY <1>1, <1>2, <1>3, TStep DEF LoadKey, TInv, files

LEMMA TLoadCert ==
  ASSUME TInv, NEW c \in Calls, LoadCert(c)
  PROVE  TInv'
<1>1. StateOK(c, call[c], made) /\ (c # "boot" => issuer # 0) /\ (c = "boot" => issuer = 0)
  BY Under DEF LoadCert
<1>2. call[c].at = "pair" /\ call[c].key \in 0 .. made
  BY <1>1 DEF LoadCert, StateOK
<1> DEFINE create == c = "boot" /\ call[c].key = 0 /\ certFile = 0
           valid == validatePrivateRoot(call[c].key, certFile)
           t == [call[c] EXCEPT !.at = "install"]
           s == With(t, "root", certFile)
<1>3. made \in Nat /\ certFile \in 0 .. made
  BY DEF TInv
<1>4. UNCHANGED << keyFile, certFile, disabled, backup, issuer, leaf, blame, vouched >>
  BY DEF LoadCert, files
<1>5. unlisted' \subseteq Jobs
  <2>1. call[c].purpose = "crl" => call[c].owed \subseteq Jobs
    BY <1>1 DEF StateOK
  <2> QED
    BY <2>1 DEF LoadCert, TInv, Is, Listed
<1>6. CASE create
  <2> DEFINE n == [at |-> "key", purpose |-> "boot", root |-> made + 1]
  <2>0. made' = made + 1 /\ made < MaxRoots
    BY <1>6 DEF LoadCert
  <2> DEFINE next == CASE create -> n [] valid /\ ~Is(c, "crl") -> s [] OTHER -> Idle
  <2>9. Goto(c, next)
    BY DEF LoadCert
  <2>a. next = n
    BY <1>6 DEF validatePrivateRoot
  <2> HIDE DEF next
  <2>1. Goto(c, n)
    BY <2>9, <2>a
  <2> HIDE DEF s
  <2>2. StateOK(c, n, made')
    BY <2>0, <1>3, <1>6 DEF StateOK, Steps, Purposes
  <2>3. call' = [d \in Calls |-> call'[d]] /\ \A d \in Calls : CallOK(d)'
    BY <2>0, <2>1, <2>2, <1>3, CallStep
  <2>4. leaf' \in [Jobs -> Leaves(made')]
    BY <2>0, <1>3, <1>4, LeavesGrow DEF TInv
  <2>5. issuer = 0 /\ call'["boot"] = n
    BY <1>1, <1>6, <2>1, GotoFacts
  <2>6. \A d \in Admins : call'[d] = Idle
    BY <2>1, <2>5, <1>1, BootStep
  <2>7. /\ made' \in 0 .. MaxRoots
        /\ keyFile \in 0 .. made' /\ certFile \in 0 .. made' /\ backup \in 0 .. made' /\ issuer \in 0 .. made'
        /\ vouched \subseteq 1 .. made'
    BY <2>0, <1>3, PrivateCAAssumption DEF TInv
  <2>8. disabled \in BOOLEAN /\ blame \subseteq {"overlap", "fault"}
    BY DEF TInv
  <2> QED
    BY <2>3, <2>4, <2>5, <2>6, <2>7, <2>8, <1>4, <1>5 DEF TInv
<1>7. CASE ~create /\ valid /\ ~Is(c, "crl")
  <2>3. certFile # 0
    BY <1>7, <1>3 DEF validatePrivateRoot
  <2>1. Goto(c, s) /\ made' = made
    BY <1>7 DEF LoadCert
  <2>2. StateOK(c, s, made)
    <3>1. DOMAIN t = DOMAIN call[c] /\ t.at = "install" /\ \A f \in DOMAIN call[c] : f # "at" => t[f] = call[c][f]
      BY <1>1 DEF StateOK
    <3> HIDE DEF t
    <3>2. /\ DOMAIN s = DOMAIN call[c] \cup {"root"} /\ s.root = certFile
          /\ \A f \in DOMAIN call[c] : f # "root" => s[f] = t[f]
      BY <3>1 DEF With
    <3> HIDE DEF s
    <3>3. s.at = "install" /\ \A f \in DOMAIN call[c] : f \notin {"root", "at"} => s[f] = call[c][f]
      BY <3>1, <3>2, <1>1 DEF StateOK
    <3>4. certFile \in 1 .. made
      BY <1>7, <1>3 DEF validatePrivateRoot
    <3>5. call[c].purpose \notin {"crl", "backup"}
      BY <1>7, <1>1, <1>2 DEF StateOK, Is, Idle
    <3> QED
      BY <1>1, <1>2, <3>2, <3>3, <3>4, <3>5 DEF StateOK, Steps, Purposes
  <2> HIDE DEF s
  <2> QED
    BY <1>1, <1>4, <1>5, <2>1, <2>2, <2>3, TStep DEF TInv
<1>8. CASE ~create /\ ~(valid /\ ~Is(c, "crl"))
  <2>1. Goto(c, Idle) /\ made' = made
    BY <1>8 DEF LoadCert
  <2> QED
    BY <1>1, <1>4, <1>5, <2>1, TStep DEF TInv
<1> QED
  BY <1>6, <1>7, <1>8

LEMMA TInstall ==
  ASSUME TInv, NEW c \in Calls, Install(c)
  PROVE  TInv'
<1>1. call[c].at = "install" /\ call[c].root \in 1 .. made
  BY Under DEF Install, StateOK
<1>2. Goto(c, Idle) /\ made' = made /\ issuer' = call[c].root /\ blame' \subseteq {"overlap", "fault"}
      /\ UNCHANGED << keyFile, certFile, disabled, backup, leaf, made, vouched, unlisted >>
  BY DEF Install, Leave, TInv, files
<1>3. made \in Nat /\ issuer' # 0
  BY <1>1, <1>2 DEF TInv
<1>4. call' = [d \in Calls |-> call'[d]] /\ \A d \in Calls : CallOK(d)'
  BY <1>2, <1>3, CallStep
<1>5. call'["boot"] = Idle
  BY <1>2, <1>1, CallsFacts, GotoFacts, Under DEF TInv
<1>6. certFile # 0
  BY <1>1, Under DEF TInv
<1> QED
  BY <1>1, <1>2, <1>3, <1>4, <1>5, <1>6 DEF TInv

\* A step that leaves the requests alone.
LEMMA TLeaf ==
  ASSUME TInv, leaf' \in [Jobs -> Leaves(made)], disabled' \in BOOLEAN,
         UNCHANGED << keyFile, certFile, backup, issuer, call, made, blame, vouched, unlisted >>
  PROVE  TInv'
  BY DEF TInv, CallOK

LEMMA TDisabled ==
  ASSUME TInv, NEW c \in Admins, NEW off \in BOOLEAN, SetPrivateRootDisabled(c, off)
  PROVE  TInv'
<1>1. leaf' \in [Jobs -> Leaves(made)]
  <2>1. ASSUME NEW j \in Jobs PROVE leaf'[j] \in Leaves(made)
    <3>1. leaf[j] \in Leaves(made)
      BY DEF TInv
    <3>2. leaf'[j] = IF leaf[j].at = "called" /\ ~off THEN [leaf[j] EXCEPT !.open = TRUE] ELSE leaf[j]
      BY DEF SetPrivateRootDisabled
    <3> QED
      BY <3>1, <3>2 DEF Leaves, NoLeaf
  <2> QED
    BY <2>1 DEF SetPrivateRootDisabled
<1> QED
  BY <1>1, TLeaf DEF SetPrivateRootDisabled

LEMMA TCompareBackup ==
  ASSUME TInv, NEW c \in Admins, CompareBackup(c)
  PROVE  TInv'
<1> DEFINE s == [at |-> "record", purpose |-> "backup", root |-> certFile]
<1>1. c \in Calls /\ c # "boot" /\ issuer # 0 /\ Goto(c, s)
  BY CallsFacts DEF CompareBackup, Free, Serving
<1>2. certFile \in 1 .. made
  BY <1>1 DEF TInv
<1>3. StateOK(c, s, made) /\ s.at = "record"
  BY <1>1, <1>2 DEF StateOK, Steps, Purposes
<1>4. vouched' \subseteq 1 .. made
  BY <1>2 DEF CompareBackup, TInv
<1> HIDE DEF s
<1> QED
  BY <1>1, <1>3, <1>4, TStep DEF CompareBackup, TInv, files

LEMMA TRecordBackup ==
  ASSUME TInv, NEW c \in Admins, RecordBackup(c)
  PROVE  TInv'
<1>1. c \in Calls /\ c # "boot" /\ issuer # 0 /\ StateOK(c, call[c], made)
  BY CallsFacts, Under DEF RecordBackup
<1>2. Goto(c, Idle) /\ backup' \in 0 .. made
  BY <1>1 DEF RecordBackup, Leave, StateOK, TInv
<1> QED
  BY <1>1, <1>2, TStep DEF RecordBackup, TInv

LEMMA TCollectRevoked ==
  ASSUME TInv, NEW c \in Admins, CollectRevoked(c)
  PROVE  TInv'
<1> DEFINE s == [at |-> "load", purpose |-> "crl", owed |-> RevokedCertificatePEMs]
<1>1. c \in Calls /\ c # "boot" /\ issuer # 0 /\ Goto(c, s)
  BY CallsFacts DEF CollectRevoked, Free, Serving
<1>2. StateOK(c, s, made) /\ s.at = "load"
  BY <1>1 DEF StateOK, Steps, Purposes, RevokedCertificatePEMs
<1> HIDE DEF s
<1> QED
  BY <1>1, <1>2, TStep DEF CollectRevoked, TInv, files

LEMMA TPutLeaf ==
  ASSUME TInv, NEW j \in Jobs, NEW l \in Leaves(made), PutLeaf(j, l)
  PROVE  TInv'
<1>1. leaf' \in [Jobs -> Leaves(made)] /\ disabled' \in BOOLEAN
  BY DEF PutLeaf, TInv, files
<1> QED
  BY <1>1, TLeaf DEF PutLeaf, files

LEMMA TManager ==
  ASSUME TInv, NEW j \in Jobs, CallIssuer(j) \/ CheckDisabled(j) \/ Issue(j) \/ Revoke(j)
  PROVE  TInv'
<1>1. leaf[j] \in Leaves(made) /\ disabled \in BOOLEAN /\ NoLeaf \in Leaves(made)
  BY DEF TInv, Leaves
<1>2. ASSUME NEW a \in {"called", "allowed", "issued", "revoked"}, leaf[j].at # "none"
      PROVE  [leaf[j] EXCEPT !.at = a] \in Leaves(made)
  BY <1>1, <1>2 DEF Leaves, NoLeaf
<1>3. CASE CallIssuer(j)
  <2>1. issuer \in 1 .. made
    BY <1>3 DEF CallIssuer, Serving, TInv
  <2>2. [at |-> "called", root |-> issuer, open |-> ~disabled, fresh |-> Swaps = {}] \in Leaves(made)
    BY <2>1, <1>1 DEF Leaves
  <2> QED
    BY <1>3, <2>2, TPutLeaf DEF CallIssuer
<1>4. CASE CheckDisabled(j)
  <2>1. [leaf[j] EXCEPT !.at = "allowed"] \in Leaves(made)
    BY <1>2, <1>4 DEF CheckDisabled
  <2> QED
    BY <1>4, <1>1, <2>1, TPutLeaf DEF CheckDisabled
<1>5. CASE Issue(j)
  <2>1. [leaf[j] EXCEPT !.at = "issued"] \in Leaves(made)
    BY <1>2, <1>5 DEF Issue
  <2> QED
    BY <1>5, <2>1, TPutLeaf DEF Issue
<1>6. CASE Revoke(j)
  <2>1. [leaf[j] EXCEPT !.at = "revoked"] \in Leaves(made)
    BY <1>2, <1>6 DEF Revoke
  <2> QED
    BY <1>6, <2>1, TPutLeaf DEF Revoke
<1> QED
  BY <1>3, <1>4, <1>5, <1>6

LEMMA TCrash ==
  ASSUME TInv, Crash
  PROVE  TInv'
<1>1. call'["boot"] = Boot /\ \A c \in Admins : call'[c] = Idle
  BY CallsFacts DEF Crash
<1>2. \A c \in Calls : CallOK(c)'
  <2>1. StateOK("boot", Boot, made')
    BY DEF StateOK, Boot, Steps, Purposes
  <2> QED
    BY <1>1, <2>1 DEF Calls, CallOK
<1>3. call' = [c \in Calls |-> call'[c]]
  BY DEF Crash
<1>4. leaf' \in [Jobs -> Leaves(made)]
  BY DEF Crash, TInv, Leaves
<1>5. UNCHANGED << keyFile, certFile, disabled, backup, made, vouched, unlisted >> /\ issuer' = 0
  BY DEF Crash, files
<1>6. blame' \subseteq {"overlap", "fault"} /\ 0 \in 0 .. made
  BY DEF Crash, TInv
<1>7. call'["boot"].at # "install"
  BY <1>1 DEF Boot
<1> QED
  BY <1>1, <1>2, <1>3, <1>4, <1>5, <1>6, <1>7 DEF TInv

LEMMA TNext == TInv /\ [Next]_vars => TInv'
<1> SUFFICES ASSUME TInv, [Next]_vars PROVE TInv'
  OBVIOUS
<1>1. ASSUME NEW c \in Calls, NEW written \in BOOLEAN, WriteKey(c, written) \/ WriteCert(c, written) PROVE TInv'
  BY <1>1, TWriteKey, TWriteCert
<1>2. ASSUME NEW c \in Calls, LoadKey(c) \/ LoadCert(c) \/ Install(c) PROVE TInv'
  BY <1>2, TLoadKey, TLoadCert, TInstall
<1>3. ASSUME NEW c \in Admins, RotatePrivateRoot(c) PROVE TInv'
  <2>1. made \in Nat /\ made' = made + 1 /\ made' \in 1 .. MaxRoots /\ Swap(c, made')
    BY <1>3, PrivateCAAssumption DEF RotatePrivateRoot, TInv
  <2> QED
    BY <2>1, TSwap
<1>4. ASSUME NEW c \in Admins, ImportPrivateRoot(c) PROVE TInv'
  <2>1. PICK root \in 1 .. MaxRoots :
          made' = (IF root > made THEN made + 1 ELSE made) /\ root <= made' /\ Swap(c, root)
    BY <1>4 DEF ImportPrivateRoot
  <2>2. made \in Nat /\ made' \in {made, made + 1} /\ made' <= MaxRoots
    BY <2>1, PrivateCAAssumption DEF TInv
  <2> QED
    BY <2>1, <2>2, TSwap
<1>5. ASSUME NEW c \in Admins, NEW off \in BOOLEAN, SetPrivateRootDisabled(c, off) PROVE TInv'
  BY <1>5, TDisabled
<1>6. ASSUME NEW c \in Admins, CompareBackup(c) \/ RecordBackup(c) \/ CollectRevoked(c) PROVE TInv'
  BY <1>6, TCompareBackup, TRecordBackup, TCollectRevoked
<1>7. ASSUME NEW j \in Jobs, CallIssuer(j) \/ CheckDisabled(j) \/ Issue(j) \/ Revoke(j) PROVE TInv'
  BY <1>7, TManager
<1>8. CASE Crash
  BY <1>8, TCrash
<1>9. CASE UNCHANGED vars
  BY <1>9, TLeaf DEF vars, files, TInv
<1> QED
  BY <1>1, <1>2, <1>3, <1>4, <1>5, <1>6, <1>7, <1>8, <1>9 DEF Next

\* The files, the issuer and the certificates name roots that were made, and
\* no request is at a step it cannot be at.
THEOREM TypeCorrect == Spec => []TypeOK
<1>1. TInv => TypeOK
  BY DEF TInv, TypeOK, CallOK, StateOK, Steps, Idle, Leaves
<1> QED
  BY <1>1, TInit, TNext, PTL DEF Spec

-----------------------------------------------------------------------------
(* Backups and disabling *)

\* Only fingerprints an operator named are recorded, now or in a step to come.
BInv ==
  /\ backup # 0 => backup \in vouched
  /\ \A c \in Calls : call[c].at = "record" => call[c].root \in vouched

\* A step of a request that records nothing.
LEMMA BStep ==
  ASSUME TInv, BInv, NEW c \in Calls, NEW s, Goto(c, s),
         s.at # "record", UNCHANGED << backup, vouched >>
  PROVE  BInv'
  BY GotoFacts DEF BInv

LEMMA BNext == TInv /\ BInv /\ [Next]_vars => BInv'
<1> SUFFICES ASSUME TInv, BInv, [Next]_vars PROVE BInv'
  OBVIOUS
<1>1. ASSUME NEW c \in Calls, NEW written \in BOOLEAN, WriteKey(c, written) PROVE BInv'
  <2>1. StateOK(c, call[c], made)
    BY <1>1, Under DEF WriteKey
  <2>2. [call[c] EXCEPT !.at = "cert"].at # "record" /\ Idle.at # "record"
    BY <2>1 DEF StateOK, Idle
  <2> QED
    BY <1>1, <2>2, BStep DEF WriteKey, Leave
<1>2. ASSUME NEW c \in Calls, NEW written \in BOOLEAN, WriteCert(c, written) PROVE BInv'
  <2> DEFINE t == [call[c] EXCEPT !.at = IF c = "boot" THEN "install" ELSE "load"]
  <2>1. StateOK(c, call[c], made)
    BY <1>2, Under DEF WriteCert
  <2>2. t.at # "record" /\ Idle.at # "record"
    BY <2>1 DEF StateOK, Idle
  <2>3. Goto(c, t) \/ Goto(c, Idle)
    BY <1>2 DEF WriteCert, Leave
  <2> HIDE DEF t
  <2> QED
    BY <1>2, <2>2, <2>3, BStep DEF WriteCert
<1>3. ASSUME NEW c \in Calls, LoadKey(c) PROVE BInv'
  <2> DEFINE t == [call[c] EXCEPT !.at = "pair"]
             s == With(t, "key", keyFile)
  <2>1. StateOK(c, call[c], made)
    BY <1>3, Under DEF LoadKey
  <2>2. s.at # "record"
    BY <2>1 DEF StateOK, With
  <2>3. Goto(c, s)
    BY <1>3 DEF LoadKey
  <2> HIDE DEF s
  <2> QED
    BY <1>3, <2>2, <2>3, BStep DEF LoadKey, files
<1>4. ASSUME NEW c \in Calls, LoadCert(c) PROVE BInv'
  <2> DEFINE n == [at |-> "key", purpose |-> "boot", root |-> made + 1]
             t == [call[c] EXCEPT !.at = "install"]
             s == With(t, "root", certFile)
             create == c = "boot" /\ call[c].key = 0 /\ certFile = 0
             valid == validatePrivateRoot(call[c].key, certFile) /\ ~Is(c, "crl")
  <2>1. StateOK(c, call[c], made)
    BY <1>4, Under DEF LoadCert
  <2>2. s.at # "record" /\ n.at # "record" /\ Idle.at # "record"
    BY <2>1 DEF StateOK, With, Idle
  <2>3. PICK next : Goto(c, next) /\ next = (CASE create -> n [] valid -> s [] OTHER -> Idle)
    BY <1>4 DEF LoadCert
  <2>4. ~(create /\ valid)
    BY DEF validatePrivateRoot
  <2>5. next \in {n, s, Idle}
    BY <2>3, <2>4
  <2> HIDE DEF n, s
  <2> QED
    BY <1>4, <2>2, <2>3, <2>5, BStep DEF LoadCert, files
<1>5. ASSUME NEW c \in Calls, Install(c) PROVE BInv'
  BY <1>5, BStep DEF Install, Leave, Idle, files
<1>6. ASSUME NEW c \in Admins, NEW root, Swap(c, root) PROVE BInv'
  <2>1. ASSUME NEW d \in Calls, call'[d].at = "record" PROVE call[d].at = "record" /\ call'[d].root = call[d].root
    <3>1. CASE d = c
      BY <3>1, <2>1, <1>6 DEF Swap
    <3>2. CASE d # c /\ d \in Swaps
      <4>1. StateOK(d, call[d], made)
        BY <3>2 DEF TInv, CallOK, Swaps, Is
      <4>2. call'[d] = [call[d] EXCEPT !.alone = FALSE]
        BY <3>2, <1>6 DEF Swap
      <4> QED
        BY <4>1, <4>2, <2>1, <3>2 DEF StateOK, Swaps, Is
    <3>3. CASE d # c /\ d \notin Swaps
      BY <3>3, <2>1, <1>6 DEF Swap
    <3> QED
      BY <3>1, <3>2, <3>3
  <2> QED
    BY <1>6, <2>1 DEF Swap, BInv, files
<1>7. ASSUME NEW c \in Admins, CompareBackup(c) PROVE BInv'
  <2>1. c \in Calls /\ Goto(c, [at |-> "record", purpose |-> "backup", root |-> certFile])
    BY <1>7, CallsFacts DEF CompareBackup
  <2>2. certFile \in vouched' /\ vouched \subseteq vouched' /\ backup' = backup
    BY <1>7 DEF CompareBackup, files
  <2> QED
    BY <2>1, <2>2, GotoFacts DEF BInv
<1>8. ASSUME NEW c \in Admins, RecordBackup(c) PROVE BInv'
  <2>1. c \in Calls /\ Goto(c, Idle) /\ backup' = call[c].root /\ call[c].at = "record" /\ vouched' = vouched
    BY <1>8, CallsFacts DEF RecordBackup, Leave
  <2> QED
    BY <2>1, GotoFacts DEF BInv, Idle
<1>9. ASSUME NEW c \in Admins, CollectRevoked(c) PROVE BInv'
  <2>1. c \in Calls
    BY CallsFacts
  <2> QED
    BY <1>9, <2>1, BStep DEF CollectRevoked, files
<1>10. CASE Crash
  BY <1>10 DEF Crash, BInv, Boot, Idle, files
<1>11. CASE UNCHANGED << backup, call, vouched >>
  BY <1>11 DEF BInv
<1> QED
  BY <1>1, <1>2, <1>3, <1>4, <1>5, <1>6, <1>7, <1>8, <1>9, <1>10, <1>11
  DEF Next, RotatePrivateRoot, ImportPrivateRoot, SetPrivateRootDisabled, CallIssuer, CheckDisabled,
      Issue, Revoke, PutLeaf, vars, files

\* The root is shown as backed up only when an operator named its fingerprint,
\* however comparisons, records and swaps interleave (RecordPrivateRootBackup).
THEOREM BackupIsHonest == Spec => []BackupHonest
<1>1. Init => BInv
  BY DEF Init, BInv, Boot, Idle
<1>2. TInv /\ BInv => BackupHonest
  BY DEF BInv, BackupHonest, privateRootBackupStatus
<1> QED
  BY <1>1, <1>2, TInit, TNext, BNext, PTL DEF Spec

\* An issuance that has passed the check met an enabled root before it.
DInv == \A j \in Jobs :
  /\ leaf[j].at \in {"allowed", "issued"} => leaf[j].open
  /\ leaf[j].at = "called" /\ ~disabled => leaf[j].open

LEMMA DNext == TInv /\ DInv /\ [Next]_vars => DInv'
<1> SUFFICES ASSUME TInv, DInv, [Next]_vars PROVE DInv'
  OBVIOUS
<1>0. \A j \in Jobs : leaf[j] \in Leaves(made)
  BY DEF TInv
<1>1. ASSUME NEW j \in Jobs, CallIssuer(j) \/ CheckDisabled(j) \/ Issue(j) \/ Revoke(j) PROVE DInv'
  <2>1. PICK l : PutLeaf(j, l) /\ (l.at \in {"allowed", "issued"} => l.open)
                               /\ (l.at = "called" /\ ~disabled => l.open)
    <3>1. CASE CallIssuer(j)
      <4> DEFINE l == [at |-> "called", root |-> issuer, open |-> ~disabled, fresh |-> Swaps = {}]
      <4>1. PutLeaf(j, l)
        BY <3>1 DEF CallIssuer
      <4>2. l.at = "called" /\ l.open = ~disabled
        OBVIOUS
      <4> HIDE DEF l
      <4> QED
        BY <4>1, <4>2
    <3>2. CASE CheckDisabled(j)
      BY <3>2, <1>0 DEF CheckDisabled, DInv, NoLeaf, Leaves
    <3>3. CASE Issue(j)
      BY <3>3, <1>0 DEF Issue, DInv, NoLeaf, Leaves
    <3>4. CASE Revoke(j)
      BY <3>4, <1>0 DEF Revoke, DInv, NoLeaf, Leaves
    <3> QED
      BY <1>1, <3>1, <3>2, <3>3, <3>4
  <2> QED
    BY <2>1 DEF PutLeaf, DInv, TInv, files
<1>2. ASSUME NEW c \in Admins, NEW root, Swap(c, root) PROVE DInv'
  <2>1. disabled' = disabled
    BY <1>2 DEF Swap, files
  <2>2. ASSUME NEW j \in Jobs
        PROVE  leaf'[j].at = leaf[j].at /\ (leaf[j] # NoLeaf => leaf'[j].open = leaf[j].open)
    BY <1>2, <1>0 DEF Swap, Leaves, NoLeaf
  <2> QED
    BY <2>1, <2>2 DEF DInv, NoLeaf
<1>3. ASSUME NEW c \in Admins, NEW off \in BOOLEAN, SetPrivateRootDisabled(c, off) PROVE DInv'
  <2>1. ASSUME NEW j \in Jobs
        PROVE  leaf'[j] = IF leaf[j].at = "called" /\ ~off THEN [leaf[j] EXCEPT !.open = TRUE] ELSE leaf[j]
    BY <1>3 DEF SetPrivateRootDisabled
  <2>2. disabled' = off
    BY <1>3 DEF SetPrivateRootDisabled
  <2>3. ASSUME NEW j \in Jobs
        PROVE  /\ leaf'[j].at = leaf[j].at
               /\ leaf[j].at = "called" /\ ~off => leaf'[j].open
               /\ leaf[j].at # "called" => leaf'[j] = leaf[j]
    <3>1. CASE leaf[j].at = "called" /\ ~off
      <4>1. leaf[j] # NoLeaf
        BY <3>1 DEF NoLeaf
      <4>2. /\ leaf[j] \in [at : {"called", "allowed", "issued", "revoked"}, root : 1 .. made,
                            open : BOOLEAN, fresh : BOOLEAN]
            /\ leaf'[j] = [leaf[j] EXCEPT !.open = TRUE]
        BY <3>1, <4>1, <2>1, <1>0 DEF Leaves
      <4> QED
        BY <3>1, <4>2
    <3>2. CASE ~(leaf[j].at = "called" /\ ~off)
      BY <3>2, <2>1
    <3> QED
      BY <3>1, <3>2
  <2> QED
    BY <2>2, <2>3 DEF DInv
<1>4. CASE Crash
  BY <1>4 DEF Crash, DInv, NoLeaf, files
<1>5. CASE UNCHANGED << leaf, disabled >>
  BY <1>5 DEF DInv
<1> QED
  BY <1>1, <1>2, <1>3, <1>4, <1>5
  DEF Next, RotatePrivateRoot, ImportPrivateRoot, WriteKey, WriteCert, LoadKey, LoadCert, Install,
      CompareBackup, RecordBackup, CollectRevoked, vars, files

\* While a root is disabled, from an issuance's call to its check, nothing is
\* signed, whatever is imported, rotated or restarted ((*PrivateRootIssuer).Issue).
THEOREM DisabledIsKept == Spec => []DisabledHolds
<1>1. Init => DInv
  BY DEF Init, DInv, NoLeaf
<1>2. DInv => DisabledHolds
  BY DEF DInv, DisabledHolds
<1> QED
  BY <1>1, <1>2, TInit, TNext, DNext, PTL DEF Spec

-----------------------------------------------------------------------------
(* The two files and the issuer *)

\* What a swap that is alone has written when it is at its step.
FilesAt(c) ==
  /\ call[c].at = "cert" => keyFile = call[c].root
  /\ call[c].at \in {"load", "pair", "install"} => keyFile = call[c].root /\ certFile = call[c].root
  /\ call[c].at = "pair" => call[c].key = call[c].root

\* What the process finds when it starts, and what it writes then.
BootFiles ==
  /\ call["boot"].at \in {"load", "pair"} => keyFile = certFile
  /\ call["boot"].at = "pair" => call["boot"].key = keyFile
  /\ call["boot"].at = "cert" => keyFile = call["boot"].root /\ certFile = 0
  /\ call["boot"].at = "install" => keyFile = call["boot"].root /\ certFile = call["boot"].root
  /\ call["boot"].at = "key" \/ (call["boot"].at = "idle" /\ issuer = 0) => keyFile = 0 /\ certFile = 0

\* A swap that is alone is the only one; when nothing is to blame, every swap
\* is alone and the files are those of one root unless one has been written.
Unwritten == \A c \in Swaps : call[c].at = "key"

RInv ==
  /\ \A c \in Swaps : call[c].alone => Swaps = {c} /\ FilesAt(c)
  /\ blame = {} => /\ \A c \in Swaps : call[c].alone
                   /\ BootFiles
                   /\ issuer # 0 /\ Unwritten => keyFile = certFile /\ issuer = certFile

\* The swaps after a step of one request.
LEMMA SwapsStep ==
  ASSUME TInv, NEW c \in Calls, NEW s, Goto(c, s)
  PROVE  /\ \A d \in Admins : d # c => (d \in Swaps' <=> d \in Swaps)
         /\ c \in Swaps' <=> c \in Admins /\ s # Idle /\ s.purpose = "swap"
  BY GotoFacts DEF Swaps, Is, Calls

\* A request of an administrator that swaps nothing.
LEMMA RQuiet ==
  ASSUME TInv, RInv, NEW c \in Admins, c \notin Swaps, NEW s, Goto(c, s),
         s = Idle \/ s.purpose # "swap", UNCHANGED << keyFile, certFile, issuer, blame >>
  PROVE  RInv'
<1>1. c \in Calls /\ c # "boot" /\ "boot" \in Calls
  BY CallsFacts
<1>2. Swaps' = Swaps
  BY <1>1, SwapsStep DEF Swaps
<1>3. \A d \in Swaps : d # c /\ d \in Calls /\ call'[d] = call[d]
  BY <1>1, GotoFacts, CallsFacts DEF Swaps
<1>4. call'["boot"] = call["boot"]
  BY <1>1, GotoFacts
<1>5. \A d \in Swaps : FilesAt(d) => FilesAt(d)'
  BY <1>3 DEF FilesAt
<1>6. BootFiles => BootFiles'
  BY <1>4 DEF BootFiles
<1>7. Unwritten' => Unwritten
  BY <1>2, <1>3 DEF Unwritten
<1> QED
  BY <1>2, <1>3, <1>5, <1>6, <1>7 DEF RInv

\* A step of a swap.
LEMMA RStep ==
  ASSUME TInv, RInv, NEW c \in Swaps, NEW s, Goto(c, s), issuer' # 0,
         s = Idle \/ (s # Idle /\ s.at # "idle" /\ s.purpose = "swap" /\ s.alone = call[c].alone),
         call[c].alone => /\ s # Idle => FilesAt(c)'
                          /\ blame' = {} /\ (s = Idle \/ s.at = "key") => keyFile' = certFile' /\ issuer' = certFile',
         ~call[c].alone => blame' # {}
  PROVE  RInv'
<1>1. c \in Admins /\ c \in Calls /\ c # "boot" /\ "boot" \in Calls
  BY CallsFacts DEF Swaps
<1>2. issuer # 0 /\ call["boot"] = Idle
  BY <1>1 DEF TInv, Swaps, Is
<1>3. call'["boot"] = Idle
  BY <1>1, <1>2, GotoFacts
<1>4. BootFiles'
  BY <1>3 DEF BootFiles, Idle
<1>5. call'[c] = s /\ (c \in Swaps' <=> s # Idle)
  BY <1>1, SwapsStep, GotoFacts
<1>6. CASE call[c].alone
  <2>1. Swaps = {c}
    BY <1>6 DEF RInv
  <2>2. Swaps' = IF s = Idle THEN {} ELSE {c}
    BY <2>1, <1>1, <1>5, SwapsStep DEF Swaps
  <2>3. \A d \in Swaps' : d = c /\ call'[d] = s /\ s # Idle /\ s.alone
    BY <2>2, <1>5, <1>6
  <2>4. Unwritten' => s = Idle \/ s.at = "key"
    BY <2>2, <1>5 DEF Unwritten
  <2>5. \A d \in Swaps' : call'[d].alone /\ Swaps' = {d} /\ FilesAt(d)'
    BY <2>2, <2>3, <1>6
  <2> QED
    BY <2>4, <2>5, <1>4, <1>6 DEF RInv
<1>7. CASE ~call[c].alone
  <2>1. ASSUME NEW d \in Swaps' PROVE ~call'[d].alone
    <3>1. CASE d = c
      BY <3>1, <2>1, <1>5, <1>7
    <3>2. CASE d # c
      <4>1. d \in Admins /\ d \in Calls
        BY CallsFacts DEF Swaps
      <4>2. d \in Swaps /\ call'[d] = call[d]
        BY <4>1, <3>2, <1>1, SwapsStep, GotoFacts
      <4> QED
        BY <4>2, <3>2 DEF RInv
    <3> QED
      BY <3>1, <3>2
  <2> QED
    BY <2>1, <1>7 DEF RInv
<1> QED
  BY <1>6, <1>7

\* A step of the start of the process.
LEMMA RBoot ==
  ASSUME TInv, RInv, call["boot"] # Idle, NEW s, Goto("boot", s),
         blame' = {} => BootFiles' /\ (issuer' # 0 => keyFile' = certFile' /\ issuer' = certFile')
  PROVE  RInv'
<1>1. "boot" \in Calls /\ "boot" \notin Admins
  BY PrivateCAAssumption DEF Calls
<1>2. issuer = 0 /\ Swaps = {}
  BY <1>1 DEF TInv, Swaps, Is
<1>3. Swaps' = {}
  BY <1>1, <1>2, SwapsStep DEF Swaps
<1> QED
  BY <1>3 DEF RInv

\* The requests under way are those of a swap, of the start or quiet ones.
LEMMA Kinds ==
  ASSUME TInv, NEW c \in Calls, call[c].at # "idle"
  PROVE  /\ StateOK(c, call[c], made)
         /\ call[c] # Idle
         /\ \/ c = "boot" /\ c \notin Swaps /\ call[c].purpose = "boot"
            \/ c \in Swaps /\ c # "boot" /\ call[c].purpose = "swap" /\ issuer # 0
            \/ c \in Admins /\ c \notin Swaps /\ call[c].purpose \in {"crl", "backup"}
<1>1. StateOK(c, call[c], made) /\ call[c] # Idle
  BY Under DEF Idle
<1> QED
  BY <1>1, Under, CallsFacts DEF StateOK, Swaps, Is, Calls, Purposes

LEMMA RNext == TInv /\ RInv /\ [Next]_vars => RInv'
<1> SUFFICES ASSUME TInv, RInv, [Next]_vars PROVE RInv'
  OBVIOUS
<1>1. ASSUME NEW c \in Calls, NEW written \in BOOLEAN, WriteKey(c, written) PROVE RInv'
  <2> DEFINE s == IF written THEN [call[c] EXCEPT !.at = "cert"] ELSE Idle
  <2>1. call[c].at = "key" /\ Goto(c, s) /\ issuer' = issuer /\ certFile' = certFile /\ blame' = blame
    BY <1>1 DEF WriteKey, Leave
  <2>2. keyFile' = IF written THEN call[c].root ELSE keyFile
    BY <1>1 DEF WriteKey
  <2>3. call'[c] = s /\ StateOK(c, call[c], made)
    BY <2>1, Kinds, GotoFacts
  <2>4. s # Idle => written /\ s.at = "cert" /\ s.purpose = call[c].purpose /\ s.root = call[c].root
                    /\ (call[c].purpose = "swap" => s.alone = call[c].alone)
    BY <2>3 DEF StateOK
  <2>5. s = Idle => ~written
    BY <2>3 DEF StateOK, Idle
  <2> HIDE DEF s
  <2>6. CASE c = "boot"
    <3>1. blame = {} => keyFile = 0 /\ certFile = 0
      BY <2>1, <2>6 DEF RInv, BootFiles
    <3>2. issuer = 0
      BY <2>1, <2>6, Under
    <3>3. blame' = {} => BootFiles'
      BY <3>1, <3>2, <2>1, <2>2, <2>3, <2>4, <2>5, <2>6 DEF BootFiles, Idle
    <3> QED
      BY <3>2, <3>3, <2>1, <2>6, RBoot DEF Idle
  <2>7. CASE c \in Swaps
    <3>1. issuer # 0 /\ call[c].purpose = "swap"
      BY <2>7, <2>1, Kinds
    <3>2. call[c].alone => (s # Idle => FilesAt(c)')
      BY <2>2, <2>3, <2>4 DEF FilesAt
    <3>3. call[c].alone /\ blame' = {} /\ (s = Idle \/ s.at = "key") => keyFile' = certFile' /\ issuer' = certFile'
      <4>1. call[c].alone => Unwritten
        BY <2>1, <2>7 DEF RInv, Unwritten
      <4> QED
        BY <4>1, <3>1, <2>1, <2>2, <2>4, <2>5 DEF RInv
    <3>4. ~call[c].alone => blame' # {}
      BY <2>1, <2>7 DEF RInv
    <3> QED
      BY <3>1, <3>2, <3>3, <3>4, <2>1, <2>4, <2>7, RStep
  <2>8. CASE c \notin Swaps /\ c # "boot"
    BY <2>8, <2>1, <2>3, Kinds DEF StateOK
  <2> QED
    BY <2>6, <2>7, <2>8
<1>2. ASSUME NEW c \in Calls, NEW written \in BOOLEAN, WriteCert(c, written) PROVE RInv'
  <2> DEFINE s == IF written THEN [call[c] EXCEPT !.at = IF c = "boot" THEN "install" ELSE "load"] ELSE Idle
  <2>1. call[c].at = "cert" /\ Goto(c, s) /\ issuer' = issuer /\ keyFile' = keyFile
    BY <1>2 DEF WriteCert, Leave
  <2>2. /\ certFile' = IF written THEN call[c].root ELSE certFile
        /\ blame' = IF written THEN blame ELSE blame \cup {"fault"}
    BY <1>2 DEF WriteCert
  <2>3. call'[c] = s /\ StateOK(c, call[c], made)
    BY <2>1, Kinds, GotoFacts
  <2>4. s # Idle => written /\ s.at = (IF c = "boot" THEN "install" ELSE "load") /\ s.purpose = call[c].purpose
                    /\ s.root = call[c].root /\ (call[c].purpose = "swap" => s.alone = call[c].alone)
    BY <2>3 DEF StateOK
  <2>5. s = Idle => ~written
    BY <2>3 DEF StateOK, Idle
  <2> HIDE DEF s
  <2>6. CASE c = "boot"
    <3>1. blame = {} => keyFile = call[c].root
      BY <2>1, <2>6 DEF RInv, BootFiles
    <3>2. issuer = 0
      BY <2>1, <2>6, Under
    <3>3. blame' = {} => BootFiles'
      BY <3>1, <3>2, <2>1, <2>2, <2>3, <2>4, <2>5, <2>6 DEF BootFiles, Idle
    <3> QED
      BY <3>2, <3>3, <2>1, <2>6, RBoot DEF Idle
  <2>7. CASE c \in Swaps
    <3>1. issuer # 0 /\ call[c].purpose = "swap" /\ c # "boot"
      BY <2>7, <2>1, Kinds
    <3>2. call[c].alone => keyFile = call[c].root
      BY <2>1, <2>7 DEF RInv, FilesAt
    <3>3. call[c].alone => (s # Idle => FilesAt(c)')
      BY <3>1, <3>2, <2>1, <2>2, <2>3, <2>4 DEF FilesAt
    <3>4. blame' = {} => ~(s = Idle \/ s.at = "key")
      BY <3>1, <2>2, <2>4, <2>5
    <3>5. ~call[c].alone => blame' # {}
      BY <2>2, <2>7 DEF RInv
    <3> QED
      BY <3>1, <3>3, <3>4, <3>5, <2>1, <2>4, <2>7, RStep
  <2>8. CASE c \notin Swaps /\ c # "boot"
    BY <2>8, <2>1, <2>3, Kinds DEF StateOK
  <2> QED
    BY <2>6, <2>7, <2>8
<1>3. ASSUME NEW c \in Calls, LoadKey(c) PROVE RInv'
  <2> DEFINE t == [call[c] EXCEPT !.at = "pair"]
             s == With(t, "key", keyFile)
  <2>1. /\ call[c].at = "load" /\ Goto(c, s)
        /\ UNCHANGED << keyFile, certFile, issuer, blame >>
    BY <1>3 DEF LoadKey, files
  <2>2. StateOK(c, call[c], made) /\ call'[c] = s
    BY <2>1, Kinds, GotoFacts
  <2>3. s.at = "pair" /\ s.key = keyFile /\ s.purpose = call[c].purpose
        /\ (call[c].purpose = "swap" => s.root = call[c].root /\ s.alone = call[c].alone)
    BY <2>2 DEF StateOK, With
  <2> HIDE DEF s
  <2>4. s # Idle
    BY <2>3 DEF Idle
  <2>5. CASE c = "boot"
    <3>1. issuer = 0 /\ call["boot"] # Idle
      BY <2>1, <2>5, Kinds, Under
    <3>2. blame' = {} => BootFiles'
      BY <2>1, <2>2, <2>3, <2>5 DEF RInv, BootFiles
    <3> QED
      BY <3>1, <3>2, <2>1, <2>5, RBoot
  <2>6. CASE c \in Swaps
    <3>1. issuer # 0 /\ call[c].purpose = "swap"
      BY <2>6, <2>1, Kinds
    <3>2. call[c].alone => FilesAt(c)'
      BY <3>1, <2>1, <2>2, <2>3, <2>6 DEF RInv, FilesAt
    <3>3. ~call[c].alone => blame' # {}
      BY <2>1, <2>6 DEF RInv
    <3> QED
      BY <3>1, <3>2, <3>3, <2>1, <2>3, <2>4, <2>6, RStep
  <2>7. CASE c \notin Swaps /\ c # "boot"
    BY <2>7, <2>1, <2>3, Kinds, RQuiet
  <2> QED
    BY <2>5, <2>6, <2>7
<1>4. ASSUME NEW c \in Calls, LoadCert(c) PROVE RInv'
  <2> DEFINE n == [at |-> "key", purpose |-> "boot", root |-> made + 1]
             t == [call[c] EXCEPT !.at = "install"]
             s == With(t, "root", certFile)
             create == c = "boot" /\ call[c].key = 0 /\ certFile = 0
             valid == validatePrivateRoot(call[c].key, certFile) /\ ~Is(c, "crl")
  <2>1. call[c].at = "pair" /\ UNCHANGED << keyFile, certFile, issuer, blame >>
    BY <1>4 DEF LoadCert, files
  <2>2. PICK next : Goto(c, next) /\ next = (CASE create -> n [] valid -> s [] OTHER -> Idle)
    BY <1>4 DEF LoadCert
  <2>3. StateOK(c, call[c], made) /\ call'[c] = next /\ call[c] # Idle
    BY <2>1, <2>2, Kinds, GotoFacts
  <2>4. /\ create => next = n
        /\ valid => next = s
        /\ ~create /\ ~valid => next = Idle
    BY <2>2 DEF validatePrivateRoot
  <2>5. s.at = "install" /\ s.root = certFile /\ s.purpose = call[c].purpose
        /\ (call[c].purpose = "swap" => s.alone = call[c].alone)
    BY <2>3 DEF StateOK, With
  <2>6. s # Idle
    BY <2>5 DEF Idle
  <2>7. valid <=> call[c].key = certFile /\ call[c].key # 0 /\ call[c].purpose # "crl"
    BY <2>3 DEF validatePrivateRoot, Is
  <2> HIDE DEF s, valid
  <2>8. CASE c = "boot"
    <3>1. issuer = 0 /\ call["boot"] # Idle
      BY <2>1, <2>8, Kinds, Under
    <3>2. call[c].purpose = "boot"
      BY <2>3, <2>8 DEF StateOK
    <3>3. ASSUME blame' = {} PROVE BootFiles'
      <4>1. call[c].key = keyFile /\ keyFile = certFile
        BY <2>1, <2>8, <3>3 DEF RInv, BootFiles
      <4>2. CASE create
        BY <4>1, <4>2, <2>1, <2>3, <2>4, <2>8 DEF BootFiles
      <4>3. CASE ~create
        <5>1. next = s
          BY <4>1, <4>3, <3>2, <2>4, <2>7, <2>8
        <5> QED
          BY <5>1, <4>1, <2>1, <2>3, <2>5, <2>8 DEF BootFiles
      <4> QED
        BY <4>2, <4>3
    <3> QED
      BY <3>1, <3>3, <2>1, <2>2, <2>8, RBoot
  <2>9. CASE c \in Swaps
    <3>1. issuer # 0 /\ call[c].purpose = "swap" /\ ~create
      BY <2>9, <2>1, Kinds
    <3>2. next = Idle \/ next = s
      BY <3>1, <2>4
    <3>3. ASSUME call[c].alone PROVE next = s /\ keyFile = call[c].root /\ certFile = call[c].root
      <4>1. keyFile = call[c].root /\ certFile = call[c].root /\ call[c].key = call[c].root
        BY <3>3, <2>1, <2>9 DEF RInv, FilesAt
      <4>2. call[c].root # 0
        BY <2>3, <3>1 DEF StateOK
      <4> QED
        BY <4>1, <4>2, <3>1, <2>4, <2>7
    <3>4. call[c].alone => FilesAt(c)'
      BY <3>3, <2>1, <2>3, <2>5 DEF FilesAt
    <3>5. ~call[c].alone => blame' # {}
      BY <2>1, <2>9 DEF RInv
    <3>6. Idle.at # "key" /\ s.at # "key"
      BY <2>5 DEF Idle
    <3>7. next = Idle \/ (next # Idle /\ next.at # "idle" /\ next.purpose = "swap" /\ next.alone = call[c].alone)
      BY <3>1, <3>2, <2>5, <2>6
    <3> QED
      BY <3>1, <3>3, <3>4, <3>5, <3>6, <3>7, <2>1, <2>2, <2>5, <2>6, <2>9, RStep
  <2>10. CASE c \notin Swaps /\ c # "boot"
    <3>1. c \in Admins /\ call[c].purpose \in {"crl", "backup"}
      BY <2>10, <2>1, Kinds
    <3>2. next = Idle \/ next.purpose # "swap"
      BY <3>1, <2>4, <2>5, <2>10
    <3> QED
      BY <3>1, <3>2, <2>1, <2>2, <2>10, RQuiet
  <2> QED
    BY <2>8, <2>9, <2>10
<1>5. ASSUME NEW c \in Calls, Install(c) PROVE RInv'
  <2>1. call[c].at = "install" /\ Goto(c, Idle) /\ issuer' = call[c].root /\ UNCHANGED << keyFile, certFile >>
    BY <1>5 DEF Install, Leave, files
  <2>2. blame' = IF Is(c, "swap") /\ call[c].alone THEN {} ELSE blame
    BY <1>5 DEF Install
  <2>3. StateOK(c, call[c], made) /\ call[c] # Idle /\ call'[c] = Idle
    BY <2>1, Kinds, GotoFacts
  <2>4. call[c].root # 0
    BY <2>1, <2>3 DEF StateOK
  <2>5. CASE c = "boot"
    <3>1. blame' = blame
      BY <2>2, <2>3, <2>5 DEF Is, StateOK
    <3>2. blame = {} => keyFile = call[c].root /\ certFile = call[c].root
      BY <2>1, <2>5 DEF RInv, BootFiles
    <3>3. BootFiles'
      BY <2>1, <2>3, <2>4, <2>5 DEF BootFiles, Idle
    <3> QED
      BY <3>1, <3>2, <3>3, <2>1, <2>3, <2>5, RBoot
  <2>6. CASE c \in Swaps
    <3>1. call[c].alone => keyFile = call[c].root /\ certFile = call[c].root
      BY <2>1, <2>6 DEF RInv, FilesAt
    <3>2. ~call[c].alone => blame' # {}
      BY <2>2, <2>6 DEF RInv
    <3> QED
      BY <3>1, <3>2, <2>1, <2>4, <2>6, RStep
  <2>7. CASE c \notin Swaps /\ c # "boot"
    BY <2>7, <2>1, <2>3, Kinds DEF StateOK
  <2> QED
    BY <2>5, <2>6, <2>7
<1>6. ASSUME NEW c \in Admins, NEW root, Swap(c, root) PROVE RInv'
  <2>1. /\ UNCHANGED << keyFile, certFile, issuer >> /\ issuer # 0 /\ call[c] = Idle
        /\ blame' = IF Swaps = {} THEN blame ELSE blame \cup {"overlap"}
    BY <1>6 DEF Swap, Free, Serving, files
  <2>2. c \in Calls /\ "boot" \in Calls /\ c # "boot" /\ c \notin Swaps /\ "boot" \notin Swaps
    BY <2>1, CallsFacts, PrivateCAAssumption DEF Swaps, Is
  <2>3. \A d \in Calls : call'[d] =
          IF d = c THEN [at |-> "key", purpose |-> "swap", root |-> root, alone |-> Swaps = {}]
          ELSE IF d \in Swaps THEN [call[d] EXCEPT !.alone = FALSE] ELSE call[d]
    BY <1>6 DEF Swap
  <2>4. call'[c].at = "key" /\ call'[c].alone = (Swaps = {})
    <3> DEFINE r == [at |-> "key", purpose |-> "swap", root |-> root, alone |-> Swaps = {}]
    <3>1. call'[c] = r
      BY <2>2, <2>3
    <3>2. r.at = "key" /\ r.alone = (Swaps = {})
      OBVIOUS
    <3> HIDE DEF r
    <3> QED
      BY <3>1, <3>2
  <2>5. call'["boot"] = Idle
    BY <2>1, <2>2, <2>3 DEF TInv
  <2>6. BootFiles'
    BY <2>1, <2>5 DEF BootFiles, Idle
  <2>7. CASE Swaps = {}
    <3>1. \A d \in Admins : d # c => call'[d] = call[d]
      BY <2>3, <2>7, CallsFacts
    <3>2. Swaps' \subseteq {c}
      BY <3>1, <2>7 DEF Swaps, Is
    <3>3. FilesAt(c)'
      BY <2>4 DEF FilesAt
    <3>4. Unwritten
      BY <2>7 DEF Unwritten
    <3>5. \A d \in Swaps' : call'[d].alone /\ Swaps' = {d} /\ FilesAt(d)'
      BY <3>2, <3>3, <2>4, <2>7
    <3> QED
      BY <3>4, <3>5, <2>1, <2>6, <2>7 DEF RInv
  <2>8. CASE Swaps # {}
    <3>1. ASSUME NEW d \in Swaps' PROVE ~call'[d].alone
      <4>1. d \in Admins /\ d \in Calls /\ Is(d, "swap")'
        BY CallsFacts DEF Swaps
      <4>2. CASE d = c
        BY <4>2, <2>4, <2>8
      <4>3. CASE d # c /\ d \in Swaps
        <5>1. StateOK(d, call[d], made) /\ call[d].purpose = "swap"
          BY <4>1, <4>3 DEF TInv, CallOK, Swaps, Is
        <5> QED
          BY <5>1, <4>1, <4>3, <2>3 DEF StateOK
      <4>4. CASE d # c /\ d \notin Swaps
        BY <4>1, <4>4, <2>3 DEF Swaps, Is
      <4> QED
        BY <4>2, <4>3, <4>4
    <3> QED
      BY <3>1, <2>1, <2>8 DEF RInv
  <2> QED
    BY <2>7, <2>8
<1>7. ASSUME NEW c \in Admins, CompareBackup(c) \/ CollectRevoked(c) PROVE RInv'
  <2>1. c \notin Swaps
    BY <1>7 DEF CompareBackup, CollectRevoked, Free, Swaps, Is
  <2>2. CASE CompareBackup(c)
    BY <2>1, <2>2, RQuiet DEF CompareBackup, files
  <2>3. CASE CollectRevoked(c)
    BY <2>1, <2>3, RQuiet DEF CollectRevoked, files
  <2> QED
    BY <1>7, <2>2, <2>3
<1>8. ASSUME NEW c \in Admins, RecordBackup(c) PROVE RInv'
  <2>1. c \in Calls /\ call[c].at = "record" /\ Goto(c, Idle) /\ UNCHANGED << keyFile, certFile, issuer, blame >>
    BY <1>8, CallsFacts DEF RecordBackup, Leave
  <2>2. c \notin Swaps
    BY <2>1, Kinds DEF StateOK
  <2> QED
    BY <2>1, <2>2, RQuiet
<1>9. CASE Crash
  <2>1. call' = [[c \in Calls |-> Idle] EXCEPT !["boot"] = Boot] /\ issuer' = 0 /\ UNCHANGED << keyFile, certFile >>
    BY <1>9 DEF Crash, files
  <2>2. "boot" \in Calls /\ call'["boot"] = Boot /\ \A c \in Admins : call'[c] = Idle
    BY <2>1, CallsFacts
  <2>3. Swaps' = {}
    BY <2>2 DEF Swaps, Is
  <2>4. blame' = {} => blame = {} /\ \A c \in Calls : call[c].at # "cert"
    BY <1>9 DEF Crash
  <2>5. ASSUME blame' = {} PROVE keyFile = certFile
    <3>1. CASE issuer = 0
      <4>1. BootFiles
        BY <2>4, <2>5 DEF RInv
      <4>2. call["boot"].at \in {"idle", "key", "load", "pair", "install"}
        BY <2>2, <2>4, <2>5 DEF TInv, CallOK, StateOK, Steps, Idle
      <4> QED
        BY <3>1, <4>1, <4>2 DEF BootFiles
    <3>2. CASE issuer # 0 /\ Unwritten
      BY <3>2, <2>4, <2>5 DEF RInv
    <3>3. CASE issuer # 0 /\ ~Unwritten
      <4>1. PICK c \in Swaps : call[c].at # "key"
        BY <3>3 DEF Unwritten
      <4>2. c \in Calls /\ StateOK(c, call[c], made) /\ call[c].purpose = "swap"
        BY CallsFacts DEF TInv, CallOK, Swaps, Is
      <4>3. call[c].at \in {"load", "pair", "install"}
        BY <4>1, <4>2, <2>4, <2>5 DEF StateOK, Steps
      <4> QED
        BY <4>3, <2>4, <2>5 DEF RInv, FilesAt
    <3> QED
      BY <3>1, <3>2, <3>3
  <2>6. blame' = {} => BootFiles'
    BY <2>1, <2>2, <2>5 DEF BootFiles, Boot
  <2> QED
    BY <2>1, <2>3, <2>6 DEF RInv
<1>10. CASE UNCHANGED << keyFile, certFile, issuer, call, blame >>
  BY <1>10 DEF RInv, Swaps, Is, FilesAt, BootFiles, Unwritten
<1> QED
  BY <1>1, <1>2, <1>3, <1>4, <1>5, <1>6, <1>7, <1>8, <1>9, <1>10
  DEF Next, RotatePrivateRoot, ImportPrivateRoot, SetPrivateRootDisabled, CallIssuer, CheckDisabled,
      Issue, Revoke, PutLeaf, vars, files

\* While no root is being replaced, the two files and the issuer belong to one
\* root, through crashes and failed writes, unless a certificate was left
\* unwritten or two replacements overlapped (writePrivateRoot, SetIssuer).
THEOREM FilesAreOneRoot == Spec => []OneRoot
<1>1. Init => RInv
  <2> SUFFICES ASSUME Init PROVE RInv
    OBVIOUS
  <2>1. "boot" \in Calls /\ call["boot"] = Boot /\ \A c \in Admins : call[c] = Idle
    BY CallsFacts DEF Init
  <2>2. keyFile = 0 /\ certFile = 0 /\ issuer = 0
    BY DEF Init
  <2>3. Swaps = {}
    BY <2>1 DEF Swaps, Is
  <2> QED
    BY <2>1, <2>2, <2>3 DEF RInv, BootFiles, Boot
<1>2. TInv /\ RInv => OneRoot
  <2> SUFFICES ASSUME TInv, RInv, blame = {}, Swaps = {}, ~Booting PROVE keyFile = certFile /\ issuer = certFile
    BY DEF OneRoot
  <2>1. Unwritten
    BY DEF Unwritten
  <2>2. call["boot"].at = "idle"
    BY DEF Booting, Idle
  <2> QED
    BY <2>1, <2>2 DEF RInv, BootFiles
<1> QED
  BY <1>1, <1>2, TInit, TNext, RNext, PTL DEF Spec

-----------------------------------------------------------------------------
(* Revocations in the CRL *)

Fresh == {j \in Jobs : leaf[j] # NoLeaf /\ leaf[j].fresh}

\* A swap makes every certificate one of an older root; a certificate that is
\* not has the root in the file, and only revoked ones are owed to a CRL.
VInv ==
  /\ Swaps # {} => Fresh = {}
  /\ blame = {} => \A j \in Fresh : leaf[j].root = certFile
  /\ \A j \in unlisted : leaf[j].at = "revoked"
  /\ \A c \in Calls : Is(c, "crl") => \A j \in call[c].owed : leaf[j].at = "revoked"
  /\ blame = {} => unlisted \cap Fresh = {}

\* A step of a request that leaves the certificates alone.
LEMMA VStep ==
  ASSUME TInv, VInv, NEW c \in Calls, NEW s, Goto(c, s), leaf' = leaf,
         s # Idle /\ s.purpose = "swap" => c \in Swaps,
         s # Idle /\ s.purpose = "crl" => \A j \in s.owed : leaf[j].at = "revoked",
         blame' = {} => blame = {} \/ Fresh = {},
         blame' = {} => certFile' = certFile \/ Fresh = {},
         \A j \in unlisted' : leaf[j].at = "revoked",
         blame' = {} => unlisted' \cap Fresh = {}
  PROVE  VInv'
<1>1. Fresh' = Fresh
  BY DEF Fresh
<1>2. Swaps' \subseteq Swaps
  BY SwapsStep DEF Swaps
<1>3. ASSUME NEW d \in Calls, Is(d, "crl")' PROVE \A j \in call'[d].owed : leaf'[j].at = "revoked"
  <2>1. CASE d = c
    BY <1>3, <2>1, GotoFacts DEF Is
  <2>2. CASE d # c
    BY <1>3, <2>2, GotoFacts DEF Is, VInv
  <2> QED
    BY <2>1, <2>2
<1> QED
  BY <1>1, <1>2, <1>3 DEF VInv

\* A step of one certificate.
LEMMA VLeaf ==
  ASSUME TInv, VInv, NEW j \in Jobs, NEW l, PutLeaf(j, l), leaf[j].at # "revoked",
         l # NoLeaf /\ l.fresh => Swaps = {} /\ (blame = {} => l.root = certFile)
  PROVE  VInv'
<1>1. leaf' = [leaf EXCEPT ![j] = l] /\ UNCHANGED << certFile, call, blame, unlisted >>
  BY DEF PutLeaf, files
<1>2. leaf'[j] = l /\ \A k \in Jobs : k # j => leaf'[k] = leaf[k]
  BY <1>1 DEF TInv
<1>3. Swaps' = Swaps /\ \A c : Is(c, "crl")' <=> Is(c, "crl")
  BY <1>1 DEF Swaps, Is
<1>4. Fresh' \subseteq Fresh \cup {j} /\ (j \in Fresh' => l # NoLeaf /\ l.fresh)
  BY <1>2 DEF Fresh
<1>5. j \notin unlisted /\ unlisted \subseteq Jobs
  BY DEF VInv, TInv
<1>6. ASSUME NEW c \in Calls, Is(c, "crl") PROVE j \notin call[c].owed /\ call[c].owed \subseteq Jobs
  BY <1>6 DEF VInv, TInv, CallOK, StateOK, Is
<1>7. Swaps' # {} => Fresh' = {}
  BY <1>3, <1>4 DEF VInv
<1>8. blame' = {} => \A k \in Fresh' : leaf'[k].root = certFile'
  BY <1>1, <1>2, <1>4 DEF VInv, Fresh
<1>9. \A k \in unlisted' : leaf'[k].at = "revoked"
  BY <1>1, <1>2, <1>5 DEF VInv
<1>10. \A c \in Calls : Is(c, "crl")' => \A k \in call'[c].owed : leaf'[k].at = "revoked"
  BY <1>1, <1>2, <1>3, <1>6 DEF VInv
<1>11. blame' = {} => unlisted' \cap Fresh' = {}
  BY <1>1, <1>4, <1>5 DEF VInv
<1> QED
  BY <1>7, <1>8, <1>9, <1>10, <1>11 DEF VInv

LEMMA VNext == TInv /\ RInv /\ VInv /\ [Next]_vars => VInv'
<1> SUFFICES ASSUME TInv, RInv, VInv, [Next]_vars PROVE VInv'
  OBVIOUS
<1>0. \A j \in Jobs : leaf[j] \in Leaves(made)
  BY DEF TInv
<1>1. ASSUME NEW c \in Calls, NEW written \in BOOLEAN, WriteKey(c, written) PROVE VInv'
  <2> DEFINE s == IF written THEN [call[c] EXCEPT !.at = "cert"] ELSE Idle
  <2>1. call[c].at = "key" /\ Goto(c, s) /\ UNCHANGED << leaf, certFile, blame, unlisted >>
    BY <1>1 DEF WriteKey, Leave
  <2>2. StateOK(c, call[c], made)
    BY <2>1, Kinds
  <2>3. s # Idle => s.purpose = call[c].purpose
    BY <2>2 DEF StateOK
  <2> HIDE DEF s
  <2>4. call[c].purpose # "crl" /\ (call[c].purpose = "swap" => c \in Swaps)
    BY <2>1, <2>2, Kinds DEF StateOK
  <2>5. (\A j \in unlisted : leaf[j].at = "revoked") /\ (blame = {} => unlisted \cap Fresh = {})
    BY DEF VInv
  <2> QED
    BY <2>1, <2>3, <2>4, <2>5, VStep
<1>2. ASSUME NEW c \in Calls, NEW written \in BOOLEAN, WriteCert(c, written) PROVE VInv'
  <2> DEFINE s == IF written THEN [call[c] EXCEPT !.at = IF c = "boot" THEN "install" ELSE "load"] ELSE Idle
  <2>1. call[c].at = "cert" /\ Goto(c, s) /\ UNCHANGED << leaf, unlisted >> /\ (blame' = {} => blame = {})
    BY <1>2 DEF WriteCert, Leave
  <2>2. StateOK(c, call[c], made)
    BY <2>1, Kinds
  <2>3. s # Idle => s.purpose = call[c].purpose
    BY <2>2 DEF StateOK
  <2> HIDE DEF s
  <2>4. call[c].purpose # "crl" /\ (call[c].purpose = "swap" => c \in Swaps)
    BY <2>1, <2>2, Kinds DEF StateOK
  <2>5. blame' = {} => Fresh = {}
    <3>1. CASE c \in Swaps
      BY <3>1 DEF VInv
    <3>2. CASE c = "boot"
      <4>1. blame = {} => certFile = 0
        BY <2>1, <3>2 DEF RInv, BootFiles
      <4>2. \A j \in Fresh : leaf[j].root # 0
        BY <1>0 DEF Fresh, Leaves
      <4> QED
        BY <4>1, <4>2, <2>1 DEF VInv
    <3> QED
      BY <3>1, <3>2, <2>1, <2>2, Kinds DEF StateOK
  <2>6. \A j \in unlisted : leaf[j].at = "revoked"
    BY DEF VInv
  <2> QED
    BY <2>1, <2>3, <2>4, <2>5, <2>6, VStep
<1>3. ASSUME NEW c \in Calls, LoadKey(c) PROVE VInv'
  <2> DEFINE t == [call[c] EXCEPT !.at = "pair"]
             s == With(t, "key", keyFile)
  <2>1. call[c].at = "load" /\ Goto(c, s) /\ UNCHANGED << leaf, certFile, blame, unlisted >>
    BY <1>3 DEF LoadKey, files
  <2>2. StateOK(c, call[c], made) /\ call[c] # Idle
    BY <2>1, Kinds
  <2>3. s.purpose = call[c].purpose /\ (call[c].purpose = "crl" => s.owed = call[c].owed)
    BY <2>2 DEF StateOK, With
  <2> HIDE DEF s
  <2>4. call[c].purpose = "swap" => c \in Swaps
    BY <2>1, Kinds
  <2>5. call[c].purpose = "crl" => \A j \in call[c].owed : leaf[j].at = "revoked"
    BY <2>2 DEF VInv, Is
  <2>6. (\A j \in unlisted : leaf[j].at = "revoked") /\ (blame = {} => unlisted \cap Fresh = {})
    BY DEF VInv
  <2> QED
    BY <2>1, <2>3, <2>4, <2>5, <2>6, VStep
<1>4. ASSUME NEW c \in Calls, LoadCert(c) PROVE VInv'
  <2> DEFINE n == [at |-> "key", purpose |-> "boot", root |-> made + 1]
             t == [call[c] EXCEPT !.at = "install"]
             s == With(t, "root", certFile)
             create == c = "boot" /\ call[c].key = 0 /\ certFile = 0
             valid == validatePrivateRoot(call[c].key, certFile) /\ ~Is(c, "crl")
  <2>1. /\ call[c].at = "pair" /\ UNCHANGED << leaf, certFile, blame >>
        /\ unlisted' = unlisted \/ (unlisted' = call[c].owed \ Listed(c) /\ Is(c, "crl"))
    BY <1>4 DEF LoadCert, files
  <2>2. PICK next : Goto(c, next) /\ next = (CASE create -> n [] valid -> s [] OTHER -> Idle)
    BY <1>4 DEF LoadCert
  <2>3. StateOK(c, call[c], made) /\ call[c] # Idle
    BY <2>1, Kinds
  <2>4. next \in {n, s, Idle}
    BY <2>2 DEF validatePrivateRoot
  <2>5. s.purpose = call[c].purpose
    BY <2>3 DEF StateOK, With
  <2>6. next = s => call[c].purpose # "crl"
    <3>1. s # Idle /\ (create => s # n)
      BY <2>5, <2>3 DEF StateOK, Idle, With
    <3>2. next = s => valid
      BY <2>2, <3>1
    <3> QED
      BY <3>2, <2>3 DEF Is
  <2> HIDE DEF s
  <2>7. call[c].purpose = "swap" => c \in Swaps
    BY <2>1, Kinds
  <2>8. next = Idle \/ (next.purpose \in {"boot", call[c].purpose} /\ next.purpose # "crl")
    BY <2>4, <2>5, <2>6
  <2>9. ASSUME Is(c, "crl") PROVE /\ \A j \in call[c].owed : leaf[j].at = "revoked"
                                  /\ blame = {} => (call[c].owed \ Listed(c)) \cap Fresh = {}
    BY <2>9 DEF VInv, Listed
  <2>10. (\A j \in unlisted : leaf[j].at = "revoked") /\ (blame = {} => unlisted \cap Fresh = {})
    BY DEF VInv
  <2> QED
    BY <2>1, <2>2, <2>7, <2>8, <2>9, <2>10, VStep
<1>5. ASSUME NEW c \in Calls, Install(c) PROVE VInv'
  <2>1. Goto(c, Idle) /\ UNCHANGED << leaf, certFile, unlisted >>
    BY <1>5 DEF Install, Leave, files
  <2>2. blame' = {} => blame = {} \/ Is(c, "swap")
    BY <1>5 DEF Install
  <2>3. Is(c, "swap") => Fresh = {}
    <3>1. call[c].at = "install"
      BY <1>5 DEF Install
    <3>2. Is(c, "swap") => c \in Swaps
      BY <3>1, Kinds DEF Is
    <3> QED
      BY <3>2 DEF VInv
  <2>4. (\A j \in unlisted : leaf[j].at = "revoked") /\ (blame = {} => unlisted \cap Fresh = {})
    BY DEF VInv
  <2> QED
    BY <2>1, <2>2, <2>3, <2>4, VStep
<1>6. ASSUME NEW c \in Admins, NEW root, Swap(c, root) PROVE VInv'
  <2>1. /\ leaf' = [j \in Jobs |-> IF leaf[j] = NoLeaf THEN NoLeaf ELSE [leaf[j] EXCEPT !.fresh = FALSE]]
        /\ unlisted' = unlisted /\ call[c] = Idle /\ c \in Calls
    BY <1>6, CallsFacts DEF Swap, Free
  <2>2. ASSUME NEW j \in Jobs PROVE leaf'[j].at = leaf[j].at /\ (leaf'[j] # NoLeaf => ~leaf'[j].fresh)
    BY <2>1, <1>0 DEF Leaves, NoLeaf
  <2>3. Fresh' = {}
    BY <2>2 DEF Fresh
  <2>4. ASSUME NEW d \in Calls, Is(d, "crl")'
        PROVE  Is(d, "crl") /\ call'[d].owed = call[d].owed /\ call[d].owed \subseteq Jobs
    <3>1. call'[d] = IF d = c THEN [at |-> "key", purpose |-> "swap", root |-> root, alone |-> Swaps = {}]
                     ELSE IF d \in Swaps THEN [call[d] EXCEPT !.alone = FALSE] ELSE call[d]
      BY <1>6 DEF Swap
    <3>2. CASE d = c
      BY <3>1, <3>2, <2>4 DEF Is
    <3>3. CASE d # c /\ d \in Swaps
      <4>1. StateOK(d, call[d], made) /\ call[d].purpose = "swap"
        BY <3>3 DEF TInv, CallOK, Swaps, Is
      <4>2. call'[d].purpose = "swap"
        BY <3>1, <3>3, <4>1 DEF StateOK
      <4> QED
        BY <4>2, <2>4 DEF Is
    <3>4. CASE d # c /\ d \notin Swaps
      <4>1. call'[d] = call[d]
        BY <3>1, <3>4
      <4>2. Is(d, "crl")
        BY <4>1, <2>4 DEF Is
      <4> QED
        BY <4>1, <4>2 DEF TInv, CallOK, StateOK, Is
    <3> QED
      BY <3>2, <3>3, <3>4
  <2>5. \A d \in Calls : Is(d, "crl")' => \A j \in call'[d].owed : leaf'[j].at = "revoked"
    BY <2>2, <2>4 DEF VInv
  <2>6. \A j \in unlisted' : leaf'[j].at = "revoked"
    BY <2>1, <2>2 DEF VInv, TInv
  <2> QED
    BY <2>3, <2>5, <2>6 DEF VInv
<1>7. ASSUME NEW c \in Admins, CompareBackup(c) \/ CollectRevoked(c) PROVE VInv'
  <2>1. (\A j \in unlisted : leaf[j].at = "revoked") /\ (blame = {} => unlisted \cap Fresh = {}) /\ c \in Calls
    BY CallsFacts DEF VInv
  <2>2. CASE CompareBackup(c)
    BY <2>1, <2>2, VStep DEF CompareBackup, files
  <2>3. CASE CollectRevoked(c)
    BY <2>1, <2>3, VStep DEF CollectRevoked, RevokedCertificatePEMs, files
  <2> QED
    BY <1>7, <2>2, <2>3
<1>8. ASSUME NEW c \in Admins, RecordBackup(c) PROVE VInv'
  <2>1. (\A j \in unlisted : leaf[j].at = "revoked") /\ (blame = {} => unlisted \cap Fresh = {}) /\ c \in Calls
    BY CallsFacts DEF VInv
  <2> QED
    BY <1>8, <2>1, VStep DEF RecordBackup, Leave
<1>9. ASSUME NEW c \in Admins, NEW off \in BOOLEAN, SetPrivateRootDisabled(c, off) PROVE VInv'
  <2>1. leaf' = [j \in Jobs |-> IF leaf[j].at = "called" /\ ~off THEN [leaf[j] EXCEPT !.open = TRUE] ELSE leaf[j]]
        /\ UNCHANGED << certFile, call, blame, unlisted >>
    BY <1>9 DEF SetPrivateRootDisabled
  <2>2. ASSUME NEW j \in Jobs
        PROVE  /\ leaf'[j].at = leaf[j].at /\ (leaf'[j] = NoLeaf <=> leaf[j] = NoLeaf)
               /\ leaf[j] # NoLeaf => leaf'[j].fresh = leaf[j].fresh /\ leaf'[j].root = leaf[j].root
    <3>1. CASE leaf[j].at = "called" /\ ~off
      <4>1. leaf[j] # NoLeaf
        BY <3>1 DEF NoLeaf
      <4>2. /\ leaf[j] \in [at : {"called", "allowed", "issued", "revoked"}, root : 1 .. made,
                            open : BOOLEAN, fresh : BOOLEAN]
            /\ leaf'[j] = [leaf[j] EXCEPT !.open = TRUE]
        BY <3>1, <4>1, <2>1, <1>0 DEF Leaves
      <4> QED
        BY <3>1, <4>1, <4>2 DEF NoLeaf
    <3>2. CASE ~(leaf[j].at = "called" /\ ~off)
      BY <3>2, <2>1
    <3> QED
      BY <3>1, <3>2
  <2>3. Fresh' = Fresh /\ Swaps' = Swaps /\ unlisted \subseteq Jobs
    BY <2>1, <2>2 DEF Fresh, Swaps, Is, TInv
  <2>4. \A j \in Fresh' : leaf'[j].root = leaf[j].root
    BY <2>2, <2>3 DEF Fresh
  <2>5. ASSUME NEW d \in Calls, Is(d, "crl")' PROVE \A j \in call'[d].owed : leaf'[j].at = "revoked"
    <3>1. Is(d, "crl") /\ call[d].owed \subseteq Jobs
      BY <2>1, <2>5 DEF TInv, CallOK, StateOK, Is
    <3> QED
      BY <3>1, <2>1, <2>2 DEF VInv
  <2>6. \A j \in unlisted' : leaf'[j].at = "revoked"
    BY <2>1, <2>2, <2>3 DEF VInv
  <2> QED
    BY <2>1, <2>3, <2>4, <2>5, <2>6 DEF VInv
<1>10. ASSUME NEW j \in Jobs, CallIssuer(j) PROVE VInv'
  <2> DEFINE l == [at |-> "called", root |-> issuer, open |-> ~disabled, fresh |-> Swaps = {}]
  <2>1. PutLeaf(j, l) /\ leaf[j] = NoLeaf /\ issuer # 0
    BY <1>10 DEF CallIssuer, Serving
  <2>2. l.root = issuer /\ (l.fresh <=> Swaps = {})
    OBVIOUS
  <2> HIDE DEF l
  <2>3. blame = {} /\ Swaps = {} => issuer = certFile
    BY <2>1 DEF RInv, Unwritten
  <2>4. leaf[j].at # "revoked"
    BY <2>1 DEF NoLeaf
  <2> QED
    BY <2>1, <2>2, <2>3, <2>4, VLeaf
<1>11. ASSUME NEW j \in Jobs, CheckDisabled(j) \/ Issue(j) \/ Revoke(j) PROVE VInv'
  <2>1. leaf[j].at \in {"called", "allowed", "issued"}
    BY <1>11 DEF CheckDisabled, Issue, Revoke
  <2>2. leaf[j] # NoLeaf /\ leaf[j].at # "revoked"
    BY <2>1 DEF NoLeaf
  <2>3. leaf[j] \in [at : {"called", "allowed", "issued", "revoked"}, root : 1 .. made,
                     open : BOOLEAN, fresh : BOOLEAN]
    BY <2>2, <1>0 DEF Leaves
  <2>4. \A a : [leaf[j] EXCEPT !.at = a].fresh = leaf[j].fresh /\ [leaf[j] EXCEPT !.at = a].root = leaf[j].root
    BY <2>3
  <2>5. leaf[j].fresh => Swaps = {} /\ (blame = {} => leaf[j].root = certFile)
    BY <2>2 DEF VInv, Fresh
  <2>6. PICK l : PutLeaf(j, l) /\ (l = NoLeaf \/ \E a : l = [leaf[j] EXCEPT !.at = a])
    BY <1>11 DEF CheckDisabled, Issue, Revoke
  <2> QED
    BY <2>2, <2>4, <2>5, <2>6, VLeaf
<1>12. CASE Crash
  <2>1. /\ leaf' = [j \in Jobs |-> IF leaf[j].at \in {"issued", "revoked"} THEN leaf[j] ELSE NoLeaf]
        /\ UNCHANGED << certFile, unlisted >> /\ (blame' = {} => blame = {})
        /\ call' = [[c \in Calls |-> Idle] EXCEPT !["boot"] = Boot]
    BY <1>12 DEF Crash, files
  <2>2. \A c \in Calls : ~Is(c, "crl")'
    BY <2>1, CallsFacts DEF Is, Boot
  <2>3. Swaps' = {}
    BY <2>1, CallsFacts DEF Swaps, Is
  <2>4. Fresh' \subseteq Fresh /\ \A j \in Fresh' : leaf'[j] = leaf[j]
    BY <2>1 DEF Fresh
  <2>5. unlisted \subseteq Jobs
    BY DEF TInv
  <2> QED
    BY <2>1, <2>2, <2>3, <2>4, <2>5 DEF VInv
<1>13. CASE UNCHANGED << certFile, leaf, call, blame, unlisted >>
  BY <1>13 DEF VInv, Swaps, Is, Fresh
<1> QED
  BY <1>1, <1>2, <1>3, <1>4, <1>5, <1>6, <1>7, <1>8, <1>9, <1>10, <1>11, <1>12, <1>13
  DEF Next, RotatePrivateRoot, ImportPrivateRoot, vars, files

\* What was revoked when a CRL was asked for is in that CRL, as long as the
\* root has been the same since the certificate was ordered (CRL, Rotate).
THEOREM CRLIsComplete == Spec => []RevocationsPublished
<1>1. Init => RInv /\ VInv
  <2> SUFFICES ASSUME Init PROVE RInv /\ VInv
    OBVIOUS
  <2>1. "boot" \in Calls /\ call["boot"] = Boot /\ \A c \in Admins : call[c] = Idle
    BY CallsFacts DEF Init
  <2>2. keyFile = 0 /\ certFile = 0 /\ issuer = 0 /\ unlisted = {}
    BY DEF Init
  <2>3. Swaps = {} /\ Fresh = {} /\ \A c \in Calls : ~Is(c, "crl")
    BY <2>1 DEF Init, Swaps, Is, Fresh, Calls, Boot
  <2> QED
    BY <2>1, <2>2, <2>3 DEF RInv, VInv, BootFiles, Boot
<1>2. TInv /\ VInv => RevocationsPublished
  <2> SUFFICES ASSUME TInv, VInv, blame = {}, NEW j \in unlisted PROVE ~leaf[j].fresh
    BY DEF RevocationsPublished
  <2> QED
    BY DEF TInv, VInv, Fresh, NoLeaf
<1> QED
  BY <1>1, <1>2, TInit, TNext, RNext, VNext, PTL DEF Spec

=============================================================================
