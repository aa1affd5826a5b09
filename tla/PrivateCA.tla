----------------------------- MODULE PrivateCA -----------------------------
(***************************************************************************)
(* The private root CA (internal/certificates/private_ca.go) under the     *)
(* requests of the admin API and the issuances of the certificate manager. *)
(*                                                                         *)
(* The root is two files, its key and its certificate, each replaced       *)
(* atomically, one after the other and without a lock.  The issuer signs   *)
(* with the root it holds in memory; CRL and OCSP use the one in the files.*)
(***************************************************************************)
EXTENDS Integers, FiniteSets

CONSTANTS
  Admins,    \* requests under way at the admin API
  Jobs,      \* certificates the manager has issued
  MaxRoots   \* bound: root key pairs ever made

ASSUME PrivateCAAssumption == MaxRoots \in Nat \ {0} /\ "boot" \notin Admins

VARIABLES
  keyFile, certFile,  \* the root each file belongs to, 0 when it is missing
  disabled,           \* root-state.json
  backup,             \* the fingerprint in root-backup.json
  issuer,             \* the root in memory, 0 while there is no manager
  call,               \* what each request does, and the start of the process
  leaf,               \* the certificates
  made,               \* how many roots there have been
  blame,              \* what may have left the files in disorder
  vouched,            \* roots an operator says to have a backup of
  unlisted            \* what had been revoked but is not in the last CRL

files == << keyFile, certFile, disabled, backup >>
vars  == << files, issuer, call, leaf, made, blame, vouched, unlisted >>

Idle     == [at |-> "idle"]
NoLeaf   == [at |-> "none"]
Calls    == Admins \cup {"boot"}
Serving  == issuer # 0
Free(c)  == c \in Admins /\ Serving /\ call[c] = Idle
Is(c, purpose) == call[c] # Idle /\ call[c].purpose = purpose
Swaps    == {c \in Admins : Is(c, "swap")}
Booting  == call["boot"] # Idle

Goto(c, state) == call' = [call EXCEPT ![c] = state]
Leave(c)       == Goto(c, Idle)
Boot           == [at |-> "load", purpose |-> "boot"]

Init ==
  /\ keyFile = 0 /\ certFile = 0 /\ disabled = FALSE /\ backup = 0
  /\ issuer = 0 /\ made = 0
  /\ call = [[c \in Calls |-> Idle] EXCEPT !["boot"] = Boot]
  /\ leaf = [j \in Jobs |-> NoLeaf]
  /\ blame = {} /\ vouched = {} /\ unlisted = {}

-----------------------------------------------------------------------------
(* Rotate makes a root and import takes one, an older one included.  Both  *)
(* write the files, load them again and give the issuer to the manager.    *)
Swap(c, root) ==
  /\ Free(c)
  /\ call' = [d \in Calls |->
       IF d = c THEN [at |-> "key", purpose |-> "swap", root |-> root, alone |-> Swaps = {}]
       ELSE IF d \in Swaps THEN [call[d] EXCEPT !.alone = FALSE] ELSE call[d]]
  /\ blame' = IF Swaps = {} THEN blame ELSE blame \cup {"overlap"}
  /\ leaf' = [j \in Jobs |-> IF leaf[j] = NoLeaf THEN NoLeaf ELSE [leaf[j] EXCEPT !.fresh = FALSE]]
  /\ UNCHANGED << files, issuer, vouched, unlisted >>

RotatePrivateRoot(c) == made < MaxRoots /\ made' = made + 1 /\ Swap(c, made')

ImportPrivateRoot(c) ==
  /\ \E root \in 1 .. MaxRoots :
       made' = (IF root > made THEN made + 1 ELSE made) /\ root <= made' /\ Swap(c, root)

WriteKey(c, written) ==
  /\ call[c].at = "key"
  /\ keyFile' = IF written THEN call[c].root ELSE keyFile
  /\ IF written THEN Goto(c, [call[c] EXCEPT !.at = "cert"]) ELSE Leave(c)
  /\ UNCHANGED << certFile, disabled, backup, issuer, leaf, made, blame, vouched, unlisted >>

(* A new root is used as it was made, the files of a swap are read again *)
WriteCert(c, written) ==
  /\ call[c].at = "cert"
  /\ certFile' = IF written THEN call[c].root ELSE certFile
  /\ IF written THEN Goto(c, [call[c] EXCEPT !.at = IF c = "boot" THEN "install" ELSE "load"])
                ELSE Leave(c)
  /\ blame' = IF written THEN blame ELSE blame \cup {"fault"}
  /\ UNCHANGED << keyFile, disabled, backup, issuer, leaf, made, vouched, unlisted >>

-----------------------------------------------------------------------------
(* loadPrivateRoot: two reads, which must be of one pair.  When the process*)
(* starts and neither is there, it makes a root.                           *)
With(state, field, value) ==
  [f \in DOMAIN state \cup {field} |-> IF f = field THEN value ELSE state[f]]

LoadKey(c) ==
  /\ call[c].at = "load"
  /\ Goto(c, With([call[c] EXCEPT !.at = "pair"], "key", keyFile))
  /\ UNCHANGED << files, issuer, leaf, made, blame, vouched, unlisted >>

validatePrivateRoot(key, cert) == key = cert /\ key # 0

ListedOthers(c) == {j \in call[c].owed : leaf[j].root # certFile}
Listed(c) == {j \in call[c].owed : leaf[j].root = certFile}

LoadCert(c) ==
  /\ call[c].at = "pair"
  /\ LET create == c = "boot" /\ call[c].key = 0 /\ certFile = 0
         valid  == validatePrivateRoot(call[c].key, certFile)
     IN
     /\ create => made < MaxRoots
     /\ made' = IF create THEN made + 1 ELSE made
     /\ Goto(c, CASE create                     -> [at |-> "key", purpose |-> "boot", root |-> made + 1]
                  [] valid /\ ~Is(c, "crl")     -> With([call[c] EXCEPT !.at = "install"], "root", certFile)
                  [] OTHER                      -> Idle)
     /\ unlisted' = IF valid /\ Is(c, "crl") THEN call[c].owed \ Listed(c) ELSE unlisted
  /\ UNCHANGED << files, issuer, leaf, blame, vouched >>

(* A swap that the manager is not told of *)
InstallAtStart(c) ==
  /\ call[c].at = "install"
  /\ issuer' = IF Is(c, "boot") THEN call[c].root ELSE issuer
  /\ blame' = IF Is(c, "swap") /\ call[c].alone THEN {} ELSE blame
  /\ Leave(c)
  /\ UNCHANGED << files, leaf, made, vouched, unlisted >>

(* SetIssuer, or NewManager; a swap that ran alone leaves all in order *)
Install(c) ==
  /\ call[c].at = "install"
  /\ issuer' = call[c].root
  /\ blame' = IF Is(c, "swap") /\ call[c].alone THEN {} ELSE blame
  /\ Leave(c)
  /\ UNCHANGED << files, leaf, made, vouched, unlisted >>

-----------------------------------------------------------------------------
(* The other requests *)
SetPrivateRootDisabled(c, off) ==
  /\ Free(c)
  /\ disabled' = off
  /\ leaf' = [j \in Jobs |-> IF leaf[j].at = "called" /\ ~off THEN [leaf[j] EXCEPT !.open = TRUE] ELSE leaf[j]]
  /\ UNCHANGED << keyFile, certFile, backup, issuer, call, made, blame, vouched, unlisted >>

(* RecordPrivateRootBackup compares the fingerprint, then writes it *)
CompareBackup(c) ==
  /\ Free(c)
  /\ vouched' = vouched \cup {certFile}
  /\ Goto(c, [at |-> "record", purpose |-> "backup", root |-> certFile])
  /\ UNCHANGED << files, issuer, leaf, made, blame, unlisted >>

(* One that records whatever root there is when it writes *)
RecordPresent(c) ==
  /\ call[c].at = "record"
  /\ backup' = certFile
  /\ Leave(c)
  /\ UNCHANGED << keyFile, certFile, disabled, issuer, leaf, made, blame, vouched, unlisted >>

RecordBackup(c) ==
  /\ call[c].at = "record"
  /\ backup' = call[c].root
  /\ Leave(c)
  /\ UNCHANGED << keyFile, certFile, disabled, issuer, leaf, made, blame, vouched, unlisted >>

privateRootBackupStatus ==
  IF backup = 0 THEN "missing" ELSE IF backup = certFile THEN "current" ELSE "stale"

(* CRL: the revoked certificates, then the root that signs *)
RevokedCertificatePEMs == {j \in Jobs : leaf[j].at = "revoked"}

CollectRevoked(c) ==
  /\ Free(c)
  /\ Goto(c, [at |-> "load", purpose |-> "crl", owed |-> RevokedCertificatePEMs])
  /\ UNCHANGED << files, issuer, leaf, made, blame, vouched, unlisted >>

-----------------------------------------------------------------------------
(* Certificates: the manager takes its issuer, which looks whether the root*)
(* is disabled and signs.  Revoke asks nothing of the issuer.              *)
PutLeaf(j, l) ==
  /\ leaf' = [leaf EXCEPT ![j] = l]
  /\ UNCHANGED << files, issuer, call, made, blame, vouched, unlisted >>

CallIssuer(j) ==
  /\ Serving /\ leaf[j] = NoLeaf
  /\ PutLeaf(j, [at |-> "called", root |-> issuer, open |-> ~disabled, fresh |-> Swaps = {}])

(* An issuer that does not look *)
CheckNothing(j) == leaf[j].at = "called" /\ PutLeaf(j, [leaf[j] EXCEPT !.at = "allowed"])

CheckDisabled(j) ==
  /\ leaf[j].at = "called"
  /\ PutLeaf(j, IF disabled THEN NoLeaf ELSE [leaf[j] EXCEPT !.at = "allowed"])

Issue(j)  == leaf[j].at = "allowed" /\ PutLeaf(j, [leaf[j] EXCEPT !.at = "issued"])
Revoke(j) == Serving /\ leaf[j].at = "issued" /\ PutLeaf(j, [leaf[j] EXCEPT !.at = "revoked"])

-----------------------------------------------------------------------------
(* The process dies and starts again *)
Crash ==
  /\ issuer' = 0
  /\ call' = [[c \in Calls |-> Idle] EXCEPT !["boot"] = Boot]
  /\ leaf' = [j \in Jobs |-> IF leaf[j].at \in {"issued", "revoked"} THEN leaf[j] ELSE NoLeaf]
  /\ blame' = IF \E c \in Calls : call[c].at = "cert" THEN blame \cup {"fault"} ELSE blame
  /\ UNCHANGED << files, made, vouched, unlisted >>

Next ==
  \/ \E c \in Calls, written \in BOOLEAN : WriteKey(c, written) \/ WriteCert(c, written)
  \/ \E c \in Calls : LoadKey(c) \/ LoadCert(c) \/ Install(c)
  \/ \E c \in Admins : \/ RotatePrivateRoot(c) \/ ImportPrivateRoot(c)
                       \/ \E off \in BOOLEAN : SetPrivateRootDisabled(c, off)
                       \/ CompareBackup(c) \/ RecordBackup(c) \/ CollectRevoked(c)
  \/ \E j \in Jobs : CallIssuer(j) \/ CheckDisabled(j) \/ Issue(j) \/ Revoke(j)
  \/ Crash

Spec == Init /\ [][Next]_vars

-----------------------------------------------------------------------------
(* The variables stay in their types, and the roots within those made.     *)
TypeOK ==
  /\ made \in 0 .. MaxRoots
  /\ {keyFile, certFile, backup, issuer} \subseteq 0 .. made
  /\ disabled \in BOOLEAN /\ blame \subseteq {"overlap", "fault"} /\ vouched \subseteq 1 .. made
  /\ \A c \in Calls : call[c].at \in {"idle", "key", "cert", "load", "pair", "install", "record"}
  /\ \A j \in Jobs : leaf[j] = NoLeaf \/ (leaf[j].root \in 1 .. made /\ leaf[j].open \in BOOLEAN)

(* While no root is being replaced, key, certificate and issuer belong to  *)
(* one root (there is none of them before a first root could be written),  *)
(* through crashes and failed writes: the process can always start again,  *)
(* unless a certificate was left unwritten after its key, or two           *)
(* replacements overlapped, since the last replacement that ran alone.     *)
OneRoot ==
  (blame = {} /\ Swaps = {} /\ ~Booting) => keyFile = certFile /\ issuer = certFile

(* What was revoked when a CRL was asked for is in that CRL, as long as the*)
(* root has been the same since the certificate was ordered.               *)
RevocationsPublished ==
  blame = {} => \A j \in unlisted : ~leaf[j].fresh

(* No certificate is signed whose order found, from its call to its check, *)
(* only a disabled root, whatever root was imported or rotated to and      *)
(* through restarts.                                                       *)
DisabledHolds == \A j \in Jobs : leaf[j].at \in {"allowed", "issued"} => leaf[j].open

(* The root is shown as backed up only when an operator has named this     *)
(* root's fingerprint.                                                     *)
BackupHonest == privateRootBackupStatus = "current" => certFile \in vouched

=============================================================================
