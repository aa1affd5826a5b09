---------------------------- MODULE CertManager -----------------------------
(***************************************************************************)
(* The certificate manager of the admin process,                           *)
(* internal/certificates/manager.go.  Start registers a job under an       *)
(* idempotency key and launches a goroutine for it; the goroutines take    *)
(* turns at one work slot, call the issuer up to MaxAttempts times, write  *)
(* two PEM files and note every change of status in one state file.  A job *)
(* may be renewed and its certificate revoked while others run.            *)
(*                                                                         *)
(* Every write may fail: atomicWrite leaves the old file then.  The        *)
(* process may crash between any two steps; the files survive, the         *)
(* goroutines and the requests under way do not.                           *)
(*                                                                         *)
(* Of a job only what decides anything is kept: not its times, its error   *)
(* and renewal_of, which nothing reads.                                    *)
(*                                                                         *)
(* A job's id is the hash of its key, so jobs are indexed by keys.  The    *)
(* certificate that the n-th call of the issuer for a key returns is the   *)
(* number n: chain[k] = n when fullchain.pem holds it, 0 without a file.   *)
(***************************************************************************)
EXTENDS Integers

CONSTANTS
  Keys,          \* idempotency keys
  Domains,       \* what requests ask for: sets of normalised domains
  Issuers,       \* an issuer per root the private CA may have had
  Callers,       \* requests to renew or revoke that may be under way at once
  MaxAttempts,   \* certificates.max_attempts
  None

ASSUME MaxAttemptsAssumption == MaxAttempts \in Nat \ {0}

ASSUME NoneAssumption == None \notin Keys \cup Domains \cup Issuers

VARIABLES
  up,         \* is the manager running
  closed,     \* Close was called
  issuer,     \* the issuer of the next attempt
  jobs,       \* jobs[k], in memory
  disk,       \* disk[k]: the same in state.json
  work,       \* the keys whose goroutine holds the work slot
  pc,         \* pc[k]: where the goroutine of k is
  signer,     \* signer[k]: the issuer its attempt read
  chain,      \* chain[k]: the certificate in fullchain.pem
  key,        \* key[k]: the certificate private-key.pem belongs to
  caller,     \* caller[c]: the request c serves
  \* History.
  calls,      \* calls[k]: how often the issuer was called for k, crashes included
  accepted,   \* accepted[k]: the domains of the job Start created, or None
  caRevoked,  \* <<k, n>> for a certificate its issuer revoked
  reported,   \* keys whose revocation was reported as done
  current     \* current[k]: issuers in force at some moment of k's attempt

files   == <<disk, chain, key>>
history == <<calls, accepted, caRevoked, reported, current>>
vars == <<up, closed, issuer, jobs, work, pc, signer, files, caller, history>>

-----------------------------------------------------------------------------
InFlight == {"pending", "validating", "finalizing"}
Terminal == {"issued", "failed", "revoked"}

Job(domains) == [status |-> "pending", domains |-> domains, attempt |-> 0]

Idle == [step |-> "idle", key |-> None, new |-> None, cert |-> 0]

\* saveLocked writes all jobs at once, or fails and leaves the file alone.
Save(saved) == disk' = IF saved THEN jobs' ELSE disk

\* Like update, which ignores that saving failed.
Update(k, job) ==
  /\ jobs' = [jobs EXCEPT ![k] = job]
  /\ \E saved \in BOOLEAN : Save(saved)

At(k, label) == up /\ pc[k] = label

Goto(k, label) == pc' = [pc EXCEPT ![k] = label]

\* A goroutine that keeps the slot when it ends.
ReturnHoldingSlot(k) == Goto(k, "none") /\ UNCHANGED work

Return(k) == Goto(k, "none") /\ work' = work \ {k}

-----------------------------------------------------------------------------
Init ==
  /\ up = TRUE
  /\ closed = FALSE
  /\ issuer \in Issuers
  /\ jobs = [k \in Keys |-> None]
  /\ disk = [k \in Keys |-> None]
  /\ work = {}
  /\ pc = [k \in Keys |-> "none"]
  /\ signer = [k \in Keys |-> None]
  /\ chain = [k \in Keys |-> 0]
  /\ key = [k \in Keys |-> 0]
  /\ caller = [c \in Callers |-> Idle]
  /\ calls = [k \in Keys |-> 0]
  /\ accepted = [k \in Keys |-> None]
  /\ caRevoked = {}
  /\ reported = {}
  /\ current = [k \in Keys |-> {}]

\* Start that keeps the job although it could not save it, and one that takes
\* a failed job's key for a new job.
CreateUnsaved(k, domains) ==
  /\ ~closed
  /\ jobs[k] = None
  /\ Update(k, Job(domains))
  /\ accepted' = [accepted EXCEPT ![k] = domains]
  /\ Goto(k, "queued")

CreateAgain(k, domains) ==
  /\ ~closed
  /\ jobs[k] # None => jobs[k].status = "failed"
  /\ jobs' = [jobs EXCEPT ![k] = Job(domains)]
  /\ Save(TRUE)
  /\ accepted' = [accepted EXCEPT ![k] = domains]
  /\ Goto(k, "queued")

\* What Start does with a new key once the job is saved.  With a key it
\* knows, when closed, or when saving fails, nothing changes.
Create(k, domains) ==
  /\ ~closed
  /\ jobs[k] = None
  /\ jobs' = [jobs EXCEPT ![k] = Job(domains)]
  /\ Save(TRUE)
  /\ accepted' = [accepted EXCEPT ![k] = domains]
  /\ Goto(k, "queued")

\* POST /api/v1/certificates/orders.
Start(k, domains) ==
  /\ up
  /\ Create(k, domains)
  /\ UNCHANGED <<up, closed, issuer, work, signer, chain, key, caller,
                 calls, caRevoked, reported, current>>

-----------------------------------------------------------------------------
(* The goroutine of a job.                                                 *)

Acquire(k) ==
  /\ At(k, "queued")
  /\ work = {}
  /\ work' = {k}
  /\ Goto(k, "attempt")
  /\ UNCHANGED <<up, closed, issuer, jobs, signer, files, caller, history>>

Attempt(k) ==
  /\ At(k, "attempt")
  /\ Update(k, [jobs[k] EXCEPT !.status = "validating", !.attempt = @ + 1])
  /\ Goto(k, "call")
  /\ current' = [current EXCEPT ![k] = {issuer}]
  /\ UNCHANGED <<up, closed, issuer, work, signer, chain, key, caller,
                 calls, accepted, caRevoked, reported>>

\* A goroutine that keeps the issuer of its first attempt.
CallFirstIssuer(k) ==
  /\ At(k, "call")
  /\ signer' = [signer EXCEPT ![k] = IF @ = None THEN issuer ELSE @]
  /\ calls' = [calls EXCEPT ![k] = @ + 1]
  /\ Goto(k, "issuing")
  /\ UNCHANGED <<up, closed, issuer, jobs, work, files, caller,
                 accepted, caRevoked, reported, current>>

\* The issuer is read under the lock and called outside of it.
Call(k) ==
  /\ At(k, "call")
  /\ signer' = [signer EXCEPT ![k] = issuer]
  /\ calls' = [calls EXCEPT ![k] = @ + 1]
  /\ Goto(k, "issuing")
  /\ UNCHANGED <<up, closed, issuer, jobs, work, files, caller,
                 accepted, caRevoked, reported, current>>

\* The issuer tells that it is finalizing, as both do before they succeed.
Finalize(k) ==
  /\ At(k, "issuing")
  /\ Update(k, [jobs[k] EXCEPT !.status = "finalizing"])
  /\ Goto(k, "finalizing")
  /\ UNCHANGED <<up, closed, issuer, work, signer, chain, key, caller, history>>

\* The issuer failed or ran into the request timeout, or a PEM file could not
\* be written.
AttemptFails(k) ==
  /\ up
  /\ pc[k] \in {"issuing", "finalizing", "chain", "key"}
  /\ Goto(k, "failing")
  /\ UNCHANGED <<up, closed, issuer, jobs, work, signer, files, caller, history>>

IssuerReturns(k) ==
  /\ At(k, "finalizing")
  /\ Goto(k, "chain")
  /\ UNCHANGED <<up, closed, issuer, jobs, work, signer, files, caller, history>>

\* saveCertificate: two files, one after the other.
WriteChain(k) ==
  /\ At(k, "chain")
  /\ chain' = [chain EXCEPT ![k] = calls[k]]
  /\ Goto(k, "key")
  /\ UNCHANGED <<up, closed, issuer, jobs, work, signer, disk, key, caller, history>>

\* One that goes on when the key cannot be written.
WriteKeyIgnoring(k) ==
  /\ At(k, "key")
  /\ \E written \in BOOLEAN : key' = [key EXCEPT ![k] = IF written THEN calls[k] ELSE @]
  /\ Goto(k, "issued")
  /\ UNCHANGED <<up, closed, issuer, jobs, work, signer, disk, chain, caller, history>>

WriteKey(k) ==
  /\ At(k, "key")
  /\ key' = [key EXCEPT ![k] = calls[k]]
  /\ Goto(k, "issued")
  /\ UNCHANGED <<up, closed, issuer, jobs, work, signer, disk, chain, caller, history>>

Succeed(k) ==
  /\ At(k, "issued")
  /\ Update(k, [jobs[k] EXCEPT !.status = "issued"])
  /\ Return(k)
  /\ UNCHANGED <<up, closed, issuer, signer, chain, key, caller, history>>

\* One attempt too many.
LastAttemptPlusOne(k) == jobs[k].attempt > MaxAttempts

LastAttempt(k) == jobs[k].attempt >= MaxAttempts

Fail(k) ==
  /\ At(k, "failing")
  /\ Update(k, [jobs[k] EXCEPT !.status = IF LastAttempt(k) THEN "failed" ELSE "pending"])
  /\ IF LastAttempt(k) THEN Return(k) ELSE Goto(k, "sleeping") /\ UNCHANGED work
  /\ UNCHANGED <<up, closed, issuer, signer, chain, key, caller, history>>

\* It sleeps with the slot in its hands.
Wake(k) ==
  /\ At(k, "sleeping")
  /\ Goto(k, "attempt")
  /\ UNCHANGED <<up, closed, issuer, jobs, work, signer, files, caller, history>>

Run(k) ==
  \/ Acquire(k) \/ Attempt(k) \/ Call(k) \/ Finalize(k) \/ AttemptFails(k)
  \/ IssuerReturns(k) \/ WriteChain(k) \/ WriteKey(k) \/ Succeed(k) \/ Fail(k)
  \/ Wake(k)

-----------------------------------------------------------------------------
(* Renew and Revoke look at the job first and act on it later.             *)

Request(c, step) == up /\ caller[c].step = step

Leave(c) == caller' = [caller EXCEPT ![c] = Idle]

Known(k) == jobs[k] # None

\* Renew: the job is issued, and due or forced.
RenewCheck(c, k, new) ==
  /\ Request(c, "idle")
  /\ Known(k) /\ jobs[k].status = "issued"
  /\ caller' = [caller EXCEPT ![c] = [Idle EXCEPT !.step = "renew", !.key = k, !.new = new]]
  /\ UNCHANGED <<up, closed, issuer, jobs, work, pc, signer, files, history>>

RenewStart(c) ==
  /\ Request(c, "renew")
  /\ Create(caller[c].new, jobs[caller[c].key].domains)
  /\ Leave(c)
  /\ UNCHANGED <<up, closed, issuer, work, signer, chain, key, calls, caRevoked,
                 reported, current>>

\* Start knows the new key, is closed, or cannot save.
RenewRefused(c) ==
  /\ Request(c, "renew")
  /\ Leave(c)
  /\ UNCHANGED <<up, closed, issuer, jobs, work, pc, signer, files, history>>

RevokeCheck(c, k) ==
  /\ Request(c, "idle")
  /\ Known(k) /\ jobs[k].status = "issued"
  /\ caller' = [caller EXCEPT ![c] = [Idle EXCEPT !.step = "read", !.key = k]]
  /\ UNCHANGED <<up, closed, issuer, jobs, work, pc, signer, files, history>>

\* A job that is revoked already is reported as it is.
RevokeAgain(k) ==
  /\ up
  /\ Known(k) /\ jobs[k].status = "revoked"
  /\ reported' = reported \cup {k}
  /\ UNCHANGED <<up, closed, issuer, jobs, work, pc, signer, files, caller,
                 calls, accepted, caRevoked, current>>

RevokeRead(c) ==
  /\ Request(c, "read")
  /\ IF chain[caller[c].key] = 0
       THEN Leave(c)
       ELSE caller' = [caller EXCEPT ![c].step = "ask", ![c].cert = chain[caller[c].key]]
  /\ UNCHANGED <<up, closed, issuer, jobs, work, pc, signer, files, history>>

\* A request that goes on whatever the issuer says.
RevokeAskIgnoring(c) ==
  /\ Request(c, "ask")
  /\ \E done \in BOOLEAN :
       caRevoked' = IF done THEN caRevoked \cup {<<caller[c].key, caller[c].cert>>}
                            ELSE caRevoked
  /\ caller' = [caller EXCEPT ![c].step = "mark"]
  /\ UNCHANGED <<up, closed, issuer, jobs, work, pc, signer, files,
                 calls, accepted, reported, current>>

\* The issuer revokes the certificate, or not; its answer may get lost.
RevokeAsk(c) ==
  /\ Request(c, "ask")
  /\ \E done, answered \in BOOLEAN :
       /\ caRevoked' = IF done THEN caRevoked \cup {<<caller[c].key, caller[c].cert>>}
                               ELSE caRevoked
       /\ IF done /\ answered THEN caller' = [caller EXCEPT ![c].step = "mark"]
                              ELSE Leave(c)
  /\ UNCHANGED <<up, closed, issuer, jobs, work, pc, signer, files,
                 calls, accepted, reported, current>>

\* The job is revoked in memory; the caller hears of a save that failed.
RevokeMark(c) ==
  LET k == caller[c].key
  IN  /\ Request(c, "mark")
      /\ jobs' = [jobs EXCEPT ![k].status = "revoked"]
      /\ \E saved \in BOOLEAN :
           /\ Save(saved)
           /\ reported' = IF saved THEN reported \cup {k} ELSE reported
      /\ Leave(c)
      /\ UNCHANGED <<up, closed, issuer, work, pc, signer, chain, key,
                     calls, accepted, caRevoked, current>>

\* A root was imported or rotated.
SetIssuer(i) ==
  /\ up /\ ~closed
  /\ issuer' = i
  /\ current' = [k \in Keys |-> IF pc[k] = "call" THEN current[k] \cup {i} ELSE current[k]]
  /\ UNCHANGED <<up, closed, jobs, work, pc, signer, files, caller,
                 calls, accepted, caRevoked, reported>>

Close ==
  /\ up
  /\ closed' = TRUE
  /\ UNCHANGED <<up, issuer, jobs, work, pc, signer, files, caller, history>>

-----------------------------------------------------------------------------
Crash ==
  /\ up
  /\ up' = FALSE
  /\ closed' = FALSE
  /\ jobs' = [k \in Keys |-> None]
  /\ work' = {}
  /\ pc' = [k \in Keys |-> "none"]
  /\ signer' = [k \in Keys |-> None]
  /\ caller' = [c \in Callers |-> Idle]
  /\ UNCHANGED <<issuer, files, history>>

\* load gives up a job that was under way.
Loaded(job) ==
  IF job # None /\ job.status \in InFlight THEN [job EXCEPT !.status = "failed"] ELSE job

\* NewManager at the next start; it fails when load cannot save.
Load(i) ==
  /\ ~up
  /\ up' = TRUE
  /\ issuer' = i
  /\ jobs' = [k \in Keys |-> Loaded(disk[k])]
  /\ Save(TRUE)
  /\ UNCHANGED <<closed, work, pc, signer, chain, key, caller, history>>

Serve ==
  \/ \E k \in Keys, d \in Domains : Start(k, d)
  \/ \E c \in Callers, k, new \in Keys : RenewCheck(c, k, new)
  \/ \E c \in Callers, k \in Keys : RevokeCheck(c, k)
  \/ \E c \in Callers : \/ RenewStart(c) \/ RenewRefused(c)
                        \/ RevokeRead(c) \/ RevokeAsk(c) \/ RevokeMark(c)
  \/ \E k \in Keys : RevokeAgain(k)
  \/ \E i \in Issuers : SetIssuer(i)
  \/ Close

Next ==
  \/ \E k \in Keys : Run(k)
  \/ Serve
  \/ Crash
  \/ \E i \in Issuers : Load(i)

Spec == Init /\ [][Next]_vars

\* Goroutines are scheduled, the issuer's calls have a timeout, and the
\* runtime hands the slot on in the order of the sends.
FairSpec == Spec /\ \A k \in Keys : WF_vars(Run(k))

-----------------------------------------------------------------------------
Attempts == 0..MaxAttempts

Jobs == [status : InFlight \cup Terminal, domains : Domains, attempt : Attempts]

Requests == [step : {"idle", "renew", "read", "ask", "mark"},
             key : Keys \cup {None}, new : Keys \cup {None}, cert : Attempts]

ASSUME NoneIsNoJob == None \notin Jobs

Labels == {"none", "queued", "attempt", "call", "issuing", "finalizing", "chain", "key",
           "issued", "failing", "sleeping"}

\* Every state component has its type; in particular a job's attempt never
\* passes max_attempts, and one goroutine holds the slot.
TypeOK ==
  /\ up \in BOOLEAN /\ closed \in BOOLEAN
  /\ issuer \in Issuers
  /\ jobs \in [Keys -> Jobs \cup {None}]
  /\ disk \in [Keys -> Jobs \cup {None}]
  /\ work \subseteq Keys /\ \A k, l \in work : k = l
  /\ pc \in [Keys -> Labels]
  /\ signer \in [Keys -> Issuers \cup {None}]
  /\ chain \in [Keys -> Attempts]
  /\ key \in [Keys -> Attempts]
  /\ caller \in [Callers -> Requests]
  /\ calls \in [Keys -> Nat]
  /\ accepted \in [Keys -> Domains \cup {None}]
  /\ caRevoked \subseteq Keys \X Attempts
  /\ reported \subseteq Keys
  /\ current \in [Keys -> SUBSET Issuers]

\* The issuer is called at most max_attempts times for a key, whatever is
\* submitted again and however often the process restarts.
AttemptBound == \A k \in Keys : calls[k] <= MaxAttempts

\* A job that Start accepted is never forgotten, with its domains: not in
\* memory and not in the file a restart reads.
NoJobForgotten ==
  \A k \in Keys : accepted[k] # None =>
    /\ disk[k] # None /\ disk[k].domains = accepted[k]
    /\ up => jobs[k] # None /\ jobs[k].domains = accepted[k]

Holds(k) == chain[k] # 0 /\ key[k] = chain[k]

\* A job that is said to be issued or revoked, in memory or in the state file,
\* has a certificate chain and the private key that belongs to it.
FilesMatch ==
  \A k \in Keys :
    /\ jobs[k] # None /\ jobs[k].status \in {"issued", "revoked"} => Holds(k)
    /\ disk[k] # None /\ disk[k].status \in {"issued", "revoked"} => Holds(k)

\* A job is marked revoked, in memory or in the state file, only when the
\* issuer revoked the certificate that its chain file holds.
RevokedAtIssuer ==
  \A k \in Keys :
    /\ jobs[k] # None /\ jobs[k].status = "revoked" => <<k, chain[k]>> \in caRevoked
    /\ disk[k] # None /\ disk[k].status = "revoked" => <<k, chain[k]>> \in caRevoked

\* An attempt uses an issuer that was in force when it began or was set before
\* its call: none keeps the issuer of an earlier attempt past a rotation.
IssuerFence ==
  \A k \in Keys :
    pc[k] \in {"issuing", "finalizing", "chain", "key", "issued"} => signer[k] \in current[k]

Stays(job, next) ==
  job # None /\ job.status \in Terminal =>
    next # None /\ (next.status = job.status
                     \/ (job.status = "issued" /\ next.status = "revoked"))

Ended ==
  \A k \in Keys : /\ up /\ up' => Stays(jobs[k], jobs'[k])
                  /\ Stays(disk[k], disk'[k])

\* The end of a job is final: while the process runs in memory, and forever in
\* the state file, a failed or revoked job stays so and an issued one is at
\* most revoked.
TerminalStays == [][Ended]_vars

\* Every job comes to an end unless the process dies first.
JobsEnd ==
  \A k \in Keys :
    (jobs[k] # None) ~> (~up \/ (jobs[k] # None /\ jobs[k].status \in Terminal))

\* A revocation that was reported as done is known after any restart.
RevocationDurable ==
  \A k \in Keys : k \in reported /\ up => jobs[k] # None /\ jobs[k].status = "revoked"

=============================================================================
