------------------------- MODULE CertManagerProofs -------------------------
(***************************************************************************)
(* Theorems about CertManager, for any number of keys, callers, issuers    *)
(* and attempts.  The inductive invariant says of every key what its       *)
(* goroutine has done so far and how far the state file may lag behind the *)
(* memory, and of every caller what its request has seen.                  *)
(***************************************************************************)
EXTENDS CertManager, TLAPS

\* What job claims of k's certificate is so.
Truthful(k, job) ==
  /\ job # None /\ job.status \in {"issued", "revoked"} => Holds(k)
  /\ job # None /\ job.status = "revoked" => <<k, chain[k]>> \in caRevoked

\* A key nobody used yet.
Untouched(k) ==
  jobs[k] = None /\ disk[k] = None /\ pc[k] = "none" /\ calls[k] = 0

Kept(k) ==
  /\ disk[k] # None /\ disk[k].domains = accepted[k]
  /\ up => jobs[k] # None /\ jobs[k].domains = accepted[k]

\* The goroutine of k: how often it called the issuer, what it has written.
Progress(k) ==
  /\ up
  /\ jobs[k] # None /\ jobs[k].status \in InFlight
  /\ pc[k] = "queued" => calls[k] = 0 /\ jobs[k].attempt = 0
  /\ pc[k] \in {"attempt", "sleeping"} =>
       calls[k] = jobs[k].attempt /\ jobs[k].attempt < MaxAttempts
  /\ pc[k] = "call" => calls[k] = jobs[k].attempt - 1
  /\ pc[k] \in {"issuing", "finalizing", "chain", "key", "issued", "failing"} =>
       calls[k] = jobs[k].attempt /\ calls[k] > 0
  /\ pc[k] \in {"key", "issued"} => chain[k] = calls[k]
  /\ pc[k] = "issued" => key[k] = calls[k]

KeyOK(k) ==
  /\ accepted[k] = None => Untouched(k)
  /\ accepted[k] # None => Kept(k)
  /\ calls[k] <= MaxAttempts
  /\ up => Stays(disk[k], jobs[k])
  /\ Truthful(k, jobs[k])
  /\ Truthful(k, disk[k])
  /\ pc[k] # "none" => Progress(k)

CallerOK(c) ==
  caller[c].step # "idle" =>
    /\ up
    /\ caller[c].key \in Keys
    /\ jobs[caller[c].key] # None
    /\ jobs[caller[c].key].status \in {"issued", "revoked"}
    /\ caller[c].step = "renew" => caller[c].new \in Keys
    /\ caller[c].step \in {"ask", "mark"} => caller[c].cert = chain[caller[c].key]
    /\ caller[c].step = "mark" => <<caller[c].key, caller[c].cert>> \in caRevoked

SlotOK == \A k \in Keys : k \in work <=> pc[k] \notin {"none", "queued"}

IssuerOK ==
  /\ \A k \in Keys : pc[k] = "call" => issuer \in current[k]
  /\ IssuerFence

DownOK == ~up => \A k \in Keys : jobs[k] = None

IInv ==
  /\ TypeOK
  /\ SlotOK
  /\ DownOK
  /\ IssuerOK
  /\ \A k \in Keys : KeyOK(k)
  /\ \A c \in Callers : CallerOK(c)

-----------------------------------------------------------------------------
(* What an action leaves alone.                                            *)

\* A key whose job and goroutine a step does not touch, except that saving
\* brings the state file up to date.
KeyKept(l) ==
  /\ jobs'[l] = jobs[l] /\ disk'[l] \in {disk[l], jobs[l]}
  /\ pc'[l] = pc[l] /\ chain'[l] = chain[l] /\ key'[l] = key[l]
  /\ calls'[l] = calls[l] /\ accepted'[l] = accepted[l]

LEMMA KeepKey ==
  ASSUME IInv, up, up', NEW l \in Keys, KeyKept(l), caRevoked \subseteq caRevoked'
  PROVE  KeyOK(l)'
<1>1. KeyOK(l) /\ KeyKept(l)
  BY DEF IInv
<1>2. (accepted[l] = None => Untouched(l))'
  BY <1>1 DEF KeyOK, KeyKept, Untouched
<1>3. (accepted[l] # None => Kept(l))'
  BY <1>1 DEF KeyOK, KeyKept, Kept
<1>4. (calls[l] <= MaxAttempts)' /\ (Stays(disk[l], jobs[l]))'
  BY <1>1 DEF KeyOK, KeyKept, Stays
<1>5. Truthful(l, jobs[l])' /\ Truthful(l, disk[l])'
  BY <1>1 DEF KeyOK, KeyKept, Truthful, Holds
<1>6. (pc[l] # "none" => Progress(l))'
  BY <1>1 DEF KeyOK, KeyKept, Progress
<1>7. QED
  BY <1>2, <1>3, <1>4, <1>5, <1>6 DEF KeyOK

LEMMA KeepCaller ==
  ASSUME up', NEW c \in Callers, CallerOK(c), caller'[c] = caller[c],
         caRevoked \subseteq caRevoked',
         caller[c].step # "idle" =>
           /\ jobs'[caller[c].key] # None
           /\ jobs'[caller[c].key].status \in {"issued", "revoked"}
           /\ chain'[caller[c].key] = chain[caller[c].key]
  PROVE  CallerOK(c)'
BY DEF CallerOK

\* A step of k's goroutine, or the creation of its job, concerns no other key
\* and no request that is under way.
LEMMA OneKey ==
  ASSUME IInv, up, up', NEW k \in Keys,
         pc[k] # "none" \/ jobs[k] = None,
         \A l \in Keys \ {k} : KeyKept(l),
         caller' = caller, caRevoked' = caRevoked, KeyOK(k)'
  PROVE  (\A l \in Keys : KeyOK(l))' /\ (\A c \in Callers : CallerOK(c))'
<1>1. ASSUME NEW l \in Keys PROVE KeyOK(l)'
  BY <1>1, KeepKey
<1>2. ASSUME NEW c \in Callers PROVE CallerOK(c)'
  <2>1. caller[c].step # "idle" => caller[c].key \in Keys \ {k}
    BY DEF IInv, CallerOK, KeyOK, Progress, InFlight
  <2>2. CallerOK(c)
    BY DEF IInv
  <2>3. caller[c].step # "idle" =>
           /\ jobs'[caller[c].key] # None
           /\ jobs'[caller[c].key].status \in {"issued", "revoked"}
           /\ chain'[caller[c].key] = chain[caller[c].key]
    BY <2>1, <2>2 DEF CallerOK, KeyKept
  <2>4. QED
    BY <2>2, <2>3, KeepCaller
<1>3. QED
  BY <1>1, <1>2

\* A step that leaves every job and every goroutine alone.
LEMMA AllKeys ==
  ASSUME IInv, up, up', \A l \in Keys : KeyKept(l), caRevoked \subseteq caRevoked'
  PROVE  (\A l \in Keys : KeyOK(l))'
BY KeepKey

-----------------------------------------------------------------------------
(* Types.                                                                  *)

LEMMA SetStatus ==
  ASSUME NEW job \in Jobs, NEW s \in InFlight \cup Terminal
  PROVE  [job EXCEPT !.status = s] \in Jobs
BY DEF Jobs

LEMMA NextAttempt ==
  ASSUME NEW job \in Jobs, NEW s \in InFlight, job.attempt < MaxAttempts
  PROVE  LET next == [job EXCEPT !.status = s, !.attempt = @ + 1]
         IN  /\ next \in Jobs /\ next.status = s /\ next.domains = job.domains
             /\ next.attempt = job.attempt + 1 /\ job.attempt \in Nat
<1> DEFINE next == [job EXCEPT !.status = s, !.attempt = @ + 1]
<1>1. job.attempt \in Nat /\ job.attempt + 1 \in Attempts
  BY MaxAttemptsAssumption DEF Jobs, Attempts
<1>2. next \in Jobs
  BY <1>1 DEF Jobs
<1>3. next.status = s /\ next.domains = job.domains /\ next.attempt = job.attempt + 1
  BY DEF Jobs
<1>4. QED
  BY <1>1, <1>2, <1>3

\* Whatever becomes of the save, memory and file hold jobs.
LEMMA UpdateType ==
  ASSUME TypeOK, NEW k \in Keys, NEW job \in Jobs, Update(k, job)
  PROVE  /\ jobs' \in [Keys -> Jobs \cup {None}]
         /\ disk' \in [Keys -> Jobs \cup {None}]
         /\ jobs'[k] = job
         /\ disk'[k] \in {disk[k], job}
BY DEF TypeOK, Update, Save

LEMMA InitIInv == Init => IInv
<1> SUFFICES ASSUME Init PROVE IInv
  OBVIOUS
<1>1. TypeOK
  <2>1. 0 \in Attempts
    BY MaxAttemptsAssumption DEF Attempts
  <2>2. caller \in [Callers -> Requests]
    BY <2>1 DEF Init, Idle, Requests
  <2>3. QED
    BY <2>1, <2>2 DEF Init, TypeOK, Labels, Requests
<1>2. SlotOK /\ DownOK /\ IssuerOK
  BY DEF Init, SlotOK, DownOK, IssuerOK, IssuerFence
<1>3. ASSUME NEW k \in Keys PROVE KeyOK(k)
  BY MaxAttemptsAssumption DEF Init, KeyOK, Untouched, Stays, Truthful
<1>4. ASSUME NEW c \in Callers PROVE CallerOK(c)
  BY DEF Init, CallerOK, Idle
<1>5. QED
  BY <1>1, <1>2, <1>3, <1>4 DEF IInv

LEMMA CreateStep ==
  ASSUME IInv, up, up', NEW k \in Keys, NEW d \in Domains,
         Create(k, d),
         UNCHANGED <<closed, issuer, work, signer, chain, key, calls, caRevoked,
                     reported, current>>,
         caller' \in [Callers -> Requests]
  PROVE  TypeOK' /\ SlotOK' /\ DownOK' /\ IssuerOK' /\ (\A l \in Keys : KeyOK(l))'
<1> USE DEF Create, Goto, Save
<1>1. TypeOK /\ SlotOK /\ IssuerOK /\ KeyOK(k) /\ k \in Keys
  BY DEF IInv
<1>2. Job(d) \in Jobs
  BY <1>1, MaxAttemptsAssumption DEF Job, Jobs, InFlight, Attempts
<1>3. TypeOK'
  BY <1>1, <1>2 DEF TypeOK, Labels
<1>4. pc[k] = "none" /\ calls[k] = 0 /\ disk[k] = None
  BY <1>1 DEF KeyOK, Kept, Untouched
<1>5. jobs'[k] = Job(d) /\ disk'[k] = Job(d) /\ pc'[k] = "queued" /\ accepted'[k] = d
  BY <1>1 DEF TypeOK
<1>6. KeyOK(k)'
  BY <1>1, <1>2, <1>4, <1>5, NoneAssumption, NoneIsNoJob, MaxAttemptsAssumption
     DEF KeyOK, Kept, Stays, Terminal, Truthful, Progress, Job, InFlight
<1>7. ASSUME NEW l \in Keys \ {k} PROVE KeyKept(l)
  BY <1>1 DEF KeyKept, TypeOK
<1>8. SlotOK' /\ DownOK' /\ IssuerOK'
  BY <1>1, <1>4, <1>5 DEF SlotOK, DownOK, IssuerOK, IssuerFence, TypeOK
<1>9. ASSUME NEW l \in Keys PROVE KeyOK(l)'
  BY <1>6, <1>7, KeepKey
<1>10. QED
  BY <1>3, <1>8, <1>9

-----------------------------------------------------------------------------
(* The goroutine of a job, step by step.                                   *)

\* The slot was free, so no other goroutine works.
LEMMA AcquireStep ==
  ASSUME IInv, NEW k \in Keys, Acquire(k)
  PROVE  IInv'
<1> USE DEF Acquire, Goto, At, files, history
<1>1. TypeOK /\ SlotOK /\ IssuerOK /\ KeyOK(k) /\ Progress(k) /\ up /\ up'
  BY DEF IInv, KeyOK
<1>2. TypeOK'
  BY <1>1 DEF TypeOK, Labels
<1>3. KeyOK(k)'
  BY <1>1, MaxAttemptsAssumption, NoneIsNoJob
     DEF KeyOK, Untouched, Kept, Stays, Truthful, Holds, Progress, TypeOK, Terminal
<1>4. ASSUME NEW l \in Keys \ {k} PROVE KeyKept(l)
  BY <1>1 DEF KeyKept, TypeOK
<1>5. SlotOK' /\ DownOK' /\ IssuerOK'
  <2>1. SlotOK'
    BY <1>1 DEF SlotOK, TypeOK
  <2>2. DownOK' /\ IssuerOK'
    BY <1>1 DEF DownOK, IssuerOK, IssuerFence, TypeOK
  <2> QED BY <2>1, <2>2
<1>6. (\A l \in Keys : KeyOK(l))' /\ (\A c \in Callers : CallerOK(c))'
  BY <1>1, <1>3, <1>4, OneKey
<1>7. QED
  BY <1>2, <1>5, <1>6 DEF IInv

\* An attempt is left: the last one has not been made.
LEMMA AttemptStep ==
  ASSUME IInv, NEW k \in Keys, Attempt(k)
  PROVE  IInv'
<1> USE DEF Attempt, Goto, At
<1>1. TypeOK /\ SlotOK /\ IssuerOK /\ KeyOK(k) /\ Progress(k) /\ up /\ up'
  BY DEF IInv, KeyOK
<1> DEFINE job == [jobs[k] EXCEPT !.status = "validating", !.attempt = @ + 1]
<1>o. jobs[k] \in Jobs /\ jobs[k].attempt < MaxAttempts /\ "validating" \in InFlight
  BY <1>1 DEF TypeOK, Progress, InFlight
<1>n. /\ job \in Jobs
      /\ job.status = "validating" /\ job.domains = jobs[k].domains
      /\ job.attempt = jobs[k].attempt + 1 /\ jobs[k].attempt \in Nat
  BY <1>o, NextAttempt
<1>j. job \in Jobs /\ Update(k, job)
  BY <1>n
<1> HIDE DEF job
<1>u. /\ jobs' \in [Keys -> Jobs \cup {None}] /\ disk' \in [Keys -> Jobs \cup {None}]
      /\ jobs'[k] = job /\ disk'[k] \in {disk[k], job}
  BY <1>1, <1>j, UpdateType
<1>2. TypeOK'
  BY <1>1, <1>u DEF TypeOK, Labels
<1>3. KeyOK(k)'
  BY <1>1, <1>j, <1>u, <1>n, MaxAttemptsAssumption, NoneIsNoJob
     DEF KeyOK, Untouched, Kept, Stays, Truthful, Holds, Progress, TypeOK, Terminal, InFlight
<1>4. ASSUME NEW l \in Keys \ {k} PROVE KeyKept(l)
  BY <1>1 DEF KeyKept, TypeOK, Update, Save
<1>5. SlotOK' /\ DownOK' /\ IssuerOK'
  BY <1>1 DEF SlotOK, DownOK, IssuerOK, IssuerFence, TypeOK
<1>6. (\A l \in Keys : KeyOK(l))' /\ (\A c \in Callers : CallerOK(c))'
  BY <1>1, <1>3, <1>4, OneKey
<1>7. QED
  BY <1>2, <1>5, <1>6 DEF IInv

\* The call is counted under the attempt it belongs to.
LEMMA CallStep ==
  ASSUME IInv, NEW k \in Keys, Call(k)
  PROVE  IInv'
<1> USE DEF Call, Goto, At, files
<1>1. TypeOK /\ SlotOK /\ IssuerOK /\ KeyOK(k) /\ Progress(k) /\ up /\ up'
  BY DEF IInv, KeyOK
<1>2. TypeOK'
  BY <1>1 DEF TypeOK, Labels
<1>3. KeyOK(k)'
  BY <1>1, MaxAttemptsAssumption, NoneIsNoJob
     DEF KeyOK, Untouched, Kept, Stays, Truthful, Holds, Progress, TypeOK, Terminal, InFlight, Jobs, Attempts
<1>4. ASSUME NEW l \in Keys \ {k} PROVE KeyKept(l)
  BY <1>1 DEF KeyKept, TypeOK
<1>5. SlotOK' /\ DownOK' /\ IssuerOK'
  BY <1>1 DEF SlotOK, DownOK, IssuerOK, IssuerFence, TypeOK
<1>6. (\A l \in Keys : KeyOK(l))' /\ (\A c \in Callers : CallerOK(c))'
  BY <1>1, <1>3, <1>4, OneKey
<1>7. QED
  BY <1>2, <1>5, <1>6 DEF IInv

\* Only the status changes.
LEMMA FinalizeStep ==
  ASSUME IInv, NEW k \in Keys, Finalize(k)
  PROVE  IInv'
<1> USE DEF Finalize, Goto, At, history
<1>1. TypeOK /\ SlotOK /\ IssuerOK /\ KeyOK(k) /\ Progress(k) /\ up /\ up'
  BY DEF IInv, KeyOK
<1> DEFINE job == [jobs[k] EXCEPT !.status = "finalizing"]
<1>j. job \in Jobs /\ Update(k, job)
  BY <1>1, SetStatus DEF TypeOK, Progress, InFlight, Terminal
<1>u. /\ jobs' \in [Keys -> Jobs \cup {None}] /\ disk' \in [Keys -> Jobs \cup {None}]
      /\ jobs'[k] = job /\ disk'[k] \in {disk[k], job}
  BY <1>1, <1>j, UpdateType
<1>2. TypeOK'
  BY <1>1, <1>u DEF TypeOK, Labels
<1>3. KeyOK(k)'
  BY <1>1, <1>u, MaxAttemptsAssumption, NoneIsNoJob
     DEF KeyOK, Untouched, Kept, Stays, Truthful, Holds, Progress, TypeOK, Terminal, InFlight, Jobs
<1>4. ASSUME NEW l \in Keys \ {k} PROVE KeyKept(l)
  BY <1>1 DEF KeyKept, TypeOK, Update, Save
<1>5. SlotOK' /\ DownOK' /\ IssuerOK'
  BY <1>1 DEF SlotOK, DownOK, IssuerOK, IssuerFence, TypeOK
<1>6. (\A l \in Keys : KeyOK(l))' /\ (\A c \in Callers : CallerOK(c))'
  BY <1>1, <1>3, <1>4, OneKey
<1>7. QED
  BY <1>2, <1>5, <1>6 DEF IInv

\* The files may be half written; the job is still in flight.
LEMMA AttemptFailsStep ==
  ASSUME IInv, NEW k \in Keys, AttemptFails(k)
  PROVE  IInv'
<1> USE DEF AttemptFails, Goto, files, history
<1>1. TypeOK /\ SlotOK /\ IssuerOK /\ KeyOK(k) /\ Progress(k) /\ up /\ up'
  BY DEF IInv, KeyOK
<1>2. TypeOK'
  BY <1>1 DEF TypeOK, Labels
<1>3. KeyOK(k)'
  BY <1>1, MaxAttemptsAssumption, NoneIsNoJob
     DEF KeyOK, Untouched, Kept, Stays, Truthful, Holds, Progress, TypeOK, Terminal
<1>4. ASSUME NEW l \in Keys \ {k} PROVE KeyKept(l)
  BY <1>1 DEF KeyKept, TypeOK
<1>5. SlotOK' /\ DownOK' /\ IssuerOK'
  BY <1>1 DEF SlotOK, DownOK, IssuerOK, IssuerFence, TypeOK
<1>6. (\A l \in Keys : KeyOK(l))' /\ (\A c \in Callers : CallerOK(c))'
  BY <1>1, <1>3, <1>4, OneKey
<1>7. QED
  BY <1>2, <1>5, <1>6 DEF IInv

\* The certificate is not written yet.
LEMMA IssuerReturnsStep ==
  ASSUME IInv, NEW k \in Keys, IssuerReturns(k)
  PROVE  IInv'
<1> USE DEF IssuerReturns, Goto, At, files, history
<1>1. TypeOK /\ SlotOK /\ IssuerOK /\ KeyOK(k) /\ Progress(k) /\ up /\ up'
  BY DEF IInv, KeyOK
<1>2. TypeOK'
  BY <1>1 DEF TypeOK, Labels
<1>3. KeyOK(k)'
  BY <1>1, MaxAttemptsAssumption, NoneIsNoJob
     DEF KeyOK, Untouched, Kept, Stays, Truthful, Holds, Progress, TypeOK, Terminal
<1>4. ASSUME NEW l \in Keys \ {k} PROVE KeyKept(l)
  BY <1>1 DEF KeyKept, TypeOK
<1>5. SlotOK' /\ DownOK' /\ IssuerOK'
  BY <1>1 DEF SlotOK, DownOK, IssuerOK, IssuerFence, TypeOK
<1>6. (\A l \in Keys : KeyOK(l))' /\ (\A c \in Callers : CallerOK(c))'
  BY <1>1, <1>3, <1>4, OneKey
<1>7. QED
  BY <1>2, <1>5, <1>6 DEF IInv

\* No status claims the file that is overwritten.
LEMMA WriteChainStep ==
  ASSUME IInv, NEW k \in Keys, WriteChain(k)
  PROVE  IInv'
<1> USE DEF WriteChain, Goto, At, history
<1>1. TypeOK /\ SlotOK /\ IssuerOK /\ KeyOK(k) /\ Progress(k) /\ up /\ up'
  BY DEF IInv, KeyOK
<1>u. calls[k] \in Attempts /\ calls[k] \in Nat
  BY <1>1, MaxAttemptsAssumption DEF KeyOK, TypeOK, Attempts
<1>2. TypeOK'
  BY <1>1, <1>u DEF TypeOK, Labels
<1>3. KeyOK(k)'
  BY <1>1, <1>u, MaxAttemptsAssumption, NoneIsNoJob
     DEF KeyOK, Untouched, Kept, Stays, Truthful, Holds, Progress, TypeOK, Terminal, InFlight
<1>4. ASSUME NEW l \in Keys \ {k} PROVE KeyKept(l)
  BY <1>1 DEF KeyKept, TypeOK
<1>5. SlotOK' /\ DownOK' /\ IssuerOK'
  BY <1>1 DEF SlotOK, DownOK, IssuerOK, IssuerFence, TypeOK
<1>6. (\A l \in Keys : KeyOK(l))' /\ (\A c \in Callers : CallerOK(c))'
  BY <1>1, <1>3, <1>4, OneKey
<1>7. QED
  BY <1>2, <1>5, <1>6 DEF IInv

\* Now both files belong together.
LEMMA WriteKeyStep ==
  ASSUME IInv, NEW k \in Keys, WriteKey(k)
  PROVE  IInv'
<1> USE DEF WriteKey, Goto, At, history
<1>1. TypeOK /\ SlotOK /\ IssuerOK /\ KeyOK(k) /\ Progress(k) /\ up /\ up'
  BY DEF IInv, KeyOK
<1>u. calls[k] \in Attempts /\ calls[k] \in Nat
  BY <1>1, MaxAttemptsAssumption DEF KeyOK, TypeOK, Attempts
<1>2. TypeOK'
  BY <1>1, <1>u DEF TypeOK, Labels
<1>3. KeyOK(k)'
  BY <1>1, <1>u, MaxAttemptsAssumption, NoneIsNoJob
     DEF KeyOK, Untouched, Kept, Stays, Truthful, Holds, Progress, TypeOK, Terminal, InFlight
<1>4. ASSUME NEW l \in Keys \ {k} PROVE KeyKept(l)
  BY <1>1 DEF KeyKept, TypeOK
<1>5. SlotOK' /\ DownOK' /\ IssuerOK'
  BY <1>1 DEF SlotOK, DownOK, IssuerOK, IssuerFence, TypeOK
<1>6. (\A l \in Keys : KeyOK(l))' /\ (\A c \in Callers : CallerOK(c))'
  BY <1>1, <1>3, <1>4, OneKey
<1>7. QED
  BY <1>2, <1>5, <1>6 DEF IInv

\* Both files are there.
LEMMA SucceedStep ==
  ASSUME IInv, NEW k \in Keys, Succeed(k)
  PROVE  IInv'
<1> USE DEF Succeed, Goto, At, Return, history
<1>1. TypeOK /\ SlotOK /\ IssuerOK /\ KeyOK(k) /\ Progress(k) /\ up /\ up'
  BY DEF IInv, KeyOK
<1> DEFINE job == [jobs[k] EXCEPT !.status = "issued"]
<1>j. job \in Jobs /\ Update(k, job)
  BY <1>1, SetStatus DEF TypeOK, Progress, InFlight, Terminal
<1>u. /\ jobs' \in [Keys -> Jobs \cup {None}] /\ disk' \in [Keys -> Jobs \cup {None}]
      /\ jobs'[k] = job /\ disk'[k] \in {disk[k], job}
  BY <1>1, <1>j, UpdateType
<1>2. TypeOK'
  BY <1>1, <1>u DEF TypeOK, Labels
<1>3. KeyOK(k)'
  BY <1>1, <1>u, MaxAttemptsAssumption, NoneIsNoJob
     DEF KeyOK, Untouched, Kept, Stays, Truthful, Holds, Progress, TypeOK, Terminal, InFlight, Jobs
<1>4. ASSUME NEW l \in Keys \ {k} PROVE KeyKept(l)
  BY <1>1 DEF KeyKept, TypeOK, Update, Save
<1>5. SlotOK' /\ DownOK' /\ IssuerOK'
  BY <1>1 DEF SlotOK, DownOK, IssuerOK, IssuerFence, TypeOK
<1>6. (\A l \in Keys : KeyOK(l))' /\ (\A c \in Callers : CallerOK(c))'
  BY <1>1, <1>3, <1>4, OneKey
<1>7. QED
  BY <1>2, <1>5, <1>6 DEF IInv

\* Either the last attempt is over or one is left.
LEMMA FailStep ==
  ASSUME IInv, NEW k \in Keys, Fail(k)
  PROVE  IInv'
<1> USE DEF Fail, Goto, At, Return, LastAttempt, history
<1>1. TypeOK /\ SlotOK /\ IssuerOK /\ KeyOK(k) /\ Progress(k) /\ up /\ up'
  BY DEF IInv, KeyOK
<1> DEFINE job == [jobs[k] EXCEPT !.status = IF LastAttempt(k) THEN "failed" ELSE "pending"]
<1>j. job \in Jobs /\ Update(k, job)
  BY <1>1, SetStatus DEF TypeOK, Progress, InFlight, Terminal
<1>u. /\ jobs' \in [Keys -> Jobs \cup {None}] /\ disk' \in [Keys -> Jobs \cup {None}]
      /\ jobs'[k] = job /\ disk'[k] \in {disk[k], job}
  BY <1>1, <1>j, UpdateType
<1>2. TypeOK'
  BY <1>1, <1>u DEF TypeOK, Labels
<1>3. KeyOK(k)'
  BY <1>1, <1>u, MaxAttemptsAssumption, NoneIsNoJob
     DEF KeyOK, Untouched, Kept, Stays, Truthful, Holds, Progress, TypeOK, Terminal, InFlight, Jobs, Attempts
<1>4. ASSUME NEW l \in Keys \ {k} PROVE KeyKept(l)
  BY <1>1 DEF KeyKept, TypeOK, Update, Save
<1>5. SlotOK' /\ DownOK' /\ IssuerOK'
  BY <1>1 DEF SlotOK, DownOK, IssuerOK, IssuerFence, TypeOK
<1>6. (\A l \in Keys : KeyOK(l))' /\ (\A c \in Callers : CallerOK(c))'
  BY <1>1, <1>3, <1>4, OneKey
<1>7. QED
  BY <1>2, <1>5, <1>6 DEF IInv

\* The slot stays taken.
LEMMA WakeStep ==
  ASSUME IInv, NEW k \in Keys, Wake(k)
  PROVE  IInv'
<1> USE DEF Wake, Goto, At, files, history
<1>1. TypeOK /\ SlotOK /\ IssuerOK /\ KeyOK(k) /\ Progress(k) /\ up /\ up'
  BY DEF IInv, KeyOK
<1>2. TypeOK'
  BY <1>1 DEF TypeOK, Labels
<1>3. KeyOK(k)'
  BY <1>1, MaxAttemptsAssumption, NoneIsNoJob
     DEF KeyOK, Untouched, Kept, Stays, Truthful, Holds, Progress, TypeOK, Terminal
<1>4. ASSUME NEW l \in Keys \ {k} PROVE KeyKept(l)
  BY <1>1 DEF KeyKept, TypeOK
<1>5. SlotOK' /\ DownOK' /\ IssuerOK'
  BY <1>1 DEF SlotOK, DownOK, IssuerOK, IssuerFence, TypeOK
<1>6. (\A l \in Keys : KeyOK(l))' /\ (\A c \in Callers : CallerOK(c))'
  BY <1>1, <1>3, <1>4, OneKey
<1>7. QED
  BY <1>2, <1>5, <1>6 DEF IInv

-----------------------------------------------------------------------------
(* Requests.                                                               *)

LEMMA StartStep ==
  ASSUME IInv, NEW k \in Keys, NEW d \in Domains, Start(k, d)
  PROVE  IInv'
<1> USE DEF Start
<1>1. TypeOK /\ up /\ up' /\ jobs[k] = None /\ caller' = caller
  BY DEF IInv, Create
<1>2. TypeOK' /\ SlotOK' /\ DownOK' /\ IssuerOK' /\ (\A l \in Keys : KeyOK(l))'
  BY <1>1, CreateStep DEF TypeOK
<1>3. ASSUME NEW l \in Keys \ {k} PROVE KeyKept(l)
  BY <1>1 DEF KeyKept, TypeOK, Create, Save, Goto
<1>4. (\A c \in Callers : CallerOK(c))'
  BY <1>1, <1>2, <1>3, OneKey
<1>5. QED
  BY <1>2, <1>4 DEF IInv

LEMMA NoRequest == Idle \in Requests /\ Idle.step = "idle"
BY MaxAttemptsAssumption DEF Idle, Requests, Attempts

LEMMA RenewStartStep ==
  ASSUME IInv, NEW c \in Callers, RenewStart(c)
  PROVE  IInv'
<1> DEFINE k == caller[c].key
           new == caller[c].new
<1>1. TypeOK /\ CallerOK(c) /\ up /\ up' /\ caller[c].step = "renew"
  BY DEF IInv, RenewStart, Request
<1>2. k \in Keys /\ new \in Keys /\ jobs[k] \in Jobs /\ jobs[k].domains \in Domains
  BY <1>1 DEF CallerOK, TypeOK, Jobs
<1>3. caller' \in [Callers -> Requests]
  BY <1>1, NoRequest DEF TypeOK, RenewStart, Leave
<1>4. Create(new, jobs[k].domains) /\ jobs[new] = None
  BY DEF RenewStart, Create
<1> HIDE DEF k, new
<1>5. TypeOK' /\ SlotOK' /\ DownOK' /\ IssuerOK' /\ (\A l \in Keys : KeyOK(l))'
  BY <1>1, <1>2, <1>3, <1>4, CreateStep DEF RenewStart
<1>6. ASSUME NEW a \in Callers PROVE CallerOK(a)'
  <2>1. CASE a = c
    BY <2>1, <1>1, NoRequest DEF RenewStart, Leave, CallerOK, TypeOK
  <2>2. CASE a # c
    <3>1. caller'[a] = caller[a] /\ CallerOK(a) /\ chain' = chain /\ caRevoked' = caRevoked
      BY <2>2, <1>1 DEF IInv, RenewStart, Leave, TypeOK
    <3>2. caller[a].step # "idle" => jobs'[caller[a].key] = jobs[caller[a].key]
      BY <3>1, <1>4, <1>1 DEF CallerOK, Create, TypeOK
    <3>3. QED
      BY <3>1, <3>2, <1>1, KeepCaller DEF CallerOK
  <2>3. QED
    BY <2>1, <2>2
<1>7. QED
  BY <1>5, <1>6 DEF IInv

\* The job is issued at this moment.
LEMMA RenewCheckStep ==
  ASSUME IInv, NEW c \in Callers, NEW k \in Keys, NEW new \in Keys, RenewCheck(c, k, new)
  PROVE  IInv'
<1> USE DEF RenewCheck, Request, Leave, files, history, Idle, Known
<1>1. TypeOK /\ SlotOK /\ IssuerOK /\ up /\ up'
  BY DEF IInv
<1>2. TypeOK'
  <2>1. [Idle EXCEPT !.step = "renew", !.key = k, !.new = new] \in Requests
    BY NoRequest DEF Requests
  <2>2. caller' \in [Callers -> Requests]
    BY <1>1, <2>1 DEF TypeOK
  <2>3. QED
    BY <1>1, <2>2 DEF TypeOK
<1>3. (\A l \in Keys : KeyOK(l))'
  BY <1>1, AllKeys DEF KeyKept
<1>4. ASSUME NEW a \in Callers PROVE CallerOK(a)'
  <2>1. CASE a = c
    BY <2>1, <1>1 DEF IInv, CallerOK, TypeOK
  <2>2. CASE a # c
    BY <2>2, <1>1, KeepCaller DEF IInv, CallerOK, TypeOK
  <2>3. QED
    BY <2>1, <2>2
<1>5. SlotOK' /\ DownOK' /\ IssuerOK'
  BY <1>1 DEF SlotOK, DownOK, IssuerOK, IssuerFence
<1>6. QED
  BY <1>2, <1>3, <1>4, <1>5 DEF IInv

\* Nothing but the request ends.
LEMMA RenewRefusedStep ==
  ASSUME IInv, NEW c \in Callers, RenewRefused(c)
  PROVE  IInv'
<1> USE DEF RenewRefused, Request, Leave, files, history
<1>1. TypeOK /\ SlotOK /\ IssuerOK /\ up /\ up'
  BY DEF IInv
<1>2. TypeOK'
  BY <1>1, NoRequest DEF TypeOK
<1>3. (\A l \in Keys : KeyOK(l))'
  BY <1>1, AllKeys DEF KeyKept
<1>4. ASSUME NEW a \in Callers PROVE CallerOK(a)'
  <2>1. CASE a = c
    BY <2>1, <1>1, NoRequest DEF IInv, CallerOK, TypeOK
  <2>2. CASE a # c
    BY <2>2, <1>1, KeepCaller DEF IInv, CallerOK, TypeOK
  <2>3. QED
    BY <2>1, <2>2
<1>5. SlotOK' /\ DownOK' /\ IssuerOK'
  BY <1>1 DEF SlotOK, DownOK, IssuerOK, IssuerFence
<1>6. QED
  BY <1>2, <1>3, <1>4, <1>5 DEF IInv

\* The same for a revocation.
LEMMA RevokeCheckStep ==
  ASSUME IInv, NEW c \in Callers, NEW k \in Keys, RevokeCheck(c, k)
  PROVE  IInv'
<1> USE DEF RevokeCheck, Request, Leave, files, history, Idle, Known
<1>1. TypeOK /\ SlotOK /\ IssuerOK /\ up /\ up'
  BY DEF IInv
<1>2. TypeOK'
  <2>1. [Idle EXCEPT !.step = "read", !.key = k] \in Requests
    BY NoRequest DEF Requests
  <2>2. caller' \in [Callers -> Requests]
    BY <1>1, <2>1 DEF TypeOK
  <2>3. QED
    BY <1>1, <2>2 DEF TypeOK
<1>3. (\A l \in Keys : KeyOK(l))'
  BY <1>1, AllKeys DEF KeyKept
<1>4. ASSUME NEW a \in Callers PROVE CallerOK(a)'
  <2>1. CASE a = c
    BY <2>1, <1>1 DEF IInv, CallerOK, TypeOK
  <2>2. CASE a # c
    BY <2>2, <1>1, KeepCaller DEF IInv, CallerOK, TypeOK
  <2>3. QED
    BY <2>1, <2>2
<1>5. SlotOK' /\ DownOK' /\ IssuerOK'
  BY <1>1 DEF SlotOK, DownOK, IssuerOK, IssuerFence
<1>6. QED
  BY <1>2, <1>3, <1>4, <1>5 DEF IInv

\* The chain file is not written any more.
LEMMA RevokeReadStep ==
  ASSUME IInv, NEW c \in Callers, RevokeRead(c)
  PROVE  IInv'
<1> USE DEF RevokeRead, Request, Leave, files, history
<1>1. TypeOK /\ SlotOK /\ IssuerOK /\ up /\ up'
  BY DEF IInv
<1>2. TypeOK'
  BY <1>1, NoRequest DEF IInv, CallerOK, TypeOK, Requests
<1>3. (\A l \in Keys : KeyOK(l))'
  BY <1>1, AllKeys DEF KeyKept
<1>4. ASSUME NEW a \in Callers PROVE CallerOK(a)'
  <2>1. CASE a = c
    <3>1. caller[c] \in Requests /\ CallerOK(c) /\ caller[c].key \in Keys
      BY <1>1 DEF IInv, TypeOK, CallerOK
    <3>2. caller'[c] = Idle \/ caller'[c] = [caller[c] EXCEPT !.step = "ask", !.cert = chain[caller[c].key]]
      BY <1>1 DEF TypeOK
    <3>3. QED
      BY <2>1, <1>1, <3>1, <3>2, NoRequest DEF CallerOK, Requests
  <2>2. CASE a # c
    BY <2>2, <1>1, KeepCaller DEF IInv, CallerOK, TypeOK
  <2>3. QED
    BY <2>1, <2>2
<1>5. SlotOK' /\ DownOK' /\ IssuerOK'
  BY <1>1 DEF SlotOK, DownOK, IssuerOK, IssuerFence
<1>6. QED
  BY <1>2, <1>3, <1>4, <1>5 DEF IInv

\* The issuer revokes what the chain file holds.
LEMMA RevokeAskStep ==
  ASSUME IInv, NEW c \in Callers, RevokeAsk(c)
  PROVE  IInv'
<1> USE DEF RevokeAsk, Request, Leave, files, history
<1>1. TypeOK /\ SlotOK /\ IssuerOK /\ up /\ up'
  BY DEF IInv
<1>2. TypeOK'
  BY <1>1, NoRequest DEF IInv, CallerOK, TypeOK, Requests
<1>3. (\A l \in Keys : KeyOK(l))'
  BY <1>1, AllKeys DEF KeyKept
<1>4. ASSUME NEW a \in Callers PROVE CallerOK(a)'
  <2>1. CASE a = c
    <3>1. caller[c] \in Requests /\ CallerOK(c) /\ caller[c].key \in Keys
      BY <1>1 DEF IInv, TypeOK, CallerOK
    <3>2. \/ caller'[c] = Idle
          \/ /\ caller'[c] = [caller[c] EXCEPT !.step = "mark"]
             /\ <<caller[c].key, caller[c].cert>> \in caRevoked'
      BY <1>1 DEF TypeOK
    <3>3. QED
      BY <2>1, <1>1, <3>1, <3>2, NoRequest DEF CallerOK, Requests
  <2>2. CASE a # c
    BY <2>2, <1>1, KeepCaller DEF IInv, CallerOK, TypeOK
  <2>3. QED
    BY <2>1, <2>2
<1>5. SlotOK' /\ DownOK' /\ IssuerOK'
  BY <1>1 DEF SlotOK, DownOK, IssuerOK, IssuerFence
<1>6. QED
  BY <1>2, <1>3, <1>4, <1>5 DEF IInv

\* Nothing but the history changes.
LEMMA RevokeAgainStep ==
  ASSUME IInv, NEW k \in Keys, RevokeAgain(k)
  PROVE  IInv'
<1> USE DEF RevokeAgain, Request, Leave, files, history, Known
<1>1. TypeOK /\ SlotOK /\ IssuerOK /\ up /\ up'
  BY DEF IInv
<1>2. TypeOK'
  BY <1>1 DEF TypeOK
<1>3. (\A l \in Keys : KeyOK(l))'
  BY <1>1, AllKeys DEF KeyKept
<1>4. ASSUME NEW a \in Callers PROVE CallerOK(a)'
  BY <1>1, KeepCaller DEF IInv, CallerOK
<1>5. SlotOK' /\ DownOK' /\ IssuerOK'
  BY <1>1 DEF SlotOK, DownOK, IssuerOK, IssuerFence
<1>6. QED
  BY <1>2, <1>3, <1>4, <1>5 DEF IInv

\* The certificate is revoked at its issuer before the job is marked.
LEMMA RevokeMarkStep ==
  ASSUME IInv, NEW c \in Callers, RevokeMark(c)
  PROVE  IInv'
<1> USE DEF RevokeMark, Request, Leave
<1>1. TypeOK /\ SlotOK /\ IssuerOK /\ CallerOK(c) /\ up /\ up'
  BY DEF IInv
<1>k. PICK k \in Keys : k = caller[c].key
  BY <1>1 DEF CallerOK
<1> DEFINE job == [jobs[k] EXCEPT !.status = "revoked"]
<1>2. k \in Keys /\ KeyOK(k) /\ jobs[k] \in Jobs /\ jobs[k].status \in {"issued", "revoked"}
  BY <1>1, <1>k DEF IInv, CallerOK, TypeOK
<1>3. job \in Jobs /\ job.status = "revoked" /\ job.domains = jobs[k].domains
  BY <1>2, SetStatus DEF Jobs, Terminal
<1>4. Update(k, job)
  BY <1>k DEF Update, Save
<1>5. <<k, chain[k]>> \in caRevoked
  BY <1>1, <1>k DEF CallerOK
<1>6. pc[k] = "none"
  BY <1>2 DEF KeyOK, Progress, InFlight
<1>7. /\ jobs' \in [Keys -> Jobs \cup {None}] /\ disk' \in [Keys -> Jobs \cup {None}]
      /\ jobs'[k] = job /\ disk'[k] \in {disk[k], job}
  BY <1>1, <1>2, <1>3, <1>4, UpdateType
<1>8. TypeOK'
  BY <1>1, <1>2, <1>7, NoRequest DEF TypeOK
<1> HIDE DEF job
<1>9. KeyOK(k)'
  BY <1>1, <1>2, <1>3, <1>5, <1>6, <1>7, NoneIsNoJob
     DEF KeyOK, Untouched, Kept, Stays, Truthful, Holds, Terminal
<1>10. ASSUME NEW l \in Keys \ {k} PROVE KeyKept(l)
  BY <1>1, <1>4 DEF KeyKept, TypeOK, Update, Save
<1>11. ASSUME NEW l \in Keys PROVE KeyOK(l)'
  BY <1>1, <1>9, <1>10, KeepKey
<1>12. ASSUME NEW a \in Callers PROVE CallerOK(a)'
  <2>1. CASE a = c
    BY <2>1, <1>1, NoRequest DEF CallerOK, TypeOK
  <2>2. CASE a # c
    <3>1. caller'[a] = caller[a] /\ CallerOK(a)
      BY <2>2, <1>1 DEF IInv, TypeOK
    <3>2. caller[a].step # "idle" =>
             /\ jobs'[caller[a].key] # None
             /\ jobs'[caller[a].key].status \in {"issued", "revoked"}
      BY <3>1, <1>3, <1>7, <1>10, NoneIsNoJob DEF CallerOK, KeyKept
    <3>3. QED
      BY <3>1, <3>2, <1>1, KeepCaller
  <2>3. QED
    BY <2>1, <2>2
<1>13. SlotOK' /\ DownOK' /\ IssuerOK'
  BY <1>1 DEF SlotOK, DownOK, IssuerOK, IssuerFence
<1>14. QED
  BY <1>8, <1>11, <1>12, <1>13 DEF IInv

\* An attempt that has not called its issuer yet may use the new one.
LEMMA SetIssuerStep ==
  ASSUME IInv, NEW i \in Issuers, SetIssuer(i)
  PROVE  IInv'
<1> USE DEF SetIssuer, files
<1>1. TypeOK /\ SlotOK /\ IssuerOK /\ up /\ up'
  BY DEF IInv
<1>2. TypeOK'
  BY <1>1 DEF TypeOK
<1>3. (\A l \in Keys : KeyOK(l))'
  BY <1>1, AllKeys DEF KeyKept
<1>4. ASSUME NEW a \in Callers PROVE CallerOK(a)'
  BY <1>1, KeepCaller DEF IInv, CallerOK
<1>5. SlotOK' /\ DownOK' /\ IssuerOK'
  BY <1>1 DEF SlotOK, DownOK, IssuerOK, IssuerFence, TypeOK
<1>6. QED
  BY <1>2, <1>3, <1>4, <1>5 DEF IInv

LEMMA CloseStep ==
  ASSUME IInv, Close
  PROVE  IInv'
<1> USE DEF Close, files, history
<1>1. TypeOK /\ SlotOK /\ IssuerOK /\ up /\ up'
  BY DEF IInv
<1>2. TypeOK' /\ SlotOK' /\ DownOK' /\ IssuerOK'
  BY <1>1 DEF TypeOK, SlotOK, DownOK, IssuerOK, IssuerFence
<1>3. (\A l \in Keys : KeyOK(l))'
  BY <1>1, AllKeys DEF KeyKept
<1>4. ASSUME NEW a \in Callers PROVE CallerOK(a)'
  BY <1>1, KeepCaller DEF IInv, CallerOK
<1>5. QED
  BY <1>2, <1>3, <1>4 DEF IInv

-----------------------------------------------------------------------------
(* A crash loses what was in memory; a restart gives up what was under way. *)

LEMMA CrashStep ==
  ASSUME IInv, Crash
  PROVE  IInv'
<1> USE DEF Crash, files, history
<1>1. TypeOK
  BY DEF IInv
<1>2. TypeOK'
  BY <1>1, NoRequest DEF TypeOK, Labels
<1>3. ASSUME NEW k \in Keys PROVE KeyOK(k)'
  BY DEF IInv, KeyOK, Untouched, Kept, Truthful, Holds
<1>4. (\A c \in Callers : CallerOK(c))'
  BY NoRequest DEF CallerOK
<1>5. SlotOK' /\ DownOK' /\ IssuerOK'
  BY DEF SlotOK, DownOK, IssuerOK, IssuerFence
<1>6. QED
  BY <1>2, <1>3, <1>4, <1>5 DEF IInv

LEMMA LoadStep ==
  ASSUME IInv, NEW i \in Issuers, Load(i)
  PROVE  IInv'
<1> USE DEF Load, Save
<1>1. TypeOK /\ SlotOK /\ DownOK /\ IssuerOK
  BY DEF IInv
<1>2. ASSUME NEW k \in Keys
      PROVE  /\ Loaded(disk[k]) \in Jobs \cup {None}
             /\ Loaded(disk[k]) = None <=> disk[k] = None
             /\ disk[k] # None =>
                  /\ Loaded(disk[k]).domains = disk[k].domains
                  /\ Loaded(disk[k]).status =
                       IF disk[k].status \in InFlight THEN "failed" ELSE disk[k].status
  <2>1. disk[k] \in Jobs \cup {None}
    BY <1>1 DEF TypeOK
  <2>2. CASE disk[k] = None
    BY <2>2, NoneIsNoJob DEF Loaded
  <2>3. CASE disk[k] \in Jobs
    BY <2>3, SetStatus, NoneIsNoJob DEF Loaded, Jobs, Terminal
  <2>4. QED
    BY <2>1, <2>2, <2>3
<1>3. TypeOK'
  <2>1. jobs' \in [Keys -> Jobs \cup {None}] /\ disk' = jobs'
    BY <1>2
  <2>2. QED
    BY <1>1, <2>1 DEF TypeOK, history
<1>4. ASSUME NEW k \in Keys PROVE KeyOK(k)'
  <2>1. KeyOK(k) /\ jobs'[k] = Loaded(disk[k]) /\ disk'[k] = Loaded(disk[k]) /\ pc'[k] = "none"
    BY <1>1 DEF IInv, KeyOK, Progress
  <2>2. disk'[k] = jobs'[k] /\ (disk[k] = None <=> jobs'[k] = None)
    BY <2>1, <1>2
  <2>3. disk[k] # None =>
          /\ jobs'[k].domains = disk[k].domains
          /\ jobs'[k].status = IF disk[k].status \in InFlight THEN "failed" ELSE disk[k].status
    BY <2>1, <1>2
  <2>4. accepted' = accepted /\ calls' = calls /\ chain' = chain /\ key' = key
        /\ caRevoked' = caRevoked
    BY DEF history
  <2>5. (accepted[k] = None => Untouched(k))' /\ (accepted[k] # None => Kept(k))'
    BY <2>1, <2>2, <2>3, <2>4 DEF KeyOK, Untouched, Kept
  <2>6. Truthful(k, jobs[k])' /\ Truthful(k, disk[k])' /\ Stays(disk[k], jobs[k])'
    BY <2>1, <2>2, <2>3, <2>4 DEF KeyOK, Truthful, Holds, Stays
  <2>7. QED
    BY <2>1, <2>4, <2>5, <2>6 DEF KeyOK
<1>5. ASSUME NEW c \in Callers PROVE CallerOK(c)'
  BY DEF IInv, CallerOK
<1>6. SlotOK' /\ DownOK' /\ IssuerOK'
  BY <1>1 DEF SlotOK, DownOK, IssuerOK, IssuerFence, IInv, KeyOK, Progress
<1>7. QED
  BY <1>3, <1>4, <1>5, <1>6 DEF IInv

-----------------------------------------------------------------------------
LEMMA NextIInv == IInv /\ [Next]_vars => IInv'
<1> SUFFICES ASSUME IInv, [Next]_vars PROVE IInv'
  OBVIOUS
<1>1. ASSUME NEW k \in Keys, Run(k) PROVE IInv'
  BY <1>1, AcquireStep, AttemptStep, CallStep, FinalizeStep, AttemptFailsStep,
     IssuerReturnsStep, WriteChainStep, WriteKeyStep, SucceedStep, FailStep, WakeStep
     DEF Run
<1>2. ASSUME Serve PROVE IInv'
  BY <1>2, StartStep, RenewCheckStep, RenewStartStep, RenewRefusedStep, RevokeCheckStep,
     RevokeAgainStep, RevokeReadStep, RevokeAskStep, RevokeMarkStep, SetIssuerStep, CloseStep
     DEF Serve
<1>3. ASSUME Crash PROVE IInv'
  BY <1>3, CrashStep
<1>4. ASSUME NEW i \in Issuers, Load(i) PROVE IInv'
  BY <1>4, LoadStep
<1>5. CASE UNCHANGED vars
  BY <1>5 DEF vars, files, history, IInv, TypeOK, SlotOK, DownOK, IssuerOK, IssuerFence, KeyOK,
     Untouched, Kept, Stays, Truthful, Holds, Progress, CallerOK
<1>6. QED
  BY <1>1, <1>2, <1>3, <1>4, <1>5 DEF Next

LEMMA Invariance == Spec => []IInv
BY InitIInv, NextIInv, PTL DEF Spec

-----------------------------------------------------------------------------
\* Every reachable state of the manager is well typed: run never counts an
\* attempt beyond max_attempts and one goroutine holds the work slot.
THEOREM TypeCorrect == Spec => []TypeOK
<1>1. IInv => TypeOK
  BY DEF IInv
<1>2. QED
  BY <1>1, Invariance, PTL

\* The issuer is called at most max_attempts times for an idempotency key,
\* over any number of submissions and restarts.
THEOREM BoundedAttempts == Spec => []AttemptBound
<1>1. IInv => AttemptBound
  BY DEF IInv, AttemptBound, KeyOK
<1>2. QED
  BY <1>1, Invariance, PTL

\* A job that Start accepted is in memory and in state.json ever after.
THEOREM JobsAreKept == Spec => []NoJobForgotten
<1>1. IInv => NoJobForgotten
  BY DEF IInv, NoJobForgotten, KeyOK, Kept
<1>2. QED
  BY <1>1, Invariance, PTL

\* An issued or revoked job has a chain and the key that belongs to it, also
\* after a crash between any two writes.
THEOREM CertificateFiles == Spec => []FilesMatch
<1>1. IInv => FilesMatch
  BY DEF IInv, FilesMatch, KeyOK, Truthful
<1>2. QED
  BY <1>1, Invariance, PTL

\* A job is marked revoked only after its issuer revoked the certificate it
\* serves.
THEOREM MarkedIsRevoked == Spec => []RevokedAtIssuer
<1>1. IInv => RevokedAtIssuer
  BY DEF IInv, RevokedAtIssuer, KeyOK, Truthful
<1>2. QED
  BY <1>1, Invariance, PTL

\* An attempt signs with an issuer that was in force during the attempt.
THEOREM NoStaleIssuer == Spec => []IssuerFence
<1>1. IInv => IssuerFence
  BY DEF IInv, IssuerOK
<1>2. QED
  BY <1>1, Invariance, PTL

-----------------------------------------------------------------------------
(* A job's end is final.                                                   *)

\* While the process runs, only jobs in flight change their status, except
\* that issued ones may become revoked; saving writes what is in memory.
LEMMA FinalInMemory ==
  ASSUME IInv, [Next]_vars, up, up', NEW l \in Keys
  PROVE  Stays(jobs[l], jobs'[l]) /\ disk'[l] \in {disk[l], jobs'[l]}
<1> USE DEF Stays
<1>1. TypeOK /\ KeyOK(l) /\ \A k \in Keys : KeyOK(k)
  BY DEF IInv
<1>2. ASSUME UNCHANGED <<jobs, disk>> PROVE Stays(jobs[l], jobs'[l]) /\ disk'[l] \in {disk[l], jobs'[l]}
  BY <1>2
<1>3. ASSUME NEW k \in Keys, Run(k) PROVE Stays(jobs[l], jobs'[l]) /\ disk'[l] \in {disk[l], jobs'[l]}
  <2>1. jobs[k] # None /\ jobs[k].status \in InFlight
    BY <1>1, <1>3 DEF Run, Acquire, Attempt, Call, Finalize, AttemptFails, IssuerReturns, WriteChain,
       WriteKey, Succeed, Fail, Wake, At, KeyOK, Progress
  <2>2. disk' = disk \/ disk' = jobs'
    BY <1>3 DEF Run, Acquire, Attempt, Call, Finalize, AttemptFails, IssuerReturns, WriteChain,
       WriteKey, Succeed, Fail, Wake, files, Update, Save
  <2>3. l = k \/ jobs'[l] = jobs[l]
    BY <1>1, <1>3 DEF Run, Acquire, Attempt, Call, Finalize, AttemptFails, IssuerReturns, WriteChain,
       WriteKey, Succeed, Fail, Wake, Update, TypeOK
  <2>4. QED
    BY <2>1, <2>2, <2>3 DEF InFlight, Terminal
<1>4. ASSUME Serve PROVE Stays(jobs[l], jobs'[l]) /\ disk'[l] \in {disk[l], jobs'[l]}
  <2>1. ASSUME NEW k \in Keys, NEW d, Create(k, d)
        PROVE  Stays(jobs[l], jobs'[l]) /\ disk'[l] \in {disk[l], jobs'[l]}
    BY <1>1, <2>1 DEF Create, Save, TypeOK
  <2>2. ASSUME NEW c \in Callers, RenewStart(c)
        PROVE  Stays(jobs[l], jobs'[l]) /\ disk'[l] \in {disk[l], jobs'[l]}
    BY <2>1, <2>2 DEF RenewStart, Request, IInv, CallerOK
  <2>3. ASSUME NEW c \in Callers, RevokeMark(c)
        PROVE  Stays(jobs[l], jobs'[l]) /\ disk'[l] \in {disk[l], jobs'[l]}
    <3>1. PICK k \in Keys : /\ k = caller[c].key /\ jobs[k] \in Jobs
                            /\ jobs[k].status \in {"issued", "revoked"}
      BY <1>1, <2>3 DEF RevokeMark, Request, IInv, CallerOK, TypeOK
    <3>2. /\ [jobs[k] EXCEPT !.status = "revoked"] \in Jobs
          /\ [jobs[k] EXCEPT !.status = "revoked"].status = "revoked"
      BY <3>1, SetStatus DEF Terminal, Jobs
    <3>3. jobs' = [jobs EXCEPT ![k] = [jobs[k] EXCEPT !.status = "revoked"]]
      BY <1>1, <2>3, <3>1 DEF RevokeMark, TypeOK
    <3>4. disk' = disk \/ disk' = jobs'
      BY <2>3 DEF RevokeMark, Save
    <3>5. QED
      BY <1>1, <3>1, <3>2, <3>3, <3>4, NoneIsNoJob DEF TypeOK, Terminal
  <2>4. QED
    BY <1>2, <1>4, <2>1, <2>2, <2>3 DEF Serve, Start, RenewCheck, RenewRefused, RevokeCheck, RevokeAgain,
       RevokeRead, RevokeAsk, SetIssuer, Close, files
<1>5. QED
  BY <1>2, <1>3, <1>4 DEF Next, vars, files, Crash, Load

\* A restart does not touch what had ended.
LEMMA FinalOnDisk ==
  ASSUME IInv, [Next]_vars, NEW l \in Keys
  PROVE  Stays(disk[l], disk'[l])
<1>1. CASE up /\ up'
  <2>1. Stays(jobs[l], jobs'[l]) /\ disk'[l] \in {disk[l], jobs'[l]}
    BY <1>1, FinalInMemory
  <2>2. Stays(disk[l], jobs[l])
    BY <1>1 DEF IInv, KeyOK
  <2>3. QED
    BY <2>1, <2>2 DEF Stays, Terminal
<1>2. CASE ~up
  <2>1. (\E i \in Issuers : Load(i)) \/ UNCHANGED vars
    BY <1>2 DEF Next, Run, Acquire, Attempt, Call, Finalize, AttemptFails, IssuerReturns, WriteChain,
       WriteKey, Succeed, Fail, Wake, At, Serve, Start, RenewCheck, RenewStart, RenewRefused,
       RevokeCheck, RevokeAgain, RevokeRead, RevokeAsk, RevokeMark, Request, SetIssuer, Close, Crash
  <2>2. disk'[l] = disk[l] \/ disk'[l] = Loaded(disk[l])
    BY <2>1 DEF Load, Save, vars, files
  <2>3. QED
    BY <2>2 DEF Loaded, Stays, Terminal, InFlight
<1>3. CASE up /\ ~up'
  <2>1. disk' = disk
    BY <1>3 DEF Next, Run, Acquire, Attempt, Call, Finalize, AttemptFails, IssuerReturns, WriteChain,
       WriteKey, Succeed, Fail, Wake, Serve, Start, RenewCheck, RenewStart, RenewRefused, RevokeCheck,
       RevokeAgain, RevokeRead, RevokeAsk, RevokeMark, SetIssuer, Close, Crash, Load, vars, files
  <2>2. QED
    BY <2>1 DEF Stays
<1>4. QED
  BY <1>1, <1>2, <1>3

\* A failed or revoked job stays so and an issued one is at most revoked, in
\* memory until the process ends and in the state file forever.
THEOREM EndIsFinal == Spec => TerminalStays
<1>1. IInv /\ [Next]_vars => [Ended]_vars
  BY FinalInMemory, FinalOnDisk DEF Ended
<1>2. QED
  BY <1>1, Invariance, PTL DEF Spec, TerminalStays


-----------------------------------------------------------------------------
(* How a job comes to its end.                                             *)

\* A job that is under way has a goroutine.
Attended ==
  \A k \in Keys : jobs[k] # None /\ jobs[k].status \in InFlight => pc[k] # "none"

\* How many steps an attempt may still take, sleep included.
StepsLeft ==
  [label \in Labels |->
     CASE label = "attempt"    -> 2
       [] label = "queued"     -> 3
       [] label = "sleeping"   -> 3
       [] label = "failing"    -> 4
       [] label = "issued"     -> 5
       [] label = "key"        -> 6
       [] label = "chain"      -> 7
       [] label = "finalizing" -> 8
       [] label = "issuing"    -> 9
       [] label = "call"       -> 10
       [] OTHER                -> 0]

\* The steps the goroutine of k has at most before it, the attempts that its
\* job has left included.
JobRank(k) ==
  IF pc[k] = "none" THEN 0 ELSE StepsLeft[pc[k]] + 9 * (MaxAttempts - jobs[k].attempt)

\* A step of k's goroutine lowers its rank, and the goroutine ends with the job
\* issued or failed.
Advances(k) ==
  /\ JobRank(k) \in Nat /\ JobRank(k)' \in Nat
  /\ JobRank(k)' < JobRank(k)
  /\ pc'[k] = "none" => jobs'[k] # None /\ jobs'[k].status \in {"issued", "failed"}

\* One step of the manager, as far as the end of its jobs goes.
Nearer ==
  \A k \in Keys : up /\ up' /\ pc[k] # "none" =>
    \/ Advances(k)
    \/ /\ ~Run(k)
       /\ pc'[k] = pc[k]
       /\ jobs'[k] = jobs[k]

LEMMA RankIsNat ==
  ASSUME IInv, NEW k \in Keys, pc[k] # "none"
  PROVE  /\ jobs[k] \in Jobs /\ jobs[k].attempt \in 0 .. MaxAttempts
         /\ pc[k] \in Labels /\ StepsLeft[pc[k]] \in 2 .. 10
         /\ JobRank(k) \in Nat
<1>1. jobs[k] \in Jobs /\ pc[k] \in Labels
  BY DEF IInv, TypeOK, KeyOK, Progress
<1>2. jobs[k].attempt \in 0 .. MaxAttempts
  BY <1>1 DEF Jobs, Attempts
<1>3. StepsLeft[pc[k]] \in 2 .. 10
  BY <1>1 DEF Labels, StepsLeft
<1>4. JobRank(k) \in Nat
  BY <1>2, <1>3, MaxAttemptsAssumption DEF JobRank
<1> QED
  BY <1>1, <1>2, <1>3, <1>4

LEMMA StepsLeftOf ==
  /\ StepsLeft["attempt"] = 2 /\ StepsLeft["queued"] = 3 /\ StepsLeft["sleeping"] = 3
  /\ StepsLeft["failing"] = 4 /\ StepsLeft["issued"] = 5 /\ StepsLeft["key"] = 6
  /\ StepsLeft["chain"] = 7 /\ StepsLeft["finalizing"] = 8 /\ StepsLeft["issuing"] = 9
  /\ StepsLeft["call"] = 10
BY DEF StepsLeft, Labels

\* An attempt begins: one less is left, which outweighs its own steps.
LEMMA AttemptAdvances ==
  ASSUME IInv, NEW k \in Keys, Attempt(k)
  PROVE  Advances(k)
<1>1. pc[k] = "attempt" /\ pc'[k] = "call" /\ jobs[k].attempt < MaxAttempts
  BY DEF Attempt, At, Goto, IInv, TypeOK, KeyOK, Progress
<1>2. jobs[k] \in Jobs /\ jobs[k].attempt \in 0 .. MaxAttempts
  BY <1>1, RankIsNat
<1> DEFINE job == [jobs[k] EXCEPT !.status = "validating", !.attempt = @ + 1]
<1>3. jobs'[k] = job
  BY DEF Attempt, Update, IInv, TypeOK
<1>4. job.attempt = jobs[k].attempt + 1
  BY <1>2 DEF Jobs
<1> HIDE DEF job
<1>5. JobRank(k) = 2 + 9 * (MaxAttempts - jobs[k].attempt)
  BY <1>1, StepsLeftOf DEF JobRank
<1>6. JobRank(k)' = 10 + 9 * (MaxAttempts - jobs'[k].attempt)
  BY <1>1, StepsLeftOf DEF JobRank, StepsLeft
<1> QED
  BY <1>1, <1>2, <1>3, <1>4, <1>5, <1>6, MaxAttemptsAssumption DEF Advances

LEMMA SameAttempt ==
  ASSUME NEW job \in Jobs, NEW s
  PROVE  /\ [job EXCEPT !.status = s].attempt = job.attempt
         /\ [job EXCEPT !.status = s].status = s
BY DEF Jobs

\* A step within an attempt.
LEMMA StepAdvances ==
  ASSUME IInv, NEW k \in Keys, pc[k] # "none", pc'[k] \in Labels \ {"none"},
         StepsLeft[pc'[k]] < StepsLeft[pc[k]],
         jobs'[k].attempt = jobs[k].attempt
  PROVE  Advances(k)
<1>1. jobs[k].attempt \in 0 .. MaxAttempts /\ StepsLeft[pc[k]] \in 2 .. 10
  BY RankIsNat
<1>2. StepsLeft[pc'[k]] \in 2 .. 10
  BY DEF Labels, StepsLeft
<1>3. JobRank(k) = StepsLeft[pc[k]] + 9 * (MaxAttempts - jobs[k].attempt)
  BY DEF JobRank
<1>4. JobRank(k)' = StepsLeft[pc'[k]] + 9 * (MaxAttempts - jobs[k].attempt)
  BY DEF JobRank, StepsLeft
<1> QED
  BY <1>1, <1>2, <1>3, <1>4, MaxAttemptsAssumption DEF Advances

\* The goroutine ends.
LEMMA EndAdvances ==
  ASSUME IInv, NEW k \in Keys, pc[k] # "none", pc'[k] = "none",
         jobs'[k] # None, jobs'[k].status \in {"issued", "failed"}
  PROVE  Advances(k)
<1>1. jobs[k].attempt \in 0 .. MaxAttempts /\ StepsLeft[pc[k]] \in 2 .. 10
  BY RankIsNat
<1>2. JobRank(k) = StepsLeft[pc[k]] + 9 * (MaxAttempts - jobs[k].attempt) /\ JobRank(k)' = 0
  BY DEF JobRank
<1> QED
  BY <1>1, <1>2, MaxAttemptsAssumption DEF Advances

LEMMA RunAdvances ==
  ASSUME IInv, NEW k \in Keys, Run(k)
  PROVE  Advances(k)
<1>1. TypeOK /\ pc[k] \in Labels \ {"none"}
  BY DEF IInv, TypeOK, Labels, Run, Acquire, Attempt, Call, Finalize, AttemptFails, IssuerReturns,
     WriteChain, WriteKey, Succeed, Fail, Wake, At
<1>2. jobs[k] \in Jobs
  BY <1>1, RankIsNat
<1>3. ASSUME NEW s, Update(k, [jobs[k] EXCEPT !.status = s])
      PROVE  jobs'[k] = [jobs[k] EXCEPT !.status = s] /\ jobs'[k].attempt = jobs[k].attempt
             /\ jobs'[k].status = s
  BY <1>1, <1>2, <1>3, SameAttempt DEF Update, TypeOK
<1>4. CASE Attempt(k)
  BY <1>4, AttemptAdvances
<1>5. CASE Acquire(k) \/ Call(k) \/ AttemptFails(k) \/ IssuerReturns(k)
           \/ WriteChain(k) \/ WriteKey(k) \/ Wake(k)
  <2>1. jobs' = jobs
    BY <1>5 DEF Acquire, Call, AttemptFails, IssuerReturns, WriteChain, WriteKey, Wake
  <2>2. pc'[k] \in Labels \ {"none"} /\ StepsLeft[pc'[k]] < StepsLeft[pc[k]]
    BY <1>1, <1>5, StepsLeftOf DEF Acquire, Call, AttemptFails, IssuerReturns, WriteChain,
       WriteKey, Wake, At, Goto, TypeOK, Labels
  <2> QED
    BY <1>1, <2>1, <2>2, StepAdvances
<1>6. CASE Finalize(k)
  <2>1. pc[k] = "issuing" /\ pc'[k] = "finalizing"
    BY <1>1, <1>6 DEF Finalize, At, Goto, TypeOK
  <2>2. jobs'[k].attempt = jobs[k].attempt
    BY <1>3, <1>6 DEF Finalize
  <2> QED
    BY <1>1, <2>1, <2>2, StepsLeftOf, StepAdvances DEF Labels
<1>7. CASE Succeed(k)
  <2>1. pc'[k] = "none"
    BY <1>1, <1>7 DEF Succeed, Return, Goto, TypeOK
  <2>2. jobs'[k] = [jobs[k] EXCEPT !.status = "issued"] /\ jobs'[k].status = "issued"
    BY <1>3, <1>7 DEF Succeed
  <2>3. jobs'[k] \in Jobs
    BY <1>2, <2>2, SetStatus DEF Terminal
  <2> QED
    BY <1>1, <2>1, <2>2, <2>3, NoneIsNoJob, EndAdvances
<1>8. CASE Fail(k)
  <2>1. CASE LastAttempt(k)
    <3>1. pc'[k] = "none" /\ Update(k, [jobs[k] EXCEPT !.status = "failed"])
      BY <1>1, <1>8, <2>1 DEF Fail, Return, Goto, TypeOK
    <3>2. jobs'[k] = [jobs[k] EXCEPT !.status = "failed"] /\ jobs'[k].status = "failed"
      BY <1>3, <3>1
    <3>3. jobs'[k] \in Jobs
      BY <1>2, <3>2, SetStatus DEF Terminal
    <3> QED
      BY <1>1, <3>1, <3>2, <3>3, NoneIsNoJob, EndAdvances
  <2>2. CASE ~LastAttempt(k)
    <3>1. pc[k] = "failing" /\ pc'[k] = "sleeping"
          /\ Update(k, [jobs[k] EXCEPT !.status = "pending"])
      BY <1>1, <1>8, <2>2 DEF Fail, At, Goto, TypeOK
    <3>2. jobs'[k].attempt = jobs[k].attempt
      BY <1>3, <3>1
    <3> QED
      BY <1>1, <3>1, <3>2, StepsLeftOf, StepAdvances DEF Labels
  <2> QED
    BY <2>1, <2>2
<1> QED
  BY <1>4, <1>5, <1>6, <1>7, <1>8 DEF Run

LEMMA RunIsUp ==
  ASSUME NEW k \in Keys, Run(k)
  PROVE  up /\ up'
<1>1. CASE Acquire(k) \/ Attempt(k) \/ Call(k) \/ Finalize(k) \/ AttemptFails(k)
  BY <1>1 DEF Acquire, Attempt, Call, Finalize, AttemptFails, At
<1>2. CASE IssuerReturns(k) \/ WriteChain(k) \/ WriteKey(k)
  BY <1>2 DEF IssuerReturns, WriteChain, WriteKey, At
<1>3. CASE Succeed(k) \/ Fail(k) \/ Wake(k)
  BY <1>3 DEF Succeed, Fail, Wake, At
<1> QED
  BY <1>1, <1>2, <1>3 DEF Run

\* The requests that touch jobs are those that create one and the last step of
\* a revocation.
LEMMA ServeJobs ==
  ASSUME Serve
  PROVE  /\ up /\ up'
         /\ \/ jobs' = jobs /\ pc' = pc
            \/ \E k \in Keys, d \in Domains : Start(k, d)
            \/ \E c \in Callers : RenewStart(c) \/ RevokeMark(c)
<1>1. ASSUME NEW k \in Keys, NEW d \in Domains, Start(k, d) PROVE up /\ up'
  BY <1>1 DEF Start
<1>2. ASSUME NEW c \in Callers, NEW k \in Keys, NEW new \in Keys, RenewCheck(c, k, new)
      PROVE  up /\ up' /\ jobs' = jobs /\ pc' = pc
  BY <1>2 DEF RenewCheck, Request
<1>3. ASSUME NEW c \in Callers, NEW k \in Keys, RevokeCheck(c, k)
      PROVE  up /\ up' /\ jobs' = jobs /\ pc' = pc
  BY <1>3 DEF RevokeCheck, Request
<1>4. ASSUME NEW c \in Callers, RenewStart(c) \/ RevokeMark(c) PROVE up /\ up'
  BY <1>4 DEF RenewStart, RevokeMark, Request
<1>5. ASSUME NEW c \in Callers, RenewRefused(c) \/ RevokeRead(c) \/ RevokeAsk(c)
      PROVE  up /\ up' /\ jobs' = jobs /\ pc' = pc
  BY <1>5 DEF RenewRefused, RevokeRead, RevokeAsk, Request
<1>6. ASSUME NEW k \in Keys, RevokeAgain(k) PROVE up /\ up' /\ jobs' = jobs /\ pc' = pc
  BY <1>6 DEF RevokeAgain
<1>7. ASSUME NEW i \in Issuers, SetIssuer(i) PROVE up /\ up' /\ jobs' = jobs /\ pc' = pc
  BY <1>7 DEF SetIssuer
<1>8. ASSUME Close PROVE up /\ up' /\ jobs' = jobs /\ pc' = pc
  BY <1>8 DEF Close
<1> QED
  BY <1>1, <1>2, <1>3, <1>4, <1>5, <1>6, <1>7, <1>8 DEF Serve

\* Whatever else happens leaves a job under way and its goroutine alone.
LEMMA OthersWait ==
  ASSUME IInv, [Next]_vars, up, up', NEW k \in Keys, pc[k] # "none", ~Run(k)
  PROVE  pc'[k] = pc[k] /\ jobs'[k] = jobs[k]
<1>1. TypeOK /\ jobs[k] # None /\ jobs[k].status \in InFlight
  BY DEF IInv, KeyOK, Progress
<1>2. ASSUME NEW l \in Keys, Run(l) PROVE pc'[k] = pc[k] /\ jobs'[k] = jobs[k]
  <2>1. l # k
    BY <1>2
  <2> QED
    BY <1>1, <1>2, <2>1 DEF Run, Acquire, Attempt, Call, Finalize, AttemptFails, IssuerReturns,
       WriteChain, WriteKey, Succeed, Fail, Wake, Update, Goto, Return, TypeOK
<1>3. ASSUME NEW l \in Keys, NEW d, Create(l, d) PROVE pc'[k] = pc[k] /\ jobs'[k] = jobs[k]
  <2>1. l # k
    BY <1>1, <1>3 DEF Create
  <2> QED
    BY <1>1, <1>3, <2>1 DEF Create, Goto, TypeOK
<1>4. ASSUME NEW c \in Callers, RenewStart(c) PROVE pc'[k] = pc[k] /\ jobs'[k] = jobs[k]
  BY <1>3, <1>4 DEF RenewStart, Request, IInv, CallerOK
<1>5. ASSUME NEW c \in Callers, RevokeMark(c) PROVE pc'[k] = pc[k] /\ jobs'[k] = jobs[k]
  <2>1. caller[c].key # k
    BY <1>1, <1>5 DEF RevokeMark, Request, IInv, CallerOK, InFlight
  <2> QED
    BY <1>1, <1>5, <2>1 DEF RevokeMark, TypeOK
<1>6. ASSUME Serve PROVE pc'[k] = pc[k] /\ jobs'[k] = jobs[k]
  <2>1. ASSUME NEW l \in Keys, NEW d \in Domains, Start(l, d)
        PROVE  pc'[k] = pc[k] /\ jobs'[k] = jobs[k]
    BY <1>3, <2>1 DEF Start
  <2> QED
    BY <1>4, <1>5, <1>6, <2>1, ServeJobs
<1> QED
  BY <1>2, <1>6 DEF Next, Crash, Load, vars

\* While the process runs, every step of the goroutine of a job brings the job
\* nearer to its end, which is to be issued or failed, and nothing else
\* touches either: the safe half of JobsEnd ((*Manager).run).
THEOREM JobsGetNearer == Spec => [][Nearer]_vars
<1>1. IInv /\ [Next]_vars => [Nearer]_vars
  BY RunAdvances, OthersWait DEF Nearer
<1> QED
  BY <1>1, Invariance, PTL DEF Spec

LEMMA AttendedStep == IInv /\ Attended /\ [Next]_vars => Attended'
<1> SUFFICES ASSUME IInv, Attended, [Next]_vars, NEW k \in Keys,
                    jobs'[k] # None, jobs'[k].status \in InFlight
             PROVE  pc'[k] # "none"
  BY DEF Attended
<1>1. TypeOK /\ KeyOK(k)
  BY DEF IInv
<1>2. CASE up /\ up' /\ pc[k] # "none"
  <2>1. Nearer
    BY <1>2, RunAdvances, OthersWait DEF Nearer
  <2> QED
    BY <1>2, <2>1 DEF Nearer, Advances, InFlight
<1>3. CASE up /\ up' /\ pc[k] = "none"
  <2>1. ~Run(k)
    BY <1>3 DEF Run, Acquire, Attempt, Call, Finalize, AttemptFails, IssuerReturns,
       WriteChain, WriteKey, Succeed, Fail, Wake, At
  <2>2. ASSUME pc'[k] = "none" PROVE FALSE
    <3>1. Stays(jobs[k], jobs'[k])
      BY <1>3, FinalInMemory
    <3>2. jobs[k] # None => jobs[k].status \in Terminal
      BY <1>1, <1>3 DEF Attended, TypeOK, Jobs
    <3>3. jobs[k] = None
      BY <3>1, <3>2 DEF Stays, Terminal, InFlight
    <3>4. ASSUME NEW l \in Keys, NEW d, Create(l, d) PROVE FALSE
      BY <1>1, <2>2, <3>3, <3>4 DEF Create, Goto, TypeOK
    <3>5. ASSUME NEW l \in Keys, Run(l) PROVE FALSE
      BY <1>1, <2>1, <3>3, <3>5 DEF Run, Acquire, Attempt, Call, Finalize, AttemptFails, IssuerReturns,
         WriteChain, WriteKey, Succeed, Fail, Wake, Update, TypeOK
    <3>6. ASSUME NEW c \in Callers, RenewStart(c) \/ RevokeMark(c) PROVE FALSE
      BY <1>1, <3>3, <3>4, <3>6 DEF RenewStart, RevokeMark, Request, IInv, CallerOK, TypeOK
    <3>7. ASSUME Serve PROVE jobs' = jobs
      <4>1. ~\E l \in Keys, d \in Domains : Start(l, d)
        BY <3>4 DEF Start
      <4> QED
        BY <3>6, <3>7, <4>1, ServeJobs
    <3>8. jobs' = jobs
      BY <1>3, <3>5, <3>7 DEF Next, Crash, Load, vars
    <3> QED
      BY <3>3, <3>8
  <2> QED
    BY <2>2
<1>4. CASE ~up'
  BY <1>4, NextIInv DEF IInv, DownOK
<1>5. CASE ~up /\ up'
  <2>1. ~(\E l \in Keys : Run(l)) /\ ~Serve
    BY <1>5, RunIsUp, ServeJobs
  <2>2. PICK i \in Issuers : Load(i)
    BY <1>5, <2>1 DEF Next, Crash, vars
  <2>3. jobs'[k] = Loaded(disk[k]) /\ disk[k] \in Jobs \cup {None}
    BY <1>1, <2>2 DEF Load, TypeOK
  <2>4. CASE disk[k] # None /\ disk[k].status \in InFlight
    BY <2>3, <2>4, SameAttempt DEF Loaded, InFlight
  <2> QED
    BY <2>3, <2>4 DEF Loaded
<1> QED
  BY <1>2, <1>3, <1>4, <1>5

\* A job that is under way in memory has a goroutine that drives it on: none
\* waits for ever for one that a crash or a restart took away (Start, load).
THEOREM JobsAreAttended == Spec => []Attended
<1>1. Init => Attended
  BY DEF Init, Attended
<1> QED
  BY <1>1, AttendedStep, Invariance, PTL DEF Spec

=============================================================================
