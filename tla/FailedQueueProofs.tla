------------------------- MODULE FailedQueueProofs --------------------------
(***************************************************************************)
(* Theorems about FailedQueue, for any number of batches, drain requests,  *)
(* reloads and faults and any limits of the queue.                         *)
(***************************************************************************)
EXTENDS FailedQueue, TLAPS

-----------------------------------------------------------------------------
(* Sequences of entries: what they hold, and that it is distinct.          *)

\* What is left of a queue without its first n entries.
Rest(queue, n) == SubSeq(queue, n + 1, Len(queue))

LEMMA SubSeqIsSeq ==
  ASSUME NEW s \in Seq(Entries), NEW m \in Nat \ {0}, NEW n \in 0..Len(s)
  PROVE  /\ SubSeq(s, m, n) \in Seq(Entries)
         /\ Len(SubSeq(s, m, n)) = IF m <= n THEN n - m + 1 ELSE 0
         /\ \A i \in 1..Len(SubSeq(s, m, n)) : SubSeq(s, m, n)[i] = s[m + i - 1]
  OBVIOUS

LEMMA SubSeqHolds ==
  ASSUME NEW s \in Seq(Entries), NEW m \in Nat \ {0}, NEW n \in 0..Len(s)
  PROVE  /\ Held(SubSeq(s, m, n)) = {s[i].batch : i \in m..n}
         /\ Distinct(s) => Distinct(SubSeq(s, m, n))
<1> DEFINE t == SubSeq(s, m, n)
<1>1. /\ t \in Seq(Entries)
      /\ Len(t) = IF m <= n THEN n - m + 1 ELSE 0
      /\ \A i \in 1..Len(t) : t[i] = s[m + i - 1]
  BY SubSeqIsSeq
<1> HIDE DEF t
<1>2. DOMAIN t = 1..Len(t) /\ DOMAIN s = 1..Len(s) /\ Len(s) \in Nat
  BY <1>1
<1>3. ASSUME NEW i \in m..n PROVE i - m + 1 \in DOMAIN t /\ t[i - m + 1] = s[i]
  BY <1>1, <1>2
<1>4. Held(t) = {s[i].batch : i \in m..n}
  <2>1. ASSUME NEW i \in DOMAIN t PROVE m + i - 1 \in m..n /\ t[i] = s[m + i - 1]
    BY <1>1, <1>2
  <2> QED BY <2>1, <1>3 DEF Held
<1>5. ASSUME Distinct(s) PROVE Distinct(t)
  <2> SUFFICES ASSUME NEW i \in DOMAIN t, NEW j \in DOMAIN t, t[i].batch = t[j].batch
               PROVE  i = j
    BY DEF Distinct
  <2>1. /\ m + i - 1 \in DOMAIN s /\ t[i] = s[m + i - 1]
        /\ m + j - 1 \in DOMAIN s /\ t[j] = s[m + j - 1]
    BY SMTT(30), <1>1, <1>2
  <2>2. m + i - 1 = m + j - 1
    BY <2>1, <1>5 DEF Distinct
  <2>3. i \in Int /\ j \in Int
    BY <1>2
  <2> QED BY <2>2, <2>3
<1> QED BY <1>4, <1>5 DEF t

LEMMA ConcatHolds ==
  ASSUME NEW s \in Seq(Entries), NEW t \in Seq(Entries)
  PROVE  /\ s \o t \in Seq(Entries)
         /\ Len(s \o t) = Len(s) + Len(t)
         /\ Held(s \o t) = Held(s) \cup Held(t)
         /\ Distinct(s) /\ Distinct(t) /\ Held(s) \cap Held(t) = {} => Distinct(s \o t)
<1> DEFINE u == s \o t
<1>1. /\ u \in Seq(Entries) /\ Len(u) = Len(s) + Len(t)
      /\ Len(s) \in Nat /\ Len(t) \in Nat
      /\ \A i \in 1..Len(s) : u[i] = s[i]
      /\ \A i \in 1..Len(t) : u[Len(s) + i] = t[i]
  OBVIOUS
<1> HIDE DEF u
<1>2. DOMAIN u = 1..Len(u) /\ DOMAIN s = 1..Len(s) /\ DOMAIN t = 1..Len(t)
  BY <1>1
<1>3. \A i \in DOMAIN u : \/ i \in DOMAIN s /\ u[i] = s[i]
                          \/ i - Len(s) \in DOMAIN t /\ u[i] = t[i - Len(s)]
  BY <1>1, <1>2
<1>4. Held(u) = Held(s) \cup Held(t)
  <2>1. Held(u) \subseteq Held(s) \cup Held(t)
    BY <1>3 DEF Held
  <2>2. \A i \in DOMAIN s : i \in DOMAIN u /\ u[i] = s[i]
    BY <1>1, <1>2
  <2>3. \A i \in DOMAIN t : Len(s) + i \in DOMAIN u /\ u[Len(s) + i] = t[i]
    BY <1>1, <1>2
  <2>4. Held(s) \subseteq Held(u)
    BY <2>2 DEF Held
  <2>5. Held(t) \subseteq Held(u)
    BY <2>3 DEF Held
  <2> QED BY <2>1, <2>4, <2>5
<1>5. ASSUME Distinct(s), Distinct(t), Held(s) \cap Held(t) = {} PROVE Distinct(u)
  <2> SUFFICES ASSUME NEW i \in DOMAIN u, NEW j \in DOMAIN u, u[i].batch = u[j].batch
               PROVE  i = j
    BY DEF Distinct
  <2>1. CASE i \in DOMAIN s /\ u[i] = s[i] /\ j \in DOMAIN s /\ u[j] = s[j]
    BY <2>1, <1>5 DEF Distinct
  <2>2. CASE /\ i - Len(s) \in DOMAIN t /\ u[i] = t[i - Len(s)]
             /\ j - Len(s) \in DOMAIN t /\ u[j] = t[j - Len(s)]
    <3>1. i - Len(s) = j - Len(s)
      BY <2>2, <1>5 DEF Distinct
    <3> QED BY <3>1, <1>1, <1>2
  <2>3. \A k \in DOMAIN s, l \in DOMAIN t : s[k].batch # t[l].batch
    BY <1>5 DEF Held
  <2> QED BY <2>1, <2>2, <2>3, <1>3
<1> QED BY <1>1, <1>4, <1>5 DEF u

LEMMA AppendHolds ==
  ASSUME NEW s \in Seq(Entries), NEW e \in Entries
  PROVE  /\ Append(s, e) \in Seq(Entries)
         /\ Len(Append(s, e)) = Len(s) + 1
         /\ Held(Append(s, e)) = Held(s) \cup {e.batch}
         /\ Distinct(s) /\ e.batch \notin Held(s) => Distinct(Append(s, e))
<1> DEFINE u == Append(s, e)
<1>1. /\ u \in Seq(Entries) /\ Len(u) = Len(s) + 1 /\ Len(s) \in Nat
      /\ \A i \in 1..Len(s) : u[i] = s[i]
      /\ u[Len(s) + 1] = e
  OBVIOUS
<1> HIDE DEF u
<1>2. DOMAIN u = 1..Len(s) + 1 /\ DOMAIN s = 1..Len(s)
  BY <1>1
<1>3. Held(u) = Held(s) \cup {e.batch}
  BY <1>1, <1>2 DEF Held
<1>4. Distinct(s) /\ e.batch \notin Held(s) => Distinct(u)
  BY <1>1, <1>2 DEF Distinct, Held
<1> QED BY <1>1, <1>3, <1>4 DEF u

LEMMA HeadTailHold ==
  ASSUME NEW s \in Seq(Entries), s # << >>
  PROVE  /\ Head(s) \in Entries /\ Tail(s) \in Seq(Entries)
         /\ Len(Tail(s)) = Len(s) - 1
         /\ Held(s) = {Head(s).batch} \cup Held(Tail(s))
         /\ Distinct(s) => Distinct(Tail(s)) /\ Head(s).batch \notin Held(Tail(s))
<1> DEFINE t == Tail(s)
<1>1. /\ Head(s) = s[1] /\ s[1] \in Entries /\ t \in Seq(Entries) /\ Len(t) = Len(s) - 1
      /\ Len(s) \in Nat \ {0}
      /\ \A i \in 1..Len(t) : t[i] = s[i + 1]
  OBVIOUS
<1> HIDE DEF t
<1>2. DOMAIN s = 1..Len(s) /\ DOMAIN t = 1..Len(t)
  BY <1>1
<1>3. Held(s) = {s[1].batch} \cup Held(t)
  <2>1. \A i \in DOMAIN s : i = 1 \/ (i - 1 \in DOMAIN t /\ t[i - 1] = s[i])
    BY <1>1, <1>2
  <2>2. \A i \in DOMAIN t : i + 1 \in DOMAIN s /\ t[i] = s[i + 1]
    BY <1>1, <1>2
  <2>3. 1 \in DOMAIN s
    BY <1>1, <1>2
  <2> QED BY <2>1, <2>2, <2>3 DEF Held
<1>4. \A i \in DOMAIN t : i + 1 \in DOMAIN s /\ i + 1 # 1 /\ t[i] = s[i + 1]
  BY <1>1, <1>2
<1>5. ASSUME Distinct(s) PROVE Distinct(t) /\ s[1].batch \notin Held(t)
  <2>1. ASSUME NEW i \in DOMAIN t, NEW j \in DOMAIN t, t[i].batch = t[j].batch
        PROVE  i = j
    <3>1. i + 1 = j + 1
      BY <1>4, <1>5, <2>1 DEF Distinct
    <3> QED BY <3>1, <1>2
  <2>2. 1 \in DOMAIN s
    BY <1>1, <1>2
  <2>3. \A i \in DOMAIN t : t[i].batch # s[1].batch
    BY <1>4, <1>5, <2>2 DEF Distinct
  <2> QED BY <2>1, <2>3 DEF Distinct, Held
<1> QED BY <1>1, <1>3, <1>5 DEF t

LEMMA SplitHolds ==
  ASSUME NEW s \in Seq(Entries), NEW n \in 0..Len(s)
  PROVE  /\ SubSeq(s, 1, n) \in Seq(Entries) /\ Len(SubSeq(s, 1, n)) = n
         /\ Rest(s, n) \in Seq(Entries) /\ Len(Rest(s, n)) = Len(s) - n
         /\ Held(s) = Held(SubSeq(s, 1, n)) \cup Held(Rest(s, n))
         /\ Distinct(s) => /\ Distinct(SubSeq(s, 1, n)) /\ Distinct(Rest(s, n))
                           /\ Held(SubSeq(s, 1, n)) \cap Held(Rest(s, n)) = {}
<1>1. Len(s) \in Nat /\ DOMAIN s = 1..Len(s) /\ n + 1 \in Nat \ {0} /\ Len(s) \in 0..Len(s)
  OBVIOUS
<1>2. /\ SubSeq(s, 1, n) \in Seq(Entries) /\ Len(SubSeq(s, 1, n)) = n
      /\ Rest(s, n) \in Seq(Entries) /\ Len(Rest(s, n)) = Len(s) - n
  <2>1. SubSeq(s, 1, n) \in Seq(Entries) /\ Len(SubSeq(s, 1, n)) = n
    BY <1>1
  <2>2. /\ Rest(s, n) \in Seq(Entries)
        /\ Len(Rest(s, n)) = IF n + 1 <= Len(s) THEN Len(s) - (n + 1) + 1 ELSE 0
    BY <1>1, SubSeqIsSeq DEF Rest
  <2>3. ASSUME NEW l \in Nat, NEW k \in 0..l
        PROVE  /\ k + 1 <= l => l - (k + 1) + 1 = l - k
               /\ ~(k + 1 <= l) => 0 = l - k
    OBVIOUS
  <2>4. CASE n + 1 <= Len(s)
    BY <2>1, <2>2, <2>3, <2>4, <1>1
  <2>5. CASE ~(n + 1 <= Len(s))
    BY <2>1, <2>2, <2>3, <2>5, <1>1
  <2> QED BY <2>4, <2>5
<1>3. /\ Held(SubSeq(s, 1, n)) = {s[i].batch : i \in 1..n}
      /\ Held(Rest(s, n)) = {s[i].batch : i \in n + 1..Len(s)}
      /\ Distinct(s) => Distinct(SubSeq(s, 1, n)) /\ Distinct(Rest(s, n))
  BY <1>1, SubSeqHolds DEF Rest
<1>4. Held(s) = Held(SubSeq(s, 1, n)) \cup Held(Rest(s, n))
  <2>1. DOMAIN s = 1..n \cup n + 1..Len(s)
    BY <1>1
  <2> QED BY <2>1, <1>3 DEF Held
<1>5. Distinct(s) => Held(SubSeq(s, 1, n)) \cap Held(Rest(s, n)) = {}
  <2>1. \A i \in 1..n, j \in n + 1..Len(s) : i \in DOMAIN s /\ j \in DOMAIN s /\ i # j
    BY <1>1
  <2> QED BY <2>1, <1>3 DEF Distinct
<1> QED BY <1>2, <1>3, <1>4, <1>5

\* A queue kept to its limit loses its oldest entries only.
LEMMA NewestHolds ==
  ASSUME NEW s \in Seq(Entries)
  PROVE  /\ Newest(s) \in Seq(Entries)
         /\ Len(Newest(s)) <= MaxEntries
         /\ Held(Newest(s)) \subseteq Held(s)
         /\ Distinct(s) => Distinct(Newest(s))
         /\ Len(s) <= MaxEntries => Newest(s) = s
<1>1. MaxEntries \in Nat /\ Len(s) \in Nat /\ DOMAIN s = 1..Len(s)
  BY QueueAssumption
<1>2. CASE Len(s) <= MaxEntries
  BY <1>1, <1>2 DEF Newest
<1>3. CASE Len(s) > MaxEntries
  <2> DEFINE m == Len(s) - MaxEntries + 1
  <2>1. m \in Nat \ {0} /\ Len(s) \in 0..Len(s) /\ Newest(s) = SubSeq(s, m, Len(s))
    BY <1>1, <1>3 DEF Newest
  <2>2. /\ Newest(s) \in Seq(Entries)
        /\ Len(Newest(s)) = IF m <= Len(s) THEN Len(s) - m + 1 ELSE 0
    BY <2>1, SubSeqIsSeq
  <2>3. /\ Held(Newest(s)) = {s[i].batch : i \in m..Len(s)}
        /\ Distinct(s) => Distinct(Newest(s))
    BY <2>1, SubSeqHolds
  <2>4. m..Len(s) \subseteq DOMAIN s
    BY <2>1, <1>1
  <2>5. Held(Newest(s)) \subseteq Held(s)
    BY <2>3, <2>4 DEF Held
  <2> QED BY <2>2, <2>3, <2>5, <1>1, <1>3
<1> QED BY <1>1, <1>2, <1>3

LEMMA EntryIsEntry ==
  ASSUME NEW b \in Batches, NEW n \in Nat
  PROVE  Entry(b, n) \in Entries /\ Entry(b, n).batch = b /\ Entry(b, n).attempts = n
  BY DEF Entry, Entries

LEMMA HeldAreBatches == ASSUME NEW s \in Seq(Entries) PROVE Held(s) \subseteq Batches
<1>1. \A i \in DOMAIN s : s[i] \in Entries
  OBVIOUS
<1> QED BY <1>1 DEF Held, Entries

LEMMA EmptyHolds ==
  << >> \in Seq(Entries) /\ Len(<< >>) = 0 /\ Held(<< >>) = {} /\ Distinct(<< >>)
  BY DEF Held, Distinct

-----------------------------------------------------------------------------
(* Every reachable state is well typed.                                    *)

LEMMA Constants ==
  /\ MaxEntries \in Nat \ {0} /\ MaxAttempts \in Nat \ {0}
  /\ MaxReloads \in Nat /\ MaxFaults \in Nat
  /\ Generations \subseteq Nat /\ 1 \in Generations /\ Worker \in Drainers
  /\ 0 \in 0..MaxEntries
  BY QueueAssumption DEF Generations, Drainers

QueuesOK(q) ==
  q \in [Generations -> Seq(Entries)] /\ \A g \in Generations : Len(q[g]) <= MaxEntries

FileOK(f) == f \in [lines : Seq(Entries), cut : BOOLEAN]

DrainOK(r) == r \in Drain /\ Len(r.selected) + Len(r.retained) <= r.taken

LEMMA IdleOK == DrainOK(Idle) /\ DrainOK(Finished)
<1>1. Idle \in Drain /\ Finished \in Drain
  BY Constants, EmptyHolds DEF Drain, Idle, Finished
<1>2. /\ Idle.selected = << >> /\ Idle.retained = << >> /\ Idle.taken = 0
      /\ Finished.selected = << >> /\ Finished.retained = << >> /\ Finished.taken = 0
  BY DEF Idle, Finished
<1> QED BY <1>1, <1>2, EmptyHolds DEF DrainOK

LEMMA LenIsNat == ASSUME NEW s \in Seq(Entries) PROVE Len(s) \in Nat
  OBVIOUS

LEMMA Sums ==
  ASSUME NEW a \in Nat, NEW b \in Nat, NEW c \in Nat, a + b <= c
  PROVE  /\ b <= c
         /\ 0 + (b + a) <= c
         /\ a - 1 + b <= c
         /\ a - 1 + (b + 1) <= c
  OBVIOUS

LEMMA DrainFacts ==
  ASSUME NEW r, DrainOK(r)
  PROVE  /\ r \in Drain /\ r.queue \in Generations
         /\ r.selected \in Seq(Entries) /\ r.retained \in Seq(Entries)
         /\ r.taken \in Nat /\ r.taken <= MaxEntries
         /\ Len(r.selected) \in Nat /\ Len(r.retained) \in Nat
         /\ Len(r.selected) + Len(r.retained) <= r.taken
         /\ Len(r.retained) <= r.taken
<1>1. /\ r \in Drain /\ r.queue \in Generations
      /\ r.selected \in Seq(Entries) /\ r.retained \in Seq(Entries)
      /\ r.taken \in 0..MaxEntries
      /\ Len(r.selected) + Len(r.retained) <= r.taken
  BY DEF DrainOK, Drain
<1>2. Len(r.selected) \in Nat /\ Len(r.retained) \in Nat
  BY <1>1, LenIsNat
<1>3. r.taken \in Nat /\ r.taken <= MaxEntries
  BY <1>1, Constants
<1>4. Len(r.retained) <= r.taken
  BY <1>1, <1>2, <1>3, Sums
<1> QED BY <1>1, <1>2, <1>3, <1>4

LEMMA WritesOK ==
  /\ FileOK(Cut)
  /\ \A f, e : FileOK(f) /\ e \in Entries => \A h \in Appends(f, e) : FileOK(h)
  /\ \A f, q : FileOK(f) /\ q \in Seq(Entries) => \A h \in Rewrites(f, q) : FileOK(h)
  /\ \A q \in Seq(Entries) : FileOK(Lines(q))
<1>1. FileOK(Cut) /\ \A q \in Seq(Entries) : FileOK(Lines(q))
  BY EmptyHolds DEF FileOK, Cut, Lines
<1>2. ASSUME NEW f, NEW e \in Entries, FileOK(f), NEW h \in Appends(f, e) PROVE FileOK(h)
  <2>1. Append(f.lines, e) \in Seq(Entries)
    BY <1>2, AppendHolds DEF FileOK
  <2> QED BY <1>1, <1>2, <2>1 DEF Appends, Appended
<1>3. ASSUME NEW f, NEW q \in Seq(Entries), FileOK(f), NEW h \in Rewrites(f, q) PROVE FileOK(h)
  <2>1. \A n \in 0..Len(q) : SubSeq(q, 1, n) \in Seq(Entries)
    BY SplitHolds
  <2> QED BY <1>1, <1>3, <2>1 DEF Rewrites
<1> QED BY <1>1, <1>2, <1>3

LEMMA MergedOK ==
  ASSUME NEW d \in Drainers, DrainOK(drain[d]), NEW q \in Seq(Entries), Len(q) <= MaxEntries
  PROVE  /\ Merged(d, q) \in Seq(Entries) /\ Len(Merged(d, q)) <= MaxEntries
         /\ drain[d].taken <= Len(q) =>
              Merged(d, q) = drain[d].retained \o Rest(q, drain[d].taken)
<1>1. /\ drain[d].retained \in Seq(Entries) /\ drain[d].selected \in Seq(Entries)
      /\ drain[d].taken \in Nat /\ drain[d].taken <= MaxEntries
      /\ Len(drain[d].retained) <= drain[d].taken
      /\ Len(q) \in Nat /\ Len(drain[d].retained) \in Nat /\ Len(drain[d].selected) \in Nat
      /\ MaxEntries \in Nat
  BY Constants, DrainFacts, LenIsNat
<1>2. CASE Len(q) < drain[d].taken
  <2>1. Merged(d, q) = drain[d].retained
    BY <1>2 DEF Merged
  <2>2. ~(drain[d].taken <= Len(q))
    BY <1>1, <1>2
  <2>3. Len(drain[d].retained) <= MaxEntries
    BY <1>1
  <2> QED BY <1>1, <2>1, <2>2, <2>3
<1>3. CASE ~(Len(q) < drain[d].taken)
  <2>1. Merged(d, q) = drain[d].retained \o Rest(q, drain[d].taken)
    BY <1>3 DEF Merged, Rest
  <2>2. drain[d].taken \in 0..Len(q)
    BY <1>1, <1>3
  <2>3. Rest(q, drain[d].taken) \in Seq(Entries) /\ Len(Rest(q, drain[d].taken)) = Len(q) - drain[d].taken
    BY <2>2, SplitHolds
  <2>6. /\ Merged(d, q) \in Seq(Entries)
        /\ Len(Merged(d, q)) = Len(drain[d].retained) + Len(Rest(q, drain[d].taken))
    BY <1>1, <2>1, <2>3, ConcatHolds
  <2>4. /\ Merged(d, q) \in Seq(Entries)
        /\ Len(Merged(d, q)) = Len(drain[d].retained) + (Len(q) - drain[d].taken)
    BY <2>6, <2>3
  <2>5. Len(drain[d].retained) + (Len(q) - drain[d].taken) <= MaxEntries
    BY <1>1
  <2> QED BY <2>1, <2>4, <2>5
<1> QED BY <1>1, <1>2, <1>3

LEMMA TypeParts ==
  TypeOK <=>
    /\ up \in BOOLEAN
    /\ current \in Generations
    /\ QueuesOK(entries)
    /\ FileOK(file)
    /\ sent \in [Batches -> Sent]
    /\ drain \in [Drainers -> Drain]
    /\ \A d \in Drainers : DrainOK(drain[d])
    /\ faults \in 0..MaxFaults
    /\ tries \in [Batches -> Nat]
    /\ acked \subseteq Batches
    /\ dropped \subseteq Batches
    /\ upset \subseteq Upset
  BY DEF TypeOK, QueuesOK, FileOK, DrainOK

LEMMA WriteStep ==
  ASSUME NEW results, NEW intended, faults \in 0..MaxFaults, Write(results, intended)
  PROVE  file' \in results /\ faults' \in 0..MaxFaults
  BY Constants DEF Write

LEMMA TypeInit == Init => TypeOK
<1> SUFFICES ASSUME Init PROVE TypeOK
  OBVIOUS
<1>1. QueuesOK(entries)
  <2>1. 0 <= MaxEntries
    BY Constants
  <2> QED BY <2>1, EmptyHolds DEF Init, QueuesOK
<1>4. FileOK(file)
  BY EmptyHolds, WritesOK DEF Init
<1>2. sent \in [Batches -> Sent]
  BY Constants DEF Init, Sent
<1>3. drain \in [Drainers -> Drain] /\ \A d \in Drainers : DrainOK(drain[d])
  BY IdleOK DEF Init, DrainOK
<1> QED BY <1>1, <1>2, <1>3, <1>4, TypeParts, Constants DEF Init

LEMMA TypeStep == TypeOK /\ [Next]_vars => TypeOK'
<1> SUFFICES ASSUME TypeOK, [Next]_vars PROVE TypeOK'
  OBVIOUS
<1> USE Constants
<1>0. /\ up \in BOOLEAN /\ current \in Generations /\ QueuesOK(entries) /\ FileOK(file)
      /\ sent \in [Batches -> Sent] /\ drain \in [Drainers -> Drain]
      /\ \A d \in Drainers : DrainOK(drain[d])
      /\ faults \in 0..MaxFaults /\ tries \in [Batches -> Nat]
      /\ acked \subseteq Batches /\ dropped \subseteq Batches /\ upset \subseteq Upset
  BY TypeParts
<1> DEFINE TypeOKNext ==
      /\ up' \in BOOLEAN /\ current' \in Generations /\ QueuesOK(entries') /\ FileOK(file')
      /\ sent' \in [Batches -> Sent] /\ drain' \in [Drainers -> Drain]
      /\ \A d \in Drainers : DrainOK(drain'[d])
      /\ faults' \in 0..MaxFaults /\ tries' \in [Batches -> Nat]
      /\ acked' \subseteq Batches /\ dropped' \subseteq Batches /\ upset' \subseteq Upset
<1> SUFFICES TypeOKNext
  BY DEF TypeOK, QueuesOK, FileOK, DrainOK
<1>1. ASSUME NEW b \in Batches, Submit(b) PROVE TypeOKNext
  BY <1>0, <1>1 DEF Submit, queueVars, historyVars, Sent
<1>2. ASSUME NEW b \in Batches, DeliverAtOnce(b) PROVE TypeOKNext
  BY <1>0, <1>2 DEF DeliverAtOnce, queueVars, Sent
<1>3. ASSUME NEW b \in Batches, Enqueue(b) PROVE TypeOKNext
  <2> DEFINE g == sent[b].queue
             grown == Append(entries[g], Entry(b, 1))
  <2>1. g \in Generations /\ Entry(b, 1) \in Entries /\ Entry(b, 1).batch = b
    BY <1>0, EntryIsEntry DEF Sent
  <2>2. entries[g] \in Seq(Entries)
    BY <1>0, <2>1 DEF QueuesOK
  <2>3. grown \in Seq(Entries) /\ Newest(grown) \in Seq(Entries) /\ Len(Newest(grown)) <= MaxEntries
    BY <2>1, <2>2, AppendHolds, NewestHolds
  <2>4. QueuesOK(entries')
    BY <1>0, <1>3, <2>1, <2>3 DEF Enqueue, QueuesOK
  <2>5. Held(grown) \subseteq Batches
    BY <2>3, HeldAreBatches
  <2>6. dropped' \subseteq Batches
    BY <1>0, <1>3, <2>5 DEF Enqueue
  <2>7. FileOK(file') /\ faults' \in 0..MaxFaults
    BY <1>0, <1>3, <2>1, WriteStep, WritesOK DEF Enqueue
  <2>8. upset' \subseteq Upset
    BY <1>0, <1>3 DEF Enqueue, Missed, Upset
  <2> QED BY <1>0, <1>3, <2>4, <2>6, <2>7, <2>8 DEF Enqueue, Sent
<1>4. ASSUME NEW d \in Drainers, StartDrain(d) PROVE TypeOKNext
  <2> DEFINE g == QueueOf(d)
  <2>1. g \in Generations /\ entries[g] \in Seq(Entries) /\ Len(entries[g]) <= MaxEntries
    BY <1>0 DEF QueueOf, QueuesOK
  <2>2. PICK n \in 0..Len(entries[g]) : drain' = [drain EXCEPT ![d] =
            [at |-> "draining", queue |-> g, taken |-> n,
             selected |-> SubSeq(entries[g], 1, n), retained |-> << >>]]
    BY <1>4 DEF StartDrain
  <2>3. SubSeq(entries[g], 1, n) \in Seq(Entries) /\ Len(SubSeq(entries[g], 1, n)) = n
    BY <2>1, SplitHolds
  <2>4. n \in 0..MaxEntries
    BY <2>1
  <2>5. DrainOK(drain'[d])
    BY <1>0, <2>1, <2>2, <2>3, <2>4, EmptyHolds DEF DrainOK, Drain
  <2>6. drain' \in [Drainers -> Drain] /\ \A c \in Drainers : DrainOK(drain'[c])
    BY <1>0, <2>2, <2>5 DEF DrainOK
  <2>7. upset' \subseteq Upset
    BY <1>0, <1>4 DEF StartDrain, Upset
  <2> QED BY <1>0, <1>4, <2>6, <2>7 DEF StartDrain, queueVars
<1>5. ASSUME NEW d \in Drainers, DeliverNext(d) PROVE TypeOKNext
  <2> DEFINE e == Head(drain[d].selected)
             again == Entry(e.batch, e.attempts + 1)
             s == drain[d].selected
             r == drain[d].retained
  <2>1. drain[d] \in Drain /\ s \in Seq(Entries) /\ r \in Seq(Entries) /\ s # << >>
    BY <1>0, <1>5 DEF Drain, DeliverNext
  <2>2. e \in Entries /\ Tail(s) \in Seq(Entries) /\ Len(Tail(s)) = Len(s) - 1
    BY <2>1, HeadTailHold
  <2>3. e.batch \in Batches /\ again \in Entries
    BY <2>2, EntryIsEntry DEF Entries
  <2>4. Append(r, again) \in Seq(Entries) /\ Len(Append(r, again)) = Len(r) + 1
    BY <2>1, <2>3, AppendHolds
  <2>5. \/ drain' = [drain EXCEPT ![d] = [@ EXCEPT !.selected = Tail(s)]]
        \/ drain' = [drain EXCEPT ![d] = [@ EXCEPT !.selected = Tail(s), !.retained = Append(r, again)]]
    BY <1>0, <1>5 DEF DeliverNext
  <2>6. Len(s) \in Nat /\ Len(r) \in Nat /\ Len(s) + Len(r) <= drain[d].taken /\ drain[d].taken \in Nat
    BY <1>0, DrainFacts
  <2>7. \/ drain'[d] = [drain[d] EXCEPT !.selected = Tail(s)]
        \/ drain'[d] = [drain[d] EXCEPT !.selected = Tail(s), !.retained = Append(r, again)]
    BY <1>0, <2>5
  <2>11. drain'[d] \in Drain
    BY <2>1, <2>2, <2>4, <2>7 DEF Drain
  <2>12. /\ drain'[d].taken = drain[d].taken /\ drain'[d].selected = Tail(s)
         /\ drain'[d].retained = r \/ drain'[d].retained = Append(r, again)
    BY <2>1, <2>7 DEF Drain
  <2>14. Len(s) - 1 + Len(r) <= drain[d].taken /\ Len(s) - 1 + (Len(r) + 1) <= drain[d].taken
    BY <2>6, Sums
  <2>13. DrainOK(drain'[d])
    BY <2>11, <2>12, <2>2, <2>4, <2>14 DEF DrainOK
  <2>8. drain' \in [Drainers -> Drain] /\ \A c \in Drainers : DrainOK(drain'[c])
    BY <1>0, <2>5, <2>11, <2>13
  <2>9. tries' \in [Batches -> Nat] /\ acked' \subseteq Batches /\ dropped' \subseteq Batches
    BY SMTT(30), <1>0, <1>5, <2>3 DEF DeliverNext
  <2> QED BY <1>0, <1>5, <2>8, <2>9 DEF DeliverNext, queueVars
<1>6. ASSUME NEW d \in Drainers, Expire(d) PROVE TypeOKNext
  <2> DEFINE s == drain[d].selected
             r == drain[d].retained
  <2>1. drain[d] \in Drain /\ s \in Seq(Entries) /\ r \in Seq(Entries)
    BY <1>0 DEF Drain
  <2>2. r \o s \in Seq(Entries) /\ Len(r \o s) = Len(r) + Len(s)
    BY <2>1, ConcatHolds
  <2>3. drain' = [drain EXCEPT ![d] = [@ EXCEPT !.selected = << >>, !.retained = r \o s]]
    BY <1>0, <1>6 DEF Expire
  <2>4. /\ Len(s) \in Nat /\ Len(r) \in Nat /\ drain[d].taken \in Nat
        /\ Len(s) + Len(r) <= drain[d].taken
    BY <1>0, DrainFacts
  <2>7. drain'[d] = [drain[d] EXCEPT !.selected = << >>, !.retained = r \o s]
    BY <1>0, <2>3
  <2>8. drain'[d] \in Drain
    BY <2>1, <2>2, <2>7, EmptyHolds DEF Drain
  <2>9. /\ drain'[d].taken = drain[d].taken /\ drain'[d].selected = << >>
        /\ drain'[d].retained = r \o s
    BY <2>1, <2>7 DEF Drain
  <2>11. 0 + (Len(r) + Len(s)) <= drain[d].taken
    BY <2>4, Sums
  <2>10. Len(<< >>) + Len(r \o s) <= drain[d].taken
    BY <2>2, <2>11, EmptyHolds
  <2>5. DrainOK(drain'[d])
    BY <2>8, <2>9, <2>10 DEF DrainOK
  <2>6. drain' \in [Drainers -> Drain] /\ \A c \in Drainers : DrainOK(drain'[c])
    BY <1>0, <2>3, <2>5, <2>8
  <2> QED BY <1>0, <1>6, <2>6 DEF Expire, queueVars, historyVars
<1>7. ASSUME NEW d \in Drainers, Replace(d) PROVE TypeOKNext
  <2> DEFINE g == drain[d].queue
             queue == Merged(d, entries[g])
  <2>1. g \in Generations /\ entries[g] \in Seq(Entries) /\ Len(entries[g]) <= MaxEntries
    BY <1>0 DEF QueuesOK, Drain
  <2>2. queue \in Seq(Entries) /\ Len(queue) <= MaxEntries
    BY <1>0, <2>1, MergedOK
  <2>3. QueuesOK(entries')
    BY <1>0, <1>7, <2>1, <2>2 DEF Replace, QueuesOK
  <2>4. FileOK(file') /\ faults' \in 0..MaxFaults
    BY <1>0, <1>7, <2>2, WriteStep, WritesOK DEF Replace
  <2>5. drain' \in [Drainers -> Drain] /\ \A c \in Drainers : DrainOK(drain'[c])
    BY <1>0, <1>7, IdleOK DEF Replace, After, DrainOK
  <2>6. upset' \subseteq Upset
    BY <1>0, <1>7 DEF Replace, Missed, Upset
  <2> QED BY <1>0, <1>7, <2>3, <2>4, <2>5, <2>6 DEF Replace
<1>8. ASSUME Reload PROVE TypeOKNext
  <2>1. file.lines \in Seq(Entries)
    BY <1>0 DEF FileOK
  <2>2. current + 1 \in Generations
    BY <1>0, <1>8 DEF Reload, Generations
  <2>3. QueuesOK(entries')
    BY <1>0, <1>8, <2>1, <2>2, NewestHolds DEF Reload, QueuesOK
  <2> QED BY <1>0, <1>8, <2>2, <2>3 DEF Reload, Upset
<1>9. ASSUME Crash PROVE TypeOKNext
  <2>1. QueuesOK(entries')
    BY <1>9, EmptyHolds DEF Crash, QueuesOK
  <2>2. drain' \in [Drainers -> Drain] /\ \A c \in Drainers : DrainOK(drain'[c])
    BY <1>0, <1>9, IdleOK DEF Crash, After, DrainOK
  <2>3. sent' \in [Batches -> Sent]
    BY <1>0, <1>9 DEF Crash, Sent
  <2>4. faults' \in 0..MaxFaults
    BY <1>0, <1>9 DEF Crash
  <2> QED BY <1>0, <1>9, <2>1, <2>2, <2>3, <2>4 DEF Crash, Upset
<1>10. ASSUME Restart PROVE TypeOKNext
  <2>1. file.lines \in Seq(Entries)
    BY <1>0 DEF FileOK
  <2>2. QueuesOK(entries')
    BY <1>0, <1>10, <2>1, NewestHolds DEF Restart, QueuesOK
  <2> QED BY <1>0, <1>10, <2>2 DEF Restart, historyVars
<1>11. CASE UNCHANGED vars
  BY <1>0, <1>11 DEF vars, queueVars, historyVars
<1> QED
  BY <1>1, <1>2, <1>3, <1>4, <1>5, <1>6, <1>7, <1>8, <1>9, <1>10, <1>11 DEF Next, Work

\* Every reachable state is well typed: no queue exceeds failed_queue_max_entries
\* and no drain holds more than it took (Enqueue, load, (*FailedQueue).Drain).
THEOREM TypeCorrect == Spec => []TypeOK
<1>1. Init => TypeOK
  BY TypeInit
<1>2. TypeOK /\ [Next]_vars => TypeOK'
  BY TypeStep
<1> QED BY <1>1, <1>2, PTL DEF Spec

-----------------------------------------------------------------------------
(* A queue that does not overlap its drains: what a drain holds is apart   *)
(* from what stands behind its selection, and no queued batch is new.      *)

Busy(d) == drain[d].at = "draining"

Settled ==
  /\ ~up => /\ current = 1
            /\ \A d \in Drainers : ~Busy(d)
            /\ \A b \in Batches : sent[b].at # "posting"
  /\ \A d \in Drainers :
       /\ ~Busy(d) => /\ drain[d].selected = << >> /\ drain[d].retained = << >>
                      /\ drain[d].queue = 1
       /\ drain[d].queue <= current
  /\ \A b \in Batches : sent[b].at = "posting" => sent[b].queue <= current

Hand(d) == Held(drain[d].retained) \cup Held(drain[d].selected)

Behind(d) == Rest(entries[drain[d].queue], drain[d].taken)

Apart(d) ==
  /\ drain[d].taken <= Len(entries[drain[d].queue])
  /\ Distinct(drain[d].retained)
  /\ Distinct(drain[d].selected)
  /\ Held(drain[d].retained) \cap Held(drain[d].selected) = {}
  /\ Hand(d) \cap Held(Behind(d)) = {}

Fresh(b) ==
  /\ \A g \in Generations : b \notin Held(entries[g])
  /\ b \notin Held(file.lines)
  /\ \A d \in Drainers : b \notin Hand(d)

Orderly ==
  /\ \A g \in Generations : Distinct(entries[g])
  /\ Distinct(file.lines)
  /\ \A c, d \in Drainers : Busy(c) /\ Busy(d) /\ drain[c].queue = drain[d].queue => c = d
  /\ \A d \in Drainers : Busy(d) => Apart(d)
  /\ \A b \in Batches : sent[b].at # "queued" => Fresh(b)

OInv == TypeOK /\ Settled /\ ("overlap" \notin upset => Orderly)

LEMMA Typed ==
  ASSUME TypeOK
  PROVE  /\ current \in Generations /\ QueuesOK(entries) /\ FileOK(file)
         /\ \A g \in Generations : entries[g] \in Seq(Entries) /\ Len(entries[g]) <= MaxEntries
         /\ file.lines \in Seq(Entries)
         /\ sent \in [Batches -> Sent] /\ drain \in [Drainers -> Drain]
         /\ \A d \in Drainers : DrainOK(drain[d]) /\ drain[d] \in Drain
         /\ faults \in 0..MaxFaults
         /\ acked \subseteq Batches /\ dropped \subseteq Batches
<1>1. /\ current \in Generations /\ QueuesOK(entries) /\ FileOK(file)
      /\ sent \in [Batches -> Sent] /\ drain \in [Drainers -> Drain]
      /\ \A d \in Drainers : DrainOK(drain[d])
      /\ faults \in 0..MaxFaults
      /\ acked \subseteq Batches /\ dropped \subseteq Batches
  BY TypeParts
<1>2. \A g \in Generations : entries[g] \in Seq(Entries) /\ Len(entries[g]) <= MaxEntries
  BY <1>1 DEF QueuesOK
<1>3. file.lines \in Seq(Entries)
  BY <1>1 DEF FileOK
<1> QED BY <1>1, <1>2, <1>3

\* Nothing disturbs without leaving a trace.
LEMMA UpsetGrows == ASSUME [Next]_vars PROVE upset \subseteq upset'
<1>1. ASSUME NEW b \in Batches, Submit(b) \/ DeliverAtOnce(b) \/ Enqueue(b)
      PROVE  upset \subseteq upset'
  <2>1. CASE Submit(b) \/ DeliverAtOnce(b)
    BY <2>1 DEF Submit, DeliverAtOnce, historyVars
  <2>2. CASE Enqueue(b)
    BY <2>2 DEF Enqueue
  <2> QED BY <1>1, <2>1, <2>2
<1>2. ASSUME NEW d \in Drainers, Work(d)
      PROVE  upset \subseteq upset'
  <2>1. CASE StartDrain(d)
    BY <2>1 DEF StartDrain
  <2>2. CASE DeliverNext(d) \/ Expire(d)
    BY <2>2 DEF DeliverNext, Expire, historyVars
  <2>3. CASE Replace(d)
    BY <2>3 DEF Replace
  <2> QED BY <1>2, <2>1, <2>2, <2>3 DEF Work
<1>3. Reload => upset \subseteq upset'
  BY DEF Reload
<1>4. Crash \/ Restart => upset \subseteq upset'
  BY DEF Crash, Restart, historyVars
<1>5. UNCHANGED vars => upset \subseteq upset'
  BY DEF vars, historyVars
<1> QED BY <1>1, <1>2, <1>3, <1>4, <1>5 DEF Next

LEMMA AfterIsEmpty ==
  ASSUME NEW d \in Drainers
  PROVE  /\ After(d).selected = << >> /\ After(d).retained = << >> /\ After(d).queue = 1
         /\ After(d).at # "draining"
  BY DEF After, Idle, Finished

LEMMA SettledInit == Init => Settled
  BY Constants DEF Init, Settled, Busy, Idle

LEMMA SettledStep == TypeOK /\ Settled /\ [Next]_vars => Settled'
<1> SUFFICES ASSUME TypeOK, Settled, [Next]_vars PROVE Settled'
  OBVIOUS
<1> USE Constants
<1>0. /\ current \in Nat /\ current >= 1 /\ up \in BOOLEAN
      /\ sent \in [Batches -> Sent] /\ drain \in [Drainers -> Drain]
  BY Typed DEF Generations, TypeOK
<1>1. ASSUME NEW b \in Batches, Submit(b) \/ DeliverAtOnce(b) \/ Enqueue(b) PROVE Settled'
  <2>1. UNCHANGED <<up, current, drain>>
    BY <1>1 DEF Submit, DeliverAtOnce, Enqueue, queueVars
  <2>2. \A c \in Batches \ {b} : sent'[c] = sent[c]
    BY <1>0, <1>1 DEF Submit, DeliverAtOnce, Enqueue
  <2>3. up /\ sent'[b].queue <= current
    <3>1. CASE Submit(b)
      BY <1>0, <3>1 DEF Submit
    <3>2. CASE DeliverAtOnce(b) \/ Enqueue(b)
      <4>1. sent[b].at = "posting" /\ sent[b] \in Sent
        BY <1>0, <3>2 DEF DeliverAtOnce, Enqueue
      <4>2. up /\ sent[b].queue <= current
        BY <4>1 DEF Settled
      <4>3. sent'[b].queue = sent[b].queue
        BY <1>0, <3>2, <4>1 DEF DeliverAtOnce, Enqueue, Sent
      <4> QED BY <4>2, <4>3
    <3> QED BY <1>1, <3>1, <3>2
  <2> QED BY <2>1, <2>2, <2>3 DEF Settled, Busy
<1>2. ASSUME NEW d \in Drainers, StartDrain(d) PROVE Settled'
  <2>1. QueueOf(d) <= current
    BY <1>0 DEF QueueOf
  <2>2. up /\ up' /\ UNCHANGED <<current, sent>>
    BY <1>2 DEF StartDrain, queueVars
  <2>3. drain'[d].at = "draining" /\ drain'[d].queue <= current
    BY <1>0, <1>2, <2>1 DEF StartDrain
  <2>4. \A c \in Drainers \ {d} : drain'[c] = drain[c]
    BY <1>0, <1>2 DEF StartDrain
  <2> QED BY <2>2, <2>3, <2>4 DEF Settled, Busy
<1>3. ASSUME NEW d \in Drainers, DeliverNext(d) \/ Expire(d) PROVE Settled'
  <2>7. drain[d].selected # << >>
    BY <1>3 DEF DeliverNext, Expire
  <2>1. Busy(d)
    BY <2>7 DEF Settled
  <2>5. drain[d] \in Drain
    BY <1>0
  <2>6. \E s, r : \/ drain' = [drain EXCEPT ![d] = [@ EXCEPT !.selected = s]]
                 \/ drain' = [drain EXCEPT ![d] = [@ EXCEPT !.selected = s, !.retained = r]]
    <3>1. CASE DeliverNext(d)
      BY <1>0, <3>1 DEF DeliverNext
    <3>2. CASE Expire(d)
      BY <1>0, <3>2 DEF Expire
    <3> QED BY <1>3, <3>1, <3>2
  <2>2. drain'[d].at = drain[d].at /\ drain'[d].queue = drain[d].queue
    <3>1. PICK s, r : \/ drain' = [drain EXCEPT ![d] = [@ EXCEPT !.selected = s]]
                      \/ drain' = [drain EXCEPT ![d] = [@ EXCEPT !.selected = s, !.retained = r]]
      BY <2>6
    <3>2. \/ drain'[d] = [drain[d] EXCEPT !.selected = s]
          \/ drain'[d] = [drain[d] EXCEPT !.selected = s, !.retained = r]
      BY <1>0, <3>1
    <3> QED BY <2>5, <3>2 DEF Drain
  <2>3. \A c \in Drainers \ {d} : drain'[c] = drain[c]
    BY <1>0, <1>3 DEF DeliverNext, Expire
  <2>4. UNCHANGED <<up, current, sent>>
    BY <1>3 DEF DeliverNext, Expire, queueVars
  <2> QED BY <2>1, <2>2, <2>3, <2>4 DEF Settled, Busy
<1>4. ASSUME NEW d \in Drainers, Replace(d) PROVE Settled'
  <2>1. drain'[d] = After(d) /\ \A c \in Drainers \ {d} : drain'[c] = drain[c]
    BY <1>0, <1>4 DEF Replace
  <2>2. UNCHANGED <<up, current, sent>>
    BY <1>4 DEF Replace
  <2> QED BY <1>0, <2>1, <2>2, AfterIsEmpty DEF Settled, Busy
<1>5. ASSUME Reload PROVE Settled'
  <2>1. up' /\ UNCHANGED <<sent, drain>> /\ current' = current + 1
    BY <1>5 DEF Reload
  <2>2. \A n \in Nat : n <= current => n <= current'
    BY <1>0, <2>1
  <2>3. \A d \in Drainers : drain[d].queue \in Nat
    BY <1>0 DEF Drain
  <2>4. \A b \in Batches : sent[b].queue \in Nat
    BY <1>0 DEF Sent
  <2> QED BY <2>1, <2>2, <2>3, <2>4 DEF Settled, Busy
<1>6. ASSUME Crash PROVE Settled'
  <2>1. \A d \in Drainers : drain'[d] = IF Busy(d) THEN After(d) ELSE drain[d]
    BY <1>0, <1>6 DEF Crash, Busy
  <2>2. \A b \in Batches : sent'[b].at # "posting"
    BY <1>0, <1>6 DEF Crash
  <2>3. current' = 1 /\ ~up'
    BY <1>6 DEF Crash
  <2>4. \A d \in Drainers : drain'[d].at # "draining" /\ drain'[d].selected = << >> /\ drain'[d].retained = << >>
    BY <2>1, AfterIsEmpty DEF Settled, Busy
  <2>5. \A d \in Drainers : drain'[d].queue = 1
    BY <2>1, AfterIsEmpty DEF Settled
  <2> QED BY <2>2, <2>3, <2>4, <2>5 DEF Settled, Busy
<1>7. ASSUME Restart PROVE Settled'
  BY <1>0, <1>7 DEF Restart, Settled, Busy, historyVars
<1>8. CASE UNCHANGED vars
  BY <1>8 DEF vars, queueVars, Settled, Busy
<1> QED BY <1>1, <1>2, <1>3, <1>4, <1>5, <1>6, <1>7, <1>8 DEF Next, Work

LEMMA RestHolds ==
  ASSUME NEW s \in Seq(Entries), NEW n \in Nat
  PROVE  Held(Rest(s, n)) = {s[i].batch : i \in n + 1..Len(s)}
<1>1. n + 1 \in Nat \ {0} /\ Len(s) \in 0..Len(s)
  BY LenIsNat
<1> QED BY <1>1, SubSeqHolds DEF Rest

\* Enqueue leaves every entry but the oldest in its place or moves it up by one.
LEMMA EnqueueShifts ==
  ASSUME NEW s \in Seq(Entries), NEW e \in Entries, Len(s) <= MaxEntries,
         NEW n \in Nat, n <= Len(s)
  PROVE  /\ Newest(Append(s, e)) \in Seq(Entries)
         /\ n <= Len(Newest(Append(s, e)))
         /\ \A i \in n + 1..Len(Newest(Append(s, e))) :
              \/ \E j \in n + 1..Len(s) : Newest(Append(s, e))[i] = s[j]
              \/ Newest(Append(s, e))[i] = e
<1> DEFINE u == Append(s, e)
           t == Newest(u)
<1>1. /\ MaxEntries \in Nat \ {0} /\ Len(s) \in Nat
      /\ u \in Seq(Entries) /\ Len(u) = Len(s) + 1
      /\ t \in Seq(Entries)
      /\ \A i \in 1..Len(s) : u[i] = s[i]
      /\ u[Len(s) + 1] = e
  <2>1. u \in Seq(Entries) /\ Len(u) = Len(s) + 1
    BY AppendHolds
  <2>2. (\A i \in 1..Len(s) : u[i] = s[i]) /\ u[Len(s) + 1] = e
    OBVIOUS
  <2> HIDE DEF u
  <2>3. t \in Seq(Entries)
    BY <2>1, NewestHolds
  <2> QED BY <2>1, <2>2, <2>3, Constants, LenIsNat
<1>2. Len(t) \in Nat
  BY <1>1, LenIsNat
<1> HIDE DEF u, t
<1>3. CASE Len(u) <= MaxEntries
  <2>1. t = u
    BY <1>1, <1>3, NewestHolds DEF t
  <2>2. \A i \in n + 1..Len(t) : \/ i \in n + 1..Len(s) /\ t[i] = s[i]
                                 \/ t[i] = e
    BY <1>1, <2>1
  <2>3. n <= Len(t)
    BY <1>1, <2>1
  <2> QED BY <1>1, <2>2, <2>3 DEF t, u
<1>4. CASE ~(Len(u) <= MaxEntries)
  <2>1. Len(s) = MaxEntries /\ Len(u) > MaxEntries /\ Len(u) - MaxEntries + 1 = 2
    BY <1>1, <1>4
  <2>2. t = SubSeq(u, 2, Len(u))
    BY <2>1 DEF t, Newest
  <2>3. Len(u) \in 0..Len(u) /\ 2 \in Nat \ {0} /\ 2 <= Len(u)
    BY <1>1, <2>1
  <2>4. /\ Len(t) = Len(u) - 2 + 1
        /\ \A i \in 1..Len(t) : t[i] = u[2 + i - 1]
    BY <1>1, <2>2, <2>3, SubSeqIsSeq
  <2>5. Len(t) = Len(s)
    BY <1>1, <2>4
  <2>6. \A i \in n + 1..Len(t) : \/ i + 1 \in n + 1..Len(s) /\ t[i] = s[i + 1]
                                 \/ t[i] = e
    <3> SUFFICES ASSUME NEW i \in n + 1..Len(t)
                 PROVE  \/ i + 1 \in n + 1..Len(s) /\ t[i] = s[i + 1]
                        \/ t[i] = e
      OBVIOUS
    <3>1. i \in 1..Len(t) /\ 2 + i - 1 = i + 1
      BY <1>2
    <3>2. t[i] = u[i + 1]
      BY <2>4, <3>1
    <3>3. i + 1 \in 1..Len(s) \/ i + 1 = Len(s) + 1
      BY <2>5, <1>1
    <3> QED BY <1>1, <3>2, <3>3
  <2> QED BY <1>1, <2>5, <2>6 DEF t, u
<1> QED BY <1>3, <1>4

\* Enqueue leaves alone what a drain counts on: what it took from the queue is
\* not longer than the queue, and only the new entry comes to stand behind it.
LEMMA EnqueueBehind ==
  ASSUME NEW s \in Seq(Entries), NEW e \in Entries, Len(s) <= MaxEntries,
         NEW n \in Nat, n <= Len(s)
  PROVE  /\ n <= Len(Newest(Append(s, e)))
         /\ Held(Rest(Newest(Append(s, e)), n)) \subseteq Held(Rest(s, n)) \cup {e.batch}
<1> DEFINE t == Newest(Append(s, e))
<1>1. /\ t \in Seq(Entries) /\ n <= Len(t)
      /\ \A i \in n + 1..Len(t) : (\E j \in n + 1..Len(s) : t[i] = s[j]) \/ t[i] = e
  BY EnqueueShifts
<1> HIDE DEF t
<1>2. Held(Rest(s, n)) = {s[i].batch : i \in n + 1..Len(s)}
  BY RestHolds
<1>3. Held(Rest(t, n)) = {t[i].batch : i \in n + 1..Len(t)}
  BY <1>1, RestHolds
<1> QED BY <1>1, <1>2, <1>3 DEF t

LEMMA ApartKept ==
  ASSUME NEW d \in Drainers, Apart(d), drain'[d] = drain[d],
         entries'[drain[d].queue] = entries[drain[d].queue]
  PROVE  Apart(d)'
  BY DEF Apart, Hand, Behind

LEMMA OrderlyInit == Init => Orderly
<1> SUFFICES ASSUME Init PROVE Orderly
  OBVIOUS
<1>1. /\ \A g \in Generations : entries[g] = << >>
      /\ file.lines = << >>
      /\ \A d \in Drainers : drain[d].selected = << >> /\ drain[d].retained = << >>
      /\ \A d \in Drainers : ~Busy(d)
  BY DEF Init, Lines, Idle, Busy
<1> QED BY <1>1, EmptyHolds DEF Orderly, Fresh, Hand

LEMMA OrderlyEnqueue ==
  ASSUME TypeOK, Settled, Orderly, NEW b \in Batches, Enqueue(b)
  PROVE  Orderly'
<1> DEFINE g == sent[b].queue
           e == Entry(b, 1)
           grown == Append(entries[g], e)
<1>1. /\ g \in Generations /\ e \in Entries /\ e.batch = b
      /\ entries[g] \in Seq(Entries) /\ Len(entries[g]) <= MaxEntries
      /\ file.lines \in Seq(Entries)
  BY Typed, EntryIsEntry DEF Sent
<1>2. Fresh(b) /\ Distinct(entries[g]) /\ Distinct(file.lines)
  BY <1>1 DEF Orderly, Enqueue
<1>3. /\ drain' = drain
      /\ \A f \in Generations : entries'[f] = IF f = g THEN Newest(grown) ELSE entries[f]
      /\ \A c \in Batches : sent'[c].at = IF c = b THEN "queued" ELSE sent[c].at
  BY Typed, <1>1 DEF Enqueue, QueuesOK
<1>4. /\ Distinct(Newest(grown))
      /\ Held(Newest(grown)) \subseteq Held(entries[g]) \cup {b}
  <2>1. grown \in Seq(Entries) /\ Distinct(grown) /\ Held(grown) = Held(entries[g]) \cup {b}
    BY <1>1, <1>2, AppendHolds DEF Fresh
  <2> QED BY <2>1, NewestHolds
<1>5. Distinct(file'.lines) /\ Held(file'.lines) \subseteq Held(file.lines) \cup {b}
  <2>1. file' \in {Appended(file, e), file, Cut}
    BY DEF Enqueue, Write, Appends
  <2>2. /\ Distinct(Append(file.lines, e))
        /\ Held(Append(file.lines, e)) = Held(file.lines) \cup {b}
    BY <1>1, <1>2, AppendHolds DEF Fresh
  <2>3. /\ Cut.lines = << >>
        /\ Appended(file, e) = file \/ Appended(file, e).lines = Append(file.lines, e)
    BY DEF Appended, Lines, Cut
  <2>4. \/ file'.lines = file.lines
        \/ file'.lines = << >>
        \/ file'.lines = Append(file.lines, e)
    BY <2>1, <2>3
  <2> HIDE DEF e
  <2> QED BY <2>2, <2>4, <1>2, EmptyHolds
<1>6. ASSUME NEW d \in Drainers, Busy(d), drain[d].queue = g PROVE Apart(d)'
  <2>1. Apart(d) /\ drain[d].taken \in Nat /\ b \notin Hand(d)
    BY <1>6, <1>2, Typed, DrainFacts DEF Orderly, Fresh
  <2>2. drain[d].taken <= Len(entries[g]) /\ Hand(d) \cap Held(Rest(entries[g], drain[d].taken)) = {}
    BY <2>1, <1>6 DEF Apart, Behind
  <2>3. /\ drain[d].taken <= Len(Newest(grown))
        /\ Held(Rest(Newest(grown), drain[d].taken))
             \subseteq Held(Rest(entries[g], drain[d].taken)) \cup {b}
    BY <1>1, <2>1, <2>2, EnqueueBehind
  <2>4. Hand(d) \cap Held(Rest(Newest(grown), drain[d].taken)) = {}
    BY <2>1, <2>2, <2>3
  <2>5. drain'[d] = drain[d] /\ entries'[drain[d].queue] = Newest(grown)
    BY <1>1, <1>3, <1>6
  <2> HIDE DEF grown, g
  <2> QED BY <2>1, <2>3, <2>4, <2>5 DEF Apart, Hand, Behind
<1>7. ASSUME NEW d \in Drainers, Busy(d), drain[d].queue # g PROVE Apart(d)'
  <2>1. Apart(d) /\ drain[d].queue \in Generations
    BY <1>7, Typed DEF Orderly, Drain
  <2> QED BY <2>1, <1>3, <1>7, ApartKept
<1>8. ASSUME NEW c \in Batches, sent'[c].at # "queued" PROVE Fresh(c)'
  <2>1. c # b /\ Fresh(c)
    BY <1>3, <1>8 DEF Orderly
  <2>2. \A f \in Generations : c \notin Held(entries'[f])
    BY <2>1, <1>3, <1>4, <1>1 DEF Fresh
  <2> QED BY <2>1, <2>2, <1>3, <1>5 DEF Fresh, Hand
<1>9. \A f \in Generations : Distinct(entries'[f])
  BY <1>3, <1>4 DEF Orderly
<1> QED BY <1>3, <1>5, <1>6, <1>7, <1>8, <1>9 DEF Orderly, Busy

LEMMA OrderlyStart ==
  ASSUME TypeOK, Settled, Orderly, NEW d \in Drainers, StartDrain(d), "overlap" \notin upset'
  PROVE  Orderly'
<1> DEFINE g == QueueOf(d)
<1>1. /\ g \in Generations /\ entries[g] \in Seq(Entries)
      /\ Draining(g) = {}
      /\ UNCHANGED <<entries, file, sent>>
  BY Typed, Constants DEF StartDrain, QueueOf, queueVars
<1>2. PICK n \in 0..Len(entries[g]) : drain' = [drain EXCEPT ![d] =
          [at |-> "draining", queue |-> g, taken |-> n,
           selected |-> SubSeq(entries[g], 1, n), retained |-> << >>]]
  BY DEF StartDrain
<1>3. /\ drain'[d].queue = g /\ drain'[d].taken = n
      /\ drain'[d].selected = SubSeq(entries[g], 1, n) /\ drain'[d].retained = << >>
      /\ \A c \in Drainers \ {d} : drain'[c] = drain[c]
  BY <1>2, Typed
<1>4. Distinct(entries[g]) /\ n <= Len(entries[g])
  BY <1>1, LenIsNat DEF Orderly
<1>5. /\ Distinct(SubSeq(entries[g], 1, n))
      /\ Held(SubSeq(entries[g], 1, n)) \cap Held(Rest(entries[g], n)) = {}
      /\ Held(SubSeq(entries[g], 1, n)) \subseteq Held(entries[g])
  BY <1>1, <1>4, SplitHolds
<1>6. Apart(d)'
  BY <1>1, <1>3, <1>4, <1>5, EmptyHolds DEF Apart, Hand, Behind
<1>7. \A c \in Drainers \ {d} : Busy(c) => drain[c].queue # g /\ Apart(c)'
  BY <1>1, <1>3, ApartKept DEF Orderly, Draining, Busy
<1>8. Hand(d)' \subseteq Held(entries[g]) /\ \A c \in Drainers \ {d} : Hand(c)' = Hand(c)
  BY <1>3, <1>5, EmptyHolds DEF Hand
<1>9. \A c \in Batches : Fresh(c) => Fresh(c)'
  BY <1>1, <1>8 DEF Fresh
<1> HIDE DEF g
<1>10. \A c \in Drainers \ {d} : Busy(c)' = Busy(c)
  BY <1>3 DEF Busy
<1>11. \A c \in Drainers : Busy(c)' => Apart(c)'
  BY <1>6, <1>7, <1>10
<1>12. \A b, c \in Drainers : Busy(b)' /\ Busy(c)' /\ drain'[b].queue = drain'[c].queue => b = c
  BY <1>3, <1>7, <1>10 DEF Orderly
<1> QED BY <1>1, <1>9, <1>11, <1>12 DEF Orderly

\* DeliverNext and Expire: a drain goes on with less than it held before.
LEMMA OrderlyHandle ==
  ASSUME TypeOK, Settled, Orderly, NEW d \in Drainers, DeliverNext(d) \/ Expire(d)
  PROVE  Orderly'
<1> DEFINE s == drain[d].selected
           r == drain[d].retained
           e == Head(s)
           again == Entry(e.batch, e.attempts + 1)
<1>1. /\ drain[d] \in Drain /\ s \in Seq(Entries) /\ r \in Seq(Entries) /\ s # << >>
      /\ UNCHANGED <<entries, file, sent>>
  BY Typed, DrainFacts DEF DeliverNext, Expire, queueVars
<1>2. Busy(d) /\ Apart(d)
  BY <1>1 DEF Settled, Orderly
<1>3. Distinct(s) /\ Distinct(r) /\ Held(r) \cap Held(s) = {}
  BY <1>2 DEF Apart
<1>4. /\ drain'[d].at = drain[d].at /\ drain'[d].queue = drain[d].queue
      /\ drain'[d].taken = drain[d].taken
      /\ Distinct(drain'[d].selected) /\ Distinct(drain'[d].retained)
      /\ Held(drain'[d].retained) \cap Held(drain'[d].selected) = {}
      /\ Held(drain'[d].retained) \cup Held(drain'[d].selected) \subseteq Hand(d)
  <2>1. CASE DeliverNext(d)
    <3>1. /\ e \in Entries /\ Tail(s) \in Seq(Entries) /\ Distinct(Tail(s))
          /\ Held(s) = {e.batch} \cup Held(Tail(s)) /\ e.batch \notin Held(Tail(s))
      BY <1>1, <1>3, HeadTailHold
    <3>2. again \in Entries /\ again.batch = e.batch
      BY <3>1, EntryIsEntry DEF Entries
    <3>3. Distinct(Append(r, again)) /\ Held(Append(r, again)) = Held(r) \cup {e.batch}
      BY <1>1, <1>3, <3>1, <3>2, AppendHolds
    <3>4. \/ drain'[d] = [drain[d] EXCEPT !.selected = Tail(s)]
          \/ drain'[d] = [drain[d] EXCEPT !.selected = Tail(s), !.retained = Append(r, again)]
      BY <2>1, Typed DEF DeliverNext
    <3> HIDE DEF e, again
    <3>5. /\ drain'[d].at = drain[d].at /\ drain'[d].queue = drain[d].queue
          /\ drain'[d].taken = drain[d].taken /\ drain'[d].selected = Tail(s)
          /\ drain'[d].retained = r \/ drain'[d].retained = Append(r, again)
      BY <1>1, <3>4 DEF Drain
    <3> QED BY <3>1, <3>3, <3>5, <1>3 DEF Hand
  <2>2. CASE Expire(d)
    <3>1. Distinct(r \o s) /\ Held(r \o s) = Held(r) \cup Held(s)
      BY <1>1, <1>3, ConcatHolds
    <3>2. drain'[d] = [drain[d] EXCEPT !.selected = << >>, !.retained = r \o s]
      BY <2>2, Typed DEF Expire
    <3>3. /\ drain'[d].at = drain[d].at /\ drain'[d].queue = drain[d].queue
          /\ drain'[d].taken = drain[d].taken /\ drain'[d].selected = << >>
          /\ drain'[d].retained = r \o s
      BY <1>1, <3>2 DEF Drain
    <3> QED BY <3>1, <3>3, EmptyHolds DEF Hand
  <2> QED BY <2>1, <2>2
<1>5. \A c \in Drainers \ {d} : drain'[c] = drain[c]
  BY Typed DEF DeliverNext, Expire
<1> HIDE DEF s, r, e, again
<1>6. Apart(d)'
  BY <1>1, <1>2, <1>4 DEF Apart, Hand, Behind
<1>7. \A c \in Drainers : Busy(c)' = Busy(c) /\ drain'[c].queue = drain[c].queue
  BY <1>4, <1>5 DEF Busy
<1>8. \A c \in Drainers : Busy(c)' => Apart(c)'
  BY <1>1, <1>5, <1>6, <1>7, ApartKept DEF Orderly
<1>9. \A c \in Drainers : Hand(c)' \subseteq Hand(c)
  BY <1>4, <1>5 DEF Hand
<1>10. \A c \in Batches : Fresh(c) => Fresh(c)'
  BY <1>1, <1>9 DEF Fresh
<1> QED BY <1>1, <1>7, <1>8, <1>10 DEF Orderly

LEMMA OrderlyReplace ==
  ASSUME TypeOK, Settled, Orderly, NEW d \in Drainers, Replace(d)
  PROVE  Orderly'
<1> DEFINE g == drain[d].queue
           q == entries[g]
           n == drain[d].taken
           r == drain[d].retained
           queue == Merged(d, q)
<1>1. /\ DrainOK(drain[d]) /\ g \in Generations /\ q \in Seq(Entries) /\ Len(q) <= MaxEntries
      /\ r \in Seq(Entries) /\ n \in Nat /\ drain[d].selected = << >>
  BY Typed, DrainFacts DEF Replace
<1>2. Busy(d) /\ Apart(d) /\ Distinct(q)
  BY <1>1 DEF Replace, Busy, Orderly
<1>3. /\ n <= Len(q) /\ Distinct(r) /\ Hand(d) = Held(r)
      /\ Held(r) \cap Held(Rest(q, n)) = {}
  BY <1>1, <1>2, EmptyHolds DEF Apart, Hand, Behind
<1>4. n \in 0..Len(q)
  BY <1>1, <1>3, LenIsNat
<1>5. /\ Rest(q, n) \in Seq(Entries) /\ Distinct(Rest(q, n)) /\ Held(Rest(q, n)) \subseteq Held(q)
  BY <1>1, <1>2, <1>4, SplitHolds
<1>6. queue = r \o Rest(q, n) /\ queue \in Seq(Entries)
  BY <1>1, <1>3, MergedOK
<1>7. Distinct(queue) /\ Held(queue) \subseteq Hand(d) \cup Held(q)
  BY <1>1, <1>3, <1>5, <1>6, ConcatHolds
<1>8. /\ sent' = sent
      /\ \A f \in Generations : entries'[f] = IF f = g THEN queue ELSE entries[f]
      /\ drain'[d] = After(d) /\ \A c \in Drainers \ {d} : drain'[c] = drain[c]
  BY Typed, <1>1 DEF Replace, QueuesOK
<1>9. Distinct(file'.lines) /\ Held(file'.lines) \subseteq Held(file.lines) \cup Held(queue)
  <2>1. file' \in Rewrites(file, queue)
    BY DEF Replace, Write
  <2>2. \/ file'.lines = file.lines
        \/ file'.lines = << >>
        \/ \E k \in 0..Len(queue) : file'.lines = SubSeq(queue, 1, k)
    BY <2>1 DEF Rewrites, Lines, Cut
  <2>3. \A k \in 0..Len(queue) : /\ Distinct(SubSeq(queue, 1, k))
                                 /\ Held(SubSeq(queue, 1, k)) \subseteq Held(queue)
    <3>1. queue \in Seq(Entries) /\ Distinct(queue)
      BY <1>6, <1>7
    <3> HIDE DEF queue
    <3> SUFFICES ASSUME NEW k \in 0..Len(queue)
                 PROVE  /\ Distinct(SubSeq(queue, 1, k))
                        /\ Held(SubSeq(queue, 1, k)) \subseteq Held(queue)
      OBVIOUS
    <3>2. /\ Held(queue) = Held(SubSeq(queue, 1, k)) \cup Held(Rest(queue, k))
          /\ Distinct(SubSeq(queue, 1, k))
      BY <3>1, SplitHolds
    <3> QED BY <3>2
  <2>4. Distinct(file.lines)
    BY DEF Orderly
  <2> HIDE DEF queue
  <2> QED BY <2>2, <2>3, <2>4, EmptyHolds
<1> HIDE DEF g, q, n, r, queue
<1>10. /\ ~Busy(d)' /\ Hand(d)' = {}
       /\ \A c \in Drainers \ {d} : Busy(c)' = Busy(c) /\ Hand(c)' = Hand(c)
  BY <1>8, AfterIsEmpty, EmptyHolds DEF Busy, Hand
<1>11. \A c \in Drainers \ {d} : Busy(c) => drain[c].queue # g
  BY <1>2 DEF Orderly, g
<1>12. \A c \in Drainers : Busy(c)' => Apart(c)'
  <2> SUFFICES ASSUME NEW c \in Drainers \ {d}, Busy(c) PROVE Apart(c)'
    BY <1>10
  <2>1. Apart(c) /\ drain[c].queue \in Generations
    BY Typed, DrainFacts DEF Orderly
  <2> QED BY <2>1, <1>8, <1>11, ApartKept
<1>13. \A c \in Batches : Fresh(c) => Fresh(c)'
  BY <1>1, <1>7, <1>8, <1>9, <1>10 DEF Fresh, q
<1>14. \A f \in Generations : Distinct(entries'[f])
  BY <1>7, <1>8 DEF Orderly
<1>15. \A b, c \in Drainers : Busy(b)' /\ Busy(c)' /\ drain'[b].queue = drain'[c].queue => b = c
  BY <1>8, <1>10 DEF Orderly
<1> QED BY <1>8, <1>9, <1>12, <1>13, <1>14, <1>15 DEF Orderly

\* Reload and Restart fill an unused queue from the file.
LEMMA OrderlyLoad ==
  ASSUME TypeOK, Settled, Orderly, Reload \/ Restart
  PROVE  Orderly'
<1> DEFINE new == IF Reload THEN current + 1 ELSE 1
           queue == Newest(file.lines)
<1>1. /\ UNCHANGED <<file, sent, drain>>
      /\ \A f \in Generations : entries'[f] = IF f = new THEN queue ELSE entries[f]
  BY Typed DEF Reload, Restart, QueuesOK
<1>2. Distinct(queue) /\ Held(queue) \subseteq Held(file.lines)
  BY Typed, NewestHolds DEF Orderly
<1>3. \A d \in Drainers : Busy(d) => drain[d].queue # new
  <2>1. CASE Reload
    <3>1. \A d \in Drainers : drain[d].queue \in Nat /\ drain[d].queue <= current
      BY Typed, DrainFacts, Constants DEF Settled
    <3>2. current \in Nat
      BY Typed, Constants
    <3> QED BY <2>1, <3>1, <3>2
  <2>2. CASE Restart
    BY <2>2 DEF Restart, Settled
  <2> QED BY <2>1, <2>2
<1> HIDE DEF new, queue
<1>4. \A d \in Drainers : Busy(d) => Apart(d)'
  <2> SUFFICES ASSUME NEW d \in Drainers, Busy(d) PROVE Apart(d)'
    OBVIOUS
  <2>1. Apart(d) /\ drain[d].queue \in Generations
    BY Typed, DrainFacts DEF Orderly
  <2> QED BY <2>1, <1>1, <1>3, ApartKept
<1>5. \A c \in Batches : Fresh(c) => Fresh(c)'
  BY <1>1, <1>2 DEF Fresh, Hand
<1>6. \A f \in Generations : Distinct(entries'[f])
  BY <1>1, <1>2 DEF Orderly
<1> QED BY <1>1, <1>4, <1>5, <1>6 DEF Orderly, Busy

LEMMA CrashEmpties ==
  ASSUME TypeOK, Settled, Crash
  PROVE  /\ \A g \in Generations : entries'[g] = << >>
         /\ \A d \in Drainers : ~Busy(d)' /\ Hand(d)' = {}
         /\ \A b \in Batches : (sent'[b].at = "queued") <=> (sent[b].at = "queued")
         /\ UNCHANGED <<file, acked, dropped>>
<1>1. \A d \in Drainers : drain'[d] = IF Busy(d) THEN After(d) ELSE drain[d]
  BY Typed DEF Crash, Busy
<1>2. \A d \in Drainers : /\ drain'[d].at # "draining"
                          /\ drain'[d].selected = << >> /\ drain'[d].retained = << >>
  BY <1>1, AfterIsEmpty DEF Settled, Busy
<1>3. \A b \in Batches : (sent'[b].at = "queued") <=> (sent[b].at = "queued")
  BY Typed DEF Crash
<1> QED BY <1>2, <1>3, EmptyHolds DEF Crash, Busy, Hand

LEMMA OrderlyCrash ==
  ASSUME TypeOK, Settled, Orderly, Crash
  PROVE  Orderly'
BY CrashEmpties, EmptyHolds DEF Orderly, Fresh

LEMMA OrderlyStep ==
  ASSUME TypeOK, Settled, Orderly, [Next]_vars, "overlap" \notin upset'
  PROVE  Orderly'
<1>1. ASSUME NEW b \in Batches, Submit(b) \/ DeliverAtOnce(b) PROVE Orderly'
  <2>1. UNCHANGED <<entries, file, drain>>
    BY <1>1 DEF Submit, DeliverAtOnce, queueVars
  <2>2. \A c \in Batches : sent'[c].at # "queued" => sent[c].at # "queued"
    BY Typed, <1>1 DEF Submit, DeliverAtOnce
  <2> QED BY <2>1, <2>2 DEF Orderly, Apart, Hand, Behind, Fresh, Busy
<1>2. CASE UNCHANGED vars
  BY <1>2 DEF vars, queueVars, Orderly, Apart, Hand, Behind, Fresh, Busy
<1> QED
  BY <1>1, <1>2, OrderlyEnqueue, OrderlyStart, OrderlyHandle, OrderlyReplace, OrderlyLoad,
     OrderlyCrash DEF Next, Work

LEMMA OInvInductive ==
  /\ Init => OInv
  /\ OInv /\ [Next]_vars => OInv'
<1>1. Init => OInv
  BY TypeInit, SettledInit, OrderlyInit DEF OInv
<1>2. ASSUME OInv, [Next]_vars PROVE OInv'
  <2>1. TypeOK' /\ Settled'
    BY <1>2, TypeStep, SettledStep DEF OInv
  <2>2. "overlap" \notin upset' => Orderly'
    BY <1>2, UpsetGrows, OrderlyStep DEF OInv
  <2> QED BY <2>1, <2>2 DEF OInv
<1> QED BY <1>1, <1>2

\* As long as no two drains of a queue overlap, no queue and no file holds a
\* batch twice ((*FailedQueue).Drain puts back what it took).
THEOREM EachBatchOnce == Spec => []NoDuplicates
<1>1. OInv => NoDuplicates
  BY DEF OInv, Orderly, NoDuplicates
<1> QED BY <1>1, OInvInductive, PTL DEF Spec

-----------------------------------------------------------------------------
(* A queue nothing disturbs but crashes: memory and file agree, and what a *)
(* drain took is accounted for while it is still in the queue.             *)

\* The entries a drain took, in the queue of the first generation.
Front(d) == SubSeq(entries[1], 1, drain[d].taken)

Careful ==
  /\ current = 1
  /\ ~file.cut
  /\ up => Newest(file.lines) = entries[1]
  /\ \A d \in Drainers : Busy(d) => Held(Front(d)) \subseteq acked \cup dropped \cup Hand(d)
  /\ Lost = {}

IInv == OInv /\ (upset \subseteq {"crash"} => Careful)

LEMMA SameSequence ==
  ASSUME NEW s \in Seq(Entries), NEW t \in Seq(Entries), Len(s) = Len(t),
         \A i \in 1..Len(s) : s[i] = t[i]
  PROVE  s = t
  OBVIOUS

LEMMA Shift ==
  ASSUME NEW l \in Nat, NEW m \in Nat, l > m, NEW j \in 1..m
  PROVE  /\ j + (l - m) \in 1..l /\ j + (l - m) # 1
         /\ j # m => /\ j + 1 \in 1..m /\ j + (l - m + 1) \in 1..l
                     /\ j + (l - m + 1) = (j + 1) + (l - m)
<1>1. j \in Int /\ l \in Int /\ m \in Int /\ 1 <= j /\ j <= m /\ m < l
  OBVIOUS
<1>2. 1 <= j + (l - m) /\ j + (l - m) <= l /\ j + (l - m) # 1 /\ j + (l - m) \in Int
  BY <1>1
<1>3. ASSUME j # m
      PROVE  /\ 1 <= j + 1 /\ j + 1 <= m /\ j + 1 \in Int
             /\ 1 <= j + (l - m + 1) /\ j + (l - m + 1) <= l /\ j + (l - m + 1) \in Int
             /\ j + (l - m + 1) = (j + 1) + (l - m)
  BY <1>1, <1>3
<1> QED BY <1>2, <1>3

LEMMA NewestOfMany ==
  ASSUME NEW s \in Seq(Entries), Len(s) > MaxEntries
  PROVE  /\ Len(s) - MaxEntries \in Nat \ {0}
         /\ Newest(s) \in Seq(Entries) /\ Len(Newest(s)) = MaxEntries
         /\ \A i \in 1..MaxEntries : Newest(s)[i] = s[i + (Len(s) - MaxEntries)]
<1> DEFINE m == Len(s) - MaxEntries + 1
<1>1. MaxEntries \in Nat \ {0} /\ Len(s) \in Nat
  BY Constants, LenIsNat
<1>2. m \in Nat \ {0} /\ Len(s) \in 0..Len(s) /\ m <= Len(s) /\ Newest(s) = SubSeq(s, m, Len(s))
  BY <1>1 DEF Newest
<1>3. /\ Newest(s) \in Seq(Entries) /\ Len(Newest(s)) = Len(s) - m + 1
      /\ \A i \in 1..Len(Newest(s)) : Newest(s)[i] = s[m + i - 1]
  BY <1>2, SubSeqIsSeq
<1>4. Len(s) - m + 1 = MaxEntries /\ Len(s) - MaxEntries \in Nat \ {0}
  BY <1>1
<1>5. \A i \in 1..MaxEntries : m + i - 1 = i + (Len(s) - MaxEntries)
  BY <1>1
<1> HIDE DEF m
<1> QED BY <1>3, <1>4, <1>5

LEMMA NewestAppend ==
  ASSUME NEW s \in Seq(Entries), NEW e \in Entries
  PROVE  Newest(Append(Newest(s), e)) = Newest(Append(s, e))
<1>1. MaxEntries \in Nat \ {0} /\ Len(s) \in Nat
  BY Constants, LenIsNat
<1>2. CASE Len(s) <= MaxEntries
  BY <1>2, NewestHolds
<1>3. CASE ~(Len(s) <= MaxEntries)
  <2> DEFINE k == Len(s) - MaxEntries
             t == Newest(s)
             u == Append(s, e)
             v == Append(t, e)
  <2>1. /\ k \in Nat \ {0} /\ t \in Seq(Entries) /\ Len(t) = MaxEntries
        /\ \A i \in 1..MaxEntries : t[i] = s[i + k]
    BY <1>1, <1>3, NewestOfMany
  <2> HIDE DEF t
  <2>2. /\ u \in Seq(Entries) /\ Len(u) = Len(s) + 1 /\ u[Len(s) + 1] = e
        /\ \A i \in 1..Len(s) : u[i] = s[i]
    BY AppendHolds
  <2>3. /\ v \in Seq(Entries) /\ Len(v) = MaxEntries + 1 /\ v[MaxEntries + 1] = e
        /\ \A i \in 1..MaxEntries : v[i] = t[i]
    BY <2>1, AppendHolds
  <2> HIDE DEF u, v
  <2>4. Len(u) > MaxEntries /\ Len(v) > MaxEntries
        /\ Len(u) - MaxEntries = k + 1 /\ Len(v) - MaxEntries = 1
    BY <1>1, <1>3, <2>2, <2>3
  <2>5. /\ Newest(u) \in Seq(Entries) /\ Len(Newest(u)) = MaxEntries
        /\ \A i \in 1..MaxEntries : Newest(u)[i] = u[i + (k + 1)]
    BY <2>2, <2>4, NewestOfMany
  <2>6. /\ Newest(v) \in Seq(Entries) /\ Len(Newest(v)) = MaxEntries
        /\ \A i \in 1..MaxEntries : Newest(v)[i] = v[i + 1]
    BY <2>3, <2>4, NewestOfMany
  <2>7. ASSUME NEW i \in 1..MaxEntries PROVE Newest(u)[i] = Newest(v)[i]
    <3>1. CASE i = MaxEntries
      <4>1. i + (k + 1) = Len(s) + 1 /\ i + 1 = MaxEntries + 1
        BY <1>1, <3>1
      <4> QED BY <4>1, <2>2, <2>3, <2>5, <2>6
    <3>2. CASE i # MaxEntries
      <4>4. Len(s) > MaxEntries
        BY <1>1, <1>3
      <4>1. i + 1 \in 1..MaxEntries /\ i + (k + 1) \in 1..Len(s) /\ i + (k + 1) = (i + 1) + k
        BY <1>1, <3>2, <4>4, Shift
      <4>2. v[i + 1] = s[(i + 1) + k] /\ u[i + (k + 1)] = s[i + (k + 1)]
        BY <4>1, <2>1, <2>2, <2>3
      <4> QED BY <4>1, <4>2, <2>5, <2>6
    <3> QED BY <3>1, <3>2
  <2>8. Newest(u) = Newest(v)
    BY <2>5, <2>6, <2>7, SameSequence
  <2> QED BY <2>8 DEF u, v, t
<1> QED BY <1>2, <1>3

\* Of a distinct queue too long, something is pushed out.
LEMMA NothingPushedOut ==
  ASSUME NEW s \in Seq(Entries), Distinct(s), Held(s) \subseteq Held(Newest(s))
  PROVE  Newest(s) = s
<1>1. MaxEntries \in Nat \ {0} /\ Len(s) \in Nat /\ DOMAIN s = 1..Len(s)
  BY Constants, LenIsNat
<1>2. CASE Len(s) <= MaxEntries
  BY <1>2, NewestHolds
<1>3. CASE ~(Len(s) <= MaxEntries)
  <2> DEFINE k == Len(s) - MaxEntries
  <2>5. Len(s) > MaxEntries
    BY <1>1, <1>3
  <2>1. /\ k \in Nat \ {0} /\ Newest(s) \in Seq(Entries) /\ Len(Newest(s)) = MaxEntries
        /\ \A i \in 1..MaxEntries : Newest(s)[i] = s[i + k]
    BY <2>5, NewestOfMany
  <2>7. 1 \in DOMAIN s
    BY <1>1, <2>5
  <2>2. 1 \in DOMAIN s /\ DOMAIN Newest(s) = 1..MaxEntries
    <3> HIDE DEF k
    <3> QED BY <2>1, <2>7
  <2>3. PICK i \in 1..MaxEntries : s[1].batch = s[i + k].batch
    <3>1. s[1].batch \in Held(Newest(s))
      BY <2>2 DEF Held
    <3>2. PICK i \in DOMAIN Newest(s) : s[1].batch = Newest(s)[i].batch
      BY <3>1 DEF Held
    <3> HIDE DEF k
    <3> QED BY <3>2, <2>1, <2>2
  <2>4. i + k \in DOMAIN s /\ i + k # 1
    BY <1>1, <2>5, Shift
  <2> QED BY <2>2, <2>3, <2>4 DEF Distinct
<1> QED BY <1>2, <1>3

LEMMA CarefulInit == Init => Careful
<1> SUFFICES ASSUME Init PROVE Careful
  OBVIOUS
<1>1. /\ current = 1 /\ ~file.cut /\ file.lines = << >> /\ entries[1] = << >>
      /\ \A d \in Drainers : ~Busy(d)
      /\ \A b \in Batches : sent[b].at # "queued"
  BY Constants DEF Init, Lines, Idle, Busy
<1>2. Newest(<< >>) = << >>
  <2>1. 0 <= MaxEntries
    BY Constants
  <2> QED BY <2>1, EmptyHolds, NewestHolds
<1> QED BY <1>1, <1>2 DEF Careful, Lost

\* Whatever a batch waits in, it is not lost.
LEMMA NoneLost ==
  ASSUME \A b \in Batches : sent[b].at = "queued" => b \in acked \cup dropped \cup Waiting
  PROVE  Lost = {}
  BY DEF Lost

LEMMA CarefulSend ==
  ASSUME TypeOK, Careful, NEW b \in Batches, Submit(b) \/ DeliverAtOnce(b)
  PROVE  Careful'
<1>1. UNCHANGED <<up, current, entries, file, drain, dropped>> /\ acked \subseteq acked'
  BY DEF Submit, DeliverAtOnce, queueVars, historyVars
<1>2. \A c \in Batches : sent'[c].at = "queued" => sent[c].at = "queued"
  <2>1. CASE Submit(b)
    BY <2>1, Typed DEF Submit
  <2>2. CASE DeliverAtOnce(b)
    <3>1. sent' = [sent EXCEPT ![b] = [@ EXCEPT !.at = "delivered"]]
      BY <2>2 DEF DeliverAtOnce
    <3> QED BY <3>1, Typed DEF Sent
  <2> QED BY <2>1, <2>2
<1> QED BY <1>1, <1>2 DEF Careful, Busy, Front, Hand, Lost, Waiting

LEMMA CarefulEnqueue ==
  ASSUME OInv, Careful, Orderly, NEW b \in Batches, Enqueue(b), upset' \subseteq {"crash"}
  PROVE  Careful'
<1> DEFINE e == Entry(b, 1)
           grown == Append(entries[1], e)
           pushedOut == Held(grown) \ Held(Newest(grown))
<1>1. /\ TypeOK /\ Settled /\ up /\ current = 1 /\ sent[b].queue \in Generations
  BY Typed DEF OInv, Settled, Careful, Enqueue, Sent
<1>2. sent[b].queue = 1
  BY <1>1, Constants DEF Enqueue, Settled, Generations
<1>3. /\ e \in Entries /\ e.batch = b /\ 1 \in Generations
      /\ entries[1] \in Seq(Entries) /\ file.lines \in Seq(Entries) /\ Len(entries[1]) <= MaxEntries
      /\ Distinct(entries[1]) /\ b \notin Held(entries[1])
  BY <1>1, Typed, Constants, EntryIsEntry DEF Orderly, Fresh, Enqueue
<1>4. /\ grown \in Seq(Entries) /\ Distinct(grown) /\ Held(grown) = Held(entries[1]) \cup {b}
  BY <1>3, AppendHolds
<1>5. /\ UNCHANGED <<up, current, drain, acked>>
      /\ entries'[1] = Newest(grown)
      /\ dropped' = dropped \cup pushedOut
      /\ \A c \in Batches : sent'[c].at = "queued" => c = b \/ sent[c].at = "queued"
  <2>1. \A c \in Batches \ {b} : sent'[c] = sent[c]
    BY <1>1, Typed DEF Enqueue
  <2>2. entries'[1] = Newest(grown)
    BY <1>1, <1>2, <1>3, Typed DEF Enqueue, QueuesOK
  <2> QED BY <1>2, <2>1, <2>2 DEF Enqueue
<1>6. ~file'.cut /\ file'.lines = Append(file.lines, e)
  <2>1. file' = Appended(file, e)
    BY DEF Enqueue, Missed
  <2> QED BY <2>1 DEF Careful, Appended, Lines
<1>7. Newest(file'.lines) = entries'[1]
  BY <1>1, <1>3, <1>5, <1>6, NewestAppend DEF Careful
<1>8. ASSUME NEW d \in Drainers, Busy(d)
      PROVE  Held(Front(d))' \subseteq acked \cup dropped \cup Hand(d)
  <2>1. drain[d].queue = 1 /\ drain[d].taken \in Nat
    <3>1. drain[d].queue \in Generations /\ drain[d].taken \in Nat
      BY <1>1, Typed, DrainFacts
    <3>2. drain[d].queue <= 1
      BY <1>1 DEF Settled
    <3> QED BY <3>1, <3>2, Constants DEF Generations
  <2>2. drain[d].taken <= Len(entries[1])
    BY <1>8, <2>1 DEF Orderly, Apart
  <2>3. d \in Draining(1)
    BY <1>8, <2>1 DEF Draining, Busy
  <2>4. pushedOut = {}
    BY <1>2, <2>3 DEF Enqueue
  <2>5. Newest(grown) = grown
    <3> HIDE DEF grown
    <3> QED BY <1>4, <2>4, NothingPushedOut
  <2>6. Front(d)' = SubSeq(grown, 1, drain[d].taken)
    BY <1>5, <2>5 DEF Front
  <2>7. /\ drain[d].taken \in 0..Len(entries[1]) /\ drain[d].taken \in 0..Len(grown)
        /\ 1 \in Nat \ {0} /\ Len(entries[1]) \in Nat
    BY <1>3, <2>1, <2>2, LenIsNat, AppendHolds
  <2>8. /\ Held(Front(d)) = {entries[1][i].batch : i \in 1..drain[d].taken}
        /\ Held(SubSeq(grown, 1, drain[d].taken)) = {grown[i].batch : i \in 1..drain[d].taken}
    <3> HIDE DEF grown
    <3> QED BY <1>3, <1>4, <2>7, SubSeqHolds DEF Front
  <2>9. \A i \in 1..drain[d].taken : grown[i] = entries[1][i]
    BY <1>3, <2>7
  <2>10. Held(Front(d)) \subseteq acked \cup dropped \cup Hand(d)
    BY <1>8 DEF Careful
  <2> HIDE DEF grown
  <2> QED BY <2>6, <2>8, <2>9, <2>10
<1>9. Lost' = {}
  <2> SUFFICES ASSUME NEW c \in Batches, sent'[c].at = "queued"
               PROVE  c \in acked' \cup dropped' \cup Waiting'
    BY DEF Lost
  <2>1. Waiting = Held(entries[1]) /\ Waiting' = Held(Newest(grown))
    BY <1>1, <1>5 DEF Waiting
  <2>2. c \in acked \cup dropped \cup Held(grown)
    BY <1>4, <1>5, <2>1 DEF Careful, Lost
  <2> QED BY <1>5, <2>1, <2>2
<1>10. \A d \in Drainers : Busy(d)' => Busy(d) /\ Hand(d)' = Hand(d)
  BY <1>5 DEF Busy, Hand
<1> HIDE DEF pushedOut
<1> QED BY <1>1, <1>5, <1>6, <1>7, <1>8, <1>9, <1>10 DEF Careful

LEMMA OneGeneration ==
  ASSUME TypeOK, Settled, Careful, NEW d \in Drainers
  PROVE  drain[d].queue = 1 /\ QueueOf(d) = 1
<1>1. drain[d].queue \in Generations /\ drain[d].queue <= current /\ current = 1
  BY Typed, DrainFacts DEF Settled, Careful
<1>2. drain[d].queue = 1
  BY <1>1, Constants DEF Generations
<1> QED BY <1>1, <1>2 DEF QueueOf

LEMMA CarefulStart ==
  ASSUME TypeOK, Settled, Careful, NEW d \in Drainers, StartDrain(d)
  PROVE  Careful'
<1>1. UNCHANGED <<up, current, entries, file, sent, acked, dropped>>
  BY DEF StartDrain, queueVars
<1>2. PICK n \in 0..Len(entries[1]) : drain' = [drain EXCEPT ![d] =
          [at |-> "draining", queue |-> 1, taken |-> n,
           selected |-> SubSeq(entries[1], 1, n), retained |-> << >>]]
  BY OneGeneration DEF StartDrain
<1>3. /\ drain'[d].taken = n /\ drain'[d].selected = SubSeq(entries[1], 1, n)
      /\ \A c \in Drainers \ {d} : drain'[c] = drain[c]
  BY <1>2, Typed
<1>4. Held(Front(d))' \subseteq Hand(d)'
  BY <1>1, <1>3 DEF Front, Hand
<1>5. \A c \in Drainers \ {d} : /\ Busy(c)' = Busy(c) /\ Front(c)' = Front(c)
                                /\ Hand(c)' = Hand(c)
  BY <1>1, <1>3 DEF Busy, Front, Hand
<1> QED BY <1>1, <1>4, <1>5 DEF Careful, Lost, Waiting

\* What leaves the hand of a drain was accepted or is dropped.
LEMMA CarefulHandle ==
  ASSUME TypeOK, Settled, Careful, NEW d \in Drainers, DeliverNext(d) \/ Expire(d)
  PROVE  Careful'
<1> DEFINE s == drain[d].selected
           r == drain[d].retained
           e == Head(s)
           again == Entry(e.batch, e.attempts + 1)
<1>1. /\ drain[d] \in Drain /\ s \in Seq(Entries) /\ r \in Seq(Entries) /\ s # << >>
      /\ UNCHANGED <<up, current, entries, file, sent>>
  BY Typed, DrainFacts DEF DeliverNext, Expire, queueVars
<1>2. acked \subseteq acked' /\ dropped \subseteq dropped'
  BY DEF DeliverNext, Expire, historyVars
<1>3. /\ drain'[d].taken = drain[d].taken /\ drain'[d].at = drain[d].at
      /\ Hand(d) \subseteq acked' \cup dropped' \cup Hand(d)'
  <2>1. CASE DeliverNext(d)
    <3>1. e \in Entries /\ Held(s) = {e.batch} \cup Held(Tail(s))
      BY <1>1, HeadTailHold
    <3>2. again \in Entries /\ again.batch = e.batch
      BY <3>1, EntryIsEntry DEF Entries
    <3>3. Held(Append(r, again)) = Held(r) \cup {e.batch}
      BY <1>1, <3>2, AppendHolds
    <3>4. \/ drain'[d] = [drain[d] EXCEPT !.selected = Tail(s)] /\ e.batch \in acked' \cup dropped'
          \/ drain'[d] = [drain[d] EXCEPT !.selected = Tail(s), !.retained = Append(r, again)]
      BY <2>1, Typed DEF DeliverNext
    <3> HIDE DEF e, again
    <3>5. /\ drain'[d].at = drain[d].at
          /\ drain'[d].taken = drain[d].taken /\ drain'[d].selected = Tail(s)
          /\ \/ drain'[d].retained = r /\ e.batch \in acked' \cup dropped'
             \/ drain'[d].retained = Append(r, again)
      BY <1>1, <3>4 DEF Drain
    <3> QED BY <3>1, <3>3, <3>5 DEF Hand
  <2>2. CASE Expire(d)
    <3>1. Held(r \o s) = Held(r) \cup Held(s)
      BY <1>1, ConcatHolds
    <3>2. drain'[d] = [drain[d] EXCEPT !.selected = << >>, !.retained = r \o s]
      BY <2>2, Typed DEF Expire
    <3>3. /\ drain'[d].at = drain[d].at
          /\ drain'[d].taken = drain[d].taken /\ drain'[d].retained = r \o s
      BY <1>1, <3>2 DEF Drain
    <3> QED BY <3>1, <3>3 DEF Hand
  <2> QED BY <2>1, <2>2
<1>4. \A c \in Drainers \ {d} : drain'[c] = drain[c]
  BY Typed DEF DeliverNext, Expire
<1> HIDE DEF s, r, e, again
<1>5. \A c \in Drainers : Front(c)' = Front(c) /\ Busy(c)' = Busy(c)
  BY <1>1, <1>3, <1>4 DEF Front, Busy
<1>6. \A c \in Drainers : Hand(c) \subseteq acked' \cup dropped' \cup Hand(c)'
  BY <1>3, <1>4 DEF Hand
<1>7. \A c \in Drainers : Busy(c) => Held(Front(c)) \subseteq acked' \cup dropped' \cup Hand(c)'
  BY <1>2, <1>6 DEF Careful
<1>8. Lost' = {}
  BY <1>1, <1>2 DEF Careful, Lost, Waiting
<1> QED BY <1>1, <1>5, <1>7, <1>8 DEF Careful

LEMMA CarefulReplace ==
  ASSUME TypeOK, Settled, Orderly, Careful, NEW d \in Drainers, Replace(d),
         upset' \subseteq {"crash"}
  PROVE  Careful'
<1> DEFINE q == entries[1]
           n == drain[d].taken
           r == drain[d].retained
           queue == Merged(d, q)
<1>1. /\ drain[d].queue = 1 /\ 1 \in Generations
      /\ DrainOK(drain[d]) /\ q \in Seq(Entries) /\ Len(q) <= MaxEntries
      /\ r \in Seq(Entries) /\ n \in Nat /\ drain[d].selected = << >>
  BY OneGeneration, Typed, DrainFacts, Constants DEF Replace
<1>2. Busy(d) /\ Apart(d) /\ Hand(d) = Held(r) /\ up
  BY <1>1, EmptyHolds DEF Replace, Busy, Orderly, Hand, Settled
<1>13. n <= Len(q)
  BY <1>1, <1>2 DEF Apart
<1>3. n \in 0..Len(q)
  BY <1>1, <1>13, LenIsNat
<1>4. /\ queue \in Seq(Entries) /\ Len(queue) <= MaxEntries /\ queue = r \o Rest(q, n)
  BY <1>1, <1>13, MergedOK
<1>5. /\ Held(q) = Held(Front(d)) \cup Held(Rest(q, n)) /\ Rest(q, n) \in Seq(Entries)
  BY <1>1, <1>3, SplitHolds DEF Front
<1>6. Held(queue) = Held(r) \cup Held(Rest(q, n))
  BY <1>1, <1>4, <1>5, ConcatHolds
<1>7. Held(q) \subseteq acked \cup dropped \cup Held(queue)
  BY <1>2, <1>5, <1>6 DEF Careful
<1>8. /\ UNCHANGED <<up, current, sent, acked, dropped>>
      /\ entries'[1] = queue
      /\ drain'[d] = After(d) /\ \A c \in Drainers \ {d} : drain'[c] = drain[c]
  BY Typed, <1>1 DEF Replace, QueuesOK
<1>9. ~file'.cut /\ file'.lines = queue
  BY <1>1 DEF Replace, Missed, Lines
<1> HIDE DEF queue, n, r
<1>10. Newest(file'.lines) = entries'[1]
  BY <1>4, <1>8, <1>9, NewestHolds
<1>11. \A c \in Drainers : ~Busy(c)'
  <2>1. \A c \in Drainers : Busy(c) => c = d
    BY <1>1, <1>2, OneGeneration DEF Orderly
  <2> QED BY <2>1, <1>8, AfterIsEmpty DEF Busy
<1>12. Lost' = {}
  BY <1>2, <1>7, <1>8 DEF Careful, Lost, Waiting
<1> QED BY <1>8, <1>9, <1>10, <1>11, <1>12 DEF Careful

LEMMA CarefulCrash ==
  ASSUME TypeOK, Settled, Careful, Crash
  PROVE  Careful'
<1>1. /\ UNCHANGED <<file, acked, dropped>> /\ \A d \in Drainers : ~Busy(d)'
      /\ \A b \in Batches : sent'[b].at = "queued" <=> sent[b].at = "queued"
  BY CrashEmpties
<1>2. up /\ ~up' /\ current' = 1
  BY DEF Crash
<1>3. Waiting = Waiting'
  BY <1>1, <1>2 DEF Careful, Waiting
<1> QED BY <1>1, <1>2, <1>3 DEF Careful, Lost

LEMMA CarefulRestart ==
  ASSUME TypeOK, Settled, Careful, Restart
  PROVE  Careful'
<1>1. /\ UNCHANGED <<file, current, sent, drain, acked, dropped>> /\ ~up /\ up'
      /\ entries'[1] = Newest(file.lines)
  BY Typed, Constants DEF Restart, historyVars, QueuesOK
<1>2. \A d \in Drainers : ~Busy(d)'
  BY <1>1 DEF Settled, Busy
<1>3. Waiting = Waiting'
  BY <1>1 DEF Careful, Waiting
<1> QED BY <1>1, <1>2, <1>3 DEF Careful, Lost

LEMMA CarefulStep ==
  ASSUME OInv, Careful, [Next]_vars, upset \subseteq {"crash"}, upset' \subseteq {"crash"}
  PROVE  Careful'
<1>1. TypeOK /\ Settled /\ Orderly
  BY DEF OInv
<1>2. ~Reload
  BY DEF Reload
<1>3. CASE UNCHANGED vars
  BY <1>3 DEF vars, queueVars, historyVars, Careful, Busy, Front, Hand, Lost, Waiting
<1> QED
  BY <1>1, <1>2, <1>3, CarefulSend, CarefulEnqueue, CarefulStart, CarefulHandle, CarefulReplace,
     CarefulCrash, CarefulRestart DEF Next, Work

\* A queued batch waits until the honeypot took it or it is given up, also when
\* it is queued during a drain and across any number of crashes, provided no
\* drains overlap, none is pushed out during a drain, no write fails and the
\* configuration is not reloaded.
THEOREM NothingIsLost == Spec => []NothingLost
<1>1. Init => IInv
  BY OInvInductive, CarefulInit DEF IInv
<1>2. ASSUME IInv, [Next]_vars PROVE IInv'
  <2>1. OInv'
    BY <1>2, OInvInductive DEF IInv
  <2>2. upset' \subseteq {"crash"} => Careful'
    BY <1>2, UpsetGrows, CarefulStep DEF IInv
  <2> QED BY <2>1, <2>2 DEF IInv
<1>3. IInv => NothingLost
  BY DEF IInv, Careful, NothingLost
<1> QED BY <1>1, <1>2, <1>3, PTL DEF Spec

-----------------------------------------------------------------------------
(* A queue without overlapping drains, crashes and reloads: its entries    *)
(* count the posts of their batches, and none of them was accepted.        *)

Fit(e, t, a) ==
  t[e.batch] = e.attempts /\ e.batch \notin a /\ (e.attempts = 1 \/ e.attempts < MaxAttempts)

\* The entries of a queue behind the first n.
AllFit(queue, n, t, a) == \A i \in n + 1..Len(queue) : Fit(queue[i], t, a)

MostPosts == IF MaxAttempts = 1 THEN 2 ELSE MaxAttempts

Counted ==
  /\ up /\ current = 1
  /\ \A b \in Batches : /\ tries[b] <= MostPosts
                        /\ sent[b].at \in {"new", "posting"} => tries[b] = 0 /\ b \notin acked
  /\ (\A d \in Drainers : ~Busy(d)) => AllFit(entries[1], 0, tries, acked)
  /\ \A d \in Drainers : Busy(d) =>
       /\ AllFit(drain[d].retained, 0, tries, acked)
       /\ AllFit(drain[d].selected, 0, tries, acked)
       /\ AllFit(entries[1], drain[d].taken, tries, acked)

Undisturbed == upset \subseteq {"crowd", "write"}

CInv == OInv /\ (Undisturbed => Counted)

LEMMA SelectedFit ==
  ASSUME NEW s \in Seq(Entries), NEW n \in 0..Len(s), NEW t, NEW a, AllFit(s, 0, t, a)
  PROVE  AllFit(SubSeq(s, 1, n), 0, t, a) /\ AllFit(s, n, t, a)
<1>1. /\ SubSeq(s, 1, n) \in Seq(Entries) /\ Len(SubSeq(s, 1, n)) = n
      /\ \A i \in 1..n : SubSeq(s, 1, n)[i] = s[i]
  OBVIOUS
<1>2. 0 + 1..n \subseteq 0 + 1..Len(s) /\ n + 1..Len(s) \subseteq 0 + 1..Len(s) /\ 0 + 1..n = 1..n
  BY LenIsNat
<1> QED BY <1>1, <1>2 DEF AllFit

LEMMA AppendFits ==
  ASSUME NEW s \in Seq(Entries), NEW e \in Entries, NEW t, NEW a, AllFit(s, 0, t, a), Fit(e, t, a)
  PROVE  AllFit(Append(s, e), 0, t, a)
<1>1. \A i \in 0 + 1..Len(Append(s, e)) : (i \in 0 + 1..Len(s) /\ Append(s, e)[i] = s[i]) \/ Append(s, e)[i] = e
  OBVIOUS
<1> QED BY <1>1 DEF AllFit

LEMMA HeadTailFit ==
  ASSUME NEW s \in Seq(Entries), s # << >>, NEW t, NEW a, AllFit(s, 0, t, a)
  PROVE  Fit(Head(s), t, a) /\ AllFit(Tail(s), 0, t, a)
<1>1. /\ 1 \in 0 + 1..Len(s) /\ Head(s) = s[1]
      /\ \A i \in 0 + 1..Len(Tail(s)) : i + 1 \in 0 + 1..Len(s) /\ Tail(s)[i] = s[i + 1]
  OBVIOUS
<1> QED BY <1>1 DEF AllFit

LEMMA RestFits ==
  ASSUME NEW s \in Seq(Entries), NEW n \in 0..Len(s), NEW t, NEW a, AllFit(s, n, t, a)
  PROVE  Rest(s, n) \in Seq(Entries) /\ AllFit(Rest(s, n), 0, t, a)
<1> DEFINE v == Rest(s, n)
<1>1. v \in Seq(Entries) /\ Len(v) = Len(s) - n
  BY SplitHolds
<1>2. \A i \in 1..Len(v) : v[i] = s[n + 1 + i - 1]
  <2>1. n + 1 \in Nat \ {0} /\ Len(s) \in 0..Len(s)
    BY LenIsNat
  <2> QED BY <2>1, SubSeqIsSeq DEF Rest
<1> HIDE DEF v
<1>3. \A i \in 0 + 1..Len(v) : n + i \in n + 1..Len(s) /\ v[i] = s[n + i]
  BY <1>1, <1>2, LenIsNat
<1> QED BY <1>1, <1>3 DEF AllFit, v

LEMMA JoinFits ==
  ASSUME NEW r \in Seq(Entries), NEW v \in Seq(Entries), NEW t, NEW a,
         AllFit(r, 0, t, a), AllFit(v, 0, t, a)
  PROVE  AllFit(r \o v, 0, t, a)
<1> DEFINE u == r \o v
<1>1. /\ u \in Seq(Entries) /\ Len(u) = Len(r) + Len(v) /\ Len(r) \in Nat /\ Len(v) \in Nat
      /\ \A i \in 1..Len(r) : u[i] = r[i]
      /\ \A i \in 1..Len(v) : u[Len(r) + i] = v[i]
  OBVIOUS
<1> HIDE DEF u
<1>2. \A i \in 0 + 1..Len(u) :
        \/ i \in 0 + 1..Len(r) /\ u[i] = r[i]
        \/ i - Len(r) \in 0 + 1..Len(v) /\ u[i] = v[i - Len(r)]
  BY <1>1
<1> QED BY <1>2 DEF AllFit, u

\* Posting a batch that is not among them leaves the entries as they were.
LEMMA OthersFit ==
  ASSUME NEW s \in Seq(Entries), NEW n \in Nat, NEW t, NEW a, NEW u, NEW b,
         AllFit(s, n, t, a), \A c \in Held(Rest(s, n)) : u[c] = t[c] /\ (c \in b => c \in a)
  PROVE  AllFit(s, n, u, b)
<1>1. \A i \in n + 1..Len(s) : s[i].batch \in Held(Rest(s, n))
  BY RestHolds
<1> QED BY <1>1 DEF AllFit, Fit

LEMMA RestOfAll ==
  ASSUME NEW s \in Seq(Entries)
  PROVE  Held(Rest(s, 0)) = Held(s)
<1>1. Held(Rest(s, 0)) = {s[i].batch : i \in 0 + 1..Len(s)} /\ DOMAIN s = 0 + 1..Len(s)
  BY RestHolds
<1> QED BY <1>1 DEF Held

\* Before a reload there is one queue, and one drain of it at a time.
LEMMA OneDrain ==
  ASSUME OInv, Counted, Undisturbed
  PROVE  /\ TypeOK /\ Settled /\ Orderly /\ 1 \in Generations
         /\ \A d \in Drainers : drain[d].queue = 1 /\ QueueOf(d) = 1
         /\ \A c, d \in Drainers : Busy(c) /\ Busy(d) => c = d
         /\ \A b \in Batches : sent[b].at = "posting" => sent[b].queue = 1
<1>1. TypeOK /\ Settled /\ Orderly /\ 1 \in Generations
  BY Constants DEF OInv, Undisturbed
<1>2. \A d \in Drainers : drain[d].queue \in Generations /\ drain[d].queue <= 1
  BY <1>1, Typed, DrainFacts DEF Settled, Counted
<1>3. \A d \in Drainers : drain[d].queue = 1 /\ QueueOf(d) = 1
  BY <1>2, Constants DEF Generations, QueueOf, Counted
<1>4. \A b \in Batches : sent[b].at = "posting" => sent[b].queue \in Generations /\ sent[b].queue <= 1
  BY <1>1, Typed DEF Settled, Counted, Sent
<1> QED BY <1>1, <1>3, <1>4, Constants DEF Orderly, Generations

LEMMA CountedInit == Init => Counted
<1> SUFFICES ASSUME Init PROVE Counted
  OBVIOUS
<1>1. /\ up /\ current = 1 /\ entries[1] = << >> /\ acked = {}
      /\ \A d \in Drainers : ~Busy(d)
      /\ \A b \in Batches : tries[b] = 0
  BY Constants DEF Init, Idle, Busy
<1>2. 0 <= MostPosts
  BY Constants DEF MostPosts
<1>3. AllFit(<< >>, 0, tries, acked)
  <2>1. 0 + 1..Len(<< >>) = {}
    BY EmptyHolds
  <2> QED BY <2>1 DEF AllFit
<1> QED BY <1>1, <1>2, <1>3 DEF Counted

\* A handler posts or queues what nobody holds yet.
LEMMA CountedSend ==
  ASSUME OInv, Counted, Undisturbed, NEW b \in Batches, Submit(b) \/ DeliverAtOnce(b) \/ Enqueue(b)
  PROVE  Counted'
<1>1. /\ TypeOK /\ Settled /\ Orderly /\ 1 \in Generations
      /\ sent[b].at = "posting" => sent[b].queue = 1
  BY OneDrain
<1>2. sent[b].at \in {"new", "posting"} /\ Fresh(b)
  <2>1. sent[b].at \in {"new", "posting"}
    BY DEF Submit, DeliverAtOnce, Enqueue
  <2> QED BY <1>1, <2>1 DEF Orderly
<1>3. tries[b] = 0 /\ b \notin acked
  BY <1>2 DEF Counted
<1>4. /\ UNCHANGED <<up, current, drain>>
      /\ \A c \in Batches \ {b} : sent'[c] = sent[c] /\ tries'[c] = tries[c] /\ (c \in acked' => c \in acked)
  <2>1. sent \in [Batches -> Sent] /\ tries \in [Batches -> Nat]
    BY <1>1, Typed DEF TypeOK
  <2> QED BY <2>1 DEF Submit, DeliverAtOnce, Enqueue, queueVars, historyVars
<1>5. /\ tries'[b] <= MostPosts
      /\ sent'[b].at \in {"new", "posting"} => tries'[b] = 0 /\ b \notin acked'
  <2>1. sent \in [Batches -> Sent] /\ tries \in [Batches -> Nat]
    BY <1>1, Typed DEF TypeOK
  <2>2. 0 <= MostPosts /\ 0 + 1 <= MostPosts
    BY Constants DEF MostPosts
  <2>3. CASE Submit(b)
    BY <1>3, <2>2, <2>3 DEF Submit, historyVars
  <2>4. CASE DeliverAtOnce(b) \/ Enqueue(b)
    <3>1. tries'[b] = 0 + 1
      BY <1>3, <2>1, <2>4 DEF DeliverAtOnce, Enqueue
    <3>2. sent'[b].at \in {"delivered", "queued"}
      BY <2>1, <2>4 DEF DeliverAtOnce, Enqueue, Sent
    <3> QED BY <2>2, <3>1, <3>2
  <2> QED BY <2>3, <2>4
<1>6. ASSUME NEW s \in Seq(Entries), NEW n \in 0..Len(s), b \notin Held(s), AllFit(s, n, tries, acked)
      PROVE  AllFit(s, n, tries', acked')
  <2>1. Held(Rest(s, n)) \subseteq Held(s) /\ Held(s) \subseteq Batches
    BY SplitHolds, HeldAreBatches
  <2>2. \A c \in Held(Rest(s, n)) : tries'[c] = tries[c] /\ (c \in acked' => c \in acked)
    BY <1>4, <1>6, <2>1
  <2> QED BY <1>6, <2>2, OthersFit, LenIsNat
<1>7. ASSUME NEW d \in Drainers, Busy(d)
      PROVE  /\ AllFit(drain[d].retained, 0, tries', acked')
             /\ AllFit(drain[d].selected, 0, tries', acked')
  <2>1. /\ drain[d].retained \in Seq(Entries) /\ drain[d].selected \in Seq(Entries)
        /\ b \notin Held(drain[d].retained) /\ b \notin Held(drain[d].selected)
    BY <1>1, <1>2, Typed, DrainFacts DEF Fresh, Hand
  <2>2. 0 \in 0..Len(drain[d].retained) /\ 0 \in 0..Len(drain[d].selected)
    BY <2>1, LenIsNat
  <2> QED BY <1>6, <1>7, <2>1, <2>2 DEF Counted
<1>8. /\ entries[1] \in Seq(Entries) /\ Len(entries[1]) <= MaxEntries /\ b \notin Held(entries[1])
      /\ Len(entries[1]) \in Nat
  BY <1>1, <1>2, Typed, LenIsNat DEF Fresh
<1>9. ASSUME NEW n \in 0..Len(entries[1]), AllFit(entries[1], n, tries, acked)
      PROVE  AllFit(entries'[1], n, tries', acked')
  <2>1. AllFit(entries[1], n, tries', acked')
    BY <1>6, <1>8, <1>9
  <2>2. CASE Submit(b) \/ DeliverAtOnce(b)
    BY <2>1, <2>2 DEF Submit, DeliverAtOnce, queueVars
  <2>3. CASE Enqueue(b)
    <3> DEFINE e == Entry(b, 1)
               q == Newest(Append(entries[1], e))
    <3>1. entries'[1] = q
      BY <1>1, <2>3, Typed DEF Enqueue, QueuesOK
    <3>2. e \in Entries /\ e.batch = b /\ e.attempts = 1
      BY EntryIsEntry
    <3>3. tries'[b] = 1 /\ b \notin acked'
      BY <1>1, <1>3, <2>3, Typed DEF Enqueue, TypeOK
    <3>4. Fit(e, tries', acked')
      BY <3>2, <3>3 DEF Fit
    <3>7. n \in Nat /\ n <= Len(entries[1])
      BY <1>8
    <3>8. e \in Entries
      BY <3>2
    <3> HIDE DEF e
    <3>5. \A i \in n + 1..Len(q) : (\E j \in n + 1..Len(entries[1]) : q[i] = entries[1][j]) \/ q[i] = e
      BY <1>8, <3>7, <3>8, EnqueueShifts
    <3> HIDE DEF q
    <3>6. AllFit(q, n, tries', acked')
      BY <2>1, <3>4, <3>5 DEF AllFit
    <3> QED BY <3>1, <3>6
  <2> QED BY <2>2, <2>3
<1>10. ASSUME NEW d \in Drainers, Busy(d)
       PROVE  AllFit(entries'[1], drain[d].taken, tries', acked')
  <2>1. drain[d].taken \in Nat /\ Apart(d) /\ drain[d].queue = 1
    BY <1>1, <1>10, OneDrain, Typed, DrainFacts DEF Orderly
  <2>2. drain[d].taken \in 0..Len(entries[1])
    BY <1>8, <2>1 DEF Apart
  <2> QED BY <1>9, <1>10, <2>2 DEF Counted
<1>11. (\A d \in Drainers : ~Busy(d)) => AllFit(entries'[1], 0, tries', acked')
  <2>1. 0 \in 0..Len(entries[1])
    BY <1>8
  <2> QED BY <1>9, <2>1 DEF Counted
<1>12. \A d \in Drainers : Busy(d)' = Busy(d)
  BY <1>4 DEF Busy
<1>13. \A c \in Batches : /\ tries'[c] <= MostPosts
                          /\ sent'[c].at \in {"new", "posting"} => tries'[c] = 0 /\ c \notin acked'
  BY <1>4, <1>5 DEF Counted
<1> QED BY <1>4, <1>7, <1>10, <1>11, <1>12, <1>13 DEF Counted

LEMMA EmptyFits == \A t, a : AllFit(<< >>, 0, t, a)
<1>1. 0 + 1..Len(<< >>) = {}
  BY EmptyHolds
<1> QED BY <1>1 DEF AllFit

\* A drain that meets no other takes entries that count right.
LEMMA CountedStart ==
  ASSUME OInv, Counted, Undisturbed, NEW d \in Drainers, StartDrain(d), "overlap" \notin upset'
  PROVE  Counted'
<1>1. /\ TypeOK /\ 1 \in Generations /\ QueueOf(d) = 1
      /\ \A c \in Drainers : drain[c].queue = 1
  BY OneDrain
<1>2. UNCHANGED <<up, current, entries, sent, tries, acked>>
  BY DEF StartDrain, queueVars
<1>3. \A c \in Drainers : ~Busy(c)
  <2>1. Draining(1) = {}
    BY <1>1 DEF StartDrain
  <2> QED BY <1>1, <2>1 DEF Draining, Busy
<1>4. entries[1] \in Seq(Entries) /\ AllFit(entries[1], 0, tries, acked)
  BY <1>1, <1>3, Typed DEF Counted
<1>5. PICK n \in 0..Len(entries[1]) : drain' = [drain EXCEPT ![d] =
          [at |-> "draining", queue |-> 1, taken |-> n,
           selected |-> SubSeq(entries[1], 1, n), retained |-> << >>]]
  BY <1>1 DEF StartDrain
<1>6. /\ drain'[d].taken = n /\ drain'[d].selected = SubSeq(entries[1], 1, n)
      /\ drain'[d].retained = << >> /\ drain'[d].at = "draining"
      /\ \A c \in Drainers \ {d} : drain'[c] = drain[c]
  BY <1>1, <1>5, Typed
<1>7. AllFit(SubSeq(entries[1], 1, n), 0, tries, acked) /\ AllFit(entries[1], n, tries, acked)
  BY <1>4, SelectedFit
<1>8. Busy(d)' /\ \A c \in Drainers \ {d} : ~Busy(c)'
  BY <1>3, <1>6 DEF Busy
<1> QED BY <1>2, <1>6, <1>7, <1>8, EmptyFits DEF Counted

\* Among what a drain that meets no other holds, no two entries are of one batch.
LEMMA HandFacts ==
  ASSUME OInv, Counted, Undisturbed, NEW d \in Drainers, drain[d].selected # << >>
  PROVE  LET s == drain[d].selected
             e == Head(s)
         IN  /\ Busy(d) /\ drain[d] \in Drain
             /\ s \in Seq(Entries) /\ drain[d].retained \in Seq(Entries)
             /\ e \in Entries /\ Tail(s) \in Seq(Entries)
             /\ Fit(e, tries, acked) /\ AllFit(Tail(s), 0, tries, acked)
             /\ sent[e.batch].at = "queued"
             /\ e.batch \notin Held(Tail(s))
             /\ e.batch \notin Held(drain[d].retained)
             /\ e.batch \notin Held(Rest(entries[1], drain[d].taken))
             /\ entries[1] \in Seq(Entries) /\ drain[d].taken \in 0..Len(entries[1])
<1> DEFINE s == drain[d].selected
           e == Head(s)
<1>1. TypeOK /\ Settled /\ Orderly /\ 1 \in Generations /\ drain[d].queue = 1
  BY OneDrain
<1>2. /\ DrainOK(drain[d]) /\ drain[d] \in Drain /\ s \in Seq(Entries)
      /\ drain[d].retained \in Seq(Entries) /\ drain[d].taken \in Nat
      /\ entries[1] \in Seq(Entries)
  BY <1>1, Typed, DrainFacts
<1>3. Busy(d) /\ Apart(d)
  BY <1>1 DEF Settled, Orderly
<1>4. /\ e \in Entries /\ Tail(s) \in Seq(Entries)
      /\ Held(s) = {e.batch} \cup Held(Tail(s)) /\ e.batch \notin Held(Tail(s))
  BY <1>2, <1>3, HeadTailHold DEF Apart
<1>5. Fit(e, tries, acked) /\ AllFit(Tail(s), 0, tries, acked)
  BY <1>2, <1>3, HeadTailFit DEF Counted
<1> HIDE DEF e, s
<1>6. /\ e.batch \in Hand(d) /\ e.batch \notin Held(drain[d].retained)
      /\ e.batch \notin Held(Rest(entries[1], drain[d].taken))
  BY <1>1, <1>3, <1>4 DEF Apart, Hand, Behind, s
<1>7. e.batch \in Batches /\ sent[e.batch].at = "queued"
  BY <1>1, <1>4, <1>6 DEF Entries, Orderly, Fresh
<1>8. drain[d].taken \in 0..Len(entries[1])
  BY <1>1, <1>2, <1>3, LenIsNat DEF Apart
<1> QED BY <1>2, <1>3, <1>4, <1>5, <1>6, <1>7, <1>8 DEF e, s

\* The next entry is posted once more, and counts that if it is kept.
LEMMA CountedDeliver ==
  ASSUME OInv, Counted, Undisturbed, NEW d \in Drainers, DeliverNext(d)
  PROVE  Counted'
<1> DEFINE s == drain[d].selected
           r == drain[d].retained
           e == Head(s)
           b == e.batch
           again == Entry(b, e.attempts + 1)
<1>1. /\ Busy(d) /\ drain[d] \in Drain /\ s \in Seq(Entries) /\ r \in Seq(Entries)
      /\ e \in Entries /\ Tail(s) \in Seq(Entries)
      /\ Fit(e, tries, acked) /\ AllFit(Tail(s), 0, tries, acked)
      /\ sent[b].at = "queued"
      /\ b \notin Held(Tail(s)) /\ b \notin Held(r) /\ b \notin Held(Rest(entries[1], drain[d].taken))
      /\ entries[1] \in Seq(Entries) /\ drain[d].taken \in 0..Len(entries[1])
  BY HandFacts DEF DeliverNext
<1>2. /\ b \in Batches /\ e.attempts \in Nat
      /\ again \in Entries /\ again.batch = b /\ again.attempts = e.attempts + 1
  BY <1>1, EntryIsEntry DEF Entries
<1>3. /\ TypeOK /\ tries \in [Batches -> Nat] /\ drain \in [Drainers -> Drain]
      /\ \A c \in Drainers : Busy(c) => c = d
  BY <1>1, OneDrain, Typed DEF TypeOK
<1>4. /\ UNCHANGED <<up, current, entries, sent>> /\ acked' \subseteq acked \cup {b}
      /\ tries' = [tries EXCEPT ![b] = @ + 1]
      /\ \A c \in Drainers \ {d} : drain'[c] = drain[c]
  BY <1>3 DEF DeliverNext, queueVars
<1>5. \/ drain'[d] = [drain[d] EXCEPT !.selected = Tail(s)]
      \/ /\ drain'[d] = [drain[d] EXCEPT !.selected = Tail(s), !.retained = Append(r, again)]
         /\ ~Exhausted(again.attempts) /\ acked' = acked
  BY <1>3 DEF DeliverNext
<1> HIDE DEF s, r, e, b, again
<1>6. /\ drain'[d].at = drain[d].at /\ drain'[d].taken = drain[d].taken
      /\ drain'[d].selected = Tail(s)
      /\ \/ drain'[d].retained = r
         \/ /\ drain'[d].retained = Append(r, again)
            /\ ~Exhausted(again.attempts) /\ acked' = acked
  BY <1>1, <1>5 DEF Drain, r
<1>7. /\ tries'[b] = e.attempts + 1 /\ b \notin acked
      /\ e.attempts = 1 \/ e.attempts < MaxAttempts
      /\ \A c \in Batches \ {b} : tries'[c] = tries[c]
  BY <1>1, <1>2, <1>3, <1>4 DEF Fit, b
<1>8. ASSUME NEW q \in Seq(Entries), NEW n \in 0..Len(q), b \notin Held(Rest(q, n)), AllFit(q, n, tries, acked)
      PROVE  AllFit(q, n, tries', acked')
  <2>1. n \in Nat /\ Held(Rest(q, n)) \subseteq Batches
    BY SplitHolds, HeldAreBatches
  <2>2. \A c \in Held(Rest(q, n)) : tries'[c] = tries[c] /\ (c \in acked' => c \in acked)
    BY <1>4, <1>7, <1>8, <2>1
  <2> QED BY <1>8, <2>1, <2>2, OthersFit
<1>9. ASSUME NEW q \in Seq(Entries), b \notin Held(q), AllFit(q, 0, tries, acked)
      PROVE  AllFit(q, 0, tries', acked')
  <2>1. 0 \in 0..Len(q) /\ b \notin Held(Rest(q, 0))
    BY <1>9, LenIsNat, RestOfAll
  <2> QED BY <1>8, <1>9, <2>1
<1>10. AllFit(Tail(s), 0, tries', acked')
  BY <1>1, <1>9
<1>11. AllFit(entries[1], drain[d].taken, tries', acked')
  <2>1. AllFit(entries[1], drain[d].taken, tries, acked)
    BY <1>1 DEF Counted
  <2> QED BY <1>1, <1>8, <2>1
<1>12. AllFit(r, 0, tries', acked')
  <2>1. AllFit(r, 0, tries, acked)
    BY <1>1 DEF Counted, r
  <2> QED BY <1>1, <1>9, <2>1
<1>13. ASSUME ~Exhausted(again.attempts), acked' = acked
       PROVE  AllFit(Append(r, again), 0, tries', acked')
  <2>1. again.attempts < MaxAttempts
    BY <1>2, <1>13, Constants DEF Exhausted
  <2>2. Fit(again, tries', acked')
    BY <1>2, <1>7, <1>13, <2>1 DEF Fit
  <2> QED BY <1>1, <1>2, <1>12, <2>2, AppendFits
<1>14. e.attempts + 1 <= MostPosts
  BY <1>2, <1>7, Constants DEF MostPosts
<1>15. \A c \in Batches : /\ tries'[c] <= MostPosts
                          /\ sent'[c].at \in {"new", "posting"} => tries'[c] = 0 /\ c \notin acked'
  <2> SUFFICES ASSUME NEW c \in Batches
               PROVE  /\ tries'[c] <= MostPosts
                      /\ sent'[c].at \in {"new", "posting"} => tries'[c] = 0 /\ c \notin acked'
    OBVIOUS
  <2>1. CASE c = b
    BY <1>1, <1>4, <1>7, <1>14, <2>1
  <2>2. CASE c # b
    BY <1>4, <1>7, <2>2 DEF Counted
  <2> QED BY <2>1, <2>2
<1>16. Busy(d)' /\ \A c \in Drainers \ {d} : ~Busy(c)'
  BY <1>1, <1>3, <1>4, <1>6 DEF Busy
<1>17. AllFit(drain'[d].retained, 0, tries', acked')
  BY <1>6, <1>12, <1>13
<1> QED BY <1>4, <1>6, <1>10, <1>11, <1>15, <1>16, <1>17 DEF Counted

LEMMA CountedExpire ==
  ASSUME OInv, Counted, Undisturbed, NEW d \in Drainers, Expire(d)
  PROVE  Counted'
<1> DEFINE s == drain[d].selected
           r == drain[d].retained
<1>1. Busy(d) /\ drain[d] \in Drain /\ s \in Seq(Entries) /\ r \in Seq(Entries)
  BY HandFacts DEF Expire
<1>2. /\ TypeOK /\ drain \in [Drainers -> Drain]
      /\ \A c \in Drainers : Busy(c) => c = d
  BY <1>1, OneDrain, Typed
<1>3. /\ UNCHANGED <<up, current, entries, sent, tries, acked>>
      /\ \A c \in Drainers \ {d} : drain'[c] = drain[c]
      /\ drain'[d] = [drain[d] EXCEPT !.selected = << >>, !.retained = r \o s]
  BY <1>2 DEF Expire, queueVars, historyVars
<1>4. /\ drain'[d].at = drain[d].at /\ drain'[d].taken = drain[d].taken
      /\ drain'[d].selected = << >> /\ drain'[d].retained = r \o s
  BY <1>1, <1>3 DEF Drain
<1>5. AllFit(r \o s, 0, tries, acked)
  BY <1>1, JoinFits DEF Counted
<1>6. AllFit(entries[1], drain[d].taken, tries, acked)
  BY <1>1 DEF Counted
<1> HIDE DEF s, r
<1>7. Busy(d)' /\ \A c \in Drainers \ {d} : ~Busy(c)'
  BY <1>1, <1>2, <1>3, <1>4 DEF Busy
<1>8. /\ AllFit(drain'[d].retained, 0, tries', acked')
      /\ AllFit(drain'[d].selected, 0, tries', acked')
      /\ AllFit(entries'[1], drain'[d].taken, tries', acked')
  BY <1>3, <1>4, <1>5, <1>6, EmptyFits
<1> QED BY <1>3, <1>7, <1>8 DEF Counted

\* What is put back and what was behind it make up a queue that counts right.
LEMMA CountedReplace ==
  ASSUME OInv, Counted, Undisturbed, NEW d \in Drainers, Replace(d)
  PROVE  Counted'
<1> DEFINE q == entries[1]
           n == drain[d].taken
           r == drain[d].retained
           queue == Merged(d, q)
<1>1. /\ TypeOK /\ Orderly /\ 1 \in Generations /\ drain[d].queue = 1 /\ Busy(d)
      /\ \A c \in Drainers : Busy(c) => c = d
  BY OneDrain DEF Replace, Busy
<1>2. /\ DrainOK(drain[d]) /\ r \in Seq(Entries) /\ n \in Nat
      /\ q \in Seq(Entries) /\ Len(q) <= MaxEntries
  BY <1>1, Typed, DrainFacts
<1>3. n \in 0..Len(q) /\ n <= Len(q)
  BY <1>1, <1>2, LenIsNat DEF Orderly, Apart
<1>4. queue = r \o Rest(q, n)
  BY <1>2, <1>3, MergedOK
<1>5. AllFit(r \o Rest(q, n), 0, tries, acked)
  <2>1. AllFit(r, 0, tries, acked) /\ AllFit(q, n, tries, acked)
    BY <1>1 DEF Counted
  <2> QED BY <1>2, <1>3, <2>1, RestFits, JoinFits
<1>6. /\ UNCHANGED <<up, current, sent, tries, acked>>
      /\ entries'[1] = queue
      /\ drain'[d] = After(d) /\ \A c \in Drainers \ {d} : drain'[c] = drain[c]
  BY Typed, <1>1 DEF Replace, QueuesOK
<1> HIDE DEF queue, n, r, q
<1>7. \A c \in Drainers : ~Busy(c)'
  BY <1>1, <1>6, AfterIsEmpty DEF Busy
<1> QED BY <1>4, <1>5, <1>6, <1>7 DEF Counted

LEMMA CountedStep ==
  ASSUME OInv, Counted, Undisturbed, [Next]_vars, Undisturbed'
  PROVE  Counted'
<1>4. upset' \subseteq {"crowd", "write"}
  BY DEF Undisturbed
<1>1. ~Reload /\ ~Crash /\ ~Restart
  <2>1. ~Reload
    BY <1>4 DEF Reload
  <2>2. ~Crash
    BY <1>4 DEF Crash
  <2>3. ~Restart
    BY DEF Restart, Counted
  <2> QED BY <2>1, <2>2, <2>3
<1>2. "overlap" \notin upset'
  BY DEF Undisturbed
<1>3. CASE UNCHANGED vars
  BY <1>3 DEF vars, queueVars, historyVars, Counted, Busy
<1> QED
  BY <1>1, <1>2, <1>3, CountedSend, CountedStart, CountedDeliver, CountedExpire, CountedReplace
     DEF Next, Work

LEMMA CInvInductive ==
  /\ Init => CInv
  /\ CInv /\ [Next]_vars => CInv'
<1>1. Init => CInv
  BY OInvInductive, CountedInit DEF CInv
<1>2. ASSUME CInv, [Next]_vars PROVE CInv'
  <2>1. OInv'
    BY <1>2, OInvInductive DEF CInv
  <2>2. Undisturbed' => Undisturbed
    BY <1>2, UpsetGrows DEF Undisturbed
  <2> QED BY <1>2, <2>1, <2>2, CountedStep DEF CInv
<1> QED BY <1>1, <1>2

\* Unless drains overlap, the process crashes or the configuration is
\* reloaded, a batch is posted at most max_attempts times, but always once more
\* after it was queued (DeliverOrQueue, (*FailedQueue).Drain).
THEOREM AttemptsAreBounded == Spec => []AttemptBound
<1>1. CInv => AttemptBound
  BY DEF CInv, Counted, Undisturbed, AttemptBound, MostPosts
<1> QED BY <1>1, CInvInductive, PTL DEF Spec

\* Under the same conditions no step posts a batch again that the honeypot has
\* accepted ((*FailedQueue).Drain removes what was delivered).
THEOREM AcceptedIsFinal == Spec => AcceptedOnce
<1>1. ASSUME CInv, [Next]_vars, upset' \subseteq {"crowd", "write"}, NEW b \in acked
      PROVE  tries'[b] = tries[b]
  <2>1. OInv /\ Undisturbed /\ Counted /\ TypeOK
    BY <1>1, UpsetGrows DEF CInv, OInv, Undisturbed
  <2>2. tries \in [Batches -> Nat] /\ b \in Batches
    BY <2>1 DEF TypeOK
  <2>3. ASSUME NEW c \in Batches, Submit(c) \/ DeliverAtOnce(c) \/ Enqueue(c)
        PROVE  tries'[b] = tries[b]
    <3>1. CASE Submit(c)
      BY <3>1 DEF Submit, historyVars
    <3>2. CASE DeliverAtOnce(c) \/ Enqueue(c)
      <4>1. c \notin acked
        BY <2>1, <3>2 DEF Counted, DeliverAtOnce, Enqueue
      <4> QED BY <2>2, <3>2, <4>1 DEF DeliverAtOnce, Enqueue
    <3> QED BY <2>3, <3>1, <3>2
  <2>4. ASSUME NEW d \in Drainers, Work(d)
        PROVE  tries'[b] = tries[b]
    <3>1. CASE DeliverNext(d)
      <4>1. Head(drain[d].selected).batch \notin acked
        BY <2>1, <3>1, HandFacts DEF DeliverNext, Fit
      <4> QED BY <2>2, <3>1, <4>1 DEF DeliverNext
    <3>2. CASE StartDrain(d) \/ Expire(d) \/ Replace(d)
      BY <3>2 DEF StartDrain, Expire, Replace, historyVars
    <3> QED BY <2>4, <3>1, <3>2 DEF Work
  <2>5. Reload \/ Crash \/ Restart \/ UNCHANGED vars => tries' = tries
    BY DEF Reload, Crash, Restart, vars, historyVars
  <2> QED BY <1>1, <2>3, <2>4, <2>5 DEF Next
<1>2. CInv /\ [Next]_vars => [upset' \subseteq {"crowd", "write"} =>
                                 \A b \in acked : tries'[b] = tries[b]]_vars
  BY <1>1
<1> QED BY <1>2, CInvInductive, PTL DEF Spec, AcceptedOnce
=============================================================================
