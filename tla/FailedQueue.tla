----------------------------- MODULE FailedQueue ----------------------------
(***************************************************************************)
(* The honeypot client's queue of failed deliveries in one process.        *)
(*                                                                         *)
(* A batch of events is posted to the honeypot at once; if that fails it   *)
(* is queued in memory and appended to a file of JSON lines.  The replay   *)
(* worker and the drain requests of an operator take the oldest entries,   *)
(* deliver them without holding the queue's lock, and then put what is     *)
(* left in the place of what they took and rewrite the file.               *)
(*                                                                         *)
(* A reload of the configuration builds a new client whose queue is loaded *)
(* from the same file.  The worker keeps the client it was started for,    *)
(* and so does a handler that is delivering.  A process that crashed       *)
(* starts again only if it can load the file.                              *)
(*                                                                         *)
(* The process is configured with a URL and a path for the file.  The      *)
(* counters and texts the status endpoint shows are left out.              *)
(***************************************************************************)
EXTENDS Integers, Sequences, FiniteSets

CONSTANTS
  Batches,       \* the batches the process is given
  Large,         \* those whose line is longer than a bufio.Scanner takes
  Worker,        \* the replay worker
  Requests,      \* the drain requests an operator sends
  MaxAttempts,   \* max_attempts of the configuration
  MaxEntries,    \* failed_queue_max_entries of the configuration
  MaxReloads,    \* bound: reloads of the configuration
  MaxFaults      \* bound: crashes and failed writes

ASSUME QueueAssumption ==
  /\ Large \subseteq Batches
  /\ Worker \notin Requests
  /\ MaxAttempts \in Nat \ {0}
  /\ MaxEntries \in Nat \ {0}
  /\ MaxReloads \in Nat
  /\ MaxFaults \in Nat

VARIABLES
  up,        \* whether the process runs
  current,   \* the generation of the App's client: 1 plus the reloads since the start
  entries,   \* entries[g]: the queue in memory of generation g
  file,      \* the file
  sent,      \* sent[b]: where the request that brought batch b is
  drain,     \* drain[d]: what the worker or the request d is doing
  faults,
  \* History
  tries,     \* tries[b]: how often b was posted to the honeypot
  acked,     \* batches the honeypot accepted
  dropped,   \* batches given up: no attempts left, or no room
  upset      \* the kinds of disturbance so far

queueVars   == <<current, entries, file>>
historyVars == <<tries, acked, dropped, upset>>
vars == <<up, queueVars, sent, drain, faults, historyVars>>

Drainers == Requests \cup {Worker}
Generations == 1..(MaxReloads + 1)

-----------------------------------------------------------------------------
\* FailedDelivery
Entry(b, n) == [batch |-> b, attempts |-> n]

Held(queue) == {queue[i].batch : i \in DOMAIN queue}

\* Enqueue and load keep the newest MaxEntries.
Newest(queue) ==
  IF Len(queue) > MaxEntries
    THEN SubSeq(queue, Len(queue) - MaxEntries + 1, Len(queue))
    ELSE queue

\* A plausible slip: one attempt too many.
ExhaustedBeyond(n) == n > MaxAttempts

Exhausted(n) == n >= MaxAttempts

\* A file is what its lines say, or it has a line that was cut short.  A line
\* appended later does not mend it, for load gives up at the first bad line.
Lines(queue) == [lines |-> queue, cut |-> FALSE]
Cut == [lines |-> << >>, cut |-> TRUE]

Loadable(f) == ~f.cut /\ Held(f.lines) \cap Large = {}

\* What the file may be after Enqueue appended an entry, and after a drain
\* rewrote it: a write may fail at once or on its way.
Appended(f, e) == IF f.cut THEN f ELSE Lines(Append(f.lines, e))
Appends(f, e) == {Appended(f, e), f, Cut}
Rewrites(f, queue) ==
  {f, Cut} \cup {Lines(SubSeq(queue, 1, n)) : n \in 0..Len(queue)}

\* A write that leaves something else than intended is a fault.
Write(results, intended) ==
  \E f \in results :
    /\ file' = f
    /\ IF f = intended THEN faults' = faults
                       ELSE faults < MaxFaults /\ faults' = faults + 1

Missed(intended) == IF file' = intended THEN {} ELSE {"write"}

Idle == [at |-> "idle", queue |-> 1, selected |-> << >>, retained |-> << >>, taken |-> 0]
Finished == [Idle EXCEPT !.at = "done"]

Draining(g) == {d \in Drainers : drain[d].at = "draining" /\ drain[d].queue = g}

-----------------------------------------------------------------------------
Init ==
  /\ up = TRUE
  /\ current = 1
  /\ entries = [g \in Generations |-> << >>]
  /\ file = Lines(<< >>)
  /\ sent = [b \in Batches |-> [at |-> "new", queue |-> 1]]
  /\ drain = [d \in Drainers |-> Idle]
  /\ faults = 0
  /\ tries = [b \in Batches |-> 0]
  /\ acked = {}
  /\ dropped = {}
  /\ upset = {}

\* A handler calls DeliverOrQueue of the client the App has now.
Submit(b) ==
  /\ up
  /\ sent[b].at = "new"
  /\ sent' = [sent EXCEPT ![b] = [at |-> "posting", queue |-> current]]
  /\ UNCHANGED <<up, queueVars, drain, faults, historyVars>>

DeliverAtOnce(b) ==
  /\ sent[b].at = "posting"
  /\ sent' = [sent EXCEPT ![b].at = "delivered"]
  /\ tries' = [tries EXCEPT ![b] = @ + 1]
  /\ acked' = acked \cup {b}
  /\ UNCHANGED <<up, queueVars, drain, faults, dropped, upset>>

\* The delivery failed: the batch is queued, with one attempt behind it.
Enqueue(b) ==
  LET g == sent[b].queue
      grown == Append(entries[g], Entry(b, 1))
      pushedOut == Held(grown) \ Held(Newest(grown))
      line == Appended(file, Entry(b, 1))
  IN  /\ sent[b].at = "posting"
      /\ sent' = [sent EXCEPT ![b].at = "queued"]
      /\ tries' = [tries EXCEPT ![b] = @ + 1]
      /\ entries' = [entries EXCEPT ![g] = Newest(grown)]
      /\ dropped' = dropped \cup pushedOut
      /\ Write(Appends(file, Entry(b, 1)), line)
      /\ upset' = upset \cup Missed(line)
                        \cup (IF pushedOut # {} /\ Draining(g) # {} THEN {"crowd"} ELSE {})
      /\ UNCHANGED <<up, current, drain, acked>>

\* The queue a drain works on: the worker keeps the client it was started for.
QueueOf(d) == IF d = Worker THEN 1 ELSE current

\* The length is read before the entries are copied, or is the limit of the
\* request: any number of the oldest entries may be taken.
StartDrain(d) ==
  LET g == QueueOf(d) IN
  /\ up
  /\ drain[d].at = "idle"
  /\ d = Worker => entries[g] # << >>
  /\ \E n \in 0..Len(entries[g]) :
       /\ n = 0 => entries[g] = << >>
       /\ drain' = [drain EXCEPT ![d] =
            [at |-> "draining", queue |-> g, taken |-> n,
             selected |-> SubSeq(entries[g], 1, n), retained |-> << >>]]
  /\ upset' = upset \cup (IF Draining(g) # {} THEN {"overlap"} ELSE {})
  /\ UNCHANGED <<up, queueVars, sent, faults, tries, acked, dropped>>

\* The next entry is posted: it is done, retained for another time, or dropped.
DeliverNext(d) ==
  LET e == Head(drain[d].selected)
      again == Entry(e.batch, e.attempts + 1)
  IN  /\ drain[d].selected # << >>
      /\ tries' = [tries EXCEPT ![e.batch] = @ + 1]
      /\ \/ /\ acked' = acked \cup {e.batch}
            /\ drain' = [drain EXCEPT ![d].selected = Tail(@)]
            /\ UNCHANGED dropped
         \/ /\ Exhausted(again.attempts)
            /\ dropped' = dropped \cup {e.batch}
            /\ drain' = [drain EXCEPT ![d].selected = Tail(@)]
            /\ UNCHANGED acked
         \/ /\ ~Exhausted(again.attempts)
            /\ drain' = [drain EXCEPT ![d].selected = Tail(@),
                                      ![d].retained = Append(@, again)]
            /\ UNCHANGED <<acked, dropped>>
      /\ UNCHANGED <<up, queueVars, sent, faults, upset>>

\* The context of a request ends: what is left of the selection is retained.
Expire(d) ==
  /\ d # Worker
  /\ drain[d].selected # << >>
  /\ drain' = [drain EXCEPT ![d].selected = << >>,
                            ![d].retained = @ \o drain[d].selected]
  /\ UNCHANGED <<up, queueVars, sent, faults, historyVars>>

\* Plausible slips: what was enqueued meanwhile is forgotten; only as many
\* entries make way as are retained.
MergedForgetting(d, queue) == drain[d].retained
MergedFromRetained(d, queue) ==
  drain[d].retained \o SubSeq(queue, Len(drain[d].retained) + 1, Len(queue))

\* What was taken, as if it were still in front, makes way for what is retained.
Merged(d, queue) ==
  IF Len(queue) < drain[d].taken
    THEN drain[d].retained
    ELSE drain[d].retained \o SubSeq(queue, drain[d].taken + 1, Len(queue))

\* A plausible slip: the worker returns after its first drain.
AfterTheOnly(d) == Finished

\* The worker waits for the next tick, a request is answered.
After(d) == IF d = Worker THEN Idle ELSE Finished

Replace(d) ==
  LET g == drain[d].queue
      queue == Merged(d, entries[g])
  IN  /\ drain[d].at = "draining"
      /\ drain[d].selected = << >>
      /\ entries' = [entries EXCEPT ![g] = queue]
      /\ Write(Rewrites(file, queue), Lines(queue))
      /\ upset' = upset \cup Missed(Lines(queue))
      /\ drain' = [drain EXCEPT ![d] = After(d)]
      /\ UNCHANGED <<up, current, sent, tries, acked, dropped>>

\* ReloadFromConfig; it changes nothing if the file cannot be loaded.
Reload ==
  /\ up
  /\ current <= MaxReloads
  /\ Loadable(file)
  /\ current' = current + 1
  /\ entries' = [entries EXCEPT ![current + 1] = Newest(file.lines)]
  /\ upset' = upset \cup {"reload"}
  /\ UNCHANGED <<up, file, sent, drain, faults, tries, acked, dropped>>

\* A crash in the middle of a write is a failed write and a crash after it.
Crash ==
  /\ up
  /\ faults < MaxFaults
  /\ faults' = faults + 1
  /\ up' = FALSE
  /\ current' = 1
  /\ entries' = [g \in Generations |-> << >>]
  /\ sent' = [b \in Batches |->
                IF sent[b].at = "posting" THEN [at |-> "gone", queue |-> 1] ELSE sent[b]]
  /\ drain' = [d \in Drainers |-> IF drain[d].at = "draining" THEN After(d) ELSE drain[d]]
  /\ upset' = upset \cup {"crash"}
  /\ UNCHANGED <<file, tries, acked, dropped>>

\* NewFailedQueue fails, and the process exits, if the file cannot be loaded.
Restart ==
  /\ ~up
  /\ Loadable(file)
  /\ up' = TRUE
  /\ entries' = [entries EXCEPT ![1] = Newest(file.lines)]
  /\ UNCHANGED <<current, file, sent, drain, faults, historyVars>>

Work(d) == StartDrain(d) \/ DeliverNext(d) \/ Expire(d) \/ Replace(d)

Next ==
  \/ \E b \in Batches : Submit(b) \/ DeliverAtOnce(b) \/ Enqueue(b)
  \/ \E d \in Drainers : Work(d)
  \/ Reload
  \/ Crash
  \/ Restart

Spec == Init /\ [][Next]_vars

\* The worker's ticker goes on, and every post to the honeypot has a time limit.
FairSpec ==
  /\ Spec
  /\ \A d \in Drainers : WF_vars(DeliverNext(d)) /\ WF_vars(Replace(d))
  /\ WF_vars(StartDrain(Worker))

-----------------------------------------------------------------------------
Entries == [batch : Batches, attempts : Nat]

Sent == [at : {"new", "posting", "delivered", "queued", "gone"}, queue : Generations]

Drain == [at : {"idle", "draining", "done"}, queue : Generations,
          selected : Seq(Entries), retained : Seq(Entries), taken : 0..MaxEntries]

Upset == {"overlap", "crowd", "write", "reload", "crash"}

\* The variables have the values the code gives them; no queue in memory is
\* longer than its limit, and a drain holds no more than it took (Enqueue,
\* load, (*FailedQueue).Drain).
TypeOK ==
  /\ up \in BOOLEAN
  /\ current \in Generations
  /\ entries \in [Generations -> Seq(Entries)]
  /\ \A g \in Generations : Len(entries[g]) <= MaxEntries
  /\ file \in [lines : Seq(Entries), cut : BOOLEAN]
  /\ sent \in [Batches -> Sent]
  /\ drain \in [Drainers -> Drain]
  /\ \A d \in Drainers : Len(drain[d].selected) + Len(drain[d].retained) <= drain[d].taken
  /\ faults \in 0..MaxFaults
  /\ tries \in [Batches -> Nat]
  /\ acked \subseteq Batches
  /\ dropped \subseteq Batches
  /\ upset \subseteq Upset

Distinct(queue) ==
  \A i, j \in DOMAIN queue : queue[i].batch = queue[j].batch => i = j

\* As long as no two drains of a queue overlap, no queue and no file holds a
\* batch twice, whatever is enqueued during a drain, reloaded from the file or
\* left of it by failing writes ((*FailedQueue).Drain puts back what it took).
NoDuplicates ==
  "overlap" \notin upset =>
    /\ \A g \in Generations : Distinct(entries[g])
    /\ Distinct(file.lines)

\* The batches the process still has to deliver.
Waiting == IF up THEN Held(entries[current]) ELSE Held(Newest(file.lines))

Lost == {b \in Batches : sent[b].at = "queued" /\ b \notin acked \cup dropped \cup Waiting}

\* A queued batch waits until the honeypot took it or it is given up, also
\* when it is queued during a drain and across a crash, provided no drains
\* overlap, no batch is pushed out during a drain, every write succeeds and the
\* configuration is not reloaded ((*FailedQueue).Enqueue, Drain, load).
NothingLost == upset \subseteq {"crash"} => Lost = {}

\* Without a disturbance a batch is posted at most max_attempts times, but
\* always once more after it was queued (DeliverOrQueue queues it with one
\* attempt, Drain counts before it compares).
AttemptBound ==
  upset \subseteq {"crowd", "write"} =>
    \A b \in Batches : tries[b] <= IF MaxAttempts = 1 THEN 2 ELSE MaxAttempts

\* Without a disturbance a batch the honeypot accepted is never posted again,
\* however many drains and submissions follow ((*FailedQueue).Drain removes
\* what was delivered).
AcceptedOnce ==
  [][upset' \subseteq {"crowd", "write"} =>
       \A b \in acked : tries'[b] = tries[b]]_vars

\* Every batch in the queue the worker was started for is delivered or given
\* up in the end, unless the process crashes first, also when the App has a
\* new client by then (StartReplayWorker).
WorkerEmptiesItsQueue ==
  \A b \in Batches : b \in Held(entries[1]) ~> b \notin Held(entries[1])

-----------------------------------------------------------------------------
\* IMPLEMENTATION_STATUS.md:88-89 promises a failed-delivery queue that is
\* drained and drops only "on exhausted attempts".  With overlapping drains
\* alone, nothing else disturbing the queue, a queued batch is lost.
OnlyExhaustedAreDropped == upset \subseteq {"overlap"} => Lost = {}

\* docs/04:147: a batch the honeypot did not take enters the failed queue and
\* is retried.  In terms of the queue the App uses:
QueuedIsRetried ==
  \A b \in Batches :
    up /\ b \in Held(entries[current]) ~> ~up \/ b \notin Held(entries[current])

=============================================================================
