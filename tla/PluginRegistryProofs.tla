------------------------ MODULE PluginRegistryProofs ------------------------
(***************************************************************************)
(* The safety invariants of PluginRegistry, for any number of goroutines,  *)
(* plugins, routes, requests, TTLs and reloads.                            *)
(***************************************************************************)
EXTENDS PluginRegistry, TLAPS

LEMMA KeyInKeys == ASSUME NEW r \in Requests PROVE CacheKey(r) \in Keys
  BY DEF Keys

LEMMA AnswerNumbers ==
  ASSUME NEW a \in Answers
  PROVE  a.readAt \in Nat /\ a.ttl \in Nat
<1>1. a.readAt \in 0..MaxTime BY DEF Answers
<1>2. a.ttl \in TTLs BY DEF Answers
<1>3. a.readAt \in Nat BY <1>1, TimingAssumption
<1>4. a.ttl \in Nat BY <1>2, TimingAssumption
<1> QED BY <1>3, <1>4

-----------------------------------------------------------------------------
(* Type correctness is inductive by itself.                                *)

LEMMA InitType == Init => TypeOK
  BY TimingAssumption DEF Init, TypeOK, Gens, EmptyCache, Busy

LEMMA BeginType ==
  ASSUME TypeOK, NEW w \in Workers, NEW r \in Requests, Begin(w, r)
  PROVE  TypeOK'
<1> USE DEF TypeOK, Begin, Busy, registryVars
<1>1. CASE HasRoute(current, r)
  <2>1. PluginOf(current, r) \in Plugins BY <1>1 DEF HasRoute
  <2>2. enabled[current][PluginOf(current, r)] \in BOOLEAN BY <2>1
  <2>3. wasEnabled' \in [Workers -> BOOLEAN] BY <1>1, <2>2
  <2> QED BY <1>1, <2>1, <2>3
<1>2. CASE ~HasRoute(current, r)
  BY <1>2
<1> QED BY <1>1, <1>2

LEMMA FillType ==
  ASSUME TypeOK, NEW w \in Workers, pc[w] = "store"
  PROVE  ans[w].ttl > 0 => Entry(ans[w]) \in Entries
<1>1. ans[w] \in Answers BY DEF TypeOK
<1>2. ans[w].ttl \in Nat BY <1>1, TimingAssumption DEF Answers
<1>3. clock \in Nat BY DEF TypeOK
<1> QED BY <1>1, <1>2, <1>3 DEF Entry, Entries

LEMMA WorkerType ==
  ASSUME TypeOK, NEW w \in Workers,
         CheckEnabled(w) \/ Hit(w) \/ Miss(w) \/ BackendAnswers(w)
         \/ BackendFails(w) \/ Store(w) \/ Finish(w)
  PROVE  TypeOK'
<1> USE DEF TypeOK, Busy, historyVars, registryVars
<1>1. CASE CheckEnabled(w) BY <1>1 DEF CheckEnabled
<1>2. CASE Hit(w)
  <2> DEFINE e == cache[gen[w]][Plugin(w)][CacheKey(req[w])]
  <2>1. e \in Entries \cup {None} /\ e # None
    BY <1>2, KeyInKeys DEF Hit, Fresh, Plugin
  <2>2. e.answer \in Answers BY <2>1 DEF Entries
  <2>3. ans' = [ans EXCEPT ![w] = e.answer] BY <1>2 DEF Hit
  <2> HIDE DEF e
  <2> QED BY <1>2, <2>2, <2>3 DEF Hit
<1>3. CASE Miss(w) BY <1>3 DEF Miss
<1>4. CASE BackendAnswers(w)
  <2>1. PICK readAt \in sent[w]..clock, ttl \in TTLs :
          ans' = [ans EXCEPT ![w] =
                    [plugin |-> Plugin(w), req |-> req[w], gen |-> gen[w],
                     readAt |-> readAt, ttl |-> ttl]]
    BY <1>4 DEF BackendAnswers
  <2>2. readAt \in 0..MaxTime BY TimingAssumption
  <2>3. [plugin |-> Plugin(w), req |-> req[w], gen |-> gen[w],
         readAt |-> readAt, ttl |-> ttl] \in Answers
    BY <1>4, <2>2 DEF BackendAnswers, Answers, Plugin
  <2> QED BY <1>4, <2>1, <2>3 DEF BackendAnswers
<1>5. CASE BackendFails(w) BY <1>5 DEF BackendFails
<1>6. CASE Store(w)
  <2>1. cache' \in [Gens -> [Plugins -> [Keys -> Entries \cup {None}]]]
    <3>1. CASE ans[w].ttl <= 0 BY <1>6, <3>1 DEF Store
    <3>2. CASE ~(ans[w].ttl <= 0)
      <4>1. ans[w].ttl \in Nat
        BY <1>6, TimingAssumption DEF Store, Answers
      <4>2. Entry(ans[w]) \in Entries BY <1>6, <3>2, <4>1, FillType DEF Store
      <4>3. Plugin(w) \in Plugins /\ CacheKey(req[w]) \in Keys
        BY <1>6, KeyInKeys DEF Store, Plugin
      <4> QED BY <1>6, <3>2, <4>2, <4>3 DEF Store
    <3> QED BY <3>1, <3>2
  <2> QED BY <1>6, <2>1 DEF Store, Deliver
<1>7. CASE Finish(w)
  <2>1. 1 \in Gens /\ 0 \in 0..MaxTime
    BY TimingAssumption DEF Gens
  <2> QED BY <1>7, <2>1 DEF Finish
<1> QED BY <1>1, <1>2, <1>3, <1>4, <1>5, <1>6, <1>7

LEMMA AdminType ==
  ASSUME TypeOK,
         \/ \E p \in Plugins, flag \in BOOLEAN : SetPluginEnabled(p, flag)
         \/ FlushCache \/ ReloadFromConfig \/ Tick
  PROVE  TypeOK'
<1> USE DEF TypeOK, Busy, registryVars, historyVars
<1>1. ASSUME NEW p \in Plugins, NEW flag \in BOOLEAN, SetPluginEnabled(p, flag)
      PROVE  TypeOK'
  <2>1. enabled' \in [Gens -> [Plugins -> BOOLEAN]] BY <1>1 DEF SetPluginEnabled
  <2>2. wasEnabled' \in [Workers -> BOOLEAN] BY <1>1 DEF SetPluginEnabled
  <2> QED BY <1>1, <2>1, <2>2 DEF SetPluginEnabled
<1>2. CASE FlushCache BY <1>2 DEF FlushCache, EmptyCache
<1>3. CASE ReloadFromConfig
  BY <1>3, TimingAssumption DEF ReloadFromConfig, Gens
<1>4. CASE Tick BY <1>4, TimingAssumption DEF Tick
<1> QED BY <1>1, <1>2, <1>3, <1>4

LEMMA NextType == TypeOK /\ [Next]_vars => TypeOK'
<1> SUFFICES ASSUME TypeOK, [Next]_vars PROVE TypeOK' OBVIOUS
<1>1. CASE UNCHANGED vars
  BY <1>1 DEF TypeOK, vars, registryVars, historyVars
<1>2. ASSUME NEW w \in Workers, Serve(w) PROVE TypeOK'
  BY <1>2, BeginType, WorkerType DEF Serve
<1>3. CASE \/ \E p \in Plugins, flag \in BOOLEAN : SetPluginEnabled(p, flag)
           \/ FlushCache \/ ReloadFromConfig \/ Tick
  BY <1>3, AdminType
<1> QED BY <1>1, <1>2, <1>3 DEF Next

\* Every reachable state is well typed: no request is in flight to a plugin
\* that is not registered, and no answer with TTL 0 is ever cached.
THEOREM TypeCorrect == Spec => []TypeOK
  BY InitType, NextType, PTL DEF Spec

-----------------------------------------------------------------------------
(* The strengthening.  An entry says where its answer came from, how old it  *)
(* may be, and that it postdates the last flush but for the calls in flight; *)
(* a worker carries the same facts from the lookup or the backend to the     *)
(* answer.  Registries not yet built have an empty cache.                    *)

EntryOK(g, p, k, e) ==
  /\ e.answer.plugin = p
  /\ e.answer.gen = g
  /\ CacheKey(e.answer.req) = k
  /\ e.expiresAt <= e.answer.readAt + Timeout + e.answer.ttl
  /\ flushedAt[g] <= e.answer.readAt + Timeout

CacheOK ==
  \A g \in Gens, p \in Plugins, k \in Keys :
    cache[g][p][k] # None =>
      g <= current /\ EntryOK(g, p, k, cache[g][p][k])

PastOK == \A g \in Gens : flushedAt[g] <= clock

InFlightOK(w) ==
  pc[w] \in Busy => gen[w] <= current /\ floor[w] <= flushedAt[gen[w]]

EnabledOK(w) ==
  /\ pc[w] = "check" /\ enabled[gen[w]][Plugin(w)] => wasEnabled[w]
  /\ pc[w] \in {"lookup", "backend", "store", "answered"} => wasEnabled[w]

CallOK(w) ==
  /\ pc[w] \in {"backend", "store"} => sent[w] <= clock /\ clock <= sent[w] + Timeout
  /\ pc[w] = "store" =>
       /\ ans[w].plugin = Plugin(w) /\ ans[w].gen = gen[w]
       /\ ans[w].req = req[w] /\ sent[w] <= ans[w].readAt

AnsweredOK(w) ==
  Answered(w) =>
    /\ ans[w].plugin = Plugin(w) /\ ans[w].gen = gen[w]
    /\ CacheKey(ans[w].req) = CacheKey(req[w])
    /\ served[w] <= ans[w].readAt + Timeout + ans[w].ttl
    /\ floor[w] <= ans[w].readAt + Timeout

WorkerOK(w) == InFlightOK(w) /\ EnabledOK(w) /\ CallOK(w) /\ AnsweredOK(w)

IInv ==
  /\ TypeOK
  /\ CacheOK
  /\ PastOK
  /\ \A w \in Workers : WorkerOK(w)

LEMMA InitInv == Init => IInv
<1> SUFFICES ASSUME Init PROVE IInv OBVIOUS
<1>1. TypeOK BY InitType
<1>2. CacheOK
  BY KeyInKeys DEF Init, CacheOK, EmptyCache, Keys
<1>3. PastOK BY DEF Init, PastOK
<1>4. ASSUME NEW w \in Workers PROVE WorkerOK(w)
  BY <1>4 DEF Init, WorkerOK, InFlightOK, EnabledOK, CallOK, AnsweredOK, Answered, Busy
<1> QED BY <1>1, <1>2, <1>3, <1>4 DEF IInv

\* What a worker's own steps leave alone, they keep for the others.
LEMMA OthersKept ==
  ASSUME IInv, NEW w \in Workers, NEW v \in Workers \ {w},
         UNCHANGED <<clock, current, enabled, flushedAt>>,
         pc'[v] = pc[v], req'[v] = req[v], gen'[v] = gen[v], sent'[v] = sent[v],
         ans'[v] = ans[v], floor'[v] = floor[v], served'[v] = served[v],
         wasEnabled'[v] = wasEnabled[v]
  PROVE  WorkerOK(v)'
  BY DEF IInv, WorkerOK, InFlightOK, EnabledOK, CallOK, AnsweredOK, Answered, Plugin

\* The steps of a worker that do not write the cache.
LEMMA CacheKept ==
  ASSUME CacheOK, PastOK, UNCHANGED <<clock, current, cache, flushedAt>>
  PROVE  CacheOK' /\ PastOK'
  BY DEF CacheOK, PastOK, EntryOK

LEMMA BeginInv ==
  ASSUME IInv, TypeOK', NEW w \in Workers, NEW r \in Requests, Begin(w, r)
  PROVE  IInv'
<1>1. CacheOK' /\ PastOK'
  BY CacheKept DEF IInv, Begin, registryVars
<1>2. ASSUME NEW v \in Workers \ {w} PROVE WorkerOK(v)'
  BY <1>2, OthersKept DEF Begin, registryVars, IInv, TypeOK
<1>3. pc'[w] \in {"check", "noroute"} /\ req'[w] = r /\ gen'[w] = current
      /\ floor'[w] = flushedAt[current]
      /\ (pc'[w] = "check" => wasEnabled'[w] = enabled[current][PluginOf(current, r)])
  BY DEF Begin, IInv, TypeOK
<1>4. InFlightOK(w)'
  BY <1>3 DEF InFlightOK, IInv, TypeOK, Begin, registryVars, Gens
<1>5. EnabledOK(w)'
  BY <1>3 DEF EnabledOK, Begin, registryVars, Plugin
<1>6. CallOK(w)' /\ AnsweredOK(w)'
  BY <1>3 DEF CallOK, AnsweredOK, Answered
<1> QED BY <1>1, <1>2, <1>4, <1>5, <1>6 DEF IInv, WorkerOK

LEMMA CheckEnabledInv ==
  ASSUME IInv, TypeOK', NEW w \in Workers, CheckEnabled(w)
  PROVE  IInv'
<1> USE DEF CheckEnabled, registryVars, historyVars
<1>1. CacheOK' /\ PastOK'
  BY CacheKept DEF IInv
<1>2. ASSUME NEW v \in Workers \ {w} PROVE WorkerOK(v)'
  BY <1>2, OthersKept DEF IInv, TypeOK
<1>3. pc[w] = "check" /\ pc'[w] \in {"lookup", "disabled"}
      /\ (pc'[w] = "lookup" => enabled[gen[w]][Plugin(w)])
  BY DEF IInv, TypeOK
<1>4. InFlightOK(w)' /\ EnabledOK(w)'
  BY <1>3 DEF InFlightOK, EnabledOK, IInv, WorkerOK, Busy
<1>5. CallOK(w)' /\ AnsweredOK(w)'
  BY <1>3 DEF CallOK, AnsweredOK, Answered
<1> QED BY <1>1, <1>2, <1>4, <1>5 DEF IInv, WorkerOK

LEMMA HitInv ==
  ASSUME IInv, TypeOK', NEW w \in Workers, Hit(w)
  PROVE  IInv'
<1> DEFINE e == cache[gen[w]][Plugin(w)][CacheKey(req[w])]
<1>1. CacheOK' /\ PastOK'
  BY CacheKept DEF IInv, Hit, registryVars
<1>2. ASSUME NEW v \in Workers \ {w} PROVE WorkerOK(v)'
  BY <1>2, OthersKept DEF Hit, registryVars, IInv, TypeOK
<1>3. pc[w] = "lookup" /\ pc'[w] = "answered" /\ ans'[w] = e.answer
      /\ served'[w] = clock /\ e # None /\ clock <= e.expiresAt
      /\ floor'[w] = floor[w] /\ req'[w] = req[w] /\ gen'[w] = gen[w]
      /\ wasEnabled'[w] = wasEnabled[w]
  BY DEF Hit, Fresh, IInv, TypeOK
<1>4. gen[w] \in Gens /\ Plugin(w) \in Plugins /\ CacheKey(req[w]) \in Keys
  BY <1>3, KeyInKeys DEF IInv, TypeOK, Busy, Plugin
<1>5. e \in Entries
  BY <1>3, <1>4 DEF IInv, TypeOK
<1>6. EntryOK(gen[w], Plugin(w), CacheKey(req[w]), e)
  BY <1>3, <1>4 DEF IInv, CacheOK
<1>7. floor[w] <= flushedAt[gen[w]]
  BY <1>3 DEF IInv, WorkerOK, InFlightOK, Busy
<1> HIDE DEF e
<1>8. e.answer.readAt \in Nat /\ e.answer.ttl \in Nat /\ e.expiresAt \in Nat
  BY <1>5, AnswerNumbers DEF Entries
<1>9. AnsweredOK(w)'
  <2>1. clock <= e.answer.readAt + Timeout + e.answer.ttl
    BY <1>3, <1>6, <1>8, TimingAssumption DEF EntryOK, IInv, TypeOK
  <2>2. floor[w] <= e.answer.readAt + Timeout
    BY <1>4, <1>6, <1>7, <1>8, TimingAssumption DEF EntryOK, IInv, TypeOK
  <2> QED BY <1>3, <1>6, <2>1, <2>2 DEF AnsweredOK, EntryOK, Plugin
<1>10. EnabledOK(w)'
  BY <1>3 DEF EnabledOK, IInv, WorkerOK
<1>11. InFlightOK(w)' /\ CallOK(w)'
  BY <1>3 DEF InFlightOK, CallOK, Busy
<1> QED BY <1>1, <1>2, <1>9, <1>10, <1>11 DEF IInv, WorkerOK

LEMMA MissInv ==
  ASSUME IInv, TypeOK', NEW w \in Workers, Miss(w)
  PROVE  IInv'
<1> USE DEF Miss, registryVars, historyVars
<1>1. CacheOK' /\ PastOK'
  BY CacheKept DEF IInv
<1>2. ASSUME NEW v \in Workers \ {w} PROVE WorkerOK(v)'
  BY <1>2, OthersKept DEF IInv, TypeOK
<1>3. pc[w] = "lookup" /\ pc'[w] = "backend" /\ sent'[w] = clock
  BY DEF IInv, TypeOK
<1>4. InFlightOK(w)' /\ EnabledOK(w)'
  BY <1>3 DEF InFlightOK, EnabledOK, IInv, WorkerOK, Busy
<1>5. CallOK(w)'
  BY <1>3, TimingAssumption DEF CallOK, IInv, TypeOK
<1>6. AnsweredOK(w)'
  BY <1>3 DEF AnsweredOK, Answered
<1> QED BY <1>1, <1>2, <1>4, <1>5, <1>6 DEF IInv, WorkerOK

LEMMA BackendInv ==
  ASSUME IInv, TypeOK', NEW w \in Workers, BackendAnswers(w) \/ BackendFails(w)
  PROVE  IInv'
<1> USE DEF BackendAnswers, BackendFails, registryVars, historyVars
<1>1. CacheOK' /\ PastOK'
  BY CacheKept DEF IInv
<1>2. ASSUME NEW v \in Workers \ {w} PROVE WorkerOK(v)'
  BY <1>2, OthersKept DEF IInv, TypeOK
<1>3. CASE BackendAnswers(w)
  <2>1. PICK readAt \in sent[w]..clock, ttl \in TTLs :
          ans' = [ans EXCEPT ![w] =
                    [plugin |-> Plugin(w), req |-> req[w], gen |-> gen[w],
                     readAt |-> readAt, ttl |-> ttl]]
    BY <1>3
  <2>2. pc[w] = "backend" /\ pc'[w] = "store"
        /\ ans'[w] = [plugin |-> Plugin(w), req |-> req[w], gen |-> gen[w],
                      readAt |-> readAt, ttl |-> ttl]
    BY <1>3, <2>1 DEF IInv, TypeOK
  <2>3. InFlightOK(w)' /\ EnabledOK(w)'
    BY <1>3, <2>2 DEF InFlightOK, EnabledOK, IInv, WorkerOK, Busy
  <2>4. CallOK(w)'
    BY <1>3, <2>2 DEF CallOK, IInv, WorkerOK, TypeOK, Plugin
  <2>5. AnsweredOK(w)'
    BY <2>2 DEF AnsweredOK, Answered
  <2> QED BY <1>1, <1>2, <2>3, <2>4, <2>5 DEF IInv, WorkerOK
<1>4. CASE BackendFails(w)
  <2>1. pc'[w] = "failed" BY <1>4 DEF IInv, TypeOK
  <2>2. WorkerOK(w)'
    BY <2>1 DEF WorkerOK, InFlightOK, EnabledOK, CallOK, AnsweredOK, Answered, Busy
  <2> QED BY <1>1, <1>2, <2>2 DEF IInv
<1> QED BY <1>3, <1>4

LEMMA StoreInv ==
  ASSUME IInv, TypeOK', NEW w \in Workers, Store(w)
  PROVE  IInv'
<1> USE DEF Store, Deliver
<1>1. gen[w] \in Gens /\ gen[w] <= current /\ Plugin(w) \in Plugins
      /\ req[w] \in Requests /\ CacheKey(req[w]) \in Keys
  BY KeyInKeys DEF IInv, TypeOK, WorkerOK, InFlightOK, Busy, Plugin
<1>2. ans[w].plugin = Plugin(w) /\ ans[w].gen = gen[w] /\ ans[w].req = req[w]
      /\ sent[w] <= ans[w].readAt /\ clock <= sent[w] + Timeout
      /\ floor[w] <= flushedAt[gen[w]] /\ wasEnabled[w]
  BY DEF IInv, WorkerOK, CallOK, InFlightOK, EnabledOK, Busy
<1>3. ans[w].readAt \in Nat /\ ans[w].ttl \in Nat /\ sent[w] \in Nat
      /\ clock \in Nat /\ floor[w] \in Nat
      /\ \A g \in Gens : flushedAt[g] \in Nat
  BY TimingAssumption, AnswerNumbers DEF IInv, TypeOK
<1>4. clock <= ans[w].readAt + Timeout /\ flushedAt[gen[w]] <= ans[w].readAt + Timeout
  BY <1>1, <1>2, <1>3, TimingAssumption DEF IInv, PastOK
<1>5. EntryOK(gen[w], Plugin(w), CacheKey(req[w]), Entry(ans[w]))
  BY <1>2, <1>3, <1>4, TimingAssumption DEF EntryOK, Entry
<1>6. CacheOK'
  <2> SUFFICES ASSUME NEW g \in Gens, NEW p \in Plugins, NEW k \in Keys,
                      cache'[g][p][k] # None
               PROVE  g <= current' /\ EntryOK(g, p, k, cache[g][p][k])'
    BY DEF CacheOK
  <2>1. CASE cache'[g][p][k] = cache[g][p][k]
    <3>1. g <= current /\ EntryOK(g, p, k, cache[g][p][k])
      BY <2>1 DEF IInv, CacheOK
    <3>2. UNCHANGED <<current, clock, flushedAt>>
      OBVIOUS
    <3> QED BY <2>1, <3>1, <3>2 DEF EntryOK
  <2>2. CASE cache'[g][p][k] # cache[g][p][k]
    <3>1. g = gen[w] /\ p = Plugin(w) /\ k = CacheKey(req[w])
          /\ cache'[g][p][k] = Entry(ans[w])
      <4>1. cache \in [Gens -> [Plugins -> [Keys -> Entries \cup {None}]]]
        BY DEF IInv, TypeOK
      <4>2. cache' = [cache EXCEPT ![gen[w]][Plugin(w)][CacheKey(req[w])] = Entry(ans[w])]
        BY <2>2
      <4> QED BY <2>2, <1>1, <4>1, <4>2
    <3> QED BY <3>1, <1>1, <1>5 DEF EntryOK
  <2> QED BY <2>1, <2>2
<1>7. PastOK' BY DEF IInv, PastOK
<1>8. ASSUME NEW v \in Workers \ {w} PROVE WorkerOK(v)'
  BY <1>8, OthersKept DEF IInv, TypeOK
<1>9. pc'[w] = "answered" /\ served'[w] = clock BY DEF IInv, TypeOK
<1>10. AnsweredOK(w)'
  <2>1. clock <= ans[w].readAt + Timeout + ans[w].ttl
    BY <1>3, <1>4, TimingAssumption
  <2>2. floor[w] <= ans[w].readAt + Timeout
    BY <1>1, <1>2, <1>3, <1>4, TimingAssumption
  <2> QED BY <1>2, <1>9, <2>1, <2>2 DEF AnsweredOK, Plugin
<1>11. InFlightOK(w)' /\ EnabledOK(w)' /\ CallOK(w)'
  BY <1>2, <1>9 DEF InFlightOK, EnabledOK, CallOK, Busy
<1> QED BY <1>6, <1>7, <1>8, <1>10, <1>11 DEF IInv, WorkerOK

LEMMA FinishInv ==
  ASSUME IInv, TypeOK', NEW w \in Workers, Finish(w)
  PROVE  IInv'
<1> USE DEF Finish, registryVars
<1>1. CacheOK' /\ PastOK'
  BY CacheKept DEF IInv
<1>2. ASSUME NEW v \in Workers \ {w} PROVE WorkerOK(v)'
  <2>1. /\ pc'[v] = pc[v] /\ req'[v] = req[v] /\ gen'[v] = gen[v]
        /\ sent'[v] = sent[v] /\ ans'[v] = ans[v] /\ floor'[v] = floor[v]
        /\ served'[v] = served[v] /\ wasEnabled'[v] = wasEnabled[v]
    BY <1>2 DEF IInv, TypeOK
  <2> QED BY <1>2, <2>1, OthersKept
<1>3. pc'[w] = "idle" BY DEF IInv, TypeOK
<1>4. WorkerOK(w)'
  BY <1>3 DEF WorkerOK, InFlightOK, EnabledOK, CallOK, AnsweredOK, Answered, Busy
<1> QED BY <1>1, <1>2, <1>4 DEF IInv

LEMMA SetPluginEnabledInv ==
  ASSUME IInv, TypeOK', NEW p \in Plugins, NEW flag \in BOOLEAN,
         SetPluginEnabled(p, flag)
  PROVE  IInv'
<1> USE DEF SetPluginEnabled
<1>1. CacheOK' /\ PastOK'
  BY CacheKept DEF IInv
<1>2. ASSUME NEW w \in Workers PROVE WorkerOK(w)'
  <2>1. InFlightOK(w)' /\ CallOK(w)' /\ AnsweredOK(w)'
    BY DEF IInv, WorkerOK, InFlightOK, CallOK, AnsweredOK, Answered, Plugin
  <2>2. wasEnabled[w] => wasEnabled'[w]
    OBVIOUS
  <2>3. ASSUME pc[w] = "check", enabled'[gen[w]][Plugin(w)] PROVE wasEnabled'[w]
    <3>1. CASE enabled[gen[w]][Plugin(w)]
      BY <2>2, <2>3, <3>1 DEF IInv, WorkerOK, EnabledOK
    <3>2. CASE ~enabled[gen[w]][Plugin(w)]
      <4>1. gen[w] \in Gens /\ Plugin(w) \in Plugins /\ current \in Gens
        BY <2>3 DEF IInv, TypeOK, Busy, Plugin
      <4>2. gen[w] = current /\ Plugin(w) = p /\ flag
        BY <2>3, <3>2, <4>1 DEF IInv, TypeOK
      <4> QED BY <2>3, <4>2 DEF Busy
    <3> QED BY <3>1, <3>2
  <2>4. EnabledOK(w)'
    BY <2>2, <2>3 DEF EnabledOK, Plugin, IInv, WorkerOK
  <2> QED BY <2>1, <2>4 DEF WorkerOK
<1> QED BY <1>1, <1>2 DEF IInv

LEMMA FlushInv ==
  ASSUME IInv, TypeOK', FlushCache
  PROVE  IInv'
<1> USE DEF FlushCache
<1>1. CacheOK'
  <2> SUFFICES ASSUME NEW g \in Gens, NEW p \in Plugins, NEW k \in Keys,
                      cache'[g][p][k] # None
               PROVE  g <= current' /\ EntryOK(g, p, k, cache[g][p][k])'
    BY DEF CacheOK
  <2>1. g # current
    BY DEF IInv, TypeOK, EmptyCache
  <2>2. cache'[g] = cache[g] /\ flushedAt'[g] = flushedAt[g]
    BY <2>1 DEF IInv, TypeOK
  <2> QED BY <2>2 DEF IInv, CacheOK, EntryOK
<1>2. PastOK'
  BY DEF PastOK, IInv, TypeOK
<1>3. ASSUME NEW w \in Workers PROVE WorkerOK(w)'
  <2>1. EnabledOK(w)' /\ CallOK(w)' /\ AnsweredOK(w)'
    BY DEF IInv, WorkerOK, EnabledOK, CallOK, AnsweredOK, Answered, Plugin
  <2>2. \A g \in Gens : flushedAt[g] <= flushedAt'[g]
    BY DEF IInv, TypeOK, PastOK
  <2>3. InFlightOK(w)'
    BY <2>2, TimingAssumption DEF IInv, WorkerOK, InFlightOK, TypeOK
  <2> QED BY <2>1, <2>3 DEF WorkerOK
<1> QED BY <1>1, <1>2, <1>3 DEF IInv

LEMMA ReloadInv ==
  ASSUME IInv, TypeOK', ReloadFromConfig
  PROVE  IInv'
<1> USE DEF ReloadFromConfig
<1>1. CacheOK'
  <2> SUFFICES ASSUME NEW g \in Gens, NEW p \in Plugins, NEW k \in Keys,
                      cache[g][p][k] # None
               PROVE  g <= current' /\ EntryOK(g, p, k, cache[g][p][k])'
    BY DEF CacheOK, EntryOK
  <2>1. g <= current /\ EntryOK(g, p, k, cache[g][p][k])
    BY DEF IInv, CacheOK
  <2>2. g # current + 1 /\ g <= current'
    BY <2>1, TimingAssumption DEF IInv, TypeOK, Gens
  <2>3. flushedAt'[g] = flushedAt[g]
    BY <2>2 DEF IInv, TypeOK
  <2> QED BY <2>1, <2>2, <2>3 DEF EntryOK
<1>2. PastOK'
  BY DEF PastOK, IInv, TypeOK
<1>3. ASSUME NEW w \in Workers PROVE WorkerOK(w)'
  <2>1. EnabledOK(w)' /\ CallOK(w)' /\ AnsweredOK(w)'
    BY DEF IInv, WorkerOK, EnabledOK, CallOK, AnsweredOK, Answered, Plugin
  <2>2. InFlightOK(w)'
    BY TimingAssumption DEF IInv, WorkerOK, InFlightOK, TypeOK, Gens
  <2> QED BY <2>1, <2>2 DEF WorkerOK
<1> QED BY <1>1, <1>2, <1>3 DEF IInv

LEMMA TickInv ==
  ASSUME IInv, TypeOK', Tick
  PROVE  IInv'
<1> USE DEF Tick, registryVars, historyVars
<1>1. CacheOK' BY DEF IInv, CacheOK, EntryOK
<1>2. PastOK' BY DEF PastOK, IInv, TypeOK
<1>3. ASSUME NEW w \in Workers PROVE WorkerOK(w)'
  <2>1. CallOK(w)'
    BY TimingAssumption DEF IInv, WorkerOK, CallOK, TypeOK, Plugin
  <2>2. InFlightOK(w)' /\ EnabledOK(w)' /\ AnsweredOK(w)'
    BY DEF IInv, WorkerOK, InFlightOK, EnabledOK, AnsweredOK, Answered, Plugin
  <2> QED BY <2>1, <2>2 DEF WorkerOK
<1> QED BY <1>1, <1>2, <1>3 DEF IInv

LEMMA NextInv == IInv /\ [Next]_vars => IInv'
<1> SUFFICES ASSUME IInv, [Next]_vars PROVE IInv' OBVIOUS
<1>1. TypeOK' BY NextType DEF IInv
<1>2. CASE UNCHANGED vars
  <2>1. ASSUME NEW w \in Workers PROVE WorkerOK(w)'
    BY <1>2 DEF IInv, WorkerOK, InFlightOK, EnabledOK, CallOK, AnsweredOK, Answered,
                Plugin, vars, registryVars, historyVars
  <2> QED BY <1>1, <1>2, <2>1, CacheKept DEF IInv, vars, registryVars, historyVars
<1>3. ASSUME NEW w \in Workers, Serve(w) PROVE IInv'
  BY <1>1, <1>3, BeginInv, CheckEnabledInv, HitInv, MissInv, BackendInv, StoreInv,
     FinishInv DEF Serve
<1>4. ASSUME NEW p \in Plugins, NEW flag \in BOOLEAN, SetPluginEnabled(p, flag)
      PROVE  IInv'
  BY <1>1, <1>4, SetPluginEnabledInv
<1> QED BY <1>1, <1>2, <1>3, <1>4, FlushInv, ReloadInv, TickInv DEF Next

LEMMA Invariance == Spec => []IInv
  BY InitInv, NextInv, PTL DEF Spec

-----------------------------------------------------------------------------
\* Equal keys mean the same question: this is what lets one entry answer
\* several requests.
LEMMA KeySeparates ==
  ASSUME NEW r, NEW s, CacheKey(r) = CacheKey(s)
  PROVE  SameQuestion(r, s)
  BY DEF CacheKey, SameQuestion

\* No answer crosses names, types, tenants, views, tags or plugins.
THEOREM Isolation == Spec => []AnswerIsolation
<1>1. IInv => AnswerIsolation
  BY KeySeparates DEF IInv, WorkerOK, AnsweredOK, AnswerIsolation
<1> QED BY <1>1, Invariance, PTL

\* The age of an answer is at most its TTL and one backend call.
THEOREM BoundedAge == Spec => []AgeBound
<1>1. ASSUME IInv, NEW w \in Workers, Answered(w)
      PROVE  served[w] - ans[w].readAt <= ans[w].ttl + Timeout
  <2>1. ans[w] \in Answers BY <1>1 DEF IInv, TypeOK, Answered
  <2>2. ans[w].readAt \in Nat /\ ans[w].ttl \in Nat
    BY <2>1, AnswerNumbers
  <2> QED BY <1>1, <2>2, TimingAssumption DEF IInv, TypeOK, WorkerOK, AnsweredOK
<1>2. IInv => AgeBound BY <1>1 DEF AgeBound
<1> QED BY <1>2, Invariance, PTL

\* A plugin that is disabled throughout a request never answers it.
THEOREM NoAnswerFromDisabled == Spec => []DisableFence
<1>1. IInv => DisableFence
  BY DEF IInv, WorkerOK, EnabledOK, DisableFence, Answered
<1> QED BY <1>1, Invariance, PTL

\* A flush or reload bounds from below what later requests are answered with.
THEOREM NothingOlderThanFlush == Spec => []FlushFence
<1>1. ASSUME IInv, NEW w \in Workers, Answered(w)
      PROVE  ans[w].readAt + Timeout >= floor[w]
  <2>1. ans[w] \in Answers BY <1>1 DEF IInv, TypeOK, Answered
  <2>2. ans[w].readAt \in Nat BY <2>1, AnswerNumbers
  <2> QED BY <1>1, <2>2, TimingAssumption DEF IInv, TypeOK, WorkerOK, AnsweredOK
<1>2. IInv => FlushFence BY <1>1 DEF FlushFence
<1> QED BY <1>2, Invariance, PTL

\* No answer crosses a reload.
THEOREM NoAnswerAcrossReload == Spec => []ReloadFence
<1>1. IInv => ReloadFence
  BY DEF IInv, WorkerOK, AnsweredOK, ReloadFence
<1> QED BY <1>1, Invariance, PTL

=============================================================================
