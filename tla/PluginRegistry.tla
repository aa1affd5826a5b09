--------------------------- MODULE PluginRegistry ---------------------------
(***************************************************************************)
(* The plugin router of the data plane, internal/plugins/router.go: the    *)
(* route table, the plugins with their enabled flag, and the TTL cache in  *)
(* front of the plugins' backends.                                         *)
(*                                                                         *)
(* Registry.Resolve takes the lock three times (match, getCached,          *)
(* setCached) and calls the plugin between the last two without it, so one *)
(* call is a sequence of steps here and the steps of several goroutines,   *)
(* of plugin enable/disable, of the cache flush and of the configuration   *)
(* reload interleave between them.  A reload does not change a Registry:   *)
(* app.ReloadFromConfig builds a new one and swaps the pointer, so the     *)
(* registries are indexed by generation and a call in flight keeps the one *)
(* it started with.                                                        *)
(*                                                                         *)
(* Time is the integer clock, one unit of TTL per tick.                    *)
(***************************************************************************)
EXTENDS Integers, Sequences, FiniteSets

CONSTANTS
  Workers,     \* goroutines that serve /api/v1/resolve
  Plugins,     \* names of the plugins the binary registers
  Routes,      \* Routes[g]: the routes of the g-th configuration, in file order
  Requests,    \* the requests clients may send, as they spell them
  CanonName,   \* spelling of a name -> canonical name (case, blanks, final dot)
  Canon,       \* spelling of any other field -> canonical value (case, blanks)
  Blank,       \* the empty client view / tenant
  Default,     \* the value the empty one stands for
  TTLs,        \* TTLs a backend may answer with, 0 included
  Timeout,     \* the longest a backend call can take (request timeout)
  MaxTime,     \* bound on the clock
  MaxGen,      \* bound on the number of registries (reloads + 1)
  None         \* no request, no answer, no cache entry

ASSUME TimingAssumption ==
  /\ Timeout \in Nat
  /\ TTLs \subseteq Nat
  /\ MaxTime \in Nat
  /\ MaxGen \in Nat \ {0}

VARIABLES
  clock,
  current,     \* generation of the registry application.Registry points to
  enabled,     \* enabled[g][p]: the flag of plugin p of registry g
  cache,       \* cache[g][p][k]: entry of key k, or None
  pc,          \* pc[w]: where worker w is in Registry.Resolve
  req,         \* req[w]: the request it serves
  gen,         \* gen[w]: the registry it works on
  sent,        \* sent[w]: when it called the backend
  ans,         \* ans[w]: the answer it holds
  \* History, read by the properties only.
  flushedAt,   \* flushedAt[g]: when registry g was created or last flushed
  floor,       \* floor[w]: flushedAt of its registry when the request began
  served,      \* served[w]: when the request was answered
  wasEnabled   \* wasEnabled[w]: its plugin was enabled at some time since

registryVars == <<current, enabled, cache>>
historyVars  == <<flushedAt, floor, served, wasEnabled>>
vars == <<clock, registryVars, pc, req, gen, sent, ans, historyVars>>

-----------------------------------------------------------------------------
(* The route table.                                                        *)

\* A route without values for a field admits any value of it.
ContainsOrEmpty(values, value) ==
  \/ values = {}
  \/ \E v \in values : Canon[v] = IF Canon[value] = Blank THEN Default
                                                          ELSE Canon[value]

Provided(tags) == {Canon[tags[i]] : i \in DOMAIN tags}

ContainsAll(required, tags) == {Canon[t] : t \in required} \subseteq Provided(tags)

\* Names are sequences of labels with the top-level label first.
MatchSuffix(name, suffix) ==
  /\ suffix # <<>>
  /\ Len(suffix) <= Len(name)
  /\ SubSeq(name, 1, Len(suffix)) = suffix

RouteMatchesName(route, name) ==
  \/ name \in route.domains
  \/ \E suffix \in route.suffixes : MatchSuffix(name, suffix)

Admits(route, r) ==
  /\ ContainsOrEmpty(route.views, r.view)
  /\ ContainsOrEmpty(route.tenants, r.tenant)
  /\ ContainsAll(route.tags, r.tags)
  /\ RouteMatchesName(route, CanonName[r.qname])

\* NewRegistry sorts the routes by falling priority and keeps file order
\* among equals; match takes the first one that admits the request.
Candidates(g, r) == {i \in DOMAIN Routes[g] : Admits(Routes[g][i], r)}

RanksBefore(g, i, j) ==
  \/ Routes[g][i].priority > Routes[g][j].priority
  \/ Routes[g][i].priority = Routes[g][j].priority /\ i <= j

BestRoute(g, r) ==
  CHOOSE i \in Candidates(g, r) :
    \A j \in Candidates(g, r) : RanksBefore(g, i, j)

PluginOf(g, r) == Routes[g][BestRoute(g, r)].plugin

\* The best route decides alone: when its plugin is not registered the
\* request has no route, and the next best route is not tried.
HasRoute(g, r) == Candidates(g, r) # {} /\ PluginOf(g, r) \in Plugins

-----------------------------------------------------------------------------
(* The cache.                                                              *)

\* cacheKey sorts the canonical tags: two requests agree when they carry each
\* tag equally often.  (A tag is taken to contain no separator of the key.)
TagBag(tags) ==
  [t \in Provided(tags) |-> Cardinality({i \in DOMAIN tags : Canon[tags[i]] = t})]

\* A key that forgets the client view, for the mutation of AnswerIsolation.
CacheKeyWithoutView(r) ==
  <<CanonName[r.qname], Canon[r.qtype], Canon[r.tenant], TagBag(r.tags)>>

CacheKey(r) ==
  <<CanonName[r.qname], Canon[r.qtype], Canon[r.tenant], Canon[r.view],
    TagBag(r.tags)>>

Keys == {CacheKey(r) : r \in Requests}
Gens == 1..MaxGen

EmptyCache == [p \in Plugins |-> [k \in Keys |-> None]]

FreshForever(entry) == entry # None

\* time.Now().After(expiresAt) is a miss: the last instant is still a hit.
Fresh(entry) == entry # None /\ clock <= entry.expiresAt

-----------------------------------------------------------------------------
Answers ==
  [plugin : Plugins, req : Requests, gen : Gens, readAt : 0..MaxTime, ttl : TTLs]

\* setCached returns early for TTL <= 0, so an entry outlives its storing.
Entries == {e \in [answer : Answers, expiresAt : Nat] : e.answer.ttl > 0}

Busy == {"check", "lookup", "backend", "store"}

\* Every state component has its type; a request in flight has a route to a
\* registered plugin, and the cache holds no answer whose TTL is 0.
TypeOK ==
  /\ clock \in 0..MaxTime
  /\ current \in Gens
  /\ enabled \in [Gens -> [Plugins -> BOOLEAN]]
  /\ cache \in [Gens -> [Plugins -> [Keys -> Entries \cup {None}]]]
  /\ pc \in [Workers -> Busy \cup {"idle", "answered", "noroute", "disabled", "failed"}]
  /\ req \in [Workers -> Requests \cup {None}]
  /\ gen \in [Workers -> Gens]
  /\ sent \in [Workers -> 0..MaxTime]
  /\ ans \in [Workers -> Answers \cup {None}]
  /\ flushedAt \in [Gens -> 0..MaxTime]
  /\ floor \in [Workers -> 0..MaxTime]
  /\ served \in [Workers -> 0..MaxTime]
  /\ wasEnabled \in [Workers -> BOOLEAN]
  /\ \A w \in Workers : pc[w] \in Busy \cup {"answered"} =>
       req[w] \in Requests /\ PluginOf(gen[w], req[w]) \in Plugins
  /\ \A w \in Workers : pc[w] \in {"store", "answered"} => ans[w] \in Answers

Init ==
  /\ clock = 0
  /\ current = 1
  /\ enabled \in [Gens -> [Plugins -> BOOLEAN]]
  /\ cache = [g \in Gens |-> EmptyCache]
  /\ pc = [w \in Workers |-> "idle"]
  /\ req = [w \in Workers |-> None]
  /\ gen = [w \in Workers |-> 1]
  /\ sent = [w \in Workers |-> 0]
  /\ ans = [w \in Workers |-> None]
  /\ flushedAt = [g \in Gens |-> 0]
  /\ floor = [w \in Workers |-> 0]
  /\ served = [w \in Workers |-> 0]
  /\ wasEnabled = [w \in Workers |-> FALSE]

-----------------------------------------------------------------------------
(* Registry.Resolve, one step between two acquisitions of the lock.        *)

Plugin(w) == PluginOf(gen[w], req[w])

\* The handler reads application.Registry, and match looks for the route.
Begin(w, r) ==
  /\ pc[w] = "idle"
  /\ req' = [req EXCEPT ![w] = r]
  /\ gen' = [gen EXCEPT ![w] = current]
  /\ floor' = [floor EXCEPT ![w] = flushedAt[current]]
  /\ IF HasRoute(current, r)
       THEN /\ pc' = [pc EXCEPT ![w] = "check"]
            /\ wasEnabled' = [wasEnabled EXCEPT ![w] =
                                enabled[current][PluginOf(current, r)]]
       ELSE /\ pc' = [pc EXCEPT ![w] = "noroute"]
            /\ UNCHANGED wasEnabled
  /\ UNCHANGED <<clock, registryVars, sent, ans, flushedAt, served>>

\* Looking in the cache before the flag is read.
CheckEnabledUnlessCached(w) ==
  /\ pc[w] = "check"
  /\ pc' = [pc EXCEPT ![w] =
              IF \/ enabled[gen[w]][Plugin(w)]
                 \/ Fresh(cache[gen[w]][Plugin(w)][CacheKey(req[w])])
                THEN "lookup" ELSE "disabled"]
  /\ UNCHANGED <<clock, registryVars, req, gen, sent, ans, historyVars>>

CheckEnabled(w) ==
  /\ pc[w] = "check"
  /\ pc' = [pc EXCEPT ![w] =
              IF enabled[gen[w]][Plugin(w)] THEN "lookup" ELSE "disabled"]
  /\ UNCHANGED <<clock, registryVars, req, gen, sent, ans, historyVars>>

Hit(w) ==
  LET entry == cache[gen[w]][Plugin(w)][CacheKey(req[w])]
  IN  /\ pc[w] = "lookup"
      /\ Fresh(entry)
      /\ ans' = [ans EXCEPT ![w] = entry.answer]
      /\ served' = [served EXCEPT ![w] = clock]
      /\ pc' = [pc EXCEPT ![w] = "answered"]
      /\ UNCHANGED <<clock, registryVars, req, gen, sent, flushedAt, floor, wasEnabled>>

Miss(w) ==
  /\ pc[w] = "lookup"
  /\ ~Fresh(cache[gen[w]][Plugin(w)][CacheKey(req[w])])
  /\ pc' = [pc EXCEPT ![w] = "backend"]
  /\ sent' = [sent EXCEPT ![w] = clock]
  /\ UNCHANGED <<clock, registryVars, req, gen, ans, historyVars>>

\* The backend read its data at some time of the call.
BackendAnswers(w) ==
  /\ pc[w] = "backend"
  /\ \E readAt \in sent[w]..clock, ttl \in TTLs :
       ans' = [ans EXCEPT ![w] =
                 [plugin |-> Plugin(w), req |-> req[w], gen |-> gen[w],
                  readAt |-> readAt, ttl |-> ttl]]
  /\ pc' = [pc EXCEPT ![w] = "store"]
  /\ UNCHANGED <<clock, registryVars, req, gen, sent, historyVars>>

BackendFails(w) ==
  /\ pc[w] = "backend"
  /\ pc' = [pc EXCEPT ![w] = "failed"]
  /\ UNCHANGED <<clock, registryVars, req, gen, sent, ans, historyVars>>

Deliver(w) ==
  /\ pc' = [pc EXCEPT ![w] = "answered"]
  /\ served' = [served EXCEPT ![w] = clock]
  /\ UNCHANGED <<clock, current, enabled, req, gen, sent, ans,
                 flushedAt, floor, wasEnabled>>

Entry(a) == [answer |-> a, expiresAt |-> clock + a.ttl]

\* A setCached without its early return.
StoreAlways(w) ==
  /\ pc[w] = "store"
  /\ cache' = [cache EXCEPT ![gen[w]][Plugin(w)][CacheKey(req[w])] = Entry(ans[w])]
  /\ Deliver(w)

\* A fill that goes through the application pointer once more.
StoreInCurrent(w) ==
  /\ pc[w] = "store"
  /\ cache' = IF ans[w].ttl <= 0 THEN cache
              ELSE [cache EXCEPT ![current][Plugin(w)][CacheKey(req[w])] = Entry(ans[w])]
  /\ Deliver(w)

Store(w) ==
  /\ pc[w] = "store"
  /\ cache' = IF ans[w].ttl <= 0 THEN cache
              ELSE [cache EXCEPT ![gen[w]][Plugin(w)][CacheKey(req[w])] = Entry(ans[w])]
  /\ Deliver(w)

\* The caller takes the result; what the call held is gone with it.
Finish(w) ==
  /\ pc[w] \in {"answered", "noroute", "disabled", "failed"}
  /\ pc' = [pc EXCEPT ![w] = "idle"]
  /\ req' = [req EXCEPT ![w] = None]
  /\ gen' = [gen EXCEPT ![w] = 1]
  /\ sent' = [sent EXCEPT ![w] = 0]
  /\ ans' = [ans EXCEPT ![w] = None]
  /\ floor' = [floor EXCEPT ![w] = 0]
  /\ served' = [served EXCEPT ![w] = 0]
  /\ wasEnabled' = [wasEnabled EXCEPT ![w] = FALSE]
  /\ UNCHANGED <<clock, registryVars, flushedAt>>

-----------------------------------------------------------------------------
(* Administration of the live registry.                                    *)

SetPluginEnabled(p, flag) ==
  /\ enabled[current][p] # flag
  /\ enabled' = [enabled EXCEPT ![current][p] = flag]
  /\ wasEnabled' =
       [w \in Workers |->
          \/ wasEnabled[w]
          \/ flag /\ pc[w] \in Busy /\ gen[w] = current /\ Plugin(w) = p]
  /\ UNCHANGED <<clock, current, cache, pc, req, gen, sent, ans,
                 flushedAt, floor, served>>

\* A flush that only sweeps out what has expired.
FlushExpired ==
  /\ cache' = [cache EXCEPT ![current] =
                 [p \in Plugins |-> [k \in Keys |->
                    IF Fresh(cache[current][p][k]) THEN cache[current][p][k]
                                                   ELSE None]]]
  /\ flushedAt' = [flushedAt EXCEPT ![current] = clock]
  /\ UNCHANGED <<clock, current, enabled, pc, req, gen, sent, ans,
                 floor, served, wasEnabled>>

FlushCache ==
  /\ cache' = [cache EXCEPT ![current] = EmptyCache]
  /\ flushedAt' = [flushedAt EXCEPT ![current] = clock]
  /\ UNCHANGED <<clock, current, enabled, pc, req, gen, sent, ans,
                 floor, served, wasEnabled>>

\* App.ReloadFromConfig: a new registry, its flags from the file, its cache
\* empty.  Registries not yet built have the flags Init gave them.
ReloadFromConfig ==
  /\ current < MaxGen
  /\ current' = current + 1
  /\ flushedAt' = [flushedAt EXCEPT ![current + 1] = clock]
  /\ UNCHANGED <<clock, enabled, cache, pc, req, gen, sent, ans,
                 floor, served, wasEnabled>>

\* A call and the fill that follows it end within the request timeout.
Tick ==
  /\ clock < MaxTime
  /\ \A w \in Workers : pc[w] \in {"backend", "store"} => clock - sent[w] < Timeout
  /\ clock' = clock + 1
  /\ UNCHANGED <<registryVars, pc, req, gen, sent, ans, historyVars>>

Serve(w) ==
  \/ \E r \in Requests : Begin(w, r)
  \/ CheckEnabled(w)
  \/ Hit(w)
  \/ Miss(w)
  \/ BackendAnswers(w)
  \/ BackendFails(w)
  \/ Store(w)
  \/ Finish(w)

Next ==
  \/ \E w \in Workers : Serve(w)
  \/ \E p \in Plugins, flag \in BOOLEAN : SetPluginEnabled(p, flag)
  \/ FlushCache
  \/ ReloadFromConfig
  \/ Tick

Spec == Init /\ [][Next]_vars

-----------------------------------------------------------------------------
Answered(w) == pc[w] = "answered"

SameQuestion(r, s) ==
  /\ CanonName[r.qname] = CanonName[s.qname]
  /\ Canon[r.qtype] = Canon[s.qtype]
  /\ Canon[r.tenant] = Canon[s.tenant]
  /\ Canon[r.view] = Canon[s.view]
  /\ TagBag(r.tags) = TagBag(s.tags)

\* An answer, cached or not, comes from the plugin the request's own registry
\* routes it to and was computed for the same name, type, tenant, view and
\* tags: the cache never carries an answer across views, tenants or plugins.
AnswerIsolation ==
  \A w \in Workers : Answered(w) =>
    ans[w].plugin = Plugin(w) /\ SameQuestion(ans[w].req, req[w])

\* What a request is answered with was read from the backend at most one TTL
\* and one backend call before, however many requests shared the entry.
AgeBound ==
  \A w \in Workers : Answered(w) =>
    served[w] - ans[w].readAt <= ans[w].ttl + Timeout

\* A request is answered only if its plugin was enabled at some time after the
\* request began, whatever the cache still holds of the disabled plugin.
DisableFence == \A w \in Workers : Answered(w) => wasEnabled[w]

\* A request that began after a flush, or on a registry built after a reload,
\* is never given data older than that by more than one backend call: a call
\* in flight during the flush may refill the cache, nothing else survives it.
FlushFence ==
  \A w \in Workers : Answered(w) => ans[w].readAt + Timeout >= floor[w]

\* No answer crosses a reload: it was computed by the registry that serves it.
ReloadFence == \A w \in Workers : Answered(w) => ans[w].gen = gen[w]

=============================================================================
