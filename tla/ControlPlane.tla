---------------------------- MODULE ControlPlane ----------------------------
(***************************************************************************)
(* The configuration file and those who read and write it: the admin API's *)
(* PUT configuration (adminapi.go, config/editor.go), the command line     *)
(* tool for management keys (cmd/anyns-management-key) and the reload      *)
(* endpoints of admin API and runtime, each process with its own copy of   *)
(* what it read last (config/config.go), by which it admits requests       *)
(* (httpapi.go).                                                           *)
(*                                                                         *)
(* Nobody locks the file.  A PUT replaces it by a rename and the tool      *)
(* truncates and writes it.  Client addresses, roles, the legacy key and   *)
(* auth_required = false are left out: every request names a key.          *)
(***************************************************************************)
EXTENDS Integers, Sequences

CONSTANTS
  Puts,         \* PUT requests under way
  Edits,        \* what a PUT may set; "empty" is a list without elements
  InitialKeys,  \* the keys of the file in the beginning
  NewIds,       \* the ids the tool may give to keys
  ReloadLists,  \* the --reload-url lists of the tool
  MaxTime,      \* bound: the clock
  MaxOps,       \* bound: PUTs and commands of the tool
  ValidFor      \* how long a successor is valid

Processes == {"admin", "runtime"}
Ids       == {k.id : k \in InitialKeys} \cup NewIds
Never     == MaxTime + ValidFor + 2
Key       == [id : Ids, scopes : {k.scopes : k \in InitialKeys}, from : Int, until : Int, revoked : Int]

\* Loading a configuration and generating a key check as much; the keys of the
\* beginning may have been revoked before.
ASSUME ControlPlaneAssumption ==
  /\ MaxTime \in Nat /\ MaxOps \in Nat /\ ValidFor \in Nat \ {0}
  /\ "cli" \notin Puts /\ "default" \in Edits
  /\ \A todo \in ReloadLists : todo \in Seq(Processes)
  /\ InitialKeys \subseteq Key
  /\ \A k \in InitialKeys : k.scopes # {} /\ (k.revoked <= 0 \/ k.revoked = Never)
  /\ \A k \in InitialKeys, l \in InitialKeys : k.id = l.id => k = l

VARIABLES
  file,     \* [at, edit, keys]: "whole", "torn" by the tool, or "gone"
  conf,     \* what each process has loaded
  req,      \* the PUTs and the tool
  clock,
  ops,      \* how many PUTs and commands have begun
  saved,    \* the edit of the last PUT that was written
  issued,   \* the ids of keys the tool has written
  revoked,  \* those that are revoked
  loaded,   \* processes that have loaded since the last write
  closed,   \* <<process, key>>: loaded after the key's revocation
  pairs,    \* <<process, key, successor>>: loaded after the rotation
  blame     \* whether writers have met, or a load and a write

ghosts == << ops, saved, issued, revoked, loaded, closed, pairs, blame >>
vars   == << file, conf, req, clock, ghosts >>

Idle      == [at |-> "idle"]
Requests  == Puts \cup {"cli"}
IsWhole   == file.at = "whole"
KeyOf(keys, id) == CHOOSE k \in keys : k.id = id
IdsOf(keys)     == {k.id : k \in keys}
Goto(r, state)  == req' = [req EXCEPT ![r] = state]

-----------------------------------------------------------------------------
(* Keys.  Who may call, what the status endpoint says, and what the tool   *)
(* says, are three pieces of code.                                         *)
ActiveUnlessOver(k, now) == k.from <= now /\ now < k.until
managementKeyActive(k, now) == k.from <= now /\ now < k.until /\ now < k.revoked

HasScope(k, scope) == scope \in k.scopes

PrincipalFromRequest(p, id, scope) ==
  \E k \in conf[p].keys : k.id = id /\ managementKeyActive(k, clock) /\ HasScope(k, scope)

(* One that takes a key's last instant for part of its life *)
StatusThroughEnd(k, now) ==
  IF now >= k.revoked THEN "revoked" ELSE IF now < k.from THEN "not_yet_active"
  ELSE IF now > k.until THEN "expired" ELSE "active"

managementKeyStatus(k, now) ==
  CASE now >= k.revoked -> "revoked"
    [] now < k.revoked /\ now < k.from -> "not_yet_active"
    [] now < k.revoked /\ now >= k.from /\ now >= k.until -> "expired"
    [] OTHER -> "active"

localKeyStatus(k, now) ==
  IF k.revoked <= now THEN "revoked" ELSE IF k.from > now THEN "not_yet_active"
  ELSE IF k.until <= now THEN "expired" ELSE "active"

(* Keys that outlast k and begin before it ends; k itself must end, later *)
Candidates(keys, k, now) ==
  {s \in keys : /\ k.until # Never /\ k.until > now
                /\ s.id # k.id /\ s.scopes = k.scopes
                /\ s.until > k.until /\ s.from <= k.until}

hasOverlappingSuccessor(keys, k, now) ==
  \E s \in Candidates(keys, k, now) : managementKeyStatus(s, now) # "expired"

localHasOverlappingSuccessor(keys, k, now) ==
  \E s \in Candidates(keys, k, now) : localKeyStatus(s, now) \in {"active", "not_yet_active"}

guardLiveRotation(keys, id, force) ==
  \E k \in keys : /\ k.id = id /\ managementKeyStatus(k, clock) \notin {"revoked", "expired"}
                  /\ force \/ ~hasOverlappingSuccessor(keys, k, clock)

guardLocalRotation(keys, id) ==
  \E k \in keys : /\ k.id = id /\ localKeyStatus(k, clock) \notin {"revoked", "expired"}
                  /\ ~localHasOverlappingSuccessor(keys, k, clock)

(* One that does not take the scopes over *)
SuccessorWithoutScopes(k, id, from) ==
  [id |-> id, scopes |-> {}, from |-> from, until |-> from + ValidFor, revoked |-> Never]

rotatedSuccessor(k, id, from) ==
  [id |-> id, scopes |-> k.scopes, from |-> from, until |-> from + ValidFor, revoked |-> Never]

-----------------------------------------------------------------------------
(* Loading puts the file over the defaults, and takes an empty list for one*)
(* that is not there.                                                      *)
LoadWithBase(doc) ==
  [edit |-> IF doc.edit = "empty" THEN "default" ELSE doc.edit, keys |-> doc.keys]

Init ==
  /\ file = [at |-> "whole", edit |-> "default", keys |-> InitialKeys]
  /\ conf = [p \in Processes |-> LoadWithBase(file)]
  /\ req = [r \in Requests |-> Idle]
  /\ clock = 0 /\ ops = 0
  /\ saved = "default" /\ issued = {}
  /\ revoked = {k.id : k \in {l \in InitialKeys : l.revoked <= 0}}
  /\ loaded = Processes /\ closed = {} /\ pairs = {} /\ blame = {}

Loading(p)    == {r \in Requests : req[r].at = "install" /\ Head(req[r].todo) = p}
Race          == IF Loading("admin") \cup Loading("runtime") # {} THEN {"race"} ELSE {}
CliHasRead    == req["cli"].at \in {"guard", "truncate", "write"}
PutsHaveRead  == {r \in Puts : req[r].at = "write"}
Overlap(met)  == IF met THEN {"overlap"} ELSE {}

-----------------------------------------------------------------------------
(* PUT configuration: the edited sections over the file as it was read, so *)
(* the keys are written back.                                              *)
PutRead(r, edit, id) ==
  /\ r \in Puts /\ req[r] = Idle /\ IsWhole
  /\ PrincipalFromRequest("admin", id, "config:write")
  /\ Goto(r, [at |-> "write", edit |-> edit, by |-> id, keys |-> file.keys])
  /\ ops < MaxOps /\ ops' = ops + 1
  /\ blame' = blame \cup Overlap(CliHasRead \/ PutsHaveRead # {})
  /\ UNCHANGED << file, conf, clock, saved, issued, revoked, loaded, closed, pairs >>

(* One that writes the process' own copy of the keys *)
SaveOwnCopy(edit, keys) == [at |-> "whole", edit |-> edit, keys |-> conf["admin"].keys]

SaveEditableFile(edit, keys) == [at |-> "whole", edit |-> edit, keys |-> keys]

PutWrite(r, outcome) ==
  /\ r \in Puts /\ req[r].at = "write"
  /\ CASE outcome = "written" ->
            /\ file' = SaveEditableFile(req[r].edit, req[r].keys)
            /\ saved' = req[r].edit
            /\ Goto(r, [at |-> "load", by |-> req[r].by, todo |-> << "admin", "runtime" >>])
       [] outcome = "gone" -> file' = [file EXCEPT !.at = "gone"] /\ Goto(r, Idle) /\ UNCHANGED saved
       [] outcome = "failed" -> Goto(r, Idle) /\ UNCHANGED << file, saved >>
  /\ loaded' = IF outcome = "failed" THEN loaded ELSE {}
  /\ blame' = IF outcome = "failed" THEN blame ELSE blame \cup Race
  /\ UNCHANGED << conf, clock, ops, issued, revoked, closed, pairs >>

-----------------------------------------------------------------------------
(* Loads, of a PUT in its own process and then in the runtime, and of the  *)
(* tool at its URLs: admitted by the process' copy, read, and installed.   *)
LoadRead(r) ==
  /\ req[r].at = "load" /\ IsWhole
  /\ LET p == Head(req[r].todo) IN
     (r \in Puts /\ p = "admin") \/ PrincipalFromRequest(p, req[r].by, "policy:write")
  /\ Goto(r, [f \in DOMAIN req[r] \cup {"cfg"} |->
               CASE f = "cfg" -> LoadWithBase(file) [] f = "at" -> "install" [] OTHER -> req[r][f]])
  /\ UNCHANGED << file, conf, clock, ghosts >>

(* A reload that leaves the keys alone *)
LoadsEdit(p, cfg) ==
  /\ conf' = [conf EXCEPT ![p].edit = cfg.edit]
  /\ loaded' = loaded \cup {p}
  /\ closed' = closed \cup {<< p, id >> : id \in revoked}

Loads(p, cfg) ==
  /\ conf' = [conf EXCEPT ![p] = cfg]
  /\ loaded' = loaded \cup {p}
  /\ closed' = closed \cup {<< p, id >> : id \in revoked}

Install(r) ==
  /\ req[r].at = "install"
  /\ LET p == Head(req[r].todo) IN
     /\ Loads(p, req[r].cfg)
     /\ pairs' = IF r = "cli" /\ req[r].cmd.op = "rotate"
                 THEN pairs \cup {<< p, req[r].cmd.id, req[r].cmd.new >>} ELSE pairs
  /\ Goto(r, IF Tail(req[r].todo) = << >> THEN Idle
             ELSE [f \in DOMAIN req[r] \ {"cfg"} |->
                    CASE f = "at" -> "load" [] f = "todo" -> Tail(req[r].todo) [] OTHER -> req[r][f]])
  /\ UNCHANGED << file, clock, ops, saved, issued, revoked, blame >>

(* A load that fails or is not answered ends the request, and so does the  *)
(* end of the tool                                                         *)
GiveUp(r) ==
  /\ req[r].at \in (IF r = "cli" THEN {"read", "guard", "truncate", "write", "load", "install"}
                    ELSE {"load", "install"})
  /\ Goto(r, Idle)
  /\ UNCHANGED << file, conf, clock, ghosts >>

Restart(p) ==
  /\ IsWhole
  /\ Loads(p, LoadWithBase(file))
  /\ req' = [r \in Requests |->
       IF r \in Loading(p) \/ (r \in Puts /\ p = "admin") THEN Idle ELSE req[r]]
  /\ UNCHANGED << file, clock, ops, saved, issued, revoked, pairs, blame >>

-----------------------------------------------------------------------------
(* The tool: read, guard, truncate, write, reload.  Times are those of its *)
(* start.                                                                  *)
Commands ==
  [op : {"generate"}, new : NewIds, scopes : {k.scopes : k \in InitialKeys}]
  \cup [op : {"revoke"}, id : Ids, at : {clock}]
  \cup [op : {"rotate"}, id : Ids, new : NewIds, from : {clock, clock + 1}, force : BOOLEAN]

CliStart(cmd, live) ==
  /\ req["cli"] = Idle
  /\ cmd.op = "rotate" => /\ cmd.id # cmd.new
                          /\ live # {} => guardLiveRotation(UNION {conf[p].keys : p \in live}, cmd.id, cmd.force)
  /\ ops < MaxOps /\ ops' = ops + 1
  /\ Goto("cli", [at |-> "read", cmd |-> cmd])
  /\ UNCHANGED << file, conf, clock, saved, issued, revoked, loaded, closed, pairs, blame >>

Tool(at, next) == req["cli"].at = at /\ Goto("cli", [req["cli"] EXCEPT !.at = next])
Cmd == req["cli"].cmd

Applied(cmd, keys) ==
  CASE cmd.op = "generate" ->
         keys \cup {[id |-> cmd.new, scopes |-> cmd.scopes, from |-> 0, until |-> Never, revoked |-> Never]}
    [] cmd.op = "revoke" ->
         {IF k.id = cmd.id THEN [k EXCEPT !.revoked = cmd.at] ELSE k : k \in keys}
    [] cmd.op = "rotate" -> keys \cup {rotatedSuccessor(KeyOf(keys, cmd.id), cmd.new, cmd.from)}

CliRead ==
  /\ req["cli"].at = "read" /\ IsWhole
  /\ "id" \in DOMAIN Cmd => Cmd.id \in IdsOf(file.keys)
  /\ "new" \in DOMAIN Cmd => Cmd.new \notin IdsOf(file.keys)
  /\ Goto("cli", [at |-> IF Cmd.op = "rotate" /\ ~Cmd.force THEN "guard" ELSE "truncate",
                  cmd |-> Cmd, doc |-> [file EXCEPT !.keys = Applied(Cmd, file.keys)]])
  /\ blame' = blame \cup Overlap(PutsHaveRead # {})
  /\ UNCHANGED << file, conf, clock, ops, saved, issued, revoked, loaded, closed, pairs >>

CliGuard ==
  /\ Tool("guard", "truncate") /\ IsWhole
  /\ guardLocalRotation(file.keys, Cmd.id)
  /\ UNCHANGED << file, conf, clock, ghosts >>

CliTruncate ==
  /\ Tool("truncate", "write")
  /\ file' = [file EXCEPT !.at = "torn"]
  /\ loaded' = {} /\ blame' = blame \cup Race
  /\ UNCHANGED << conf, clock, ops, saved, issued, revoked, closed, pairs >>

(* What a PUT has put in the file's place meanwhile is not written to *)
CliWrite(by, todo) ==
  /\ req["cli"].at = "write"
  /\ file' = IF file.at = "torn" THEN req["cli"].doc ELSE file
  /\ Goto("cli", IF todo = << >> THEN Idle ELSE [at |-> "load", cmd |-> Cmd, by |-> by, todo |-> todo])
  /\ issued' = IF "new" \in DOMAIN Cmd THEN issued \cup {Cmd.new} ELSE issued
  /\ revoked' = IF Cmd.op = "revoke" THEN revoked \cup {Cmd.id} ELSE revoked
  /\ loaded' = {} /\ blame' = blame \cup Race
  /\ UNCHANGED << conf, clock, ops, saved, closed, pairs >>

Tick == clock < MaxTime /\ clock' = clock + 1 /\ UNCHANGED << file, conf, req, ghosts >>

Next ==
  \/ \E r \in Puts : \/ \E edit \in Edits, id \in Ids : PutRead(r, edit, id)
                     \/ \E outcome \in {"written", "failed", "gone"} : PutWrite(r, outcome)
  \/ \E r \in Requests : LoadRead(r) \/ Install(r) \/ GiveUp(r)
  \/ \E p \in Processes : Restart(p)
  \/ \E cmd \in Commands, live \in {{}} \cup {{p} : p \in Processes} : CliStart(cmd, live)
  \/ CliRead \/ CliGuard \/ CliTruncate
  \/ \E by \in Ids, todo \in ReloadLists : CliWrite(by, todo)
  \/ Tick

Spec == Init /\ [][Next]_vars

-----------------------------------------------------------------------------
(* The variables stay in their types, and ids are never given twice.       *)
TypeOK ==
  /\ file.at \in {"whole", "torn", "gone"} /\ file.edit \in Edits
  /\ \A keys \in {file.keys} \cup {conf[p].keys : p \in Processes} :
        keys \subseteq Key /\ \A k \in keys, l \in keys : k.id = l.id => k = l
  /\ clock \in 0 .. MaxTime /\ loaded \subseteq Processes

(* What a PUT saved and what the tool wrote stays in the file, each of them*)
(* rewriting what the other wrote: unless two of them read the file before *)
(* either had written it.                                                  *)
WritesKept ==
  (IsWhole /\ "overlap" \notin blame) =>
     /\ file.edit = saved
     /\ issued \subseteq IdsOf(file.keys)
     /\ \A k \in file.keys : k.id \in revoked => k.revoked # Never

(* A process that has loaded the file since the last write has it in force,*)
(* unless the file was written between a load's reading and installing it. *)
LoadedIsInForce ==
  (IsWhole /\ "race" \notin blame) => \A p \in loaded : conf[p] = LoadWithBase(file)

(* Once a process has loaded a revocation, the key opens nothing there any *)
(* more, through later PUTs, commands, loads and restarts.                 *)
Closed == \A c \in closed, scope \in {"config:write", "policy:write"} :
            ~PrincipalFromRequest(c[1], c[2], scope)
RevokedStaysClosed == blame = {} => Closed

(* The same without the exception, as the tool says.                       *)
RevocationIsFinal == Closed

(* After a rotation that a process has loaded, every call the key was good *)
(* for is admitted there with the key or with its successor, until the     *)
(* successor ends: unless one was revoked or the successor begins after    *)
(* the key's end.                                                          *)
NoGap ==
  blame = {} => \A r \in pairs : LET keys == conf[r[1]].keys IN
     ({r[2], r[3]} \subseteq IdsOf(keys) /\ {r[2], r[3]} \cap revoked = {}) =>
        LET old == KeyOf(keys, r[2])
            new == KeyOf(keys, r[3])
        IN  (old.from <= clock /\ clock < new.until /\ new.from <= old.until) =>
               \A scope \in old.scopes :
                  \E id \in {r[2], r[3]} : PrincipalFromRequest(r[1], id, scope)

(* The three codings of a key's state agree: the status endpoint calls a   *)
(* key active when it opens the process, and what the guard at that        *)
(* endpoint lets through, the tool's own guard does too.                   *)
RulesAgree ==
  \A p \in Processes : \A k \in conf[p].keys :
     /\ managementKeyStatus(k, clock) = "active" <=>
           \E scope \in k.scopes : PrincipalFromRequest(p, k.id, scope)
     /\ guardLiveRotation(conf[p].keys, k.id, FALSE) => guardLocalRotation(conf[p].keys, k.id)

=============================================================================
