------------------------- MODULE ControlPlaneProofs -------------------------
(***************************************************************************)
(* Theorems about ControlPlane, for any number of PUTs, keys, commands and *)
(* reload lists.  Four invariants build on each other: the types; Force,   *)
(* what a load under way has read; Kept, what a writer under way has read; *)
(* and Closing, what the processes' copies of the keys say.                *)
(***************************************************************************)
EXTENDS ControlPlane, SequenceTheorems, TLAPS

KeySets == {keys \in SUBSET Key : \A k \in keys, l \in keys : k.id = l.id => k = l}
Confs   == [edit : Edits, keys : KeySets]
Files   == [at : {"whole", "torn", "gone"}, edit : Edits, keys : KeySets]
Todos   == Seq(Processes) \ {<< >>}
KeyScopes == {k.scopes : k \in InitialKeys}
Generates == [op : {"generate"}, new : NewIds, scopes : KeyScopes]
Revokes == [op : {"revoke"}, id : Ids, at : 0 .. MaxTime]
Rotates == [op : {"rotate"}, id : Ids, new : NewIds, from : 0 .. MaxTime + 1, force : BOOLEAN]
Cmds    == Generates \cup Revokes \cup Rotates
Stages  == {"idle", "read", "guard", "truncate", "write", "load", "install"}

StateOK(r, s) ==
  /\ "at" \in DOMAIN s /\ s.at \in Stages
  /\ r \in Puts => /\ s.at \in {"idle", "write", "load", "install"}
                   /\ s.at = "write" => s.edit \in Edits /\ s.keys \in KeySets
  /\ r = "cli" => /\ s.at # "idle" => "cmd" \in DOMAIN s /\ s.cmd \in Cmds
                  /\ s.at \in {"guard", "truncate", "write"} =>
                       /\ "doc" \in DOMAIN s /\ s.doc \in Files /\ s.doc.at = "whole"
                       /\ "new" \in DOMAIN s.cmd => s.cmd.new \in IdsOf(s.doc.keys)
  /\ s.at \in {"load", "install"} => "todo" \in DOMAIN s /\ s.todo \in Todos
  /\ s.at = "install" => "cfg" \in DOMAIN s /\ s.cfg \in Confs

TInv ==
  /\ file \in Files /\ conf \in [Processes -> Confs]
  /\ req = [r \in Requests |-> req[r]] /\ \A r \in Requests : StateOK(r, req[r])
  /\ clock \in 0 .. MaxTime /\ loaded \subseteq Processes

-----------------------------------------------------------------------------
(* Keys and commands.                                                      *)

LEMMA CmdFacts ==
  ASSUME NEW cmd \in Cmds
  PROVE  /\ cmd.op \in {"generate", "revoke", "rotate"}
         /\ cmd.op = "generate" <=> cmd \in Generates
         /\ cmd.op = "revoke" <=> cmd \in Revokes
         /\ cmd.op = "rotate" <=> cmd \in Rotates
         /\ "new" \in DOMAIN cmd <=> cmd.op \in {"generate", "rotate"}
         /\ "id" \in DOMAIN cmd <=> cmd.op \in {"revoke", "rotate"}
         /\ "new" \in DOMAIN cmd => cmd.new \in NewIds
         /\ "id" \in DOMAIN cmd => cmd.id \in Ids
<1>1. CASE cmd \in Generates
  BY <1>1 DEF Generates, Revokes, Rotates
<1>2. CASE cmd \in Revokes
  BY <1>2 DEF Generates, Revokes, Rotates
<1>3. CASE cmd \in Rotates
  BY <1>3 DEF Generates, Revokes, Rotates
<1> QED
  BY <1>1, <1>2, <1>3 DEF Cmds

LEMMA CommandTypes == TInv => Commands \subseteq Cmds
<1> SUFFICES ASSUME TInv PROVE Commands \subseteq Cmds
  OBVIOUS
<1>1. clock \in 0 .. MaxTime /\ clock + 1 \in 0 .. MaxTime + 1 /\ clock \in 0 .. MaxTime + 1
  BY ControlPlaneAssumption DEF TInv
<1>2. [op : {"revoke"}, id : Ids, at : {clock}] \subseteq Revokes
  BY <1>1 DEF Revokes
<1>3. [op : {"rotate"}, id : Ids, new : NewIds, from : {clock, clock + 1}, force : BOOLEAN] \subseteq Rotates
  BY <1>1 DEF Rotates
<1> QED
  BY <1>2, <1>3 DEF Commands, Cmds, Generates, KeyScopes

LEMMA NeverIsLate ==
  /\ Never \in Int /\ MaxTime < Never /\ MaxTime \in Nat /\ ValidFor \in Nat
  BY ControlPlaneAssumption DEF Never

LEMMA KeyOfFacts ==
  ASSUME NEW keys \in KeySets, NEW id \in IdsOf(keys)
  PROVE  KeyOf(keys, id) \in keys /\ KeyOf(keys, id).id = id
<1>1. \E k \in keys : k.id = id
  BY DEF IdsOf
<1> QED
  BY <1>1 DEF KeyOf

\* A command makes a set of keys with one key for each id.
LEMMA AppliedTypes ==
  ASSUME NEW cmd \in Cmds, NEW keys \in KeySets,
         "id" \in DOMAIN cmd => cmd.id \in IdsOf(keys),
         "new" \in DOMAIN cmd => cmd.new \notin IdsOf(keys)
  PROVE  /\ Applied(cmd, keys) \in KeySets
         /\ IdsOf(Applied(cmd, keys)) =
              IdsOf(keys) \cup (IF cmd.op = "revoke" THEN {} ELSE {cmd.new})
<1>1. \A keys2 \in SUBSET Key : \A new \in Key :
         (keys2 \in KeySets /\ new.id \notin IdsOf(keys2))
           => keys2 \cup {new} \in KeySets /\ IdsOf(keys2 \cup {new}) = IdsOf(keys2) \cup {new.id}
  BY DEF KeySets, IdsOf
<1>2. CASE cmd.op = "generate"
  <2> DEFINE new == [id |-> cmd.new, scopes |-> cmd.scopes, from |-> 0, until |-> Never, revoked |-> Never]
  <2>1. Applied(cmd, keys) = keys \cup {new}
    BY <1>2 DEF Applied
  <2>2. cmd \in Generates /\ cmd.new \notin IdsOf(keys)
    BY <1>2, CmdFacts
  <2>3. new \in Key
    BY <2>2, NeverIsLate DEF Generates, KeyScopes, Key, Ids
  <2>4. new.id = cmd.new
    OBVIOUS
  <2> HIDE DEF new
  <2> QED
    BY <1>1, <1>2, <2>1, <2>2, <2>3, <2>4 DEF KeySets
<1>3. CASE cmd.op = "rotate"
  <2> DEFINE old == KeyOf(keys, cmd.id)
             new == rotatedSuccessor(old, cmd.new, cmd.from)
  <2>1. Applied(cmd, keys) = keys \cup {new}
    BY <1>3 DEF Applied
  <2>2. cmd \in Rotates /\ cmd.new \notin IdsOf(keys) /\ cmd.id \in IdsOf(keys)
    BY <1>3, CmdFacts
  <2>3. old \in Key
    BY <2>2, KeyOfFacts DEF KeySets
  <2> HIDE DEF old
  <2>4. new \in Key /\ new.id = cmd.new
    BY <2>2, <2>3, NeverIsLate DEF Rotates, Key, Ids, rotatedSuccessor
  <2> HIDE DEF new
  <2> QED
    BY <1>1, <1>3, <2>1, <2>2, <2>4 DEF KeySets
<1>4. CASE cmd.op = "revoke"
  <2> DEFINE Shut(k) == IF k.id = cmd.id THEN [k EXCEPT !.revoked = cmd.at] ELSE k
  <2>1. Applied(cmd, keys) = {Shut(k) : k \in keys}
    BY <1>4 DEF Applied
  <2>2. cmd.at \in Int
    BY <1>4, CmdFacts, ControlPlaneAssumption DEF Revokes
  <2>3. \A k \in keys : Shut(k) \in Key /\ Shut(k).id = k.id
    BY <2>2 DEF KeySets, Key
  <2> HIDE DEF Shut
  <2>4. {Shut(k) : k \in keys} \in KeySets
    BY <2>3 DEF KeySets
  <2>5. IdsOf({Shut(k) : k \in keys}) = IdsOf(keys)
    BY <2>3 DEF IdsOf
  <2> QED
    BY <1>4, <2>1, <2>4, <2>5
<1> QED
  BY <1>2, <1>3, <1>4, CmdFacts

LEMMA LoadTypes == \A doc \in Files : LoadWithBase(doc) \in Confs /\ LoadWithBase(doc).keys = doc.keys
  BY ControlPlaneAssumption DEF LoadWithBase, Files, Confs

LEMMA FileUpdates ==
  ASSUME NEW doc \in Files
  PROVE  /\ \A at \in {"whole", "torn", "gone"} :
              /\ [doc EXCEPT !.at = at] \in Files /\ [doc EXCEPT !.at = at].at = at
              /\ [doc EXCEPT !.at = at].edit = doc.edit /\ [doc EXCEPT !.at = at].keys = doc.keys
         /\ \A keys \in KeySets :
              /\ [doc EXCEPT !.keys = keys] \in Files /\ [doc EXCEPT !.keys = keys].at = doc.at
              /\ [doc EXCEPT !.keys = keys].edit = doc.edit /\ [doc EXCEPT !.keys = keys].keys = keys
  BY DEF Files

-----------------------------------------------------------------------------
(* What each step does to the requests.                                    *)

LEMMA Moved ==
  ASSUME TInv, NEW r \in Requests, NEW s, req' = [req EXCEPT ![r] = s]
  PROVE  /\ req'[r] = s /\ \A q \in Requests : q # r => req'[q] = req[q]
         /\ req' = [q \in Requests |-> req'[q]]
  BY DEF TInv

LEMMA PutIsNotTool == \A r \in Puts : r # "cli" /\ r \in Requests
  BY ControlPlaneAssumption DEF Requests

LEMMA ToolIsRequest == "cli" \in Requests
  BY DEF Requests

LEMMA LoadReadFacts ==
  ASSUME TInv, NEW r \in Requests, LoadRead(r)
  PROVE  /\ req[r].at = "load" /\ IsWhole
         /\ req' = [q \in Requests |-> req'[q]] /\ \A q \in Requests : q # r => req'[q] = req[q]
         /\ {"at", "todo", "cfg"} \subseteq DOMAIN req'[r]
         /\ req'[r].at = "install" /\ req'[r].todo = req[r].todo /\ req'[r].cfg = LoadWithBase(file)
         /\ r = "cli" => "cmd" \in DOMAIN req'[r] /\ req'[r].cmd = req[r].cmd
         /\ UNCHANGED << file, conf, clock, ops, saved, issued, revoked, loaded, closed, pairs, blame >>
<1> DEFINE s == [f \in DOMAIN req[r] \cup {"cfg"} |->
                   CASE f = "cfg" -> LoadWithBase(file) [] f = "at" -> "install" [] OTHER -> req[r][f]]
<1>1. req[r].at = "load" /\ IsWhole /\ req' = [req EXCEPT ![r] = s]
  BY DEF LoadRead, Goto
<1>2. StateOK(r, req[r])
  BY DEF TInv
<1>3. /\ "at" \in DOMAIN req[r] /\ "todo" \in DOMAIN req[r] /\ (r = "cli" => "cmd" \in DOMAIN req[r])
  BY <1>1, <1>2 DEF StateOK
<1>4. DOMAIN s = DOMAIN req[r] \cup {"cfg"}
  OBVIOUS
<1>5. /\ s.at = "install" /\ s.todo = req[r].todo /\ s.cfg = LoadWithBase(file)
      /\ r = "cli" => s.cmd = req[r].cmd
  BY <1>3
<1> HIDE DEF s
<1>6. /\ req'[r] = s /\ (\A q \in Requests : q # r => req'[q] = req[q]) /\ req' = [q \in Requests |-> req'[q]]
  BY <1>1 DEF TInv
<1>7. UNCHANGED << file, conf, clock, ops, saved, issued, revoked, loaded, closed, pairs, blame >>
  BY DEF LoadRead, ghosts
<1> QED
  BY <1>1, <1>3, <1>4, <1>5, <1>6, <1>7

LEMMA InstallFacts ==
  ASSUME TInv, NEW r \in Requests, Install(r)
  PROVE  /\ req[r].at = "install" /\ Head(req[r].todo) \in Processes
         /\ Loads(Head(req[r].todo), req[r].cfg)
         /\ pairs' = IF r = "cli" /\ req[r].cmd.op = "rotate"
                     THEN pairs \cup {<< Head(req[r].todo), req[r].cmd.id, req[r].cmd.new >>} ELSE pairs
         /\ req' = [q \in Requests |-> req'[q]] /\ \A q \in Requests : q # r => req'[q] = req[q]
         /\ \/ req'[r] = Idle
            \/ /\ req'[r].at = "load" /\ {"at", "todo"} \subseteq DOMAIN req'[r] /\ req'[r].todo \in Todos
               /\ r = "cli" => "cmd" \in DOMAIN req'[r] /\ req'[r].cmd = req[r].cmd
         /\ UNCHANGED << file, clock, ops, saved, issued, revoked, blame >>
<1> DEFINE s == [f \in DOMAIN req[r] \ {"cfg"} |->
                   CASE f = "at" -> "load" [] f = "todo" -> Tail(req[r].todo) [] OTHER -> req[r][f]]
<1>1. /\ req[r].at = "install" /\ Loads(Head(req[r].todo), req[r].cfg)
      /\ req' = [req EXCEPT ![r] = IF Tail(req[r].todo) = << >> THEN Idle ELSE s]
  BY DEF Install, Goto
<1>2. pairs' = IF r = "cli" /\ req[r].cmd.op = "rotate"
               THEN pairs \cup {<< Head(req[r].todo), req[r].cmd.id, req[r].cmd.new >>} ELSE pairs
  BY DEF Install
<1>3. StateOK(r, req[r])
  BY DEF TInv
<1>4. /\ "at" \in DOMAIN req[r] /\ "todo" \in DOMAIN req[r] /\ (r = "cli" => "cmd" \in DOMAIN req[r])
      /\ req[r].todo \in Todos
  BY <1>1, <1>3 DEF StateOK
<1>5. Head(req[r].todo) \in Processes /\ Tail(req[r].todo) \in Seq(Processes)
  BY <1>4 DEF Todos
<1>6. /\ s.at = "load" /\ s.todo = Tail(req[r].todo) /\ {"at", "todo"} \subseteq DOMAIN s
      /\ r = "cli" => "cmd" \in DOMAIN s /\ s.cmd = req[r].cmd
  BY <1>4
<1> HIDE DEF s
<1>7. /\ req'[r] = (IF Tail(req[r].todo) = << >> THEN Idle ELSE s)
      /\ (\A q \in Requests : q # r => req'[q] = req[q]) /\ req' = [q \in Requests |-> req'[q]]
  BY <1>1 DEF TInv
<1>8. UNCHANGED << file, clock, ops, saved, issued, revoked, blame >>
  BY DEF Install
<1> QED
  BY <1>1, <1>2, <1>5, <1>6, <1>7, <1>8 DEF Todos

LEMMA ToolMoves ==
  ASSUME TInv, NEW at \in Stages, NEW next \in Stages, Tool(at, next)
  PROVE  /\ req["cli"].at = at /\ "at" \in DOMAIN req'["cli"]
         /\ req' = [q \in Requests |-> req'[q]] /\ \A q \in Requests : q # "cli" => req'[q] = req[q]
         /\ req'["cli"].at = next /\ DOMAIN req'["cli"] = DOMAIN req["cli"]
         /\ \A f \in DOMAIN req["cli"] : f # "at" => req'["cli"][f] = req["cli"][f]
<1>1. req["cli"].at = at /\ req' = [req EXCEPT !["cli"] = [req["cli"] EXCEPT !.at = next]]
  BY DEF Tool, Goto
<1>2. "at" \in DOMAIN req["cli"]
  BY ToolIsRequest DEF TInv, StateOK
<1>3. req'["cli"] = [req["cli"] EXCEPT !.at = next]
  BY <1>1, ToolIsRequest DEF TInv
<1> QED
  BY <1>1, <1>2, <1>3, ToolIsRequest DEF TInv

-----------------------------------------------------------------------------
(* Types.                                                                  *)

LEMMA InitTypes == Init => TInv
<1> SUFFICES ASSUME Init PROVE TInv
  OBVIOUS
<1>1. InitialKeys \in KeySets
  BY ControlPlaneAssumption DEF KeySets
<1>2. file \in Files
  BY <1>1, ControlPlaneAssumption DEF Init, Files
<1>3. conf \in [Processes -> Confs]
  BY <1>2, LoadTypes DEF Init
<1>4. \A r \in Requests : StateOK(r, Idle)
  BY DEF StateOK, Idle, Stages
<1>5. req = [r \in Requests |-> req[r]] /\ \A r \in Requests : req[r] = Idle
  BY DEF Init
<1>6. clock \in 0 .. MaxTime /\ loaded \subseteq Processes
  BY ControlPlaneAssumption DEF Init
<1> QED
  BY <1>2, <1>3, <1>4, <1>5, <1>6 DEF TInv

\* A step in which one request moves.
LEMMA OneMoves ==
  ASSUME TInv, NEW r \in Requests,
         req' = [q \in Requests |-> req'[q]], \A q \in Requests : q # r => req'[q] = req[q],
         StateOK(r, req'[r]), file' \in Files, conf' \in [Processes -> Confs],
         clock' \in 0 .. MaxTime, loaded' \subseteq Processes
  PROVE  TInv'
  BY DEF TInv

LEMMA PutReadTypes ==
  ASSUME TInv, NEW r \in Puts, NEW edit \in Edits, NEW id \in Ids, PutRead(r, edit, id)
  PROVE  TInv'
<1> DEFINE s == [at |-> "write", edit |-> edit, by |-> id, keys |-> file.keys]
<1>1. req' = [req EXCEPT ![r] = s] /\ UNCHANGED << file, conf, clock, loaded >>
  BY DEF PutRead, Goto
<1>2. file.keys \in KeySets
  BY DEF TInv, Files
<1>3. StateOK(r, s)
  BY <1>2, PutIsNotTool DEF StateOK, Stages
<1> HIDE DEF s
<1>4. req'[r] = s /\ (\A q \in Requests : q # r => req'[q] = req[q]) /\ req' = [q \in Requests |-> req'[q]]
  BY <1>1, PutIsNotTool DEF TInv
<1>5. r \in Requests /\ StateOK(r, req'[r])
  BY <1>3, <1>4, PutIsNotTool
<1> QED
  BY <1>1, <1>4, <1>5, OneMoves DEF TInv

LEMMA PutWriteTypes ==
  ASSUME TInv, NEW r \in Puts, NEW outcome \in {"written", "failed", "gone"}, PutWrite(r, outcome)
  PROVE  TInv'
<1> DEFINE s == [at |-> "load", by |-> req[r].by, todo |-> << "admin", "runtime" >>]
<1>1. /\ req[r].at = "write" /\ UNCHANGED << conf, clock >>
      /\ loaded' = IF outcome = "failed" THEN loaded ELSE {}
  BY DEF PutWrite
<1>2. r \in Requests /\ r # "cli"
  BY PutIsNotTool
<1>3. StateOK(r, Idle)
  BY <1>2 DEF StateOK, Idle, Stages
<1>4. << "admin", "runtime" >> \in Todos
  BY DEF Todos, Processes
<1>5. StateOK(r, s)
  BY <1>2, <1>4 DEF StateOK, Stages
<1> HIDE DEF s
<1>6. req' = [req EXCEPT ![r] = s] \/ req' = [req EXCEPT ![r] = Idle]
  BY DEF PutWrite, Goto, s
<1>7. req'[r] \in {s, Idle} /\ (\A q \in Requests : q # r => req'[q] = req[q]) /\ req' = [q \in Requests |-> req'[q]]
  BY <1>2, <1>6 DEF TInv
<1>8. file' \in Files
  <2>1. CASE outcome = "written"
    <3>1. file' = [at |-> "whole", edit |-> req[r].edit, keys |-> req[r].keys]
      BY <2>1 DEF PutWrite, SaveEditableFile
    <3>2. req[r].edit \in Edits /\ req[r].keys \in KeySets
      BY <1>1, <1>2 DEF TInv, StateOK
    <3> QED
      BY <3>1, <3>2 DEF Files
  <2>2. CASE outcome = "gone"
    <3>1. file' = [file EXCEPT !.at = "gone"]
      BY <2>2 DEF PutWrite
    <3> QED
      BY <3>1, FileUpdates DEF TInv
  <2>3. CASE outcome = "failed"
    BY <2>3 DEF PutWrite, TInv
  <2> QED
    BY <2>1, <2>2, <2>3
<1>9. StateOK(r, req'[r])
  BY <1>3, <1>5, <1>7
<1>10. loaded' \subseteq Processes /\ conf' \in [Processes -> Confs] /\ clock' \in 0 .. MaxTime
  BY <1>1 DEF TInv
<1> QED
  BY <1>2, <1>7, <1>8, <1>9, <1>10, OneMoves

LEMMA LoadReadTypes ==
  ASSUME TInv, NEW r \in Requests, LoadRead(r)
  PROVE  TInv'
<1>1. /\ req[r].at = "load"
      /\ req' = [q \in Requests |-> req'[q]] /\ \A q \in Requests : q # r => req'[q] = req[q]
      /\ {"at", "todo", "cfg"} \subseteq DOMAIN req'[r]
      /\ req'[r].at = "install" /\ req'[r].todo = req[r].todo /\ req'[r].cfg = LoadWithBase(file)
      /\ r = "cli" => "cmd" \in DOMAIN req'[r] /\ req'[r].cmd = req[r].cmd
      /\ UNCHANGED << file, conf, clock, loaded >>
  BY LoadReadFacts
<1>2. StateOK(r, req[r]) /\ LoadWithBase(file) \in Confs
  BY LoadTypes DEF TInv
<1>3. StateOK(r, req'[r])
  BY <1>1, <1>2 DEF StateOK, Stages
<1>4. file' \in Files /\ conf' \in [Processes -> Confs] /\ clock' \in 0 .. MaxTime /\ loaded' \subseteq Processes
  BY <1>1 DEF TInv
<1> QED
  BY <1>1, <1>3, <1>4, OneMoves

LEMMA InstallTypes ==
  ASSUME TInv, NEW r \in Requests, Install(r)
  PROVE  TInv'
<1>1. /\ req[r].at = "install" /\ Head(req[r].todo) \in Processes
      /\ Loads(Head(req[r].todo), req[r].cfg)
      /\ req' = [q \in Requests |-> req'[q]] /\ \A q \in Requests : q # r => req'[q] = req[q]
      /\ \/ req'[r] = Idle
         \/ /\ req'[r].at = "load" /\ {"at", "todo"} \subseteq DOMAIN req'[r] /\ req'[r].todo \in Todos
            /\ r = "cli" => "cmd" \in DOMAIN req'[r] /\ req'[r].cmd = req[r].cmd
      /\ UNCHANGED << file, clock >>
  BY InstallFacts
<1>2. StateOK(r, req[r])
  BY DEF TInv
<1>3. StateOK(r, Idle)
  BY DEF StateOK, Idle, Stages
<1>4. StateOK(r, req'[r])
  <2>1. CASE req'[r] = Idle
    BY <1>3, <2>1
  <2>2. CASE req'[r] # Idle
    BY <1>1, <1>2, <2>2 DEF StateOK, Stages
  <2> QED
    BY <2>1, <2>2
<1>5. req[r].cfg \in Confs
  BY <1>1, <1>2 DEF StateOK
<1>6. conf' \in [Processes -> Confs] /\ loaded' \subseteq Processes
  BY <1>1, <1>5 DEF Loads, TInv
<1>7. file' \in Files /\ clock' \in 0 .. MaxTime
  BY <1>1 DEF TInv
<1> QED
  BY <1>1, <1>4, <1>6, <1>7, OneMoves

LEMMA GiveUpTypes ==
  ASSUME TInv, NEW r \in Requests, GiveUp(r)
  PROVE  TInv'
<1>1. req' = [req EXCEPT ![r] = Idle] /\ UNCHANGED << file, conf, clock, loaded >>
  BY DEF GiveUp, Goto, ghosts
<1>2. StateOK(r, Idle)
  BY DEF StateOK, Idle, Stages
<1>3. req'[r] = Idle /\ (\A q \in Requests : q # r => req'[q] = req[q]) /\ req' = [q \in Requests |-> req'[q]]
  BY <1>1 DEF TInv
<1> QED
  BY <1>1, <1>2, <1>3, OneMoves DEF TInv

LEMMA RestartTypes ==
  ASSUME TInv, NEW p \in Processes, Restart(p)
  PROVE  TInv'
<1>1. /\ Loads(p, LoadWithBase(file)) /\ UNCHANGED << file, clock >>
      /\ req' = [r \in Requests |->
           IF r \in Loading(p) \/ (r \in Puts /\ p = "admin") THEN Idle ELSE req[r]]
  BY DEF Restart
<1>2. \A r \in Requests : StateOK(r, Idle)
  BY DEF StateOK, Idle, Stages
<1>3. \A r \in Requests : req'[r] = Idle \/ req'[r] = req[r]
  BY <1>1
<1>4. req' = [r \in Requests |-> req'[r]]
  BY <1>1
<1>5. \A r \in Requests : StateOK(r, req'[r])
  BY <1>2, <1>3 DEF TInv
<1>6. LoadWithBase(file) \in Confs
  BY LoadTypes DEF TInv
<1>7. conf' \in [Processes -> Confs] /\ loaded' \subseteq Processes
  BY <1>1, <1>6 DEF Loads, TInv
<1> QED
  BY <1>1, <1>4, <1>5, <1>7 DEF TInv

LEMMA CliStartTypes ==
  ASSUME TInv, NEW cmd \in Cmds, NEW live, CliStart(cmd, live)
  PROVE  TInv'
<1> DEFINE s == [at |-> "read", cmd |-> cmd]
<1>1. req' = [req EXCEPT !["cli"] = s] /\ UNCHANGED << file, conf, clock, loaded >>
  BY DEF CliStart, Goto
<1>2. StateOK("cli", s)
  BY PutIsNotTool DEF StateOK, Stages
<1> HIDE DEF s
<1>3. /\ req'["cli"] = s /\ (\A q \in Requests : q # "cli" => req'[q] = req[q])
      /\ req' = [q \in Requests |-> req'[q]]
  BY <1>1, ToolIsRequest DEF TInv
<1>4. StateOK("cli", req'["cli"])
  BY <1>2, <1>3
<1>5. file' \in Files /\ conf' \in [Processes -> Confs] /\ clock' \in 0 .. MaxTime /\ loaded' \subseteq Processes
  BY <1>1 DEF TInv
<1> QED
  BY <1>3, <1>4, <1>5, ToolIsRequest, OneMoves

\* What the tool has read and made of it.
LEMMA CliReadFacts ==
  ASSUME TInv, CliRead
  PROVE  /\ req["cli"].at = "read" /\ IsWhole /\ Cmd \in Cmds
         /\ "id" \in DOMAIN Cmd => Cmd.id \in IdsOf(file.keys)
         /\ "new" \in DOMAIN Cmd => Cmd.new \notin IdsOf(file.keys)
         /\ req' = [q \in Requests |-> req'[q]] /\ \A q \in Requests : q # "cli" => req'[q] = req[q]
         /\ req'["cli"] = [at |-> IF Cmd.op = "rotate" /\ ~Cmd.force THEN "guard" ELSE "truncate",
                           cmd |-> Cmd, doc |-> [file EXCEPT !.keys = Applied(Cmd, file.keys)]]
         /\ blame' = blame \cup Overlap(PutsHaveRead # {})
         /\ UNCHANGED << file, conf, clock, ops, saved, issued, revoked, loaded, closed, pairs >>
<1>1. /\ req["cli"].at = "read" /\ IsWhole
      /\ "id" \in DOMAIN Cmd => Cmd.id \in IdsOf(file.keys)
      /\ "new" \in DOMAIN Cmd => Cmd.new \notin IdsOf(file.keys)
      /\ blame' = blame \cup Overlap(PutsHaveRead # {})
      /\ UNCHANGED << file, conf, clock, ops, saved, issued, revoked, loaded, closed, pairs >>
  BY DEF CliRead
<1>2. Cmd \in Cmds
  BY <1>1, ToolIsRequest DEF TInv, StateOK, Cmd
<1> DEFINE s == [at |-> IF Cmd.op = "rotate" /\ ~Cmd.force THEN "guard" ELSE "truncate",
                 cmd |-> Cmd, doc |-> [file EXCEPT !.keys = Applied(Cmd, file.keys)]]
<1>3. req' = [req EXCEPT !["cli"] = s]
  BY DEF CliRead, Goto
<1> HIDE DEF s
<1>4. /\ req'["cli"] = s /\ (\A q \in Requests : q # "cli" => req'[q] = req[q])
      /\ req' = [q \in Requests |-> req'[q]]
  BY <1>3, ToolIsRequest DEF TInv
<1> QED
  BY <1>1, <1>2, <1>4 DEF s

LEMMA CliReadTypes ==
  ASSUME TInv, CliRead
  PROVE  TInv'
<1> DEFINE doc == [file EXCEPT !.keys = Applied(Cmd, file.keys)]
           at == IF Cmd.op = "rotate" /\ ~Cmd.force THEN "guard" ELSE "truncate"
<1>1. /\ IsWhole /\ Cmd \in Cmds
      /\ "id" \in DOMAIN Cmd => Cmd.id \in IdsOf(file.keys)
      /\ "new" \in DOMAIN Cmd => Cmd.new \notin IdsOf(file.keys)
      /\ req' = [q \in Requests |-> req'[q]] /\ \A q \in Requests : q # "cli" => req'[q] = req[q]
      /\ req'["cli"] = [at |-> at, cmd |-> Cmd, doc |-> doc]
      /\ UNCHANGED << file, conf, clock, loaded >>
  BY CliReadFacts
<1>2. file.keys \in KeySets /\ file \in Files
  BY DEF TInv, Files
<1>3. /\ Applied(Cmd, file.keys) \in KeySets
      /\ "new" \in DOMAIN Cmd => Cmd.new \in IdsOf(Applied(Cmd, file.keys))
  BY <1>1, <1>2, AppliedTypes, CmdFacts
<1>4. doc \in Files /\ doc.at = "whole" /\ doc.keys = Applied(Cmd, file.keys)
  BY <1>1, <1>2, <1>3, FileUpdates DEF IsWhole
<1>5. at \in {"guard", "truncate"}
  OBVIOUS
<1> HIDE DEF doc, at
<1>6. StateOK("cli", [at |-> at, cmd |-> Cmd, doc |-> doc])
  BY <1>1, <1>3, <1>4, <1>5, PutIsNotTool DEF StateOK, Stages
<1>7. StateOK("cli", req'["cli"])
  BY <1>1, <1>6
<1>8. file' \in Files /\ conf' \in [Processes -> Confs] /\ clock' \in 0 .. MaxTime /\ loaded' \subseteq Processes
  BY <1>1 DEF TInv
<1> QED
  BY <1>1, <1>7, <1>8, ToolIsRequest, OneMoves

LEMMA ToolTypes ==
  ASSUME TInv, NEW at \in {"guard", "truncate"}, NEW next \in {"truncate", "write"}, Tool(at, next),
         file' \in Files, conf' = conf, clock' = clock, loaded' \subseteq Processes
  PROVE  TInv'
<1>1. /\ req["cli"].at = at
      /\ req' = [q \in Requests |-> req'[q]] /\ \A q \in Requests : q # "cli" => req'[q] = req[q]
      /\ req'["cli"].at = next /\ DOMAIN req'["cli"] = DOMAIN req["cli"]
      /\ \A f \in DOMAIN req["cli"] : f # "at" => req'["cli"][f] = req["cli"][f]
  BY ToolMoves DEF Stages
<1>2. StateOK("cli", req["cli"])
  BY ToolIsRequest DEF TInv
<1>3. /\ {"at", "cmd", "doc"} \subseteq DOMAIN req["cli"]
      /\ req'["cli"].cmd = req["cli"].cmd /\ req'["cli"].doc = req["cli"].doc
  BY <1>1, <1>2 DEF StateOK
<1>4. StateOK("cli", req'["cli"])
  BY <1>1, <1>2, <1>3, PutIsNotTool DEF StateOK, Stages
<1>5. conf' \in [Processes -> Confs] /\ clock' \in 0 .. MaxTime
  BY DEF TInv
<1> QED
  BY <1>1, <1>4, <1>5, ToolIsRequest, OneMoves

LEMMA CliWriteTypes ==
  ASSUME TInv, NEW by \in Ids, NEW todo \in ReloadLists, CliWrite(by, todo)
  PROVE  TInv'
<1> DEFINE s == [at |-> "load", cmd |-> Cmd, by |-> by, todo |-> todo]
<1>1. /\ req["cli"].at = "write" /\ UNCHANGED << conf, clock >> /\ loaded' = {}
      /\ file' = IF file.at = "torn" THEN req["cli"].doc ELSE file
      /\ req' = [req EXCEPT !["cli"] = IF todo = << >> THEN Idle ELSE s]
  BY DEF CliWrite, Goto
<1>2. StateOK("cli", req["cli"])
  BY ToolIsRequest DEF TInv
<1>3. Cmd \in Cmds /\ req["cli"].doc \in Files
  BY <1>1, <1>2 DEF StateOK, Cmd
<1>4. todo # << >> => StateOK("cli", s)
  BY <1>3, PutIsNotTool, ControlPlaneAssumption DEF StateOK, Stages, Todos
<1>5. StateOK("cli", Idle)
  BY DEF StateOK, Idle, Stages
<1> HIDE DEF s
<1>6. /\ req'["cli"] = (IF todo = << >> THEN Idle ELSE s)
      /\ (\A q \in Requests : q # "cli" => req'[q] = req[q]) /\ req' = [q \in Requests |-> req'[q]]
  BY <1>1, ToolIsRequest DEF TInv
<1>7. StateOK("cli", req'["cli"])
  BY <1>4, <1>5, <1>6
<1>8. file' \in Files /\ conf' \in [Processes -> Confs] /\ clock' \in 0 .. MaxTime /\ loaded' \subseteq Processes
  BY <1>1, <1>3 DEF TInv
<1> QED
  BY <1>6, <1>7, <1>8, ToolIsRequest, OneMoves

LEMMA NextTypes == TInv /\ [Next]_vars => TInv'
<1> SUFFICES ASSUME TInv, [Next]_vars PROVE TInv'
  OBVIOUS
<1>1. ASSUME NEW r \in Puts, NEW edit \in Edits, NEW id \in Ids, PutRead(r, edit, id)
      PROVE  TInv'
  BY <1>1, PutReadTypes
<1>2. ASSUME NEW r \in Puts, NEW outcome \in {"written", "failed", "gone"}, PutWrite(r, outcome)
      PROVE  TInv'
  BY <1>2, PutWriteTypes
<1>3. ASSUME NEW r \in Requests, LoadRead(r) \/ Install(r) \/ GiveUp(r)
      PROVE  TInv'
  BY <1>3, LoadReadTypes, InstallTypes, GiveUpTypes
<1>4. ASSUME NEW p \in Processes, Restart(p)
      PROVE  TInv'
  BY <1>4, RestartTypes
<1>5. ASSUME NEW cmd \in Commands, NEW live, CliStart(cmd, live)
      PROVE  TInv'
  BY <1>5, CommandTypes, CliStartTypes
<1>6. CASE CliRead
  BY <1>6, CliReadTypes
<1>7. CASE CliGuard
  <2>1. Tool("guard", "truncate") /\ file' = file /\ conf' = conf /\ clock' = clock /\ loaded' = loaded
    BY <1>7 DEF CliGuard, ghosts
  <2> QED
    BY <2>1, ToolTypes DEF TInv
<1>8. CASE CliTruncate
  <2>1. /\ Tool("truncate", "write") /\ file' = [file EXCEPT !.at = "torn"]
        /\ conf' = conf /\ clock' = clock /\ loaded' = {}
    BY <1>8 DEF CliTruncate
  <2>2. file' \in Files
    BY <2>1, FileUpdates DEF TInv
  <2> QED
    BY <2>1, <2>2, ToolTypes
<1>9. ASSUME NEW by \in Ids, NEW todo \in ReloadLists, CliWrite(by, todo)
      PROVE  TInv'
  BY <1>9, CliWriteTypes
<1>10. CASE Tick
  BY <1>10, ControlPlaneAssumption DEF Tick, ghosts, TInv
<1>11. CASE UNCHANGED vars
  BY <1>11 DEF vars, ghosts, TInv
<1> QED
  BY <1>1, <1>2, <1>3, <1>4, <1>5, <1>6, <1>7, <1>8, <1>9, <1>10, <1>11 DEF Next

(* The variables stay in their types, through every PUT, command, load,    *)
(* failure and restart, and ids are never given twice.                     *)
THEOREM TypeCorrect == Spec => []TypeOK
<1>1. TInv => TypeOK
  BY DEF TInv, TypeOK, Files, Confs, KeySets, Processes
<1> QED
  BY <1>1, InitTypes, NextTypes, PTL DEF Spec

-----------------------------------------------------------------------------
(* Force: unless a write met a load, what a load is about to install is    *)
(* what the file says.                                                     *)
Pending  == {r \in Requests : req[r].at = "install"}
Held     == \A r \in Pending : IsWhole /\ req[r].cfg = LoadWithBase(file)
InForce  == IsWhole => \A p \in loaded : conf[p] = LoadWithBase(file)
FInv     == "race" \notin blame => Held /\ InForce

\* A write while a load is pending is blamed.
LEMMA RaceSeen == TInv /\ "race" \notin Race => Pending = {}
<1> SUFFICES ASSUME TInv, NEW r \in Requests, req[r].at = "install" PROVE "race" \in Race
  BY DEF Pending
<1>1. StateOK(r, req[r])
  BY DEF TInv
<1>2. req[r].todo \in Todos
  BY <1>1 DEF StateOK
<1>3. Head(req[r].todo) \in Processes
  BY <1>2 DEF Todos
<1> QED
  BY <1>3 DEF Race, Loading, Processes

\* A step that leaves file, copies and loads alone.
LEMMA ForceKept ==
  ASSUME TInv, FInv, file' = file, conf' = conf, loaded' = loaded, blame \subseteq blame',
         \A r \in Requests : req'[r].at = "install" => req'[r] = req[r]
  PROVE  FInv'
<1> SUFFICES ASSUME "race" \notin blame' PROVE Held' /\ InForce'
  BY DEF FInv
<1>1. Held /\ InForce
  BY DEF FInv
<1>2. Held'
  BY <1>1 DEF Held, Pending, IsWhole, LoadWithBase
<1>3. InForce'
  BY <1>1 DEF InForce, IsWhole, LoadWithBase
<1> QED
  BY <1>2, <1>3

\* A write, after which nobody has loaded.
LEMMA ForceWritten ==
  ASSUME TInv, loaded' = {}, blame' = blame \cup Race,
         \A r \in Requests : req'[r].at = "install" => req[r].at = "install"
  PROVE  FInv'
<1> SUFFICES ASSUME "race" \notin blame' PROVE Held' /\ InForce'
  BY DEF FInv
<1>1. Pending = {}
  BY RaceSeen
<1>2. Pending' = {}
  BY <1>1 DEF Pending
<1> QED
  BY <1>2 DEF Held, InForce

\* A load of p from the file as it is.
LEMMA ForceLoaded ==
  ASSUME TInv, FInv, NEW p \in Processes, NEW cfg, Loads(p, cfg), file' = file, blame' = blame,
         "race" \notin blame => cfg = LoadWithBase(file),
         \A r \in Requests : req'[r].at = "install" => req'[r] = req[r]
  PROVE  FInv'
<1> SUFFICES ASSUME "race" \notin blame' PROVE Held' /\ InForce'
  BY DEF FInv
<1>1. Held /\ InForce
  BY DEF FInv
<1>2. Held'
  BY <1>1 DEF Held, Pending, IsWhole, LoadWithBase
<1>3. conf' = [conf EXCEPT ![p] = LoadWithBase(file)] /\ loaded' = loaded \cup {p}
  BY DEF Loads
<1>4. conf \in [Processes -> Confs] /\ loaded \subseteq Processes
  BY DEF TInv
<1>5. LoadWithBase(file)' = LoadWithBase(file) /\ IsWhole' = IsWhole
  BY DEF LoadWithBase, IsWhole
<1>6. InForce'
  BY <1>1, <1>3, <1>4, <1>5 DEF InForce
<1> QED
  BY <1>2, <1>6

LEMMA IdleIsNotPending == Idle.at = "idle" /\ Idle.at # "install"
  BY DEF Idle

\* A request goes where it does not install.
LEMMA GotoElsewhere ==
  ASSUME TInv, NEW r \in Requests, NEW s, Goto(r, s), s.at # "install"
  PROVE  \A q \in Requests : req'[q].at = "install" => req'[q] = req[q] /\ req[q].at = "install"
<1>1. req'[r] = s /\ \A q \in Requests : q # r => req'[q] = req[q]
  BY DEF Goto, TInv
<1> QED
  BY <1>1

LEMMA NextForce == TInv /\ FInv /\ [Next]_vars => FInv'
<1> SUFFICES ASSUME TInv, FInv, [Next]_vars PROVE FInv'
  OBVIOUS
<1> USE IdleIsNotPending
<1>1. ASSUME NEW r \in Puts, NEW edit \in Edits, NEW id \in Ids, PutRead(r, edit, id)
      PROVE  FInv'
  <2>1. \A q \in Requests : req'[q].at = "install" => req'[q] = req[q]
    BY <1>1, GotoElsewhere, PutIsNotTool DEF PutRead
  <2>2. UNCHANGED << file, conf, loaded >> /\ blame \subseteq blame'
    BY <1>1 DEF PutRead
  <2> QED
    BY <2>1, <2>2, ForceKept
<1>2. ASSUME NEW r \in Puts, NEW outcome \in {"written", "failed", "gone"}, PutWrite(r, outcome)
      PROVE  FInv'
  <2>1. \A q \in Requests : req'[q].at = "install" => req'[q] = req[q] /\ req[q].at = "install"
    <3> DEFINE s == [at |-> "load", by |-> req[r].by, todo |-> << "admin", "runtime" >>]
    <3>1. Goto(r, s) \/ Goto(r, Idle)
      BY <1>2 DEF PutWrite
    <3>2. s.at # "install"
      OBVIOUS
    <3> HIDE DEF s
    <3> QED
      BY <3>1, <3>2, GotoElsewhere, PutIsNotTool
  <2>2. CASE outcome = "failed"
    <3>1. UNCHANGED << file, conf, loaded, blame >>
      BY <1>2, <2>2 DEF PutWrite
    <3> QED
      BY <2>1, <3>1, ForceKept
  <2>3. CASE outcome # "failed"
    <3>1. loaded' = {} /\ blame' = blame \cup Race
      BY <1>2, <2>3 DEF PutWrite
    <3> QED
      BY <2>1, <3>1, ForceWritten
  <2> QED
    BY <2>2, <2>3
<1>3. ASSUME NEW r \in Requests, LoadRead(r)
      PROVE  FInv'
  <2>1. /\ IsWhole /\ req'[r].cfg = LoadWithBase(file) /\ \A q \in Requests : q # r => req'[q] = req[q]
        /\ UNCHANGED << file, conf, loaded, blame >>
    BY <1>3, LoadReadFacts
  <2>2. LoadWithBase(file)' = LoadWithBase(file) /\ IsWhole' = IsWhole
    BY <2>1 DEF LoadWithBase, IsWhole
  <2>3. ASSUME "race" \notin blame PROVE Held'
    BY <2>1, <2>2, <2>3 DEF FInv, Held, Pending
  <2>4. ASSUME "race" \notin blame PROVE InForce'
    BY <2>1, <2>2, <2>4 DEF FInv, InForce
  <2> QED
    BY <2>1, <2>3, <2>4 DEF FInv
<1>4. ASSUME NEW r \in Requests, Install(r)
      PROVE  FInv'
  <2>1. /\ req[r].at = "install" /\ Head(req[r].todo) \in Processes /\ Loads(Head(req[r].todo), req[r].cfg)
        /\ \A q \in Requests : q # r => req'[q] = req[q]
        /\ req'[r] = Idle \/ req'[r].at = "load"
        /\ UNCHANGED << file, blame >>
    BY <1>4, InstallFacts
  <2>2. \A q \in Requests : req'[q].at = "install" => req'[q] = req[q]
    BY <2>1
  <2>3. "race" \notin blame => req[r].cfg = LoadWithBase(file)
    BY <2>1 DEF FInv, Held, Pending
  <2> QED
    BY <2>1, <2>2, <2>3, ForceLoaded
<1>5. ASSUME NEW r \in Requests, GiveUp(r)
      PROVE  FInv'
  <2>1. Goto(r, Idle) /\ UNCHANGED << file, conf, loaded, blame >>
    BY <1>5 DEF GiveUp, ghosts
  <2> QED
    BY <2>1, GotoElsewhere, ForceKept
<1>6. ASSUME NEW p \in Processes, Restart(p)
      PROVE  FInv'
  <2>1. /\ Loads(p, LoadWithBase(file)) /\ UNCHANGED << file, blame >>
        /\ \A r \in Requests : req'[r] = Idle \/ req'[r] = req[r]
    BY <1>6 DEF Restart
  <2> QED
    BY <2>1, ForceLoaded
<1>7. ASSUME NEW cmd \in Commands, NEW live, CliStart(cmd, live)
      PROVE  FInv'
  <2>1. Goto("cli", [at |-> "read", cmd |-> cmd]) /\ UNCHANGED << file, conf, loaded, blame >>
    BY <1>7 DEF CliStart
  <2> QED
    BY <2>1, GotoElsewhere, ForceKept, ToolIsRequest
<1>8. CASE CliRead
  <2> DEFINE at == IF Cmd.op = "rotate" /\ ~Cmd.force THEN "guard" ELSE "truncate"
  <2>1. /\ \A q \in Requests : q # "cli" => req'[q] = req[q]
        /\ req'["cli"].at = at /\ blame \subseteq blame' /\ UNCHANGED << file, conf, loaded >>
    BY <1>8, CliReadFacts
  <2>2. at # "install"
    OBVIOUS
  <2> HIDE DEF at
  <2> QED
    BY <2>1, <2>2, ForceKept
<1>9. CASE CliGuard
  <2>1. Tool("guard", "truncate") /\ UNCHANGED << file, conf, loaded, blame >>
    BY <1>9 DEF CliGuard, ghosts
  <2>2. req'["cli"].at = "truncate" /\ \A q \in Requests : q # "cli" => req'[q] = req[q]
    BY <2>1, ToolMoves DEF Stages
  <2> QED
    BY <2>1, <2>2, ForceKept
<1>10. CASE CliTruncate
  <2>1. Tool("truncate", "write") /\ loaded' = {} /\ blame' = blame \cup Race
    BY <1>10 DEF CliTruncate
  <2>2. req'["cli"].at = "write" /\ \A q \in Requests : q # "cli" => req'[q] = req[q]
    BY <2>1, ToolMoves DEF Stages
  <2> QED
    BY <2>1, <2>2, ForceWritten
<1>11. ASSUME NEW by \in Ids, NEW todo \in ReloadLists, CliWrite(by, todo)
      PROVE  FInv'
  <2> DEFINE s == IF todo = << >> THEN Idle ELSE [at |-> "load", cmd |-> Cmd, by |-> by, todo |-> todo]
  <2>1. Goto("cli", s) /\ loaded' = {} /\ blame' = blame \cup Race
    BY <1>11 DEF CliWrite
  <2>2. s.at # "install"
    OBVIOUS
  <2> HIDE DEF s
  <2> QED
    BY <2>1, <2>2, GotoElsewhere, ForceWritten, ToolIsRequest
<1>12. CASE Tick
  BY <1>12, ForceKept DEF Tick, ghosts
<1>13. CASE UNCHANGED vars
  BY <1>13, ForceKept DEF vars, ghosts
<1> QED
  BY <1>1, <1>2, <1>3, <1>4, <1>5, <1>6, <1>7, <1>8, <1>9, <1>10, <1>11, <1>12, <1>13 DEF Next

(* A process that has loaded the file since the last write has it in force,*)
(* unless the file was written between a load's reading and installing it: *)
(* whatever PUTs, commands, failed loads and restarts came in between.     *)
THEOREM LoadedIsForce == Spec => []LoadedIsInForce
<1>1. Init => FInv
  BY IdleIsNotPending DEF Init, FInv, Held, InForce, Pending, Processes
<1>2. FInv => LoadedIsInForce
  BY DEF FInv, InForce, LoadedIsInForce
<1> QED
  BY <1>1, <1>2, InitTypes, NextTypes, NextForce, PTL DEF Spec

-----------------------------------------------------------------------------
(* Keys once more: what the three codings say.                             *)

\* The two codings of a key's state are one.
LEMMA StatusesAgree ==
  ASSUME NEW k \in Key, NEW now \in Int
  PROVE  /\ managementKeyStatus(k, now) = localKeyStatus(k, now)
         /\ managementKeyStatus(k, now) = "active" <=> managementKeyActive(k, now)
         /\ managementKeyStatus(k, now) \in {"active", "not_yet_active", "expired", "revoked"}
<1>1. k.from \in Int /\ k.until \in Int /\ k.revoked \in Int
  BY DEF Key
<1> QED
  BY <1>1 DEF managementKeyStatus, localKeyStatus, managementKeyActive

\* A successor that serves after the key is not revoked: so the guard of the tool, which
\* asks for a successor that will serve, lets no rotation through that the other stops.
LEMMA GuardsAgree ==
  ASSUME NEW keys \in KeySets, NEW id \in IdsOf(keys), clock \in Int,
         guardLiveRotation(keys, id, FALSE)
  PROVE  guardLocalRotation(keys, id)
<1>1. PICK k \in keys : /\ k.id = id /\ managementKeyStatus(k, clock) \notin {"revoked", "expired"}
                        /\ ~hasOverlappingSuccessor(keys, k, clock)
  BY DEF guardLiveRotation
<1>2. keys \subseteq Key /\ Candidates(keys, k, clock) \subseteq keys
  BY DEF KeySets, Candidates
<1>3. \A s \in Candidates(keys, k, clock) : localKeyStatus(s, clock) \notin {"active", "not_yet_active"}
  BY <1>1, <1>2, StatusesAgree DEF hasOverlappingSuccessor
<1>4. ~localHasOverlappingSuccessor(keys, k, clock)
  BY <1>3 DEF localHasOverlappingSuccessor
<1>5. localKeyStatus(k, clock) \notin {"revoked", "expired"}
  BY <1>1, <1>2, StatusesAgree
<1> QED
  BY <1>1, <1>4, <1>5 DEF guardLocalRotation

(* The three codings of a key's state agree in every state: the status     *)
(* endpoint calls a key active when it opens the process, and what the     *)
(* guard at that endpoint lets through, the tool's own guard does too.     *)
THEOREM RulesCorrect == Spec => []RulesAgree
<1>1. ASSUME TInv PROVE RulesAgree
  <2> SUFFICES ASSUME NEW p \in Processes, NEW k \in conf[p].keys
               PROVE  /\ managementKeyStatus(k, clock) = "active" <=>
                           \E scope \in k.scopes : PrincipalFromRequest(p, k.id, scope)
                      /\ guardLiveRotation(conf[p].keys, k.id, FALSE) =>
                           guardLocalRotation(conf[p].keys, k.id)
    BY DEF RulesAgree
  <2>1. conf[p].keys \in KeySets /\ clock \in Int
    BY <1>1, ControlPlaneAssumption DEF TInv, Confs
  <2>2. k \in Key /\ \A l \in conf[p].keys : l.id = k.id => l = k
    BY <2>1 DEF KeySets
  <2>3. k.scopes # {}
    BY <2>2, ControlPlaneAssumption DEF Key
  <2>4. managementKeyStatus(k, clock) = "active" <=>
          \E scope \in k.scopes : PrincipalFromRequest(p, k.id, scope)
    BY <2>1, <2>2, <2>3, StatusesAgree DEF PrincipalFromRequest, HasScope
  <2>5. k.id \in IdsOf(conf[p].keys)
    BY DEF IdsOf
  <2> QED
    BY <2>1, <2>4, <2>5, GuardsAgree
<1> QED
  BY <1>1, InitTypes, NextTypes, PTL DEF Spec

-----------------------------------------------------------------------------
(* Kept: unless two writers met, the file, and what each writer has read   *)
(* of it, carry everything that was written before.                        *)
NewOf(cmd)  == IF "new" \in DOMAIN cmd THEN {cmd.new} ELSE {}
ShutBy(cmd) == IF cmd.op = "revoke" THEN {cmd.id} ELSE {}
TwinOf(cmd) == IF cmd.op = "rotate" THEN {<< cmd.id, cmd.new >>} ELSE {}

\* Keys and their successors.
Twins == {<< t[2], t[3] >> : t \in pairs}
           \cup (IF req["cli"].at \in {"load", "install"} THEN TwinOf(Cmd) ELSE {})

Carry(keys, iss, rev, twins, now) ==
  /\ iss \cup rev \subseteq IdsOf(keys)
  /\ \A k \in keys : IF k.id \in rev THEN k.revoked <= now ELSE k.revoked = Never
  /\ \A t \in twins : /\ {t[1], t[2]} \subseteq IdsOf(keys)
                      /\ \A k \in keys, l \in keys : (k.id = t[1] /\ l.id = t[2]) => k.scopes = l.scopes

FileKept == file.edit = saved /\ Carry(file.keys, issued, revoked, Twins, clock)
PutsKept ==
  \A r \in PutsHaveRead : /\ ~CliHasRead /\ PutsHaveRead = {r}
                          /\ Carry(req[r].keys, issued, revoked, Twins, clock)
InTime   == (req["cli"].at = "read" /\ Cmd.op = "revoke") => Cmd.at <= clock
ToolKept ==
  /\ req["cli"].at = "write" => file.at = "torn"
  /\ CliHasRead => /\ req["cli"].doc.edit = saved
                   /\ Carry(req["cli"].doc.keys, issued \cup NewOf(Cmd), revoked \cup ShutBy(Cmd),
                            Twins \cup TwinOf(Cmd), clock)
KInv == "overlap" \notin blame => FileKept /\ PutsKept /\ InTime /\ ToolKept

LEMMA CarryLess ==
  ASSUME NEW keys \in KeySets, NEW iss, NEW rev, NEW twins, NEW now \in Int,
         NEW iss2, NEW twins2, NEW now2 \in Int,
         Carry(keys, iss, rev, twins, now), iss2 \subseteq iss, twins2 \subseteq twins, now <= now2
  PROVE  Carry(keys, iss2, rev, twins2, now2)
<1>1. iss2 \cup rev \subseteq IdsOf(keys)
  BY DEF Carry
<1>2. ASSUME NEW k \in keys
      PROVE  IF k.id \in rev THEN k.revoked <= now2 ELSE k.revoked = Never
  <2>1. IF k.id \in rev THEN k.revoked <= now ELSE k.revoked = Never
    BY DEF Carry
  <2>2. k.revoked \in Int
    BY DEF KeySets, Key
  <2> QED
    BY <2>1, <2>2
<1>3. ASSUME NEW t \in twins2
      PROVE  /\ {t[1], t[2]} \subseteq IdsOf(keys)
             /\ \A k \in keys, l \in keys : (k.id = t[1] /\ l.id = t[2]) => k.scopes = l.scopes
  BY DEF Carry
<1> QED
  BY <1>1, <1>2, <1>3 DEF Carry

\* A key more, whose id was free.
LEMMA CarryOneMore ==
  ASSUME NEW keys \in KeySets, NEW iss, NEW rev, NEW twins, NEW now \in Int,
         NEW new \in Key, new.id \notin IdsOf(keys), new.revoked = Never,
         Carry(keys, iss, rev, twins, now)
  PROVE  Carry(keys \cup {new}, iss \cup {new.id}, rev, twins, now)
<1>1. IdsOf(keys \cup {new}) = IdsOf(keys) \cup {new.id}
  BY DEF IdsOf
<1>2. rev \subseteq IdsOf(keys) /\ iss \subseteq IdsOf(keys)
  BY DEF Carry
<1>3. ASSUME NEW k \in keys \cup {new}
      PROVE  IF k.id \in rev THEN k.revoked <= now ELSE k.revoked = Never
  BY <1>2 DEF Carry
<1>4. ASSUME NEW t \in twins
      PROVE  /\ {t[1], t[2]} \subseteq IdsOf(keys \cup {new})
             /\ \A k \in keys \cup {new}, l \in keys \cup {new} :
                  (k.id = t[1] /\ l.id = t[2]) => k.scopes = l.scopes
  <2>1. {t[1], t[2]} \subseteq IdsOf(keys)
    BY DEF Carry
  <2>2. \A k \in keys, l \in keys : (k.id = t[1] /\ l.id = t[2]) => k.scopes = l.scopes
    BY DEF Carry
  <2>3. new.id # t[1] /\ new.id # t[2]
    BY <2>1
  <2> QED
    BY <1>1, <2>1, <2>2, <2>3
<1> QED
  BY <1>1, <1>2, <1>3, <1>4 DEF Carry

\* What a command makes of the keys carries what they carried, and its own work.
LEMMA CarryApplied ==
  ASSUME NEW cmd \in Cmds, NEW keys \in KeySets, NEW iss, NEW rev, NEW twins, NEW now \in Int,
         "id" \in DOMAIN cmd => cmd.id \in IdsOf(keys),
         "new" \in DOMAIN cmd => cmd.new \notin IdsOf(keys),
         cmd.op = "revoke" => cmd.at <= now,
         Carry(keys, iss, rev, twins, now)
  PROVE  Carry(Applied(cmd, keys), iss \cup NewOf(cmd), rev \cup ShutBy(cmd), twins \cup TwinOf(cmd), now)
<1>1. CASE cmd.op = "generate"
  <2> DEFINE new == [id |-> cmd.new, scopes |-> cmd.scopes, from |-> 0, until |-> Never, revoked |-> Never]
  <2>1. cmd \in Generates /\ cmd.new \notin IdsOf(keys) /\ NewOf(cmd) = {cmd.new}
    BY <1>1, CmdFacts DEF NewOf
  <2>2. new \in Key /\ new.id = cmd.new /\ new.revoked = Never
    BY <2>1, NeverIsLate DEF Generates, KeyScopes, Key, Ids
  <2>3. Applied(cmd, keys) = keys \cup {new} /\ ShutBy(cmd) = {} /\ TwinOf(cmd) = {}
    BY <1>1 DEF Applied, ShutBy, TwinOf
  <2> HIDE DEF new
  <2>4. Carry(keys \cup {new}, iss \cup {new.id}, rev, twins, now)
    BY <2>1, <2>2, CarryOneMore
  <2> QED
    BY <2>1, <2>2, <2>3, <2>4
<1>2. CASE cmd.op = "rotate"
  <2> DEFINE old == KeyOf(keys, cmd.id)
             new == rotatedSuccessor(old, cmd.new, cmd.from)
  <2>1. /\ cmd \in Rotates /\ cmd.new \notin IdsOf(keys) /\ cmd.id \in IdsOf(keys)
        /\ NewOf(cmd) = {cmd.new}
    BY <1>2, CmdFacts DEF NewOf
  <2>2. old \in keys /\ old.id = cmd.id
    BY <2>1, KeyOfFacts
  <2>3. old \in Key /\ \A k \in keys : k.id = cmd.id => k = old
    BY <2>2 DEF KeySets
  <2>4. Applied(cmd, keys) = keys \cup {new} /\ ShutBy(cmd) = {} /\ TwinOf(cmd) = {<< cmd.id, cmd.new >>}
    BY <1>2 DEF Applied, ShutBy, TwinOf
  <2> HIDE DEF old
  <2>5. new \in Key /\ new.id = cmd.new /\ new.revoked = Never /\ new.scopes = old.scopes
    BY <2>1, <2>3, NeverIsLate DEF Rotates, Key, Ids, rotatedSuccessor
  <2> HIDE DEF new
  <2>6. Carry(keys \cup {new}, iss \cup {new.id}, rev, twins, now)
    BY <2>1, <2>5, CarryOneMore
  <2>7. \A k \in keys \cup {new}, l \in keys \cup {new} :
          (k.id = cmd.id /\ l.id = cmd.new) => k.scopes = l.scopes
    <3> SUFFICES ASSUME NEW k \in keys \cup {new}, NEW l \in keys \cup {new}, k.id = cmd.id, l.id = cmd.new
                 PROVE  k.scopes = l.scopes
      OBVIOUS
    <3>1. l = new
      BY <2>1 DEF IdsOf
    <3>2. k = old
      BY <2>1, <2>3, <2>5
    <3> QED
      BY <2>5, <3>1, <3>2
  <2>8. {cmd.id, cmd.new} \subseteq IdsOf(keys \cup {new})
    BY <2>2, <2>5 DEF IdsOf
  <2>9. Carry(keys \cup {new}, iss \cup {new.id}, rev, twins \cup {<< cmd.id, cmd.new >>}, now)
    <3> DEFINE more == keys \cup {new}
    <3>1. /\ iss \cup {new.id} \cup rev \subseteq IdsOf(more)
          /\ \A k \in more : IF k.id \in rev THEN k.revoked <= now ELSE k.revoked = Never
          /\ \A t \in twins : /\ {t[1], t[2]} \subseteq IdsOf(more)
                              /\ \A k \in more, l \in more : (k.id = t[1] /\ l.id = t[2]) => k.scopes = l.scopes
      BY <2>6 DEF Carry
    <3>2. /\ {cmd.id, cmd.new} \subseteq IdsOf(more)
          /\ \A k \in more, l \in more : (k.id = cmd.id /\ l.id = cmd.new) => k.scopes = l.scopes
      BY <2>7, <2>8
    <3> HIDE DEF more
    <3>3. ASSUME NEW t \in twins \cup {<< cmd.id, cmd.new >>}
          PROVE  /\ {t[1], t[2]} \subseteq IdsOf(more)
                 /\ \A k \in more, l \in more : (k.id = t[1] /\ l.id = t[2]) => k.scopes = l.scopes
      <4>1. CASE t \in twins
        BY <3>1, <4>1
      <4>2. CASE t = << cmd.id, cmd.new >>
        <5>1. t[1] = cmd.id /\ t[2] = cmd.new
          BY <4>2
        <5> QED
          BY <3>2, <5>1
      <4> QED
        BY <4>1, <4>2
    <3>4. Carry(more, iss \cup {new.id}, rev, twins \cup {<< cmd.id, cmd.new >>}, now)
      BY <3>1, <3>3 DEF Carry
    <3> QED
      BY <3>4 DEF more
  <2> QED
    BY <2>1, <2>4, <2>5, <2>9
<1>3. CASE cmd.op = "revoke"
  <2> DEFINE Shut(k) == IF k.id = cmd.id THEN [k EXCEPT !.revoked = cmd.at] ELSE k
             shut == {Shut(k) : k \in keys}
  <2>1. cmd \in Revokes /\ cmd.id \in IdsOf(keys) /\ NewOf(cmd) = {} /\ cmd.at <= now
    BY <1>3, CmdFacts DEF NewOf
  <2>2. Applied(cmd, keys) = shut /\ ShutBy(cmd) = {cmd.id} /\ TwinOf(cmd) = {}
    BY <1>3 DEF Applied, ShutBy, TwinOf
  <2>3. \A k \in keys : /\ Shut(k).id = k.id /\ Shut(k).scopes = k.scopes
                        /\ Shut(k).revoked = IF k.id = cmd.id THEN cmd.at ELSE k.revoked
    BY DEF KeySets, Key
  <2> HIDE DEF Shut
  <2>4. IdsOf(shut) = IdsOf(keys)
    BY <2>3 DEF IdsOf
  <2>5. \A k \in shut : IF k.id \in rev \cup {cmd.id} THEN k.revoked <= now ELSE k.revoked = Never
    BY <2>1, <2>3 DEF Carry
  <2>6. ASSUME NEW t \in twins
        PROVE  /\ {t[1], t[2]} \subseteq IdsOf(shut)
               /\ \A k \in shut, l \in shut : (k.id = t[1] /\ l.id = t[2]) => k.scopes = l.scopes
    <3>1. {t[1], t[2]} \subseteq IdsOf(keys)
      BY DEF Carry
    <3>2. \A k \in keys, l \in keys : (k.id = t[1] /\ l.id = t[2]) => k.scopes = l.scopes
      BY DEF Carry
    <3> QED
      BY <2>3, <2>4, <3>1, <3>2
  <2>7. iss \cup rev \cup {cmd.id} \subseteq IdsOf(shut)
    BY <2>1, <2>4 DEF Carry
  <2> HIDE DEF shut
  <2> QED
    BY <2>1, <2>2, <2>5, <2>6, <2>7 DEF Carry
<1> QED
  BY <1>1, <1>2, <1>3, CmdFacts

\* What the tool's request is about.
LEMMA ToolTyped ==
  ASSUME TInv
  PROVE  /\ req["cli"].at # "idle" => Cmd \in Cmds
         /\ CliHasRead => /\ req["cli"].doc \in Files /\ req["cli"].doc.at = "whole"
                          /\ req["cli"].doc.keys \in KeySets
         /\ file.keys \in KeySets /\ clock \in Int
         /\ \A r \in PutsHaveRead : r \in Requests /\ req[r].edit \in Edits /\ req[r].keys \in KeySets
<1>1. StateOK("cli", req["cli"])
  BY ToolIsRequest DEF TInv
<1>2. ASSUME NEW r \in PutsHaveRead PROVE r \in Requests /\ req[r].edit \in Edits /\ req[r].keys \in KeySets
  BY PutIsNotTool DEF TInv, PutsHaveRead, StateOK
<1>3. req["cli"].at # "idle" => Cmd \in Cmds
  BY <1>1 DEF StateOK, Cmd
<1>4. CliHasRead => req["cli"].doc \in Files /\ req["cli"].doc.at = "whole"
  BY <1>1 DEF StateOK, CliHasRead
<1>5. clock \in Int
  BY ControlPlaneAssumption DEF TInv
<1> QED
  BY <1>2, <1>3, <1>4, <1>5 DEF Files, TInv

LEMMA TwinsShrink ==
  ASSUME pairs' = pairs,
         req'["cli"].at \in {"load", "install"} =>
           req["cli"].at \in {"load", "install"} /\ req'["cli"].cmd = req["cli"].cmd
  PROVE  Twins' \subseteq Twins
<1>1. CASE req'["cli"].at \in {"load", "install"}
  <2>1. Cmd' = Cmd
    BY <1>1 DEF Cmd
  <2>2. TwinOf(Cmd') = TwinOf(Cmd)
    BY <2>1
  <2> QED
    BY <1>1, <2>2 DEF Twins
<1>2. CASE req'["cli"].at \notin {"load", "install"}
  BY <1>2 DEF Twins
<1> QED
  BY <1>1, <1>2

\* A step that neither reads the file for a writer nor writes it.
LEMMA Quiet ==
  ASSUME TInv, TInv', KInv, blame \subseteq blame',
         file'.edit = file.edit, file'.keys = file.keys, UNCHANGED << saved, issued, revoked >>,
         clock <= clock', Twins' \subseteq Twins,
         \A r \in Puts : req'[r].at = "write" => req'[r] = req[r],
         CliHasRead' => /\ CliHasRead
                        /\ req'["cli"].cmd = req["cli"].cmd /\ req'["cli"].doc = req["cli"].doc,
         InTime => InTime',
         "overlap" \notin blame => (req'["cli"].at = "write" => file'.at = "torn")
  PROVE  KInv'
<1> SUFFICES ASSUME "overlap" \notin blame' PROVE (FileKept /\ PutsKept /\ InTime /\ ToolKept)'
  BY DEF KInv
<1>1. FileKept /\ PutsKept /\ InTime /\ ToolKept
  BY DEF KInv
<1>2. clock \in Int /\ clock' \in Int
  BY ControlPlaneAssumption DEF TInv
<1>3. FileKept'
  <2>1. Carry(file.keys, issued, revoked, Twins', clock')
    BY <1>1, <1>2, ToolTyped, CarryLess DEF FileKept
  <2> QED
    BY <1>1, <2>1 DEF FileKept
<1>4. PutsKept'
  <2>1. PutsHaveRead' \subseteq PutsHaveRead /\ \A r \in PutsHaveRead' : req'[r] = req[r]
    BY DEF PutsHaveRead
  <2>2. ASSUME NEW r \in PutsHaveRead'
        PROVE  ~CliHasRead' /\ PutsHaveRead' = {r} /\ Carry(req'[r].keys, issued', revoked', Twins', clock')
    <3>1. r \in PutsHaveRead /\ req'[r] = req[r]
      BY <2>1
    <3>2. ~CliHasRead /\ PutsHaveRead = {r} /\ Carry(req[r].keys, issued, revoked, Twins, clock)
      BY <1>1, <3>1 DEF PutsKept
    <3>3. req[r].keys \in KeySets
      BY <3>1, ToolTyped
    <3>4. Carry(req[r].keys, issued, revoked, Twins', clock')
      BY <1>2, <3>2, <3>3, CarryLess
    <3> QED
      BY <2>1, <3>1, <3>2, <3>4
  <2> QED
    BY <2>2 DEF PutsKept
<1>5. ToolKept'
  <2>1. ASSUME CliHasRead'
        PROVE  /\ req'["cli"].doc.edit = saved'
               /\ Carry(req'["cli"].doc.keys, issued' \cup NewOf(Cmd'), revoked' \cup ShutBy(Cmd'),
                        Twins' \cup TwinOf(Cmd'), clock')
    <3>1. CliHasRead /\ Cmd' = Cmd /\ req'["cli"].doc = req["cli"].doc
      BY <2>1 DEF Cmd
    <3>2. /\ req["cli"].doc.edit = saved
          /\ Carry(req["cli"].doc.keys, issued \cup NewOf(Cmd), revoked \cup ShutBy(Cmd),
                   Twins \cup TwinOf(Cmd), clock)
      BY <1>1, <3>1 DEF ToolKept
    <3>3. req["cli"].doc.keys \in KeySets
      BY <3>1, ToolTyped
    <3>4. Twins' \cup TwinOf(Cmd) \subseteq Twins \cup TwinOf(Cmd)
      OBVIOUS
    <3>5. Carry(req["cli"].doc.keys, issued \cup NewOf(Cmd), revoked \cup ShutBy(Cmd),
                Twins' \cup TwinOf(Cmd), clock')
      BY <1>2, <3>2, <3>3, <3>4, CarryLess
    <3> QED
      BY <3>1, <3>2, <3>5
  <2> QED
    BY <2>1 DEF ToolKept, KInv
<1> QED
  BY <1>1, <1>3, <1>4, <1>5

LEMMA PutReadKept ==
  ASSUME TInv, KInv, NEW r \in Puts, NEW edit \in Edits, NEW id \in Ids, PutRead(r, edit, id)
  PROVE  KInv'
<1> SUFFICES ASSUME "overlap" \notin blame' PROVE (FileKept /\ PutsKept /\ InTime /\ ToolKept)'
  BY DEF KInv
<1> DEFINE s == [at |-> "write", edit |-> edit, by |-> id, keys |-> file.keys]
<1>1. /\ req' = [req EXCEPT ![r] = s]
      /\ blame' = blame \cup Overlap(CliHasRead \/ PutsHaveRead # {})
      /\ UNCHANGED << file, clock, saved, issued, revoked, pairs >>
  BY DEF PutRead, Goto
<1>2. ~CliHasRead /\ PutsHaveRead = {} /\ "overlap" \notin blame
  BY <1>1 DEF Overlap
<1>3. FileKept /\ PutsKept /\ InTime /\ ToolKept
  BY <1>2 DEF KInv
<1>4. s.at = "write" /\ s.keys = file.keys
  OBVIOUS
<1> HIDE DEF s
<1>5. req'[r] = s /\ (\A q \in Requests : q # r => req'[q] = req[q]) /\ req'["cli"] = req["cli"]
  BY <1>1, PutIsNotTool, ToolIsRequest DEF TInv
<1>6. Cmd' = Cmd /\ CliHasRead' = CliHasRead /\ Twins' = Twins
  BY <1>1, <1>5 DEF Cmd, CliHasRead, Twins
<1>7. FileKept'
  BY <1>1, <1>3, <1>6 DEF FileKept
<1>8. PutsHaveRead' = {r}
  <2>1. ASSUME NEW q \in Puts PROVE req'[q].at = "write" <=> q = r
    BY <1>2, <1>4, <1>5, PutIsNotTool DEF PutsHaveRead
  <2> QED
    BY <2>1 DEF PutsHaveRead
<1>9. PutsKept'
  BY <1>1, <1>2, <1>3, <1>4, <1>5, <1>6, <1>8 DEF PutsKept, FileKept
<1>10. InTime' /\ ToolKept'
  BY <1>1, <1>2, <1>3, <1>5, <1>6 DEF InTime, ToolKept
<1> QED
  BY <1>7, <1>9, <1>10

LEMMA PutWriteKept ==
  ASSUME TInv, TInv', KInv, NEW r \in Puts, NEW outcome \in {"written", "failed", "gone"}, PutWrite(r, outcome)
  PROVE  KInv'
<1> DEFINE s == [at |-> "load", by |-> req[r].by, todo |-> << "admin", "runtime" >>]
<1>1. /\ req[r].at = "write" /\ UNCHANGED << clock, issued, revoked, pairs >> /\ blame \subseteq blame'
      /\ Race \subseteq {"race"} /\ (blame' = blame \/ blame' = blame \cup Race)
      /\ req' = [req EXCEPT ![r] = s] \/ req' = [req EXCEPT ![r] = Idle]
  BY DEF PutWrite, Goto, Race
<1>2. s.at = "load"
  OBVIOUS
<1> HIDE DEF s
<1>3. /\ req'[r].at # "write" /\ (\A q \in Requests : q # r => req'[q] = req[q]) /\ req'["cli"] = req["cli"]
  BY <1>1, <1>2, IdleIsNotPending, PutIsNotTool, ToolIsRequest DEF TInv
<1>4. Cmd' = Cmd /\ CliHasRead' = CliHasRead /\ Twins' = Twins /\ InTime' = InTime
  BY <1>1, <1>3 DEF Cmd, CliHasRead, Twins, InTime
<1>5. \A q \in Puts : req'[q].at = "write" => req'[q] = req[q]
  BY <1>3, PutIsNotTool
<1>6. r \in PutsHaveRead
  BY <1>1 DEF PutsHaveRead
<1>7. "overlap" \notin blame => ~CliHasRead /\ PutsHaveRead = {r} /\ Carry(req[r].keys, issued, revoked, Twins, clock)
  BY <1>6 DEF KInv, PutsKept
<1>8. "overlap" \notin blame => (req'["cli"].at = "write" => file'.at = "torn")
  BY <1>3, <1>7 DEF CliHasRead
<1>9. clock <= clock' /\ Twins' \subseteq Twins /\ (InTime => InTime') /\ blame \subseteq blame'
  BY <1>1, <1>4, ToolTyped
<1>10. CliHasRead' => CliHasRead /\ req'["cli"].cmd = req["cli"].cmd /\ req'["cli"].doc = req["cli"].doc
  BY <1>3, <1>4
<1>11. CASE outcome = "failed"
  <2>1. UNCHANGED << file, saved >>
    BY <1>11 DEF PutWrite
  <2> QED
    BY <1>1, <1>5, <1>8, <1>9, <1>10, <2>1, Quiet
<1>12. CASE outcome = "gone"
  <2>1. file' = [file EXCEPT !.at = "gone"] /\ UNCHANGED saved
    BY <1>12 DEF PutWrite
  <2>2. file'.edit = file.edit /\ file'.keys = file.keys
    BY <2>1, FileUpdates DEF TInv
  <2> QED
    BY <1>1, <1>5, <1>8, <1>9, <1>10, <2>1, <2>2, Quiet
<1>13. CASE outcome = "written"
  <2> SUFFICES ASSUME "overlap" \notin blame' PROVE (FileKept /\ PutsKept /\ InTime /\ ToolKept)'
    BY DEF KInv
  <2>1. file'.edit = req[r].edit /\ file'.keys = req[r].keys /\ saved' = req[r].edit
    BY <1>13 DEF PutWrite, SaveEditableFile
  <2>2. "overlap" \notin blame
    BY <1>1
  <2>3. FileKept'
    BY <1>1, <1>4, <1>7, <2>1, <2>2 DEF FileKept
  <2>4. PutsHaveRead' = {}
    <3>1. ASSUME NEW q \in Puts PROVE req'[q].at # "write"
      BY <1>3, <1>7, <2>2, PutIsNotTool DEF PutsHaveRead
    <3> QED
      BY <3>1 DEF PutsHaveRead
  <2>5. PutsKept'
    BY <2>4 DEF PutsKept
  <2>6. InTime'
    BY <1>4, <2>2 DEF KInv
  <2>7. ToolKept'
    BY <1>4, <1>7, <1>8, <2>2 DEF ToolKept
  <2> QED
    BY <2>3, <2>5, <2>6, <2>7
<1> QED
  BY <1>11, <1>12, <1>13

\* A step of a request other than the tool's, which reads and writes nothing.
LEMMA OthersKept ==
  ASSUME TInv, TInv', KInv, blame' = blame, UNCHANGED << file, saved, issued, revoked >>,
         clock <= clock', Twins' \subseteq Twins,
         \A r \in Puts : req'[r].at = "write" => req'[r] = req[r],
         req'["cli"].at \in {"guard", "truncate", "write", "read"} => req'["cli"] = req["cli"]
  PROVE  KInv'
<1>1. ASSUME CliHasRead'
      PROVE  CliHasRead /\ req'["cli"].cmd = req["cli"].cmd /\ req'["cli"].doc = req["cli"].doc
  BY <1>1 DEF CliHasRead
<1>2. clock \in Int /\ clock' \in Int
  BY ControlPlaneAssumption DEF TInv
<1>3. ASSUME InTime, req'["cli"].at = "read", Cmd'.op = "revoke"
      PROVE  Cmd'.at <= clock'
  <2>1. req["cli"].at = "read" /\ Cmd' = Cmd
    BY <1>3 DEF Cmd
  <2>2. Cmd \in Cmds
    BY <2>1, ToolTyped
  <2>3. Cmd \in Revokes
    BY <1>3, <2>1, <2>2, CmdFacts
  <2>4. Cmd.at \in Int
    BY <2>3, ControlPlaneAssumption DEF Revokes
  <2> QED
    BY <1>2, <1>3, <2>1, <2>4 DEF InTime
<1>4. InTime => InTime'
  BY <1>3 DEF InTime
<1>5. "overlap" \notin blame => (req'["cli"].at = "write" => file'.at = "torn")
  BY DEF KInv, ToolKept
<1> QED
  BY <1>1, <1>4, <1>5, Quiet

LEMMA LoadReadKept ==
  ASSUME TInv, TInv', KInv, NEW r \in Requests, LoadRead(r)
  PROVE  KInv'
<1>1. /\ req[r].at = "load" /\ req'[r].at = "install" /\ \A q \in Requests : q # r => req'[q] = req[q]
      /\ r = "cli" => req'[r].cmd = req[r].cmd
      /\ UNCHANGED << file, clock, saved, issued, revoked, pairs, blame >>
  BY LoadReadFacts
<1>2. Twins' \subseteq Twins
  BY <1>1, TwinsShrink, ToolIsRequest
<1>3. \A q \in Puts : req'[q].at = "write" => req'[q] = req[q]
  BY <1>1, PutIsNotTool
<1>4. req'["cli"].at \in {"guard", "truncate", "write", "read"} => req'["cli"] = req["cli"]
  BY <1>1, ToolIsRequest
<1>5. clock <= clock'
  BY <1>1, ToolTyped
<1> QED
  BY <1>1, <1>2, <1>3, <1>4, <1>5, OthersKept

LEMMA InstallKept ==
  ASSUME TInv, TInv', KInv, NEW r \in Requests, Install(r)
  PROVE  KInv'
<1>1. /\ req[r].at = "install" /\ \A q \in Requests : q # r => req'[q] = req[q]
      /\ pairs' = IF r = "cli" /\ req[r].cmd.op = "rotate"
                  THEN pairs \cup {<< Head(req[r].todo), req[r].cmd.id, req[r].cmd.new >>} ELSE pairs
      /\ \/ req'[r] = Idle
         \/ req'[r].at = "load" /\ (r = "cli" => req'[r].cmd = req[r].cmd)
      /\ UNCHANGED << file, clock, saved, issued, revoked, blame >>
  BY InstallFacts
<1>2. Twins' \subseteq Twins
  <2>1. CASE r = "cli" /\ Cmd.op = "rotate"
    <3> DEFINE new == << Head(req[r].todo), Cmd.id, Cmd.new >>
    <3>1. pairs' = pairs \cup {new} /\ new[2] = Cmd.id /\ new[3] = Cmd.new
      BY <1>1, <2>1 DEF Cmd
    <3> HIDE DEF new
    <3>2. {<< t[2], t[3] >> : t \in pairs'} \subseteq {<< t[2], t[3] >> : t \in pairs} \cup TwinOf(Cmd)
      BY <2>1, <3>1 DEF TwinOf
    <3>3. Twins = {<< t[2], t[3] >> : t \in pairs} \cup TwinOf(Cmd)
      BY <1>1, <2>1 DEF Twins
    <3>4. req'["cli"].at = "load" => Cmd' = Cmd
      BY <1>1, <2>1, IdleIsNotPending DEF Cmd
    <3>5. req'["cli"].at = "load" => TwinOf(Cmd') = TwinOf(Cmd)
      BY <3>4
    <3>6. req'["cli"].at \in {"idle", "load"}
      BY <1>1, <2>1, IdleIsNotPending
    <3> QED
      BY <3>2, <3>3, <3>5, <3>6 DEF Twins
  <2>2. CASE ~(r = "cli" /\ Cmd.op = "rotate")
    <3>1. pairs' = pairs
      BY <1>1, <2>2 DEF Cmd
    <3>2. req'["cli"].at \in {"load", "install"} =>
            req["cli"].at \in {"load", "install"} /\ req'["cli"].cmd = req["cli"].cmd
      BY <1>1, IdleIsNotPending, ToolIsRequest
    <3> QED
      BY <3>1, <3>2, TwinsShrink
  <2> QED
    BY <2>1, <2>2
<1>3. \A q \in Puts : req'[q].at = "write" => req'[q] = req[q]
  BY <1>1, IdleIsNotPending, PutIsNotTool
<1>4. req'["cli"].at \in {"guard", "truncate", "write", "read"} => req'["cli"] = req["cli"]
  BY <1>1, IdleIsNotPending, ToolIsRequest
<1>5. clock <= clock'
  BY <1>1, ToolTyped
<1> QED
  BY <1>1, <1>2, <1>3, <1>4, <1>5, OthersKept

LEMMA GiveUpKept ==
  ASSUME TInv, TInv', KInv, NEW r \in Requests, GiveUp(r)
  PROVE  KInv'
<1>1. /\ req' = [req EXCEPT ![r] = Idle]
      /\ UNCHANGED << file, clock, saved, issued, revoked, pairs, blame >>
  BY DEF GiveUp, Goto, ghosts
<1>2. req'[r] = Idle /\ \A q \in Requests : q # r => req'[q] = req[q]
  BY <1>1 DEF TInv
<1>3. Twins' \subseteq Twins
  BY <1>1, <1>2, IdleIsNotPending, TwinsShrink, ToolIsRequest
<1>4. \A q \in Puts : req'[q].at = "write" => req'[q] = req[q]
  BY <1>2, IdleIsNotPending, PutIsNotTool
<1>5. req'["cli"].at \in {"guard", "truncate", "write", "read"} => req'["cli"] = req["cli"]
  BY <1>2, IdleIsNotPending, ToolIsRequest
<1>6. clock <= clock'
  BY <1>1, ToolTyped
<1> QED
  BY <1>1, <1>3, <1>4, <1>5, <1>6, OthersKept

LEMMA RestartKept ==
  ASSUME TInv, TInv', KInv, NEW p \in Processes, Restart(p)
  PROVE  KInv'
<1>1. /\ \A q \in Requests : req'[q] = Idle \/ req'[q] = req[q]
      /\ UNCHANGED << file, clock, saved, issued, revoked, pairs, blame >>
  BY DEF Restart
<1>2. Twins' \subseteq Twins
  BY <1>1, IdleIsNotPending, TwinsShrink, ToolIsRequest
<1>3. \A q \in Puts : req'[q].at = "write" => req'[q] = req[q]
  BY <1>1, IdleIsNotPending, PutIsNotTool
<1>4. req'["cli"].at \in {"guard", "truncate", "write", "read"} => req'["cli"] = req["cli"]
  BY <1>1, IdleIsNotPending, ToolIsRequest
<1>5. clock <= clock'
  BY <1>1, ToolTyped
<1> QED
  BY <1>1, <1>2, <1>3, <1>4, <1>5, OthersKept

LEMMA TickKept ==
  ASSUME TInv, TInv', KInv, Tick \/ UNCHANGED vars
  PROVE  KInv'
<1>1. UNCHANGED << file, req, saved, issued, revoked, pairs, blame >>
  BY DEF Tick, vars, ghosts
<1>2. Twins' \subseteq Twins
  BY <1>1, TwinsShrink
<1>3. clock <= clock'
  BY ToolTyped DEF Tick, vars
<1> QED
  BY <1>1, <1>2, <1>3, OthersKept

LEMMA CliStartKept ==
  ASSUME TInv, TInv', KInv, NEW cmd \in Commands, NEW live, CliStart(cmd, live)
  PROVE  KInv'
<1> DEFINE s == [at |-> "read", cmd |-> cmd]
<1>1. /\ req["cli"] = Idle /\ req' = [req EXCEPT !["cli"] = s]
      /\ UNCHANGED << file, clock, saved, issued, revoked, pairs, blame >>
  BY DEF CliStart, Goto
<1>2. s.at = "read" /\ s.cmd = cmd
  OBVIOUS
<1> HIDE DEF s
<1>3. req'["cli"] = s /\ \A q \in Requests : q # "cli" => req'[q] = req[q]
  BY <1>1, ToolIsRequest DEF TInv
<1>4. Twins' \subseteq Twins
  BY <1>1, <1>2, <1>3, TwinsShrink
<1>5. \A q \in Puts : req'[q].at = "write" => req'[q] = req[q]
  BY <1>3, PutIsNotTool
<1>6. InTime'
  <2>1. cmd.op = "revoke" => cmd.at = clock
    BY DEF Commands
  <2>2. Cmd' = cmd
    BY <1>2, <1>3 DEF Cmd
  <2> QED
    BY <1>1, <2>1, <2>2, ToolTyped DEF InTime
<1>7. ~CliHasRead' /\ req'["cli"].at # "write"
  BY <1>2, <1>3 DEF CliHasRead
<1>8. clock <= clock'
  BY <1>1, ToolTyped
<1> QED
  BY <1>1, <1>4, <1>5, <1>6, <1>7, <1>8, Quiet

LEMMA CliReadKept ==
  ASSUME TInv, TInv', KInv, CliRead
  PROVE  KInv'
<1> SUFFICES ASSUME "overlap" \notin blame' PROVE (FileKept /\ PutsKept /\ InTime /\ ToolKept)'
  BY DEF KInv
<1> DEFINE at == IF Cmd.op = "rotate" /\ ~Cmd.force THEN "guard" ELSE "truncate"
           doc == [file EXCEPT !.keys = Applied(Cmd, file.keys)]
<1>1. /\ req["cli"].at = "read" /\ Cmd \in Cmds
      /\ "id" \in DOMAIN Cmd => Cmd.id \in IdsOf(file.keys)
      /\ "new" \in DOMAIN Cmd => Cmd.new \notin IdsOf(file.keys)
      /\ \A q \in Requests : q # "cli" => req'[q] = req[q]
      /\ req'["cli"] = [at |-> at, cmd |-> Cmd, doc |-> doc]
      /\ blame' = blame \cup Overlap(PutsHaveRead # {})
      /\ UNCHANGED << file, clock, saved, issued, revoked, pairs >>
  BY CliReadFacts
<1>2. at \in {"guard", "truncate"}
  OBVIOUS
<1>3. doc.edit = file.edit /\ doc.keys = Applied(Cmd, file.keys)
  <2>1. Applied(Cmd, file.keys) \in KeySets
    BY <1>1, AppliedTypes, ToolTyped
  <2> QED
    BY <2>1, FileUpdates DEF TInv
<1> HIDE DEF at, doc
<1>4. req'["cli"].at = at /\ Cmd' = Cmd /\ req'["cli"].doc = doc
  BY <1>1 DEF Cmd
<1>5. PutsHaveRead = {} /\ "overlap" \notin blame
  BY <1>1 DEF Overlap
<1>6. FileKept /\ InTime
  BY <1>5 DEF KInv
<1>7. Twins' = Twins
  BY <1>1, <1>2, <1>4 DEF Twins
<1>8. FileKept'
  BY <1>1, <1>6, <1>7 DEF FileKept
<1>9. PutsKept'
  <2>1. PutsHaveRead' = {}
    BY <1>1, <1>5, PutIsNotTool DEF PutsHaveRead
  <2> QED
    BY <2>1 DEF PutsKept
<1>10. InTime'
  BY <1>2, <1>4 DEF InTime
<1>11. ToolKept'
  <2>1. Carry(Applied(Cmd, file.keys), issued \cup NewOf(Cmd), revoked \cup ShutBy(Cmd),
              Twins \cup TwinOf(Cmd), clock)
    BY <1>1, <1>6, CarryApplied, ToolTyped DEF FileKept, InTime
  <2>2. Carry(req'["cli"].doc.keys, issued' \cup NewOf(Cmd'), revoked' \cup ShutBy(Cmd'),
              Twins' \cup TwinOf(Cmd'), clock')
    BY <1>1, <1>3, <1>4, <1>7, <2>1
  <2>3. req'["cli"].doc.edit = saved'
    BY <1>1, <1>3, <1>4, <1>6 DEF FileKept
  <2> QED
    BY <1>2, <1>4, <2>2, <2>3 DEF ToolKept
<1> QED
  BY <1>8, <1>9, <1>10, <1>11

\* The tool goes on with what it has read.
LEMMA ToolStepKept ==
  ASSUME TInv, TInv', KInv, NEW at \in {"guard", "truncate"}, NEW next \in {"truncate", "write"}, Tool(at, next),
         file'.edit = file.edit, file'.keys = file.keys, next = "write" => file'.at = "torn",
         UNCHANGED << clock, saved, issued, revoked, pairs >>, blame \subseteq blame'
  PROVE  KInv'
<1>1. /\ req["cli"].at = at /\ req'["cli"].at = next
      /\ \A q \in Requests : q # "cli" => req'[q] = req[q]
      /\ DOMAIN req'["cli"] = DOMAIN req["cli"]
      /\ \A f \in DOMAIN req["cli"] : f # "at" => req'["cli"][f] = req["cli"][f]
  BY ToolMoves DEF Stages
<1>2. {"cmd", "doc"} \subseteq DOMAIN req["cli"]
  BY <1>1, ToolIsRequest DEF TInv, StateOK
<1>3. CliHasRead /\ req'["cli"].cmd = req["cli"].cmd /\ req'["cli"].doc = req["cli"].doc
  BY <1>1, <1>2 DEF CliHasRead
<1>4. Twins' \subseteq Twins
  BY <1>1, TwinsShrink
<1>5. \A q \in Puts : req'[q].at = "write" => req'[q] = req[q]
  BY <1>1, PutIsNotTool
<1>6. InTime'
  BY <1>1 DEF InTime
<1>7. clock <= clock'
  BY ToolTyped
<1> QED
  BY <1>1, <1>3, <1>4, <1>5, <1>6, <1>7, Quiet

LEMMA CliWriteKept ==
  ASSUME TInv, TInv', KInv, NEW by \in Ids, NEW todo \in ReloadLists, CliWrite(by, todo)
  PROVE  KInv'
<1> SUFFICES ASSUME "overlap" \notin blame' PROVE (FileKept /\ PutsKept /\ InTime /\ ToolKept)'
  BY DEF KInv
<1> DEFINE s == [at |-> "load", cmd |-> Cmd, by |-> by, todo |-> todo]
<1>1. /\ req["cli"].at = "write" /\ UNCHANGED << clock, saved, pairs >> /\ blame \subseteq blame'
      /\ file' = IF file.at = "torn" THEN req["cli"].doc ELSE file
      /\ req' = [req EXCEPT !["cli"] = IF todo = << >> THEN Idle ELSE s]
      /\ issued' = issued \cup NewOf(Cmd) /\ revoked' = revoked \cup ShutBy(Cmd)
  BY DEF CliWrite, Goto, NewOf, ShutBy
<1>2. s.at = "load" /\ s.cmd = Cmd
  OBVIOUS
<1> HIDE DEF s
<1>3. /\ req'["cli"] = Idle \/ req'["cli"] = s
      /\ \A q \in Requests : q # "cli" => req'[q] = req[q]
  BY <1>1, ToolIsRequest DEF TInv
<1>4. "overlap" \notin blame /\ CliHasRead
  BY <1>1 DEF CliHasRead
<1>5. FileKept /\ PutsKept /\ InTime /\ ToolKept
  BY <1>4 DEF KInv
<1>6. file' = req["cli"].doc
  BY <1>1, <1>5 DEF ToolKept
<1>7. Twins' \subseteq Twins \cup TwinOf(Cmd)
  <2>1. CASE req'["cli"] = Idle
    BY <1>1, <2>1, IdleIsNotPending DEF Twins
  <2>2. CASE req'["cli"] = s
    <3>1. Cmd' = Cmd
      BY <1>2, <2>2 DEF Cmd
    <3>2. TwinOf(Cmd') = TwinOf(Cmd)
      BY <3>1
    <3> QED
      BY <1>1, <3>2 DEF Twins
  <2> QED
    BY <1>3, <2>1, <2>2
<1>8. FileKept'
  <2>1. /\ req["cli"].doc.edit = saved
        /\ Carry(req["cli"].doc.keys, issued \cup NewOf(Cmd), revoked \cup ShutBy(Cmd),
                 Twins \cup TwinOf(Cmd), clock)
    BY <1>4, <1>5 DEF ToolKept
  <2>2. Carry(req["cli"].doc.keys, issued \cup NewOf(Cmd), revoked \cup ShutBy(Cmd), Twins', clock)
    BY <1>4, <1>7, <2>1, CarryLess, ToolTyped
  <2> QED
    BY <1>1, <1>6, <2>1, <2>2 DEF FileKept
<1>9. PutsKept'
  <2>1. PutsHaveRead = {}
    BY <1>4, <1>5 DEF PutsKept
  <2>2. PutsHaveRead' = {}
    BY <1>3, <2>1, PutIsNotTool DEF PutsHaveRead
  <2> QED
    BY <2>2 DEF PutsKept
<1>10. req'["cli"].at \in {"idle", "load"}
  BY <1>2, <1>3, IdleIsNotPending
<1>11. InTime' /\ ToolKept'
  BY <1>10 DEF InTime, ToolKept, CliHasRead
<1> QED
  BY <1>8, <1>9, <1>11

LEMMA NextKept == TInv /\ KInv /\ [Next]_vars => KInv'
<1> SUFFICES ASSUME TInv, KInv, [Next]_vars PROVE KInv'
  OBVIOUS
<1> USE NextTypes
<1>1. ASSUME NEW r \in Puts, NEW edit \in Edits, NEW id \in Ids, PutRead(r, edit, id)
      PROVE  KInv'
  BY <1>1, PutReadKept
<1>2. ASSUME NEW r \in Puts, NEW outcome \in {"written", "failed", "gone"}, PutWrite(r, outcome)
      PROVE  KInv'
  BY <1>2, PutWriteKept
<1>3. ASSUME NEW r \in Requests, LoadRead(r) \/ Install(r) \/ GiveUp(r)
      PROVE  KInv'
  BY <1>3, LoadReadKept, InstallKept, GiveUpKept
<1>4. ASSUME NEW p \in Processes, Restart(p)
      PROVE  KInv'
  BY <1>4, RestartKept
<1>5. ASSUME NEW cmd \in Commands, NEW live, CliStart(cmd, live)
      PROVE  KInv'
  BY <1>5, CliStartKept
<1>6. CASE CliRead
  BY <1>6, CliReadKept
<1>7. CASE CliGuard
  <2>1. /\ Tool("guard", "truncate")
        /\ UNCHANGED << file, clock, saved, issued, revoked, pairs, blame >>
    BY <1>7 DEF CliGuard, ghosts
  <2> QED
    BY <2>1, ToolStepKept
<1>8. CASE CliTruncate
  <2>1. /\ Tool("truncate", "write") /\ file' = [file EXCEPT !.at = "torn"] /\ blame \subseteq blame'
        /\ UNCHANGED << clock, saved, issued, revoked, pairs >>
    BY <1>8 DEF CliTruncate
  <2>2. file'.at = "torn" /\ file'.edit = file.edit /\ file'.keys = file.keys
    BY <2>1, FileUpdates DEF TInv
  <2> QED
    BY <2>1, <2>2, ToolStepKept
<1>9. ASSUME NEW by \in Ids, NEW todo \in ReloadLists, CliWrite(by, todo)
      PROVE  KInv'
  BY <1>9, CliWriteKept
<1>10. CASE Tick \/ UNCHANGED vars
  BY <1>10, TickKept
<1> QED
  BY <1>1, <1>2, <1>3, <1>4, <1>5, <1>6, <1>7, <1>8, <1>9, <1>10 DEF Next

LEMMA InitKept == Init => KInv
<1> SUFFICES ASSUME Init PROVE KInv
  OBVIOUS
<1>1. file.keys = InitialKeys /\ file.edit = saved /\ issued = {} /\ pairs = {} /\ clock = 0
  BY DEF Init
<1>2. \A r \in Requests : req[r].at = "idle"
  BY IdleIsNotPending DEF Init
<1>3. req["cli"].at = "idle" /\ PutsHaveRead = {} /\ Twins = {}
  BY <1>1, <1>2, PutIsNotTool, ToolIsRequest DEF PutsHaveRead, Twins
<1>4. revoked = {k.id : k \in {l \in InitialKeys : l.revoked <= 0}}
  BY DEF Init
<1>5. \A k \in InitialKeys : IF k.id \in revoked THEN k.revoked <= 0 ELSE k.revoked = Never
  BY <1>4, ControlPlaneAssumption
<1>6. revoked \subseteq IdsOf(InitialKeys)
  BY <1>4 DEF IdsOf
<1> QED
  BY <1>1, <1>3, <1>5, <1>6 DEF KInv, FileKept, PutsKept, InTime, ToolKept, CliHasRead, Carry

(* What a PUT saved and what the tool wrote stays in the file, each of them*)
(* rewriting what the other wrote: unless two of them read the file before *)
(* either had written it.                                                  *)
THEOREM WritesStay == Spec => []WritesKept
<1>1. TInv /\ KInv => WritesKept
  <2> SUFFICES ASSUME TInv, KInv, "overlap" \notin blame
               PROVE  /\ file.edit = saved /\ issued \subseteq IdsOf(file.keys)
                      /\ \A k \in file.keys : k.id \in revoked => k.revoked # Never
    BY DEF WritesKept
  <2>1. file.edit = saved /\ Carry(file.keys, issued, revoked, Twins, clock)
    BY DEF KInv, FileKept
  <2>2. clock \in Int /\ clock < Never /\ Never \in Int
    BY NeverIsLate DEF TInv
  <2>3. \A k \in file.keys : k.id \in revoked => k.revoked <= clock
    BY <2>1 DEF Carry
  <2> QED
    BY <2>1, <2>2, <2>3 DEF Carry
<1> QED
  BY <1>1, InitTypes, InitKept, NextTypes, NextKept, PTL DEF Spec

-----------------------------------------------------------------------------
(* Closing: what the processes' copies say of the keys that were revoked   *)
(* and rotated before they were loaded.                                    *)
ShutInCopies == \A c \in closed :
  /\ c[1] \in Processes /\ c[2] \in revoked
  /\ \A k \in conf[c[1]].keys : k.id = c[2] => k.revoked <= clock
OpenInCopies == \A p \in Processes : \A k \in conf[p].keys : k.id \notin revoked => k.revoked = Never
TwinsInCopies == \A t \in pairs :
  /\ t[1] \in Processes
  /\ \A k \in conf[t[1]].keys, l \in conf[t[1]].keys : (k.id = t[2] /\ l.id = t[3]) => k.scopes = l.scopes
CInv == blame = {} => ShutInCopies /\ OpenInCopies /\ TwinsInCopies

\* A step after which no process has loaded anything.
LEMMA CopiesStay ==
  ASSUME TInv, TInv', CInv, conf' = conf, closed' = closed, pairs' = pairs,
         revoked \subseteq revoked', clock <= clock', blame \subseteq blame'
  PROVE  CInv'
<1> SUFFICES ASSUME blame' = {} PROVE (ShutInCopies /\ OpenInCopies /\ TwinsInCopies)'
  BY DEF CInv
<1>1. ShutInCopies /\ OpenInCopies /\ TwinsInCopies
  BY DEF CInv
<1>2. clock \in Int /\ clock' \in Int
  BY ControlPlaneAssumption DEF TInv
<1>3. \A p \in Processes : \A k \in conf[p].keys : k.revoked \in Int
  BY DEF TInv, Confs, KeySets, Key
<1>4. ShutInCopies'
  <2>1. ASSUME NEW c \in closed
        PROVE  /\ c[1] \in Processes /\ c[2] \in revoked'
               /\ \A k \in conf[c[1]].keys : k.id = c[2] => k.revoked <= clock'
    <3>1. /\ c[1] \in Processes /\ c[2] \in revoked
          /\ \A k \in conf[c[1]].keys : k.id = c[2] => k.revoked <= clock
      BY <1>1 DEF ShutInCopies
    <3> QED
      BY <1>2, <1>3, <3>1
  <2> QED
    BY <2>1 DEF ShutInCopies
<1>5. OpenInCopies'
  BY <1>1 DEF OpenInCopies
<1>6. TwinsInCopies'
  BY <1>1 DEF TwinsInCopies
<1> QED
  BY <1>4, <1>5, <1>6

\* A load of p, of the file as it is.
LEMMA CopiesLoaded ==
  ASSUME TInv, KInv, CInv, NEW p \in Processes, NEW cfg, Loads(p, cfg),
         blame = {} => cfg = LoadWithBase(file),
         \A t \in pairs' : t \in pairs \/ (t[1] = p /\ << t[2], t[3] >> \in Twins),
         UNCHANGED << revoked, clock, blame >>
  PROVE  CInv'
<1> SUFFICES ASSUME blame = {} PROVE (ShutInCopies /\ OpenInCopies /\ TwinsInCopies)'
  BY DEF CInv
<1>1. ShutInCopies /\ OpenInCopies /\ TwinsInCopies
  BY DEF CInv
<1>2. Carry(file.keys, issued, revoked, Twins, clock)
  BY DEF KInv, FileKept
<1>3. cfg.keys = file.keys
  BY LoadTypes DEF TInv
<1>4. conf'[p].keys = file.keys /\ \A q \in Processes : q # p => conf'[q] = conf[q]
  BY <1>3 DEF Loads, TInv
<1>5. closed' = closed \cup {<< p, id >> : id \in revoked}
  BY DEF Loads
<1>6. ShutInCopies'
  <2>1. ASSUME NEW c \in closed'
        PROVE  /\ c[1] \in Processes /\ c[2] \in revoked
               /\ \A k \in conf'[c[1]].keys : k.id = c[2] => k.revoked <= clock
    <3>1. c[1] \in Processes /\ c[2] \in revoked
      BY <1>1, <1>5 DEF ShutInCopies
    <3>2. CASE c[1] = p
      BY <1>2, <1>4, <3>1, <3>2 DEF Carry
    <3>3. CASE c[1] # p
      <4>1. c \in closed
        BY <1>5, <3>3
      <4> QED
        BY <1>1, <1>4, <3>1, <3>3, <4>1 DEF ShutInCopies
    <3> QED
      BY <3>1, <3>2, <3>3
  <2> QED
    BY <2>1 DEF ShutInCopies
<1>7. OpenInCopies'
  <2>1. ASSUME NEW q \in Processes, NEW k \in conf'[q].keys, k.id \notin revoked
        PROVE  k.revoked = Never
    <3>1. CASE q = p
      BY <1>2, <1>4, <2>1, <3>1 DEF Carry
    <3>2. CASE q # p
      BY <1>1, <1>4, <2>1, <3>2 DEF OpenInCopies
    <3> QED
      BY <3>1, <3>2
  <2> QED
    BY <2>1 DEF OpenInCopies
<1>8. TwinsInCopies'
  <2>1. ASSUME NEW t \in pairs'
        PROVE  /\ t[1] \in Processes
               /\ \A k \in conf'[t[1]].keys, l \in conf'[t[1]].keys :
                    (k.id = t[2] /\ l.id = t[3]) => k.scopes = l.scopes
    <3>1. t[1] \in Processes
      BY <1>1, <2>1 DEF TwinsInCopies
    <3>2. CASE t[1] = p
      <4> DEFINE twin == << t[2], t[3] >>
      <4>1. twin \in Twins
        BY <2>1 DEF Twins
      <4>2. twin[1] = t[2] /\ twin[2] = t[3]
        OBVIOUS
      <4> HIDE DEF twin
      <4>3. \A k \in file.keys, l \in file.keys : (k.id = twin[1] /\ l.id = twin[2]) => k.scopes = l.scopes
        BY <1>2, <4>1 DEF Carry
      <4> QED
        BY <1>4, <3>1, <3>2, <4>2, <4>3
    <3>3. CASE t[1] # p
      <4>1. t \in pairs
        BY <2>1, <3>3
      <4> QED
        BY <1>1, <1>4, <3>1, <3>3, <4>1 DEF TwinsInCopies
    <3> QED
      BY <3>1, <3>2, <3>3
  <2> QED
    BY <2>1 DEF TwinsInCopies
<1> QED
  BY <1>6, <1>7, <1>8

LEMMA InstallCloses ==
  ASSUME TInv, FInv, KInv, CInv, NEW r \in Requests, Install(r)
  PROVE  CInv'
<1>1. /\ req[r].at = "install" /\ Head(req[r].todo) \in Processes /\ Loads(Head(req[r].todo), req[r].cfg)
      /\ pairs' = IF r = "cli" /\ req[r].cmd.op = "rotate"
                  THEN pairs \cup {<< Head(req[r].todo), req[r].cmd.id, req[r].cmd.new >>} ELSE pairs
      /\ UNCHANGED << clock, revoked, blame >>
  BY InstallFacts
<1>2. blame = {} => req[r].cfg = LoadWithBase(file)
  BY <1>1 DEF FInv, Held, Pending
<1>3. ASSUME NEW t \in pairs', t \notin pairs
      PROVE  t[1] = Head(req[r].todo) /\ << t[2], t[3] >> \in Twins
  <2>1. r = "cli" /\ Cmd.op = "rotate" /\ t = << Head(req[r].todo), Cmd.id, Cmd.new >>
    BY <1>1, <1>3 DEF Cmd
  <2>2. t[1] = Head(req[r].todo) /\ t[2] = Cmd.id /\ t[3] = Cmd.new
    BY <2>1
  <2> QED
    BY <1>1, <2>1, <2>2 DEF Twins, TwinOf
<1> QED
  BY <1>1, <1>2, <1>3, CopiesLoaded

LEMMA NextCloses == TInv /\ FInv /\ KInv /\ CInv /\ [Next]_vars => CInv'
<1> SUFFICES ASSUME TInv, FInv, KInv, CInv, [Next]_vars PROVE CInv'
  OBVIOUS
<1>1. TInv' /\ clock \in Int
  BY NextTypes, ToolTyped
<1>2. ASSUME NEW r \in Requests, Install(r)
      PROVE  CInv'
  BY <1>2, InstallCloses
<1>3. ASSUME NEW p \in Processes, Restart(p)
      PROVE  CInv'
  <2>1. Loads(p, LoadWithBase(file)) /\ UNCHANGED << pairs, revoked, clock, blame >>
    BY <1>3 DEF Restart
  <2> QED
    BY <2>1, CopiesLoaded
<1>4. ASSUME UNCHANGED << conf, closed, pairs >>, revoked \subseteq revoked', clock <= clock', blame \subseteq blame'
      PROVE  CInv'
  BY <1>1, <1>4, CopiesStay
<1>5. ASSUME NEW r \in Puts, NEW edit \in Edits, NEW id \in Ids, PutRead(r, edit, id)
      PROVE  CInv'
  BY <1>1, <1>4, <1>5 DEF PutRead
<1>6. ASSUME NEW r \in Puts, NEW outcome \in {"written", "failed", "gone"}, PutWrite(r, outcome)
      PROVE  CInv'
  BY <1>1, <1>4, <1>6 DEF PutWrite
<1>7. ASSUME NEW r \in Requests, LoadRead(r)
      PROVE  CInv'
  BY <1>1, <1>4, <1>7 DEF LoadRead, ghosts
<1>8. ASSUME NEW r \in Requests, GiveUp(r)
      PROVE  CInv'
  BY <1>1, <1>4, <1>8 DEF GiveUp, ghosts
<1>9. ASSUME NEW cmd \in Commands, NEW live, CliStart(cmd, live)
      PROVE  CInv'
  BY <1>1, <1>4, <1>9 DEF CliStart
<1>10. CASE CliRead
  BY <1>1, <1>4, <1>10 DEF CliRead
<1>11. CASE CliGuard
  BY <1>1, <1>4, <1>11 DEF CliGuard, ghosts
<1>12. CASE CliTruncate
  BY <1>1, <1>4, <1>12 DEF CliTruncate
<1>13. ASSUME NEW by \in Ids, NEW todo \in ReloadLists, CliWrite(by, todo)
       PROVE  CInv'
  BY <1>1, <1>4, <1>13 DEF CliWrite
<1>14. CASE Tick \/ UNCHANGED vars
  BY <1>1, <1>4, <1>14 DEF Tick, vars, ghosts
<1> QED
  BY <1>2, <1>3, <1>5, <1>6, <1>7, <1>8, <1>9, <1>10, <1>11, <1>12, <1>13, <1>14 DEF Next

LEMMA InitCloses == Init => CInv
<1> SUFFICES ASSUME Init PROVE CInv
  OBVIOUS
<1>1. closed = {} /\ pairs = {}
  BY DEF Init
<1>2. ASSUME NEW p \in Processes, NEW k \in conf[p].keys, k.id \notin revoked
      PROVE  k.revoked = Never
  <2>1. k \in InitialKeys
    BY DEF Init, LoadWithBase
  <2> QED
    BY <1>2, <2>1, ControlPlaneAssumption DEF Init
<1> QED
  BY <1>1, <1>2 DEF CInv, ShutInCopies, OpenInCopies, TwinsInCopies

IInv == TInv /\ FInv /\ KInv /\ CInv

LEMMA Inductive == Spec => []IInv
<1>1. Init => FInv
  BY IdleIsNotPending DEF Init, FInv, Held, InForce, Pending, Processes
<1>2. Init => IInv
  BY <1>1, InitTypes, InitKept, InitCloses DEF IInv
<1>3. IInv /\ [Next]_vars => IInv'
  BY NextTypes, NextForce, NextKept, NextCloses DEF IInv
<1> QED
  BY <1>2, <1>3, PTL DEF Spec

(* Once a process has loaded a revocation, the key opens nothing there any *)
(* more, through later PUTs, commands, loads and restarts, as long as no   *)
(* two writers, and no write and load, have met.                           *)
THEOREM RevokedIsClosed == Spec => []RevokedStaysClosed
<1>1. IInv => RevokedStaysClosed
  <2> SUFFICES ASSUME IInv, blame = {}, NEW c \in closed, NEW scope,
                      PrincipalFromRequest(c[1], c[2], scope)
               PROVE  FALSE
    BY DEF RevokedStaysClosed, Closed
  <2>1. /\ c[1] \in Processes
        /\ \A k \in conf[c[1]].keys : k.id = c[2] => k.revoked <= clock
    BY DEF IInv, CInv, ShutInCopies
  <2>2. PICK k \in conf[c[1]].keys : k.id = c[2] /\ managementKeyActive(k, clock)
    BY DEF PrincipalFromRequest
  <2>3. k.revoked \in Int /\ clock \in Int
    BY <2>1, ControlPlaneAssumption DEF IInv, TInv, Confs, KeySets, Key
  <2> QED
    BY <2>1, <2>2, <2>3 DEF managementKeyActive
<1> QED
  BY <1>1, Inductive, PTL

(* After a rotation that a process has loaded, every call the key was good *)
(* for is admitted there with the key or with its successor, until the     *)
(* successor ends: unless one was revoked or the successor begins after    *)
(* the key's end.                                                          *)
THEOREM RotationLeavesNoGap == Spec => []NoGap
<1>1. IInv => NoGap
  <2> SUFFICES ASSUME IInv, blame = {}, NEW r \in pairs,
                      {r[2], r[3]} \subseteq IdsOf(conf[r[1]].keys), {r[2], r[3]} \cap revoked = {},
                      NEW old, old = KeyOf(conf[r[1]].keys, r[2]),
                      NEW new, new = KeyOf(conf[r[1]].keys, r[3]),
                      old.from <= clock, clock < new.until, new.from <= old.until,
                      NEW scope \in old.scopes
               PROVE  \E id \in {r[2], r[3]} : PrincipalFromRequest(r[1], id, scope)
    BY DEF NoGap
  <2>1. /\ r[1] \in Processes
        /\ \A k \in conf[r[1]].keys, l \in conf[r[1]].keys : (k.id = r[2] /\ l.id = r[3]) => k.scopes = l.scopes
        /\ \A k \in conf[r[1]].keys : k.id \notin revoked => k.revoked = Never
    BY DEF IInv, CInv, TwinsInCopies, OpenInCopies
  <2>2. conf[r[1]].keys \in KeySets /\ clock \in Int /\ clock < Never
    BY <2>1, NeverIsLate DEF IInv, TInv, Confs
  <2>3. old \in conf[r[1]].keys /\ old.id = r[2] /\ new \in conf[r[1]].keys /\ new.id = r[3]
    BY <2>2, KeyOfFacts
  <2>4. old.scopes = new.scopes /\ old.revoked = Never /\ new.revoked = Never
    BY <2>1, <2>3
  <2>5. /\ old.from \in Int /\ old.until \in Int /\ new.from \in Int /\ new.until \in Int
    BY <2>2, <2>3 DEF KeySets, Key
  <2>6. CASE clock < old.until
    <3>1. managementKeyActive(old, clock)
      BY <2>2, <2>4, <2>6 DEF managementKeyActive
    <3> QED
      BY <2>3, <3>1 DEF PrincipalFromRequest, HasScope
  <2>7. CASE ~(clock < old.until)
    <3>1. managementKeyActive(new, clock)
      BY <2>2, <2>4, <2>5, <2>7 DEF managementKeyActive
    <3> QED
      BY <2>3, <2>4, <3>1 DEF PrincipalFromRequest, HasScope
  <2> QED
    BY <2>6, <2>7
<1> QED
  BY <1>1, Inductive, PTL
=============================================================================
