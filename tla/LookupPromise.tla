--------------------------- MODULE LookupPromise ---------------------------
(***************************************************************************)
(* What a lookup promises, whatever service and protocol are behind it:    *)
(* the records of a name change, and what a client is told of one question *)
(* was true, type by type, at some moment that is not too long ago; when   *)
(* that cannot be established, the client is told that it failed.          *)
(***************************************************************************)
EXTENDS Naturals, Sequences

CONSTANT Types     \* the record types

VARIABLES asked,   \* the types the question asks for
          hist,    \* the types the name had, change after change; {} is no such name
          floor,   \* the oldest version a client may still be told
          told     \* what the client was told last: [kind, types]

vars == << asked, hist, floor, told >>

Init ==
  /\ asked \subseteq Types
  /\ Len(hist) = 1 /\ hist[1] \subseteq Types
  /\ floor = 1
  /\ told = [kind |-> "nothing yet", types |-> {}]

(* Older versions stop being told whenever a newer one is *)
Forget == floor' \in floor .. Len(hist')

Change ==
  /\ Len(hist') = Len(hist) + 1 /\ SubSeq(hist', 1, Len(hist)) = hist
  /\ hist'[Len(hist')] \subseteq Types
  /\ UNCHANGED told

Recent == {hist[i] : i \in floor .. Len(hist)}

(* Type by type, one of the recent versions had the record or had it not *)
TellAnswer ==
  /\ told'.kind = "answer" /\ told'.types \subseteq asked
  /\ \A t \in asked : \E v \in Recent : t \in told'.types <=> t \in v

(* No such name: there was nothing of any type *)
TellMissing == {} \in Recent /\ told' = [kind |-> "missing", types |-> {}]

TellFailure == told' = [kind |-> "failure", types |-> {}]

Tell == UNCHANGED hist /\ (TellAnswer \/ TellMissing \/ TellFailure)

Next == UNCHANGED asked /\ Forget /\ (Change \/ Tell \/ UNCHANGED << hist, told >>)

Spec == Init /\ [][Next]_vars

=============================================================================
