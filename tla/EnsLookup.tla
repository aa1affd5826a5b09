----------------------------- MODULE EnsLookup -----------------------------
(***************************************************************************)
(* A lookup in a name service that lives in contracts of an EVM chain      *)
(* (resolveENSJSONRPC, resolveEVMENSJSONRPC and ccip.go): the registry     *)
(* names the resolver, the resolver is asked for one record after the      *)
(* other, and any of these calls may be answered with the request to fetch *)
(* the data from a gateway first (EIP-3668).                               *)
(*                                                                         *)
(* An operator here is what the code does with one reply: it takes the     *)
(* state of the lookup and gives the next one.  Lookups has the steps.     *)
(***************************************************************************)
EXTENDS Naturals, Sequences, NameServices

CONSTANT MaxCCIPDepth  \* maxCCIPDepth, 2 in the code

(* The record calls of a question, by the type each yields; text stands    *)
(* for the calls for the eight known keys                                  *)
CallsFor(q) ==
     (IF q \in {"ANY", "WALLET", "TYPE262"} THEN << "WALLET" >> ELSE << >>)
  \o (IF q \in {"ANY", "TXT"} THEN << "TXT" >> ELSE << >>)
  \o (IF q \in {"ANY", "URI", "TXT"} THEN << "URI" >> ELSE << >>)

(* at: the call under way is an eth_call or the fetch from a gateway; for: *)
(* what it asks for; todo: the record calls after it; got: the types found *)
(* so far; urls: gateways not tried yet; lost: a record call failed        *)
Begin(q) == [at |-> "eth", for |-> "resolver", todo |-> CallsFor(q), got |-> {}, depth |-> 0,
             to |-> "own", urls |-> << >>, lost |-> FALSE, result |-> serviceFailure]

Finish(l, result) == [l EXCEPT !.at = "end", !.result = result, !.urls = << >>, !.todo = << >>]

(* The next record call, or the result.  What is left of the answer after  *)
(* calls that failed is returned as the answer.                            *)
NextCall(l, q) ==
  IF l.todo = << >> THEN Finish(l, Found(l.got, q))
  ELSE [l EXCEPT !.at = "eth", !.for = Head(l.todo), !.todo = Tail(l.todo), !.depth = 0, !.to = "own"]

(* A call without a value: the registry's failure fails the lookup, a      *)
(* record's failure is passed over                                         *)
CallFailed(l, q) ==
  IF l.for = "resolver" THEN Finish(l, serviceFailure)
  ELSE NextCall([l EXCEPT !.lost = TRUE, !.urls = << >>], q)

(* A call with a value: no resolver means no such name; an empty record is *)
(* no record                                                               *)
CallAnswered(l, q, present) ==
  IF l.for = "resolver" THEN IF present THEN NextCall(l, q) ELSE Finish(l, Missing)
  ELSE NextCall([l EXCEPT !.got = IF present THEN @ \cup {l.for} ELSE @], q)

(* The call asks for an offchain lookup: not too deep, well formed, for    *)
(* the contract that was called, and with one to eight gateways            *)
ccipRead(l, q, sender, urls) ==
  IF l.depth >= MaxCCIPDepth \/ urls = << >> \/ sender # l.to THEN CallFailed(l, q)
  ELSE [l EXCEPT !.at = "gateway", !.urls = urls]

(* One whose depth is not passed on *)
fetchAtSameDepth(l, q, answered) ==
  IF answered THEN [l EXCEPT !.at = "eth", !.urls = << >>]
  ELSE IF Tail(l.urls) # << >> THEN [l EXCEPT !.urls = Tail(@)] ELSE CallFailed(l, q)

(* Gateways are tried in order; one that is not HTTPS or has an inner      *)
(* address is not contacted and counts as failed                           *)
fetchCCIPResponse(l, q, answered) ==
  IF answered /\ Head(l.urls) = "outer" THEN [l EXCEPT !.at = "eth", !.depth = @ + 1, !.urls = << >>]
  ELSE IF Tail(l.urls) # << >> THEN [l EXCEPT !.urls = Tail(@)] ELSE CallFailed(l, q)

=============================================================================
