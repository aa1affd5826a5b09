--------------------------- MODULE MCFailedQueue ----------------------------
(***************************************************************************)
(* Small instances of FailedQueue: a queue of two entries for two or       *)
(* three batches, the worker and, in the log forwarder, a drain request.   *)
(***************************************************************************)
EXTENDS FailedQueue

CONSTANTS b1, b2, b3, r1, w

MCTwo == {b1, b2}
MCThree == {b1, b2, b3}
MCOneRequest == {r1}
MCNone == {}

=============================================================================
