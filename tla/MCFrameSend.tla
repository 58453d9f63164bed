---------------------------- MODULE MCFrameSend ----------------------------
(* Worker threads are alike; GOOSE has fewer ports than SMV.               *)
EXTENDS FrameSend, TLC

MCPortCount == [k \in Kind |-> IF k = "SMV" THEN 2 ELSE 1]
MCBound     == [k \in Kind |-> Ports(k)]

MCOnePort   == [k \in Kind |-> 1]
MCOneBound  == [k \in Kind |-> {1}]

(* No GOOSE control block is bound to the port: nothing is framed for it.  *)
MCSmvBound  == [k \in Kind |-> IF k = "SMV" THEN {1} ELSE {}]

WorkerSymmetry == Permutations(Workers)
=============================================================================
