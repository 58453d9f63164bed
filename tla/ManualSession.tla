--------------------------- MODULE ManualSession ---------------------------
(***************************************************************************)
(* What the manual test promises for each kind of frame, whatever the      *)
(* threads do: one thread at a time prepares the frames of a kind, nobody  *)
(* else ends its preparation, and a kind is stopped only while nobody      *)
(* prepares it.                                                            *)
(***************************************************************************)
CONSTANTS Kind, Workers, NoThread

VARIABLES
  status,   (* [Kind -> {"STOPPED", "PREPARE", "SENDING"}]                  *)
  framer    (* [Kind -> Workers \cup {NoThread}]: who prepares the frames   *)

Init ==
  /\ status = [k \in Kind |-> "STOPPED"]
  /\ framer = [k \in Kind |-> NoThread]

(* A start, or an update of what is being sent.                            *)
Begin(k, w) ==
  /\ framer[k] = NoThread
  /\ status' = [status EXCEPT ![k] = "PREPARE"]
  /\ framer' = [framer EXCEPT ![k] = w]

(* The frames are ready, or the start failed or was cancelled.             *)
Finish(k) ==
  /\ framer[k] # NoThread
  /\ \E s \in {"SENDING", "STOPPED"} : status' = [status EXCEPT ![k] = s]
  /\ framer' = [framer EXCEPT ![k] = NoThread]

Stop(k) ==
  /\ framer[k] = NoThread
  /\ status' = [status EXCEPT ![k] = "STOPPED"]
  /\ UNCHANGED framer

Next == \E k \in Kind : Finish(k) \/ Stop(k) \/ \E w \in Workers : Begin(k, w)

Spec == Init /\ [][Next]_<<status, framer>>
=============================================================================
