-------------------------- MODULE SequenceSession --------------------------
(***************************************************************************)
(* What the state sequence test promises: one sequence at a time; its      *)
(* states are sent one after another, none left out, after all of them     *)
(* were prepared and while reception runs; the state that others see is at *)
(* most one behind; and the next sequence begins when nothing is received  *)
(* or transmitted any more.                                                *)
(***************************************************************************)
EXTENDS Integers

CONSTANT StateCount

VARIABLES
  phase,      (* "none", "begun", "preparing", "sending", "ending", "left"  *)
  results,    (* states that have a result                                  *)
  sent,       (* states sent since the sending began                        *)
  current,    (* the state that others take for the one being sent          *)
  receiving,
  on          (* a port transmits                                           *)

Init ==
  /\ phase = "none"
  /\ results = 0 /\ sent = 0 /\ current = -1
  /\ ~receiving /\ ~on

Begin ==
  /\ phase = "none" /\ ~receiving /\ ~on
  /\ phase' = "begun"
  /\ UNCHANGED <<results, sent, current, receiving, on>>

Clear ==                    \* the results of the sequence before
  /\ phase = "begun" /\ phase' \in {"preparing", "ending"}
  /\ results' = 0
  /\ UNCHANGED <<sent, current, receiving, on>>

Prepare ==
  /\ phase = "preparing" /\ results < StateCount
  /\ results' = results + 1
  /\ UNCHANGED <<phase, sent, current, receiving, on>>

(* Cancelled or failed; the state in hand may have its result already.     *)
Abandon ==
  /\ phase = "preparing" /\ phase' = "ending"
  /\ results' \in {results, results + 1}
  /\ UNCHANGED <<sent, current, receiving, on>>

Go ==
  /\ phase = "preparing" /\ results = StateCount
  /\ phase' = "sending" /\ receiving' = TRUE
  /\ UNCHANGED <<results, sent, current, on>>

(* Only the first state starts ports.                                      *)
StartsPorts == (on => on') /\ (sent > 0 => on' = on)

Send ==
  /\ phase = "sending" /\ receiving
  /\ results = StateCount /\ sent < StateCount
  /\ sent > 0 => current = sent - 1
  /\ sent' = sent + 1
  /\ StartsPorts
  /\ UNCHANGED <<phase, results, current, receiving>>

Show ==
  /\ phase = "sending" /\ sent > 0
  /\ current' = sent - 1
  /\ UNCHANGED <<phase, results, sent, receiving, on>>

(* All states were sent, or the sequence was cancelled, or one failed.     *)
Finish ==
  /\ phase = "sending" /\ phase' = "ending"
  /\ sent' = 0
  /\ StartsPorts
  /\ UNCHANGED <<results, current, receiving>>

StopReceiving ==
  /\ phase = "ending"
  /\ receiving' = FALSE
  /\ UNCHANGED <<phase, results, sent, current, on>>

End ==
  /\ phase = "ending" /\ ~receiving
  /\ phase' = "none" /\ on' = FALSE
  /\ UNCHANGED <<results, sent, current, receiving>>

(* A port did not stop: no other sequence is begun.                        *)
Leave ==
  /\ phase = "ending" /\ ~receiving
  /\ phase' = "left" /\ (on' => on)
  /\ UNCHANGED <<results, sent, current, receiving>>

Next ==
  \/ Begin \/ Clear \/ Prepare \/ Abandon \/ Go
  \/ Send \/ Show \/ Finish \/ StopReceiving \/ End \/ Leave

Spec == Init /\ [][Next]_<<phase, results, sent, current, receiving, on>>
=============================================================================
