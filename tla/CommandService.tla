--------------------------- MODULE CommandService ---------------------------
(***************************************************************************)
(* What the tasks of the DSP promise: commands are executed one at a time  *)
(* and in the order they were sent, and the harmonics are calculated from  *)
(* whole batches, of the samples sent since the last reset.  While a       *)
(* complete batch waits for its calculation the service blocks (no command *)
(* is taken) or, where it Loses, it drops the samples, and no others.  A   *)
(* service that loses may be overloaded when a command comes while another *)
(* is executed, and then promises nothing any more.                        *)
(***************************************************************************)
EXTENDS Naturals, Sequences

CONSTANTS Batch, Commands, Loses

VARIABLES
  queue,      (* commands sent and not taken yet                            *)
  current,    (* the command that is being executed                         *)
  batch,      (* the samples collected                                      *)
  input,      (* the batch that is being calculated                         *)
  waveform,   (* the request of the last waveform                           *)
  overloaded  (* nothing is promised any more                               *)

vars == <<queue, current, batch, input, waveform, overloaded>>

Nobody    == [code |-> "NONE", id |-> 0]
Executed  == {"SMV_DATA", "SMV_GEN", "TIME_DATA"}

Init ==
  /\ queue = <<>> /\ current = Nobody
  /\ batch = <<>> /\ input = <<>> /\ waveform = 0
  /\ overloaded = FALSE

Accept(c) ==
  /\ queue' = Append(queue, c)
  /\ UNCHANGED <<current, batch, input, waveform, overloaded>>

Complete == Len(batch) = Batch

Receive ==
  /\ current = Nobody
  /\ queue # <<>> /\ queue' = Tail(queue)
  /\ UNCHANGED overloaded

Take ==
  /\ Receive
  /\ Head(queue).code \in Executed
  /\ Complete => Loses /\ Head(queue).code # "SMV_DATA"
  /\ current' = Head(queue)
  /\ UNCHANGED <<batch, input, waveform>>

Drop ==
  /\ Receive
  /\ Head(queue).code = "SMV_DATA"
  /\ Complete /\ Loses
  /\ UNCHANGED <<current, batch, input, waveform>>

(* A command that needs no calculation is answered as it is received; a    *)
(* reset throws the samples of an incomplete batch away.                   *)
Answer ==
  /\ Receive
  /\ Head(queue).code \notin Executed
  /\ Complete => Loses
  /\ batch' = IF Head(queue).code = "RESET_SMV" /\ ~Complete THEN <<>> ELSE batch
  /\ UNCHANGED <<current, input, waveform>>

Generate ==
  /\ current.code = "SMV_GEN" /\ current' = Nobody
  /\ waveform' = current.id
  /\ UNCHANGED <<queue, batch, input, overloaded>>

Sample ==
  /\ current.code = "SMV_DATA" /\ current' = Nobody
  /\ Len(batch) < Batch
  /\ batch' = Append(batch, current.id)
  /\ UNCHANGED <<queue, input, waveform, overloaded>>

Times ==
  /\ current.code = "TIME_DATA" /\ current' = Nobody
  /\ UNCHANGED <<queue, batch, input, waveform, overloaded>>

(* One calculation at a time.                                              *)
Start ==
  /\ Complete /\ input = <<>>
  /\ input' = batch /\ batch' = <<>>
  /\ UNCHANGED <<queue, current, waveform, overloaded>>

Calculate ==
  /\ input # <<>> /\ input' = <<>>
  /\ UNCHANGED <<queue, current, batch, waveform, overloaded>>

Overload ==
  /\ Loses /\ overloaded'
  /\ overloaded \/ (current' # Nobody /\ queue' # <<>>)

Next ==
  \/ \E c \in Commands : Accept(c)
  \/ Take \/ Drop \/ Answer \/ Generate \/ Sample \/ Times
  \/ Start \/ Calculate
  \/ Overload

Spec == Init /\ [][Next]_vars
=============================================================================
