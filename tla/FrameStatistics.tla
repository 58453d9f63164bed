-------------------------- MODULE FrameStatistics ---------------------------
(***************************************************************************)
(* The statistics of received frames: lost, repeated and misordered frames *)
(* of the current control block, told from the sample counter of SMV or    *)
(* from stNum and sqNum of GOOSE.  The receive threads count, one for each *)
(* port, while the page is entered, left, reset and changed to another     *)
(* control block.  Time stamps, time-to-live and quality are left out.     *)
(***************************************************************************)
EXTENDS Integers, FiniteSets

CONSTANTS
  Items,         (* control blocks, each received at a port of its own      *)
  None,          (* no control block is cached                              *)
  Kinds,         (* what the page shows: "SMV" or "GOOSE"                   *)
  Rate,          (* the sample counter runs from 0 to Rate - 1              *)
  MaxBatch,      (* frames the driver hands over at a time                  *)
  MaxLoss,       (* frames lost in a row                                    *)
  MaxFaults,     (* bound on the faults of the network                      *)
  MaxPublished,  (* bound on the frames of all publishers                   *)
  MaxKeys,       (* bound on the keys of the user                           *)
  ReceiveFirst   (* the page changes what is received only while no receive *)
                 (* thread handles frames: they have the higher priority    *)

ASSUME StatisticsAssumption ==
  /\ None \notin Items
  /\ Kinds \subseteq {"SMV", "GOOSE"}
  /\ Rate \in Nat \ {0, 1} /\ MaxBatch \in Nat \ {0} /\ MaxLoss \in Nat
  /\ MaxFaults \in Nat /\ MaxPublished \in Nat /\ MaxKeys \in Nat
  /\ ReceiveFirst \in BOOLEAN

Error == {"lost", "misOrder", "retry", "stLost", "stMisOrder"}
Fault == {"loss", "duplicate", "late"}

VARIABLES
  kind,      (* enFrameType of the control blocks: SMV or GOOSE             *)
  mode,      (* m_enCurrentMode: the page of the statistics, or not         *)
  item,      (* m_pCurrentDetectItems[2]: the current control block         *)
  cached,    (* m_pCachedCtrlBlk: checked again before each frame           *)
  stats,     (* m_mapSmvFrameStatistics or m_mapGooseFrameStatistics        *)
  locked,    (* the UI thread holds the lock of that map                    *)
  receiver,  (* the handler of each port                                    *)
  page,      (* the UI thread                                               *)
  sent,      (* the last frame each publisher sent                          *)
  published, (* the frames of all publishers so far                         *)
  since,     (* a history: faults of the network since the last reset, and  *)
             (* the gaps that cannot be overlooked                          *)
  faults     (* the faults of the behaviour                                 *)

network == <<sent, published, since, faults>>
vars == <<kind, mode, item, cached, stats, locked, receiver, page, network>>

(* What the constructor leaves; -1: no frame was seen yet.                 *)
Fresh ==
  [total |-> 0, errors |-> [e \in Error |-> 0],
   st |-> IF kind = "SMV" THEN 0 ELSE -1, sq |-> -1]

Init ==
  /\ kind \in Kinds
  /\ mode = "QUIT" /\ item \in Items /\ cached = None
  /\ stats = [i \in Items |-> Fresh]
  /\ locked = FALSE
  /\ receiver = [i \in Items |-> [pc |-> "idle", item |-> None, left |-> 0]]
  /\ page = [pc |-> "away", keys |-> 0]
  /\ sent = [i \in Items |-> [st |-> 0, sq |-> 0]]
  /\ published = 0
  /\ since = [i \in Items |-> [faults |-> {}, gaps |-> 0]]
  /\ faults = 0

-----------------------------------------------------------------------------
(* The publishers.  GOOSE counts st with each change and sq with each      *)
(* repetition of a state, from 0; the k-th frame after x may have up to k  *)
(* changes before it.                                                      *)
Published(x, k) ==
  IF kind = "SMV" THEN {[st |-> 0, sq |-> (x.sq + k) % Rate]}
  ELSE {[st |-> x.st, sq |-> x.sq + k]}
       \cup {[st |-> x.st + e[1], sq |-> e[2]] :
               e \in {e \in (1 .. k) \X (0 .. k - 1) : e[1] + e[2] <= k}}

Late(x) ==
  IF kind = "SMV" THEN {[st |-> 0, sq |-> n] : n \in 0 .. Rate - 1}
  ELSE {[st |-> x.st, sq |-> n] : n \in {x.sq - 1} \cap Nat}
       \cup {[st |-> m, sq |-> 0] : m \in {x.st - 1} \cap Nat}

-----------------------------------------------------------------------------
(* ParsingSmpIndex, and the part of ParsingStSqNum for the same stNum.     *)
SqVerdict(s, y) ==
  CASE y.sq = s.sq -> "retry"
    [] y.sq > s.sq + 1 -> "lost"
    [] y.sq < s.sq /\ y.sq # 0 -> "misOrder"
    [] OTHER -> "none"

ParsingSmpIndex(s, y) == IF s.sq = -1 THEN "none" ELSE SqVerdict(s, y)

(* A new stNum is compared with the last sqNum, as the code does.          *)
StVerdict(s, y) ==
  CASE y.st > s.st + 1 -> "stLost"
    [] y.st <= s.st + 1 /\ y.st = s.sq + 1 ->
         IF y.sq \in {0, 1} THEN "none" ELSE "lost"
    [] y.st < s.st /\ y.st # s.sq + 1 /\ y.st # 0 -> "stMisOrder"
    [] OTHER -> "none"

ParsingStSqNum(s, y) ==
  IF s.sq = -1 \/ s.st = -1 THEN "none"
  ELSE IF y.st = s.st THEN SqVerdict(s, y) ELSE StVerdict(s, y)

Verdict(s, y) == IF kind = "SMV" THEN ParsingSmpIndex(s, y) ELSE ParsingStSqNum(s, y)

(* Mutant: frames are missed only when two of them are.                    *)
CountedWhenTwo(s, y) ==
  [total |-> s.total + 1,
   errors |-> [e \in Error |->
     s.errors[e] + IF Verdict(s, y) = e /\ (e = "lost" => y.sq > s.sq + 2) THEN 1 ELSE 0],
   st |-> y.st, sq |-> y.sq]

Counted(s, y) ==
  [total |-> s.total + 1,
   errors |-> [e \in Error |-> s.errors[e] + IF Verdict(s, y) = e THEN 1 ELSE 0],
   st |-> y.st, sq |-> y.sq]

(* Mutant: the last sample counter or sqNum is kept.                       *)
ResetKeepingSq(s) == [Fresh EXCEPT !.st = s.st, !.sq = s.sq]

(* ResetData: of GOOSE, m_nSqNum is set twice and m_nStNum is kept.        *)
ResetData(s) == [Fresh EXCEPT !.st = s.st]

-----------------------------------------------------------------------------
(* A receive thread.  The handler of port i reads mode and control block.  *)
ReceiverGoto(i, s) == receiver' = [receiver EXCEPT ![i].pc = s]
HandlerEnds(i) ==
  receiver' = [receiver EXCEPT ![i] = [pc |-> "idle", item |-> None, left |-> 0]]
Passed(i, n) ==
  /\ \E y \in Published(sent[i], n) : sent' = [sent EXCEPT ![i] = y]
  /\ published' = published + n

Room == published < MaxPublished    \* the bound, when a batch begins

HandlerBegins(i) ==
  /\ receiver[i].pc = "idle" /\ mode = "STATIC" /\ Room
  /\ \E n \in 1 .. MaxBatch :
       receiver' = [receiver EXCEPT ![i] = [pc |-> "cache", item |-> item, left |-> n]]
  /\ UNCHANGED <<kind, mode, item, cached, stats, locked, page, network>>

(* No page, or another one, which may cache the control block.             *)
HandlerSkips(i) ==
  /\ receiver[i].pc = "idle" /\ mode # "STATIC" /\ Room
  /\ cached' \in {cached, item}
  /\ \E n \in 1 .. MaxBatch : Passed(i, n)
  /\ UNCHANGED <<kind, mode, item, stats, locked, receiver, page, since, faults>>

SetCachedCtrlBlk(i) ==      \* then a port that is not the control block's is done
  /\ receiver[i].pc = "cache"
  /\ cached' = receiver[i].item
  /\ IF receiver[i].item = i THEN ReceiverGoto(i, "frames") /\ UNCHANGED <<sent, published>>
     ELSE HandlerEnds(i) /\ Passed(i, receiver[i].left)
  /\ UNCHANGED <<kind, mode, item, stats, locked, page, since, faults>>

StillCached(i) ==
  /\ receiver[i].pc = "frames" /\ cached = receiver[i].item
  /\ ReceiverGoto(i, "count")
  /\ UNCHANGED <<kind, mode, item, cached, stats, locked, page, network>>

BatchDropped(i) ==
  /\ receiver[i].pc = "frames" /\ cached # receiver[i].item
  /\ HandlerEnds(i)
  /\ Passed(i, receiver[i].left)
  /\ UNCHANGED <<kind, mode, item, cached, stats, locked, page, since, faults>>

(* _GenSmvFrameStatistics, _GenGooseFrameStatistics: frame y, under the    *)
(* lock of the map; the loop over the batch ends after it, or not.         *)
CountsThen(i, y, end) ==
  /\ receiver[i].pc = "count" /\ ~locked
  /\ stats' = [stats EXCEPT ![i] = Counted(stats[i], y)]
  /\ IF end THEN HandlerEnds(i)
     ELSE receiver' = [receiver EXCEPT ![i] = 
            [pc |-> "frames", item |-> @.item, left |-> @.left - 1]]
  /\ UNCHANGED <<kind, mode, item, cached, locked, page>>

(* Mutant: the loop goes one frame too far.                                *)
CountsOneMore(i, y) == CountsThen(i, y, receiver[i].left = 0)

GenFrameStatistics(i, y) == CountsThen(i, y, receiver[i].left = 1)

FrameInOrder(i) ==
  \E y \in Published(sent[i], 1) :
    /\ GenFrameStatistics(i, y)
    /\ sent' = [sent EXCEPT ![i] = y] /\ published' = published + 1
    /\ UNCHANGED <<since, faults>>

FaultSeen(i, f, gap) ==
  /\ faults < MaxFaults
  /\ faults' = faults + 1
  /\ since' = [since EXCEPT ![i] =
       [faults |-> @.faults \cup {f}, gaps |-> @.gaps + IF gap THEN 1 ELSE 0]]

(* A gap the counters tell: not a whole round of the sample counter, nor   *)
(* one that ends at 0, which is taken for the wrap; with GOOSE in the same *)
(* state, or with a state missing.                                         *)
Evident(i, k, y) ==
  IF kind = "SMV" THEN k < Rate /\ (y.sq # 0 \/ sent[i].sq = 0)
  ELSE y.st = sent[i].st \/ y.st > sent[i].st + 1

FramesLost(i) ==
  \E k \in 1 .. MaxLoss : \E y \in Published(sent[i], k + 1) :
    /\ GenFrameStatistics(i, y)
    /\ sent' = [sent EXCEPT ![i] = y] /\ published' = published + k + 1
    /\ FaultSeen(i, "loss", stats[i].sq # -1 /\ Evident(i, k, y))

FrameRepeated(i) ==
  /\ GenFrameStatistics(i, sent[i])
  /\ FaultSeen(i, "duplicate", FALSE)
  /\ UNCHANGED <<sent, published>>

FrameLate(i) ==
  /\ \E y \in Late(sent[i]) : GenFrameStatistics(i, y)
  /\ FaultSeen(i, "late", FALSE)
  /\ UNCHANGED <<sent, published>>

ReceiveStep(i) ==
  \/ HandlerBegins(i) \/ HandlerSkips(i) \/ SetCachedCtrlBlk(i) \/ StillCached(i)
  \/ BatchDropped(i) \/ FrameInOrder(i) \/ FramesLost(i) \/ FrameRepeated(i)
  \/ FrameLate(i)

-----------------------------------------------------------------------------
(* The page.                                                               *)
PageTurn == ReceiveFirst => \A i \in Items : receiver[i].pc = "idle"

PageFrom(s, t) == page.pc = s /\ page' = [page EXCEPT !.pc = t]
KeyFrom(s, t) ==
  /\ page.pc = s /\ page.keys < MaxKeys
  /\ page' = [pc |-> t, keys |-> page.keys + 1]

(* Mutant: nothing is reset on entering.                                   *)
EnterAndShow ==
  /\ PageTurn
  /\ KeyFrom("away", "shown")
  /\ mode' = "STATIC"
  /\ UNCHANGED <<kind, item, cached, stats, locked, receiver, network>>

EnterPage ==                \* OnInitDialog: the mode first, then the reset
  /\ PageTurn
  /\ KeyFrom("away", "reset")
  /\ mode' = "STATIC"
  /\ UNCHANGED <<kind, item, cached, stats, locked, receiver, network>>

ResetKey ==
  /\ KeyFrom("shown", "reset")
  /\ UNCHANGED <<kind, mode, item, cached, stats, locked, receiver, network>>

SelectItem ==               \* SetCurrentCtrlBlk
  /\ PageTurn
  /\ KeyFrom("shown", IF kind = "SMV" THEN "clear" ELSE "reset")
  /\ item' \in Items \ {item}
  /\ UNCHANGED <<kind, mode, cached, stats, locked, receiver, network>>

ClearCachedData ==
  /\ PageTurn
  /\ PageFrom("clear", "reset")
  /\ cached' = None
  /\ UNCHANGED <<kind, mode, item, stats, locked, receiver, network>>

ResetLocks ==
  /\ PageFrom("reset", "locked")
  /\ locked' = TRUE
  /\ UNCHANGED <<kind, mode, item, cached, stats, receiver, network>>

(* ResetSmvFrameStatistics, ResetGooseFrameStatistics.                     *)
ResetFrameStatistics ==
  /\ PageFrom("locked", "shown")
  /\ locked' = FALSE
  /\ stats' = [stats EXCEPT ![item] = ResetData(stats[item])]
  /\ since' = [since EXCEPT ![item] = [faults |-> {}, gaps |-> 0]]
  /\ UNCHANGED <<kind, mode, item, cached, receiver, sent, published, faults>>

LeavePage ==                \* SetCurrentMode(DSM_MODE_QUIT_CURRENT_PAGE)
  /\ KeyFrom("shown", "quit")
  /\ cached' = None
  /\ UNCHANGED <<kind, mode, item, stats, locked, receiver, network>>

ModeQuits ==
  /\ PageFrom("quit", "away")
  /\ mode' = "QUIT"
  /\ UNCHANGED <<kind, item, cached, stats, locked, receiver, network>>

PageStep ==
  \/ EnterPage \/ ResetKey \/ SelectItem \/ ClearCachedData \/ ResetLocks
  \/ ResetFrameStatistics \/ LeavePage \/ ModeQuits

Next == PageStep \/ \E i \in Items : ReceiveStep(i)

Spec == Init /\ [][Next]_vars

-----------------------------------------------------------------------------
Frames == [st : Nat, sq : IF kind = "SMV" THEN 0 .. Rate - 1 ELSE Nat]
Statistics ==
  [total : Nat, errors : [Error -> Nat], st : Nat \cup {-1}, sq : Nat \cup {-1}]
ReceiverRecord ==
  [pc : {"idle", "cache", "frames", "count"}, item : Items \cup {None},
   left : 0 .. MaxBatch]
LeftToCount ==
  \A i \in Items : receiver[i].pc # "idle" => receiver[i].left > 0
PagePc == {"away", "reset", "locked", "shown", "clear", "quit"}

(* Types; a handler that counts has a frame of its control block left.     *)
TypeOK ==
  /\ kind \in Kinds /\ mode \in {"QUIT", "STATIC"}
  /\ item \in Items /\ cached \in Items \cup {None}
  /\ stats \in [Items -> Statistics]
  /\ locked \in BOOLEAN
  /\ receiver \in [Items -> ReceiverRecord] /\ LeftToCount
  /\ page \in [pc : PagePc, keys : 0 .. MaxKeys]
  /\ sent \in [Items -> Frames] /\ published \in Nat
  /\ since \in [Items -> [faults : SUBSET Fault, gaps : Nat]]
  /\ faults \in 0 .. MaxFaults

Errors(s) ==
  s.errors["lost"] + s.errors["misOrder"] + s.errors["retry"]
    + s.errors["stLost"] + s.errors["stMisOrder"]

(* What the page shows without a fault of the network has no error in it:  *)
(* not after frames that were not looked at while the page was closed or   *)
(* showed another control block, nor after a batch that was dropped.       *)
NoFalseAlarm ==
  page.pc = "shown" /\ since[item].faults = {} => Errors(stats[item]) = 0

(* As long as no frame came late, the page shows an error for each gap the *)
(* counters can tell.                                                      *)
LossesNoticed ==
  page.pc = "shown" /\ "late" \notin since[item].faults
    => Errors(stats[item]) >= since[item].gaps

(* A frame is counted under one error at most, and the first frame after a *)
(* reset under none, although a reset may come between any two frames.     *)
ErrorsWithinFrames ==
  \A i \in Items :
    IF stats[i].total = 0 THEN Errors(stats[i]) = 0
    ELSE Errors(stats[i]) < stats[i].total
=============================================================================
