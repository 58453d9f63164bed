-------------------------- MODULE StatisticsProofs --------------------------
(***************************************************************************)
(* What the page of the statistics shows, for any control blocks, sampling *)
(* rate, batch, and any number of frames, faults and keys.                 *)
(***************************************************************************)
EXTENDS FrameStatistics, TLAPS

-----------------------------------------------------------------------------
(* A frame is counted under at most one error.                             *)
LEMMA CountedOnce ==
  ASSUME NEW s \in Statistics, NEW y \in Frames
  PROVE  /\ Counted(s, y) \in Statistics
         /\ Errors(s) \in Nat
         /\ Errors(Counted(s, y)) = Errors(s) + IF Verdict(s, y) \in Error THEN 1 ELSE 0
         /\ Counted(s, y).st = y.st /\ Counted(s, y).sq = y.sq
         /\ Counted(s, y).total = s.total + 1
<1> DEFINE v == Verdict(s, y)
<1>1. y.st \in Nat /\ y.sq \in Nat
  BY StatisticsAssumption DEF Frames
<1>2. \A e \in Error : s.errors[e] \in Nat
  BY DEF Statistics
<1> HIDE DEF v
<1>3. [e \in Error |-> s.errors[e] + IF v = e THEN 1 ELSE 0] \in [Error -> Nat]
  BY <1>2
<1>4. Counted(s, y) \in Statistics
  BY <1>1, <1>3 DEF Counted, Statistics, v
<1>5. Errors(s) \in Nat
  BY <1>2 DEF Errors, Error
<1>6. Errors(Counted(s, y)) = Errors(s) + IF v \in Error THEN 1 ELSE 0
  <2>1. \A e \in Error : Counted(s, y).errors[e] = s.errors[e] + IF v = e THEN 1 ELSE 0
    BY DEF Counted, v
  <2> QED
    BY <1>2, <2>1 DEF Errors, Error
<1> QED
  BY <1>4, <1>5, <1>6 DEF Counted, v

(* Only frames of the publisher arrive.                                    *)
LEMMA PublishedFrames ==
  ASSUME kind \in Kinds, NEW x \in Frames, NEW k \in Nat
  PROVE  /\ Published(x, k) \subseteq Frames
         /\ Late(x) \subseteq Frames
<1> USE StatisticsAssumption
<1>1. CASE kind = "SMV"
  <2>1. (x.sq + k) % Rate \in 0 .. Rate - 1
    BY <1>1 DEF Frames
  <2> QED
    BY <1>1, <2>1 DEF Published, Late, Frames
<1>2. CASE kind = "GOOSE"
  <2>1. x.st \in Nat /\ x.sq \in Nat
    BY <1>2 DEF Frames
  <2>2. Published(x, k) \subseteq Frames
    <3> SUFFICES ASSUME NEW y \in Published(x, k) PROVE y \in Frames
      OBVIOUS
    <3> DEFINE E == {e \in (1 .. k) \X (0 .. k - 1) : e[1] + e[2] <= k}
    <3>1. kind # "SMV" /\ Frames = [st : Nat, sq : Nat]
      BY <1>2 DEF Frames
    <3>2. CASE y = [st |-> x.st, sq |-> x.sq + k]
      BY <2>1, <3>1, <3>2
    <3>3. CASE \E e \in E : y = [st |-> x.st + e[1], sq |-> e[2]]
      BY <2>1, <3>1, <3>3
    <3> QED
      BY <3>1, <3>2, <3>3 DEF Published
  <2>3. Late(x) \subseteq Frames
    <3>1. kind # "SMV" /\ Frames = [st : Nat, sq : Nat]
      BY <1>2 DEF Frames
    <3> QED
      BY <2>1, <3>1 DEF Late
  <2> QED
    BY <2>2, <2>3
<1> QED
  BY <1>1, <1>2

(* A reset leaves no error and no frame to compare with.                   *)
LEMMA ResetClean ==
  ASSUME NEW s \in Statistics
  PROVE  /\ ResetData(s) \in Statistics
         /\ Errors(ResetData(s)) = 0
         /\ ResetData(s).total = 0 /\ ResetData(s).sq = -1
<1>1. [e \in Error |-> 0] \in [Error -> Nat]
  OBVIOUS
<1>2. ResetData(s) = [total |-> 0, errors |-> [e \in Error |-> 0], st |-> s.st, sq |-> -1]
  BY DEF ResetData, Fresh
<1> QED
  BY <1>1, <1>2 DEF Statistics, Errors, Error

-----------------------------------------------------------------------------
(* The kind of the control blocks is given.                                *)
LEMMA KindKept ==
  ASSUME Next
  PROVE  kind' = kind /\ Frames' = Frames
<1>1. kind' = kind
  BY DEF Next, PageStep, EnterPage, ResetKey, SelectItem, ClearCachedData, ResetLocks,
     ResetFrameStatistics, LeavePage, ModeQuits, ReceiveStep, HandlerBegins, HandlerSkips,
     SetCachedCtrlBlk, StillCached, BatchDropped, FrameInOrder, FramesLost, FrameRepeated,
     FrameLate, GenFrameStatistics, CountsThen
<1> QED
  BY <1>1 DEF Frames

(* The page keeps the types.                                               *)
LEMMA PageTypes ==
  ASSUME TypeOK, PageStep
  PROVE  TypeOK'
<1> USE StatisticsAssumption
<1>0. kind' = kind /\ Frames' = Frames
  BY KindKept DEF Next
<1>1. UNCHANGED <<receiver, sent, published, faults>>
  BY DEF PageStep, EnterPage, ResetKey, SelectItem, ClearCachedData, ResetLocks,
     ResetFrameStatistics, LeavePage, ModeQuits, network
<1>2. LeftToCount'
  BY <1>1 DEF TypeOK, LeftToCount
<1>3. /\ mode' \in {"QUIT", "STATIC"} /\ item' \in Items /\ cached' \in Items \cup {None}
      /\ locked' \in BOOLEAN
  BY DEF TypeOK, PageStep, EnterPage, ResetKey, SelectItem, ClearCachedData, ResetLocks,
     ResetFrameStatistics, LeavePage, ModeQuits
<1>4. page' \in [pc : PagePc, keys : 0 .. MaxKeys]
  <2>1. \A a, b \in PagePc : PageFrom(a, b) \/ KeyFrom(a, b)
           => page' \in [pc : PagePc, keys : 0 .. MaxKeys]
    BY DEF PageFrom, KeyFrom, TypeOK
  <2>2. \E a, b \in PagePc : PageFrom(a, b) \/ KeyFrom(a, b)
    BY DEF PageStep, EnterPage, ResetKey, SelectItem, ClearCachedData, ResetLocks,
       ResetFrameStatistics, LeavePage, ModeQuits, PagePc
  <2> QED
    BY <2>1, <2>2
<1>5. /\ stats' \in [Items -> Statistics]
      /\ since' \in [Items -> [faults : SUBSET Fault, gaps : Nat]]
  <2>1. CASE ResetFrameStatistics
    <3>1. stats' \in [Items -> Statistics]
      BY <2>1, ResetClean DEF ResetFrameStatistics, TypeOK
    <3>2. [faults |-> {}, gaps |-> 0] \in [faults : SUBSET Fault, gaps : Nat]
      OBVIOUS
    <3> QED
      BY <2>1, <3>1, <3>2 DEF ResetFrameStatistics, TypeOK
  <2>2. CASE ~ResetFrameStatistics
    <3>1. UNCHANGED <<stats, since>>
      BY <2>2 DEF PageStep, EnterPage, ResetKey, SelectItem, ClearCachedData, ResetLocks,
         LeavePage, ModeQuits, network
    <3> QED
      BY <3>1 DEF TypeOK
  <2> QED
    BY <2>1, <2>2
<1> QED
  BY <1>0, <1>1, <1>2, <1>3, <1>4, <1>5 DEF TypeOK

(* What the handlers keep of the types: each variable by itself.           *)
LEMMA HandlerTypes ==
  ASSUME TypeOK, NEW i \in Items
  PROVE  /\ HandlerEnds(i) =>
              receiver' \in [Items -> ReceiverRecord] /\ receiver'[i].pc = "idle"
         /\ \A s \in {"idle", "cache", "frames", "count"} :
              ReceiverGoto(i, s) => receiver' \in [Items -> ReceiverRecord]
         /\ \A n \in Nat : Passed(i, n) =>
              sent' \in [Items -> Frames] /\ published' \in Nat
<1> USE StatisticsAssumption
<1>1. TypeOK /\ kind \in Kinds /\ sent[i] \in Frames
  BY DEF TypeOK
<1>2. HandlerEnds(i) =>
        receiver' \in [Items -> ReceiverRecord] /\ receiver'[i].pc = "idle"
  BY DEF HandlerEnds, TypeOK, ReceiverRecord
<1>3. \A s \in {"idle", "cache", "frames", "count"} :
        ReceiverGoto(i, s) => receiver' \in [Items -> ReceiverRecord]
  BY DEF ReceiverGoto, TypeOK, ReceiverRecord
<1>4. ASSUME NEW n \in Nat, Passed(i, n)
      PROVE  sent' \in [Items -> Frames] /\ published' \in Nat
  <2>1. Published(sent[i], n) \subseteq Frames
    BY <1>1, PublishedFrames
  <2> QED
    BY <1>4, <2>1 DEF Passed, TypeOK
<1> QED
  BY <1>2, <1>3, <1>4

(* A counted frame keeps them, whatever the network did to it.             *)
LEMMA CountTypes ==
  ASSUME TypeOK, NEW i \in Items, NEW y \in Frames, GenFrameStatistics(i, y)
  PROVE  /\ stats' \in [Items -> Statistics]
         /\ receiver' \in [Items -> ReceiverRecord]
         /\ LeftToCount'
<1> USE StatisticsAssumption
<1>1. stats[i] \in Statistics /\ receiver[i] \in ReceiverRecord /\ LeftToCount
      /\ receiver \in [Items -> ReceiverRecord] /\ stats \in [Items -> Statistics]
  BY DEF TypeOK
<1>2. stats' \in [Items -> Statistics]
  BY <1>1, CountedOnce DEF GenFrameStatistics, CountsThen
<1>3. CASE receiver[i].left = 1
  BY <1>1, <1>2, <1>3 DEF GenFrameStatistics, CountsThen, HandlerEnds, ReceiverRecord, LeftToCount
<1>4. CASE receiver[i].left # 1
  <2>1. receiver[i].left - 1 \in 1 .. MaxBatch
    BY <1>1, <1>4 DEF GenFrameStatistics, CountsThen, ReceiverRecord, LeftToCount
  <2>2. [pc |-> "frames", item |-> receiver[i].item, left |-> receiver[i].left - 1]
          \in ReceiverRecord
    BY <1>1, <2>1 DEF ReceiverRecord
  <2>3. receiver' = [receiver EXCEPT ![i] =
           [pc |-> "frames", item |-> receiver[i].item, left |-> receiver[i].left - 1]]
        /\ receiver[i].pc = "count"
    BY <1>4 DEF GenFrameStatistics, CountsThen
  <2>4. receiver' \in [Items -> ReceiverRecord]
    BY <1>1, <2>2, <2>3
  <2>5. LeftToCount'
    BY <1>1, <2>1, <2>3 DEF LeftToCount, ReceiverRecord
  <2> QED
    BY <1>2, <2>4, <2>5
<1> QED
  BY <1>3, <1>4

(* The receive threads and the network keep the types.                     *)
LEMMA ReceiveTypes ==
  ASSUME TypeOK, NEW i \in Items, ReceiveStep(i)
  PROVE  TypeOK'
<1> USE StatisticsAssumption
<1>0. kind \in Kinds /\ sent[i] \in Frames /\ stats[i] \in Statistics
      /\ receiver[i] \in ReceiverRecord /\ receiver \in [Items -> ReceiverRecord]
      /\ LeftToCount
  BY DEF TypeOK
<1>k. kind' = kind /\ Frames' = Frames
  BY KindKept DEF Next
<1>1. CASE HandlerBegins(i)
  <2>1. PICK n \in 1 .. MaxBatch :
          receiver' = [receiver EXCEPT ![i] = [pc |-> "cache", item |-> item, left |-> n]]
    BY <1>1 DEF HandlerBegins
  <2>2. receiver' \in [Items -> ReceiverRecord]
    BY <1>0, <2>1 DEF ReceiverRecord, TypeOK
  <2>3. LeftToCount'
    BY <1>0, <2>1 DEF LeftToCount, TypeOK
  <2> QED
    BY <1>k, <1>1, <2>2, <2>3 DEF HandlerBegins, network, TypeOK
<1>2. CASE HandlerSkips(i)
  <2>1. sent' \in [Items -> Frames] /\ published' \in Nat
    BY <1>2, HandlerTypes DEF HandlerSkips
  <2> QED
    BY <1>k, <1>2, <2>1 DEF HandlerSkips, TypeOK, LeftToCount
<1>3. CASE SetCachedCtrlBlk(i)
  <2>1. receiver' \in [Items -> ReceiverRecord] /\ sent' \in [Items -> Frames]
        /\ published' \in Nat
    <3>1. receiver[i].left \in Nat
      BY <1>0 DEF ReceiverRecord
    <3> QED
      BY <1>3, <3>1, HandlerTypes DEF SetCachedCtrlBlk, TypeOK
  <2>2. LeftToCount'
    BY <1>0, <1>3 DEF SetCachedCtrlBlk, LeftToCount, ReceiverRecord, ReceiverGoto, HandlerEnds
  <2>3. cached' \in Items \cup {None}
    BY <1>0, <1>3 DEF SetCachedCtrlBlk, ReceiverRecord
  <2> QED
    BY <1>k, <1>3, <2>1, <2>2, <2>3 DEF SetCachedCtrlBlk, TypeOK
<1>4. CASE StillCached(i)
  <2>1. receiver' \in [Items -> ReceiverRecord]
    BY <1>4, HandlerTypes DEF StillCached
  <2>2. LeftToCount'
    BY <1>0, <1>4 DEF StillCached, LeftToCount, ReceiverRecord, ReceiverGoto
  <2> QED
    BY <1>k, <1>4, <2>1, <2>2 DEF StillCached, network, TypeOK
<1>5. CASE BatchDropped(i)
  <2>1. receiver' \in [Items -> ReceiverRecord] /\ sent' \in [Items -> Frames]
        /\ published' \in Nat
    <3>1. receiver[i].left \in Nat
      BY <1>0 DEF ReceiverRecord
    <3> QED
      BY <1>5, <3>1, HandlerTypes DEF BatchDropped
  <2>2. LeftToCount'
    BY <1>0, <1>5 DEF BatchDropped, LeftToCount, ReceiverRecord, HandlerEnds
  <2> QED
    BY <1>k, <1>5, <2>1, <2>2 DEF BatchDropped, TypeOK
<1>6. CASE FrameInOrder(i)
  <2>1. PICK y \in Frames : /\ GenFrameStatistics(i, y) /\ sent' = [sent EXCEPT ![i] = y]
                            /\ published' = published + 1 /\ UNCHANGED <<since, faults>>
    BY <1>0, <1>6, PublishedFrames DEF FrameInOrder
  <2>2. sent' \in [Items -> Frames] /\ published' \in Nat
    BY <2>1 DEF TypeOK
  <2> QED
    BY <1>k, <2>1, <2>2, CountTypes DEF TypeOK, GenFrameStatistics, CountsThen
<1>7. ASSUME NEW f \in Fault, NEW gap \in BOOLEAN, FaultSeen(i, f, gap)
      PROVE  /\ since' \in [Items -> [faults : SUBSET Fault, gaps : Nat]]
             /\ faults' \in 0 .. MaxFaults
  <2>1. [faults |-> since[i].faults \cup {f}, gaps |-> since[i].gaps + IF gap THEN 1 ELSE 0]
          \in [faults : SUBSET Fault, gaps : Nat]
    BY DEF TypeOK
  <2> QED
    BY <1>k, <1>7, <2>1 DEF FaultSeen, TypeOK
<1>8. CASE FramesLost(i)
  <2>1. PICK k \in 1 .. MaxLoss : \E y \in Published(sent[i], k + 1) :
          /\ GenFrameStatistics(i, y) /\ sent' = [sent EXCEPT ![i] = y]
          /\ published' = published + k + 1
          /\ FaultSeen(i, "loss", stats[i].sq # -1 /\ Evident(i, k, y))
    BY <1>8 DEF FramesLost
  <2>p. k + 1 \in Nat
    OBVIOUS
  <2>2. PICK y \in Frames :
          /\ GenFrameStatistics(i, y) /\ sent' = [sent EXCEPT ![i] = y]
          /\ published' = published + k + 1
          /\ FaultSeen(i, "loss", stats[i].sq # -1 /\ Evident(i, k, y))
    BY <1>0, <2>p, <2>1, PublishedFrames
  <2>3. sent' \in [Items -> Frames] /\ published' \in Nat
    BY <2>2 DEF TypeOK
  <2>4. Evident(i, k, y) \in BOOLEAN
    BY DEF Evident
  <2>5. since' \in [Items -> [faults : SUBSET Fault, gaps : Nat]] /\ faults' \in 0 .. MaxFaults
    BY <1>7, <2>2, <2>4 DEF Fault
  <2> QED
    BY <1>k, <2>2, <2>3, <2>5, CountTypes DEF TypeOK, GenFrameStatistics, CountsThen
<1>9. CASE FrameRepeated(i)
  <2>1. since' \in [Items -> [faults : SUBSET Fault, gaps : Nat]] /\ faults' \in 0 .. MaxFaults
    BY <1>7, <1>9 DEF FrameRepeated, Fault
  <2> QED
    BY <1>k, <1>0, <1>9, <2>1, CountTypes
    DEF FrameRepeated, TypeOK, GenFrameStatistics, CountsThen
<1>10. CASE FrameLate(i)
  <2>1. PICK y \in Frames : GenFrameStatistics(i, y)
    BY <1>0, <1>10, PublishedFrames DEF FrameLate
  <2>2. since' \in [Items -> [faults : SUBSET Fault, gaps : Nat]] /\ faults' \in 0 .. MaxFaults
    BY <1>7, <1>10 DEF FrameLate, Fault
  <2> QED
    BY <1>k, <1>10, <2>1, <2>2, CountTypes
    DEF FrameLate, TypeOK, GenFrameStatistics, CountsThen
<1> QED
  BY <1>1, <1>2, <1>3, <1>4, <1>5, <1>6, <1>8, <1>9, <1>10 DEF ReceiveStep

(* Types hold in every state: the statistics of any control block are      *)
(* whole numbers, and a handler that counts has a frame left to count.     *)
THEOREM StatisticsTypeCorrect == Spec => []TypeOK
<1>1. Init => TypeOK
  <2> SUFFICES ASSUME Init PROVE TypeOK
    OBVIOUS
  <2> USE StatisticsAssumption
  <2>1. Fresh \in Statistics
    <3>1. [e \in Error |-> 0] \in [Error -> Nat]
      OBVIOUS
    <3> QED
      BY <3>1 DEF Fresh, Statistics
  <2>2. receiver \in [Items -> ReceiverRecord] /\ LeftToCount
    BY DEF Init, ReceiverRecord, LeftToCount
  <2>3. sent \in [Items -> Frames]
    BY DEF Init, Frames
  <2>4. since \in [Items -> [faults : SUBSET Fault, gaps : Nat]]
    BY DEF Init
  <2>5. page \in [pc : PagePc, keys : 0 .. MaxKeys] /\ faults \in 0 .. MaxFaults
    BY DEF Init, PagePc
  <2>6. stats \in [Items -> Statistics]
    BY <2>1 DEF Init
  <2> QED
    BY <2>2, <2>3, <2>4, <2>5, <2>6 DEF Init, TypeOK
<1>2. TypeOK /\ [Next]_vars => TypeOK'
  <2>1. CASE UNCHANGED vars
    BY <2>1 DEF vars, network, TypeOK, LeftToCount, Frames
  <2> QED
    BY <2>1, PageTypes, ReceiveTypes DEF Next
<1> QED
  BY <1>1, <1>2, PTL DEF Spec

-----------------------------------------------------------------------------
(* The statistics change when a frame is counted and when they are reset.  *)
LEMMA StatisticsStep ==
  ASSUME TypeOK, Next
  PROVE  \/ UNCHANGED stats
         \/ ResetFrameStatistics
         \/ \E i \in Items, y \in Frames : stats' = [stats EXCEPT ![i] = Counted(stats[i], y)]
<1>0. kind \in Kinds /\ sent \in [Items -> Frames]
  BY DEF TypeOK
<1>1. CASE PageStep
  BY <1>1 DEF PageStep, EnterPage, ResetKey, SelectItem, ClearCachedData, ResetLocks,
     LeavePage, ModeQuits
<1>2. ASSUME NEW i \in Items, ReceiveStep(i)
      PROVE  \/ UNCHANGED stats
             \/ \E y \in Frames : GenFrameStatistics(i, y)
  <2>1. Late(sent[i]) \subseteq Frames /\ sent[i] \in Frames
    BY <1>0, PublishedFrames
  <2>2. \A k \in Nat : Published(sent[i], k) \subseteq Frames
    BY <1>0, PublishedFrames
  <2>3. FrameInOrder(i) => \E y \in Frames : GenFrameStatistics(i, y)
    BY <2>2 DEF FrameInOrder
  <2>4. FramesLost(i) => \E y \in Frames : GenFrameStatistics(i, y)
    <3>1. \A k \in 1 .. MaxLoss : k + 1 \in Nat
      BY StatisticsAssumption
    <3> QED
      BY <2>2, <3>1 DEF FramesLost
  <2>5. FrameRepeated(i) \/ FrameLate(i) => \E y \in Frames : GenFrameStatistics(i, y)
    BY <2>1 DEF FrameRepeated, FrameLate
  <2> QED
    BY <1>2, <2>3, <2>4, <2>5 DEF ReceiveStep, HandlerBegins, HandlerSkips,
       SetCachedCtrlBlk, StillCached, BatchDropped
<1> QED
  BY <1>1, <1>2 DEF Next, GenFrameStatistics, CountsThen

(* Nothing is counted under an error without a frame to compare with.      *)
Within(s) ==
  IF s.total = 0 THEN Errors(s) = 0 /\ s.sq = -1 ELSE Errors(s) < s.total

(* A frame is counted under one error at most, and the first one after a   *)
(* reset under none, wherever the reset falls between the frames.          *)
THEOREM ErrorsWithinFramesAlways == Spec => []ErrorsWithinFrames
<1> DEFINE Inv == \A i \in Items : Within(stats[i])
<1>1. Init => Inv
  <2>1. Fresh.total = 0 /\ Fresh.sq = -1 /\ \A e \in Error : Fresh.errors[e] = 0
    BY DEF Fresh
  <2>2. Errors(Fresh) = 0
    BY <2>1 DEF Errors, Error
  <2> QED
    BY <2>1, <2>2 DEF Init, Within
<1>2. TypeOK /\ Inv /\ [Next]_vars => Inv'
  <2> SUFFICES ASSUME TypeOK, Inv, Next PROVE Inv'
    BY DEF vars, Within, Errors
  <2>0. stats \in [Items -> Statistics] /\ item \in Items
    BY DEF TypeOK
  <2>1. CASE UNCHANGED stats
    BY <2>1 DEF Within, Errors
  <2>2. CASE ResetFrameStatistics
    <3>1. stats' = [stats EXCEPT ![item] = ResetData(stats[item])]
      BY <2>2 DEF ResetFrameStatistics
    <3>2. Within(ResetData(stats[item]))
      BY <2>0, ResetClean DEF Within
    <3> QED
      BY <2>0, <3>1, <3>2
  <2>3. ASSUME NEW i \in Items, NEW y \in Frames,
               stats' = [stats EXCEPT ![i] = Counted(stats[i], y)]
        PROVE  Inv'
    <3>1. stats[i].sq = -1 => Verdict(stats[i], y) \notin Error
      BY DEF Verdict, ParsingSmpIndex, ParsingStSqNum, Error
    <3>2. stats[i].total \in Nat
      BY <2>0 DEF Statistics
    <3>3. Within(Counted(stats[i], y))
      BY <2>0, <3>1, <3>2, CountedOnce DEF Within
    <3> QED
      BY <2>0, <2>3, <3>3
  <2> QED
    BY <2>1, <2>2, <2>3, StatisticsStep
<1>3. TypeOK /\ Inv => ErrorsWithinFrames
  BY DEF Within, ErrorsWithinFrames
<1> QED
  BY <1>1, <1>2, <1>3, StatisticsTypeCorrect, PTL DEF Spec

-----------------------------------------------------------------------------
(* The last frame counted is the last one sent, or none was counted yet.   *)
Tracked(i) ==
  stats[i].sq = -1 \/ (stats[i].st = sent[i].st /\ stats[i].sq = sent[i].sq)

(* Handlers are busy with the current control block only, and those that   *)
(* count do so for the cached one, which is the current one once the page  *)
(* is about to show it.                                                    *)
HandlersFollow ==
  /\ page.pc # "away" => mode = "STATIC"
  /\ \A i \in Items :
       /\ receiver[i].pc # "idle" => receiver[i].item = item
       /\ receiver[i].pc \in {"frames", "count"} /\ page.pc \in {"reset", "locked", "shown"}
            => cached = item

(* What the page shows follows the publisher frame by frame, and tells the *)
(* gaps, until a frame comes late; without a fault there is no error.      *)
ShownFollows ==
  page.pc = "shown" =>
    /\ "late" \notin since[item].faults
         => Tracked(item) /\ Errors(stats[item]) >= since[item].gaps
    /\ since[item].faults = {} => Errors(stats[item]) = 0

(* The frame after the last one counted is no error, over the wrap of the  *)
(* sample counter and over a change of state too.                          *)
LEMMA InOrderIsNoError ==
  ASSUME kind \in Kinds, NEW s \in Statistics, NEW x \in Frames, NEW y \in Published(x, 1),
         s.sq = -1 \/ (s.st = x.st /\ s.sq = x.sq)
  PROVE  Verdict(s, y) = "none"
<1> USE StatisticsAssumption
<1>1. CASE s.sq = -1
  BY <1>1 DEF Verdict, ParsingSmpIndex, ParsingStSqNum
<1>2. CASE s.sq # -1 /\ kind = "SMV"
  <2>1. x.sq \in 0 .. Rate - 1 /\ s.sq = x.sq
    BY <1>2 DEF Frames
  <2>2. y.sq = (x.sq + 1) % Rate
    BY <1>2 DEF Published
  <2>3. CASE x.sq = Rate - 1
    <3>1. y.sq = Rate % Rate /\ Rate % Rate = 0
      BY <2>2, <2>3
    <3> QED
      BY <1>2, <2>1, <2>3, <3>1 DEF Verdict, ParsingSmpIndex, SqVerdict
  <2>4. CASE x.sq # Rate - 1
    <3>1. y.sq = x.sq + 1
      BY <2>1, <2>2, <2>4
    <3> QED
      BY <1>2, <2>1, <3>1 DEF Verdict, ParsingSmpIndex, SqVerdict
  <2> QED
    BY <2>3, <2>4
<1>3. CASE s.sq # -1 /\ kind = "GOOSE"
  <2>1. x.st \in Nat /\ x.sq \in Nat /\ s.st = x.st /\ s.sq = x.sq
    BY <1>3 DEF Frames
  <2>2. \/ y = [st |-> x.st, sq |-> x.sq + 1]
        \/ y = [st |-> x.st + 1, sq |-> 0]
    BY <1>3, <2>1 DEF Published
  <2> QED
    BY <1>3, <2>1, <2>2 DEF Verdict, ParsingStSqNum, SqVerdict, StVerdict
<1> QED
  BY <1>1, <1>2, <1>3

(* A gap the counters can tell is an error: over the wrap of the sample    *)
(* counter a frame that was missed passes for a misorder or a repetition.  *)
LEMMA EvidentIsError ==
  ASSUME TypeOK, NEW i \in Items, NEW k \in Nat \ {0}, NEW y \in Published(sent[i], k + 1),
         Tracked(i), stats[i].sq # -1, Evident(i, k, y)
  PROVE  Verdict(stats[i], y) \in Error
<1> USE StatisticsAssumption
<1> DEFINE s == stats[i]
           x == sent[i]
<1>0. /\ kind \in Kinds /\ x \in Frames /\ s.st = x.st /\ s.sq = x.sq /\ s.sq # -1
      /\ y \in Published(x, k + 1)
  BY DEF TypeOK, Tracked
<1>1. CASE kind = "SMV"
  <2>1. x.sq \in 0 .. Rate - 1 /\ k < Rate /\ (y.sq # 0 \/ x.sq = 0)
    BY <1>0, <1>1 DEF Frames, Evident
  <2>2. y.sq = (x.sq + (k + 1)) % Rate
    BY <1>0, <1>1 DEF Published
  <2> HIDE DEF s, x
  <2> DEFINE n == x.sq + (k + 1)
  <2>3. \/ n < Rate /\ y.sq = n
        \/ n >= Rate /\ y.sq = n - Rate
    <3>1. n \in Nat /\ n < 2 * Rate
      BY <2>1
    <3>2. CASE n < Rate
      BY <2>2, <3>1, <3>2
    <3>3. CASE n >= Rate
      <4>1. n % Rate = n - Rate
        BY <3>1, <3>3
      <4> QED
        BY <2>2, <3>3, <4>1
    <3> QED
      BY <3>1, <3>2, <3>3
  <2>4. \/ y.sq = s.sq
        \/ y.sq > s.sq + 1
        \/ y.sq < s.sq /\ y.sq # 0
    BY <1>0, <2>1, <2>3
  <2>5. SqVerdict(s, y) \in Error
    BY <2>4 DEF SqVerdict, Error
  <2> QED
    BY <1>0, <1>1, <2>5 DEF Verdict, ParsingSmpIndex, s
<1>2. CASE kind = "GOOSE"
  <2>1. x.st \in Nat /\ x.sq \in Nat
    BY <1>0, <1>2 DEF Frames
  <2>2. \/ y.st = x.st /\ y.sq = x.sq + (k + 1)
        \/ \E e \in (1 .. k + 1) \X (0 .. k + 1 - 1) : y.st = x.st + e[1]
    BY <1>0, <1>2 DEF Published
  <2>3. y.st \in Nat /\ y.sq \in Nat
    <3>1. y \in Frames
      BY <1>0, PublishedFrames
    <3> QED
      BY <1>2, <3>1 DEF Frames
  <2>4. y.st = x.st \/ y.st > x.st + 1
    BY <1>0, <1>2 DEF Evident
  <2>5. CASE y.st = x.st
    <3>1. y.sq = x.sq + (k + 1)
      BY <2>1, <2>2, <2>5
    <3>2. SqVerdict(s, y) = "lost"
      BY <1>0, <2>1, <3>1 DEF SqVerdict
    <3> QED
      BY <1>0, <1>2, <2>1, <2>5, <3>2 DEF Verdict, ParsingStSqNum, Error
  <2>6. CASE y.st > x.st + 1
    BY <1>0, <1>2, <2>1, <2>3, <2>6 DEF Verdict, ParsingStSqNum, StVerdict, Error
  <2> QED
    BY <2>4, <2>5, <2>6
<1> QED
  BY <1>0, <1>1, <1>2

(* Page and receive threads keep the handlers with the control block: the  *)
(* page changes what is received only while none is busy.                  *)
LEMMA HandlersKeep ==
  ASSUME ReceiveFirst, TypeOK, HandlersFollow, Next
  PROVE  HandlersFollow'
<1>0. receiver \in [Items -> ReceiverRecord] /\ page \in [pc : PagePc, keys : 0 .. MaxKeys]
  BY DEF TypeOK
<1>1. CASE EnterPage \/ SelectItem \/ ClearCachedData
  <2>1. (\A i \in Items : receiver[i].pc = "idle") /\ UNCHANGED receiver
    BY <1>1 DEF EnterPage, SelectItem, ClearCachedData, PageTurn
  <2>2. page'.pc # "away" => mode' = "STATIC"
    BY <1>0, <1>1 DEF EnterPage, SelectItem, ClearCachedData, HandlersFollow, PageFrom, KeyFrom
  <2> QED
    BY <2>1, <2>2 DEF HandlersFollow
<1>2. CASE ResetKey \/ ResetLocks \/ ResetFrameStatistics
  <2>1. UNCHANGED <<receiver, mode, item, cached>>
        /\ page.pc \in {"reset", "locked", "shown"}
    BY <1>2 DEF ResetKey, ResetLocks, ResetFrameStatistics, PageFrom, KeyFrom
  <2> QED
    BY <2>1 DEF HandlersFollow
<1>3. CASE LeavePage \/ ModeQuits
  <2>1. UNCHANGED <<receiver, item>>
    BY <1>3 DEF LeavePage, ModeQuits
  <2>2. page'.pc \in {"quit", "away"} /\ (page'.pc = "quit" => mode' = mode /\ page.pc = "shown")
    BY <1>0, <1>3 DEF LeavePage, ModeQuits, PageFrom, KeyFrom
  <2> QED
    BY <2>1, <2>2 DEF HandlersFollow
<1>4. ASSUME NEW i \in Items, ReceiveStep(i) PROVE HandlersFollow'
  <2>0. UNCHANGED <<mode, item, page>>
    BY <1>4 DEF ReceiveStep, HandlerBegins, HandlerSkips, SetCachedCtrlBlk, StillCached,
       BatchDropped, FrameInOrder, FramesLost, FrameRepeated, FrameLate,
       GenFrameStatistics, CountsThen
  <2>1. CASE HandlerBegins(i)
    BY <1>0, <2>0, <2>1 DEF HandlerBegins, HandlersFollow
  <2>2. CASE HandlerSkips(i)
    BY <2>0, <2>2 DEF HandlerSkips, HandlersFollow
  <2>3. CASE SetCachedCtrlBlk(i)
    <3>1. cached' = item
      BY <2>3 DEF SetCachedCtrlBlk, HandlersFollow
    <3>2. \A j \in Items : receiver'[j].pc # "idle" => receiver'[j].item = item
      <4>1. receiver[i].pc = "cache" /\ (ReceiverGoto(i, "frames") \/ HandlerEnds(i))
        BY <2>3 DEF SetCachedCtrlBlk
      <4>2. CASE ReceiverGoto(i, "frames")
        BY <1>0, <4>1, <4>2 DEF ReceiverGoto, HandlersFollow
      <4>3. CASE HandlerEnds(i)
        BY <1>0, <4>1, <4>3 DEF HandlerEnds, HandlersFollow
      <4> QED
        BY <4>1, <4>2, <4>3
    <3> QED
      BY <2>0, <3>1, <3>2 DEF HandlersFollow
  <2>4. CASE StillCached(i)
    BY <1>0, <2>0, <2>4 DEF StillCached, HandlersFollow, ReceiverGoto
  <2>5. CASE BatchDropped(i)
    BY <1>0, <2>0, <2>5 DEF BatchDropped, HandlersFollow, HandlerEnds
  <2>6. ASSUME NEW y, GenFrameStatistics(i, y) PROVE HandlersFollow'
    <3>1. cached' = cached /\ receiver[i].pc = "count"
      BY <2>6 DEF GenFrameStatistics, CountsThen
    <3>2. \/ receiver' = [receiver EXCEPT ![i] = [pc |-> "idle", item |-> None, left |-> 0]]
          \/ receiver' = [receiver EXCEPT ![i] =
                [pc |-> "frames", item |-> receiver[i].item, left |-> receiver[i].left - 1]]
      BY <2>6 DEF GenFrameStatistics, CountsThen, HandlerEnds
    <3> QED
      BY <1>0, <2>0, <3>1, <3>2 DEF HandlersFollow
  <2> QED
    BY <1>4, <2>1, <2>2, <2>3, <2>4, <2>5, <2>6
    DEF ReceiveStep, FrameInOrder, FramesLost, FrameRepeated, FrameLate
<1> QED
  BY <1>1, <1>2, <1>3, <1>4 DEF Next, PageStep

(* A frame of the publisher keeps the page with it, unless it comes late.  *)
LEMMA CountFollows ==
  ASSUME TypeOK, NEW y \in Frames, stats' = [stats EXCEPT ![item] = Counted(stats[item], y)],
         sent' = [sent EXCEPT ![item] = y], item' = item, kind' = kind, page.pc = "shown",
         ShownFollows, NEW gap \in BOOLEAN,
         since'[item].gaps = since[item].gaps + IF gap THEN 1 ELSE 0,
         since[item].faults \subseteq since'[item].faults,
         gap /\ Tracked(item) => Verdict(stats[item], y) \in Error,
         since'[item].faults = {} /\ Tracked(item) => Verdict(stats[item], y) \notin Error
  PROVE  ShownFollows'
<1>0. /\ item \in Items /\ stats \in [Items -> Statistics] /\ sent \in [Items -> Frames]
      /\ since[item].gaps \in Nat
  BY DEF TypeOK
<1>1. /\ Errors(Counted(stats[item], y)) = Errors(stats[item])
            + IF Verdict(stats[item], y) \in Error THEN 1 ELSE 0
      /\ Errors(stats[item]) \in Nat
      /\ Counted(stats[item], y).st = y.st /\ Counted(stats[item], y).sq = y.sq
  BY <1>0, CountedOnce
<1>2. stats'[item'] = Counted(stats[item], y) /\ sent'[item'] = y
  BY <1>0
<1>3. Tracked(item)'
  BY <1>1, <1>2 DEF Tracked
<1>4. "late" \notin since'[item].faults => Errors(stats'[item']) >= since'[item].gaps
  BY <1>0, <1>1, <1>2 DEF ShownFollows
<1>5. since'[item].faults = {} => Errors(stats'[item']) = 0
  <2>1. since'[item].faults = {} => since[item].faults = {} /\ "late" \notin since[item].faults
    OBVIOUS
  <2> QED
    BY <1>1, <1>2, <2>1 DEF ShownFollows
<1>6. Errors(stats[item])' = Errors(stats'[item'])
  BY DEF Errors
<1> QED
  BY <1>3, <1>4, <1>5, <1>6 DEF ShownFollows

(* The handlers do not miss a frame of the control block on show, and the  *)
(* frames they count are in order.                                         *)
LEMMA ShownKeeps ==
  ASSUME ReceiveFirst, TypeOK, HandlersFollow, ShownFollows, Next
  PROVE  ShownFollows'
<1>0. /\ kind \in Kinds /\ item \in Items /\ stats \in [Items -> Statistics]
      /\ sent \in [Items -> Frames] /\ receiver \in [Items -> ReceiverRecord]
      /\ page \in [pc : PagePc, keys : 0 .. MaxKeys]
      /\ since \in [Items -> [faults : SUBSET Fault, gaps : Nat]]
  BY DEF TypeOK
<1>1. CASE ResetFrameStatistics
  <2>1. stats'[item] = ResetData(stats[item]) /\ item' = item
        /\ since'[item] = [faults |-> {}, gaps |-> 0]
    BY <1>0, <1>1 DEF ResetFrameStatistics
  <2>2. Errors(stats'[item']) = 0 /\ stats'[item'].sq = -1
    BY <1>0, <2>1, ResetClean
  <2>3. Errors(stats[item])' = Errors(stats'[item'])
    BY DEF Errors
  <2> QED
    BY <2>1, <2>2, <2>3 DEF ShownFollows, Tracked
<1>2. CASE PageStep /\ ~ResetFrameStatistics
  <2>1. page'.pc # "shown"
    BY <1>0, <1>2 DEF PageStep, EnterPage, ResetKey, SelectItem, ClearCachedData, ResetLocks,
       LeavePage, ModeQuits, PageFrom, KeyFrom
  <2> QED
    BY <2>1 DEF ShownFollows
<1>3. ASSUME NEW i \in Items, ReceiveStep(i) PROVE ShownFollows'
  <2>0. UNCHANGED <<item, page, kind>>
    BY <1>3 DEF ReceiveStep, HandlerBegins, HandlerSkips, SetCachedCtrlBlk, StillCached,
       BatchDropped, FrameInOrder, FramesLost, FrameRepeated, FrameLate,
       GenFrameStatistics, CountsThen
  <2>1. SUFFICES ASSUME page.pc = "shown" PROVE ShownFollows'
    BY <2>0 DEF ShownFollows
  <2>k. stats'[item] = stats[item] /\ sent'[item] = sent[item] /\ since'[item] = since[item]
          => ShownFollows'
    BY <2>0 DEF ShownFollows, Tracked, Errors
  <2>2. CASE HandlerBegins(i) \/ StillCached(i)
    BY <2>2, <2>k DEF HandlerBegins, StillCached, network
  <2>3. ~HandlerSkips(i)
    BY <2>1 DEF HandlerSkips, HandlersFollow
  <2>4. CASE SetCachedCtrlBlk(i) \/ BatchDropped(i)
    <3>1. UNCHANGED <<stats, since>>
      BY <2>4 DEF SetCachedCtrlBlk, BatchDropped
    <3>2. sent'[item] = sent[item]
      <4>1. CASE SetCachedCtrlBlk(i) /\ receiver[i].item = i
        BY <4>1 DEF SetCachedCtrlBlk
      <4>2. CASE SetCachedCtrlBlk(i) /\ receiver[i].item # i
        <5>1. item # i
          BY <4>2 DEF SetCachedCtrlBlk, HandlersFollow
        <5> QED
          BY <1>0, <4>2, <5>1 DEF SetCachedCtrlBlk, Passed
      <4>3. ~BatchDropped(i)
        BY <2>1 DEF BatchDropped, HandlersFollow
      <4> QED
        BY <2>4, <4>1, <4>2, <4>3
    <3> QED
      BY <2>k, <3>1, <3>2
  <2>5. CASE i # item /\ (FrameInOrder(i) \/ FramesLost(i) \/ FrameRepeated(i) \/ FrameLate(i))
    <3>1. \E y : GenFrameStatistics(i, y)
      BY <2>5 DEF FrameInOrder, FramesLost, FrameRepeated, FrameLate
    <3>2. stats'[item] = stats[item]
      BY <1>0, <2>5, <3>1 DEF GenFrameStatistics, CountsThen
    <3>3. sent'[item] = sent[item]
      BY <1>0, <2>5 DEF FrameInOrder, FramesLost, FrameRepeated, FrameLate
    <3>4. since'[item] = since[item]
      BY <1>0, <2>5 DEF FrameInOrder, FramesLost, FrameRepeated, FrameLate, FaultSeen
    <3> QED
      BY <2>k, <3>2, <3>3, <3>4
  <2>6. CASE i = item /\ FrameInOrder(i)
    <3>1. PICK y \in Published(sent[item], 1) :
            /\ stats' = [stats EXCEPT ![item] = Counted(stats[item], y)]
            /\ sent' = [sent EXCEPT ![item] = y] /\ UNCHANGED since
      BY <2>6 DEF FrameInOrder, GenFrameStatistics, CountsThen
    <3>2. y \in Frames /\ stats[item] \in Statistics /\ sent[item] \in Frames
          /\ since[item].gaps \in Nat
      BY <1>0, <3>1, PublishedFrames
    <3>3. Tracked(item) => Verdict(stats[item], y) \notin Error
      <4>1. Tracked(item) => Verdict(stats[item], y) = "none"
        BY <1>0, <3>1, <3>2, InOrderIsNoError DEF Tracked
      <4> QED
        BY <4>1 DEF Error
    <3>4. since'[item].gaps = since[item].gaps + IF FALSE THEN 1 ELSE 0
      BY <3>1, <3>2
    <3> QED
      BY <2>0, <2>1, <3>1, <3>2, <3>3, <3>4, CountFollows
  <2>7. CASE i = item /\ FramesLost(i)
    <3>1. PICK k \in 1 .. MaxLoss : \E y \in Published(sent[item], k + 1) :
            /\ GenFrameStatistics(item, y) /\ sent' = [sent EXCEPT ![item] = y]
            /\ FaultSeen(item, "loss", stats[item].sq # -1 /\ Evident(item, k, y))
      BY <2>7 DEF FramesLost
    <3>2. PICK y \in Published(sent[item], k + 1) :
            /\ GenFrameStatistics(item, y) /\ sent' = [sent EXCEPT ![item] = y]
            /\ FaultSeen(item, "loss", stats[item].sq # -1 /\ Evident(item, k, y))
      BY <3>1
    <3>3. k \in Nat \ {0} /\ k + 1 \in Nat
      BY StatisticsAssumption
    <3>4. y \in Frames
      BY <1>0, <3>2, <3>3, PublishedFrames
    <3>5. stats' = [stats EXCEPT ![item] = Counted(stats[item], y)]
      BY <3>2 DEF GenFrameStatistics, CountsThen
    <3> DEFINE gap == stats[item].sq # -1 /\ Evident(item, k, y)
    <3>6. gap \in BOOLEAN
      BY DEF Evident
    <3>7. gap /\ Tracked(item) => Verdict(stats[item], y) \in Error
      BY <1>0, <3>2, <3>3, EvidentIsError
    <3> HIDE DEF gap
    <3>8. /\ since'[item].faults = since[item].faults \cup {"loss"}
          /\ since'[item].gaps = since[item].gaps + IF gap THEN 1 ELSE 0
      BY <1>0, <3>2 DEF FaultSeen, gap
    <3>9. since[item].faults \subseteq since'[item].faults /\ since'[item].faults # {}
      BY <3>8
    <3> QED
      BY <2>0, <2>1, <3>2, <3>4, <3>5, <3>6, <3>7, <3>8, <3>9, CountFollows
  <2>8. CASE i = item /\ FrameRepeated(i)
    <3>1. /\ stats' = [stats EXCEPT ![item] = Counted(stats[item], sent[item])]
          /\ sent' = [sent EXCEPT ![item] = sent[item]] /\ sent[item] \in Frames
      BY <1>0, <2>8 DEF FrameRepeated, GenFrameStatistics, CountsThen
    <3>2. /\ since'[item].faults = since[item].faults \cup {"duplicate"}
          /\ since'[item].gaps = since[item].gaps + IF FALSE THEN 1 ELSE 0
      BY <1>0, <2>8 DEF FrameRepeated, FaultSeen
    <3>3. since[item].faults \subseteq since'[item].faults /\ since'[item].faults # {}
      BY <3>2
    <3> QED
      BY <2>0, <2>1, <3>1, <3>2, <3>3, CountFollows
  <2>9. CASE i = item /\ FrameLate(i)
    <3>1. "late" \in since'[item].faults
      BY <1>0, <2>9 DEF FrameLate, FaultSeen
    <3> QED
      BY <2>0, <3>1 DEF ShownFollows
  <2> QED
    BY <1>3, <2>2, <2>3, <2>4, <2>5, <2>6, <2>7, <2>8, <2>9 DEF ReceiveStep
<1> QED
  BY <1>1, <1>2, <1>3 DEF Next

(* Handlers and page go on together.                                       *)
LEMMA FollowsAlways ==
  ASSUME ReceiveFirst
  PROVE  Spec => [](TypeOK /\ HandlersFollow /\ ShownFollows)
<1>1. Init => HandlersFollow /\ ShownFollows
  BY DEF Init, HandlersFollow, ShownFollows
<1>2. TypeOK /\ HandlersFollow /\ ShownFollows /\ [Next]_vars
        => HandlersFollow' /\ ShownFollows'
  <2>1. CASE UNCHANGED vars
    BY <2>1 DEF vars, network, HandlersFollow, ShownFollows, Tracked, Errors
  <2> QED
    BY <2>1, HandlersKeep, ShownKeeps
<1> QED
  BY <1>1, <1>2, StatisticsTypeCorrect, PTL DEF Spec

(* Where receive threads go first, what the page shows without a fault of  *)
(* the network has no error in it.                                         *)
THEOREM NoFalseAlarmAlways ==
  ASSUME ReceiveFirst
  PROVE  Spec => []NoFalseAlarm
<1>1. ShownFollows => NoFalseAlarm
  BY DEF ShownFollows, NoFalseAlarm
<1> QED
  BY <1>1, FollowsAlways, PTL

(* Then the page shows an error for each gap the counters can tell, as     *)
(* long as no frame came late.                                             *)
THEOREM LossesNoticedAlways ==
  ASSUME ReceiveFirst
  PROVE  Spec => []LossesNoticed
<1>1. ShownFollows => LossesNoticed
  BY DEF ShownFollows, LossesNoticed
<1> QED
  BY <1>1, FollowsAlways, PTL
=============================================================================
