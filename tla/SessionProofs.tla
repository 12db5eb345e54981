--------------------------- MODULE SessionProofs ---------------------------
(***************************************************************************)
(* Session for every set of subscribers, killers and resizers, every queue *)
(* and scrollback capacity and every window: the type invariant, no        *)
(* registration in the nil map, no orphaned subscriber, an exit frame for  *)
(* everyone, every output delivered once and in order, the recorded        *)
(* dimensions those of the console, and, of all this, the part that the    *)
(* subscribers see: it is what Feed promises.                              *)
(***************************************************************************)
EXTENDS Session, SequenceTheorems, TLAPS

-----------------------------------------------------------------------------
(* Types *)

LEMMA FrameTypes ==
  /\ \A d \in Seq(Chunk) : Replay(d) \in Frame
  /\ \A c \in Chunk : Out(c) \in Frame
  /\ Exit \in Frame
BY DEF Replay, Out, Exit, Frame

LEMMA RetainType ==
  ASSUME NEW q \in Seq(Chunk)
  PROVE  Retain(q) \in Seq(Chunk)
BY SessionAssumption DEF Retain

\* Appending to a queue that has room keeps it within its channel.
LEMMA EnqueueType ==
  ASSUME NEW q \in Seq(Frame), NEW f \in Frame, Len(q) < QueueCap
  PROVE  Append(q, f) \in Seq(Frame) /\ Len(Append(q, f)) <= QueueCap
BY SessionAssumption

LEMMA DequeueType ==
  ASSUME NEW q \in Seq(Frame), q # << >>, Len(q) <= QueueCap
  PROVE  Head(q) \in Frame /\ Tail(q) \in Seq(Frame) /\ Len(Tail(q)) <= QueueCap
BY SessionAssumption

LEMMA ChunkType == ASSUME NEW n \in Nat, NEW kind \in Kind PROVE [n |-> n, kind |-> kind] \in Chunk
BY DEF Chunk

LEMMA InitType == Init => TypeOK
<1> SUFFICES ASSUME Init PROVE TypeOK
  OBVIOUS
<1>1. chunk \in Chunk
  BY ChunkType, SessionAssumption DEF Init
<1>2. InitDim \in ValidDim /\ 0 <= QueueCap
  BY SessionAssumption
<1>3. << >> \in Seq(Chunk) /\ << >> \in Seq(Frame) /\ Len(<< >>) = 0
  OBVIOUS
<1>4. /\ queue \in [Sub -> Seq(Frame)] /\ sent \in [Sub -> Seq(Frame)]
      /\ \A s \in Sub : Len(queue[s]) <= QueueCap
  BY <1>2, <1>3 DEF Init
<1>5. since \in [Sub -> Nat] /\ base \in [Sub -> Nat] /\ skipped \in [Sub -> SUBSET Chunk]
  BY DEF Init
<1>6. /\ subPc \in [Sub -> {"idle", "joining", "attached", "leaving", "gone"}]
      /\ killPc \in [Killer -> {"idle", "close", "done"}]
      /\ resizePc \in [Resizer -> {"idle", "apply", "record"}]
      /\ want \in [Resizer -> ValidDim]
  BY <1>2 DEF Init
<1>7. QED
  BY <1>1, <1>2, <1>3, <1>4, <1>5, <1>6 DEF Init, TypeOK

LEMMA PumpType == TypeOK /\ Pump => TypeOK'
<1> SUFFICES ASSUME TypeOK, Pump PROVE TypeOK'
  OBVIOUS
<1> USE DEF ptyVars, fieldVars, subVars, pumpVars, exitVars, callerVars, history
<1>1. ASSUME NEW kind \in Kind, PumpRead(kind) PROVE TypeOK'
  <2>1. chunk' \in Chunk
    <3>1. emitted + 1 \in Nat
      BY DEF TypeOK
    <3>2. QED
      BY <1>1, <3>1, ChunkType DEF PumpRead
  <2>2. repaintDue' \in BOOLEAN
    BY <1>1 DEF PumpRead, TypeOK
  <2>3. emitted' \in Nat
    BY <1>1 DEF PumpRead, TypeOK
  <2>4. QED
    BY <1>1, <2>1, <2>2, <2>3 DEF PumpRead, TypeOK
<1>2. CASE PumpStop
  BY <1>2 DEF PumpStop, TypeOK
<1>3. CASE Suppress
  BY <1>3 DEF Suppress, TypeOK
<1>4. CASE Publish
  <2> DEFINE skip == {s \in subs : Fresh(s)}
             offered == subs \ skip
  <2>1. PICK got \in SUBSET offered :
          /\ \A s \in got : HasRoom(s)
          /\ queue' = [s \in Sub |-> IF s \in got THEN Append(queue[s], Out(chunk)) ELSE queue[s]]
          /\ subs' = subs \ (offered \ got)
          /\ dropped' = offered \ got
    BY <1>4 DEF Publish, Selected, Without
  <2>2. \A s \in Sub : queue'[s] \in Seq(Frame) /\ Len(queue'[s]) <= QueueCap
    <3> SUFFICES ASSUME NEW s \in Sub
                 PROVE  queue'[s] \in Seq(Frame) /\ Len(queue'[s]) <= QueueCap
      OBVIOUS
    <3>1. CASE s \in got
      <4>1. Len(queue[s]) < QueueCap /\ queue[s] \in Seq(Frame) /\ Out(chunk) \in Frame
        BY <2>1, <3>1, FrameTypes DEF HasRoom, TypeOK
      <4>2. queue'[s] = Append(queue[s], Out(chunk))
        BY <2>1, <3>1
      <4>3. QED
        BY <4>1, <4>2, EnqueueType
    <3>2. CASE s \notin got
      BY <2>1, <3>2 DEF TypeOK
    <3>3. QED
      BY <3>1, <3>2
  <2>3. queue' \in [Sub -> Seq(Frame)]
    <3>1. queue' = [s \in Sub |-> queue'[s]]
      BY <2>1
    <3>2. QED
      BY <2>2, <3>1
  <2>4. subs' \subseteq Sub /\ dropped' \subseteq Sub
    BY <2>1 DEF TypeOK
  <2>5. Append(scrollback, chunk) \in Seq(Chunk) /\ published' \in Seq(Chunk)
    BY <1>4 DEF Publish, TypeOK
  <2>6. scrollback' \in Seq(Chunk)
    BY <1>4, <2>5, RetainType DEF Publish
  <2>7. skipped' \in [Sub -> SUBSET Chunk]
    BY <1>4 DEF Publish, TypeOK
  <2>8. repaintUntil' \in Nat
    BY <1>4 DEF Publish, TypeOK
  <2>9. QED
    BY <1>4, <2>2, <2>3, <2>4, <2>5, <2>6, <2>7, <2>8 DEF Publish, TypeOK
<1>5. CASE PumpCancel
  BY <1>5 DEF PumpCancel, TypeOK
<1>6. QED
  BY <1>1, <1>2, <1>3, <1>4, <1>5 DEF Pump

LEMMA WaitExitType == TypeOK /\ WaitExit => TypeOK'
<1> SUFFICES ASSUME TypeOK, WaitExit PROVE TypeOK'
  OBVIOUS
<1> USE DEF ptyVars, fieldVars, subVars, pumpVars, exitVars, callerVars, history
<1>1. CASE ExitRecord
  BY <1>1 DEF ExitRecord, TypeOK
<1>2. CASE FanoutSnapshot
  BY <1>2 DEF FanoutSnapshot, TypeOK
<1>3. CASE FanoutRemove \/ FanoutCancel
  BY <1>3 DEF FanoutRemove, Without, FanoutCancel, TypeOK
<1>4. CASE ExitCollect
  BY <1>4 DEF ExitCollect, TypeOK
<1>5. CASE ExitDone
  BY <1>5 DEF ExitDone, TypeOK
<1>6. ASSUME NEW s \in Sub, FanoutSend(s) PROVE TypeOK'
  <2>1. Append(queue[s], Exit) \in Seq(Frame) /\ Len(Append(queue[s], Exit)) <= QueueCap
    BY <1>6, EnqueueType, FrameTypes DEF FanoutSend, HasRoom, TypeOK
  <2>2. queue' \in [Sub -> Seq(Frame)] /\ \A z \in Sub : Len(queue'[z]) <= QueueCap
    BY <1>6, <2>1 DEF FanoutSend, TypeOK
  <2>3. QED
    BY <1>6, <2>2 DEF FanoutSend, TypeOK
<1>7. ASSUME NEW s \in Sub, FanoutSkip(s) PROVE TypeOK'
  BY <1>7 DEF FanoutSkip, TypeOK
<1>8. ASSUME NEW s \in Sub, FanoutEvict(s) PROVE TypeOK'
  BY <1>8 DEF FanoutEvict, TypeOK
<1>9. ASSUME NEW s \in Sub, ExitCancel(s) PROVE TypeOK'
  BY <1>9 DEF ExitCancel, TypeOK
<1>10. QED
  BY <1>1, <1>2, <1>3, <1>4, <1>5, <1>6, <1>7, <1>8, <1>9 DEF WaitExit

LEMMA OwnerType == ASSUME TypeOK, NEW s \in Sub, Owner(s) PROVE TypeOK'
<1> USE DEF ptyVars, fieldVars, subVars, pumpVars, exitVars, callerVars, history
<1>1. CASE SubscribeBegin(s)
  BY <1>1 DEF SubscribeBegin, TypeOK
<1>2. CASE SubscribeClosed(s)
  BY <1>2 DEF SubscribeClosed, TypeOK
<1>3. CASE SubscribeOpen(s)
  <2>1. Replay(scrollback) \in Frame
    BY FrameTypes DEF TypeOK
  <2>2. <<Replay(scrollback)>> \in Seq(Frame) /\ Len(<<Replay(scrollback)>>) <= QueueCap
    BY <2>1, SessionAssumption
  <2>3. queue' \in [Sub -> Seq(Frame)] /\ \A z \in Sub : Len(queue'[z]) <= QueueCap
    BY <1>3, <2>2 DEF SubscribeOpen, TypeOK
  <2>4. Len(published) \in Nat
    BY DEF TypeOK
  <2>5. QED
    BY <1>3, <2>3, <2>4 DEF SubscribeOpen, TypeOK
<1>4. CASE Receive(s)
  <2>1. /\ Head(queue[s]) \in Frame /\ Tail(queue[s]) \in Seq(Frame)
        /\ Len(Tail(queue[s])) <= QueueCap
    BY <1>4, DequeueType DEF Receive, TypeOK
  <2>2. queue' \in [Sub -> Seq(Frame)] /\ \A z \in Sub : Len(queue'[z]) <= QueueCap
    BY <1>4, <2>1 DEF Receive, TypeOK
  <2>3. sent' \in [Sub -> Seq(Frame)]
    BY <1>4, <2>1 DEF Receive, TypeOK
  <2>4. QED
    BY <1>4, <2>2, <2>3 DEF Receive, TypeOK
<1>5. CASE ContextEnd(s)
  BY <1>5 DEF ContextEnd, TypeOK
<1>6. CASE Unsubscribe(s)
  BY <1>6 DEF Unsubscribe, Without, TypeOK
<1>7. CASE UnsubscribeCancel(s)
  BY <1>7 DEF UnsubscribeCancel, TypeOK
<1>8. QED
  BY <1>1, <1>2, <1>3, <1>4, <1>5, <1>6, <1>7 DEF Owner

LEMMA CallerType ==
  ASSUME TypeOK,
         (\E k \in Killer : Kill(k)) \/ (\E r \in Resizer : Resize(r))
  PROVE  TypeOK'
<1> USE DEF ptyVars, fieldVars, subVars, pumpVars, exitVars, callerVars, history
<1>1. ASSUME NEW k \in Killer, Kill(k) PROVE TypeOK'
  <2>1. killPc' \in [Killer -> {"idle", "close", "done"}]
    BY <1>1 DEF Kill, KillClosed, KillMark, KillClose, TypeOK
  <2>2. CASE KillClosed(k)
    BY <2>1, <2>2 DEF KillClosed, TypeOK
  <2>3. CASE KillMark(k)
    BY <2>1, <2>3 DEF KillMark, TypeOK
  <2>4. CASE KillClose(k)
    <3>1. ptyOpen' \in BOOLEAN /\ shellAlive' \in BOOLEAN
      BY <2>4 DEF KillClose
    <3>2. UNCHANGED <<ptyDim, repaintDue, emitted, fieldVars, subVars, pumpVars, exitVars,
                      resizePc, want, resizes, clock, history>>
      BY <2>4 DEF KillClose
    <3>3. QED
      BY <2>1, <3>1, <3>2 DEF TypeOK
  <2>5. QED
    BY <1>1, <2>2, <2>3, <2>4 DEF Kill
<1>2. ASSUME NEW r \in Resizer, NEW d \in Dim, ResizeCheck(r, d) PROVE TypeOK'
  <2>1. resizePc' \in [Resizer -> {"idle", "apply", "record"}] /\ want' \in [Resizer -> ValidDim]
    BY <1>2 DEF ResizeCheck, TypeOK
  <2>2. resizes' \in Nat
    BY <1>2 DEF ResizeCheck, TypeOK
  <2>3. QED
    BY <1>2, <2>1, <2>2 DEF ResizeCheck, TypeOK
<1>3. ASSUME NEW r \in Resizer, ResizeApply(r) \/ ResizeFail(r) PROVE TypeOK'
  <2>1. resizePc' \in [Resizer -> {"idle", "apply", "record"}]
    BY <1>3 DEF ResizeApply, ResizeFail, TypeOK
  <2>2. want[r] \in ValidDim
    BY DEF TypeOK
  <2>3. CASE ResizeApply(r)
    BY <2>1, <2>2, <2>3 DEF ResizeApply, TypeOK
  <2>4. CASE ResizeFail(r)
    BY <2>1, <2>4 DEF ResizeFail, TypeOK
  <2>5. QED
    BY <1>3, <2>3, <2>4
<1>4. ASSUME NEW r \in Resizer, ResizeRecord(r) PROVE TypeOK'
  BY <1>4, SessionAssumption DEF ResizeRecord, TypeOK
<1>5. QED
  BY <1>1, <1>2, <1>3, <1>4 DEF Resize

LEMMA NextType == TypeOK /\ [Next]_vars => TypeOK'
<1> SUFFICES ASSUME TypeOK, [Next]_vars PROVE TypeOK'
  OBVIOUS
<1> USE DEF ptyVars, fieldVars, subVars, pumpVars, exitVars, callerVars, history
<1>0. CASE ShellExit
  <2>1. shellAlive' \in BOOLEAN
    BY <1>0 DEF ShellExit
  <2>2. UNCHANGED <<ptyOpen, ptyDim, repaintDue, emitted, fieldVars, subVars, pumpVars,
                    exitVars, callerVars, clock, history>>
    BY <1>0 DEF ShellExit
  <2>3. QED
    BY <2>1, <2>2 DEF TypeOK
<1>1. CASE Tick
  BY <1>1 DEF Tick, TypeOK
<1>2. CASE UNCHANGED vars
  BY <1>2 DEF vars, TypeOK
<1>3. CASE Terminated
  BY <1>2, <1>3 DEF Terminated
<1>4. QED
  BY <1>0, <1>1, <1>2, <1>3, PumpType, WaitExitType, OwnerType, CallerType DEF Next

\* The fields, the channels and the goroutines' locals always hold values of
\* their kind, and no subscriber's queue outgrows its channel.
THEOREM TypeCorrect == Spec => []TypeOK
BY InitType, NextType, PTL DEF Spec
-----------------------------------------------------------------------------
(* The nil map *)

\* Why the check of closed in Subscribe is enough: waitExit sets closed long
\* before it leaves the nil map behind, and closed is never reset.
ClosedFirst ==
  /\ exitPc # "wait" => closed
  /\ subsNil => closed /\ subs = {}

LEMMA ClosedFirstStep == TypeOK /\ ClosedFirst /\ [Next]_vars => ClosedFirst'
<1> SUFFICES ASSUME TypeOK, ClosedFirst, [Next]_vars PROVE ClosedFirst'
  OBVIOUS
<1> USE DEF ptyVars, fieldVars, subVars, pumpVars, exitVars, callerVars, history
<1>1. CASE ShellExit \/ Tick
  BY <1>1 DEF ShellExit, Tick, ClosedFirst
<1>2. CASE Pump
  <2>1. subs' \subseteq subs /\ UNCHANGED <<closed, subsNil, exitPc>>
    <3>1. CASE Publish
      BY <3>1 DEF Publish, Without
    <3>2. CASE (\E kind \in Kind : PumpRead(kind)) \/ PumpStop \/ Suppress \/ PumpCancel
      BY <3>2 DEF PumpRead, PumpStop, Suppress, PumpCancel
    <3>3. QED
      BY <1>2, <3>1, <3>2 DEF Pump
  <2>2. QED
    BY <2>1 DEF ClosedFirst
<1>3. CASE WaitExit
  <2>1. CASE ExitRecord \/ FanoutSnapshot \/ FanoutRemove \/ FanoutCancel \/ ExitDone
    BY <2>1 DEF ExitRecord, FanoutSnapshot, FanoutRemove, Without, FanoutCancel, ExitDone,
                ClosedFirst
  <2>2. CASE ExitCollect
    BY <2>2 DEF ExitCollect, ClosedFirst
  <2>3. ASSUME NEW s \in Sub, FanoutSend(s) \/ FanoutSkip(s) \/ FanoutEvict(s) \/ ExitCancel(s)
        PROVE  ClosedFirst'
    BY <2>3 DEF FanoutSend, FanoutSkip, FanoutEvict, ExitCancel, ClosedFirst
  <2>4. QED
    BY <1>3, <2>1, <2>2, <2>3 DEF WaitExit
<1>4. ASSUME NEW s \in Sub, Owner(s) PROVE ClosedFirst'
  <2>1. CASE SubscribeOpen(s)
    BY <2>1 DEF SubscribeOpen, ClosedFirst
  <2>2. CASE Unsubscribe(s)
    BY <2>2 DEF Unsubscribe, Without, ClosedFirst
  <2>3. CASE SubscribeBegin(s) \/ SubscribeClosed(s) \/ Receive(s) \/ ContextEnd(s)
               \/ UnsubscribeCancel(s)
    BY <2>3 DEF SubscribeBegin, SubscribeClosed, Receive, ContextEnd, UnsubscribeCancel,
                ClosedFirst
  <2>4. QED
    BY <1>4, <2>1, <2>2, <2>3 DEF Owner
<1>5. ASSUME NEW k \in Killer, Kill(k) PROVE ClosedFirst'
  BY <1>5 DEF Kill, KillClosed, KillMark, KillClose, ClosedFirst
<1>6. ASSUME NEW r \in Resizer, Resize(r) PROVE ClosedFirst'
  BY <1>6 DEF Resize, ResizeCheck, ResizeApply, ResizeFail, ResizeRecord, ClosedFirst
<1>7. CASE UNCHANGED vars
  BY <1>7 DEF vars, ClosedFirst
<1>8. QED
  BY <1>1, <1>2, <1>3, <1>4, <1>5, <1>6, <1>7 DEF Next, Terminated

\* Subscribe never writes to the nil map that waitExit leaves behind, with any
\* number of subscribers, killers and resizers.
THEOREM NilMapSafe == Spec => []NoNilMapInsert
<1>1. Init => ClosedFirst
  BY DEF Init, ClosedFirst
<1>2. ClosedFirst => NoNilMapInsert
  BY DEF ClosedFirst, NoNilMapInsert
<1>3. QED
  BY <1>1, <1>2, ClosedFirstStep, TypeCorrect, PTL DEF Spec

-----------------------------------------------------------------------------
(* Orphaned subscribers *)

\* The goroutines' local lists are empty except where they are about to be
\* cancelled, so that refilling one forgets nobody.
Custody ==
  /\ pump # "cancel" => dropped = {}
  /\ exitPc \notin {"remove", "evict"} => evicted = {}
  /\ NoOrphanedSubscriber

LEMMA PumpCustody == TypeOK /\ Custody /\ Pump => Custody'
<1> SUFFICES ASSUME TypeOK, Custody, Pump PROVE Custody'
  OBVIOUS
<1> USE DEF ptyVars, fieldVars, subVars, pumpVars, exitVars, callerVars, history
<1>1. CASE (\E kind \in Kind : PumpRead(kind)) \/ PumpStop \/ Suppress
  BY <1>1 DEF PumpRead, PumpStop, Suppress, Custody, NoOrphanedSubscriber
<1>2. CASE Publish
  <2>1. /\ pump' = "cancel" /\ dropped = {} /\ subs \subseteq subs' \cup dropped'
        /\ UNCHANGED <<cancelled, subPc, exitPc, todo, evicted>>
    BY <1>2 DEF Publish, Without, Custody
  <2>2. QED
    BY <2>1 DEF Custody, NoOrphanedSubscriber
<1>3. CASE PumpCancel
  BY <1>3 DEF PumpCancel, Custody, NoOrphanedSubscriber
<1>4. QED
  BY <1>1, <1>2, <1>3 DEF Pump

LEMMA WaitExitCustody == TypeOK /\ Custody /\ WaitExit => Custody'
<1> SUFFICES ASSUME TypeOK, Custody, WaitExit PROVE Custody'
  OBVIOUS
<1> USE DEF ptyVars, fieldVars, subVars, pumpVars, exitVars, callerVars, history
<1>1. CASE ExitRecord \/ FanoutSnapshot \/ ExitDone
  BY <1>1 DEF ExitRecord, FanoutSnapshot, ExitDone, Custody, NoOrphanedSubscriber
<1>2. CASE FanoutRemove \/ FanoutCancel
  BY <1>2 DEF FanoutRemove, Without, FanoutCancel, Custody, NoOrphanedSubscriber
<1>3. CASE ExitCollect
  BY <1>3 DEF ExitCollect, Custody, NoOrphanedSubscriber
<1>4. ASSUME NEW s \in Sub, FanoutSend(s) \/ FanoutSkip(s) PROVE Custody'
  BY <1>4 DEF FanoutSend, FanoutSkip, Custody, NoOrphanedSubscriber
<1>5. ASSUME NEW s \in Sub, FanoutEvict(s) PROVE Custody'
  BY <1>5 DEF FanoutEvict, Custody, NoOrphanedSubscriber
<1>6. ASSUME NEW s \in Sub, ExitCancel(s) PROVE Custody'
  BY <1>6 DEF ExitCancel, Custody, NoOrphanedSubscriber
<1>7. QED
  BY <1>1, <1>2, <1>3, <1>4, <1>5, <1>6 DEF WaitExit

LEMMA OwnerCustody == ASSUME TypeOK, Custody, NEW s \in Sub, Owner(s) PROVE Custody'
<1> USE DEF ptyVars, fieldVars, subVars, pumpVars, exitVars, callerVars, history
<1>1. CASE SubscribeBegin(s)
  BY <1>1 DEF SubscribeBegin, Custody, NoOrphanedSubscriber, TypeOK
<1>2. CASE SubscribeClosed(s)
  BY <1>2 DEF SubscribeClosed, Custody, NoOrphanedSubscriber, TypeOK
<1>3. CASE SubscribeOpen(s)
  BY <1>3 DEF SubscribeOpen, Custody, NoOrphanedSubscriber, TypeOK
<1>4. CASE Receive(s) \/ ContextEnd(s)
  BY <1>4 DEF Receive, ContextEnd, Custody, NoOrphanedSubscriber
<1>5. CASE Unsubscribe(s)
  BY <1>5 DEF Unsubscribe, Without, Custody, NoOrphanedSubscriber, TypeOK
<1>6. CASE UnsubscribeCancel(s)
  BY <1>6 DEF UnsubscribeCancel, Custody, NoOrphanedSubscriber, TypeOK
<1>7. QED
  BY <1>1, <1>2, <1>3, <1>4, <1>5, <1>6 DEF Owner

LEMMA CustodyStep == TypeOK /\ Custody /\ [Next]_vars => Custody'
<1> SUFFICES ASSUME TypeOK, Custody, [Next]_vars PROVE Custody'
  OBVIOUS
<1> USE DEF ptyVars, fieldVars, subVars, pumpVars, exitVars, callerVars, history
<1>1. CASE ShellExit \/ Tick
  BY <1>1 DEF ShellExit, Tick, Custody, NoOrphanedSubscriber
<1>2. ASSUME NEW k \in Killer, Kill(k) PROVE Custody'
  BY <1>2 DEF Kill, KillClosed, KillMark, KillClose, Custody, NoOrphanedSubscriber
<1>3. ASSUME NEW r \in Resizer, Resize(r) PROVE Custody'
  BY <1>3 DEF Resize, ResizeCheck, ResizeApply, ResizeFail, ResizeRecord, Custody,
              NoOrphanedSubscriber
<1>4. CASE UNCHANGED vars
  BY <1>4 DEF vars, Custody, NoOrphanedSubscriber
<1>5. QED
  BY <1>1, <1>2, <1>3, <1>4, PumpCustody, WaitExitCustody, OwnerCustody DEF Next, Terminated

\* Whoever leaves the map of subscribers is cancelled by the goroutine that
\* removed it, in every interleaving of the pump, waitExit, Kill and unsubscribe.
THEOREM NobodyOrphaned == Spec => []NoOrphanedSubscriber
<1>1. Init => Custody
  BY DEF Init, Custody, NoOrphanedSubscriber
<1>2. Custody => NoOrphanedSubscriber
  BY DEF Custody
<1>3. QED
  BY <1>1, <1>2, CustodyStep, TypeCorrect, PTL DEF Spec
-----------------------------------------------------------------------------
(* The exit frame *)

ExitIn(q) == \E i \in 1 .. Len(q) : q[i] = Exit

LEMMA ExitInAppend ==
  ASSUME NEW q \in Seq(Frame), NEW f \in Frame
  PROVE  ExitIn(Append(q, f)) <=> ExitIn(q) \/ f = Exit
<1>1. Len(Append(q, f)) = Len(q) + 1 /\ Len(q) \in Nat
  OBVIOUS
<1>2. \A i \in 1 .. Len(q) : Append(q, f)[i] = q[i]
  OBVIOUS
<1>3. Append(q, f)[Len(q) + 1] = f
  OBVIOUS
<1>4. \A i \in 1 .. Len(q) + 1 : i \in 1 .. Len(q) \/ i = Len(q) + 1
  BY <1>1
<1>5. 1 .. Len(q) \subseteq 1 .. Len(q) + 1 /\ Len(q) + 1 \in 1 .. Len(q) + 1
  BY <1>1
<1>6. QED
  BY <1>1, <1>2, <1>3, <1>4, <1>5, Zenon DEF ExitIn

LEMMA ExitInConcat ==
  ASSUME NEW p \in Seq(Frame), NEW q \in Seq(Frame)
  PROVE  ExitIn(p \o q) <=> ExitIn(p) \/ ExitIn(q)
<1>1. Len(p \o q) = Len(p) + Len(q) /\ Len(p) \in Nat /\ Len(q) \in Nat
  OBVIOUS
<1>2. \A i \in 1 .. Len(p) + Len(q) :
        (p \o q)[i] = IF i <= Len(p) THEN p[i] ELSE q[i - Len(p)]
  OBVIOUS
<1>3. ASSUME ExitIn(p \o q) PROVE ExitIn(p) \/ ExitIn(q)
  <2>1. PICK i \in 1 .. Len(p) + Len(q) : (p \o q)[i] = Exit
    BY <1>1, <1>3 DEF ExitIn
  <2>2. CASE i <= Len(p)
    BY <1>1, <1>2, <2>1, <2>2 DEF ExitIn
  <2>3. CASE ~(i <= Len(p))
    <3>1. i - Len(p) \in 1 .. Len(q) /\ q[i - Len(p)] = Exit
      BY <1>1, <1>2, <2>1, <2>3
    <3>2. QED
      BY <3>1 DEF ExitIn
  <2>4. QED
    BY <2>2, <2>3
<1>4. ASSUME ExitIn(p) PROVE ExitIn(p \o q)
  <2>1. PICK i \in 1 .. Len(p) : p[i] = Exit
    BY <1>4 DEF ExitIn
  <2>2. i \in 1 .. Len(p) + Len(q) /\ (p \o q)[i] = Exit
    BY <1>1, <1>2, <2>1
  <2>3. QED
    BY <1>1, <2>2 DEF ExitIn
<1>5. ASSUME ExitIn(q) PROVE ExitIn(p \o q)
  <2>1. PICK i \in 1 .. Len(q) : q[i] = Exit
    BY <1>5 DEF ExitIn
  <2>2. i + Len(p) \in 1 .. Len(p) + Len(q) /\ (p \o q)[i + Len(p)] = Exit
    <3>1. i + Len(p) \in 1 .. Len(p) + Len(q) /\ ~(i + Len(p) <= Len(p)) /\ (i + Len(p)) - Len(p) = i
      BY <1>1, <2>1
    <3>2. QED
      BY <1>2, <2>1, <3>1
  <2>3. QED
    BY <1>1, <2>2 DEF ExitIn
<1>6. QED
  BY <1>3, <1>4, <1>5

LEMMA ExitInDequeue ==
  ASSUME NEW q \in Seq(Frame), q # << >>
  PROVE  ExitIn(q) => Head(q) = Exit \/ ExitIn(Tail(q))
<1> SUFFICES ASSUME ExitIn(q), Head(q) # Exit PROVE ExitIn(Tail(q))
  OBVIOUS
<1>1. Len(Tail(q)) = Len(q) - 1 /\ Len(q) \in Nat /\ Head(q) = q[1]
  OBVIOUS
<1>2. \A i \in 1 .. Len(q) - 1 : Tail(q)[i] = q[i + 1]
  OBVIOUS
<1>3. PICK i \in 1 .. Len(q) : q[i] = Exit
  BY DEF ExitIn
<1>4. i - 1 \in 1 .. Len(q) - 1 /\ (i - 1) + 1 = i
  BY <1>1, <1>3
<1>5. Tail(q)[i - 1] = Exit
  BY <1>2, <1>3, <1>4
<1>6. QED
  BY <1>1, <1>4, <1>5 DEF ExitIn

LEMMA ExitInParts ==
  ASSUME NEW q \in Seq(Frame), q # << >>
  PROVE  ~ExitIn(q) => Head(q) # Exit /\ ~ExitIn(Tail(q))
<1> SUFFICES ASSUME Head(q) = Exit \/ ExitIn(Tail(q)) PROVE ExitIn(q)
  OBVIOUS
<1>1. Len(Tail(q)) = Len(q) - 1 /\ Len(q) \in Nat /\ Len(q) >= 1 /\ Head(q) = q[1]
  OBVIOUS
<1>2. \A i \in 1 .. Len(q) - 1 : Tail(q)[i] = q[i + 1]
  OBVIOUS
<1>3. CASE Head(q) = Exit
  BY <1>1, <1>3 DEF ExitIn
<1>4. CASE ExitIn(Tail(q))
  <2>1. PICK i \in 1 .. Len(q) - 1 : Tail(q)[i] = Exit
    BY <1>1, <1>4 DEF ExitIn
  <2>2. i + 1 \in 1 .. Len(q) /\ q[i + 1] = Exit
    BY <1>1, <1>2, <2>1
  <2>3. QED
    BY <2>2 DEF ExitIn
<1>5. QED
  BY <1>3, <1>4

\* While the exit frame is being handed out, every registered subscriber is still
\* to be served or removed, has been served or has ended.
ExitOwed ==
  exitPc \in {"send", "remove", "evict"} =>
    \A s \in subs : \/ s \in todo \/ s \in cancelled \/ ExitIn(sent[s]) \/ ExitIn(queue[s])
                    \/ exitPc = "remove" /\ s \in evicted

LEMMA ExitOwedSuffices == TypeOK /\ ExitOwed => ExitReachesEveryone
<1> SUFFICES ASSUME TypeOK, ExitOwed, exitPc = "send", todo = {},
                    NEW s \in subs, s \notin cancelled
             PROVE  ExitIn(Stream(s))
  BY DEF ExitReachesEveryone, ExitIn
<1>1. sent[s] \in Seq(Frame) /\ queue[s] \in Seq(Frame)
  BY DEF TypeOK
<1>2. ExitIn(sent[s]) \/ ExitIn(queue[s])
  BY DEF ExitOwed
<1>3. QED
  BY <1>1, <1>2, ExitInConcat DEF Stream

LEMMA PumpExitOwed == TypeOK /\ ExitOwed /\ Pump => ExitOwed'
<1> SUFFICES ASSUME TypeOK, ExitOwed, Pump PROVE ExitOwed'
  OBVIOUS
<1> USE DEF ptyVars, fieldVars, subVars, pumpVars, exitVars, callerVars, history
<1>1. CASE (\E kind \in Kind : PumpRead(kind)) \/ PumpStop \/ Suppress
  BY <1>1 DEF PumpRead, PumpStop, Suppress, ExitOwed
<1>2. CASE Publish
  <2>1. subs' \subseteq subs /\ UNCHANGED <<cancelled, exitPc, todo, evicted, sent>>
    BY <1>2 DEF Publish, Without
  <2>2. ASSUME NEW s \in Sub, ExitIn(queue[s]) PROVE ExitIn(queue'[s])
    <3>1. queue[s] \in Seq(Frame) /\ Out(chunk) \in Frame
      BY FrameTypes DEF TypeOK
    <3>2. queue'[s] = queue[s] \/ queue'[s] = Append(queue[s], Out(chunk))
      BY <1>2 DEF Publish
    <3>3. QED
      BY <2>2, <3>1, <3>2, ExitInAppend
  <2>3. QED
    BY <2>1, <2>2 DEF ExitOwed, TypeOK
<1>3. CASE PumpCancel
  BY <1>3 DEF PumpCancel, ExitOwed
<1>4. QED
  BY <1>1, <1>2, <1>3 DEF Pump

LEMMA WaitExitOwed == TypeOK /\ ExitOwed /\ WaitExit => ExitOwed'
<1> SUFFICES ASSUME TypeOK, ExitOwed, WaitExit PROVE ExitOwed'
  OBVIOUS
<1> USE DEF ptyVars, fieldVars, subVars, pumpVars, exitVars, callerVars, history
<1>1. CASE ExitRecord \/ ExitCollect \/ ExitDone
  BY <1>1 DEF ExitRecord, ExitCollect, ExitDone, ExitOwed
<1>2. CASE FanoutSnapshot
  BY <1>2 DEF FanoutSnapshot, ExitOwed
<1>3. CASE FanoutRemove \/ FanoutCancel
  BY <1>3 DEF FanoutRemove, Without, FanoutCancel, ExitOwed
<1>4. ASSUME NEW s \in Sub, FanoutSend(s) PROVE ExitOwed'
  <2>1. ExitIn(queue'[s])
    <3>1. queue[s] \in Seq(Frame) /\ Exit \in Frame
      BY FrameTypes DEF TypeOK
    <3>2. queue'[s] = Append(queue[s], Exit)
      BY <1>4 DEF FanoutSend, TypeOK
    <3>3. QED
      BY <3>1, <3>2, ExitInAppend
  <2>2. \A z \in Sub \ {s} : queue'[z] = queue[z]
    BY <1>4 DEF FanoutSend, TypeOK
  <2>3. /\ exitPc = "send" /\ todo' = todo \ {s}
        /\ UNCHANGED <<subs, cancelled, sent, exitPc, evicted>>
    BY <1>4 DEF FanoutSend
  <2>4. QED
    BY <2>1, <2>2, <2>3 DEF ExitOwed, TypeOK
<1>5. ASSUME NEW s \in Sub, FanoutSkip(s) \/ FanoutEvict(s) \/ ExitCancel(s) PROVE ExitOwed'
  BY <1>5 DEF FanoutSkip, FanoutEvict, ExitCancel, ExitOwed
<1>6. QED
  BY <1>1, <1>2, <1>3, <1>4, <1>5 DEF WaitExit

LEMMA OwnerExitOwed ==
  ASSUME TypeOK, ClosedFirst, ExitOwed, NEW s \in Sub, Owner(s) PROVE ExitOwed'
<1> USE DEF ptyVars, fieldVars, subVars, pumpVars, exitVars, callerVars, history
<1>1. CASE SubscribeBegin(s) \/ SubscribeClosed(s) \/ ContextEnd(s) \/ UnsubscribeCancel(s)
  BY <1>1 DEF SubscribeBegin, SubscribeClosed, ContextEnd, UnsubscribeCancel, ExitOwed
<1>2. CASE SubscribeOpen(s)
  BY <1>2 DEF SubscribeOpen, ClosedFirst, ExitOwed
<1>3. CASE Unsubscribe(s)
  BY <1>3 DEF Unsubscribe, Without, ExitOwed
<1>4. CASE Receive(s)
  <2>1. /\ queue[s] \in Seq(Frame) /\ sent[s] \in Seq(Frame) /\ queue[s] # << >>
        /\ Head(queue[s]) \in Frame
    BY <1>4, DequeueType DEF Receive, TypeOK
  <2>2. sent'[s] = Append(sent[s], Head(queue[s])) /\ queue'[s] = Tail(queue[s])
    BY <1>4 DEF Receive, TypeOK
  <2>3. ExitIn(sent[s]) \/ ExitIn(queue[s]) => ExitIn(sent'[s]) \/ ExitIn(queue'[s])
    BY <2>1, <2>2, ExitInAppend, ExitInDequeue
  <2>4. \A z \in Sub \ {s} : queue'[z] = queue[z] /\ sent'[z] = sent[z]
    BY <1>4 DEF Receive, TypeOK
  <2>5. UNCHANGED <<subs, todo, cancelled, exitPc, evicted>>
    BY <1>4 DEF Receive
  <2>6. QED
    BY <2>3, <2>4, <2>5 DEF ExitOwed, TypeOK
<1>5. QED
  BY <1>1, <1>2, <1>3, <1>4 DEF Owner

LEMMA ExitOwedStep == TypeOK /\ ClosedFirst /\ ExitOwed /\ [Next]_vars => ExitOwed'
<1> SUFFICES ASSUME TypeOK, ClosedFirst, ExitOwed, [Next]_vars PROVE ExitOwed'
  OBVIOUS
<1> USE DEF ptyVars, fieldVars, subVars, pumpVars, exitVars, callerVars, history
<1>1. CASE ShellExit \/ Tick
  BY <1>1 DEF ShellExit, Tick, ExitOwed
<1>2. ASSUME NEW k \in Killer, Kill(k) PROVE ExitOwed'
  BY <1>2 DEF Kill, KillClosed, KillMark, KillClose, ExitOwed
<1>3. ASSUME NEW r \in Resizer, Resize(r) PROVE ExitOwed'
  BY <1>3 DEF Resize, ResizeCheck, ResizeApply, ResizeFail, ResizeRecord, ExitOwed
<1>4. CASE UNCHANGED vars
  BY <1>4 DEF vars, ExitOwed
<1>5. QED
  BY <1>1, <1>2, <1>3, <1>4, PumpExitOwed, WaitExitOwed, OwnerExitOwed DEF Next, Terminated

\* Whoever is still registered when fanout has finished has the exit frame in its
\* stream or had ended by itself.
THEOREM ExitServed == Spec => []ExitReachesEveryone
<1>1. Init => ClosedFirst /\ ExitOwed
  BY DEF Init, ClosedFirst, ExitOwed
<1>2. QED
  BY <1>1, ClosedFirstStep, ExitOwedStep, ExitOwedSuffices, TypeCorrect, PTL DEF Spec

-----------------------------------------------------------------------------
(* The stream of a subscriber *)

Outs(q) == {i \in 1 .. Len(q) : q[i].t = "out"}
Got(q)  == {q[i].d[1] : i \in Outs(q)}
Published(p, i, j) == {p[m] : m \in i .. j}

\* What a stream q holds that began when b chunks of p had been published: the replay, and
\* then in order what was published since, but for the chunks in k.
Promised(q, b, k, p, registered) ==
  /\ q[1] = Replay(Retain(SubSeq(p, 1, b)))
  /\ \A i \in 2 .. Len(q) : q[i].t # "replay"
  /\ \A i, j \in Outs(q) : i < j => q[i].d[1].n < q[j].d[1].n
  /\ \E upto \in b .. Len(p) :
       (registered => upto = Len(p)) /\ Got(q) = Published(p, b + 1, upto) \ k

LEMMA FrameParts ==
  /\ \A c \in Chunk : Out(c) \in Frame /\ Out(c).t = "out" /\ Out(c).d[1] = c
  /\ Exit \in Frame /\ Exit.t = "exit"
  /\ \A d \in Seq(Chunk) : Replay(d) \in Frame /\ Replay(d).t = "replay"
BY FrameTypes DEF Out, Exit, Replay

\* A frame more in a stream.
LEMMA OneMore ==
  ASSUME NEW q \in Seq(Frame), NEW f \in Frame
  PROVE  /\ Append(q, f) \in Seq(Frame) /\ Len(Append(q, f)) = Len(q) + 1 /\ Len(q) \in Nat
         /\ \A i \in 1 .. Len(q) : Append(q, f)[i] = q[i]
         /\ Append(q, f)[Len(q) + 1] = f
         /\ f.t # "out" => Outs(Append(q, f)) = Outs(q) /\ Got(Append(q, f)) = Got(q)
         /\ f.t = "out" => /\ Outs(Append(q, f)) = Outs(q) \cup {Len(q) + 1}
                           /\ Got(Append(q, f)) = Got(q) \cup {f.d[1]}
<1> DEFINE r == Append(q, f)
<1>1. /\ r \in Seq(Frame) /\ Len(r) = Len(q) + 1 /\ Len(q) \in Nat
      /\ \A i \in 1 .. Len(q) : r[i] = q[i]
      /\ r[Len(q) + 1] = f
  BY AppendProperties, LenProperties
<1> HIDE DEF r
<1>2. Outs(q) \subseteq 1 .. Len(q) /\ Outs(r) \subseteq 1 .. Len(q) + 1
  BY <1>1 DEF Outs
<1>3. \A i \in 1 .. Len(q) : i \in Outs(r) <=> i \in Outs(q)
  BY <1>1 DEF Outs
<1>4. Len(q) + 1 \in Outs(r) <=> f.t = "out"
  BY <1>1 DEF Outs
<1>5. CASE f.t # "out"
  <2>1. Outs(r) = Outs(q)
    <3>1. \A i \in 1 .. Len(q) + 1 : i \in 1 .. Len(q) \/ i = Len(q) + 1
      BY <1>1
    <3>2. QED
      BY <1>2, <1>3, <1>4, <1>5, <3>1
  <2>2. Got(r) = Got(q)
    BY <1>1, <1>2, <2>1 DEF Got
  <2>3. QED
    BY <1>1, <1>5, <2>1, <2>2 DEF r
<1>6. CASE f.t = "out"
  <2>1. Outs(r) = Outs(q) \cup {Len(q) + 1}
    BY <1>1, <1>2, <1>3, <1>4, <1>6
  <2>2. Got(r) = Got(q) \cup {f.d[1]}
    BY <1>1, <1>2, <2>1 DEF Got
  <2>3. QED
    BY <1>1, <1>6, <2>1, <2>2 DEF r
<1>7. QED
  BY <1>5, <1>6

\* A chunk more in what was published.
LEMMA OnePublished ==
  ASSUME NEW p \in Seq(Chunk), NEW c \in Chunk, NEW b \in 0 .. Len(p)
  PROVE  /\ Append(p, c) \in Seq(Chunk) /\ Len(Append(p, c)) = Len(p) + 1 /\ Len(p) \in Nat
         /\ SubSeq(Append(p, c), 1, b) = SubSeq(p, 1, b)
         /\ \A u \in b .. Len(p) : Published(Append(p, c), b + 1, u) = Published(p, b + 1, u)
         /\ Published(Append(p, c), b + 1, Len(p) + 1) = Published(p, b + 1, Len(p)) \cup {c}
         /\ Published(Append(p, c), 1, Len(p) + 1) = Published(p, 1, Len(p)) \cup {c}
<1> DEFINE r == Append(p, c)
<1>1. /\ r \in Seq(Chunk) /\ Len(r) = Len(p) + 1 /\ Len(p) \in Nat
      /\ \A i \in 1 .. Len(p) : r[i] = p[i]
      /\ r[Len(p) + 1] = c
  BY AppendProperties, LenProperties
<1> HIDE DEF r
<1>2. \A i \in 1 .. Len(p) : p[i] \in Chunk
  BY ElementOfSeq
<1>3. SubSeq(r, 1, b) = SubSeq(p, 1, b)
  <2>1. b \in Nat /\ b <= Len(p) /\ \A i \in 1 .. b : p[i] \in Chunk /\ r[i] = p[i]
    BY <1>1, <1>2
  <2>2. /\ SubSeq(p, 1, b) \in Seq(Chunk) /\ Len(SubSeq(p, 1, b)) = b
        /\ \A i \in 1 .. b : SubSeq(p, 1, b)[i] = p[i]
    BY <2>1, SubSeqProperties
  <2>3. /\ SubSeq(r, 1, b) \in Seq(Chunk) /\ Len(SubSeq(r, 1, b)) = b
        /\ \A i \in 1 .. b : SubSeq(r, 1, b)[i] = r[i]
    BY <2>1, SubSeqProperties
  <2>4. QED
    BY <2>1, <2>2, <2>3, SeqEqual
<1>4. \A u \in b .. Len(p) : Published(r, b + 1, u) = Published(p, b + 1, u)
  BY <1>1 DEF Published
<1>5. \A a \in Nat \ {0} : a <= Len(p) + 1 =>
         Published(r, a, Len(p) + 1) = Published(p, a, Len(p)) \cup {c}
  <2> SUFFICES ASSUME NEW a \in Nat \ {0}, a <= Len(p) + 1
               PROVE  Published(r, a, Len(p) + 1) = Published(p, a, Len(p)) \cup {c}
    OBVIOUS
  <2>1. a .. Len(p) + 1 = (a .. Len(p)) \cup {Len(p) + 1}
    BY <1>1
  <2>2. \A m \in a .. Len(p) : r[m] = p[m]
    BY <1>1
  <2>3. QED
    BY <1>1, <2>1, <2>2 DEF Published
<1>6. QED
  BY <1>1, <1>3, <1>4, <1>5 DEF r

\* What is retained of a chunk more does not depend on what was forgotten before.
LEMMA RetainAppend ==
  ASSUME NEW p \in Seq(Chunk), NEW c \in Chunk
  PROVE  Retain(Append(Retain(p), c)) = Retain(Append(p, c))
<1>1. Len(p) \in Nat /\ ScrollCap \in Nat \ {0}
  BY LenProperties, SessionAssumption
<1>2. CASE Len(p) <= ScrollCap
  BY <1>2 DEF Retain
<1>3. CASE Len(p) > ScrollCap
  <2> DEFINE t == SubSeq(p, Len(p) - ScrollCap + 1, Len(p))
             u == Append(t, c)
             r == Append(p, c)
  <2>1. Retain(p) = t
    BY <1>1, <1>3 DEF Retain
  <2>2. \A i \in 1 .. Len(p) : p[i] \in Chunk
    BY ElementOfSeq
  <2>3. /\ t \in Seq(Chunk) /\ Len(t) = ScrollCap
        /\ \A i \in 1 .. ScrollCap : t[i] = p[Len(p) - ScrollCap + i]
    <3>1. \A i \in Len(p) - ScrollCap + 1 .. Len(p) : p[i] \in Chunk
      BY <1>1, <1>3, <2>2
    <3>2. /\ Len(p) - ScrollCap + 1 \in Int /\ Len(p) \in Int
          /\ Len(p) - (Len(p) - ScrollCap + 1) + 1 = ScrollCap
          /\ Len(p) - ScrollCap + 1 <= Len(p)
      BY <1>1
    <3>3. /\ t \in Seq(Chunk) /\ Len(t) = ScrollCap
          /\ \A i \in 1 .. ScrollCap : t[i] = p[Len(p) - ScrollCap + 1 + i - 1]
      BY <3>1, <3>2, SubSeqProperties
    <3>4. \A i \in 1 .. ScrollCap : Len(p) - ScrollCap + 1 + i - 1 = Len(p) - ScrollCap + i
      BY <1>1
    <3>5. QED
      BY <3>3, <3>4
  <2> HIDE DEF t
  <2>4. /\ u \in Seq(Chunk) /\ Len(u) = ScrollCap + 1 /\ u[ScrollCap + 1] = c
        /\ \A i \in 1 .. ScrollCap : u[i] = t[i]
    BY <2>3, AppendProperties
  <2>5. /\ r \in Seq(Chunk) /\ Len(r) = Len(p) + 1 /\ r[Len(p) + 1] = c
        /\ \A i \in 1 .. Len(p) : r[i] = p[i]
    BY AppendProperties
  <2> HIDE DEF u, r
  <2>6. Retain(u) = SubSeq(u, 2, ScrollCap + 1)
    BY <1>1, <2>4 DEF Retain
  <2>7. Retain(r) = SubSeq(r, Len(p) - ScrollCap + 2, Len(p) + 1)
    BY <1>1, <1>3, <2>5 DEF Retain
  <2>8. /\ SubSeq(u, 2, ScrollCap + 1) \in Seq(Chunk)
        /\ Len(SubSeq(u, 2, ScrollCap + 1)) = ScrollCap
        /\ \A i \in 1 .. ScrollCap : SubSeq(u, 2, ScrollCap + 1)[i] = u[i + 1]
    <3>1. \A i \in 2 .. ScrollCap + 1 : u[i] \in Chunk
      BY <1>1, <2>4, ElementOfSeq
    <3>2. 2 <= ScrollCap + 1 /\ (ScrollCap + 1) - 2 + 1 = ScrollCap /\ ScrollCap + 1 \in Int
      BY <1>1
    <3>3. /\ SubSeq(u, 2, ScrollCap + 1) \in Seq(Chunk)
          /\ Len(SubSeq(u, 2, ScrollCap + 1)) = ScrollCap
          /\ \A i \in 1 .. ScrollCap : SubSeq(u, 2, ScrollCap + 1)[i] = u[2 + i - 1]
      BY <3>1, <3>2, SubSeqProperties
    <3>4. \A i \in 1 .. ScrollCap : 2 + i - 1 = i + 1
      OBVIOUS
    <3>5. QED
      BY <3>3, <3>4
  <2>9. /\ SubSeq(r, Len(p) - ScrollCap + 2, Len(p) + 1) \in Seq(Chunk)
        /\ Len(SubSeq(r, Len(p) - ScrollCap + 2, Len(p) + 1)) = ScrollCap
        /\ \A i \in 1 .. ScrollCap :
             SubSeq(r, Len(p) - ScrollCap + 2, Len(p) + 1)[i] = r[Len(p) - ScrollCap + i + 1]
    <3>1. \A i \in Len(p) - ScrollCap + 2 .. Len(p) + 1 : r[i] \in Chunk
      BY <1>1, <1>3, <2>5, ElementOfSeq
    <3>2. /\ Len(p) - ScrollCap + 2 \in Int /\ Len(p) + 1 \in Int
          /\ (Len(p) + 1) - (Len(p) - ScrollCap + 2) + 1 = ScrollCap
          /\ Len(p) - ScrollCap + 2 <= Len(p) + 1
      BY <1>1
    <3>3. /\ SubSeq(r, Len(p) - ScrollCap + 2, Len(p) + 1) \in Seq(Chunk)
          /\ Len(SubSeq(r, Len(p) - ScrollCap + 2, Len(p) + 1)) = ScrollCap
          /\ \A i \in 1 .. ScrollCap :
               SubSeq(r, Len(p) - ScrollCap + 2, Len(p) + 1)[i]
                 = r[Len(p) - ScrollCap + 2 + i - 1]
      BY <3>1, <3>2, SubSeqProperties
    <3>4. \A i \in 1 .. ScrollCap :
            Len(p) - ScrollCap + 2 + i - 1 = Len(p) - ScrollCap + i + 1
      BY <1>1
    <3>5. QED
      BY <3>3, <3>4
  <2>10. \A i \in 1 .. ScrollCap : u[i + 1] = r[Len(p) - ScrollCap + i + 1]
    <3> SUFFICES ASSUME NEW i \in 1 .. ScrollCap
                 PROVE  u[i + 1] = r[Len(p) - ScrollCap + i + 1]
      OBVIOUS
    <3>1. CASE i = ScrollCap
      BY <1>1, <2>4, <2>5, <3>1
    <3>2. CASE i < ScrollCap
      <4>1. /\ i + 1 \in 1 .. ScrollCap /\ Len(p) - ScrollCap + i + 1 \in 1 .. Len(p)
            /\ Len(p) - ScrollCap + (i + 1) = Len(p) - ScrollCap + i + 1
        BY <1>1, <1>3, <3>2
      <4>2. u[i + 1] = t[i + 1]
        BY <2>4, <4>1
      <4>3. t[i + 1] = p[Len(p) - ScrollCap + i + 1]
        BY <2>3, <4>1
      <4>4. r[Len(p) - ScrollCap + i + 1] = p[Len(p) - ScrollCap + i + 1]
        BY <2>5, <4>1
      <4>5. QED
        BY <4>2, <4>3, <4>4
    <3>3. QED
      BY <1>1, <3>1, <3>2
  <2>11. Retain(u) = Retain(r)
    BY <2>6, <2>7, <2>8, <2>9, <2>10, SeqEqual
  <2>12. QED
    BY <2>1, <2>11 DEF u, r
<1>4. QED
  BY <1>1, <1>2, <1>3

\* What a publication does to the streams that get the chunk, and to the others.
LEMMA Delivered ==
  ASSUME NEW q \in Seq(Frame), q # << >>, NEW p \in Seq(Chunk), NEW c \in Chunk,
         NEW b \in 0 .. Len(p), NEW k, c \notin k,
         \A i \in 1 .. Len(p) : p[i].n < c.n, Promised(q, b, k, p, TRUE)
  PROVE  Promised(Append(q, Out(c)), b, k, Append(p, c), TRUE)
<1> DEFINE r == Append(q, Out(c))
           v == Append(p, c)
<1>1. /\ Out(c) \in Frame /\ Out(c).t = "out" /\ Out(c).d[1] = c
  BY FrameParts
<1>2. /\ r \in Seq(Frame) /\ Len(r) = Len(q) + 1 /\ Len(q) \in Nat
      /\ \A i \in 1 .. Len(q) : r[i] = q[i]
      /\ r[Len(q) + 1] = Out(c)
      /\ Outs(r) = Outs(q) \cup {Len(q) + 1} /\ Got(r) = Got(q) \cup {c}
  BY <1>1, OneMore
<1>3. /\ Len(v) = Len(p) + 1 /\ Len(p) \in Nat
      /\ SubSeq(v, 1, b) = SubSeq(p, 1, b)
      /\ Published(v, b + 1, Len(p) + 1) = Published(p, b + 1, Len(p)) \cup {c}
  BY OnePublished
<1>4. Got(q) = Published(p, b + 1, Len(p)) \ k
  BY DEF Promised
<1> HIDE DEF r, v
<1>5. r[1] = Replay(Retain(SubSeq(v, 1, b)))
  <2>1. 1 \in 1 .. Len(q)
    BY <1>2, EmptySeq
  <2>2. QED
    BY <1>2, <1>3, <2>1 DEF Promised
<1>6. \A i \in 2 .. Len(r) : r[i].t # "replay"
  BY <1>1, <1>2 DEF Promised
<1>7. \A i, j \in Outs(r) : i < j => r[i].d[1].n < r[j].d[1].n
  <2> SUFFICES ASSUME NEW i \in Outs(r), NEW j \in Outs(r), i < j
               PROVE  r[i].d[1].n < r[j].d[1].n
    OBVIOUS
  <2>1. Outs(q) \subseteq 1 .. Len(q)
    BY DEF Outs
  <2>2. i \in Outs(q) /\ i \in 1 .. Len(q)
    BY <1>2, <2>1
  <2>3. CASE j \in Outs(q)
    BY <1>2, <2>1, <2>2, <2>3 DEF Promised
  <2>4. CASE j = Len(q) + 1
    <3>1. q[i].d[1] \in Got(q)
      BY <2>2 DEF Got
    <3>2. PICK m \in b + 1 .. Len(p) : q[i].d[1] = p[m]
      BY <1>4, <3>1 DEF Published
    <3>3. m \in 1 .. Len(p)
      BY <1>3
    <3>4. q[i].d[1].n < c.n
      BY <3>2, <3>3
    <3>5. QED
      BY <1>1, <1>2, <2>2, <2>4, <3>4
  <2>5. QED
    BY <1>2, <2>3, <2>4
<1>8. Got(r) = Published(v, b + 1, Len(v)) \ k /\ Len(v) \in b .. Len(v)
  BY <1>2, <1>3, <1>4
<1>9. QED
  BY <1>5, <1>6, <1>7, <1>8 DEF Promised, r, v

LEMMA Withheld ==
  ASSUME NEW q \in Seq(Frame), NEW p \in Seq(Chunk), NEW c \in Chunk,
         NEW b \in 0 .. Len(p), NEW k, \A i \in 1 .. Len(p) : p[i] # c,
         Promised(q, b, k, p, TRUE)
  PROVE  Promised(q, b, k \cup {c}, Append(p, c), TRUE)
<1> DEFINE v == Append(p, c)
<1>1. /\ Len(v) = Len(p) + 1 /\ Len(p) \in Nat
      /\ SubSeq(v, 1, b) = SubSeq(p, 1, b)
      /\ Published(v, b + 1, Len(p) + 1) = Published(p, b + 1, Len(p)) \cup {c}
  BY OnePublished
<1> HIDE DEF v
<1>2. c \notin Published(p, b + 1, Len(p))
  BY <1>1 DEF Published
<1>3. Got(q) = Published(p, b + 1, Len(p)) \ k
  BY DEF Promised
<1>4. Got(q) = Published(v, b + 1, Len(v)) \ (k \cup {c}) /\ Len(v) \in b .. Len(v)
  BY <1>1, <1>2, <1>3
<1>5. QED
  BY <1>1, <1>4 DEF Promised, v

LEMMA PassedBy ==
  ASSUME NEW q \in Seq(Frame), NEW p \in Seq(Chunk), NEW c \in Chunk,
         NEW b \in 0 .. Len(p), NEW k, NEW in, Promised(q, b, k, p, in)
  PROVE  Promised(q, b, k, Append(p, c), FALSE)
<1> DEFINE v == Append(p, c)
<1>1. /\ Len(v) = Len(p) + 1 /\ Len(p) \in Nat
      /\ SubSeq(v, 1, b) = SubSeq(p, 1, b)
      /\ \A u \in b .. Len(p) : Published(v, b + 1, u) = Published(p, b + 1, u)
  BY OnePublished
<1> HIDE DEF v
<1>2. PICK u \in b .. Len(p) : Got(q) = Published(p, b + 1, u) \ k
  BY DEF Promised
<1>3. u \in b .. Len(v) /\ Got(q) = Published(v, b + 1, u) \ k
  BY <1>1, <1>2
<1>4. QED
  BY <1>1, <1>3 DEF Promised, v

\* The exit frame, and a subscriber that is removed.
LEMMA Ended ==
  ASSUME NEW q \in Seq(Frame), q # << >>, NEW p, NEW b, NEW k, NEW in,
         Promised(q, b, k, p, in)
  PROVE  Promised(Append(q, Exit), b, k, p, in)
<1> DEFINE r == Append(q, Exit)
<1>1. Exit \in Frame /\ Exit.t = "exit"
  BY FrameParts
<1>2. /\ r \in Seq(Frame) /\ Len(r) = Len(q) + 1 /\ Len(q) \in Nat
      /\ \A i \in 1 .. Len(q) : r[i] = q[i]
      /\ r[Len(q) + 1] = Exit
      /\ Outs(r) = Outs(q) /\ Got(r) = Got(q)
  BY <1>1, OneMore
<1>3. 1 \in 1 .. Len(q)
  BY <1>2, EmptySeq
<1> HIDE DEF r
<1>4. \A i \in 2 .. Len(r) : r[i].t # "replay"
  BY <1>1, <1>2 DEF Promised
<1>5. \A i, j \in Outs(r) : i < j => r[i].d[1].n < r[j].d[1].n
  <2>1. Outs(q) \subseteq 1 .. Len(q)
    BY DEF Outs
  <2>2. QED
    BY <1>2, <2>1 DEF Promised
<1>6. QED
  BY <1>2, <1>3, <1>4, <1>5 DEF Promised, r

LEMMA Removed ==
  ASSUME NEW q, NEW p, NEW b, NEW k, NEW in, NEW out, out => in, Promised(q, b, k, p, in)
  PROVE  Promised(q, b, k, p, out)
BY DEF Promised

\* A stream begins.
LEMMA Joined ==
  ASSUME NEW p \in Seq(Chunk)
  PROVE  Promised(<<Replay(Retain(p))>>, Len(p), {}, p, TRUE)
<1> DEFINE q == <<Replay(Retain(p))>>
<1>1. Retain(p) \in Seq(Chunk) /\ Len(p) \in Nat
  BY RetainType, LenProperties
<1>2. Replay(Retain(p)) \in Frame /\ Replay(Retain(p)).t = "replay"
  BY <1>1, FrameParts
<1>3. Len(q) = 1 /\ q[1] = Replay(Retain(p))
  OBVIOUS
<1>4. SubSeq(p, 1, Len(p)) = p
  BY SubSeqFull
<1> HIDE DEF q
<1>5. Outs(q) = {} /\ Got(q) = {}
  BY <1>2, <1>3 DEF Outs, Got
<1>6. Published(p, Len(p) + 1, Len(p)) = {}
  BY <1>1 DEF Published
<1>7. \E u \in Len(p) .. Len(p) : u = Len(p) /\ Got(q) = Published(p, Len(p) + 1, u) \ {}
  BY <1>1, <1>5, <1>6
<1>8. \A i \in 2 .. Len(q) : q[i].t # "replay"
  BY <1>3
<1> HIDE DEF q
<1>9. QED
  BY <1>3, <1>4, <1>5, <1>7, <1>8 DEF Promised, q

-----------------------------------------------------------------------------
(* Exactly once *)

\* Chunks are numbered as they are read, and one that is to be published comes last.
Numbered ==
  /\ \A i \in 1 .. Len(published) : published[i].n <= emitted
  /\ pump = "publish" =>
       chunk.n = emitted /\ \A i \in 1 .. Len(published) : published[i].n < emitted

\* The scrollback is the end of what was published; a stream begins with the subscription,
\* never to be empty again, and keeps its promise from then on.
Streams ==
  /\ scrollback = Retain(published)
  /\ \A s \in Sub :
       /\ base[s] <= Len(published)
       /\ skipped[s] \subseteq Published(published, 1, Len(published))
       /\ subPc[s] \in {"idle", "joining"} =>
            sent[s] = << >> /\ queue[s] = << >> /\ skipped[s] = {}
       /\ s \in subs \cup todo => Stream(s) # << >>
       /\ Stream(s) # << >> => Promised(Stream(s), base[s], skipped[s], published, s \in subs)

LEMMA NumberedStep == TypeOK /\ Numbered /\ [Next]_vars => Numbered'
<1> SUFFICES ASSUME TypeOK, Numbered, [Next]_vars PROVE Numbered'
  OBVIOUS
<1> USE DEF ptyVars, fieldVars, subVars, pumpVars, exitVars, callerVars, history
<1>1. CASE UNCHANGED <<published, emitted, pump, chunk>>
  BY <1>1 DEF Numbered
<1>2. CASE UNCHANGED <<published, emitted>> /\ pump' # "publish"
  BY <1>2 DEF Numbered
<1>3. ASSUME NEW kind \in Kind, PumpRead(kind) PROVE Numbered'
  <2>1. emitted \in Nat /\ \A i \in 1 .. Len(published) : published[i].n \in Nat
    <3>1. \A i \in 1 .. Len(published) : published[i] \in Chunk
      BY ElementOfSeq DEF TypeOK
    <3>2. QED
      BY <3>1 DEF TypeOK, Chunk
  <2>2. UNCHANGED published /\ emitted' = emitted + 1 /\ chunk'.n = emitted + 1
    BY <1>3 DEF PumpRead
  <2>3. \A i \in 1 .. Len(published') : published'[i].n < emitted'
    BY <2>1, <2>2 DEF Numbered
  <2>4. QED
    BY <2>1, <2>2, <2>3 DEF Numbered
<1>4. CASE Publish
  <2>1. /\ published' = Append(published, chunk) /\ UNCHANGED emitted /\ pump' = "cancel"
        /\ chunk.n = emitted /\ emitted \in Nat
    BY <1>4 DEF Publish, Numbered, TypeOK
  <2>2. /\ Len(published') = Len(published) + 1 /\ Len(published) \in Nat
        /\ \A i \in 1 .. Len(published) : published'[i] = published[i]
        /\ published'[Len(published) + 1] = chunk
    BY <2>1, AppendProperties, LenProperties DEF TypeOK
  <2>3. \A i \in 1 .. Len(published') : published'[i].n <= emitted
    BY <2>1, <2>2 DEF Numbered
  <2>4. QED
    BY <2>1, <2>3 DEF Numbered
<1>5. CASE Pump
  BY <1>1, <1>2, <1>3, <1>4, <1>5 DEF Pump, PumpStop, Suppress, PumpCancel
<1>6. CASE WaitExit
  BY <1>1, <1>6 DEF WaitExit, ExitRecord, FanoutSnapshot, FanoutRemove, FanoutCancel, ExitCollect,
     ExitDone, FanoutSend, FanoutSkip, FanoutEvict, ExitCancel
<1>7. ASSUME NEW s \in Sub, Owner(s) PROVE Numbered'
  BY <1>1, <1>7 DEF Owner, SubscribeBegin, SubscribeClosed, SubscribeOpen, Receive, ContextEnd,
     Unsubscribe, UnsubscribeCancel
<1>8. ASSUME NEW k \in Killer, Kill(k) PROVE Numbered'
  BY <1>1, <1>8 DEF Kill, KillClosed, KillMark, KillClose
<1>9. ASSUME NEW r \in Resizer, Resize(r) PROVE Numbered'
  BY <1>1, <1>9 DEF Resize, ResizeCheck, ResizeApply, ResizeFail, ResizeRecord
<1>10. CASE ShellExit \/ Tick \/ Terminated \/ UNCHANGED vars
  BY <1>1, <1>10 DEF ShellExit, Tick, Terminated, vars
<1>11. QED
  BY <1>5, <1>6, <1>7, <1>8, <1>9, <1>10 DEF Next

\* Steps that put nothing into a stream; a subscriber may be removed.
LEMMA StreamsLeft ==
  ASSUME Streams, UNCHANGED <<scrollback, published, base, skipped, sent, queue>>,
         subs' \subseteq subs, todo' \subseteq todo \cup subs,
         \A s \in Sub : subPc'[s] \in {"idle", "joining"} => subPc[s] \in {"idle", "joining"}
  PROVE  Streams'
<1> SUFFICES ASSUME NEW s \in Sub
             PROVE  /\ base[s] <= Len(published)
                    /\ skipped[s] \subseteq Published(published, 1, Len(published))
                    /\ subPc'[s] \in {"idle", "joining"} =>
                         sent[s] = << >> /\ queue[s] = << >> /\ skipped[s] = {}
                    /\ s \in subs' \cup todo' => Stream(s) # << >>
                    /\ Stream(s) # << >> =>
                         Promised(Stream(s), base[s], skipped[s], published, s \in subs')
  BY DEF Streams, Stream
<1>1. Stream(s) # << >> =>
        Promised(Stream(s), base[s], skipped[s], published, s \in subs')
  BY Removed DEF Streams
<1>2. QED
  BY <1>1 DEF Streams

LEMMA Concatenated ==
  ASSUME NEW p \in Seq(Frame), NEW q \in Seq(Frame), NEW f \in Frame
  PROVE  /\ p \o q \in Seq(Frame)
         /\ p \o Append(q, f) = Append(p \o q, f)
         /\ q # << >> => Append(p, Head(q)) \o Tail(q) = p \o q
<1>1. p \o q \in Seq(Frame) /\ <<f>> \in Seq(Frame)
  BY ConcatProperties
<1>2. p \o Append(q, f) = Append(p \o q, f)
  <2>1. Append(q, f) = q \o <<f>> /\ Append(p \o q, f) = (p \o q) \o <<f>>
    BY <1>1, AppendIsConcat
  <2>2. QED
    BY <1>1, <2>1, ConcatAssociative
<1>3. ASSUME q # << >> PROVE Append(p, Head(q)) \o Tail(q) = p \o q
  <2>1. Head(q) \in Frame /\ Tail(q) \in Seq(Frame)
    BY <1>3, HeadTailProperties
  <2>2. <<Head(q)>> \in Seq(Frame)
    BY <2>1
  <2>3. <<Head(q)>> \o Tail(q) = q
    BY <1>3
  <2>4. Append(p, Head(q)) = p \o <<Head(q)>>
    BY <2>1, AppendIsConcat
  <2>5. QED
    BY <2>1, <2>2, <2>3, <2>4, ConcatAssociative
<1>4. QED
  BY <1>1, <1>2, <1>3

LEMMA StreamType ==
  ASSUME TypeOK, NEW s \in Sub
  PROVE  /\ sent[s] \in Seq(Frame) /\ queue[s] \in Seq(Frame) /\ Stream(s) \in Seq(Frame)
         /\ sent[s] = << >> /\ queue[s] = << >> => Stream(s) = << >>
<1>1. sent[s] \in Seq(Frame) /\ queue[s] \in Seq(Frame)
  BY DEF TypeOK
<1>2. QED
  BY <1>1, Concatenated, FrameParts, ConcatProperties, ConcatEmptySeq DEF Stream

LEMMA PublishStreams == ASSUME TypeOK, Numbered, Streams, Publish PROVE Streams'
<1> DEFINE skip == {s \in subs : Fresh(s)}
           offered == subs \ skip
           p == published
           v == Append(published, chunk)
<1>1. PICK got \in SUBSET offered :
        /\ queue' = [s \in Sub |-> IF s \in got THEN Append(queue[s], Out(chunk)) ELSE queue[s]]
        /\ subs' = subs \ (offered \ got)
  BY DEF Publish, Without
<1>2. /\ scrollback' = Retain(Append(scrollback, chunk)) /\ published' = v
      /\ skipped' = [s \in Sub |-> IF s \in skip THEN skipped[s] \cup {chunk} ELSE skipped[s]]
      /\ UNCHANGED <<base, subPc, sent, todo>>
  BY DEF Publish, exitVars
<1>3. /\ p \in Seq(Chunk) /\ chunk \in Chunk /\ Len(p) \in Nat /\ subs \subseteq Sub
      /\ base \in [Sub -> Nat]
  BY LenProperties DEF TypeOK
<1>4. \A i \in 1 .. Len(p) : p[i].n < chunk.n /\ p[i] # chunk
  <2>1. chunk.n = emitted /\ emitted \in Nat /\ \A i \in 1 .. Len(p) : p[i].n < emitted
    BY DEF Publish, Numbered, TypeOK
  <2>2. QED
    BY <2>1
<1>5. scrollback' = Retain(published')
  BY <1>2, <1>3, RetainAppend DEF Streams
<1>6. ASSUME NEW s \in Sub
      PROVE  /\ base'[s] <= Len(published')
             /\ skipped'[s] \subseteq Published(published', 1, Len(published'))
             /\ subPc'[s] \in {"idle", "joining"} =>
                  sent'[s] = << >> /\ queue'[s] = << >> /\ skipped'[s] = {}
             /\ s \in subs' \cup todo' => Stream(s)' # << >>
             /\ Stream(s)' # << >> =>
                  Promised(Stream(s)', base'[s], skipped'[s], published', s \in subs')
  <2> DEFINE q == Stream(s)
             b == base[s]
             k == skipped[s]
  <2>1. /\ q \in Seq(Frame) /\ queue[s] \in Seq(Frame) /\ sent[s] \in Seq(Frame)
        /\ sent[s] = << >> /\ queue[s] = << >> => q = << >>
    BY StreamType
  <2>2. /\ b \in 0 .. Len(p) /\ k \subseteq Published(p, 1, Len(p))
        /\ (s \in subs \cup todo => q # << >>)
        /\ (q # << >> => Promised(q, b, k, p, s \in subs))
        /\ (subPc[s] \in {"idle", "joining"} =>
              q = << >> /\ sent[s] = << >> /\ queue[s] = << >> /\ k = {})
    BY <1>3, <2>1 DEF Streams
  <2>3. /\ Len(v) = Len(p) + 1
        /\ Published(v, 1, Len(p) + 1) = Published(p, 1, Len(p)) \cup {chunk}
    BY <1>3, <2>2, OnePublished
  <2>4. chunk \notin k
    BY <1>4, <2>2 DEF Published
  <2>5. s \in subs => subPc[s] \notin {"idle", "joining"}
    BY <2>2
  <2> HIDE DEF v, q, skip
  <2>6. CASE s \in got
    <3>1. s \in subs /\ s \in subs' /\ s \notin skip
      BY <1>1, <2>6
    <3>2. queue'[s] = Append(queue[s], Out(chunk)) /\ skipped'[s] = k
      BY <1>1, <1>2, <2>6, <3>1
    <3>3. Stream(s)' = Append(q, Out(chunk)) /\ Stream(s)' # << >>
      <4>1. Out(chunk) \in Frame
        BY <1>3, FrameParts
      <4>2. Stream(s)' = sent[s] \o Append(queue[s], Out(chunk))
        BY <1>2, <3>2 DEF Stream
      <4>3. sent[s] \o Append(queue[s], Out(chunk)) = Append(sent[s] \o queue[s], Out(chunk))
        BY <2>1, <4>1, Concatenated
      <4>4. Append(q, Out(chunk)) # << >>
        BY <2>1, <4>1, AppendProperties
      <4>5. QED
        BY <4>2, <4>3, <4>4 DEF Stream, q
    <3>4. Promised(q, b, k, p, TRUE)
      BY <2>2, <3>1
    <3>5. q # << >>
      BY <2>2, <3>1
    <3>6. Promised(Append(q, Out(chunk)), b, k, v, TRUE)
      BY <1>3, <1>4, <2>1, <2>2, <2>4, <3>4, <3>5, Delivered DEF v
    <3>7. Promised(Stream(s)', base'[s], skipped'[s], published', s \in subs')
      BY <1>2, <3>1, <3>2, <3>3, <3>6
    <3>8. QED
      BY <1>2, <2>2, <2>3, <2>5, <3>1, <3>2, <3>3, <3>7
  <2>7. CASE s \in skip
    <3>1. s \in subs /\ s \in subs' /\ s \notin got
      BY <1>1, <2>7 DEF skip
    <3>2. queue'[s] = queue[s] /\ skipped'[s] = k \cup {chunk} /\ Stream(s)' = q
      BY <1>1, <1>2, <2>7, <3>1 DEF Stream, q
    <3>3. Promised(q, b, k \cup {chunk}, v, TRUE)
      BY <1>3, <1>4, <2>1, <2>2, <3>1, Withheld DEF v
    <3>4. Promised(Stream(s)', base'[s], skipped'[s], published', s \in subs')
      BY <1>2, <3>1, <3>2, <3>3
    <3>5. QED
      BY <1>2, <2>2, <2>3, <2>5, <3>1, <3>2, <3>4
  <2>8. CASE s \notin got /\ s \notin skip
    <3>1. s \notin subs' /\ (s \in subs' \cup todo' => s \in subs \cup todo)
      BY <1>1, <1>2, <2>8
    <3>2. queue'[s] = queue[s] /\ skipped'[s] = k /\ Stream(s)' = q
      BY <1>1, <1>2, <2>8 DEF Stream, q
    <3>3. q # << >> => Promised(q, b, k, v, FALSE)
      BY <1>3, <2>1, <2>2, PassedBy DEF v
    <3>4. Stream(s)' # << >> =>
            Promised(Stream(s)', base'[s], skipped'[s], published', s \in subs')
      <4>1. Stream(s)' # << >> => Promised(Stream(s)', base'[s], skipped'[s], published', FALSE)
        BY <1>2, <3>2, <3>3
      <4>2. (s \in subs') = FALSE
        BY <3>1
      <4>3. QED
        BY <4>1, <4>2
    <3>5. base'[s] <= Len(published') /\ k \subseteq Published(v, 1, Len(v))
      BY <1>2, <1>3, <2>2, <2>3
    <3>6. QED
      BY <1>2, <2>2, <3>1, <3>2, <3>4, <3>5
  <2>9. QED
    BY <2>6, <2>7, <2>8
<1>7. QED
  BY <1>5, <1>6 DEF Streams

\* A frame that is no output, for a stream that has begun.
LEMMA SendStreams == ASSUME TypeOK, Streams, NEW z \in Sub, FanoutSend(z) PROVE Streams'
<1>1. /\ z \in todo /\ todo' = todo \ {z}
      /\ queue' = [queue EXCEPT ![z] = Append(queue[z], Exit)]
      /\ UNCHANGED <<scrollback, published, base, skipped, sent, subs, subPc>>
  BY DEF FanoutSend, fieldVars, history
<1>2. ASSUME NEW s \in Sub
      PROVE  /\ subPc[s] \in {"idle", "joining"} =>
                  sent[s] = << >> /\ queue'[s] = << >> /\ skipped[s] = {}
             /\ s \in subs \cup todo' => Stream(s)' # << >>
             /\ Stream(s)' # << >> =>
                  Promised(Stream(s)', base[s], skipped[s], published, s \in subs)
  <2>1. CASE s = z
    <3>1. /\ Stream(s) \in Seq(Frame) /\ Stream(s) # << >>
          /\ (sent[s] = << >> /\ queue[s] = << >> => Stream(s) = << >>)
          /\ sent[s] \in Seq(Frame) /\ queue[s] \in Seq(Frame)
      BY <1>1, <2>1, StreamType DEF Streams
    <3>2. Stream(s)' = Append(Stream(s), Exit) /\ Stream(s)' # << >>
      <4>1. Exit \in Frame
        BY FrameParts
      <4>2. Stream(s)' = sent[s] \o Append(queue[s], Exit)
        BY <1>1, <2>1 DEF Stream, TypeOK
      <4>3. sent[s] \o Append(queue[s], Exit) = Append(sent[s] \o queue[s], Exit)
        BY <3>1, <4>1, Concatenated
      <4>4. Append(Stream(s), Exit) # << >>
        BY <3>1, <4>1, AppendProperties
      <4>5. QED
        BY <4>2, <4>3, <4>4 DEF Stream
    <3>3. Promised(Append(Stream(s), Exit), base[s], skipped[s], published, s \in subs)
      BY <3>1, Ended DEF Streams
    <3>4. subPc[s] \notin {"idle", "joining"}
      BY <3>1 DEF Streams
    <3>5. QED
      BY <3>2, <3>3, <3>4
  <2>2. CASE s # z
    <3>1. queue'[s] = queue[s] /\ Stream(s)' = Stream(s)
      BY <1>1, <2>2 DEF Stream, TypeOK
    <3>2. QED
      BY <1>1, <3>1 DEF Streams
  <2>3. QED
    BY <2>1, <2>2
<1>3. QED
  BY <1>1, <1>2 DEF Streams

LEMMA ReceiveStreams == ASSUME TypeOK, Streams, NEW z \in Sub, Receive(z) PROVE Streams'
<1>1. /\ queue[z] # << >> /\ subPc[z] = "attached"
      /\ sent' = [sent EXCEPT ![z] = Append(sent[z], Head(queue[z]))]
      /\ queue' = [queue EXCEPT ![z] = Tail(queue[z])]
      /\ UNCHANGED <<scrollback, published, base, skipped, subs, subPc, todo>>
  BY DEF Receive, fieldVars, exitVars
<1>2. ASSUME NEW s \in Sub PROVE Stream(s)' = Stream(s)
  <2>1. sent[s] \in Seq(Frame) /\ queue[s] \in Seq(Frame)
    BY StreamType
  <2>2. CASE s = z
    <3>1. Stream(s)' = Append(sent[s], Head(queue[s])) \o Tail(queue[s])
      BY <1>1, <2>2 DEF Stream, TypeOK
    <3>2. QED
      BY <1>1, <2>1, <2>2, <3>1, Concatenated, FrameParts DEF Stream
  <2>3. CASE s # z
    BY <1>1, <2>3 DEF Stream, TypeOK
  <2>4. QED
    BY <2>2, <2>3
<1>3. \A s \in Sub \ {z} : sent'[s] = sent[s] /\ queue'[s] = queue[s]
  BY <1>1 DEF TypeOK
<1>4. QED
  BY <1>1, <1>2, <1>3 DEF Streams

LEMMA JoinStreams == ASSUME TypeOK, Streams, NEW z \in Sub, SubscribeOpen(z) PROVE Streams'
<1>1. /\ subPc[z] = "joining"
      /\ queue' = [queue EXCEPT ![z] = <<Replay(scrollback)>>]
      /\ base' = [base EXCEPT ![z] = Len(published)]
      /\ subPc' = [subPc EXCEPT ![z] = "attached"]
      /\ subs' = subs \cup {z}
      /\ UNCHANGED <<scrollback, published, skipped, sent, todo>>
  BY DEF SubscribeOpen, exitVars
<1>2. published \in Seq(Chunk) /\ Len(published) \in Nat
  BY LenProperties DEF TypeOK
<1>3. ASSUME NEW s \in Sub
      PROVE  /\ base'[s] <= Len(published)
             /\ skipped[s] \subseteq Published(published, 1, Len(published))
             /\ subPc'[s] \in {"idle", "joining"} =>
                  sent[s] = << >> /\ queue'[s] = << >> /\ skipped[s] = {}
             /\ s \in subs' \cup todo => Stream(s)' # << >>
             /\ Stream(s)' # << >> =>
                  Promised(Stream(s)', base'[s], skipped[s], published, s \in subs')
  <2>1. CASE s = z
    <3>1. sent[s] = << >> /\ skipped[s] = {}
      BY <1>1, <2>1 DEF Streams
    <3>2. /\ base'[s] = Len(published) /\ subPc'[s] = "attached" /\ s \in subs'
          /\ queue'[s] = <<Replay(Retain(published))>>
      BY <1>1, <2>1 DEF Streams, TypeOK
    <3>3. Stream(s)' = <<Replay(Retain(published))>> /\ Stream(s)' # << >>
      <4>1. <<Replay(Retain(published))>> \in Seq(Frame)
        BY <1>2, RetainType, FrameParts
      <4>2. << >> \o <<Replay(Retain(published))>> = <<Replay(Retain(published))>>
        BY <4>1, ConcatEmptySeq
      <4>3. Stream(s)' = sent[s] \o queue'[s]
        BY <1>1 DEF Stream
      <4>4. <<Replay(Retain(published))>> # << >>
        OBVIOUS
      <4>5. QED
        BY <3>1, <3>2, <4>2, <4>3, <4>4
    <3>4. Promised(Stream(s)', base'[s], skipped[s], published, s \in subs')
      BY <1>2, <3>1, <3>2, <3>3, Joined
    <3>5. QED
      BY <1>2, <3>1, <3>2, <3>3, <3>4
  <2>2. CASE s # z
    <3>1. /\ queue'[s] = queue[s] /\ base'[s] = base[s] /\ subPc'[s] = subPc[s]
          /\ Stream(s)' = Stream(s) /\ (s \in subs' <=> s \in subs)
      BY <1>1, <2>2 DEF Stream, TypeOK
    <3>2. Stream(s) # << >> =>
            Promised(Stream(s), base[s], skipped[s], published, s \in subs')
      BY <3>1, Removed DEF Streams
    <3>3. QED
      BY <1>1, <3>1, <3>2 DEF Streams
  <2>3. QED
    BY <2>1, <2>2
<1>4. QED
  BY <1>1, <1>3 DEF Streams

LEMMA StreamsStep == TypeOK /\ Numbered /\ Streams /\ [Next]_vars => Streams'
<1> SUFFICES ASSUME TypeOK, Numbered, Streams, [Next]_vars PROVE Streams'
  OBVIOUS
<1> USE DEF ptyVars, fieldVars, subVars, pumpVars, exitVars, callerVars, history
<1>1. CASE /\ UNCHANGED <<scrollback, published, base, skipped, sent, queue, subPc>>
           /\ subs' \subseteq subs /\ todo' \subseteq todo \cup subs
  BY <1>1, StreamsLeft
<1>2. CASE (\E kind \in Kind : PumpRead(kind)) \/ PumpStop \/ Suppress \/ PumpCancel
  BY <1>1, <1>2 DEF PumpRead, PumpStop, Suppress, PumpCancel
<1>3. CASE ExitRecord \/ FanoutSnapshot \/ FanoutRemove \/ FanoutCancel \/ ExitCollect \/ ExitDone
  BY <1>1, <1>3 DEF ExitRecord, FanoutSnapshot, FanoutRemove, Without, FanoutCancel, ExitCollect,
     ExitDone
<1>4. ASSUME NEW s \in Sub, FanoutSkip(s) \/ FanoutEvict(s) \/ ExitCancel(s) PROVE Streams'
  BY <1>1, <1>4 DEF FanoutSkip, FanoutEvict, ExitCancel
<1>5. ASSUME NEW s \in Sub, ContextEnd(s) PROVE Streams'
  BY <1>1, <1>5 DEF ContextEnd
<1>6. ASSUME NEW s \in Sub,
             SubscribeBegin(s) \/ SubscribeClosed(s) \/ Unsubscribe(s) \/ UnsubscribeCancel(s)
      PROVE  Streams'
  <2>1. /\ UNCHANGED <<scrollback, published, base, skipped, sent, queue, todo>>
        /\ subs' \subseteq subs
    BY <1>6 DEF SubscribeBegin, SubscribeClosed, Unsubscribe, UnsubscribeCancel, Without
  <2>2. \A z \in Sub : subPc'[z] \in {"idle", "joining"} => subPc[z] \in {"idle", "joining"}
    BY <1>6 DEF SubscribeBegin, SubscribeClosed, Unsubscribe, UnsubscribeCancel, TypeOK
  <2>3. QED
    BY <2>1, <2>2, StreamsLeft
<1>7. ASSUME NEW k \in Killer, Kill(k) PROVE Streams'
  BY <1>1, <1>7 DEF Kill, KillClosed, KillMark, KillClose
<1>8. ASSUME NEW r \in Resizer, Resize(r) PROVE Streams'
  BY <1>1, <1>8 DEF Resize, ResizeCheck, ResizeApply, ResizeFail, ResizeRecord
<1>9. CASE ShellExit \/ Tick \/ UNCHANGED vars
  BY <1>1, <1>9 DEF ShellExit, Tick, vars
<1>10. QED
  BY <1>2, <1>3, <1>4, <1>5, <1>6, <1>7, <1>8, <1>9, PublishStreams, SendStreams,
     ReceiveStreams, JoinStreams DEF Next, Pump, WaitExit, Owner, Terminated

LEMMA InitStreams == Init => Numbered /\ Streams
<1> SUFFICES ASSUME Init PROVE Numbered /\ Streams
  OBVIOUS
<1>1. published = << >> /\ Len(published) = 0 /\ pump = "read" /\ scrollback = << >>
  BY DEF Init
<1>2. Retain(<< >>) = << >> /\ Published(<< >>, 1, 0) = {}
  BY SessionAssumption DEF Retain, Published
<1>3. \A s \in Sub : /\ sent[s] = << >> /\ queue[s] = << >> /\ base[s] = 0 /\ skipped[s] = {}
                     /\ Stream(s) = << >>
  <2>1. ASSUME NEW s \in Sub PROVE sent[s] = << >> /\ queue[s] = << >>
    BY DEF Init
  <2>2. TypeOK
    BY InitType
  <2>3. QED
    BY <2>1, <2>2, StreamType DEF Init
<1>4. subs = {} /\ todo = {}
  BY DEF Init
<1>5. QED
  BY <1>1, <1>2, <1>3, <1>4 DEF Numbered, Streams

\* A subscriber gets one replay, the scrollback as it was when it joined, and then, in order
\* and once each, the chunks retained since, but for those withheld around a resize
\* (Subscribe and publishOutput, session.go).
THEOREM DeliveredOnce == Spec => []ExactlyOnce
<1>1. Init => Numbered /\ Streams
  BY InitStreams
<1>2. Streams => ExactlyOnce
  <2> SUFFICES ASSUME Streams, NEW s \in Sub, Stream(s) # << >>
               PROVE  Promised(Stream(s), base[s], skipped[s], published, s \in subs)
    BY DEF ExactlyOnce, Promised, OutAt, Outs, Got, Retained, Published
  <2>1. QED
    BY DEF Streams
<1>3. QED
  BY <1>1, <1>2, NumberedStep, StreamsStep, TypeCorrect, PTL DEF Spec

-----------------------------------------------------------------------------
(* What the subscribers see is what Feed promises *)

\* A subscriber that some goroutine knows of has joined.
Members == \A s \in subs \cup todo \cup dropped \cup evicted : subPc[s] \notin {"idle", "joining"}

\* Whoever is still to be told of the end was not told before.
Untold ==
  /\ exitKnown <=> exitPc # "wait"
  /\ exitPc \in {"wait", "fanout"} => \A s \in Sub : ~ExitIn(sent[s]) /\ ~ExitIn(queue[s])
  /\ exitPc \in {"send", "remove", "evict"} => \A s \in todo : ~ExitIn(sent[s]) /\ ~ExitIn(queue[s])

\* The pump reads no more than MaxChunk chunks.
Counted == emitted <= MaxChunk /\ (pump = "publish" => chunk.n \in 1 .. MaxChunk)

LEMMA CountedStep == TypeOK /\ Counted /\ [Next]_vars => Counted'
<1> SUFFICES ASSUME TypeOK, Counted, [Next]_vars PROVE Counted'
  OBVIOUS
<1> USE DEF ptyVars, fieldVars, subVars, pumpVars, exitVars, callerVars, history
<1>1. CASE UNCHANGED <<emitted, chunk>> /\ (pump' = "publish" => pump = "publish")
  BY <1>1 DEF Counted
<1>2. ASSUME NEW kind \in Kind, PumpRead(kind) PROVE Counted'
  <2>1. emitted \in Nat /\ MaxChunk \in Nat
    BY SessionAssumption DEF TypeOK
  <2>2. emitted' = emitted + 1 /\ emitted < MaxChunk /\ chunk'.n = emitted + 1
    BY <1>2 DEF PumpRead
  <2>3. QED
    BY <2>1, <2>2 DEF Counted
<1>3. CASE Pump
  BY <1>1, <1>2, <1>3 DEF Pump, PumpStop, Suppress, Publish, PumpCancel
<1>4. CASE WaitExit
  BY <1>1, <1>4 DEF WaitExit, ExitRecord, FanoutSnapshot, FanoutRemove, FanoutCancel, ExitCollect,
     ExitDone, FanoutSend, FanoutSkip, FanoutEvict, ExitCancel
<1>5. ASSUME NEW s \in Sub, Owner(s) PROVE Counted'
  BY <1>1, <1>5 DEF Owner, SubscribeBegin, SubscribeClosed, SubscribeOpen, Receive, ContextEnd,
     Unsubscribe, UnsubscribeCancel
<1>6. ASSUME NEW k \in Killer, Kill(k) PROVE Counted'
  BY <1>1, <1>6 DEF Kill, KillClosed, KillMark, KillClose
<1>7. ASSUME NEW r \in Resizer, Resize(r) PROVE Counted'
  BY <1>1, <1>7 DEF Resize, ResizeCheck, ResizeApply, ResizeFail, ResizeRecord
<1>8. CASE ShellExit \/ Tick \/ Terminated \/ UNCHANGED vars
  BY <1>1, <1>8 DEF ShellExit, Tick, Terminated, vars
<1>9. QED
  BY <1>3, <1>4, <1>5, <1>6, <1>7, <1>8 DEF Next

LEMMA MembersStep == TypeOK /\ Members /\ [Next]_vars => Members'
<1> SUFFICES ASSUME TypeOK, Members, [Next]_vars PROVE Members'
  OBVIOUS
<1> USE DEF ptyVars, fieldVars, subVars, pumpVars, exitVars, callerVars, history
<1>1. CASE /\ subs' \cup todo' \cup dropped' \cup evicted' \subseteq subs \cup todo \cup dropped \cup evicted
           /\ \A s \in Sub : subPc'[s] \in {"idle", "joining"} => subPc[s] \in {"idle", "joining"}
  BY <1>1 DEF Members, TypeOK
<1>2. CASE Pump
  BY <1>1, <1>2 DEF Pump, PumpRead, PumpStop, Suppress, Publish, PumpCancel, Without
<1>3. CASE ExitRecord \/ FanoutSnapshot \/ FanoutRemove \/ FanoutCancel \/ ExitCollect \/ ExitDone
  BY <1>1, <1>3 DEF ExitRecord, FanoutSnapshot, FanoutRemove, Without, FanoutCancel, ExitCollect,
     ExitDone
<1>4. ASSUME NEW s \in Sub, FanoutSend(s) \/ FanoutSkip(s) \/ FanoutEvict(s) \/ ExitCancel(s)
      PROVE  Members'
  BY <1>1, <1>4 DEF FanoutSend, FanoutSkip, FanoutEvict, ExitCancel
<1>5. ASSUME NEW s \in Sub, SubscribeOpen(s) PROVE Members'
  BY <1>5 DEF SubscribeOpen, Members, TypeOK
<1>6. ASSUME NEW s \in Sub, Owner(s) PROVE Members'
  BY <1>1, <1>5, <1>6 DEF Owner, SubscribeBegin, SubscribeClosed, Receive, ContextEnd,
     Unsubscribe, UnsubscribeCancel, Without, TypeOK
<1>7. ASSUME NEW k \in Killer, Kill(k) PROVE Members'
  BY <1>1, <1>7 DEF Kill, KillClosed, KillMark, KillClose
<1>8. ASSUME NEW r \in Resizer, Resize(r) PROVE Members'
  BY <1>1, <1>8 DEF Resize, ResizeCheck, ResizeApply, ResizeFail, ResizeRecord
<1>9. CASE ShellExit \/ Tick \/ Terminated \/ UNCHANGED vars
  BY <1>1, <1>9 DEF ShellExit, Tick, Terminated, vars
<1>10. QED
  BY <1>2, <1>3, <1>4, <1>6, <1>7, <1>8, <1>9 DEF Next, WaitExit

\* Output and a replay bring no exit frame.
LEMMA NoExit ==
  /\ \A c \in Chunk : Out(c) # Exit
  /\ \A d \in Seq(Chunk) : ~ExitIn(<<Replay(d)>>)
  /\ ~ExitIn(<< >>)
BY DEF Out, Exit, Replay, ExitIn

LEMMA UntoldStep == TypeOK /\ Members /\ ClosedFirst /\ Untold /\ [Next]_vars => Untold'
<1> SUFFICES ASSUME TypeOK, Members, ClosedFirst, Untold, [Next]_vars PROVE Untold'
  OBVIOUS
<1> USE DEF ptyVars, fieldVars, subVars, pumpVars, exitVars, callerVars, history
<1>1. CASE UNCHANGED <<exitKnown, exitPc, todo, sent, queue>>
  BY <1>1 DEF Untold
<1>2. CASE Publish
  <2>1. UNCHANGED <<exitKnown, exitPc, todo, sent>>
    BY <1>2 DEF Publish
  <2>2. ASSUME NEW s \in Sub, ~ExitIn(queue[s]) PROVE ~ExitIn(queue'[s])
    <3>1. queue[s] \in Seq(Frame) /\ Out(chunk) \in Frame /\ Out(chunk) # Exit
      BY FrameTypes, NoExit DEF TypeOK
    <3>2. queue'[s] = queue[s] \/ queue'[s] = Append(queue[s], Out(chunk))
      BY <1>2 DEF Publish
    <3>3. QED
      BY <2>2, <3>1, <3>2, ExitInAppend
  <2>3. QED
    BY <2>1, <2>2 DEF Untold, TypeOK
<1>3. CASE Pump
  BY <1>1, <1>2, <1>3 DEF Pump, PumpRead, PumpStop, Suppress, PumpCancel
<1>4. CASE ExitRecord
  BY <1>4 DEF ExitRecord, Untold
<1>5. CASE FanoutSnapshot
  BY <1>5 DEF FanoutSnapshot, Untold, TypeOK
<1>6. CASE FanoutRemove \/ FanoutCancel \/ ExitCollect \/ ExitDone
  BY <1>6 DEF FanoutRemove, FanoutCancel, ExitCollect, ExitDone, Untold
<1>7. ASSUME NEW s \in Sub, FanoutSend(s) PROVE Untold'
  BY <1>7 DEF FanoutSend, Untold, TypeOK
<1>8. ASSUME NEW s \in Sub, FanoutSkip(s) \/ FanoutEvict(s) \/ ExitCancel(s) PROVE Untold'
  BY <1>8 DEF FanoutSkip, FanoutEvict, ExitCancel, Untold
<1>9. ASSUME NEW s \in Sub, SubscribeOpen(s) PROVE Untold'
  <2>1. ~closed /\ UNCHANGED <<exitKnown, exitPc, todo, sent>>
    BY <1>9 DEF SubscribeOpen
  <2>2. ~ExitIn(queue'[s]) /\ \A z \in Sub \ {s} : queue'[z] = queue[z]
    BY <1>9, NoExit DEF SubscribeOpen, TypeOK
  <2>3. QED
    BY <2>1, <2>2 DEF ClosedFirst, Untold
<1>10. ASSUME NEW s \in Sub, Receive(s) PROVE Untold'
  <2>1. /\ queue[s] \in Seq(Frame) /\ sent[s] \in Seq(Frame) /\ queue[s] # << >>
        /\ Head(queue[s]) \in Frame /\ Tail(queue[s]) \in Seq(Frame)
    BY <1>10, DequeueType DEF Receive, TypeOK
  <2>2. sent'[s] = Append(sent[s], Head(queue[s])) /\ queue'[s] = Tail(queue[s])
    BY <1>10 DEF Receive, TypeOK
  <2>3. ~ExitIn(queue[s]) => Head(queue[s]) # Exit /\ ~ExitIn(Tail(queue[s]))
    BY <2>1, ExitInParts
  <2>4. ~ExitIn(sent[s]) /\ ~ExitIn(queue[s]) => ~ExitIn(sent'[s]) /\ ~ExitIn(queue'[s])
    BY <2>1, <2>2, <2>3, ExitInAppend
  <2>5. \A z \in Sub \ {s} : queue'[z] = queue[z] /\ sent'[z] = sent[z]
    BY <1>10 DEF Receive, TypeOK
  <2>6. UNCHANGED <<exitKnown, exitPc, todo>>
    BY <1>10 DEF Receive
  <2>7. QED
    BY <2>4, <2>5, <2>6 DEF Untold, TypeOK
<1>11. ASSUME NEW s \in Sub, Owner(s) PROVE Untold'
  BY <1>1, <1>9, <1>10, <1>11 DEF Owner, SubscribeBegin, SubscribeClosed, ContextEnd,
     Unsubscribe, UnsubscribeCancel
<1>12. ASSUME NEW k \in Killer, Kill(k) PROVE Untold'
  BY <1>1, <1>12 DEF Kill, KillClosed, KillMark, KillClose
<1>13. ASSUME NEW r \in Resizer, Resize(r) PROVE Untold'
  BY <1>1, <1>13 DEF Resize, ResizeCheck, ResizeApply, ResizeFail, ResizeRecord
<1>14. CASE ShellExit \/ Tick \/ Terminated \/ UNCHANGED vars
  BY <1>1, <1>14 DEF ShellExit, Tick, Terminated, vars
<1>15. QED
  BY <1>3, <1>4, <1>5, <1>6, <1>7, <1>8, <1>11, <1>12, <1>13, <1>14 DEF Next, WaitExit

\* What a subscriber sees changes with what it is made of only.
LEMMA Unseen ==
  /\ UNCHANGED <<exitKnown, closed>> => UNCHANGED phase
  /\ UNCHANGED repaintUntil => UNCHANGED resizing
  /\ UNCHANGED subPc => UNCHANGED owner
  /\ UNCHANGED sent => UNCHANGED taken
  /\ UNCHANGED <<sent, queue>> => UNCHANGED <<feed, taken>>
  /\ UNCHANGED <<exitPc, evicted>> => UNCHANGED doomed
  /\ exitPc # "remove" => doomed = {}
  /\ exitPc' # "remove" => doomed' = {}
<1>1. UNCHANGED <<exitKnown, closed>> => UNCHANGED phase
  BY DEF phase
<1>2. UNCHANGED repaintUntil => UNCHANGED resizing
  BY DEF resizing
<1>3. UNCHANGED subPc => UNCHANGED owner
  BY DEF owner
<1>4. UNCHANGED sent => UNCHANGED taken
  BY DEF taken
<1>5. UNCHANGED <<sent, queue>> => UNCHANGED feed
  BY DEF feed, Stream
<1>6. /\ UNCHANGED <<exitPc, evicted>> => UNCHANGED doomed
      /\ exitPc # "remove" => doomed = {}
      /\ exitPc' # "remove" => doomed' = {}
  BY DEF doomed
<1>7. QED
  BY <1>1, <1>2, <1>3, <1>4, <1>5, <1>6

\* What waits for a subscriber is what it got and did not take.
LEMMA Waiting ==
  ASSUME TypeOK, NEW s \in Sub
  PROVE  /\ feed[s] = Stream(s) /\ Stream(s) \in Seq(Frame)
         /\ taken[s] \in Nat /\ Len(feed[s]) = taken[s] + Len(queue[s]) /\ Len(queue[s]) \in Nat
         /\ Seen!Slow(s) <=> ~HasRoom(s)
         /\ Seen!ToldExit(s) <=> ExitIn(sent[s]) \/ ExitIn(queue[s])
<1>1. feed[s] = Stream(s) /\ taken[s] = Len(sent[s])
  BY DEF feed, taken
<1>2. sent[s] \in Seq(Frame) /\ queue[s] \in Seq(Frame) /\ Stream(s) \in Seq(Frame)
  BY StreamType
<1>3. /\ Len(sent[s]) \in Nat /\ Len(queue[s]) \in Nat
      /\ Len(sent[s] \o queue[s]) = Len(sent[s]) + Len(queue[s])
  BY <1>2, LenProperties, ConcatProperties
<1>4. Len(feed[s]) = taken[s] + Len(queue[s])
  BY <1>1, <1>3 DEF Stream
<1>5. Seen!Slow(s) <=> ~HasRoom(s)
  BY <1>1, <1>3, <1>4, SessionAssumption DEF Seen!Slow, HasRoom
<1>6. Seen!ToldExit(s) <=> ExitIn(Stream(s))
  BY <1>1 DEF Seen!ToldExit, Seen!Exit, Exit, ExitIn
<1>7. ExitIn(Stream(s)) <=> ExitIn(sent[s]) \/ ExitIn(queue[s])
  BY <1>2, ExitInConcat DEF Stream
<1>8. QED
  BY <1>1, <1>2, <1>3, <1>4, <1>5, <1>6, <1>7

\* A frame more on the channel is one more in what the subscriber got.
LEMMA Fed ==
  ASSUME TypeOK, NEW s \in Sub, NEW f \in Frame, UNCHANGED sent,
         queue'[s] = Append(queue[s], f)
  PROVE  feed'[s] = Append(feed[s], f)
<1>1. sent[s] \in Seq(Frame) /\ queue[s] \in Seq(Frame)
  BY StreamType
<1>2. feed[s] = sent[s] \o queue[s] /\ feed'[s] = sent[s] \o Append(queue[s], f)
  BY DEF feed, Stream
<1>3. sent[s] \o Append(queue[s], f) = Append(sent[s] \o queue[s], f)
  BY <1>1, Concatenated
<1>4. QED
  BY <1>2, <1>3

LEMMA FeedDomain ==
  /\ feed = [s \in Sub |-> feed[s]] /\ feed' = [s \in Sub |-> feed'[s]]
  /\ \A s \in Sub : UNCHANGED <<sent, queue[s]>> => feed'[s] = feed[s]
BY DEF feed, Stream

LEMMA PublishSeen ==
  ASSUME TypeOK, Counted, Publish
  PROVE  Seen!Publish(chunk) /\ chunk \in [n : 1 .. MaxChunk, kind : Kind]
<1> USE DEF ptyVars, fieldVars, subVars, pumpVars, exitVars, callerVars, history
<1> DEFINE skip    == {s \in subs : Fresh(s)}
           offered == subs \ skip
<1>1. PICK got \in SUBSET offered :
        /\ Selected(got, offered)
        /\ queue' = [s \in Sub |-> IF s \in got THEN Append(queue[s], Out(chunk)) ELSE queue[s]]
        /\ subs' = Without(offered \ got)
  BY DEF Publish
<1>2. /\ published' = Append(published, chunk) /\ pump = "publish"
      /\ repaintUntil' \in {repaintUntil, 0}
      /\ UNCHANGED <<exitKnown, exitPc, evicted, closed, subPc, cancelled, sent>>
  BY DEF Publish
<1>3. chunk \in [n : 1 .. MaxChunk, kind : Kind] /\ Out(chunk) \in Frame
  BY <1>2, FrameTypes DEF Counted, TypeOK, Chunk
<1> DEFINE lost == offered \ got
<1>4. skip \in SUBSET subs /\ lost \in SUBSET (subs \ skip) /\ subs \ (skip \cup lost) = got
  OBVIOUS
<1>5. skip # {} => resizing
  BY DEF Fresh, resizing
<1>6. \A s \in lost : Seen!Slow(s) \/ s \in cancelled
  BY <1>1, Waiting DEF Selected, TypeOK
<1>7. \A s \in got : ~Seen!Slow(s)
  BY <1>1, Waiting DEF Selected, TypeOK
<1>8. feed' = [s \in Sub |-> IF s \in got THEN Append(feed[s], Seen!Out(chunk)) ELSE feed[s]]
  <2>1. ASSUME NEW s \in Sub, s \in got PROVE feed'[s] = Append(feed[s], Seen!Out(chunk))
    <3>1. queue'[s] = Append(queue[s], Out(chunk))
      BY <1>1, <2>1
    <3>2. QED
      BY <1>2, <1>3, <3>1, Fed DEF Out, Seen!Out
  <2>2. ASSUME NEW s \in Sub, s \notin got PROVE feed'[s] = feed[s]
    <3>1. queue'[s] = queue[s]
      BY <1>1, <2>2
    <3>2. QED
      BY <1>2, <3>1, FeedDomain
  <2>3. QED
    BY <2>1, <2>2, FeedDomain
<1>9. subs' = subs \ lost
  BY <1>1 DEF Without
<1>10. resizing' \in {resizing, FALSE}
  BY <1>2 DEF resizing
<1>11. UNCHANGED <<phase, owner, doomed, cancelled, taken>>
  BY <1>2, Unseen
<1> HIDE DEF skip, lost, offered
<1>12. Seen!Publish(chunk)
  BY <1>2, <1>4, <1>5, <1>6, <1>7, <1>8, <1>9, <1>10, <1>11 DEF Seen!Publish
<1>13. QED
  BY <1>3, <1>12

LEMMA ReceiveSeen == ASSUME TypeOK, NEW s \in Sub, Receive(s) PROVE Seen!Take(s)
<1> USE DEF ptyVars, fieldVars, subVars, pumpVars, exitVars, callerVars, history
<1>1. /\ sent[s] \in Seq(Frame) /\ queue[s] \in Seq(Frame) /\ queue[s] # << >>
      /\ Head(queue[s]) \in Frame /\ subPc[s] = "attached"
  BY DequeueType DEF Receive, TypeOK
<1>2. /\ sent' = [sent EXCEPT ![s] = Append(@, Head(queue[s]))]
      /\ queue' = [queue EXCEPT ![s] = Tail(@)]
      /\ UNCHANGED <<exitKnown, exitPc, evicted, closed, repaintUntil, subPc, subs, published, cancelled>>
  BY DEF Receive
<1>3. owner[s] = "in"
  BY <1>1 DEF owner
<1>4. taken[s] < Len(feed[s])
  BY <1>1, Waiting, EmptySeq
<1>5. taken' = [taken EXCEPT ![s] = @ + 1]
  <2>1. Len(Append(sent[s], Head(queue[s]))) = Len(sent[s]) + 1
    BY <1>1, AppendProperties
  <2>2. \A z \in Sub : Len(sent'[z]) = IF z = s THEN taken[z] + 1 ELSE taken[z]
    BY <1>2, <2>1 DEF taken, TypeOK
  <2>3. QED
    BY <2>2 DEF taken
<1>6. feed' = feed
  <2>1. Append(sent[s], Head(queue[s])) \o Tail(queue[s]) = sent[s] \o queue[s]
    BY <1>1, Concatenated
  <2>2. \A z \in Sub : sent'[z] \o queue'[z] = sent[z] \o queue[z]
    BY <1>2, <2>1 DEF TypeOK
  <2>3. QED
    BY <2>2 DEF feed, Stream
<1>7. QED
  BY <1>2, <1>3, <1>4, <1>5, <1>6, Unseen DEF Seen!Take

LEMMA JoinSeen == ASSUME TypeOK, ClosedFirst, Untold, Streams, NEW s \in Sub, SubscribeOpen(s) PROVE Seen!Join(s)
<1> USE DEF ptyVars, fieldVars, subVars, pumpVars, exitVars, callerVars, history
<1>1. /\ ~closed /\ subPc[s] = "joining" /\ subs' = subs \cup {s}
      /\ queue' = [queue EXCEPT ![s] = <<Replay(scrollback)>>]
      /\ subPc' = [subPc EXCEPT ![s] = "attached"]
      /\ UNCHANGED <<exitKnown, exitPc, evicted, closed, repaintUntil, published, cancelled, sent>>
  BY DEF SubscribeOpen
<1>2. phase = "open"
  BY <1>1 DEF ClosedFirst, Untold, phase
<1>3. owner[s] = "out" /\ owner' = [owner EXCEPT ![s] = "in"]
  <2>1. owner[s] = "out"
    BY <1>1 DEF owner
  <2>2. ASSUME NEW z \in Sub PROVE owner'[z] = IF z = s THEN "in" ELSE owner[z]
    BY <1>1 DEF owner, TypeOK
  <2>3. owner' = [z \in Sub |-> owner'[z]] /\ owner = [z \in Sub |-> owner[z]]
    BY DEF owner
  <2>4. QED
    BY <2>1, <2>2, <2>3
<1>4. feed' = [feed EXCEPT ![s] = <<Seen!Replay(Seen!Latest(published))>>]
  <2>1. Replay(scrollback) = Seen!Replay(Seen!Latest(published))
    BY DEF Streams, Retain, Replay, Seen!Latest, Seen!Replay
  <2>2. feed'[s] = <<Replay(scrollback)>>
    <3>1. sent[s] = << >> /\ sent' = sent /\ queue'[s] = <<Replay(scrollback)>>
      BY <1>1 DEF Streams, TypeOK
    <3>2. Replay(scrollback) \in Frame
      BY FrameTypes DEF TypeOK
    <3>3. << >> \o <<Replay(scrollback)>> = <<Replay(scrollback)>>
      BY <3>2
    <3>4. QED
      BY <3>1, <3>3 DEF feed, Stream
  <2>3. ASSUME NEW z \in Sub, z # s PROVE feed'[z] = feed[z]
    <3>1. queue'[z] = queue[z]
      BY <1>1, <2>3 DEF TypeOK
    <3>2. QED
      BY <1>1, <3>1, FeedDomain
  <2>4. QED
    BY <2>1, <2>2, <2>3, FeedDomain
<1>5. QED
  BY <1>1, <1>2, <1>3, <1>4, Unseen DEF Seen!Join

\* What the goroutine that owns a subscription does.
LEMMA OwnerSeen ==
  ASSUME TypeOK, ClosedFirst, Untold, Streams, NEW s \in Sub, Owner(s)
  PROVE  \/ Seen!Join(s) \/ Seen!Refuse(s) \/ Seen!Take(s) \/ Seen!Leave(s)
         \/ Seen!Cancel({s}) \/ UNCHANGED Seen!vars
<1> USE DEF ptyVars, fieldVars, subVars, pumpVars, exitVars, callerVars, history
<1>1. CASE SubscribeBegin(s)
  <2>1. /\ subPc[s] = "idle" /\ subPc' = [subPc EXCEPT ![s] = "joining"]
        /\ UNCHANGED <<exitKnown, exitPc, evicted, closed, repaintUntil, published, subs, cancelled, sent, queue>>
    BY <1>1 DEF SubscribeBegin
  <2>2. UNCHANGED owner
    BY <2>1 DEF owner, TypeOK
  <2>3. QED
    BY <2>1, <2>2, Unseen DEF Seen!vars
<1>2. CASE SubscribeClosed(s)
  <2>1. /\ subPc[s] = "joining" /\ closed /\ subPc' = [subPc EXCEPT ![s] = "gone"]
        /\ cancelled' = cancelled \cup {s}
        /\ UNCHANGED <<exitKnown, exitPc, evicted, closed, repaintUntil, published, subs, sent, queue>>
    BY <1>2 DEF SubscribeClosed
  <2>2. owner[s] = "out" /\ owner' = [owner EXCEPT ![s] = "left"]
    BY <2>1 DEF owner, TypeOK
  <2>3. phase # "open"
    BY <2>1 DEF phase
  <2>4. QED
    BY <2>1, <2>2, <2>3, Unseen DEF Seen!Refuse
<1>3. CASE ContextEnd(s)
  <2>1. /\ subPc[s] = "attached" /\ cancelled' = cancelled \cup {s}
        /\ UNCHANGED <<exitKnown, exitPc, evicted, closed, repaintUntil, published, subs, subPc, sent, queue>>
    BY <1>3 DEF ContextEnd
  <2>2. owner[s] # "out"
    BY <2>1 DEF owner
  <2>3. QED
    BY <2>1, <2>2, Unseen DEF Seen!Cancel
<1>4. CASE Unsubscribe(s)
  <2>1. /\ subPc[s] = "attached" /\ subPc' = [subPc EXCEPT ![s] = "leaving"]
        /\ subs' = subs \ {s}
        /\ UNCHANGED <<exitKnown, exitPc, evicted, closed, repaintUntil, published, cancelled, sent, queue>>
    BY <1>4 DEF Unsubscribe, Without
  <2>2. owner[s] = "in" /\ owner' = [owner EXCEPT ![s] = "left"]
    BY <2>1 DEF owner, TypeOK
  <2>3. QED
    BY <2>1, <2>2, Unseen DEF Seen!Leave
<1>5. CASE UnsubscribeCancel(s)
  <2>1. /\ subPc[s] = "leaving" /\ subPc' = [subPc EXCEPT ![s] = "gone"]
        /\ cancelled' = cancelled \cup {s}
        /\ UNCHANGED <<exitKnown, exitPc, evicted, closed, repaintUntil, published, subs, sent, queue>>
    BY <1>5 DEF UnsubscribeCancel
  <2>2. owner[s] # "out" /\ UNCHANGED owner
    BY <2>1 DEF owner, TypeOK
  <2>3. QED
    BY <2>1, <2>2, Unseen DEF Seen!Cancel
<1>6. QED
  BY <1>1, <1>2, <1>3, <1>4, <1>5, JoinSeen, ReceiveSeen DEF Owner

LEMMA SendSeen ==
  ASSUME TypeOK, Members, Untold, NEW s \in Sub, FanoutSend(s)
  PROVE  Seen!TellExit(s)
<1> USE DEF ptyVars, fieldVars, subVars, pumpVars, exitVars, callerVars, history
<1>1. /\ exitPc = "send" /\ s \in todo /\ HasRoom(s)
      /\ queue' = [queue EXCEPT ![s] = Append(@, Exit)]
      /\ UNCHANGED <<exitKnown, exitPc, evicted, closed, repaintUntil, published, subs, subPc, cancelled, sent>>
  BY DEF FanoutSend
<1>2. phase = "ended"
  BY <1>1 DEF Untold, phase
<1>3. owner[s] # "out"
  BY <1>1 DEF Members, owner
<1>4. ~Seen!Slow(s) /\ ~Seen!ToldExit(s)
  BY <1>1, Waiting DEF Untold
<1>5. feed' = [feed EXCEPT ![s] = Append(@, Seen!Exit)]
  <2>1. feed'[s] = Append(feed[s], Seen!Exit)
    <3>1. queue'[s] = Append(queue[s], Exit)
      BY <1>1 DEF TypeOK
    <3>2. QED
      BY <1>1, <3>1, Fed, FrameTypes DEF Seen!Exit, Exit
  <2>2. ASSUME NEW z \in Sub, z # s PROVE feed'[z] = feed[z]
    <3>1. queue'[z] = queue[z]
      BY <1>1, <2>2 DEF TypeOK
    <3>2. QED
      BY <1>1, <3>1, FeedDomain
  <2>3. QED
    BY <2>1, <2>2, FeedDomain
<1>6. QED
  BY <1>1, <1>2, <1>3, <1>4, <1>5, Unseen DEF Seen!TellExit

\* The waitExit goroutine tells of the end and takes the subscribers away.
LEMMA WaitExitSeen ==
  ASSUME TypeOK, ClosedFirst, ExitOwed, Members, Untold, WaitExit
  PROVE  \/ Seen!End \/ Seen!Evict \/ Seen!Collect \/ UNCHANGED Seen!vars
         \/ \E s \in Sub : Seen!TellExit(s) \/ Seen!Judge(s)
         \/ \E S \in SUBSET Sub : Seen!Cancel(S)
<1> USE DEF ptyVars, fieldVars, subVars, pumpVars, exitVars, callerVars, history
<1>1. CASE ExitRecord
  <2>1. /\ exitPc = "wait" /\ exitPc' = "fanout" /\ exitKnown' = TRUE
        /\ UNCHANGED <<repaintUntil, published, subs, subPc, cancelled, sent, queue>>
    BY <1>1 DEF ExitRecord
  <2>2. phase # "ended" /\ phase' = "ended"
    BY <2>1 DEF Untold, phase
  <2>3. QED
    BY <2>1, <2>2, Unseen DEF Seen!End
<1>2. CASE FanoutSnapshot \/ ExitDone \/ \E s \in Sub : FanoutSkip(s)
  <2>1. /\ exitPc # "remove" /\ exitPc' # "remove"
        /\ UNCHANGED <<exitKnown, closed, repaintUntil, published, subs, subPc, cancelled, sent, queue>>
    BY <1>2 DEF FanoutSnapshot, ExitDone, FanoutSkip
  <2>2. QED
    BY <2>1, Unseen DEF Seen!vars
<1>3. CASE FanoutCancel
  <2>1. /\ exitPc = "evict" /\ exitPc' = "send" /\ cancelled' = cancelled \cup evicted
        /\ UNCHANGED <<exitKnown, closed, repaintUntil, published, subs, subPc, sent, queue>>
    BY <1>3 DEF FanoutCancel
  <2>2. evicted \in SUBSET Sub /\ \A s \in evicted : owner[s] # "out"
    BY DEF Members, owner, TypeOK
  <2>3. Seen!Cancel(evicted)
    BY <2>1, <2>2, Unseen DEF Seen!Cancel
  <2>4. QED
    BY <2>2, <2>3
<1>4. CASE ExitCollect
  <2>1. /\ exitPc = "send" /\ exitPc' = "cancel" /\ todo = {} /\ subs' = {}
        /\ UNCHANGED <<exitKnown, closed, repaintUntil, published, subPc, cancelled, sent, queue>>
    BY <1>4 DEF ExitCollect
  <2>2. phase = "ended"
    BY <2>1 DEF Untold, phase
  <2>3. \A s \in subs : Seen!ToldExit(s) \/ s \in cancelled
    BY <2>1, Waiting DEF ExitOwed, TypeOK
  <2>4. QED
    BY <2>1, <2>2, <2>3, Unseen DEF Seen!Collect
<1>5. ASSUME NEW s \in Sub, FanoutEvict(s) PROVE Seen!Judge(s)
  <2>1. /\ exitPc = "send" /\ exitPc' = "remove" /\ evicted' = {s}
        /\ ~HasRoom(s) /\ s \notin cancelled
        /\ UNCHANGED <<exitKnown, closed, repaintUntil, published, subs, subPc, cancelled, sent, queue>>
    BY <1>5 DEF FanoutEvict
  <2>2. phase = "ended" /\ Seen!Slow(s)
    BY <2>1, Waiting DEF Untold, phase
  <2>3. doomed' = doomed \cup {s}
    BY <2>1 DEF doomed
  <2>4. QED
    BY <2>1, <2>2, <2>3, Unseen DEF Seen!Judge
<1>6. CASE FanoutRemove
  <2>1. /\ exitPc = "remove" /\ exitPc' = "evict" /\ subs' = subs \ evicted
        /\ UNCHANGED <<exitKnown, closed, repaintUntil, published, subPc, cancelled, sent, queue>>
    BY <1>6 DEF FanoutRemove, Without
  <2>2. doomed = evicted /\ doomed' = {}
    BY <2>1 DEF doomed
  <2>3. QED
    BY <2>1, <2>2, Unseen DEF Seen!Evict
<1>7. ASSUME NEW s \in Sub, ExitCancel(s) PROVE Seen!Cancel({s})
  <2>1. /\ exitPc = "cancel" /\ exitPc' = "cancel" /\ s \in todo /\ cancelled' = cancelled \cup {s}
        /\ UNCHANGED <<exitKnown, closed, repaintUntil, published, subs, subPc, sent, queue>>
    BY <1>7 DEF ExitCancel
  <2>2. owner[s] # "out"
    BY <2>1 DEF Members, owner
  <2>3. QED
    BY <2>1, <2>2, Unseen DEF Seen!Cancel
<1>8. \A s \in Sub : {s} \in SUBSET Sub
  OBVIOUS
<1>9. QED
  BY <1>1, <1>2, <1>3, <1>4, <1>5, <1>6, <1>7, <1>8, SendSeen DEF WaitExit

\* Steps of the pump that publish nothing.
LEMMA PumpSeen ==
  ASSUME TypeOK, Members, Pump, ~Publish
  PROVE  Seen!Cancel(dropped) \/ UNCHANGED Seen!vars
<1> USE DEF ptyVars, fieldVars, subVars, pumpVars, exitVars, callerVars, history
<1>1. CASE PumpCancel
  <2>1. /\ cancelled' = cancelled \cup dropped
        /\ UNCHANGED <<exitKnown, exitPc, evicted, closed, repaintUntil, published, subs, subPc, sent, queue>>
    BY <1>1 DEF PumpCancel
  <2>2. \A s \in dropped : owner[s] # "out"
    BY DEF Members, owner, TypeOK
  <2>3. QED
    BY <2>1, <2>2, Unseen DEF Seen!Cancel
<1>2. CASE (\E kind \in Kind : PumpRead(kind)) \/ PumpStop \/ Suppress
  <2>1. UNCHANGED <<exitKnown, exitPc, evicted, closed, repaintUntil, published, subs, subPc, cancelled, sent, queue>>
    BY <1>2 DEF PumpRead, PumpStop, Suppress
  <2>2. QED
    BY <2>1, Unseen DEF Seen!vars
<1>3. QED
  BY <1>1, <1>2 DEF Pump

LEMMA CallerSeen ==
  ASSUME TypeOK, ClosedFirst, Untold,
         (\E k \in Killer : Kill(k)) \/ (\E r \in Resizer : Resize(r))
  PROVE  Seen!Close \/ Seen!Resize \/ UNCHANGED Seen!vars
<1> USE DEF ptyVars, fieldVars, subVars, pumpVars, exitVars, callerVars, history
<1>1. ASSUME NEW k \in Killer, KillMark(k) PROVE Seen!Close
  <2>1. /\ ~closed /\ closed' = TRUE
        /\ UNCHANGED <<exitKnown, exitPc, evicted, repaintUntil, published, subs, subPc, cancelled, sent, queue>>
    BY <1>1 DEF KillMark
  <2>2. phase = "open" /\ phase' = "closed"
    BY <2>1 DEF ClosedFirst, Untold, phase
  <2>3. QED
    BY <2>1, <2>2, Unseen DEF Seen!Close
<1>2. ASSUME NEW r \in Resizer, ResizeRecord(r) PROVE Seen!Resize
  <2>1. /\ repaintUntil' = clock + Window
        /\ UNCHANGED <<exitKnown, exitPc, evicted, closed, published, subs, subPc, cancelled, sent, queue>>
    BY <1>2 DEF ResizeRecord
  <2>2. clock \in Nat /\ Window \in Nat \ {0}
    BY SessionAssumption DEF TypeOK
  <2>3. resizing' = TRUE
    BY <2>1, <2>2 DEF resizing
  <2>4. QED
    BY <2>1, <2>3, Unseen DEF Seen!Resize
<1>3. CASE \/ \E k \in Killer : KillClosed(k) \/ KillClose(k)
           \/ \E r \in Resizer : (\E d \in Dim : ResizeCheck(r, d)) \/ ResizeApply(r) \/ ResizeFail(r)
  <2>1. UNCHANGED <<exitKnown, exitPc, evicted, closed, repaintUntil, published, subs, subPc, cancelled, sent, queue>>
    BY <1>3 DEF KillClosed, KillClose, ResizeCheck, ResizeApply, ResizeFail
  <2>2. QED
    BY <2>1, Unseen DEF Seen!vars
<1>4. QED
  BY <1>1, <1>2, <1>3 DEF Kill, Resize

Followed ==
  /\ ClosedFirst /\ Custody /\ ExitOwed /\ Numbered /\ Streams
  /\ Members /\ Untold /\ Counted

LEMMA StepSeen ==
  ASSUME TypeOK, Followed, [Next]_vars
  PROVE  [Seen!Next]_Seen!vars
<1> USE DEF ptyVars, fieldVars, subVars, pumpVars, exitVars, callerVars, history, Followed
<1>1. CASE Publish
  BY <1>1, PublishSeen DEF Seen!Next
<1>2. CASE Pump /\ ~Publish
  <2>1. dropped \in SUBSET Sub
    BY DEF TypeOK
  <2>2. QED
    BY <1>2, <2>1, PumpSeen DEF Seen!Next
<1>3. CASE WaitExit
  BY <1>3, WaitExitSeen DEF Seen!Next
<1>4. ASSUME NEW s \in Sub, Owner(s) PROVE [Seen!Next]_Seen!vars
  <2>1. {s} \in SUBSET Sub
    OBVIOUS
  <2>2. QED
    BY <1>4, <2>1, OwnerSeen DEF Seen!Next
<1>5. CASE (\E k \in Killer : Kill(k)) \/ (\E r \in Resizer : Resize(r))
  BY <1>5, CallerSeen DEF Seen!Next
<1>6. CASE ShellExit \/ Tick \/ Terminated \/ UNCHANGED vars
  <2>1. UNCHANGED <<exitKnown, exitPc, evicted, closed, repaintUntil, published, subs, subPc, cancelled, sent, queue>>
    BY <1>6 DEF ShellExit, Tick, Terminated, vars
  <2>2. QED
    BY <2>1, Unseen DEF Seen!vars
<1>7. QED
  BY <1>1, <1>2, <1>3, <1>4, <1>5, <1>6 DEF Next

LEMMA InitFollowed == Init => Followed
<1> SUFFICES ASSUME Init PROVE Followed
  OBVIOUS
<1>1. ClosedFirst /\ Custody /\ ExitOwed /\ Members
  BY DEF Init, ClosedFirst, Custody, NoOrphanedSubscriber, ExitOwed, Members
<1>2. Numbered /\ Streams
  BY InitStreams
<1>3. Untold
  BY NoExit DEF Init, Untold
<1>4. Counted
  BY SessionAssumption DEF Init, Counted
<1>5. QED
  BY <1>1, <1>2, <1>3, <1>4 DEF Followed

LEMMA FollowedStep == TypeOK /\ Followed /\ [Next]_vars => Followed'
BY ClosedFirstStep, CustodyStep, ExitOwedStep, NumberedStep, StreamsStep, MembersStep, UntoldStep,
   CountedStep DEF Followed

LEMMA FollowedAlways == Spec => [](TypeOK /\ Followed)
BY InitFollowed, FollowedStep, TypeCorrect, PTL DEF Spec

\* What the subscribers of a session see, whatever the pump, waitExit, the callers of Kill and
\* Resize and they themselves do, is what Feed promises (Subscribe, publishOutput, fanout,
\* removeSubscriber in session.go, pump and waitExit in manager.go).
THEOREM KeepsItsPromise == Spec => ImplementsFeed
<1>1. Init => Seen!Init
  <2> SUFFICES ASSUME Init PROVE Seen!Init
    OBVIOUS
  <2>1. /\ phase = "open" /\ resizing = FALSE /\ published = << >> /\ subs = {} /\ doomed = {}
        /\ cancelled = {}
    BY DEF Init, phase, resizing, doomed
  <2>2. owner = [s \in Sub |-> "out"]
    BY DEF Init, owner
  <2>3. \A s \in Sub : sent[s] = << >> /\ queue[s] = << >> /\ << >> \o << >> = << >>
    BY DEF Init
  <2>4. feed = [s \in Sub |-> << >>] /\ taken = [s \in Sub |-> 0]
    BY <2>3 DEF feed, Stream, taken
  <2>5. QED
    BY <2>1, <2>2, <2>4 DEF Seen!Init
<1>2. TypeOK /\ Followed /\ [Next]_vars => [Seen!Next]_Seen!vars
  BY StepSeen
<1>3. QED
  BY <1>1, <1>2, FollowedAlways, PTL DEF Spec, ImplementsFeed, Seen!Spec

\* Nobody is cut off without a cause, and nobody cut off comes back or gets output: every step
\* of Feed has it, and Session takes no others.
THEOREM CutOff == Spec => Seen!CutOffForCause
<1> DEFINE Kept(s) ==
      /\ s \in subs \ subs' =>
           \/ owner'[s] = "left" /\ owner[s] # "left"
           \/ Seen!Slow(s) \/ s \in doomed \cup cancelled
           \/ phase = "ended" /\ Seen!ToldExit(s)
      /\ s \notin subs /\ owner[s] # "out" =>
           s \notin subs' /\ feed'[s] \in {feed[s], Append(feed[s], Seen!Exit)}
<1>1. TypeOK /\ Followed /\ [Next]_vars => [\A s \in Sub : Kept(s)]_Seen!vars
  <2> SUFFICES ASSUME TypeOK, Followed, [Next]_vars, ~UNCHANGED Seen!vars, NEW s \in Sub
               PROVE  Kept(s)
    OBVIOUS
  <2>1. Seen!Next
    BY StepSeen
  <2>2. feed = [z \in Sub |-> feed[z]] /\ owner = [z \in Sub |-> owner[z]]
    BY DEF feed, owner
  <2>3. CASE UNCHANGED <<subs, feed>>
    BY <2>3
  <2>4. CASE Seen!Collect
    BY <2>4 DEF Seen!Collect
  <2>5. ASSUME NEW z \in Sub, Seen!Join(z) PROVE Kept(s)
    BY <2>2, <2>5 DEF Seen!Join
  <2>6. ASSUME NEW z \in Sub, Seen!Leave(z) PROVE Kept(s)
    BY <2>2, <2>6 DEF Seen!Leave
  <2>7. ASSUME NEW z \in Sub, Seen!TellExit(z) PROVE Kept(s)
    BY <2>2, <2>7 DEF Seen!TellExit
  <2>8. CASE Seen!Evict
    BY <2>8 DEF Seen!Evict
  <2>9. ASSUME NEW c, Seen!Publish(c) PROVE Kept(s)
    BY <2>9 DEF Seen!Publish
  <2>10. QED
    BY <2>1, <2>3, <2>4, <2>5, <2>6, <2>7, <2>8, <2>9 DEF Seen!Next, Seen!Resize, Seen!Close,
       Seen!End, Seen!Refuse, Seen!Take, Seen!Judge, Seen!Cancel
<1>2. QED
  BY <1>1, FollowedAlways, PTL DEF Spec, Seen!CutOffForCause

\* A sequence that holds f at most once, and one of something else more.
LEMMA StillOnce ==
  ASSUME NEW S, NEW q \in Seq(S), NEW f, NEW g \in S,
         \A i, j \in 1 .. Len(q) : q[i] = f /\ q[j] = f => i = j,
         g = f => \A i \in 1 .. Len(q) : q[i] # f
  PROVE  \A i, j \in 1 .. Len(Append(q, g)) :
           Append(q, g)[i] = f /\ Append(q, g)[j] = f => i = j
<1>1. /\ Len(Append(q, g)) = Len(q) + 1 /\ Append(q, g)[Len(q) + 1] = g
      /\ \A i \in 1 .. Len(q) : Append(q, g)[i] = q[i]
      /\ Len(q) \in Nat
  BY AppendProperties, LenProperties
<1>2. \A i \in 1 .. Len(q) + 1 : i \in 1 .. Len(q) \/ i = Len(q) + 1
  BY <1>1
<1>3. QED
  BY <1>1, <1>2

\* Nobody is sent the exit frame twice, by fanout's copy of the subscribers or otherwise.
THEOREM ExitOnce == Spec => []Seen!ToldOnce
<1>1. Init => Seen!ToldOnce
  <2> SUFFICES ASSUME Init PROVE Seen!ToldOnce
    OBVIOUS
  <2>1. \A s \in Sub : feed[s] = << >>
    BY DEF Init, feed, Stream
  <2>2. QED
    BY <2>1 DEF Seen!ToldOnce
<1>2. TypeOK /\ Followed /\ Seen!ToldOnce /\ [Next]_vars => Seen!ToldOnce'
  <2> SUFFICES ASSUME TypeOK, Followed, Seen!ToldOnce, [Next]_vars, NEW s \in Sub
               PROVE  \A i, j \in 1 .. Len(feed'[s]) :
                        feed'[s][i] = Seen!Exit /\ feed'[s][j] = Seen!Exit => i = j
    BY DEF Seen!ToldOnce
  <2> DEFINE Once(q) == \A i, j \in 1 .. Len(q) : q[i] = Seen!Exit /\ q[j] = Seen!Exit => i = j
  <2>1. Once(feed[s]) /\ feed[s] \in Seq(Frame) /\ [Seen!Next]_Seen!vars
    BY StepSeen, Waiting DEF Seen!ToldOnce
  <2>2. CASE UNCHANGED feed
    BY <2>1, <2>2
  <2>3. feed = [z \in Sub |-> feed[z]]
    BY DEF feed
  <2>4. ASSUME NEW z \in Sub, Seen!Join(z) PROVE Once(feed'[s])
    <3>1. feed'[s] = feed[s] \/ feed'[s] = <<Seen!Replay(Seen!Latest(published))>>
      BY <2>3, <2>4 DEF Seen!Join
    <3>2. QED
      BY <2>1, <3>1
  <2>5. ASSUME NEW z \in Sub, Seen!TellExit(z) PROVE Once(feed'[s])
    <3>1. CASE z = s
      <4>1. feed'[s] = Append(feed[s], Seen!Exit) /\ ~Seen!ToldExit(s)
        BY <2>3, <2>5, <3>1 DEF Seen!TellExit
      <4>2. Seen!Exit \in Frame
        BY FrameTypes DEF Seen!Exit, Exit
      <4>3. QED
        BY <2>1, <4>1, <4>2, StillOnce DEF Seen!ToldExit
    <3>2. CASE z # s
      BY <2>1, <2>3, <2>5, <3>2 DEF Seen!TellExit
    <3>3. QED
      BY <3>1, <3>2
  <2>6. ASSUME NEW c \in [n : 1 .. MaxChunk, kind : Kind], Seen!Publish(c) PROVE Once(feed'[s])
    <3>1. c \in Chunk
      BY <2>6, SessionAssumption DEF Chunk
    <3>2. Seen!Out(c) \in Frame /\ Seen!Out(c) # Seen!Exit
      BY <3>1, FrameTypes, NoExit DEF Seen!Out, Out, Seen!Exit, Exit
    <3>3. feed'[s] \in {feed[s], Append(feed[s], Seen!Out(c))}
      BY <2>6 DEF Seen!Publish
    <3>4. CASE feed'[s] = Append(feed[s], Seen!Out(c))
      <4> DEFINE q == feed[s]
                 g == Seen!Out(c)
      <4>1. q \in Seq(Frame) /\ g \in Frame /\ g # Seen!Exit /\ Once(q)
        BY <2>1, <3>2
      <4> HIDE DEF q, g
      <4>2. Once(Append(q, g))
        BY <4>1, StillOnce
      <4>3. QED
        BY <3>4, <4>2 DEF q, g
    <3>5. QED
      BY <2>1, <3>3, <3>4
  <2> HIDE DEF Once
  <2>7. Once(feed'[s])
    BY <2>1, <2>2, <2>4, <2>5, <2>6 DEF Seen!Next, Seen!Resize, Seen!Close, Seen!End,
       Seen!Collect, Seen!Refuse, Seen!Take, Seen!Leave, Seen!Judge, Seen!Evict, Seen!Cancel, Seen!vars
  <2>8. QED
    BY <2>7 DEF Once
<1>3. QED
  BY <1>1, <1>2, FollowedAlways, PTL DEF Spec
=============================================================================
