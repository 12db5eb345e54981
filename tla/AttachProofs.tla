---------------------------- MODULE AttachProofs ----------------------------
(***************************************************************************)
(* Attach for every command line, every capacity of the channels and every *)
(* bound: the types, the order in which outputs and keys arrive, the exit  *)
(* code, and what the command leaves behind.                               *)
(***************************************************************************)
EXTENDS Attach, SequenceTheorems, TLAPS

-----------------------------------------------------------------------------
(* Numbered frames among others.  The order of the outputs in the          *)
(* connection is that of the session although pongs and errors are written *)
(* in between, so it is stated over the last numbered frame before each.   *)

Content == {"replay", "out", "exit"}

\* v, or the number of the last frame before the i-th whose type is in T, is n.
Reaches(q, T, v, i, n) ==
  \/ v = n /\ \A k \in 1..(i - 1) : q[k].t \notin T
  \/ \E j \in 1..(i - 1) :
       q[j].t \in T /\ q[j].d = n /\ \A k \in (j + 1)..(i - 1) : q[k].t \notin T

\* What may have come before a frame: nothing before a replay; before an output or the exit
\* the last one that was sent, which leaves out only those in W.
Linked(n, f, W) ==
  /\ f.t = "replay" => n = None
  /\ f.t = "out" => n \in 0..(f.d - 1) /\ (n + 1)..(f.d - 1) \subseteq W
  /\ f.t = "exit" => n \in 0..f.d /\ (n + 1)..f.d \subseteq W
  /\ f.t = "in" => n = f.d - 1

Chain(q, T, v, W) ==
  \A i \in 1..Len(q) : q[i].t \in T => \E n : Reaches(q, T, v, i, n) /\ Linked(n, q[i], W)
Ahead(q, T, v, n) == Reaches(q, T, v, Len(q) + 1, n)

LEMMA ChainOfNone ==
  ASSUME NEW T, NEW v, NEW W, NEW f, f.t \notin T
  PROVE  Chain(<<>>, T, v, W) /\ Ahead(<<>>, T, v, v) /\ Chain(<<f>>, T, v, W)
BY DEF Chain, Ahead, Reaches

\* The more was withheld, the more a frame may follow.
LEMMA ChainGrows ==
  ASSUME NEW q, NEW T, NEW v, NEW V, NEW W, V \subseteq W, Chain(q, T, v, V)
  PROVE  Chain(q, T, v, W)
<1>1. ASSUME NEW n, NEW f, Linked(n, f, V) PROVE Linked(n, f, W)
  BY <1>1 DEF Linked
<1>2. QED
  BY <1>1 DEF Chain

\* Before a position only the frames before it count.
LEMMA ReachesPrefix ==
  ASSUME NEW S, NEW q \in Seq(S), NEW f \in S, NEW T, NEW v, NEW n, NEW i \in 1..(Len(q) + 1)
  PROVE  Reaches(Append(q, f), T, v, i, n) <=> Reaches(q, T, v, i, n)
<1>1. \A k \in 1..(i - 1) : Append(q, f)[k] = q[k]
  OBVIOUS
<1>2. \A j \in 1..(i - 1) : \A k \in (j + 1)..(i - 1) : k \in 1..(i - 1)
  OBVIOUS
<1>3. QED
  BY <1>1, <1>2 DEF Reaches

\* At the end of a channel a frame arrives that presupposes what is ahead of it, or one that
\* does not count.
LEMMA ChainAppend ==
  ASSUME NEW S, NEW q \in Seq(S), NEW f \in S, NEW T, NEW v, NEW W, Chain(q, T, v, W),
         f.t \in T => \E n : Ahead(q, T, v, n) /\ Linked(n, f, W)
  PROVE  /\ Chain(Append(q, f), T, v, W)
         /\ f.t \in T => Ahead(Append(q, f), T, v, f.d)
         /\ f.t \notin T => \A n : Ahead(q, T, v, n) => Ahead(Append(q, f), T, v, n)
<1> DEFINE r == Append(q, f)
<1>1. Len(r) = Len(q) + 1 /\ r[Len(q) + 1] = f /\ \A k \in 1..Len(q) : r[k] = q[k]
  OBVIOUS
<1>2. Len(q) \in Nat
  OBVIOUS
<1>3. Chain(r, T, v, W)
  <2> SUFFICES ASSUME NEW i \in 1..Len(r), r[i].t \in T
               PROVE  \E n : Reaches(r, T, v, i, n) /\ Linked(n, r[i], W)
    BY DEF Chain
  <2>1. CASE i \in 1..Len(q)
    <3>1. PICK n : Reaches(q, T, v, i, n) /\ Linked(n, q[i], W)
      BY <1>1, <2>1 DEF Chain
    <3>2. Reaches(r, T, v, i, n)
      BY <1>2, <2>1, <3>1, ReachesPrefix
    <3>3. QED
      BY <1>1, <2>1, <3>1, <3>2
  <2>2. CASE i = Len(q) + 1
    <3>1. PICK n : Reaches(q, T, v, i, n) /\ Linked(n, f, W)
      BY <1>1, <2>2 DEF Ahead
    <3>2. Reaches(r, T, v, i, n)
      BY <1>2, <2>2, <3>1, ReachesPrefix
    <3>3. QED
      BY <1>1, <2>2, <3>1, <3>2
  <2>3. QED
    BY <1>1, <1>2, <2>1, <2>2
<1>4. f.t \in T => Ahead(r, T, v, f.d)
  <2> SUFFICES ASSUME f.t \in T PROVE Ahead(r, T, v, f.d)
    OBVIOUS
  <2>1. Len(q) + 1 \in 1..(Len(r) + 1 - 1) /\ \A k \in (Len(q) + 2)..(Len(r) + 1 - 1) : FALSE
    BY <1>1, <1>2
  <2>2. QED
    BY <1>1, <1>2, <2>1 DEF Ahead, Reaches
<1>5. ASSUME f.t \notin T, NEW n, Ahead(q, T, v, n) PROVE Ahead(r, T, v, n)
  <2>1. CASE v = n /\ \A k \in 1..(Len(q) + 1 - 1) : q[k].t \notin T
    BY <1>1, <1>2, <1>5, <2>1 DEF Ahead, Reaches
  <2>2. ASSUME NEW j \in 1..(Len(q) + 1 - 1), q[j].t \in T, q[j].d = n,
               \A k \in (j + 1)..(Len(q) + 1 - 1) : q[k].t \notin T
        PROVE  Ahead(r, T, v, n)
    <3>1. j \in 1..(Len(r) + 1 - 1) /\ r[j].t \in T /\ r[j].d = n
      BY <1>1, <1>2, <2>2
    <3>2. \A k \in (j + 1)..(Len(r) + 1 - 1) : r[k].t \notin T
      BY <1>1, <1>2, <1>5, <2>2
    <3>3. QED
      BY <3>1, <3>2 DEF Ahead, Reaches
  <2>3. QED
    BY <1>5, <2>1, <2>2 DEF Ahead, Reaches
<1>6. QED
  BY <1>3, <1>4, <1>5

\* The head of a channel presupposes what was taken before, and becomes it.
LEMMA ChainTail ==
  ASSUME NEW S, NEW q \in Seq(S), q # <<>>, NEW T, NEW v, NEW w, NEW W, Chain(q, T, v, W),
         w = IF Head(q).t \in T THEN Head(q).d ELSE v
  PROVE  /\ Chain(Tail(q), T, w, W)
         /\ \A n : Ahead(q, T, v, n) => Ahead(Tail(q), T, w, n)
         /\ Head(q).t \in T => Linked(v, Head(q), W)
<1> DEFINE r == Tail(q)
<1>1. /\ Len(q) \in Nat /\ Len(r) = Len(q) - 1 /\ Head(q) = q[1] /\ 1 \in 1..Len(q)
      /\ \A k \in 1..Len(r) : r[k] = q[k + 1]
  OBVIOUS
<1>2. ASSUME NEW i \in 1..(Len(r) + 1), NEW n, Reaches(q, T, v, i + 1, n)
      PROVE  Reaches(r, T, w, i, n)
  <2>1. CASE v = n /\ \A k \in 1..(i + 1 - 1) : q[k].t \notin T
    <3>1. q[1].t \notin T /\ \A k \in 1..(i - 1) : r[k].t \notin T
      BY <1>1, <2>1
    <3>2. QED
      BY <1>1, <2>1, <3>1 DEF Reaches
  <2>2. ASSUME NEW j \in 1..(i + 1 - 1), q[j].t \in T, q[j].d = n,
               \A k \in (j + 1)..(i + 1 - 1) : q[k].t \notin T
        PROVE  Reaches(r, T, w, i, n)
    <3>1. CASE j = 1
      <4>1. w = n /\ \A k \in 1..(i - 1) : r[k].t \notin T
        BY <1>1, <2>2, <3>1
      <4>2. QED
        BY <4>1 DEF Reaches
    <3>2. CASE j # 1
      <4>1. j - 1 \in 1..(i - 1) /\ r[j - 1] = q[j]
        BY <1>1, <3>2
      <4>2. \A k \in (j - 1 + 1)..(i - 1) : r[k].t \notin T
        BY <1>1, <2>2, <3>2
      <4>3. QED
        BY <2>2, <4>1, <4>2 DEF Reaches
    <3>3. QED
      BY <3>1, <3>2
  <2>3. QED
    BY <1>2, <2>1, <2>2 DEF Reaches
<1>3. Chain(r, T, w, W)
  <2> SUFFICES ASSUME NEW i \in 1..Len(r), r[i].t \in T
               PROVE  \E n : Reaches(r, T, w, i, n) /\ Linked(n, r[i], W)
    BY DEF Chain
  <2>1. PICK n : Reaches(q, T, v, i + 1, n) /\ Linked(n, q[i + 1], W)
    BY <1>1 DEF Chain
  <2>2. Reaches(r, T, w, i, n)
    BY <1>1, <1>2, <2>1
  <2>3. QED
    BY <1>1, <2>1, <2>2
<1>4. \A n : Ahead(q, T, v, n) => Ahead(r, T, w, n)
  BY <1>1, <1>2 DEF Ahead
<1>5. Head(q).t \in T => Linked(v, Head(q), W)
  BY <1>1 DEF Chain, Reaches
<1>6. QED
  BY <1>3, <1>4, <1>5

-----------------------------------------------------------------------------
(* The inductive invariants *)

Upward ==
  {f \in [t : {"in", "resize", "ping", "eof"}, d : Nat] :
     (f.t = "in" => f.d \in 0..MaxKeys) /\ (f.t = "resize" => f.d \in 0..MaxSize)}
Published == [t : Content, d : 0..MaxOut]
Downward == Published \cup [t : {"pong", "error", "eof"}, d : {0}]
Number == 0..MaxOut \cup {None}

\* What the channels and the connection carry.
Carried ==
  up \in Seq(Upward) /\ down \in Seq(Downward) /\ sub \in Seq(Published)
  /\ resizeCh \in Seq(0..MaxSize)

\* How far the command is, and what there is by then.
Control ==
  /\ pc \in {"start", "dial"} => link = "none" /\ handler = "none"
  /\ pc \in {"start", "dial", "open"} =>
       ~raw /\ stdin = "none" /\ reader = "none" /\ pinger = "none" /\ watcher = "none"
  /\ pc = "start" => New \notin known
  /\ pc \in {"wait", "returned"} => link # "up"
  /\ pc = "returned" =>
       ~raw /\ {stdin, reader, pinger, watcher} \subseteq {"none", "done"}
  /\ pinger = "done" => watcher = "done"
  /\ status = "notty" => pc = "returned" /\ New \notin known /\ handler = "none"
  /\ handler \in {"none", "accepted"} => writer = "none"

\* From what was printed through the connection and the subscription to what was produced,
\* as long as something reads and pumpWrite can still carry something over.
Downstream ==
  reader # "done" =>
    /\ Chain(down, Content, shown, withheld)
    /\ writer # "done" /\ link # "broken" =>
         \E m \in Number :
           /\ Ahead(down, Content, shown, m) /\ Chain(sub, Content, m, withheld)
           /\ subscribed =>
                \E n \in 0..produced :
                  Ahead(sub, Content, m, n) /\ (n + 1)..produced \subseteq withheld
           /\ handler \in {"none", "accepted"} => m = None /\ sub = <<>> /\ ~subscribed

\* From the last key the shell got to the last one typed.
Upstream ==
  handler \notin {"close", "done"} =>
    /\ Chain(up, {"in"}, input, {})
    /\ link # "broken" /\ stdin # "done" =>
         Ahead(up, {"in"}, input, IF stdin = "write" THEN key - 1 ELSE key)

\* Nothing is printed after the exit code.
CodeIsLast ==
  code # None =>
    reader = "done" /\ shown # None /\ (shown + 1)..code \subseteq withheld

Inv == TypeOK /\ Carried /\ Control /\ Downstream /\ Upstream /\ CodeIsLast

-----------------------------------------------------------------------------
(* Types *)


LEMMA InitInv == Init => Inv
<1> SUFFICES ASSUME Init PROVE Inv
  OBVIOUS
<1> USE AttachAssumption
<1>1. Flags /\ Ranges
  <2>1. Flags
    BY DEF Init, Flags
  <2>2. Ranges
    BY DEF Init, Ranges, Phases
  <2>3. QED
    BY <2>1, <2>2
<1>2. Carried /\ Control /\ CodeIsLast
  BY DEF Init, Carried, Control, CodeIsLast
<1>3. Downstream
  <2>1. Chain(<<>>, Content, None, withheld) /\ Ahead(<<>>, Content, None, None)
    BY DEF Chain, Ahead, Reaches
  <2>2. down = <<>> /\ sub = <<>> /\ shown = None /\ ~subscribed
    BY DEF Init, subscribed
  <2>3. None \in Number
    BY DEF Number
  <2>4. QED
    BY <2>1, <2>2, <2>3 DEF Downstream
<1>4. Upstream
  BY DEF Init, Upstream, Ahead, Chain, Reaches
<1>5. QED
  BY <1>1, <1>2, <1>3, <1>4 DEF Inv, TypeOK

\* What a writer puts into a channel, and a reader leaves of it.
LEMMA QueueTypes ==
  ASSUME NEW S, NEW q \in Seq(S)
  PROVE  /\ \A f \in S : Append(q, f) \in Seq(S) /\ <<f>> \in Seq(S)
         /\ <<>> \in Seq(S) /\ (q # <<>> => Head(q) \in S /\ Tail(q) \in Seq(S))
OBVIOUS

\* A channel that is cut has what was under way, and then an end.
LEMMA CutCases ==
  ASSUME NEW q, NEW reads, NEW r \in Cut(q, reads)
  PROVE  r = Append(q, Eof) \/ r = <<Eof>>
BY DEF Cut

LEMMA FrameTypes ==
  /\ \A d \in 0..MaxKeys : Frame("in", d) \in Upward
  /\ \A d \in 0..MaxSize : Frame("resize", d) \in Upward
  /\ Frame("ping", 0) \in Upward /\ Eof \in Upward /\ Eof \in Downward
  /\ \A t \in Content, d \in 0..MaxOut : Frame(t, d) \in Published
  /\ Frame("pong", 0) \in Downward /\ Frame("error", 0) \in Downward
  /\ \A f \in Published : f \in Downward
<1> USE AttachAssumption
<1>1. /\ \A d \in 0..MaxKeys : Frame("in", d) \in Upward
      /\ \A d \in 0..MaxSize : Frame("resize", d) \in Upward
      /\ Frame("ping", 0) \in Upward /\ Eof \in Upward
  BY DEF Eof, Frame, Upward
<1>2. /\ Frame("pong", 0) \in Downward /\ Frame("error", 0) \in Downward /\ Eof \in Downward
      /\ \A f \in Published : f \in Downward
  BY DEF Eof, Frame, Downward
<1>3. \A t \in Content, d \in 0..MaxOut : Frame(t, d) \in Published
  BY DEF Frame, Published
<1>4. QED
  BY <1>1, <1>2, <1>3

\* No more happens in a behaviour than its bounds allow.
LEMMA WithinBounds ==
  ASSUME NEW o, NEW k, NEW n, NEW e, Within(o, k, n, e),
         o \in Nat, k \in Nat, n \in Nat
  PROVE  o \in 0..MaxOut /\ k \in 0..MaxKeys /\ n \in 0..MaxSize
<1>1. PICK l \in Loads : o <= l.out /\ k <= l.keys /\ n <= l.size
  BY DEF Within
<1>2. l.out \in 0..MaxOut /\ l.keys \in 0..MaxKeys /\ l.size \in 0..MaxSize
  BY AttachAssumption
<1>3. QED
  BY <1>1, <1>2, AttachAssumption

LEMMA BreakType ==
  ASSUME Carried, Break
  PROVE  up' \in Seq(Upward) /\ down' \in Seq(Downward) /\ link' = "broken"
<1>1. link' = "broken" /\ up \in Seq(Upward) /\ down \in Seq(Downward)
  BY DEF Break, Carried
<1>2. CASE link = "up"
  <2>1. /\ up' = Append(up, Eof) \/ up' = <<Eof>>
        /\ down' = Append(down, Eof) \/ down' = <<Eof>>
    BY <1>2, CutCases DEF Break
  <2>2. QED
    BY <1>1, <2>1, FrameTypes, QueueTypes
<1>3. CASE link # "up"
  BY <1>1, <1>3 DEF Break
<1>4. QED
  BY <1>2, <1>3

LEMMA FlagsKept ==
  ASSUME Flags, Next
  PROVE  Flags'
<1> USE DEF sessionVars, subVars, serverVars, linkVars, mainVars, termVars, sizeVars, routines
<1>1. CASE \E o \in Opts : Resolve(o)
  BY <1>1 DEF Resolve, ResolveSessionID, CreateSession, Join, Refuse, Flags
<1>2. CASE Dial
  BY <1>2 DEF Dial, Flags
<1>3. CASE Open
  BY <1>3 DEF Open, Break, Flags
<1>4. CASE Hangup
  BY <1>4 DEF Hangup, Break, Flags
<1>5. CASE Return
  BY <1>5 DEF Return, Flags
<1>6. CASE Signal
  BY <1>6 DEF Signal, Flags
<1>7. CASE Type
  BY <1>7 DEF Type, Flags
<1>8. CASE StdinEnds
  BY <1>8 DEF StdinEnds, Flags
<1>9. CASE StdinWrites
  BY <1>9 DEF StdinWrites, Writes, WriteFails, Flags
<1>10. CASE ReaderPrints
  BY <1>10 DEF ReaderPrints, Arrived, Flags
<1>11. CASE ReaderSkips
  BY <1>11 DEF ReaderSkips, Flags
<1>12. CASE ReaderExits
  BY <1>12 DEF ReaderExits, Arrived, Flags
<1>13. CASE ReaderFails
  BY <1>13 DEF ReaderFails, Flags
<1>14. CASE Ping
  BY <1>14 DEF Ping, Writes, PingerFails, WriteFails, Flags
<1>15. CASE SendSize
  BY <1>15 DEF SendSize, Writes, PingerFails, WriteFails, Flags
<1>16. CASE PingerStops
  BY <1>16 DEF PingerStops, Flags
<1>17. CASE Resize
  BY <1>17 DEF Resize, Flags
<1>18. CASE Watch
  BY <1>18 DEF Watch, WatchLooks, WatchPolls, WatchSends, Flags
<1>19. CASE LinkFails
  BY <1>19 DEF LinkFails, Break, Flags
<1>20. CASE Emit
  BY <1>20 DEF Emit, Offer, Frame, Flags
<1>21. CASE SessionEnds
  BY <1>21 DEF SessionEnds, Offer, Frame, Flags
<1>22. CASE Collect
  BY <1>22 DEF Collect, Flags
<1>23. CASE WriterSends
  BY <1>23 DEF WriterSends, Flags
<1>24. CASE WriterStops
  BY <1>24 DEF WriterStops, Flags
<1>25. CASE WriterTimesOut
  BY <1>25 DEF WriterTimesOut, Break, Flags
<1>26. CASE GetsInput
  BY <1>26 DEF GetsInput, Asked, Flags
<1>27. CASE GetsResize
  BY <1>27 DEF GetsResize, Asked, Flags
<1>28. CASE GetsPing
  BY <1>28 DEF GetsPing, Flags
<1>29. CASE Replies
  BY <1>29 DEF Replies, Flags
<1>30. CASE ReadFails
  BY <1>30 DEF ReadFails, Flags
<1>31. CASE Closes
  BY <1>31 DEF Closes, Break, Flags
<1>32. CASE Subscribe
  BY <1>32 DEF Subscribe, Flags
<1>33. CASE OtherResizes
  BY <1>33 DEF OtherResizes, Repaints, Flags
<1>34. CASE TimePasses
  BY <1>34 DEF TimePasses, Flags
<1>35. QED
  BY <1>1, <1>2, <1>3, <1>4, <1>5, <1>6, <1>7, <1>8, <1>9, <1>10, <1>11, <1>12, <1>13, <1>14, <1>15, <1>16, <1>17, <1>18, <1>19, <1>20, <1>21, <1>22, <1>23, <1>24, <1>25, <1>26, <1>27, <1>28, <1>29, <1>30, <1>31, <1>32, <1>33, <1>34 DEF Next, ClientMain, Reads, Pinger, Writer, Handler

LEMMA OfferType ==
  ASSUME NEW f \in Published, sub \in Seq(Published), Offer(f)
  PROVE  /\ sub' \in Seq(Published) /\ (Len(sub) <= Queue => Len(sub') <= Queue)
         /\ phase \in Phases => phase' \in Phases
<1>1. sub' = sub \/ (Len(sub) < Queue /\ sub' = Append(sub, f))
  BY DEF Offer, subVars
<1>2. Len(Append(sub, f)) = Len(sub) + 1 /\ Len(sub) \in Nat /\ Queue \in Nat
  BY AttachAssumption
<1>3. phase' \in {phase, "none"}
  BY DEF Offer, subVars
<1>4. QED
  BY <1>1, <1>2, <1>3, QueueTypes DEF Phases

LEMMA RangesKept ==
  ASSUME TypeOK, Carried, Next
  PROVE  Ranges'
<1> USE DEF sessionVars, subVars, serverVars, linkVars, mainVars, termVars, sizeVars, routines
<1>1. CASE \E o \in Opts : Resolve(o)
  BY <1>1, AttachAssumption DEF Resolve, ResolveSessionID, CreateSession, Join, Refuse, TypeOK, Ranges, Phases, Carried, Upward, Downward, Published, Content
<1>2. CASE Dial
  BY <1>2, AttachAssumption DEF Dial, TypeOK, Ranges
<1>3. CASE Open
  BY <1>3, AttachAssumption DEF Open, Break, TypeOK, Ranges
<1>4. CASE Hangup
  BY <1>4, AttachAssumption DEF Hangup, Break, TypeOK, Ranges
<1>5. CASE Return
  BY <1>5, AttachAssumption DEF Return, TypeOK, Ranges
<1>6. CASE Signal
  BY <1>6, AttachAssumption DEF Signal, TypeOK, Ranges
<1>7. CASE Type
  <2>1. key \in Nat /\ size \in Nat /\ produced \in Nat /\ key + 1 \in Nat
    BY AttachAssumption DEF TypeOK, Ranges
  <2>2. key + 1 \in 0..MaxKeys
    BY <1>7, <2>1, WithinBounds DEF Type
  <2>3. QED
    BY <1>7, <2>2 DEF Type, TypeOK, Ranges
<1>8. CASE StdinEnds
  BY <1>8, AttachAssumption DEF StdinEnds, TypeOK, Ranges
<1>9. CASE StdinWrites
  BY <1>9, AttachAssumption DEF StdinWrites, Writes, WriteFails, TypeOK, Ranges
<1>10. CASE ReaderPrints
  <2>1. Head(down) \in Downward /\ Head(down).t \in Content
    BY <1>10, QueueTypes DEF ReaderPrints, Arrived, Carried, Content
  <2>2. Head(down).d \in 0..MaxOut
    BY <2>1 DEF Downward, Published, Content
  <2>3. QED
    BY <1>10, <2>2 DEF ReaderPrints, Arrived, TypeOK, Ranges
<1>11. CASE ReaderSkips
  BY <1>11, AttachAssumption DEF ReaderSkips, TypeOK, Ranges
<1>12. CASE ReaderExits
  <2>1. Head(down) \in Downward /\ Head(down).t \in Content
    BY <1>12, QueueTypes DEF ReaderExits, Arrived, Carried, Content
  <2>2. Head(down).d \in 0..MaxOut
    BY <2>1 DEF Downward, Published, Content
  <2>3. QED
    BY <1>12, <2>2 DEF ReaderExits, Arrived, TypeOK, Ranges
<1>13. CASE ReaderFails
  BY <1>13, AttachAssumption DEF ReaderFails, TypeOK, Ranges
<1>14. CASE Ping
  BY <1>14, AttachAssumption DEF Ping, Writes, PingerFails, WriteFails, TypeOK, Ranges
<1>15. CASE SendSize
  BY <1>15, AttachAssumption DEF SendSize, Writes, PingerFails, WriteFails, TypeOK, Ranges, Phases, Carried, Upward, Downward, Published, Content
<1>16. CASE PingerStops
  BY <1>16, AttachAssumption DEF PingerStops, TypeOK, Ranges, Phases, Carried, Upward, Downward, Published, Content
<1>17. CASE Resize
  <2>1. key \in Nat /\ size \in 1..MaxSize /\ produced \in Nat /\ size + 1 \in Nat
    BY AttachAssumption DEF TypeOK, Ranges
  <2>2. size + 1 \in 1..MaxSize
    BY <1>17, <2>1, WithinBounds, AttachAssumption DEF Resize
  <2>3. QED
    BY <1>17, <2>2 DEF Resize, TypeOK, Ranges
<1>18. CASE Watch
  <2>1. CASE WatchLooks \/ WatchPolls
    <3>1. seen' = size /\ watcher' \in {"poll", "send"} /\ seen' \in 0..MaxSize
      BY <2>1, AttachAssumption DEF WatchLooks, WatchPolls, TypeOK, Ranges
    <3>2. QED
      BY <2>1, <3>1 DEF WatchLooks, WatchPolls, TypeOK, Ranges
  <2>2. CASE WatchSends
    <3>1. Len(Append(resizeCh, seen)) = Len(resizeCh) + 1 /\ Len(resizeCh) \in Nat
      BY DEF Carried
    <3>2. QED
      BY <2>2, <3>1, AttachAssumption DEF WatchSends, TypeOK, Ranges
  <2>3. QED
    BY <1>18, <2>1, <2>2 DEF Watch
<1>19. CASE LinkFails
  BY <1>19, AttachAssumption DEF LinkFails, Break, TypeOK, Ranges
<1>20. CASE Emit
  <2>1. produced + 1 \in 1..MaxOut /\ produced' = produced + 1
    BY <1>20, AttachAssumption, WithinBounds DEF Emit, TypeOK, Ranges
  <2>2. withheld' \subseteq 1..MaxOut
    BY <1>20, <2>1 DEF Emit, TypeOK, Ranges
  <2>3. Len(sub') <= Queue /\ phase' \in Phases
    <3>1. CASE phase = "repaint"
      BY <1>20, <3>1 DEF Emit, TypeOK, Ranges
    <3>2. CASE phase # "repaint"
      <4>1. Frame("out", produced') \in Published
        BY <2>1, FrameTypes DEF Content
      <4>2. QED
        BY <1>20, <3>2, <4>1, OfferType DEF Emit, TypeOK, Ranges, Carried
    <3>3. QED
      BY <3>1, <3>2
  <2>4. QED
    BY <1>20, <2>1, <2>2, <2>3 DEF Emit, TypeOK, Ranges
<1>21. CASE SessionEnds
  <2>1. Frame("exit", produced) \in Published
    BY FrameTypes DEF Content, TypeOK, Ranges
  <2>2. Len(sub') <= Queue /\ phase' \in Phases
    BY <1>21, <2>1, OfferType DEF SessionEnds, TypeOK, Ranges, Carried
  <2>3. QED
    BY <1>21, <2>1, <2>2 DEF SessionEnds, TypeOK, Ranges
<1>22. CASE Collect
  BY <1>22, AttachAssumption DEF Collect, TypeOK, Ranges, Phases
<1>23. CASE WriterSends
  BY <1>23, AttachAssumption DEF WriterSends, TypeOK, Ranges, Phases, Carried, Upward, Downward, Published, Content
<1>24. CASE WriterStops
  BY <1>24, AttachAssumption DEF WriterStops, TypeOK, Ranges, Phases, Carried, Upward, Downward, Published, Content
<1>25. CASE WriterTimesOut
  BY <1>25, AttachAssumption DEF WriterTimesOut, Break, TypeOK, Ranges
<1>26. CASE GetsInput
  <2>1. Asked \in Upward /\ Tail(up) \in Seq(Upward)
    BY <1>26, QueueTypes DEF GetsInput, Asked, Carried
  <2>2. Asked.d \in 0..MaxKeys
    BY <1>26, <2>1 DEF GetsInput, Upward
  <2>3. /\ handler' \in {"read", "close"} /\ input' \in 0..MaxKeys /\ up' = Tail(up)
        /\ UNCHANGED <<known, produced, ended, dims, withheld, subVars, writer, down, link,
                       mainVars, ioDone, routines, termVars, sizeVars>>
    BY <1>26, <2>2 DEF GetsInput, TypeOK, Ranges
  <2>4. QED
    BY <2>1, <2>3 DEF TypeOK, Ranges, Carried
<1>27. CASE GetsResize
  <2>1. Asked \in Upward /\ Asked.t = "resize"
    BY <1>27, QueueTypes DEF GetsResize, Asked, Carried
  <2>2. Asked.d \in 0..MaxSize
    BY <2>1 DEF Upward
  <2>3. /\ handler' \in {"read", "error"} /\ dims' \in 0..MaxSize
        /\ phase' = phase \/ phase' = "repaint"
    BY <1>27, <2>2 DEF GetsResize, Repaints, TypeOK, Ranges
  <2>4. UNCHANGED <<known, produced, ended, input, withheld, sub, subDone, writer, down, link,
                    mainVars, ioDone, routines, termVars, sizeVars>>
    BY <1>27 DEF GetsResize
  <2>5. QED
    BY <2>3, <2>4 DEF TypeOK, Ranges, Phases
<1>28. CASE GetsPing
  BY <1>28, AttachAssumption DEF GetsPing, TypeOK, Ranges
<1>29. CASE Replies
  BY <1>29, AttachAssumption DEF Replies, TypeOK, Ranges
<1>30. CASE ReadFails
  BY <1>30, AttachAssumption DEF ReadFails, TypeOK, Ranges
<1>31. CASE Closes
  BY <1>31, AttachAssumption DEF Closes, Break, TypeOK, Ranges, Phases
<1>32. CASE Subscribe
  <2>1. Len(sub') <= Queue
    <3>1. sub' = sub \/ sub' = <<Frame("replay", produced)>>
      BY <1>32 DEF Subscribe
    <3>2. Len(<<Frame("replay", produced)>>) = 1
      OBVIOUS
    <3>3. Len(sub) <= Queue /\ 1 <= Queue
      BY AttachAssumption DEF TypeOK, Ranges
    <3>4. QED
      BY <3>1, <3>2, <3>3
  <2>2. QED
    BY <1>32, <2>1 DEF Subscribe, TypeOK, Ranges, Phases
<1>33. CASE OtherResizes
  BY <1>33, AttachAssumption DEF OtherResizes, Repaints, TypeOK, Ranges, Phases
<1>34. CASE TimePasses
  BY <1>34 DEF TimePasses, TypeOK, Ranges, Phases
<1>35. QED
  BY <1>1, <1>2, <1>3, <1>4, <1>5, <1>6, <1>7, <1>8, <1>9, <1>10, <1>11, <1>12, <1>13, <1>14, <1>15, <1>16, <1>17, <1>18, <1>19, <1>20, <1>21, <1>22, <1>23, <1>24, <1>25, <1>26, <1>27, <1>28, <1>29, <1>30, <1>31, <1>32, <1>33, <1>34 DEF Next, ClientMain, Reads, Pinger, Writer, Handler

LEMMA CarriedKept ==
  ASSUME TypeOK, Carried, Next
  PROVE  Carried'
<1> USE DEF sessionVars, subVars, serverVars, linkVars, mainVars, termVars, sizeVars, routines
<1>1. /\ up \in Seq(Upward) /\ down \in Seq(Downward) /\ sub \in Seq(Published)
      /\ resizeCh \in Seq(0..MaxSize)
      /\ size \in 0..MaxSize /\ key \in 0..MaxKeys /\ produced \in 0..MaxOut
  BY DEF Carried, TypeOK, Ranges
<1>2. CASE \E o \in Opts : Resolve(o)
  BY <1>1, <1>2 DEF Carried, Resolve
<1>3. CASE Dial
  BY <1>1, <1>3 DEF Carried, Dial
<1>4. CASE Return
  BY <1>1, <1>4 DEF Carried, Return
<1>5. CASE Signal
  BY <1>1, <1>5 DEF Carried, Signal
<1>6. CASE Type
  BY <1>1, <1>6 DEF Carried, Type
<1>7. CASE StdinEnds
  BY <1>1, <1>7 DEF Carried, StdinEnds
<1>8. CASE ReaderFails
  BY <1>1, <1>8 DEF Carried, ReaderFails
<1>9. CASE Resize
  BY <1>1, <1>9 DEF Carried, Resize
<1>10. CASE Collect
  BY <1>1, <1>10 DEF Carried, Collect
<1>11. CASE ReadFails
  BY <1>1, <1>11 DEF Carried, ReadFails
<1>12. CASE Open
  <2>1. CASE Break
    BY <1>1, <1>12, <2>1, BreakType DEF Open, Carried
  <2>2. CASE ~Break
    <3>1. up' = up \/ up' = Append(up, Frame("resize", size))
      BY <1>12, <2>2 DEF Open
    <3>2. up' \in Seq(Upward)
      BY <1>1, <3>1, FrameTypes, QueueTypes
    <3>3. QED
      BY <1>1, <1>12, <2>2, <3>2 DEF Open, Carried
  <2>3. QED
    BY <2>1, <2>2
<1>13. CASE Hangup
  BY <1>1, <1>13, BreakType DEF Hangup, Carried
<1>14. CASE LinkFails
  BY <1>1, <1>14, BreakType DEF LinkFails, Carried
<1>15. CASE Closes
  BY <1>1, <1>15, BreakType DEF Closes, Carried
<1>16. CASE WriterTimesOut
  <2>1. CASE Break
    BY <1>1, <1>16, <2>1, BreakType DEF WriterTimesOut, Carried
  <2>2. CASE UNCHANGED linkVars
    BY <1>1, <1>16, <2>2 DEF WriterTimesOut, Carried
  <2>3. QED
    BY <1>16, <2>1, <2>2 DEF WriterTimesOut
<1>17. CASE StdinWrites
  <2>1. up' = up \/ up' = Append(up, Frame("in", key))
    BY <1>17 DEF StdinWrites, Writes, PingerFails
  <2>2. up' \in Seq(Upward)
    BY <1>1, <2>1, FrameTypes, QueueTypes
  <2>3. QED
    BY <1>1, <1>17, <2>2 DEF StdinWrites, Carried
<1>18. CASE Ping
  <2>1. up' = up \/ up' = Append(up, Frame("ping", 0))
    BY <1>18 DEF Ping, Writes, PingerFails
  <2>2. up' \in Seq(Upward)
    BY <1>1, <2>1, FrameTypes, QueueTypes
  <2>3. QED
    BY <1>1, <1>18, <2>2 DEF Ping, Carried
<1>19. CASE SendSize
  <2>1. Head(resizeCh) \in 0..MaxSize /\ resizeCh' \in Seq(0..MaxSize)
    BY <1>1, <1>19, QueueTypes DEF SendSize
  <2>2. up' = up \/ up' = Append(up, Frame("resize", Head(resizeCh)))
    BY <1>19 DEF SendSize, Writes, PingerFails
  <2>3. up' \in Seq(Upward)
    BY <1>1, <2>1, <2>2, FrameTypes, QueueTypes
  <2>4. QED
    BY <1>1, <1>19, <2>1, <2>3 DEF SendSize, Carried
<1>20. CASE PingerStops
  BY <1>1, <1>20, QueueTypes DEF PingerStops, Carried
<1>21. CASE Watch
  <2>1. (resizeCh' = resizeCh \/ resizeCh' = Append(resizeCh, seen)) /\ seen \in 0..MaxSize
    BY <1>21 DEF Watch, WatchLooks, WatchPolls, WatchSends, TypeOK, Ranges
  <2>2. resizeCh' \in Seq(0..MaxSize)
    BY <1>1, <2>1, QueueTypes
  <2>3. QED
    BY <1>1, <1>21, <2>2 DEF Watch, WatchLooks, WatchPolls, WatchSends, Carried
<1>22. CASE ReaderPrints
  BY <1>1, <1>22, QueueTypes DEF ReaderPrints, Carried
<1>23. CASE ReaderSkips
  BY <1>1, <1>23, QueueTypes DEF ReaderSkips, Carried
<1>24. CASE ReaderExits
  BY <1>1, <1>24, QueueTypes DEF ReaderExits, Carried
<1>25. CASE GetsInput
  BY <1>1, <1>25, QueueTypes DEF GetsInput, Carried
<1>26. CASE GetsResize
  BY <1>1, <1>26, QueueTypes DEF GetsResize, Carried
<1>27. CASE GetsPing
  BY <1>1, <1>27, QueueTypes DEF GetsPing, Carried
<1>28. CASE Emit
  <2>1. produced' \in 0..MaxOut
    <3>1. key \in Nat /\ size \in Nat /\ produced \in Nat /\ produced + 1 \in Nat
      BY AttachAssumption DEF TypeOK, Ranges
    <3>2. QED
      BY <1>28, <3>1, WithinBounds DEF Emit
  <2>2. Frame("out", produced') \in Published
    BY <2>1, FrameTypes DEF Content
  <2>3. sub' \in Seq(Published)
    BY <1>1, <1>28, <2>2, OfferType DEF Emit
  <2>4. QED
    BY <1>1, <1>28, <2>3 DEF Emit, Carried
<1>29. CASE SessionEnds
  <2>1. Frame("exit", produced) \in Published
    BY <1>1, FrameTypes DEF Content
  <2>2. sub' \in Seq(Published)
    BY <1>1, <1>29, <2>1, OfferType DEF SessionEnds
  <2>3. QED
    BY <1>1, <1>29, <2>2 DEF SessionEnds, Carried
<1>30. CASE Subscribe
  <2>1. Frame("replay", produced) \in Published
    BY <1>1, FrameTypes DEF Content
  <2>2. sub' = sub \/ sub' = <<Frame("replay", produced)>>
    BY <1>30 DEF Subscribe
  <2>3. sub' \in Seq(Published)
    BY <1>1, <2>1, <2>2, QueueTypes
  <2>4. QED
    BY <1>1, <1>30, <2>3 DEF Subscribe, Carried
<1>31. CASE WriterSends
  <2>1. Head(sub) \in Downward
    BY <1>1, <1>31, QueueTypes, FrameTypes DEF WriterSends
  <2>2. QED
    BY <1>1, <1>31, <2>1, QueueTypes DEF WriterSends, Carried
<1>32. CASE WriterStops
  BY <1>1, <1>32, QueueTypes DEF WriterStops, Carried
<1>33. CASE Replies
  <2>1. Frame(handler, 0) \in Downward
    BY <1>33, FrameTypes DEF Replies
  <2>2. down' = down \/ down' = Append(down, Frame(handler, 0))
    BY <1>33 DEF Replies
  <2>3. down' \in Seq(Downward)
    BY <1>1, <2>1, <2>2, QueueTypes
  <2>4. QED
    BY <1>1, <1>33, <2>3 DEF Replies, Carried
<1>34. CASE OtherResizes
  BY <1>1, <1>34 DEF Carried, OtherResizes
<1>35. CASE TimePasses
  BY <1>1, <1>35 DEF Carried, TimePasses
<1>36. QED
  BY <1>2, <1>3, <1>4, <1>5, <1>6, <1>7, <1>8, <1>9, <1>10, <1>11, <1>12, <1>13, <1>14, <1>15, <1>16, <1>17, <1>18, <1>19, <1>20, <1>21, <1>22, <1>23, <1>24, <1>25, <1>26, <1>27, <1>28, <1>29, <1>30, <1>31, <1>32, <1>33, <1>34, <1>35 DEF Next, ClientMain, Reads, Pinger, Writer, Handler

-----------------------------------------------------------------------------
(* What the command leaves behind *)

LEMMA ControlKept ==
  ASSUME TypeOK, Control, Next
  PROVE  Control'
<1> USE DEF sessionVars, subVars, serverVars, linkVars, mainVars, termVars, sizeVars, routines
<1>1. CASE \E o \in Opts : Resolve(o)
  BY <1>1, AttachAssumption DEF Resolve, ResolveSessionID, CreateSession, Join, Refuse, Control, TypeOK, Ranges
<1>2. CASE Dial
  BY <1>2 DEF Dial, Control, TypeOK, Ranges
<1>3. CASE Open
  BY <1>3 DEF Open, Break, Control, TypeOK, Ranges
<1>4. CASE Hangup
  BY <1>4 DEF Hangup, Break, Control, TypeOK, Ranges
<1>5. CASE Return
  BY <1>5 DEF Return, Control, TypeOK, Ranges
<1>6. CASE Signal
  BY <1>6 DEF Signal, Control, TypeOK, Ranges
<1>7. CASE Type
  BY <1>7 DEF Type, Control, TypeOK, Ranges
<1>8. CASE StdinEnds
  BY <1>8 DEF StdinEnds, Control, TypeOK, Ranges
<1>9. CASE StdinWrites
  BY <1>9 DEF StdinWrites, Writes, WriteFails, Control, TypeOK, Ranges
<1>10. CASE ReaderPrints
  BY <1>10 DEF ReaderPrints, Arrived, Control, TypeOK, Ranges
<1>11. CASE ReaderSkips
  BY <1>11 DEF ReaderSkips, Control, TypeOK, Ranges
<1>12. CASE ReaderExits
  BY <1>12 DEF ReaderExits, Arrived, Control, TypeOK, Ranges
<1>13. CASE ReaderFails
  BY <1>13 DEF ReaderFails, Control, TypeOK, Ranges
<1>14. CASE Ping
  BY <1>14 DEF Ping, Writes, PingerFails, WriteFails, Control, TypeOK, Ranges
<1>15. CASE SendSize
  BY <1>15 DEF SendSize, Writes, PingerFails, WriteFails, Control, TypeOK, Ranges
<1>16. CASE PingerStops
  BY <1>16 DEF PingerStops, Control, TypeOK, Ranges
<1>17. CASE Resize
  BY <1>17 DEF Resize, Control, TypeOK, Ranges
<1>18. CASE Watch
  BY <1>18 DEF Watch, WatchLooks, WatchPolls, WatchSends, Control, TypeOK, Ranges
<1>19. CASE LinkFails
  BY <1>19 DEF LinkFails, Break, Control, TypeOK, Ranges
<1>20. CASE Emit
  BY <1>20 DEF Emit, Offer, Control, TypeOK, Ranges
<1>21. CASE SessionEnds
  BY <1>21 DEF SessionEnds, Offer, Control, TypeOK, Ranges
<1>22. CASE Collect
  BY <1>22 DEF Collect, Control, TypeOK, Ranges
<1>23. CASE WriterSends
  BY <1>23 DEF WriterSends, Control, TypeOK, Ranges
<1>24. CASE WriterStops
  BY <1>24 DEF WriterStops, Control, TypeOK, Ranges
<1>25. CASE WriterTimesOut
  BY <1>25 DEF WriterTimesOut, Break, Control, TypeOK, Ranges
<1>26. CASE GetsInput
  BY <1>26 DEF GetsInput, Asked, Control, TypeOK, Ranges
<1>27. CASE GetsResize
  BY <1>27 DEF GetsResize, Asked, Control, TypeOK, Ranges
<1>28. CASE GetsPing
  BY <1>28 DEF GetsPing, Control, TypeOK, Ranges
<1>29. CASE Replies
  BY <1>29 DEF Replies, Control, TypeOK, Ranges
<1>30. CASE ReadFails
  BY <1>30 DEF ReadFails, Control, TypeOK, Ranges
<1>31. CASE Closes
  BY <1>31 DEF Closes, Break, Control, TypeOK, Ranges
<1>32. CASE Subscribe
  BY <1>32 DEF Subscribe, Control, TypeOK, Ranges
<1>33. CASE OtherResizes
  BY <1>33 DEF OtherResizes, Control, TypeOK, Ranges
<1>34. CASE TimePasses
  BY <1>34 DEF TimePasses, Control, TypeOK, Ranges
<1>35. QED
  BY <1>1, <1>2, <1>3, <1>4, <1>5, <1>6, <1>7, <1>8, <1>9, <1>10, <1>11, <1>12, <1>13, <1>14, <1>15, <1>16, <1>17, <1>18, <1>19, <1>20, <1>21, <1>22, <1>23, <1>24, <1>25, <1>26, <1>27, <1>28, <1>29, <1>30, <1>31, <1>32, <1>33, <1>34 DEF Next, ClientMain, Reads, Pinger, Writer, Handler

-----------------------------------------------------------------------------
(* The order of the outputs *)

flow == <<shown, down, sub, produced, withheld>>

\* What is between the connection and the session, while both sides carry on.
Between ==
  \E m \in Number :
    /\ Ahead(down, Content, shown, m) /\ Chain(sub, Content, m, withheld)
    /\ subscribed =>
         \E n \in 0..produced : Ahead(sub, Content, m, n) /\ (n + 1)..produced \subseteq withheld
    /\ handler \in {"none", "accepted"} => m = None /\ sub = <<>> /\ ~subscribed

\* The range after a number up to it is empty.
LEMMA NothingAfter == ASSUME NEW p \in Nat, NEW W PROVE p \in 0..p /\ (p + 1)..p \subseteq W
OBVIOUS

\* A step that moves no output keeps their order.
LEMMA FlowQuiet ==
  ASSUME Downstream, UNCHANGED flow, subscribed' => subscribed,
         reader' # "done" => reader # "done",
         writer' # "done" => writer # "done", link' # "broken" => link # "broken",
         handler' \in {"none", "accepted"} => handler \in {"none", "accepted"}
  PROVE  Downstream'
<1>1. SUFFICES ASSUME reader' # "done"
               PROVE  /\ Chain(down, Content, shown, withheld)'
                      /\ (writer # "done" /\ link # "broken")' => Between'
  BY DEF Downstream, Between
<1>2. Chain(down, Content, shown, withheld)'
  BY <1>1 DEF Downstream, flow
<1>3. ASSUME (writer # "done" /\ link # "broken")' PROVE Between'
  <2>1. PICK m \in Number :
          /\ Ahead(down, Content, shown, m) /\ Chain(sub, Content, m, withheld)
          /\ subscribed =>
               \E n \in 0..produced : Ahead(sub, Content, m, n) /\ (n + 1)..produced \subseteq withheld
          /\ handler \in {"none", "accepted"} => m = None /\ sub = <<>> /\ ~subscribed
    BY <1>1, <1>3 DEF Downstream
  <2>2. /\ shown' = shown /\ down' = down /\ sub' = sub /\ produced' = produced
        /\ withheld' = withheld
    BY DEF flow
  <2>3. subscribed' =>
          \E n \in 0..produced' :
            Ahead(sub', Content, m, n) /\ (n + 1)..produced' \subseteq withheld'
    BY <2>1, <2>2
  <2>4. handler' \in {"none", "accepted"} => m = None /\ sub' = <<>> /\ ~subscribed'
    BY <2>1, <2>2
  <2>5. Ahead(down', Content, shown', m) /\ Chain(sub', Content, m, withheld')
    BY <2>1, <2>2
  <2>6. QED
    BY <2>3, <2>4, <2>5 DEF Between
<1>4. QED
  BY <1>2, <1>3

\* A frame is taken off the connection.
LEMMA FlowRead ==
  ASSUME Carried, Downstream, down # <<>>, down' = Tail(down), reader # "done",
         shown' = IF Head(down).t \in Content THEN Head(down).d ELSE shown,
         UNCHANGED <<sub, phase, produced, withheld, writer, link, handler>>
  PROVE  Downstream'
<1>1. down \in Seq(Downward) /\ Chain(down, Content, shown, withheld)
  BY DEF Carried, Downstream
<1>2. /\ Chain(down', Content, shown', withheld)
      /\ \A n : Ahead(down, Content, shown, n) => Ahead(down', Content, shown', n)
  BY <1>1, ChainTail
<1>3. QED
  BY <1>2 DEF Downstream, subscribed

\* Once the connection is broken what is left of it is in order.
LEMMA FlowCut ==
  ASSUME Carried, Downstream, Break, UNCHANGED <<shown, withheld>>,
         reader' # "done" => reader # "done"
  PROVE  Downstream'
<1>1. down \in Seq(Downward) /\ Eof \in Downward /\ Eof.t \notin Content
  BY FrameTypes DEF Carried, Eof, Frame, Content
<1>2. down' \in {down, Append(down, Eof), <<Eof>>} /\ link' = "broken"
  BY DEF Break, Cut
<1>3. reader' # "done" => Chain(down', Content, shown, withheld)
  BY <1>1, <1>2, ChainAppend, ChainOfNone DEF Downstream
<1>4. QED
  BY <1>2, <1>3 DEF Downstream

\* The session publishes: an output, or the exit frame.
LEMMA FlowOffer ==
  ASSUME Carried, Downstream, produced \in Nat, NEW f \in Published, Offer(f), f.d = produced',
         \A n \in 0..produced : (n + 1)..produced \subseteq withheld => Linked(n, f, withheld),
         produced' \in Nat, subscribed \/ produced' = produced,
         UNCHANGED <<shown, down, withheld, reader, writer, link, handler>>
  PROVE  Downstream'
<1>1. sub \in Seq(Published) /\ f.t \in Content
  BY DEF Carried, Published
<1> SUFFICES ASSUME reader # "done"
             PROVE  /\ Chain(down, Content, shown, withheld)'
                    /\ (writer # "done" /\ link # "broken")' => Between'
  BY DEF Downstream, Between
<1>2. Chain(down, Content, shown, withheld)'
  BY DEF Downstream
<1>3. ASSUME writer # "done", link # "broken" PROVE Between'
  <2>1. PICK m \in Number :
          /\ Ahead(down, Content, shown, m) /\ Chain(sub, Content, m, withheld)
          /\ subscribed =>
               \E n \in 0..produced : Ahead(sub, Content, m, n) /\ (n + 1)..produced \subseteq withheld
          /\ handler \in {"none", "accepted"} => m = None /\ sub = <<>> /\ ~subscribed
    BY <1>3 DEF Downstream
  <2>2. CASE ~subscribed
    <3>1. UNCHANGED <<sub, phase>> /\ ~subscribed'
      BY <2>2 DEF Offer, subVars, subscribed
    <3>2. QED
      BY <2>1, <3>1 DEF Between
  <2>3. CASE subscribed /\ Len(sub) < Queue
    <3>1. sub' = Append(sub, f)
      BY <2>3 DEF Offer
    <3>2. PICK n \in 0..produced : Ahead(sub, Content, m, n) /\ Linked(n, f, withheld)
      BY <2>1, <2>3
    <3>3. Chain(sub', Content, m, withheld') /\ Ahead(sub', Content, m, produced')
      BY <1>1, <2>1, <3>1, <3>2, ChainAppend
    <3>4. produced' \in 0..produced' /\ (produced' + 1)..produced' \subseteq withheld'
      BY NothingAfter
    <3>5. QED
      BY <2>1, <2>3, <3>3, <3>4 DEF Between
  <2>4. CASE subscribed /\ ~(Len(sub) < Queue)
    <3>1. UNCHANGED sub /\ ~subscribed'
      BY <2>4 DEF Offer, subscribed
    <3>2. QED
      BY <2>1, <3>1 DEF Between
  <2>5. QED
    BY <2>2, <2>3, <2>4
<1>4. QED
  BY <1>2, <1>3

\* The session withholds an output.
LEMMA FlowWithhold ==
  ASSUME Downstream, produced \in Nat, produced' = produced + 1,
         withheld' = withheld \cup {produced'},
         UNCHANGED <<shown, down, sub, phase, reader, writer, link, handler>>
  PROVE  Downstream'
<1> SUFFICES ASSUME reader # "done"
             PROVE  /\ Chain(down, Content, shown, withheld)'
                    /\ (writer # "done" /\ link # "broken")' => Between'
  BY DEF Downstream, Between
<1>1. withheld \subseteq withheld'
  OBVIOUS
<1>2. Chain(down, Content, shown, withheld)'
  BY <1>1, ChainGrows DEF Downstream
<1>3. ASSUME writer # "done", link # "broken" PROVE Between'
  <2>1. PICK m \in Number :
          /\ Ahead(down, Content, shown, m) /\ Chain(sub, Content, m, withheld)
          /\ subscribed =>
               \E n \in 0..produced : Ahead(sub, Content, m, n) /\ (n + 1)..produced \subseteq withheld
          /\ handler \in {"none", "accepted"} => m = None /\ sub = <<>> /\ ~subscribed
    BY <1>3 DEF Downstream
  <2>2. Chain(sub, Content, m, withheld')
    BY <1>1, <2>1, ChainGrows
  <2>3. subscribed =>
          \E n \in 0..produced' :
            Ahead(sub, Content, m, n) /\ (n + 1)..produced' \subseteq withheld'
    <3>1. ASSUME NEW n \in 0..produced, (n + 1)..produced \subseteq withheld
          PROVE  n \in 0..produced' /\ (n + 1)..produced' \subseteq withheld'
      BY <3>1
    <3>2. QED
      BY <2>1, <3>1
  <2>4. QED
    BY <2>1, <2>2, <2>3 DEF Between, subscribed
<1>4. QED
  BY <1>2, <1>3

\* pumpWrite carries one over.
LEMMA FlowSend ==
  ASSUME Carried, Downstream, WriterSends
  PROVE  Downstream'
<1>1. /\ sub \in Seq(Published) /\ sub # <<>> /\ down \in Seq(Downward)
      /\ Head(sub) \in Published /\ Head(sub) \in Downward
      /\ Head(sub).t \in Content /\ Head(sub).d \in Number
  <2>1. sub \in Seq(Published) /\ sub # <<>> /\ down \in Seq(Downward)
    BY DEF Carried, WriterSends
  <2>2. Head(sub) \in Published
    BY <2>1, QueueTypes
  <2>3. QED
    BY <2>1, <2>2, FrameTypes DEF Published, Number
<1>2. /\ down' = Append(down, Head(sub)) /\ sub' = Tail(sub) /\ link = "up" /\ writer = "run"
      /\ UNCHANGED <<shown, phase, produced, withheld, reader, writer, link, handler>>
  BY DEF WriterSends, sessionVars, serverVars, termVars, routines
<1> SUFFICES ASSUME reader # "done"
             PROVE  Chain(down, Content, shown, withheld)' /\ Between'
  BY <1>2 DEF Downstream, Between
<1>3. PICK m \in Number :
        /\ Ahead(down, Content, shown, m) /\ Chain(sub, Content, m, withheld)
        /\ subscribed =>
             \E n \in 0..produced : Ahead(sub, Content, m, n) /\ (n + 1)..produced \subseteq withheld
        /\ handler \in {"none", "accepted"} => m = None /\ sub = <<>> /\ ~subscribed
  BY <1>2 DEF Downstream
<1>4. /\ Linked(m, Head(sub), withheld) /\ Chain(sub', Content, Head(sub).d, withheld)
      /\ \A n : Ahead(sub, Content, m, n) => Ahead(sub', Content, Head(sub).d, n)
  BY <1>1, <1>2, <1>3, ChainTail
<1>5. Chain(down', Content, shown, withheld) /\ Ahead(down', Content, shown, Head(sub).d)
  <2>1. Chain(down, Content, shown, withheld)
    BY DEF Downstream
  <2>2. QED
    BY <1>1, <1>2, <1>3, <1>4, <2>1, ChainAppend
<1>6. handler \notin {"none", "accepted"}
  BY <1>1, <1>3
<1>7. subscribed' = subscribed
  BY <1>2 DEF subscribed
<1>8. QED
  BY <1>1, <1>2, <1>3, <1>4, <1>5, <1>6, <1>7 DEF Between

\* The handler answers between two outputs.
LEMMA FlowReply ==
  ASSUME Carried, Downstream, Replies
  PROVE  Downstream'
<1>1. /\ down' = down \/ down' = Append(down, Frame(handler, 0))
      /\ handler \in {"pong", "error"} /\ handler' = "read"
      /\ UNCHANGED <<shown, sub, phase, produced, withheld, reader, writer, link>>
  BY DEF Replies, sessionVars, subVars, termVars, routines
<1>2. Frame(handler, 0) \in Downward /\ Frame(handler, 0).t \notin Content /\ down \in Seq(Downward)
  BY <1>1, FrameTypes DEF Frame, Content, Carried
<1>3. reader # "done" =>
        /\ Chain(down', Content, shown, withheld)
        /\ \A n : Ahead(down, Content, shown, n) => Ahead(down', Content, shown, n)
  BY <1>1, <1>2, ChainAppend DEF Downstream
<1>4. QED
  BY <1>1, <1>3 DEF Downstream, subscribed

\* The replay is the first to come.
LEMMA FlowSubscribe ==
  ASSUME TypeOK, Control, Downstream, Subscribe
  PROVE  Downstream'
<1>1. /\ handler = "accepted" /\ handler' = "read" /\ writer = "none"
      /\ UNCHANGED <<shown, down, produced, withheld, reader, link>>
  BY DEF Subscribe, Control, linkVars, termVars, routines
<1> SUFFICES ASSUME reader # "done"
             PROVE  /\ Chain(down, Content, shown, withheld)'
                    /\ link # "broken" => Between'
  BY <1>1 DEF Downstream, Between
<1>2. Chain(down, Content, shown, withheld)'
  BY <1>1 DEF Downstream
<1>3. ASSUME link # "broken" PROVE Between'
  <2>1. Ahead(down, Content, shown, None) /\ sub = <<>> /\ ~subscribed /\ None \in Number
        /\ Chain(<<>>, Content, None, withheld)
    BY <1>1, <1>3 DEF Downstream, Number
  <2>2. CASE ended
    <3>1. sub' = sub /\ ~subscribed'
      BY <2>1, <2>2 DEF Subscribe, subscribed
    <3>2. QED
      BY <1>1, <2>1, <3>1 DEF Between
  <2>3. CASE ~ended
    <3>1. sub' = Append(<<>>, Frame("replay", produced))
      BY <2>3 DEF Subscribe
    <3>2. /\ Frame("replay", produced) \in Published /\ <<>> \in Seq(Published)
          /\ Frame("replay", produced).t \in Content /\ Frame("replay", produced).d = produced
          /\ Linked(None, Frame("replay", produced), withheld)
      BY FrameTypes DEF TypeOK, Ranges, Content, Frame, Linked
    <3>3. Ahead(<<>>, Content, None, None)
      BY DEF Ahead, Reaches
    <3>4. Chain(sub', Content, None, withheld) /\ Ahead(sub', Content, None, produced)
      BY <2>1, <3>1, <3>2, <3>3, ChainAppend
    <3>5. produced \in 0..produced /\ (produced + 1)..produced \subseteq withheld
      BY AttachAssumption DEF TypeOK, Ranges
    <3>6. QED
      BY <1>1, <2>1, <3>4, <3>5 DEF Between
  <2>4. QED
    BY <2>2, <2>3
<1>4. QED
  BY <1>2, <1>3

LEMMA DownstreamKept ==
  ASSUME TypeOK, Carried, Control, Downstream, Next
  PROVE  Downstream'
<1> USE DEF sessionVars, subVars, serverVars, linkVars, mainVars, termVars, sizeVars, routines
<1>1. CASE \E o \in Opts : Resolve(o)
  BY <1>1, FlowQuiet DEF flow, subscribed, Resolve
<1>2. CASE Dial
  BY <1>2, FlowQuiet DEF flow, subscribed, Dial, Control
<1>3. CASE Open
  <2>1. CASE Break
    BY <1>3, <2>1, FlowCut DEF Open, Control
  <2>2. CASE ~Break
    BY <1>3, <2>2, FlowQuiet DEF flow, subscribed, Open, Control
  <2>3. QED
    BY <2>1, <2>2
<1>4. CASE Hangup
  BY <1>4, FlowCut DEF Hangup
<1>5. CASE Return
  BY <1>5, FlowQuiet DEF flow, subscribed, Return
<1>6. CASE Signal
  BY <1>6, FlowQuiet DEF flow, subscribed, Signal
<1>7. CASE Type
  BY <1>7, FlowQuiet DEF flow, subscribed, Type
<1>8. CASE StdinEnds
  BY <1>8, FlowQuiet DEF flow, subscribed, StdinEnds
<1>9. CASE StdinWrites
  BY <1>9, FlowQuiet DEF flow, subscribed, StdinWrites
<1>10. CASE ReaderPrints
  BY <1>10, FlowRead DEF ReaderPrints, Arrived, Content
<1>11. CASE ReaderSkips
  BY <1>11, FlowRead DEF ReaderSkips, Arrived, Content
<1>12. CASE ReaderExits
  BY <1>12 DEF ReaderExits, Downstream
<1>13. CASE ReaderFails
  BY <1>13 DEF ReaderFails, Downstream
<1>14. CASE Ping
  BY <1>14, FlowQuiet DEF flow, subscribed, Ping
<1>15. CASE SendSize
  BY <1>15, FlowQuiet DEF flow, subscribed, SendSize
<1>16. CASE PingerStops
  BY <1>16, FlowQuiet DEF flow, subscribed, PingerStops
<1>17. CASE Resize
  BY <1>17, FlowQuiet DEF flow, subscribed, Resize
<1>18. CASE Watch
  BY <1>18, FlowQuiet DEF flow, subscribed, Watch, WatchLooks, WatchPolls, WatchSends
<1>19. CASE LinkFails
  BY <1>19, FlowCut DEF LinkFails
<1>20. CASE Emit
  <2>1. produced \in Nat /\ produced + 1 \in 0..MaxOut /\ produced' = produced + 1
    BY <1>20, AttachAssumption, WithinBounds DEF Emit, TypeOK, Ranges
  <2>2. CASE phase = "repaint"
    BY <1>20, <2>1, <2>2, FlowWithhold DEF Emit
  <2>3. CASE phase # "repaint"
    <3>1. Frame("out", produced + 1) \in Published /\ Frame("out", produced + 1).d = produced'
      BY <2>1, FrameTypes DEF Content, Frame
    <3>2. \A n \in 0..produced : (n + 1)..produced \subseteq withheld =>
             Linked(n, Frame("out", produced + 1), withheld)
      <4> SUFFICES ASSUME NEW n \in 0..produced, (n + 1)..produced \subseteq withheld
                   PROVE  Linked(n, Frame("out", produced + 1), withheld)
        OBVIOUS
      <4> DEFINE f == Frame("out", produced + 1)
      <4>1. f.t = "out" /\ f.d - 1 = produced
        BY <2>1 DEF Frame
      <4>2. QED
        BY <4>1 DEF Linked
    <3>3. QED
      BY <1>20, <2>1, <2>3, <3>1, <3>2, FlowOffer DEF Emit
  <2>4. QED
    BY <2>2, <2>3
<1>21. CASE SessionEnds
  <2>1. Frame("exit", produced) \in Published /\ Frame("exit", produced).d = produced
    BY FrameTypes DEF Content, Frame, TypeOK, Ranges
  <2>2. \A n \in 0..produced : (n + 1)..produced \subseteq withheld =>
           Linked(n, Frame("exit", produced), withheld)
    BY DEF Linked, Frame
  <2>3. produced \in Nat
    BY AttachAssumption DEF TypeOK, Ranges
  <2>4. QED
    BY <1>21, <2>1, <2>2, <2>3, FlowOffer DEF SessionEnds
<1>22. CASE Collect
  BY <1>22, FlowQuiet DEF flow, subscribed, Collect
<1>23. CASE WriterSends
  BY <1>23, FlowSend
<1>24. CASE WriterStops
  BY <1>24 DEF WriterStops, Downstream
<1>25. CASE WriterTimesOut
  <2>1. CASE Break
    BY <1>25, <2>1, FlowCut DEF WriterTimesOut
  <2>2. CASE UNCHANGED linkVars
    BY <1>25, <2>2, FlowQuiet DEF flow, subscribed, WriterTimesOut
  <2>3. QED
    BY <1>25, <2>1, <2>2 DEF WriterTimesOut
<1>26. CASE GetsInput
  BY <1>26, FlowQuiet DEF flow, subscribed, GetsInput
<1>27. CASE GetsResize
  BY <1>27, FlowQuiet DEF flow, subscribed, GetsResize, Repaints
<1>28. CASE GetsPing
  BY <1>28, FlowQuiet DEF flow, subscribed, GetsPing
<1>29. CASE Replies
  BY <1>29, FlowReply
<1>30. CASE ReadFails
  BY <1>30, FlowQuiet DEF flow, subscribed, ReadFails
<1>31. CASE Closes
  BY <1>31, FlowCut DEF Closes
<1>32. CASE Subscribe
  BY <1>32, FlowSubscribe
<1>33. CASE OtherResizes
  BY <1>33, FlowQuiet DEF flow, OtherResizes, Repaints, subscribed
<1>34. CASE TimePasses
  BY <1>34, FlowQuiet DEF flow, TimePasses, subscribed
<1>35. QED
  BY <1>1, <1>2, <1>3, <1>4, <1>5, <1>6, <1>7, <1>8, <1>9, <1>10, <1>11, <1>12, <1>13, <1>14, <1>15, <1>16, <1>17, <1>18, <1>19, <1>20, <1>21, <1>22, <1>23, <1>24, <1>25, <1>26, <1>27, <1>28, <1>29, <1>30, <1>31, <1>32, <1>33, <1>34 DEF Next, ClientMain, Reads, Pinger, Writer, Handler

-----------------------------------------------------------------------------
(* The order of the keys *)

\* The last key written into the connection, as long as all were.
Written == IF stdin = "write" THEN key - 1 ELSE key

\* A step that moves no key keeps their order.
LEMMA KeysQuiet ==
  ASSUME Upstream, UNCHANGED <<up, input>>,
         handler' \notin {"close", "done"} => handler \notin {"close", "done"},
         link' # "broken" => link # "broken",
         stdin' # "done" => stdin # "done" /\ Written' = Written
  PROVE  Upstream'
<1>1. ASSUME (handler \notin {"close", "done"})'
      PROVE  Chain(up, {"in"}, input, {})'
  BY <1>1 DEF Upstream
<1>2. ASSUME (handler \notin {"close", "done"} /\ link # "broken" /\ stdin # "done")'
      PROVE  Ahead(up, {"in"}, input, Written)'
  BY <1>2 DEF Upstream, Written
<1>3. QED
  BY <1>1, <1>2 DEF Upstream, Written

\* So does one that writes something else after them.
LEMMA KeysWrite ==
  ASSUME Carried, Upstream, NEW f \in Upward, f.t # "in", up' = up \/ up' = Append(up, f),
         UNCHANGED <<input, handler, link>>,
         stdin' # "done" => stdin # "done" /\ Written' = Written
  PROVE  Upstream'
<1>1. up \in Seq(Upward) /\ f.t \notin {"in"}
  BY DEF Carried
<1>2. handler \notin {"close", "done"} =>
        /\ Chain(up', {"in"}, input, {})
        /\ \A n : Ahead(up, {"in"}, input, n) => Ahead(up', {"in"}, input, n)
  BY <1>1, ChainAppend DEF Upstream
<1>3. QED
  BY <1>2 DEF Upstream, Written

LEMMA KeysCut ==
  ASSUME Carried, Upstream, Break, UNCHANGED input,
         handler' \notin {"close", "done"} => handler \notin {"close", "done"}
  PROVE  Upstream'
<1>1. up \in Seq(Upward) /\ Eof \in Upward /\ Eof.t \notin {"in"}
  BY FrameTypes DEF Carried, Eof, Frame
<1>2. up' \in {up, Append(up, Eof), <<Eof>>} /\ link' = "broken"
  BY DEF Break, Cut
<1>3. handler \notin {"close", "done"} => Chain(up', {"in"}, input, {})
  BY <1>1, <1>2, ChainAppend, ChainOfNone DEF Upstream
<1>4. QED
  BY <1>2, <1>3 DEF Upstream

\* pumpRead takes a frame; a key it takes goes to the shell, or is the last it looks at.
LEMMA KeysRead ==
  ASSUME Carried, Upstream, up # <<>>, up' = Tail(up), handler = "read",
         \/ handler' \in {"close", "done"}
         \/ input' = IF Head(up).t \in {"in"} THEN Head(up).d ELSE input,
         UNCHANGED <<link, stdin, key>>
  PROVE  Upstream'
<1>1. up \in Seq(Upward)
  BY DEF Carried
<1>2. handler' \notin {"close", "done"} =>
        /\ Chain(up', {"in"}, input', {})
        /\ \A n : Ahead(up, {"in"}, input, n) => Ahead(up', {"in"}, input', n)
  BY <1>1, ChainTail DEF Upstream
<1>3. QED
  BY <1>2 DEF Upstream

LEMMA UpstreamKept ==
  ASSUME TypeOK, Carried, Control, Upstream, Next
  PROVE  Upstream'
<1> USE DEF sessionVars, subVars, serverVars, linkVars, mainVars, termVars, sizeVars, routines
<1>1. CASE \E o \in Opts : Resolve(o)
  BY <1>1, KeysQuiet DEF Written, Resolve
<1>2. CASE Dial
  BY <1>2, KeysQuiet DEF Written, Dial, Control
<1>3. CASE Open
  <2>1. CASE Break
    BY <1>3, <2>1, KeysCut DEF Open
  <2>2. CASE ~Break
    <3>1. Frame("resize", size) \in Upward /\ Frame("resize", size).t # "in"
      BY FrameTypes DEF TypeOK, Ranges, Frame
    <3>2. stdin # "done" /\ Written' = Written
      BY <1>3, <2>2 DEF Open, Control, Written
    <3>3. up' = up \/ up' = Append(up, Frame("resize", size))
      BY <1>3, <2>2 DEF Open
    <3>4. QED
      BY <1>3, <2>2, <3>1, <3>2, <3>3, KeysWrite DEF Open
  <2>3. QED
    BY <2>1, <2>2
<1>4. CASE Hangup
  BY <1>4, KeysCut DEF Hangup
<1>5. CASE Return
  BY <1>5, KeysQuiet DEF Written, Return
<1>6. CASE Signal
  BY <1>6, KeysQuiet DEF Written, Signal
<1>7. CASE Type
  <2>1. Written' = Written
    BY <1>7 DEF Type, Written, TypeOK, Ranges
  <2>2. QED
    BY <1>7, <2>1, KeysQuiet DEF Type
<1>8. CASE StdinEnds
  BY <1>8, KeysQuiet DEF Written, StdinEnds
<1>9. CASE StdinWrites
  <2>1. CASE Writes(Frame("in", key)) /\ stdin' = "read"
    <3>1. /\ Frame("in", key) \in Upward /\ Frame("in", key).t \in {"in"}
          /\ Frame("in", key).d = key /\ Linked(key - 1, Frame("in", key), {})
          /\ up \in Seq(Upward)
      BY FrameTypes DEF TypeOK, Ranges, Carried, Frame, Linked
    <3>2. /\ up' = Append(up, Frame("in", key)) /\ link = "up" /\ stdin = "write"
          /\ UNCHANGED <<input, handler, key>>
      BY <1>9, <2>1 DEF StdinWrites, Writes
    <3>3. handler \notin {"close", "done"} =>
            /\ Chain(up', {"in"}, input, {}) /\ Ahead(up', {"in"}, input, key)
      BY <3>1, <3>2, ChainAppend DEF Upstream
    <3>4. QED
      BY <2>1, <3>2, <3>3 DEF Upstream
  <2>2. CASE stdin' = "done" /\ UNCHANGED up
    BY <1>9, <2>2, KeysQuiet DEF StdinWrites
  <2>3. QED
    BY <1>9, <2>1, <2>2 DEF StdinWrites
<1>10. CASE ReaderPrints
  BY <1>10, KeysQuiet DEF Written, ReaderPrints
<1>11. CASE ReaderSkips
  BY <1>11, KeysQuiet DEF Written, ReaderSkips
<1>12. CASE ReaderExits
  BY <1>12, KeysQuiet DEF Written, ReaderExits
<1>13. CASE ReaderFails
  BY <1>13, KeysQuiet DEF Written, ReaderFails
<1>14. CASE Ping
  <2>1. Frame("ping", 0) \in Upward /\ Frame("ping", 0).t # "in"
    BY FrameTypes DEF Frame
  <2>2. up' = up \/ up' = Append(up, Frame("ping", 0))
    BY <1>14 DEF Ping, Writes, PingerFails
  <2>3. QED
    BY <1>14, <2>1, <2>2, KeysWrite DEF Ping, Written
<1>15. CASE SendSize
  <2>1. /\ Frame("resize", Head(resizeCh)) \in Upward
        /\ Frame("resize", Head(resizeCh)).t # "in"
    <3>1. Head(resizeCh) \in 0..MaxSize
      BY <1>15, QueueTypes DEF SendSize, Carried
    <3>2. QED
      BY <3>1, FrameTypes DEF Frame
  <2>2. up' = up \/ up' = Append(up, Frame("resize", Head(resizeCh)))
    BY <1>15 DEF SendSize, Writes, PingerFails
  <2>3. QED
    BY <1>15, <2>1, <2>2, KeysWrite DEF SendSize, Written
<1>16. CASE PingerStops
  BY <1>16, KeysQuiet DEF Written, PingerStops
<1>17. CASE Resize
  BY <1>17, KeysQuiet DEF Written, Resize
<1>18. CASE Watch
  BY <1>18, KeysQuiet DEF Written, Watch, WatchLooks, WatchPolls, WatchSends
<1>19. CASE LinkFails
  BY <1>19, KeysCut DEF LinkFails
<1>20. CASE Emit
  BY <1>20, KeysQuiet DEF Written, Emit
<1>21. CASE SessionEnds
  BY <1>21, KeysQuiet DEF Written, SessionEnds
<1>22. CASE Collect
  BY <1>22, KeysQuiet DEF Written, Collect
<1>23. CASE WriterSends
  BY <1>23, KeysQuiet DEF Written, WriterSends
<1>24. CASE WriterStops
  BY <1>24, KeysQuiet DEF Written, WriterStops
<1>25. CASE WriterTimesOut
  <2>1. CASE Break
    BY <1>25, <2>1, KeysCut DEF WriterTimesOut
  <2>2. CASE UNCHANGED linkVars
    BY <1>25, <2>2, KeysQuiet DEF Written, WriterTimesOut
  <2>3. QED
    BY <1>25, <2>1, <2>2 DEF WriterTimesOut
<1>26. CASE GetsInput
  BY <1>26, KeysRead DEF GetsInput, Asked
<1>27. CASE GetsResize
  BY <1>27, KeysRead DEF GetsResize, Asked
<1>28. CASE GetsPing
  BY <1>28, KeysRead DEF GetsPing, Asked
<1>29. CASE Replies
  BY <1>29, KeysQuiet DEF Written, Replies
<1>30. CASE ReadFails
  BY <1>30, KeysQuiet DEF Written, ReadFails
<1>31. CASE Closes
  BY <1>31, KeysCut DEF Closes
<1>32. CASE Subscribe
  BY <1>32, KeysQuiet DEF Written, Subscribe
<1>33. CASE OtherResizes
  BY <1>33, KeysQuiet DEF Written, OtherResizes
<1>34. CASE TimePasses
  BY <1>34, KeysQuiet DEF Written, TimePasses
<1>35. QED
  BY <1>1, <1>2, <1>3, <1>4, <1>5, <1>6, <1>7, <1>8, <1>9, <1>10, <1>11, <1>12, <1>13, <1>14, <1>15, <1>16, <1>17, <1>18, <1>19, <1>20, <1>21, <1>22, <1>23, <1>24, <1>25, <1>26, <1>27, <1>28, <1>29, <1>30, <1>31, <1>32, <1>33, <1>34 DEF Next, ClientMain, Reads, Pinger, Writer, Handler

-----------------------------------------------------------------------------
(* The theorems *)

LEMMA CodeIsLastKept ==
  ASSUME TypeOK, Carried, Control, Downstream, CodeIsLast, Next
  PROVE  CodeIsLast'
<1> USE DEF sessionVars, subVars, serverVars, linkVars, mainVars, termVars, sizeVars, routines
<1>1. CASE ReaderExits
  <2>1. down \in Seq(Downward) /\ down # <<>> /\ Head(down).t = "exit"
    BY <1>1 DEF ReaderExits, Arrived, Carried
  <2>2. Linked(shown, Head(down), withheld)
    BY <1>1, <2>1, ChainTail DEF Downstream, Content, ReaderExits
  <2>3. shown \in Nat /\ (shown + 1)..(Head(down).d) \subseteq withheld
    BY <2>1, <2>2 DEF Linked
  <2>4. QED
    BY <1>1, <2>3, AttachAssumption DEF ReaderExits, Arrived, CodeIsLast
<1>2. CASE ReaderPrints
  BY <1>2 DEF ReaderPrints, CodeIsLast
<1>3. CASE ReaderFails
  BY <1>3 DEF ReaderFails, CodeIsLast
<1>4. CASE Open
  BY <1>4 DEF Open, Control, CodeIsLast
<1>5. ASSUME ~ReaderExits, ~ReaderPrints, ~ReaderFails, ~Open
      PROVE  UNCHANGED <<code, shown, reader>> /\ withheld \subseteq withheld'
  <2>1. ASSUME NEW o \in Opts, Resolve(o) PROVE UNCHANGED <<code, shown, reader>> /\ withheld \subseteq withheld'
    BY <2>1 DEF Resolve
  <2>2. CASE LinkFails \/ Signal
    BY <2>2 DEF LinkFails, Signal
  <2>3. CASE ClientMain
    BY <1>5, <2>3 DEF ClientMain, Dial, Hangup, Return
  <2>4. CASE Type \/ StdinEnds \/ StdinWrites
    BY <2>4 DEF Type, StdinEnds, StdinWrites
  <2>5. CASE Reads
    BY <1>5, <2>5 DEF Reads, ReaderSkips
  <2>6. CASE Pinger
    BY <2>6 DEF Pinger, Ping, SendSize, PingerStops
  <2>7. CASE Resize \/ Watch
    BY <2>7 DEF Resize, Watch, WatchLooks, WatchPolls, WatchSends
  <2>8. CASE Emit \/ SessionEnds \/ Collect \/ OtherResizes \/ TimePasses
    BY <2>8 DEF Emit, SessionEnds, Collect, OtherResizes, TimePasses
  <2>9. CASE Writer \/ WriterTimesOut
    BY <2>9 DEF Writer, WriterSends, WriterStops, WriterTimesOut
  <2>10. CASE Handler
    BY <2>10 DEF Handler, GetsInput, GetsResize, GetsPing, Replies, ReadFails, Closes, Subscribe
  <2>11. QED
    BY <2>1, <2>2, <2>3, <2>4, <2>5, <2>6, <2>7, <2>8, <2>9, <2>10 DEF Next
<1>6. QED
  BY <1>1, <1>2, <1>3, <1>4, <1>5 DEF CodeIsLast

LEMMA StutterInv == ASSUME Inv, UNCHANGED vars PROVE Inv'
<1> USE DEF vars, sessionVars, subVars, serverVars, linkVars, mainVars, termVars, sizeVars, routines
<1>1. Flags' /\ Ranges' /\ Carried'
  BY DEF Inv, TypeOK, Flags, Ranges, Carried
<1>2. Control' /\ CodeIsLast'
  BY DEF Inv, Control, CodeIsLast
<1>3. Downstream'
  BY FlowQuiet DEF Inv, flow, subscribed
<1>4. Upstream'
  BY KeysQuiet DEF Inv, Written
<1>5. QED
  BY <1>1, <1>2, <1>3, <1>4 DEF Inv, TypeOK

\* The inductive invariant: the types, where the command is, and the order of what is under
\* way in both directions.
THEOREM Invariance == Spec => []Inv
<1>1. ASSUME Inv, Next PROVE Inv'
  <2> USE <1>1 DEF Inv
  <2>1. TypeOK'
    BY FlagsKept, RangesKept DEF TypeOK
  <2>2. Carried' /\ Control'
    BY CarriedKept, ControlKept
  <2>3. Downstream' /\ Upstream' /\ CodeIsLast'
    BY DownstreamKept, UpstreamKept, CodeIsLastKept
  <2>4. QED
    BY <2>1, <2>2, <2>3
<1>2. QED
  BY InitInv, <1>1, StutterInv, PTL DEF Spec

\* Every variable keeps its type: no channel, no subscription and no counter outgrows its
\* bound.
THEOREM TypeCorrect == Spec => []TypeOK
BY Invariance, PTL DEF Inv

\* The exit code is reported after everything that was published before it (readFrames,
\* attach.go), although it passes a channel and a connection other writers share.
THEOREM ExitComplete == Spec => []ExitMeansComplete
<1>1. Inv => ExitMeansComplete
  BY DEF Inv, CodeIsLast, ExitMeansComplete
<1>2. QED
  BY <1>1, Invariance, PTL

\* A command that returned left the terminal as it found it, and no goroutine behind
\* (runAttach and runAttachIO, attach.go).
THEOREM LeavesNothing == Spec => []NothingLeftBehind
<1>1. Inv => NothingLeftBehind
  BY DEF Inv, Control, NothingLeftBehind
<1>2. QED
  BY <1>1, Invariance, PTL

\* Outputs are printed, and keys reach the shell, each once and in order, for any capacity
\* of the channels and however the connection ends.
THEOREM InOrder == Spec => StreamsInOrder
<1> DEFINE Step == /\ shown' # shown =>
                        shown = None \/ (shown < shown' /\ (shown + 1)..(shown' - 1) \subseteq withheld)
                   /\ input' # input => input' = input + 1
<1> USE DEF sessionVars, subVars, serverVars, linkVars, mainVars, termVars, sizeVars, routines
<1>1. ASSUME Inv, ReaderPrints PROVE Step
  <2>1. /\ down \in Seq(Downward) /\ down # <<>> /\ Head(down).t \in {"replay", "out"}
        /\ shown' = Head(down).d /\ input' = input
    BY <1>1 DEF ReaderPrints, Arrived, Inv, Carried
  <2>2. Head(down) \in Downward
    BY <2>1, QueueTypes
  <2>3. Head(down).d \in Nat
    BY <2>2, AttachAssumption DEF Downward, Published
  <2>4. Linked(shown, Head(down), withheld)
    BY <1>1, <2>1, ChainTail DEF Inv, Downstream, Content, ReaderPrints
  <2>5. shown = None \/ (shown \in 0..(Head(down).d - 1)
                         /\ (shown + 1)..(Head(down).d - 1) \subseteq withheld)
    BY <2>1, <2>4 DEF Linked
  <2>6. QED
    BY <2>1, <2>3, <2>5
<1>2. ASSUME Inv, GetsInput PROVE Step
  <2>1. /\ up \in Seq(Upward) /\ up # <<>> /\ Head(up).t \in {"in"} /\ handler = "read"
        /\ input' = input \/ input' = Head(up).d
        /\ shown' = shown
    BY <1>2 DEF GetsInput, Asked, Inv, Carried
  <2>2. Head(up) \in Upward
    BY <2>1, QueueTypes
  <2>3. Head(up).d \in Nat
    BY <2>2 DEF Upward
  <2>4. Linked(input, Head(up), {})
    BY <1>2, <2>1, ChainTail DEF Inv, Upstream
  <2>5. input = Head(up).d - 1
    BY <2>1, <2>4 DEF Linked
  <2>6. QED
    BY <2>1, <2>3, <2>5
<1>3. ASSUME [Next]_vars, ~ReaderPrints, ~GetsInput PROVE UNCHANGED <<shown, input>>
  <2>1. ASSUME NEW o \in Opts, Resolve(o) PROVE UNCHANGED <<shown, input>>
    BY <2>1 DEF Resolve
  <2>2. CASE LinkFails \/ Signal
    BY <2>2 DEF LinkFails, Signal
  <2>3. CASE ClientMain
    BY <2>3 DEF ClientMain, Dial, Open, Hangup, Return
  <2>4. CASE Type \/ StdinEnds \/ StdinWrites
    BY <2>4 DEF Type, StdinEnds, StdinWrites
  <2>5. CASE Reads
    BY <1>3, <2>5 DEF Reads, ReaderSkips, ReaderExits, ReaderFails
  <2>6. CASE Pinger
    BY <2>6 DEF Pinger, Ping, SendSize, PingerStops
  <2>7. CASE Resize \/ Watch
    BY <2>7 DEF Resize, Watch, WatchLooks, WatchPolls, WatchSends
  <2>8. CASE Emit \/ SessionEnds \/ Collect \/ OtherResizes \/ TimePasses
    BY <2>8 DEF Emit, SessionEnds, Collect, OtherResizes, TimePasses
  <2>9. CASE Writer \/ WriterTimesOut
    BY <2>9 DEF Writer, WriterSends, WriterStops, WriterTimesOut
  <2>10. CASE Handler
    BY <1>3, <2>10 DEF Handler, GetsResize, GetsPing, Replies, ReadFails, Closes, Subscribe
  <2>11. CASE UNCHANGED vars
    BY <2>11 DEF vars
  <2>12. QED
    BY <1>3, <2>1, <2>2, <2>3, <2>4, <2>5, <2>6, <2>7, <2>8, <2>9, <2>10, <2>11 DEF Next
<1>4. Inv /\ [Next]_vars => [Step]_vars
  BY <1>1, <1>2, <1>3
<1>5. QED
  BY <1>4, Invariance, PTL DEF Spec, StreamsInOrder
=============================================================================
