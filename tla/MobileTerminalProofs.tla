------------------------ MODULE MobileTerminalProofs ------------------------
(***************************************************************************)
(* MobileTerminal for every width, limit of the history and bound: the     *)
(* types, the one socket, what readiness means, that the screen has every  *)
(* output once, in order, with the history behind it, and that a tab that  *)
(* is disposed of or saw its shell exit stays so.                          *)
(***************************************************************************)
EXTENDS MobileTerminal, SequenceTheorems, TLAPS

-----------------------------------------------------------------------------
(* The inductive invariants *)

\* A socket's end is the last of its frames, nothing comes from one that has not joined, and
\* the replay that was received came from one that has.
Sockets ==
  \A c \in Socket :
    /\ \A i \in 1..Len(inbox[c]) : inbox[c][i].t \in {"end", "over"} => i = Len(inbox[c])
    /\ Over(c) => c \notin joined
    /\ c \notin joined /\ ~Over(c) => inbox[c] = <<>> /\ (c = cur => ~received)
    /\ c > conns => c \notin joined /\ ~Over(c)

\* What was and what will be shown of the socket that is heard; a replay comes first.
Heard == (IF received THEN Shown ELSE <<>>) \o Coming(cur)
Stream ==
  cur # None =>
    /\ Follows(Heard)
    /\ cur \in joined => Heard # <<>> /\ Last(Heard).d = produced
    /\ ~received /\ Coming(cur) # <<>> => Head(Coming(cur)).t = "replay"

\* A replay was received from the socket that is heard, and waits only there.
Receiving ==
  /\ received => state \in {"live", "closed"} /\ cur # None
  /\ ready => received
  /\ pending # None => received
  /\ state = "reconnecting" => cur = None
  /\ received => history # <<>>

Inv == TypeOK /\ Sockets /\ Receiving /\ OneSocket /\ ReadyMeansLive /\ HistoryIsScreen /\ Stream

-----------------------------------------------------------------------------
(* Types *)

Incoming == Sent \cup [t : {"end", "over"}, d : {0}]

LEMMA FrameTypes ==
  /\ \A t \in {"replay", "out", "exit"}, d \in Nat :
       Frame(t, d) \in Sent /\ Frame(t, d) \in Incoming
  /\ Frame("end", 0) \in Incoming /\ Frame("over", 0) \in Incoming
  /\ \A f \in Incoming : f.t \in {"replay", "out", "exit"} => f \in Sent
BY DEF Frame, Sent, Incoming

LEMMA RemoteColsType ==
  ASSUME NEW w \in Width, NEW f \in Fixed, NEW b PROVE RemoteCols(w, f, b) \in Width \cup Fixed
BY DEF RemoteCols

LEMMA QueueTypes ==
  ASSUME NEW S, NEW q \in Seq(S)
  PROVE  /\ \A f \in S : Append(q, f) \in Seq(S) /\ <<f>> \in Seq(S)
         /\ <<>> \in Seq(S) /\ (q # <<>> => Head(q) \in S /\ Tail(q) \in Seq(S))
         /\ \A r \in Seq(S) : q \o r \in Seq(S)
OBVIOUS

\* What a frame does to the memory of the frames, and where it is put.
LEMMA KeepsTypes ==
  ASSUME Ranges, NEW f \in Sent, NEW isDirect, Keeps(f, isDirect)
  PROVE  /\ history' \in Seq(Sent) /\ Len(history') <= HistoryLimit
         /\ screen' \in Seq(Sent) /\ out' \in Seq(Sent)
<1>1. history \in Seq(Sent) /\ Len(history) <= HistoryLimit /\ HistoryLimit \in Nat \ {0}
      /\ screen \in Seq(Sent) /\ out \in Seq(Sent)
  BY MobileTerminalAssumption DEF Ranges
<1>2. history' \in Seq(Sent) /\ Len(history') <= HistoryLimit
  <2>1. /\ Append(history, f) \in Seq(Sent) /\ Len(Append(history, f)) = Len(history) + 1
        /\ Append(history, f) # <<>> /\ Len(history) \in Nat
    BY <1>1
  <2>2. /\ Tail(Append(history, f)) \in Seq(Sent)
        /\ Len(Tail(Append(history, f))) = Len(history)
    BY <1>1, <2>1
  <2>3. QED
    BY <1>1, <2>1, <2>2 DEF Keeps, Remembered
<1>3. screen' \in Seq(Sent) /\ out' \in Seq(Sent)
  BY <1>1, QueueTypes DEF Keeps
<1>4. QED
  BY <1>2, <1>3

LEMMA FlagsKept ==
  ASSUME Flags, Next
  PROVE  Flags'
<1> USE DEF session, sockets, timers, applying, content, settings, tab
<1>1. CASE Emit
  BY <1>1 DEF Emit, Fan, Flags
<1>2. CASE Exit
  BY <1>2 DEF Exit, Fan, Flags
<1>3. CASE Connect
  BY <1>3 DEF Connect, Flags
<1>4. CASE ConnectThrows
  BY <1>4 DEF ConnectThrows, ScheduleReconnect, Flags
<1>5. CASE Apply
  BY <1>5 DEF Apply, SendResize, Flags
<1>6. CASE ToggleWrap
  BY <1>6 DEF ToggleWrap, MayChange, Rebuild, Unaffected, Flags
<1>7. CASE Dispose
  BY <1>7 DEF Dispose, Flags
<1>8. ASSUME NEW c \in Socket, Joins(c) PROVE Flags'
  BY <1>8 DEF Joins, Flags
<1>9. ASSUME NEW c \in Socket, Ends(c) PROVE Flags'
  BY <1>9 DEF Ends, Flags
<1>10. ASSUME NEW c \in Socket, Listen(c) PROVE Flags'
  BY <1>10 DEF Listen, OnReplay, OnOut, OnExit, OnEnd, Keeps, ScheduleReconnect, Flags
<1>11. ASSUME NEW f \in Fixed, SetColumns(f) PROVE Flags'
  BY <1>11 DEF SetColumns, MayChange, Rebuild, SendResize, Unaffected, Flags
<1>12. ASSUME NEW w \in Width, Layout(w) PROVE Flags'
  BY <1>12 DEF Layout, MayChange, SendResize, Unaffected, Flags
<1>13. QED
  BY <1>1, <1>2, <1>3, <1>4, <1>5, <1>6, <1>7, <1>8, <1>9, <1>10, <1>11, <1>12 DEF Next

LEMMA RangesKept ==
  ASSUME Ranges, Next
  PROVE  Ranges'
<1> USE DEF session, sockets, timers, applying, content, settings, tab
<1>1. /\ inbox \in [Socket -> Seq(Incoming)] /\ produced \in Nat
      /\ <<>> \in Seq(Sent) /\ cur \in Socket \cup {None}
      /\ history \in Seq(Sent) /\ Len(history) <= HistoryLimit /\ screen \in Seq(Sent)
      /\ out \in Seq(Sent) /\ pending \in Seq(Sent) \cup {None}
  BY DEF Ranges, Incoming
<1>2. CASE Emit
  <2>1. Frame("out", produced') \in Incoming
    BY <1>1, <1>2, FrameTypes DEF Emit
  <2>2. inbox' \in [Socket -> Seq(Incoming)]
    BY <1>1, <1>2, <2>1, QueueTypes DEF Emit, Fan
  <2>3. produced' \in 0..MaxOut
    BY <1>2, <1>1, MobileTerminalAssumption DEF Emit, Ranges
  <2>4. QED
    BY <1>2, <2>2, <2>3 DEF Emit, Ranges, Incoming
<1>3. CASE Exit
  <2>1. Frame("exit", produced) \in Incoming
    BY <1>1, FrameTypes
  <2>2. inbox' \in [Socket -> Seq(Incoming)]
    BY <1>1, <1>3, <2>1, QueueTypes DEF Exit, Fan
  <2>3. QED
    BY <1>3, <2>2, MobileTerminalAssumption DEF Exit, Ranges, Incoming
<1>4. CASE Connect
  <2>1. conns + 1 \in Socket
    BY <1>4, MobileTerminalAssumption DEF Connect, Ranges, Socket
  <2>2. QED
    BY <1>1, <1>4, <2>1 DEF Connect, Ranges
<1>5. CASE ConnectThrows
  BY <1>5, <1>1, MobileTerminalAssumption DEF ConnectThrows, ScheduleReconnect, Ranges
<1>6. CASE Apply
  <2>1. lastSent' = lastSent \/ lastSent' = RemoteCols(width, fixed, wrap)
    BY <1>6 DEF Apply, SendResize
  <2>2. lastSent' \in Width \cup Fixed \cup {None}
    BY <2>1, RemoteColsType DEF Ranges
  <2>3. screen' = screen \/ (pending # None /\ screen' = screen \o pending \o out)
    BY <1>6 DEF Apply
  <2>4. screen' \in Seq(Sent)
    <3>1. ASSUME pending # None PROVE screen \o pending \in Seq(Sent)
      BY <1>1, <3>1, QueueTypes
    <3>2. ASSUME pending # None PROVE (screen \o pending) \o out \in Seq(Sent)
      BY <1>1, <3>1, <3>2, QueueTypes
    <3>3. QED
      BY <1>1, <2>3, <3>2
  <2>5. out' = out \/ out' = <<>>
    BY <1>6 DEF Apply
  <2>6. pending' = pending \/ pending' = None
    BY <1>6 DEF Apply
  <2>7. QED
    BY <1>1, <1>6, <2>2, <2>4, <2>5, <2>6 DEF Apply, Ranges
<1>7. CASE ToggleWrap
  <2>1. changes' \in 0..MaxChange
    BY <1>7, MobileTerminalAssumption DEF ToggleWrap, MayChange, Ranges
  <2>2. QED
    BY <1>1, <1>7, <2>1 DEF ToggleWrap, Rebuild, Unaffected, Ranges
<1>8. CASE Dispose
  BY <1>8, <1>1, MobileTerminalAssumption DEF Dispose, Ranges
<1>9. ASSUME NEW c \in Socket, Joins(c) PROVE Ranges'
  <2>1. Frame("replay", produced) \in Incoming
    BY <1>1, FrameTypes
  <2>2. inbox' \in [Socket -> Seq(Incoming)]
    BY <1>1, <1>9, <2>1, QueueTypes DEF Joins
  <2>3. QED
    BY <1>9, <2>2 DEF Joins, Ranges, Incoming
<1>10. ASSUME NEW c \in Socket, Ends(c) PROVE Ranges'
  <2>1. Frame("end", 0) \in Incoming
    BY FrameTypes
  <2>2. inbox' \in [Socket -> Seq(Incoming)]
    BY <1>1, <1>10, <2>1, QueueTypes DEF Ends
  <2>3. QED
    BY <1>10, <2>2 DEF Ends, Ranges, Incoming
<1>11. ASSUME NEW c \in Socket, Listen(c) PROVE Ranges'
  <2>1. inbox[c] \in Seq(Incoming) /\ inbox[c] # <<>> /\ Head(inbox[c]) \in Incoming
    BY <1>1, <1>11, QueueTypes DEF Listen
  <2>2. inbox' \in [Socket -> Seq(Incoming)]
    BY <1>1, <1>11, <2>1, FrameTypes, QueueTypes DEF Listen
  <2>3. CASE UNCHANGED tab
    BY <1>11, <2>2, <2>3 DEF Listen, Ranges, Incoming
  <2> DEFINE f == Head(inbox[c])
  <2>4. CASE f.t = "replay" /\ OnReplay(f)
    <3>1. f \in Sent /\ Len(<<f>>) = 1 /\ 1 <= HistoryLimit
      BY <2>1, <2>4, FrameTypes, MobileTerminalAssumption
    <3>2. <<f>> \in Seq(Sent)
      BY <3>1, QueueTypes
    <3>3. QED
      BY <1>1, <1>11, <2>2, <2>4, <3>1, <3>2 DEF Listen, OnReplay, Ranges, Incoming
  <2>5. CASE f.t = "out" /\ OnOut(f)
    <3>1. f \in Sent
      BY <2>1, <2>5, FrameTypes
    <3>2. CASE received
      BY <1>11, <2>2, <2>5, <3>1, <3>2, KeepsTypes DEF Listen, OnOut, Ranges, Incoming
    <3>3. CASE ~received
      BY <1>11, <2>2, <2>5, <3>3 DEF Listen, OnOut, Ranges, Incoming
    <3>4. QED
      BY <3>2, <3>3
  <2>6. CASE f.t = "exit" /\ OnExit(f)
    <3>1. f \in Sent
      BY <2>1, <2>6, FrameTypes
    <3>2. QED
      BY <1>11, <2>2, <2>6, <3>1, KeepsTypes DEF Listen, OnExit, Ranges, Incoming
  <2>7. CASE f.t = "end" /\ OnEnd
    BY <1>1, <1>11, <2>2, <2>7 DEF Listen, OnEnd, ScheduleReconnect, Ranges, Incoming
  <2>8. QED
    BY <1>11, <2>3, <2>4, <2>5, <2>6, <2>7 DEF Listen
<1>12. ASSUME NEW f \in Fixed, SetColumns(f) PROVE Ranges'
  <2>1. changes' \in 0..MaxChange
    BY <1>12, MobileTerminalAssumption DEF SetColumns, MayChange, Ranges
  <2>2. CASE wrap
    <3>1. lastSent' = lastSent \/ lastSent' = RemoteCols(width', fixed', wrap')
      BY <1>12, <2>2 DEF SetColumns, SendResize
    <3>2. width' \in Width /\ fixed' \in Fixed
      BY <1>12 DEF SetColumns, Ranges
    <3>3. lastSent' \in Width \cup Fixed \cup {None}
      BY <3>1, <3>2, RemoteColsType DEF Ranges
    <3>4. QED
      BY <1>12, <2>1, <2>2, <3>2, <3>3 DEF SetColumns, Unaffected, Ranges
  <2>3. CASE ~wrap
    BY <1>1, <1>12, <2>1, <2>3 DEF SetColumns, Rebuild, Unaffected, Ranges
  <2>4. QED
    BY <2>2, <2>3
<1>13. ASSUME NEW w \in Width, Layout(w) PROVE Ranges'
  <2>1. changes' \in 0..MaxChange
    BY <1>13, MobileTerminalAssumption DEF Layout, MayChange, Ranges
  <2>2. width' \in Width /\ fixed' \in Fixed
    BY <1>13 DEF Layout, Ranges
  <2>3. lastSent' = lastSent \/ lastSent' = RemoteCols(width', fixed', wrap')
    BY <1>13 DEF Layout, SendResize
  <2>4. lastSent' \in Width \cup Fixed \cup {None}
    BY <2>2, <2>3, RemoteColsType DEF Ranges
  <2>5. QED
    BY <1>13, <2>1, <2>2, <2>4 DEF Layout, Unaffected, Ranges
<1>14. QED
  BY <1>2, <1>3, <1>4, <1>5, <1>6, <1>7, <1>8, <1>9, <1>10, <1>11, <1>12, <1>13 DEF Next

-----------------------------------------------------------------------------
(* The socket that is heard *)

LEMMA NoneIsNoSocket == None \notin Socket
BY MobileTerminalAssumption DEF Socket

\* The history is never emptied by what it has to forget.
LEMMA RememberedSome ==
  ASSUME NEW h \in Seq(Sent), NEW f \in Sent, Len(h) <= HistoryLimit
  PROVE  /\ Remembered(Append(h, f)) # <<>>
         /\ Len(h) < HistoryLimit => Remembered(Append(h, f)) = Append(h, f)
         /\ Len(h) = HistoryLimit =>
              /\ Remembered(Append(h, f)) = Tail(Append(h, f))
              /\ Len(Remembered(Append(h, f))) = HistoryLimit
<1>1. HistoryLimit \in Nat \ {0}
  BY MobileTerminalAssumption
<1>2. Len(Append(h, f)) = Len(h) + 1 /\ Len(h) \in Nat /\ Append(h, f) \in Seq(Sent)
  OBVIOUS
<1>3. Len(h) >= 1 => Len(Tail(Append(h, f))) = Len(h) /\ Tail(Append(h, f)) # <<>>
  BY <1>2
<1>4. CASE Len(h) < HistoryLimit
  <2>1. ~(Len(Append(h, f)) > HistoryLimit) /\ Append(h, f) # <<>>
    BY <1>1, <1>2, <1>4
  <2>2. QED
    BY <1>1, <1>2, <1>4, <2>1 DEF Remembered
<1>5. CASE Len(h) = HistoryLimit
  <2>1. Len(Append(h, f)) > HistoryLimit
    BY <1>1, <1>2, <1>5
  <2>2. QED
    BY <1>1, <1>2, <1>3, <1>5, <2>1 DEF Remembered
<1>6. QED
  BY <1>1, <1>2, <1>4, <1>5

LEMMA OneSocketKept ==
  ASSUME TypeOK, Receiving, OneSocket, Next
  PROVE  OneSocket'
<1> USE DEF session, sockets, timers, applying, content, settings, tab
<1>1. CASE Emit
  BY <1>1, NoneIsNoSocket DEF Emit, Fan, Ranges, Receiving, OneSocket
<1>2. CASE Exit
  BY <1>2, NoneIsNoSocket DEF Exit, Fan, Ranges, Receiving, OneSocket
<1>3. CASE Connect
  <2>1. conns + 1 \in Socket
    BY <1>3, MobileTerminalAssumption DEF Connect, TypeOK, Ranges, Socket
  <2>2. cur = None
    BY <1>3 DEF Connect, Receiving, OneSocket
  <2>3. QED
    BY <1>3, <2>1, <2>2, NoneIsNoSocket DEF Connect, Receiving, OneSocket
<1>4. CASE ConnectThrows
  BY <1>4, NoneIsNoSocket DEF ConnectThrows, ScheduleReconnect, Ranges, Receiving, OneSocket
<1>5. CASE Apply
  BY <1>5, NoneIsNoSocket DEF Apply, SendResize, Ranges, Receiving, OneSocket
<1>6. CASE ToggleWrap
  BY <1>6, NoneIsNoSocket DEF ToggleWrap, MayChange, Rebuild, Unaffected, Ranges, Receiving, OneSocket
<1>7. CASE Dispose
  BY <1>7, NoneIsNoSocket DEF Dispose, Ranges, Receiving, OneSocket
<1>8. ASSUME NEW c \in Socket, Joins(c) PROVE OneSocket'
  BY <1>8, NoneIsNoSocket DEF Joins, Ranges, Receiving, OneSocket
<1>9. ASSUME NEW c \in Socket, Ends(c) PROVE OneSocket'
  BY <1>9, NoneIsNoSocket DEF Ends, Ranges, Receiving, OneSocket
<1>10. ASSUME NEW c \in Socket, Listen(c) PROVE OneSocket'
  BY <1>10, NoneIsNoSocket DEF Listen, OnReplay, OnOut, OnExit, OnEnd, Keeps, ScheduleReconnect, Ranges, Receiving, OneSocket
<1>11. ASSUME NEW f \in Fixed, SetColumns(f) PROVE OneSocket'
  BY <1>11, NoneIsNoSocket DEF SetColumns, MayChange, Rebuild, SendResize, Unaffected, Ranges, Receiving, OneSocket
<1>12. ASSUME NEW w \in Width, Layout(w) PROVE OneSocket'
  BY <1>12, NoneIsNoSocket DEF Layout, MayChange, SendResize, Unaffected, Ranges, Receiving, OneSocket
<1>13. QED
  BY <1>1, <1>2, <1>3, <1>4, <1>5, <1>6, <1>7, <1>8, <1>9, <1>10, <1>11, <1>12 DEF Next

LEMMA ReceivingKept ==
  ASSUME TypeOK, Receiving, OneSocket, Next
  PROVE  Receiving'
<1> USE DEF session, sockets, timers, applying, content, settings, tab
<1>1. CASE Emit
  BY <1>1, NoneIsNoSocket, MobileTerminalAssumption DEF Emit, Fan, Ranges, Receiving, OneSocket
<1>2. CASE Exit
  BY <1>2, NoneIsNoSocket, MobileTerminalAssumption DEF Exit, Fan, Ranges, Receiving, OneSocket
<1>3. CASE Connect
  BY <1>3, NoneIsNoSocket, MobileTerminalAssumption DEF Connect, Ranges, Receiving, OneSocket
<1>4. CASE ConnectThrows
  BY <1>4, NoneIsNoSocket, MobileTerminalAssumption DEF ConnectThrows, ScheduleReconnect, Ranges, Receiving, OneSocket
<1>5. CASE Apply
  BY <1>5, NoneIsNoSocket, MobileTerminalAssumption DEF Apply, SendResize, Ranges, Receiving, OneSocket
<1>6. CASE ToggleWrap
  BY <1>6, NoneIsNoSocket, MobileTerminalAssumption DEF ToggleWrap, MayChange, Rebuild, Unaffected, Ranges, Receiving, OneSocket
<1>7. CASE Dispose
  BY <1>7, NoneIsNoSocket, MobileTerminalAssumption DEF Dispose, Ranges, Receiving, OneSocket
<1>8. ASSUME NEW c \in Socket, Joins(c) PROVE Receiving'
  BY <1>8, NoneIsNoSocket, MobileTerminalAssumption DEF Joins, Ranges, Receiving, OneSocket
<1>9. ASSUME NEW c \in Socket, Ends(c) PROVE Receiving'
  BY <1>9, NoneIsNoSocket, MobileTerminalAssumption DEF Ends, Ranges, Receiving, OneSocket
<1>10. ASSUME NEW c \in Socket, Listen(c) PROVE Receiving'
  <2>1. CASE history' = history \/ ~received'
    BY <1>10, <2>1, NoneIsNoSocket DEF Listen, OnReplay, OnOut, OnExit, OnEnd, Keeps, ScheduleReconnect,
                                     Receiving, OneSocket
  <2>2. CASE history' # history /\ received'
    <3> DEFINE f == Head(inbox[c])
    <3>1. history' = <<f>> \/ (f \in Sent /\ history' = Remembered(Append(history, f)))
      <4>1. inbox[c] \in Seq(Incoming) /\ inbox[c] # <<>>
        BY <1>10 DEF Listen, TypeOK, Ranges, Incoming
      <4>2. f \in Incoming
        BY <4>1, QueueTypes
      <4>3. QED
        BY <1>10, <2>2, <4>2, FrameTypes DEF Listen, OnReplay, OnOut, OnExit, OnEnd, Keeps,
                                          ScheduleReconnect, content
    <3>2. history' # <<>>
      <4>1. <<f>> # <<>> /\ history \in Seq(Sent) /\ Len(history) <= HistoryLimit
        BY DEF TypeOK, Ranges
      <4>2. QED
        BY <3>1, <4>1, RememberedSome
    <3>3. QED
      BY <1>10, <3>2, NoneIsNoSocket DEF Listen, OnReplay, OnOut, OnExit, OnEnd, Keeps,
                                       ScheduleReconnect, Receiving, OneSocket
  <2>3. QED
    BY <2>1, <2>2
<1>11. ASSUME NEW f \in Fixed, SetColumns(f) PROVE Receiving'
  BY <1>11, NoneIsNoSocket, MobileTerminalAssumption DEF SetColumns, MayChange, Rebuild, SendResize, Unaffected, Ranges, Receiving, OneSocket
<1>12. ASSUME NEW w \in Width, Layout(w) PROVE Receiving'
  BY <1>12, NoneIsNoSocket, MobileTerminalAssumption DEF Layout, MayChange, SendResize, Unaffected, Ranges, Receiving, OneSocket
<1>13. QED
  BY <1>1, <1>2, <1>3, <1>4, <1>5, <1>6, <1>7, <1>8, <1>9, <1>10, <1>11, <1>12 DEF Next

LEMMA ReadyMeansLiveKept ==
  ASSUME TypeOK, Receiving, OneSocket, ReadyMeansLive, Next
  PROVE  ReadyMeansLive'
<1> USE DEF session, sockets, timers, applying, content, settings, tab
<1>1. CASE Emit
  BY <1>1, NoneIsNoSocket DEF Emit, Fan, Ranges, Receiving, OneSocket, ReadyMeansLive
<1>2. CASE Exit
  BY <1>2, NoneIsNoSocket DEF Exit, Fan, Ranges, Receiving, OneSocket, ReadyMeansLive
<1>3. CASE Connect
  BY <1>3, NoneIsNoSocket DEF Connect, Ranges, Receiving, OneSocket, ReadyMeansLive
<1>4. CASE ConnectThrows
  BY <1>4, NoneIsNoSocket DEF ConnectThrows, ScheduleReconnect, Ranges, Receiving, OneSocket, ReadyMeansLive
<1>5. CASE Apply
  BY <1>5, NoneIsNoSocket DEF Apply, SendResize, Ranges, Receiving, OneSocket, ReadyMeansLive
<1>6. CASE ToggleWrap
  BY <1>6, NoneIsNoSocket DEF ToggleWrap, MayChange, Rebuild, Unaffected, Ranges, Receiving, OneSocket, ReadyMeansLive
<1>7. CASE Dispose
  BY <1>7, NoneIsNoSocket DEF Dispose, Ranges, Receiving, OneSocket, ReadyMeansLive
<1>8. ASSUME NEW c \in Socket, Joins(c) PROVE ReadyMeansLive'
  BY <1>8, NoneIsNoSocket DEF Joins, Ranges, Receiving, OneSocket, ReadyMeansLive
<1>9. ASSUME NEW c \in Socket, Ends(c) PROVE ReadyMeansLive'
  BY <1>9, NoneIsNoSocket DEF Ends, Ranges, Receiving, OneSocket, ReadyMeansLive
<1>10. ASSUME NEW c \in Socket, Listen(c) PROVE ReadyMeansLive'
  BY <1>10, NoneIsNoSocket DEF Listen, OnReplay, OnOut, OnExit, OnEnd, Keeps, ScheduleReconnect, Ranges, Receiving, OneSocket, ReadyMeansLive
<1>11. ASSUME NEW f \in Fixed, SetColumns(f) PROVE ReadyMeansLive'
  BY <1>11, NoneIsNoSocket DEF SetColumns, MayChange, Rebuild, SendResize, Unaffected, Ranges, Receiving, OneSocket, ReadyMeansLive
<1>12. ASSUME NEW w \in Width, Layout(w) PROVE ReadyMeansLive'
  BY <1>12, NoneIsNoSocket DEF Layout, MayChange, SendResize, Unaffected, Ranges, Receiving, OneSocket, ReadyMeansLive
<1>13. QED
  BY <1>1, <1>2, <1>3, <1>4, <1>5, <1>6, <1>7, <1>8, <1>9, <1>10, <1>11, <1>12 DEF Next

-----------------------------------------------------------------------------
(* Sequences of frames *)

HasEnd(q) == \E i \in DOMAIN q : q[i].t \in {"end", "over"}
EndLast(q) == \A i \in 1..Len(q) : q[i].t \in {"end", "over"} => i = Len(q)
Content(q) == IF HasEnd(q) THEN Front(q) ELSE q

LEMMA EndAppend ==
  ASSUME NEW q \in Seq(Incoming), NEW f \in Incoming, ~HasEnd(q)
  PROVE  /\ EndLast(Append(q, f))
         /\ HasEnd(Append(q, f)) <=> f.t \in {"end", "over"}
         /\ Content(Append(q, f)) = IF f.t \in {"end", "over"} THEN q ELSE Append(q, f)
<1> DEFINE r == Append(q, f)
<1>1. /\ Len(r) = Len(q) + 1 /\ Len(q) \in Nat /\ DOMAIN q = 1..Len(q) /\ DOMAIN r = 1..Len(r)
      /\ \A i \in 1..Len(q) : r[i] = q[i] /\ q[i].t \notin {"end", "over"}
      /\ r[Len(r)] = f
  BY DEF HasEnd
<1>2. EndLast(r) /\ (HasEnd(r) <=> f.t \in {"end", "over"})
  BY <1>1 DEF EndLast, HasEnd
<1>3. Front(r) = q
  <2>1. r \in Seq(Incoming)
    OBVIOUS
  <2>2. Front(r) \in Seq(Incoming) /\ Len(Front(r)) = Len(q)
        /\ \A i \in 1..Len(q) : Front(r)[i] = r[i]
    BY <1>1, <2>1 DEF Front
  <2>3. QED
    BY <1>1, <2>2, SeqEqual
<1>4. QED
  BY <1>2, <1>3 DEF Content

LEMMA EndTail ==
  ASSUME NEW q \in Seq(Incoming), q # <<>>, EndLast(q)
  PROVE  /\ EndLast(Tail(q))
         /\ Head(q).t \in {"end", "over"} => HasEnd(q) /\ Content(q) = <<>>
         /\ Head(q).t \notin {"end", "over"} =>
              /\ HasEnd(Tail(q)) <=> HasEnd(q)
              /\ Content(q) # <<>> /\ Head(Content(q)) = Head(q)
              /\ Content(Tail(q)) = Tail(Content(q))
<1>1. /\ Len(q) \in Nat \ {0} /\ DOMAIN q = 1..Len(q) /\ Head(q) = q[1]
      /\ Tail(q) \in Seq(Incoming) /\ Len(Tail(q)) = Len(q) - 1
      /\ DOMAIN Tail(q) = 1..(Len(q) - 1)
      /\ \A i \in 1..(Len(q) - 1) : Tail(q)[i] = q[i + 1]
  OBVIOUS
<1>2. EndLast(Tail(q))
  <2> SUFFICES ASSUME NEW i \in 1..(Len(q) - 1), Tail(q)[i].t \in {"end", "over"}
               PROVE  i = Len(q) - 1
    BY <1>1 DEF EndLast
  <2>1. i + 1 \in 1..Len(q) /\ q[i + 1].t \in {"end", "over"}
    BY <1>1
  <2>2. i + 1 = Len(q)
    BY <2>1 DEF EndLast
  <2>3. Len(q) \in Nat
    BY <1>1
  <2>4. QED
    BY <2>2, <2>3
<1>3. CASE Head(q).t \in {"end", "over"}
  <2>1. Len(q) = 1 /\ HasEnd(q)
    <3>1. 1 \in 1..Len(q) /\ q[1].t \in {"end", "over"}
      BY <1>1, <1>3
    <3>2. QED
      BY <1>1, <3>1 DEF EndLast, HasEnd
  <2>2. Front(q) = <<>>
    BY <2>1 DEF Front
  <2>3. QED
    BY <1>2, <1>3, <2>1, <2>2 DEF Content
<1>4. CASE Head(q).t \notin {"end", "over"}
  <2>1. HasEnd(Tail(q)) <=> HasEnd(q)
    <3>1. ASSUME HasEnd(q) PROVE HasEnd(Tail(q))
      <4>1. PICK i \in 1..Len(q) : q[i].t \in {"end", "over"}
        BY <1>1, <3>1 DEF HasEnd
      <4>2. i # 1 /\ i - 1 \in 1..(Len(q) - 1) /\ Tail(q)[i - 1] = q[i]
        BY <1>1, <1>4, <4>1
      <4>3. QED
        BY <1>1, <4>1, <4>2 DEF HasEnd
    <3>2. ASSUME HasEnd(Tail(q)) PROVE HasEnd(q)
      BY <1>1, <3>2 DEF HasEnd
    <3>3. QED
      BY <3>1, <3>2
  <2>2. CASE ~HasEnd(q)
    BY <1>1, <1>2, <1>4, <2>1, <2>2 DEF Content
  <2>3. CASE HasEnd(q)
    <3>1. Len(q) >= 2
      <4>1. PICK i \in 1..Len(q) : q[i].t \in {"end", "over"}
        BY <1>1, <2>3 DEF HasEnd
      <4>2. i # 1
        BY <1>1, <1>4, <4>1
      <4>3. QED
        BY <1>1, <4>2
    <3>2. /\ Front(q) \in Seq(Incoming) /\ Len(Front(q)) = Len(q) - 1
          /\ \A i \in 1..(Len(q) - 1) : Front(q)[i] = q[i]
      BY <1>1, <3>1 DEF Front
    <3>3. /\ Front(Tail(q)) \in Seq(Incoming) /\ Len(Front(Tail(q))) = Len(q) - 2
          /\ \A i \in 1..(Len(q) - 2) : Front(Tail(q))[i] = q[i + 1]
      BY <1>1, <3>1 DEF Front
    <3>4. /\ Front(q) # <<>> /\ Head(Front(q)) = q[1]
          /\ Tail(Front(q)) \in Seq(Incoming) /\ Len(Tail(Front(q))) = Len(q) - 2
          /\ \A i \in 1..(Len(q) - 2) : Tail(Front(q))[i] = q[i + 1]
      <4> DEFINE p == Front(q)
      <4> HIDE DEF p
      <4>1. p \in Seq(Incoming) /\ Len(p) = Len(q) - 1 /\ Len(p) >= 1
            /\ \A i \in 1..(Len(q) - 1) : p[i] = q[i]
        BY <1>1, <3>1, <3>2 DEF p
      <4>2. /\ p # <<>> /\ Head(p) = p[1] /\ Tail(p) \in Seq(Incoming)
            /\ Len(Tail(p)) = Len(p) - 1
            /\ \A i \in 1..(Len(p) - 1) : Tail(p)[i] = p[i + 1]
        BY <4>1
      <4>3. ASSUME NEW i \in 1..(Len(q) - 2) PROVE Tail(p)[i] = q[i + 1]
        <5>1. i \in 1..(Len(p) - 1) /\ i + 1 \in 1..(Len(q) - 1)
          BY <1>1, <4>1
        <5>2. QED
          BY <4>1, <4>2, <5>1
      <4>4. 1 \in 1..(Len(q) - 1) /\ Len(p) - 1 = Len(q) - 2
        BY <1>1, <3>1, <4>1
      <4>5. QED
        BY <4>1, <4>2, <4>3, <4>4 DEF p
    <3>5. Front(Tail(q)) = Tail(Front(q))
      BY <3>3, <3>4, SeqEqual
    <3>6. QED
      BY <1>1, <1>2, <1>4, <2>1, <2>3, <3>4, <3>5 DEF Content
  <2>4. QED
    BY <2>2, <2>3
<1>5. QED
  BY <1>3, <1>4

LEMMA EndOnly ==
  LET q == <<Frame("over", 0)>> IN EndLast(q) /\ HasEnd(q) /\ Content(q) = <<>>
BY DEF EndLast, HasEnd, Content, Front, Frame

LEMMA ContentType ==
  ASSUME NEW q \in Seq(Incoming), EndLast(q)
  PROVE  Content(q) \in Seq(Sent)
<1>1. Len(q) \in Nat /\ DOMAIN q = 1..Len(q) /\ \A i \in 1..Len(q) : q[i] \in Incoming
  OBVIOUS
<1>2. CASE HasEnd(q)
  <2>1. Len(q) - 1 \in Nat /\ Content(q) = [i \in 1..(Len(q) - 1) |-> q[i]]
    BY <1>1, <1>2 DEF HasEnd, Content, Front
  <2>2. \A i \in 1..(Len(q) - 1) : q[i] \in Sent
    <3> SUFFICES ASSUME NEW i \in 1..(Len(q) - 1) PROVE q[i] \in Sent
      OBVIOUS
    <3>1. i \in 1..Len(q) /\ i # Len(q)
      <4>1. Len(q) \in Nat
        OBVIOUS
      <4>2. QED
        BY <4>1
    <3>2. q[i].t \notin {"end", "over"}
      BY <3>1 DEF EndLast
    <3>3. QED
      BY <1>1, <3>1, <3>2 DEF Incoming, Sent
  <2>3. QED
    BY <2>1, <2>2
<1>3. CASE ~HasEnd(q)
  <2>1. \A i \in 1..Len(q) : q[i] \in Sent
    BY <1>1, <1>3 DEF HasEnd, Incoming, Sent
  <2>2. QED
    BY <1>1, <1>3, <2>1 DEF Content
<1>4. QED
  BY <1>2, <1>3

\* The end of a sequence, by its positions.
Ending(h, q) ==
  Len(h) <= Len(q) /\ \A i \in 1..Len(h) : h[i] = q[Len(q) - Len(h) + i]

LEMMA SuffixIsEnding ==
  ASSUME NEW h \in Seq(Sent), NEW q \in Seq(Sent)
  PROVE  IsSuffix(h, q) <=> Ending(h, q)
<1>1. Len(h) \in Nat /\ Len(q) \in Nat
  OBVIOUS
<1>2. /\ Reverse(h) \in Seq(Sent) /\ Len(Reverse(h)) = Len(h)
      /\ \A i \in 1..Len(h) : Reverse(h)[i] = h[(Len(h) - i) + 1]
  BY <1>1 DEF Reverse
<1>3. /\ Reverse(q) \in Seq(Sent) /\ Len(Reverse(q)) = Len(q)
      /\ \A i \in 1..Len(q) : Reverse(q)[i] = q[(Len(q) - i) + 1]
  BY <1>1 DEF Reverse
<1>4. CASE Len(h) <= Len(q)
  <2> DEFINE a == SubSeq(Reverse(h), 1, Len(h))
             b == SubSeq(Reverse(q), 1, Len(h))
  <2>1. /\ a \in Seq(Sent) /\ Len(a) = Len(h)
        /\ \A i \in 1..Len(h) : a[i] = h[(Len(h) - i) + 1]
    <3> DEFINE p == Reverse(h)
    <3> HIDE DEF p
    <3>1. p \in Seq(Sent) /\ Len(p) = Len(h)
      BY <1>2 DEF p
    <3>2. SubSeq(p, 1, Len(p)) = p
      BY <3>1, SubSeqFull
    <3>3. QED
      BY <1>2, <3>1, <3>2 DEF p
  <2>2. /\ b \in Seq(Sent) /\ Len(b) = Len(h)
        /\ \A i \in 1..Len(h) : b[i] = q[(Len(q) - i) + 1]
    BY <1>1, <1>3, <1>4
  <2>3. a = b <=> \A i \in 1..Len(h) : h[(Len(h) - i) + 1] = q[(Len(q) - i) + 1]
    BY <2>1, <2>2, SeqEqual
  <2>4. (\A i \in 1..Len(h) : h[(Len(h) - i) + 1] = q[(Len(q) - i) + 1])
        <=> \A i \in 1..Len(h) : h[i] = q[Len(q) - Len(h) + i]
    <3>1. ASSUME \A i \in 1..Len(h) : h[(Len(h) - i) + 1] = q[(Len(q) - i) + 1],
                 NEW i \in 1..Len(h)
          PROVE  h[i] = q[Len(q) - Len(h) + i]
      <4>1. /\ (Len(h) - i) + 1 \in 1..Len(h) /\ (Len(h) - ((Len(h) - i) + 1)) + 1 = i
            /\ (Len(q) - ((Len(h) - i) + 1)) + 1 = Len(q) - Len(h) + i
        BY <1>1
      <4>2. QED
        BY <3>1, <4>1
    <3>2. ASSUME \A i \in 1..Len(h) : h[i] = q[Len(q) - Len(h) + i], NEW i \in 1..Len(h)
          PROVE  h[(Len(h) - i) + 1] = q[(Len(q) - i) + 1]
      <4>1. /\ (Len(h) - i) + 1 \in 1..Len(h)
            /\ Len(q) - Len(h) + ((Len(h) - i) + 1) = (Len(q) - i) + 1
        BY <1>1
      <4>2. QED
        BY <3>2, <4>1
    <3>3. QED
      BY <3>1, <3>2
  <2>5. QED
    BY <1>2, <1>3, <1>4, <2>3, <2>4 DEF IsSuffix, IsPrefix, Ending
<1>5. CASE ~(Len(h) <= Len(q))
  BY <1>2, <1>3, <1>5 DEF IsSuffix, IsPrefix, Ending
<1>6. QED
  BY <1>4, <1>5

LEMMA EndingAppend ==
  ASSUME NEW h \in Seq(Sent), NEW q \in Seq(Sent), Ending(h, q), NEW f \in Sent
  PROVE  Ending(Append(h, f), Append(q, f)) /\ Ending(Tail(Append(h, f)), Append(q, f))
<1> DEFINE a == Append(h, f)
           b == Append(q, f)
<1>1. Len(h) \in Nat /\ Len(q) \in Nat /\ Len(h) <= Len(q)
  BY DEF Ending
<1>2. /\ Len(a) = Len(h) + 1 /\ a \in Seq(Sent) /\ a # <<>> /\ a[Len(h) + 1] = f
      /\ \A i \in 1..Len(h) : a[i] = h[i]
  OBVIOUS
<1>3. /\ Len(b) = Len(q) + 1 /\ b[Len(q) + 1] = f /\ \A i \in 1..Len(q) : b[i] = q[i]
  OBVIOUS
<1> HIDE DEF a, b
<1>4. ASSUME NEW i \in 1..(Len(h) + 1) PROVE a[i] = b[Len(q) - Len(h) + i]
  <2>1. CASE i = Len(h) + 1
    <3>1. Len(q) - Len(h) + i = Len(q) + 1
      BY <1>1, <2>1
    <3>2. QED
      BY <1>2, <1>3, <2>1, <3>1
  <2>2. CASE i # Len(h) + 1
    <3>1. i \in 1..Len(h) /\ Len(q) - Len(h) + i \in 1..Len(q)
      BY <1>1, <2>2
    <3>2. h[i] = q[Len(q) - Len(h) + i]
      BY <3>1 DEF Ending
    <3>3. QED
      BY <1>2, <1>3, <3>1, <3>2
  <2>3. QED
    BY <2>1, <2>2
<1>5. Ending(a, b)
  <2>1. Len(a) <= Len(b) /\ Len(b) - Len(a) = Len(q) - Len(h)
    BY <1>1, <1>2, <1>3
  <2>2. QED
    BY <1>2, <1>4, <2>1 DEF Ending
<1>6. Len(Tail(a)) = Len(h) /\ \A i \in 1..Len(h) : Tail(a)[i] = a[i + 1]
  BY <1>1, <1>2
<1>7. ASSUME NEW i \in 1..Len(h) PROVE Tail(a)[i] = b[Len(b) - Len(h) + i]
  <2>1. i + 1 \in 1..(Len(h) + 1) /\ Len(q) - Len(h) + (i + 1) = Len(b) - Len(h) + i
    BY <1>1, <1>3
  <2>2. QED
    BY <1>4, <1>6, <2>1
<1>8. Ending(Tail(a), b)
  <2>1. Len(Tail(a)) <= Len(b)
    BY <1>1, <1>3, <1>6
  <2>2. QED
    BY <1>6, <1>7, <2>1 DEF Ending
<1>9. QED
  BY <1>5, <1>8 DEF a, b

\* Replacing what comes first by its end keeps the order and the last frame.
LEMMA FollowsEnding ==
  ASSUME NEW h \in Seq(Sent), NEW q \in Seq(Sent), NEW r \in Seq(Sent), Ending(h, q),
         Follows(q \o r)
  PROVE  Follows(h \o r) /\ (h \o r # <<>> => Last(h \o r) = Last(q \o r))
<1> DEFINE a == h \o r
           b == q \o r
           n == Len(q) - Len(h)
<1>1. /\ Len(h) \in Nat /\ Len(q) \in Nat /\ Len(r) \in Nat /\ n \in Nat
      /\ Len(a) = Len(h) + Len(r) /\ Len(b) = n + Len(a) /\ a \in Seq(Sent)
  BY DEF Ending
<1>2. \A i \in 1..Len(a) : a[i] = b[n + i]
  <2> SUFFICES ASSUME NEW i \in 1..Len(a) PROVE a[i] = b[n + i]
    OBVIOUS
  <2>1. CASE i \in 1..Len(h)
    <3>1. a[i] = h[i] /\ n + i \in 1..Len(q) /\ b[n + i] = q[n + i]
      BY <1>1, <2>1
    <3>2. QED
      BY <2>1, <3>1 DEF Ending
  <2>2. CASE i > Len(h)
    <3>1. a[i] = r[i - Len(h)]
      BY <1>1, <2>2
    <3>2. b[n + i] = r[n + i - Len(q)]
      BY <1>1, <2>2
    <3>3. n + i - Len(q) = i - Len(h)
      BY <1>1
    <3>4. QED
      BY <3>1, <3>2, <3>3
  <2>3. QED
    BY <1>1, <2>1, <2>2
<1>3. ASSUME NEW i \in 2..Len(a)
      PROVE  a[i].d = a[i - 1].d + (IF a[i].t = "out" THEN 1 ELSE 0)
  <2>1. /\ i \in 1..Len(a) /\ i - 1 \in 1..Len(a) /\ n + i \in 2..Len(b)
        /\ n + (i - 1) = (n + i) - 1
    BY <1>1
  <2>2. a[i] = b[n + i] /\ a[i - 1] = b[(n + i) - 1]
    BY <1>2, <2>1
  <2>3. b[n + i].d = b[(n + i) - 1].d + (IF b[n + i].t = "out" THEN 1 ELSE 0)
    BY <2>1 DEF Follows
  <2>4. QED
    BY <2>2, <2>3
<1>4. a # <<>> => Last(a) = Last(b)
  <2>1. a # <<>> => Len(a) \in 1..Len(a)
    BY <1>1
  <2>2. QED
    BY <1>1, <1>2, <2>1 DEF Last
<1>5. QED
  BY <1>3, <1>4 DEF Follows

\* A frame that continues the numbers goes to the end.
LEMMA FollowsAppend ==
  ASSUME NEW q \in Seq(Sent), NEW f \in Sent, Follows(q), q # <<>>,
         f.d = Last(q).d + (IF f.t = "out" THEN 1 ELSE 0)
  PROVE  Follows(Append(q, f)) /\ Append(q, f) # <<>> /\ Last(Append(q, f)) = f
<1> DEFINE r == Append(q, f)
<1>1. /\ Len(q) \in Nat \ {0} /\ Len(r) = Len(q) + 1 /\ r[Len(r)] = f
      /\ \A i \in 1..Len(q) : r[i] = q[i]
  OBVIOUS
<1>2. ASSUME NEW i \in 2..Len(r)
      PROVE  r[i].d = r[i - 1].d + (IF r[i].t = "out" THEN 1 ELSE 0)
  <2>1. CASE i \in 2..Len(q)
    BY <1>1, <2>1 DEF Follows
  <2>2. CASE i = Len(r)
    BY <1>1, <2>2 DEF Last
  <2>3. QED
    BY <1>1, <2>1, <2>2
<1>3. QED
  BY <1>1, <1>2 DEF Follows, Last

LEMMA Concatenations ==
  ASSUME NEW p \in Seq(Sent), NEW q \in Seq(Sent), NEW f \in Sent
  PROVE  /\ p \o Append(q, f) = Append(p \o q, f)
         /\ q # <<>> => Append(p, Head(q)) \o Tail(q) = p \o q
         /\ q # <<>> => <<Head(q)>> \o Tail(q) = q
         /\ p \o <<>> = p /\ <<>> \o p = p /\ p \o q \in Seq(Sent)
         /\ q # <<>> => p \o q # <<>>
<1>1. p \o Append(q, f) = Append(p \o q, f)
  OBVIOUS
<1>2. ASSUME q # <<>> PROVE Append(p, Head(q)) \o Tail(q) = p \o q
  <2>1. /\ Append(p, Head(q)) \o Tail(q) \in Seq(Sent) /\ p \o q \in Seq(Sent)
        /\ Len(Append(p, Head(q)) \o Tail(q)) = Len(p \o q)
    BY <1>2
  <2>2. \A i \in 1..Len(p \o q) : (Append(p, Head(q)) \o Tail(q))[i] = (p \o q)[i]
    BY <1>2
  <2>3. QED
    BY <2>1, <2>2, SeqEqual
<1>3. ASSUME q # <<>> PROVE <<Head(q)>> \o Tail(q) = q
  <2>1. <<Head(q)>> \o Tail(q) \in Seq(Sent) /\ Len(<<Head(q)>> \o Tail(q)) = Len(q)
    BY <1>3
  <2>2. \A i \in 1..Len(q) : (<<Head(q)>> \o Tail(q))[i] = q[i]
    BY <1>3
  <2>3. QED
    BY <2>1, <2>2, SeqEqual
<1>4. p \o <<>> = p /\ <<>> \o p = p /\ p \o q \in Seq(Sent)
  BY ConcatEmptySeq
<1>5. q # <<>> => p \o q # <<>>
  OBVIOUS
<1>6. QED
  BY <1>1, <1>2, <1>3, <1>4, <1>5

-----------------------------------------------------------------------------
(* The sockets *)

\* A frame for every socket that has joined.
LEMMA FanSockets ==
  ASSUME Ranges, Sockets, NEW f \in Sent, Fan(f)
  PROVE  \A c \in Socket :
           /\ EndLast(inbox'[c]) /\ (HasEnd(inbox'[c]) <=> HasEnd(inbox[c]))
           /\ c \in joined => Content(inbox'[c]) = Append(Content(inbox[c]), f)
           /\ c \notin joined => inbox'[c] = inbox[c]
<1> SUFFICES ASSUME NEW c \in Socket
             PROVE  /\ EndLast(inbox'[c]) /\ (HasEnd(inbox'[c]) <=> HasEnd(inbox[c]))
                    /\ c \in joined => Content(inbox'[c]) = Append(Content(inbox[c]), f)
                    /\ c \notin joined => inbox'[c] = inbox[c]
  OBVIOUS
<1>1. /\ inbox[c] \in Seq(Incoming) /\ EndLast(inbox[c]) /\ (c \in joined => ~HasEnd(inbox[c]))
      /\ f \in Incoming /\ f.t \notin {"end", "over"}
  BY DEF Ranges, Incoming, Sockets, EndLast, HasEnd, Over, Sent
<1>2. inbox'[c] = IF c \in joined THEN Append(inbox[c], f) ELSE inbox[c]
  BY DEF Fan
<1>3. CASE c \in joined
  BY <1>1, <1>2, <1>3, EndAppend DEF Content
<1>4. CASE c \notin joined
  BY <1>1, <1>2, <1>4
<1>5. QED
  BY <1>3, <1>4

LEMMA SocketsByContent ==
  Sockets <=>
    \A c \in Socket :
      /\ EndLast(inbox[c]) /\ (HasEnd(inbox[c]) => c \notin joined)
      /\ c \notin joined /\ ~HasEnd(inbox[c]) => inbox[c] = <<>> /\ (c = cur => ~received)
      /\ c > conns => c \notin joined /\ ~HasEnd(inbox[c])
BY DEF Sockets, EndLast, HasEnd, Over

LEMMA SocketsKept ==
  ASSUME TypeOK, Sockets, Next
  PROVE  Sockets'
<1> USE DEF session, sockets, timers, applying, content, settings, tab
<1>1. /\ \A c \in Socket : inbox[c] \in Seq(Incoming)
      /\ DOMAIN inbox = Socket /\ conns \in Socket /\ produced \in Nat
  BY DEF TypeOK, Ranges, Incoming
<1>2. \A c \in Socket :
        /\ EndLast(inbox[c]) /\ (HasEnd(inbox[c]) => c \notin joined)
        /\ c \notin joined /\ ~HasEnd(inbox[c]) => inbox[c] = <<>> /\ (c = cur => ~received)
        /\ c > conns => c \notin joined /\ ~HasEnd(inbox[c])
  BY SocketsByContent
<1> DEFINE Fine(c) ==
      /\ EndLast(inbox'[c]) /\ (HasEnd(inbox'[c]) => c \notin joined')
      /\ c \notin joined' /\ ~HasEnd(inbox'[c]) => inbox'[c] = <<>> /\ (c = cur' => ~received')
      /\ c > conns' => c \notin joined' /\ ~HasEnd(inbox'[c])
<1>3. ASSUME \A c \in Socket : Fine(c) PROVE Sockets'
  BY <1>3 DEF Sockets, EndLast, HasEnd, Over
<1> HIDE DEF Fine
<1>4. ASSUME NEW f \in Sent, Fan(f), UNCHANGED <<joined, conns, cur, received>>
      PROVE  \A c \in Socket : Fine(c)
  BY <1>2, <1>4, FanSockets DEF Fine, TypeOK
<1>5. ASSUME UNCHANGED <<inbox, joined>>, conns' = conns \/ (conns' = conns + 1 /\ cur' = conns'),
             (cur' = cur /\ received' = received) \/ ~received'
      PROVE  \A c \in Socket : Fine(c)
  BY <1>1, <1>2, <1>5 DEF Fine, Socket
<1>6. CASE Emit
  <2>1. Frame("out", produced') \in Sent
    BY <1>1, <1>6, FrameTypes DEF Emit
  <2>2. QED
    BY <1>3, <1>4, <1>6, <2>1 DEF Emit
<1>7. CASE Exit
  <2>1. Frame("exit", produced) \in Sent
    BY <1>1, FrameTypes
  <2>2. QED
    BY <1>3, <1>4, <1>7, <2>1 DEF Exit
<1>8. CASE Connect
  BY <1>3, <1>5, <1>8 DEF Connect
<1>9. CASE ConnectThrows
  BY <1>3, <1>5, <1>9 DEF ConnectThrows, ScheduleReconnect
<1>10. CASE Apply \/ ToggleWrap \/ Dispose
  BY <1>3, <1>5, <1>10 DEF Apply, ToggleWrap, Unaffected, Dispose
<1>11. ASSUME NEW f \in Fixed, SetColumns(f) PROVE Sockets'
  BY <1>3, <1>5, <1>11 DEF SetColumns, Unaffected
<1>12. ASSUME NEW w \in Width, Layout(w) PROVE Sockets'
  BY <1>3, <1>5, <1>12 DEF Layout, Unaffected
<1>13. ASSUME NEW c \in Socket, Joins(c) PROVE Sockets'
  <2>1. EndLast(<<Frame("replay", produced)>>) /\ ~HasEnd(<<Frame("replay", produced)>>)
    BY DEF EndLast, HasEnd, Frame
  <2>2. ASSUME NEW s \in Socket PROVE Fine(s)
    <3>1. CASE s = c
      BY <1>1, <1>13, <2>1, <3>1 DEF Fine, Joins, Socket
    <3>2. CASE s # c
      BY <1>1, <1>2, <1>13, <3>2 DEF Fine, Joins
    <3>3. QED
      BY <3>1, <3>2
  <2>3. QED
    BY <1>3, <2>2
<1>14. ASSUME NEW c \in Socket, Ends(c) PROVE Sockets'
  <2>1. /\ EndLast(Append(inbox[c], Frame("end", 0))) /\ HasEnd(Append(inbox[c], Frame("end", 0)))
    <3>1. ~HasEnd(inbox[c]) /\ Frame("end", 0).t = "end"
      BY <1>14 DEF Ends, Over, HasEnd, Frame
    <3>2. QED
      BY <1>1, <3>1, EndAppend, FrameTypes
  <2>2. ASSUME NEW s \in Socket PROVE Fine(s)
    <3>1. CASE s = c
      BY <1>1, <1>14, <2>1, <3>1 DEF Fine, Ends, Socket
    <3>2. CASE s # c
      BY <1>1, <1>2, <1>14, <3>2 DEF Fine, Ends
    <3>3. QED
      BY <3>1, <3>2
  <2>3. QED
    BY <1>3, <2>2
<1>15. ASSUME NEW c \in Socket, Listen(c) PROVE Sockets'
  <2>1. inbox[c] # <<>> /\ Head(inbox[c]).t # "over" /\ UNCHANGED <<joined, conns>>
    BY <1>15 DEF Listen, OnReplay, OnOut, OnExit, OnEnd, ScheduleReconnect
  <2>2. inbox' = [inbox EXCEPT ![c] = IF Head(inbox[c]).t = "end" THEN <<Frame("over", 0)>>
                                      ELSE Tail(inbox[c])]
    BY <1>15 DEF Listen
  <2>3. \/ cur' = cur /\ (received' = received \/ cur = c)
        \/ ~received'
    BY <1>15 DEF Listen, OnReplay, OnOut, OnExit, OnEnd, ScheduleReconnect
  <2>4. ASSUME NEW s \in Socket, s # c PROVE Fine(s)
    <3>1. inbox'[s] = inbox[s]
      BY <1>1, <2>2, <2>4
    <3>2. QED
      BY <1>2, <2>1, <2>3, <2>4, <3>1 DEF Fine
  <2>5. Fine(c)
    <3>1. CASE Head(inbox[c]).t = "end"
      <4>1. inbox'[c] = <<Frame("over", 0)>>
        BY <1>1, <2>2, <3>1
      <4>2. EndLast(inbox'[c]) /\ HasEnd(inbox'[c])
        BY <4>1, EndOnly
      <4>3. HasEnd(inbox[c])
        BY <1>1, <1>2, <2>1, <3>1, EndTail
      <4>4. QED
        BY <1>2, <2>1, <4>2, <4>3 DEF Fine
    <3>2. CASE Head(inbox[c]).t # "end"
      <4>1. inbox'[c] = Tail(inbox[c])
        BY <1>1, <2>2, <3>2
      <4>2. EndLast(inbox'[c]) /\ (HasEnd(inbox'[c]) <=> HasEnd(inbox[c]))
        BY <1>1, <1>2, <2>1, <3>2, <4>1, EndTail
      <4>3. QED
        BY <1>2, <2>1, <4>2 DEF Fine
    <3>3. QED
      BY <3>1, <3>2
  <2>6. QED
    BY <1>3, <2>4, <2>5
<1>16. QED
  BY <1>6, <1>7, <1>8, <1>9, <1>10, <1>11, <1>12, <1>13, <1>14, <1>15 DEF Next

-----------------------------------------------------------------------------
(* What is shown *)

LEMMA ShownParts ==
  ASSUME Ranges
  PROVE  /\ screen \in Seq(Sent) /\ out \in Seq(Sent) /\ history \in Seq(Sent)
         /\ (IF pending = None THEN <<>> ELSE pending) \in Seq(Sent) /\ Shown \in Seq(Sent)
<1>1. /\ screen \in Seq(Sent) /\ out \in Seq(Sent) /\ history \in Seq(Sent)
      /\ (IF pending = None THEN <<>> ELSE pending) \in Seq(Sent)
  BY DEF Ranges
<1>2. QED
  BY <1>1, QueueTypes DEF Shown

\* A frame that is kept is shown last, whether it has to wait for the replay or not.
LEMMA KeepsShown ==
  ASSUME Ranges, ReadyMeansLive, NEW f \in Sent, Keeps(f, ready), UNCHANGED pending
  PROVE  Shown' = Append(Shown, f) /\ history' = Remembered(Append(history, f))
<1> DEFINE p == IF pending = None THEN <<>> ELSE pending
<1>1. screen \in Seq(Sent) /\ out \in Seq(Sent) /\ p \in Seq(Sent) /\ <<>> \in Seq(Sent)
  BY ShownParts
<1>2. history' = Remembered(Append(history, f))
  BY DEF Keeps
<1>3. CASE ready
  <2>1. p = <<>> /\ out = <<>>
    BY <1>3 DEF ReadyMeansLive
  <2>2. screen' = Append(screen, f) /\ out' = out
    BY <1>3 DEF Keeps
  <2>3. screen \o p = screen /\ screen \o out = screen
    BY <1>1, <2>1, Concatenations
  <2>4. screen' \in Seq(Sent)
    BY <1>1, <2>2, QueueTypes
  <2>5. screen' \o p = screen' /\ screen' \o out = screen'
    BY <1>1, <2>1, <2>4, Concatenations
  <2>6. QED
    BY <1>2, <2>2, <2>3, <2>5 DEF Shown
<1>4. CASE ~ready
  <2>1. screen' = screen /\ out' = Append(out, f)
    BY <1>4 DEF Keeps
  <2> HIDE DEF p
  <2>2. screen \o p \in Seq(Sent)
    BY <1>1, QueueTypes
  <2>3. (screen \o p) \o Append(out, f) = Append((screen \o p) \o out, f)
    BY <1>1, <2>2, Concatenations
  <2>4. QED
    BY <1>2, <2>1, <2>3 DEF Shown, p
<1>5. QED
  BY <1>3, <1>4

\* A rebuild shows the history, the application of the replay what was shown.
LEMMA RebuildShown ==
  ASSUME Ranges, received, Rebuild, UNCHANGED history
  PROVE  Shown' = history
<1>1. /\ screen' = <<>> /\ pending' = history /\ out' = <<>>
      /\ history \in Seq(Sent) /\ history # None
  BY MobileTerminalAssumption, ShownParts DEF Rebuild
<1>2. <<>> \o history = history /\ history \o <<>> = history
  BY <1>1, ConcatEmptySeq
<1>3. QED
  BY <1>1, <1>2 DEF Shown

LEMMA ApplyShown ==
  ASSUME Ranges, Apply
  PROVE  Shown' = Shown
<1>1. CASE disposed \/ pending = None
  BY <1>1 DEF Apply, Shown
<1>2. CASE ~(disposed \/ pending = None)
  <2>1. screen' = Shown /\ pending' = None /\ out' = <<>>
    BY <1>2 DEF Apply, Shown
  <2>2. Shown \in Seq(Sent)
    BY ShownParts
  <2>3. (Shown \o <<>>) \o <<>> = Shown
    BY <2>2, ConcatEmptySeq
  <2>4. QED
    BY <2>1, <2>3 DEF Shown
<1>3. QED
  BY <1>1, <1>2

LEMMA ReplayShown ==
  ASSUME NEW f \in Sent, OnReplay(f)
  PROVE  Shown' = <<f>>
<1>1. screen' = <<>> /\ pending' = <<f>> /\ out' = <<>> /\ <<f>> \in Seq(Sent) /\ <<f>> # None
  <2>1. <<f>> \in Seq(Sent)
    OBVIOUS
  <2>2. QED
    BY <2>1, MobileTerminalAssumption DEF OnReplay
<1>2. <<>> \o <<f>> = <<f>> /\ <<f>> \o <<>> = <<f>>
  BY <1>1, ConcatEmptySeq
<1>3. QED
  BY <1>1, <1>2 DEF Shown

\* What a listener does when it is called by the socket that is heard.
LEMMA ListenCases ==
  ASSUME NEW c \in Socket, Listen(c), Ranges, Sockets
  PROVE  LET f == Head(inbox[c])
             q == inbox[c]
         IN  /\ q \in Seq(Incoming) /\ q # <<>> /\ UNCHANGED <<session>>
             /\ inbox' = [inbox EXCEPT ![c] = IF f.t = "end" THEN <<Frame("over", 0)>>
                                               ELSE Tail(q)]
             /\ \/ c # cur /\ UNCHANGED tab
                \/ /\ c = cur /\ f \in Sent
                   /\ \/ f.t = "replay" /\ OnReplay(f)
                      \/ f.t = "out" /\ OnOut(f)
                      \/ f.t = "exit" /\ OnExit(f)
                \/ c = cur /\ f.t = "end" /\ OnEnd
<1>1. inbox[c] \in Seq(Incoming) /\ inbox[c] # <<>>
  BY DEF Listen, Ranges, Incoming
<1>2. Head(inbox[c]).t \in {"replay", "out", "exit"} => Head(inbox[c]) \in Sent
  BY <1>1, QueueTypes, FrameTypes
<1>3. QED
  BY <1>1, <1>2 DEF Listen, Ranges, Incoming

\* How the history and what is shown change together.
LEMMA ContentSteps ==
  ASSUME TypeOK, Sockets, ReadyMeansLive, Next, received'
  PROVE  \/ received /\ history' = history /\ Shown' = Shown
         \/ received /\ history' = history /\ Shown' = history
         \/ \E f \in Sent : history' = <<f>> /\ Shown' = <<f>>
         \/ received /\ \E f \in Sent :
              history' = Remembered(Append(history, f)) /\ Shown' = Append(Shown, f)
<1> USE DEF session, sockets, timers, applying, content, settings, tab, TypeOK
<1>1. CASE Emit \/ Exit
  BY <1>1 DEF Emit, Exit, Shown
<1>2. CASE Connect \/ ConnectThrows \/ Dispose
  BY <1>2 DEF Connect, ConnectThrows, ScheduleReconnect, Dispose
<1>3. CASE Apply
  BY <1>3, ApplyShown DEF Apply
<1>4. CASE ToggleWrap
  BY <1>4, RebuildShown DEF ToggleWrap, Unaffected
<1>5. ASSUME NEW c \in Socket, Joins(c) \/ Ends(c) PROVE received /\ history' = history /\ Shown' = Shown
  BY <1>5 DEF Joins, Ends, Shown
<1>6. ASSUME NEW f \in Fixed, SetColumns(f)
      PROVE  received /\ history' = history /\ (Shown' = Shown \/ Shown' = history)
  BY <1>6, RebuildShown DEF SetColumns, Unaffected, Shown
<1>7. ASSUME NEW w \in Width, Layout(w) PROVE received /\ history' = history /\ Shown' = Shown
  BY <1>7 DEF Layout, Unaffected, Shown
<1>8. ASSUME NEW c \in Socket, Listen(c)
      PROVE  \/ received /\ history' = history /\ Shown' = Shown
             \/ \E f \in Sent : history' = <<f>> /\ Shown' = <<f>>
             \/ received /\ \E f \in Sent :
                  history' = Remembered(Append(history, f)) /\ Shown' = Append(Shown, f)
  <2> DEFINE f == Head(inbox[c])
  <2>1. CASE UNCHANGED tab
    BY <2>1 DEF Shown
  <2>2. CASE f \in Sent /\ OnReplay(f)
    BY <2>2, ReplayShown DEF OnReplay
  <2>3. CASE f \in Sent /\ OnOut(f)
    <3>1. received /\ Keeps(f, ready) /\ UNCHANGED pending
      BY <2>3 DEF OnOut
    <3>2. QED
      BY <2>3, <3>1, KeepsShown
  <2>4. CASE f \in Sent /\ OnExit(f)
    <3>1. received /\ UNCHANGED pending
      BY <2>4 DEF OnExit
    <3>2. Keeps(f, ready)
      BY <2>4, <3>1 DEF OnExit, Keeps
    <3>3. QED
      BY <2>4, <3>1, <3>2, KeepsShown
  <2>5. CASE OnEnd
    BY <2>5 DEF OnEnd, ScheduleReconnect, Shown
  <2>6. QED
    BY <1>8, <2>1, <2>2, <2>3, <2>4, <2>5, ListenCases
<1>9. QED
  BY <1>1, <1>2, <1>3, <1>4, <1>5, <1>6, <1>7, <1>8 DEF Next

LEMMA HistoryIsScreenKept ==
  ASSUME TypeOK, Sockets, Receiving, ReadyMeansLive, HistoryIsScreen, Next, TypeOK'
  PROVE  HistoryIsScreen'
<1> SUFFICES ASSUME received'
             PROVE  Ending(history', Shown') /\ (history' = Shown' \/ Len(history') = HistoryLimit)
  <2>1. Shown' \in Seq(Sent) /\ history' \in Seq(Sent)
    BY ShownParts DEF TypeOK, Ranges, Shown
  <2>2. QED
    BY <2>1, SuffixIsEnding DEF HistoryIsScreen
<1>1. Shown \in Seq(Sent) /\ history \in Seq(Sent) /\ Len(history) <= HistoryLimit
      /\ HistoryLimit \in Nat
  BY ShownParts, MobileTerminalAssumption DEF TypeOK, Ranges
<1>2. received => Ending(history, Shown) /\ (history = Shown \/ Len(history) = HistoryLimit)
  BY <1>1, SuffixIsEnding DEF HistoryIsScreen
<1>3. \A q \in Seq(Sent) : Ending(q, q)
  BY DEF Ending
<1>4. CASE received /\ history' = history /\ Shown' = Shown
  BY <1>2, <1>4
<1>5. CASE received /\ history' = history /\ Shown' = history
  BY <1>1, <1>3, <1>5
<1>6. ASSUME NEW f \in Sent, history' = <<f>>, Shown' = <<f>>
      PROVE  Ending(history', Shown') /\ history' = Shown'
  BY <1>3, <1>6, EmptySeq, QueueTypes
<1>7. ASSUME received, NEW f \in Sent, history' = Remembered(Append(history, f)),
             Shown' = Append(Shown, f)
      PROVE  Ending(history', Shown') /\ (history' = Shown' \/ Len(history') = HistoryLimit)
  <2>1. Len(history) \in Nat
    BY <1>1
  <2>2. CASE Len(history) < HistoryLimit
    <3>1. history' = Append(history, f) /\ history = Shown
      BY <1>1, <1>2, <1>7, <2>2, RememberedSome
    <3>2. QED
      BY <1>1, <1>2, <1>7, <3>1, EndingAppend
  <2>3. CASE Len(history) = HistoryLimit
    <3>1. history' = Tail(Append(history, f)) /\ Len(history') = HistoryLimit
      BY <1>1, <1>7, <2>3, RememberedSome
    <3>2. QED
      BY <1>1, <1>2, <1>7, <3>1, EndingAppend
  <2>4. QED
    BY <1>1, <2>1, <2>2, <2>3
<1>8. QED
  BY <1>4, <1>5, <1>6, <1>7, ContentSteps

-----------------------------------------------------------------------------
(* The stream *)

LEMMA HeardParts ==
  ASSUME TypeOK, Sockets, cur # None
  PROVE  /\ cur \in Socket /\ Shown \in Seq(Sent) /\ <<>> \in Seq(Sent)
         /\ Coming(cur) = Content(inbox[cur]) /\ Coming(cur) \in Seq(Sent)
         /\ inbox[cur] \in Seq(Incoming) /\ EndLast(inbox[cur])
<1>1. /\ cur \in Socket /\ Shown \in Seq(Sent) /\ inbox[cur] \in Seq(Incoming)
      /\ EndLast(inbox[cur])
  BY ShownParts, SocketsByContent DEF TypeOK, Ranges, Incoming
<1>2. Coming(cur) = Content(inbox[cur])
  BY DEF Coming, Content, Over, HasEnd
<1>3. QED
  BY <1>1, <1>2, ContentType, EmptySeq

\* Nothing that the screen or the socket has is moved.
LEMMA StreamQuiet ==
  ASSUME Stream, Heard' = Heard, Coming(cur)' = Coming(cur), cur' = cur, received' = received,
         produced' = produced, cur \in joined' => cur \in joined
  PROVE  Stream'
BY DEF Stream, Follows, Last

\* The session sends a frame that continues its numbers.
LEMMA StreamFan ==
  ASSUME TypeOK, Sockets, Stream, NEW f \in Sent, Fan(f),
         f.d = produced + (IF f.t = "out" THEN 1 ELSE 0), produced' = f.d,
         cur \in joined \/ produced' = produced \/ produced' = produced + 1,
         UNCHANGED <<joined, cur, received, screen, pending, out>>
  PROVE  Stream'
<1> SUFFICES ASSUME cur # None PROVE Stream'
  BY DEF Stream
<1> DEFINE p == IF received THEN Shown ELSE <<>>
           q == Coming(cur)
<1>1. p \in Seq(Sent) /\ q \in Seq(Sent) /\ cur \in Socket
  BY HeardParts
<1>2. Shown' = Shown /\ Coming(cur)' = Content(inbox'[cur])
  BY DEF Shown, Coming, Content, Over, HasEnd
<1>3. CASE cur \in joined
  <2>1. Coming(cur)' = Append(q, f)
    BY <1>1, <1>2, <1>3, FanSockets, HeardParts DEF TypeOK
  <2>2. Heard' = p \o Append(q, f) /\ Heard = p \o q
    BY <1>2, <2>1 DEF Heard
  <2>3. Follows(Heard) /\ Heard # <<>> /\ Last(Heard).d = produced
        /\ (~received /\ q # <<>> => Head(q).t = "replay")
    BY <1>3 DEF Stream
  <2> HIDE DEF p, q
  <2>4. Heard \in Seq(Sent) /\ Heard' = Append(Heard, f)
    BY <1>1, <2>2, Concatenations
  <2>5. Follows(Heard)' /\ Heard' # <<>> /\ Last(Heard') = f
    BY <2>3, <2>4, FollowsAppend DEF Follows
  <2>6. ~received => q # <<>> /\ Head(Append(q, f)) = Head(q)
    <3>1. ~received => p = <<>>
      BY DEF p
    <3>2. ~received => q # <<>>
      BY <1>1, <2>2, <2>3, <3>1
    <3>3. q # <<>> => Head(Append(q, f)) = Head(q)
      BY <1>1
    <3>4. QED
      BY <3>2, <3>3
  <2>7. QED
    BY <1>3, <2>1, <2>3, <2>5, <2>6 DEF Stream, Last
<1>4. CASE cur \notin joined
  <2>1. inbox'[cur] = inbox[cur]
    BY <1>1, <1>4, FanSockets DEF TypeOK
  <2>2. Coming(cur)' = Coming(cur)
    BY <1>2, <2>1, HeardParts
  <2>3. Heard' = Heard
    BY <1>2, <2>2 DEF Heard
  <2>4. QED
    BY <1>4, <2>2, <2>3 DEF Stream, Follows, Last
<1>5. QED
  BY <1>3, <1>4

\* What is shown is replaced by an end of it.
LEMMA StreamRebuild ==
  ASSUME TypeOK, Sockets, Stream, received, NEW h \in Seq(Sent), h # <<>>, Ending(h, Shown),
         Shown' = h, UNCHANGED <<inbox, cur, received, produced, joined>>
  PROVE  Stream'
<1> SUFFICES ASSUME cur # None PROVE Stream'
  BY DEF Stream
<1>1. Shown \in Seq(Sent) /\ Coming(cur) \in Seq(Sent)
  BY HeardParts
<1>2. Coming(cur)' = Coming(cur)
  BY DEF Coming, Over
<1>3. Heard = Shown \o Coming(cur) /\ Heard' = h \o Coming(cur)
  BY <1>2 DEF Heard
<1>4. h \o Coming(cur) # <<>>
  BY <1>1
<1>5. Follows(Heard') /\ Last(Heard') = Last(Heard)
  BY <1>1, <1>3, <1>4, FollowsEnding DEF Stream
<1>6. Follows(Heard)'
  BY <1>5 DEF Follows
<1>7. Last(Heard)' = Last(Heard')
  BY DEF Last
<1>8. cur' \in joined' => Last(Heard)'.d = produced'
  BY <1>5, <1>7 DEF Stream
<1>9. QED
  BY <1>3, <1>4, <1>6, <1>8 DEF Stream

\* The socket that is heard is read: a replay replaces what was shown, anything else is
\* shown after it.
LEMMA StreamListen ==
  ASSUME TypeOK, Sockets, Receiving, ReadyMeansLive, Stream, NEW c \in Socket, Listen(c)
  PROVE  Stream'
<1> DEFINE f == Head(inbox[c])
           q == inbox[c]
<1>1. /\ q \in Seq(Incoming) /\ q # <<>> /\ UNCHANGED <<produced, joined>>
      /\ inbox' = [inbox EXCEPT ![c] = IF f.t = "end" THEN <<Frame("over", 0)>> ELSE Tail(q)]
  BY ListenCases DEF TypeOK, session
<1>2. CASE c # cur /\ UNCHANGED tab
  <2>1. cur # None => inbox'[cur] = inbox[cur]
    BY <1>1, <1>2 DEF TypeOK, Ranges
  <2>2. cur # None => Coming(cur)' = Coming(cur) /\ Heard' = Heard
    BY <1>2, <2>1 DEF Coming, Over, Heard, Shown, tab, sockets, content, applying
  <2>3. QED
    BY <1>1, <1>2, <2>2 DEF Stream, Follows, Last, tab, sockets
<1>3. CASE c = cur /\ f \in Sent /\ ((f.t = "replay" /\ OnReplay(f)) \/ (f.t = "out" /\ OnOut(f))
                                      \/ (f.t = "exit" /\ OnExit(f)))
  <2> DEFINE s == Coming(cur)
  <2>1. cur # None /\ s \in Seq(Sent) /\ Shown \in Seq(Sent) /\ s = Content(q) /\ EndLast(q)
    <3>1. cur # None
      BY <1>3, NoneIsNoSocket
    <3>2. QED
      BY <1>3, <3>1, HeardParts
  <2>2. s # <<>> /\ Head(s) = f /\ Tail(s) \in Seq(Sent) /\ Coming(cur)' = Tail(s)
    <3>1. f.t \notin {"end", "over"}
      BY <1>3
    <3>2. s # <<>> /\ Head(s) = f /\ Content(Tail(q)) = Tail(s)
      BY <1>1, <2>1, <3>1, EndTail
    <3>3. cur' = cur /\ inbox'[cur] = Tail(q)
      BY <1>1, <1>3 DEF OnReplay, OnOut, OnExit, sockets, TypeOK, Ranges
    <3>4. Coming(cur)' = Content(inbox'[cur])
      BY <3>3 DEF Coming, Content, Over, HasEnd
    <3>5. QED
      BY <2>1, <3>2, <3>3, <3>4, QueueTypes
  <2>3. /\ Follows(Heard) /\ (cur \in joined => Last(Heard).d = produced)
        /\ (~received => Head(s).t = "replay")
    BY <2>1, <2>2 DEF Stream
  <2>4. /\ cur' = cur /\ received'
        /\ f.t = "replay" => Heard' = s
        /\ f.t # "replay" => received /\ Heard' = Heard
    <3>1. CASE f.t = "replay" /\ OnReplay(f)
      <4>1. Heard' = <<f>> \o Tail(s)
        BY <1>3, <2>2, <3>1, ReplayShown DEF Heard, OnReplay
      <4>2. <<f>> \o Tail(s) = s
        BY <2>1, <2>2, Concatenations
      <4>3. QED
        BY <3>1, <4>1, <4>2 DEF OnReplay, sockets
    <3>2. CASE f.t # "replay" /\ (OnOut(f) \/ OnExit(f))
      <4>1. received
        BY <2>2, <2>3, <3>2
      <4>2. Keeps(f, ready) /\ UNCHANGED <<pending, received, cur>>
        BY <3>2, <4>1 DEF OnOut, OnExit, Keeps, sockets
      <4>3. Shown' = Append(Shown, f)
        BY <1>3, <4>2, KeepsShown DEF TypeOK
      <4>4. Heard' = Append(Shown, f) \o Tail(s) /\ Heard = Shown \o s
        BY <2>2, <4>1, <4>2, <4>3 DEF Heard
      <4>5. Append(Shown, f) \o Tail(s) = Shown \o s
        BY <2>1, <2>2, Concatenations
      <4>6. QED
        BY <3>2, <4>1, <4>2, <4>4, <4>5
    <3>3. QED
      BY <1>3, <3>1, <3>2
  <2>5. Follows(Heard') /\ Heard' # <<>> /\ Last(Heard') = Last(Heard)
    <3>1. CASE f.t = "replay"
      <4> DEFINE p == IF received THEN Shown ELSE <<>>
      <4>1. p \in Seq(Sent) /\ Heard = p \o s /\ <<>> \in Seq(Sent) /\ Ending(<<>>, p)
        BY <2>1, EmptySeq DEF Heard, Ending
      <4> HIDE DEF p
      <4>2. <<>> \o s = s
        BY <2>1, ConcatEmptySeq
      <4>3. Follows(<<>> \o s) /\ Last(<<>> \o s) = Last(p \o s)
        BY <2>1, <2>2, <2>3, <4>1, <4>2, FollowsEnding
      <4>4. QED
        BY <2>2, <2>4, <3>1, <4>1, <4>2, <4>3
    <3>2. CASE f.t # "replay"
      <4>1. Heard = Shown \o s
        BY <2>4, <3>2 DEF Heard
      <4>2. Heard # <<>>
        BY <2>1, <2>2, <4>1, Concatenations
      <4>3. QED
        BY <2>3, <2>4, <3>2, <4>2
    <3>3. QED
      BY <3>1, <3>2
  <2>6. Follows(Heard)' /\ Last(Heard)' = Last(Heard')
    BY <2>5 DEF Follows, Last
  <2>7. QED
    BY <1>1, <2>3, <2>4, <2>5, <2>6 DEF Stream
<1>4. CASE c = cur /\ f.t = "end" /\ OnEnd
  <2>1. CASE state # "closed"
    BY <1>4, <2>1 DEF OnEnd, ScheduleReconnect, Stream
  <2>2. CASE UNCHANGED tab
    <3>1. cur # None /\ Coming(cur) = Content(q) /\ EndLast(q)
      <4>1. cur # None
        BY <1>4, NoneIsNoSocket
      <4>2. QED
        BY <1>4, <4>1, HeardParts
    <3>2. Coming(cur) = <<>>
      BY <1>1, <1>4, <3>1, EndTail
    <3>3. inbox'[cur] = <<Frame("over", 0)>> /\ cur' = cur
      BY <1>1, <1>4, <2>2 DEF TypeOK, Ranges, tab, sockets
    <3>4. Coming(cur)' = Content(inbox'[cur])
      BY <3>3 DEF Coming, Content, Over, HasEnd
    <3>5. Coming(cur)' = Coming(cur)
      BY <3>2, <3>3, <3>4, EndOnly
    <3>6. Heard' = Heard
      BY <2>2, <3>5 DEF Heard, Shown, tab, content, applying
    <3>7. QED
      BY <1>1, <2>2, <3>5, <3>6, StreamQuiet DEF tab, sockets
  <2>3. QED
    BY <1>4, <2>1, <2>2 DEF OnEnd
<1>5. \/ c # cur /\ UNCHANGED tab
      \/ c = cur /\ f \in Sent /\ ((f.t = "replay" /\ OnReplay(f)) \/ (f.t = "out" /\ OnOut(f))
                                   \/ (f.t = "exit" /\ OnExit(f)))
      \/ c = cur /\ f.t = "end" /\ OnEnd
  <2>1. Ranges
    BY DEF TypeOK
  <2> HIDE DEF f, q
  <2>2. QED
    BY <2>1, ListenCases DEF f, q
<1>6. QED
  BY <1>2, <1>3, <1>4, <1>5

LEMMA StreamKept ==
  ASSUME TypeOK, Sockets, Receiving, ReadyMeansLive, HistoryIsScreen, Stream, Next
  PROVE  Stream'
<1> USE DEF session, sockets, timers, applying, content, settings, tab
<1>1. CASE Emit
  <2>1. produced \in Nat /\ produced' = produced + 1
    BY <1>1 DEF Emit, TypeOK, Ranges
  <2>2. /\ Frame("out", produced + 1) \in Sent /\ Frame("out", produced + 1).d = produced + 1
        /\ Frame("out", produced + 1).t = "out"
    BY <2>1, FrameTypes DEF Frame
  <2>3. QED
    BY <1>1, <2>1, <2>2, StreamFan DEF Emit
<1>2. CASE Exit
  <2>1. produced \in Nat /\ produced' = produced
    BY <1>2 DEF Exit, TypeOK, Ranges
  <2>2. /\ Frame("exit", produced) \in Sent /\ Frame("exit", produced).d = produced
        /\ Frame("exit", produced).t = "exit"
    BY <2>1, FrameTypes DEF Frame
  <2>3. QED
    BY <1>2, <2>1, <2>2, StreamFan DEF Exit
<1>3. CASE Connect
  <2>1. cur' \in Socket /\ cur' > conns
    BY <1>3, MobileTerminalAssumption DEF Connect, TypeOK, Ranges, Socket
  <2>2. cur' \notin joined /\ inbox[cur'] = <<>> /\ ~Over(cur')
    BY <2>1 DEF Sockets
  <2>3. Coming(cur)' = <<>> /\ ~received' /\ cur' \notin joined'
    BY <1>3, <2>2 DEF Connect, Coming, Over
  <2>4. Heard' = <<>>
    BY <2>3, ConcatEmptySeq, EmptySeq DEF Heard
  <2>5. Follows(Heard)'
    BY <2>4 DEF Follows
  <2>6. QED
    BY <2>3, <2>5 DEF Stream
<1>4. CASE ConnectThrows \/ Dispose
  BY <1>4 DEF ConnectThrows, ScheduleReconnect, Dispose, Stream
<1>5. ASSUME UNCHANGED <<inbox, cur, received, produced, joined>>, Shown' = Shown PROVE Stream'
  <2>1. Coming(cur)' = Coming(cur)
    BY <1>5 DEF Coming, Over
  <2>2. Heard' = Heard
    BY <1>5, <2>1 DEF Heard
  <2>3. QED
    BY <1>5, <2>1, <2>2, StreamQuiet
<1>6. CASE Apply
  BY <1>5, <1>6, ApplyShown DEF Apply, TypeOK
<1>7. ASSUME Rebuild, UNCHANGED <<inbox, cur, received, produced, joined, history>> PROVE Stream'
  <2>1. CASE received
    <3>1. history \in Seq(Sent) /\ history # <<>> /\ Ending(history, Shown)
      BY <2>1, ShownParts, SuffixIsEnding DEF HistoryIsScreen, Receiving, TypeOK
    <3>2. Shown' = history
      BY <1>7, <2>1, RebuildShown DEF TypeOK
    <3>3. QED
      BY <1>7, <2>1, <3>1, <3>2, StreamRebuild
  <2>2. CASE ~received
    BY <1>5, <1>7, <2>2 DEF Rebuild, Shown
  <2>3. QED
    BY <2>1, <2>2
<1>8. CASE ToggleWrap
  BY <1>7, <1>8 DEF ToggleWrap, Unaffected
<1>9. ASSUME NEW f \in Fixed, SetColumns(f) PROVE Stream'
  <2>1. CASE wrap
    BY <1>5, <1>9, <2>1 DEF SetColumns, Unaffected, Shown
  <2>2. CASE ~wrap
    BY <1>7, <1>9, <2>2 DEF SetColumns, Unaffected
  <2>3. QED
    BY <2>1, <2>2
<1>10. ASSUME NEW w \in Width, Layout(w) PROVE Stream'
  BY <1>5, <1>10 DEF Layout, Unaffected, Shown
<1>11. ASSUME NEW c \in Socket, Joins(c) PROVE Stream'
  <2>1. CASE c = cur
    <3>1. ~received /\ ~Over(c) /\ inbox'[c] = <<Frame("replay", produced)>>
      BY <1>11, <2>1 DEF Joins, Sockets, Over, TypeOK, Ranges
    <3>2. /\ Coming(cur)' = <<Frame("replay", produced)>> /\ ~received' /\ cur' = cur
          /\ produced' = produced
      BY <1>11, <2>1, <3>1 DEF Joins, Coming, Over, Frame
    <3>3. <<Frame("replay", produced)>> \in Seq(Sent)
      <4>1. Frame("replay", produced) \in Sent
        BY FrameTypes DEF TypeOK, Ranges
      <4>2. QED
        BY <4>1
    <3>4. Heard' = <<Frame("replay", produced)>>
      BY <3>2, <3>3, ConcatEmptySeq DEF Heard
    <3>5. Follows(Heard)' /\ Heard' # <<>> /\ Last(Heard)'.d = produced
      BY <3>4 DEF Follows, Last, Frame
    <3>6. Head(Coming(cur)').t = "replay"
      BY <3>2 DEF Frame
    <3>7. QED
      BY <3>2, <3>5, <3>6 DEF Stream
  <2>2. CASE c # cur
    <3>1. cur # None => inbox'[cur] = inbox[cur]
      BY <1>11, <2>2 DEF Joins, TypeOK, Ranges
    <3>2. cur # None => Coming(cur)' = Coming(cur) /\ Heard' = Heard
      <4>1. cur' = cur /\ Shown' = Shown /\ received' = received
        BY <1>11 DEF Joins, Shown
      <4>2. cur # None => Coming(cur)' = Coming(cur)
        BY <3>1, <4>1 DEF Coming, Over
      <4>3. QED
        BY <4>1, <4>2 DEF Heard
    <3>3. QED
      BY <1>11, <2>2, <3>2 DEF Joins, Stream, Follows, Last
  <2>3. QED
    BY <2>1, <2>2
<1>12. ASSUME NEW c \in Socket, Ends(c) PROVE Stream'
  <2>1. cur # None => Coming(cur)' = Coming(cur)
    <3>1. CASE c = cur
      <4>1. ~HasEnd(inbox[c]) /\ inbox[c] \in Seq(Incoming)
        BY <1>12 DEF Ends, Over, HasEnd, TypeOK, Ranges, Incoming
      <4>2. Content(Append(inbox[c], Frame("end", 0))) = inbox[c] /\ Content(inbox[c]) = inbox[c]
        <5>1. Frame("end", 0).t = "end"
          BY DEF Frame
        <5>2. QED
          BY <4>1, <5>1, EndAppend, FrameTypes DEF Content
      <4>3. inbox'[c] = Append(inbox[c], Frame("end", 0)) /\ cur' = cur
        BY <1>12 DEF Ends, TypeOK, Ranges
      <4>4. Coming(cur)' = Content(inbox'[cur]) /\ Coming(cur) = Content(inbox[cur])
        BY <4>3 DEF Coming, Content, Over, HasEnd
      <4>5. QED
        BY <3>1, <4>2, <4>3, <4>4
    <3>2. CASE c # cur
      <4>1. cur # None => inbox'[cur] = inbox[cur]
        BY <1>12, <3>2 DEF Ends, TypeOK, Ranges
      <4>2. cur' = cur
        BY <1>12 DEF Ends
      <4>3. QED
        BY <4>1, <4>2 DEF Coming, Over
    <3>3. QED
      BY <3>1, <3>2
  <2>2. cur # None => Heard' = Heard
    BY <1>12, <2>1 DEF Ends, Heard, Shown
  <2>3. QED
    BY <1>12, <2>1, <2>2 DEF Ends, Stream, Follows, Last
<1>13. ASSUME NEW c \in Socket, Listen(c) PROVE Stream'
  BY <1>13, StreamListen
<1>14. QED
  BY <1>1, <1>2, <1>3, <1>4, <1>6, <1>8, <1>9, <1>10, <1>11, <1>12, <1>13 DEF Next

-----------------------------------------------------------------------------
(* The theorems *)

LEMMA InitInv == Init => Inv
<1> SUFFICES ASSUME Init PROVE Inv
  OBVIOUS
<1>1. Flags
  BY DEF Init, Flags
<1>2. Ranges
  <2>1. 1 \in Socket /\ 0 \in 0..MaxOut /\ 0 \in 0..MaxChange /\ 0 <= HistoryLimit
    BY MobileTerminalAssumption DEF Socket
  <2>2. inbox \in [Socket -> Seq(Incoming)]
    BY EmptySeq DEF Init
  <2>3. history \in Seq(Sent) /\ screen \in Seq(Sent) /\ out \in Seq(Sent) /\ Len(history) = 0
    BY EmptySeq DEF Init
  <2>4. QED
    BY <2>1, <2>2, <2>3 DEF Init, Ranges, Incoming
<1>3. \A c \in Socket : inbox[c] = <<>>
  BY DEF Init
<1>4. Sockets
  BY <1>3 DEF Init, Sockets, Over
<1>5. Receiving /\ OneSocket
  BY NoneIsNoSocket, MobileTerminalAssumption DEF Init, Receiving, OneSocket, Socket
<1>6. ReadyMeansLive /\ HistoryIsScreen
  BY DEF Init, ReadyMeansLive, HistoryIsScreen
<1>7. Stream
  <2>1. Coming(1) = <<>>
    BY <1>3, MobileTerminalAssumption DEF Coming, Over, Socket
  <2>2. Coming(cur) = <<>> /\ ~received /\ joined = {}
    BY <2>1 DEF Init
  <2>3. Heard = <<>>
    BY <2>2, ConcatEmptySeq, EmptySeq DEF Heard
  <2>4. QED
    BY <2>2, <2>3 DEF Stream, Follows
<1>8. QED
  BY <1>1, <1>2, <1>4, <1>5, <1>6, <1>7 DEF Inv, TypeOK

LEMMA StutterInv == ASSUME Inv, UNCHANGED vars PROVE Inv'
<1> USE DEF vars, session, sockets, timers, applying, content, settings
<1>1. Flags' /\ Ranges'
  BY DEF Inv, TypeOK, Flags, Ranges
<1>2. Sockets' /\ Receiving' /\ OneSocket'
  BY DEF Inv, Sockets, Over, Receiving, OneSocket
<1>3. ReadyMeansLive' /\ HistoryIsScreen'
  BY DEF Inv, ReadyMeansLive, RemoteCols, HistoryIsScreen, Shown
<1>4. Coming(cur)' = Coming(cur) /\ Heard' = Heard
  BY DEF Coming, Over, Heard, Shown
<1>5. Stream'
  BY <1>4, StreamQuiet DEF Inv
<1>6. QED
  BY <1>1, <1>2, <1>3, <1>5 DEF Inv, TypeOK

\* The inductive invariant: the types, one socket, and one stream of outputs through it.
THEOREM Invariance == Spec => []Inv
<1>1. ASSUME Inv, Next PROVE Inv'
  <2> USE <1>1 DEF Inv
  <2>1. TypeOK'
    BY FlagsKept, RangesKept DEF TypeOK
  <2>2. Sockets' /\ Receiving' /\ OneSocket' /\ ReadyMeansLive'
    BY SocketsKept, ReceivingKept, OneSocketKept, ReadyMeansLiveKept
  <2>3. HistoryIsScreen' /\ Stream'
    BY <2>1, HistoryIsScreenKept, StreamKept
  <2>4. QED
    BY <2>1, <2>2, <2>3
<1>2. QED
  BY InitInv, <1>1, StutterInv, PTL DEF Spec

\* Every variable of a tab keeps its type, and the history its limit
\* (_appendRenderHistory, terminal_session.dart).
THEOREM TypeCorrect == Spec => []TypeOK
BY Invariance, PTL DEF Inv

\* A tab never has two sockets, and never neither a socket nor a timer that will open one
\* (_scheduleReconnect, dispose and _onDone, terminal_session.dart).
THEOREM OneAtATime == Spec => []OneSocket
BY Invariance, PTL DEF Inv

\* Input is passed on only over a live connection whose replay was applied, and whose size
\* is the one last sent (_applyPendingReplay and _sendResize, terminal_session.dart).
THEOREM ReadyIsLive == Spec => []ReadyMeansLive
BY Invariance, PTL DEF Inv

\* The history, however often it was cut at its limit, is the end of what is shown
\* (_rebuildTerminalFromHistory, terminal_session.dart).
THEOREM HistoryKept == Spec => []HistoryIsScreen
BY Invariance, PTL DEF Inv

\* Reconnections, rebuilds and frames of old sockets neither repeat nor lose an output
\* (_onMessage, terminal_session.dart).
THEOREM GapFree == Spec => []NoGapNoDuplicate
<1>1. Inv => NoGapNoDuplicate
  <2> SUFFICES ASSUME Inv, received PROVE NoGapNoDuplicate
    BY DEF NoGapNoDuplicate
  <2>1. cur # None /\ Heard = Shown \o Coming(cur)
    BY DEF Inv, Receiving, Heard
  <2>2. QED
    BY <2>1 DEF Inv, Stream, NoGapNoDuplicate
<1>2. QED
  BY <1>1, Invariance, PTL

-----------------------------------------------------------------------------
(* What a tab does no more *)

\* A replay is the first frame of its socket, and it is there only before it was received.
OneReplay ==
  \A c \in Socket : \A i \in 1..Len(inbox[c]) :
    inbox[c][i].t = "replay" => i = 1 /\ (c = cur => ~received)

\* Only a tab that was given its replay sees the exit frame.
ClosedHeard == state = "closed" /\ ~disposed => received

LEMMA ReplayAppend ==
  ASSUME NEW q \in Seq(Incoming), NEW f \in Incoming, f.t # "replay",
         NEW B \in BOOLEAN, \A i \in 1..Len(q) : q[i].t = "replay" => i = 1 /\ B
  PROVE  \A i \in 1..Len(Append(q, f)) : Append(q, f)[i].t = "replay" => i = 1 /\ B
<1>1. Len(Append(q, f)) = Len(q) + 1 /\ Len(q) \in Nat /\ Append(q, f)[Len(q) + 1] = f
  OBVIOUS
<1>2. \A i \in 1..Len(q) : Append(q, f)[i] = q[i]
  OBVIOUS
<1>3. ASSUME NEW i \in 1..(Len(q) + 1), i # Len(q) + 1 PROVE i \in 1..Len(q)
  BY <1>1, <1>3
<1>4. QED
  BY <1>1, <1>2, <1>3

LEMMA ReplayTail ==
  ASSUME NEW q \in Seq(Incoming), q # <<>>,
         \A i \in 1..Len(q) : q[i].t = "replay" => i = 1
  PROVE  \A i \in 1..Len(Tail(q)) : Tail(q)[i].t # "replay"
<1> SUFFICES ASSUME NEW i \in 1..Len(Tail(q)) PROVE Tail(q)[i].t # "replay"
  OBVIOUS
<1>1. Len(q) \in Nat /\ Len(Tail(q)) = Len(q) - 1 /\ Tail(q)[i] = q[i + 1]
  OBVIOUS
<1>2. i + 1 \in 1..Len(q) /\ i + 1 # 1
  BY <1>1
<1>3. QED
  BY <1>1, <1>2

\* The frames that every subscriber is sent are no replays.
LEMMA FanReplay ==
  ASSUME TypeOK, OneReplay, NEW f \in Incoming, f.t # "replay", Fan(f),
         UNCHANGED <<cur, received>>
  PROVE  OneReplay'
<1> SUFFICES ASSUME NEW c \in Socket
             PROVE  \A i \in 1..Len(inbox'[c]) :
                      inbox'[c][i].t = "replay" => i = 1 /\ (c = cur => ~received)
  BY DEF OneReplay
<1> DEFINE B == c = cur => ~received
<1>1. inbox[c] \in Seq(Incoming) /\ \A i \in 1..Len(inbox[c]) : inbox[c][i].t = "replay" => i = 1 /\ B
  BY DEF OneReplay, TypeOK, Ranges, Incoming
<1>2. inbox'[c] = inbox[c] \/ inbox'[c] = Append(inbox[c], f)
  BY DEF Fan
<1>3. B \in BOOLEAN
  OBVIOUS
<1> HIDE DEF B
<1>4. \A i \in 1..Len(inbox'[c]) : inbox'[c][i].t = "replay" => i = 1 /\ B
  BY <1>1, <1>2, <1>3, ReplayAppend
<1>5. QED
  BY <1>4 DEF B

LEMMA OneReplayKept ==
  ASSUME TypeOK, Sockets, OneReplay, Next
  PROVE  OneReplay'
<1> USE DEF session, sockets, timers, applying, content, settings, tab
<1>1. \A c \in Socket : inbox[c] \in Seq(Incoming)
  BY DEF TypeOK, Ranges, Incoming
<1>2. DOMAIN inbox = Socket
  BY DEF TypeOK, Ranges
<1>3. ASSUME UNCHANGED inbox, (cur' = cur /\ received' = received) \/ ~received' PROVE OneReplay'
  BY <1>3 DEF OneReplay
<1>4. CASE Emit
  <2>1. Frame("out", produced') \in Incoming /\ Frame("out", produced').t # "replay"
    <3>1. produced' \in Nat
      BY <1>4 DEF Emit, TypeOK, Ranges
    <3>2. QED
      BY <3>1, FrameTypes DEF Frame
  <2>2. QED
    BY <1>4, <2>1, FanReplay DEF Emit
<1>5. CASE Exit
  <2>1. Frame("exit", produced) \in Incoming /\ Frame("exit", produced).t # "replay"
    BY FrameTypes DEF Frame, TypeOK, Ranges
  <2>2. QED
    BY <1>5, <2>1, FanReplay DEF Exit
<1>6. CASE Connect \/ ConnectThrows
  BY <1>3, <1>6 DEF Connect, ConnectThrows, ScheduleReconnect
<1>7. CASE Apply \/ ToggleWrap \/ Dispose
  BY <1>3, <1>7 DEF Apply, ToggleWrap, Unaffected, Dispose
<1>8. ASSUME NEW f \in Fixed, SetColumns(f) PROVE OneReplay'
  BY <1>3, <1>8 DEF SetColumns, Unaffected
<1>9. ASSUME NEW w \in Width, Layout(w) PROVE OneReplay'
  BY <1>3, <1>9 DEF Layout, Unaffected
<1>10. ASSUME NEW c \in Socket, Joins(c) PROVE OneReplay'
  <2>1. c = cur => ~received
    BY <1>10 DEF Joins, Sockets, Over
  <2>2. inbox'[c] = <<Frame("replay", produced)>> /\ UNCHANGED <<cur, received>>
    BY <1>2, <1>10 DEF Joins
  <2>3. Len(inbox'[c]) = 1
    BY <2>2
  <2>4. \A s \in Socket : s # c => inbox'[s] = inbox[s]
    BY <1>2, <1>10 DEF Joins
  <2>5. QED
    BY <2>1, <2>2, <2>3, <2>4 DEF OneReplay
<1>11. ASSUME NEW c \in Socket, Ends(c) PROVE OneReplay'
  <2> DEFINE B == c = cur => ~received
  <2>1. inbox'[c] = Append(inbox[c], Frame("end", 0)) /\ UNCHANGED <<cur, received>>
    BY <1>2, <1>11 DEF Ends
  <2>2. B \in BOOLEAN /\ \A i \in 1..Len(inbox[c]) : inbox[c][i].t = "replay" => i = 1 /\ B
    BY DEF OneReplay
  <2>3. Frame("end", 0) \in Incoming /\ Frame("end", 0).t # "replay"
    BY FrameTypes DEF Frame
  <2> HIDE DEF B
  <2>4. \A i \in 1..Len(inbox'[c]) : inbox'[c][i].t = "replay" => i = 1 /\ B
    BY <1>1, <2>1, <2>2, <2>3, ReplayAppend
  <2>5. \A s \in Socket : s # c => inbox'[s] = inbox[s]
    BY <1>2, <1>11 DEF Ends
  <2>6. QED
    BY <2>1, <2>4, <2>5 DEF OneReplay, B
<1>12. ASSUME NEW c \in Socket, Listen(c) PROVE OneReplay'
  <2>1. /\ inbox[c] # <<>>
        /\ inbox'[c] = <<Frame("over", 0)>> \/ inbox'[c] = Tail(inbox[c])
        /\ \A s \in Socket : s # c => inbox'[s] = inbox[s]
    BY <1>2, <1>12 DEF Listen
  <2>2. \A i \in 1..Len(inbox'[c]) : inbox'[c][i].t # "replay"
    <3>1. CASE inbox'[c] = <<Frame("over", 0)>>
      BY <3>1 DEF Frame
    <3>2. CASE inbox'[c] = Tail(inbox[c])
      BY <1>1, <2>1, <3>2, ReplayTail DEF OneReplay
    <3>3. QED
      BY <2>1, <3>1, <3>2
  <2>3. c # cur => cur' = cur /\ received' = received
    BY <1>12 DEF Listen
  <2>4. c = cur => cur' = cur \/ cur' = None
    BY <1>12 DEF Listen, OnReplay, OnOut, OnExit, OnEnd, ScheduleReconnect
  <2>5. ASSUME NEW s \in Socket, s # c, s = cur' PROVE cur' = cur /\ received' = received
    BY <2>3, <2>4, <2>5, NoneIsNoSocket
  <2>6. ASSUME NEW s \in Socket, s # c
        PROVE  \A i \in 1..Len(inbox'[s]) :
                 inbox'[s][i].t = "replay" => i = 1 /\ (s = cur' => ~received')
    BY <2>1, <2>5, <2>6 DEF OneReplay
  <2>7. QED
    BY <2>2, <2>6 DEF OneReplay
<1>13. QED
  BY <1>4, <1>5, <1>6, <1>7, <1>8, <1>9, <1>10, <1>11, <1>12 DEF Next

\* The first frame of the socket that is heard is its replay, so an exit frame comes later.
LEMMA ExitAfterReplay ==
  ASSUME Inv, cur # None, inbox[cur] # <<>>, Head(inbox[cur]).t = "exit"
  PROVE  received
<1>1. /\ Coming(cur) = Content(inbox[cur]) /\ inbox[cur] \in Seq(Incoming)
      /\ EndLast(inbox[cur])
  BY HeardParts DEF Inv
<1>2. Coming(cur) # <<>> /\ Head(Coming(cur)) = Head(inbox[cur])
  BY <1>1, EndTail
<1>3. QED
  BY <1>2 DEF Inv, Stream

LEMMA ClosedHeardKept ==
  ASSUME Inv, ClosedHeard, Next
  PROVE  ClosedHeard'
<1> USE DEF session, sockets, timers, applying, content, settings, tab
<1>1. CASE Emit \/ Exit
  BY <1>1 DEF Emit, Exit, ClosedHeard
<1>2. CASE Connect \/ ConnectThrows \/ Dispose
  BY <1>2 DEF Connect, ConnectThrows, ScheduleReconnect, Dispose, ClosedHeard
<1>3. CASE Apply \/ ToggleWrap
  BY <1>3 DEF Apply, ToggleWrap, Unaffected, ClosedHeard
<1>4. ASSUME NEW f \in Fixed, SetColumns(f) PROVE ClosedHeard'
  BY <1>4 DEF SetColumns, Unaffected, ClosedHeard
<1>5. ASSUME NEW w \in Width, Layout(w) PROVE ClosedHeard'
  BY <1>5 DEF Layout, Unaffected, ClosedHeard
<1>6. ASSUME NEW c \in Socket, Joins(c) \/ Ends(c) PROVE ClosedHeard'
  BY <1>6 DEF Joins, Ends, ClosedHeard
<1>7. ASSUME NEW c \in Socket, Listen(c) PROVE ClosedHeard'
  <2> DEFINE f == Head(inbox[c])
  <2>1. CASE c = cur /\ f.t = "exit" /\ OnExit(f)
    <3>1. received
      BY <1>7, <2>1, NoneIsNoSocket, ExitAfterReplay DEF Listen
    <3>2. QED
      BY <2>1, <3>1 DEF OnExit, ClosedHeard
  <2>2. CASE UNCHANGED tab
    BY <2>2 DEF ClosedHeard
  <2>3. CASE OnReplay(f) \/ OnOut(f) \/ OnEnd
    BY <2>3 DEF OnReplay, OnOut, OnEnd, ScheduleReconnect, ClosedHeard
  <2>4. QED
    BY <1>7, <2>1, <2>2, <2>3 DEF Listen
<1>8. QED
  BY <1>1, <1>2, <1>3, <1>4, <1>5, <1>6, <1>7 DEF Next

\* A listener leaves alone a tab that was disposed of, and one that saw the exit frame
\* gets neither a replay nor a new socket from it.
LEMMA ListenDown ==
  ASSUME Inv, OneReplay, ClosedHeard, NEW c \in Socket, Listen(c)
  PROVE  /\ disposed => UNCHANGED tab
         /\ state = "closed" => state' = "closed" /\ UNCHANGED <<conns, retry>>
<1> USE DEF sockets, timers, applying, content, settings, tab
<1> DEFINE f == Head(inbox[c])
<1>1. c # cur => UNCHANGED tab
  BY DEF Listen
<1>2. c = cur => ~disposed
  BY NoneIsNoSocket DEF Inv, OneSocket
<1>3. ASSUME c = cur, state = "closed" PROVE f.t # "replay"
  <2>1. received
    BY <1>2, <1>3 DEF ClosedHeard
  <2>2. inbox[c] \in Seq(Incoming) /\ inbox[c] # <<>>
    BY DEF Listen, Inv, TypeOK, Ranges, Incoming
  <2>3. 1 \in 1..Len(inbox[c]) /\ f = inbox[c][1]
    BY <2>2
  <2>4. QED
    BY <1>3, <2>1, <2>3 DEF OneReplay
<1>4. ASSUME c = cur, state = "closed" PROVE state' = "closed" /\ UNCHANGED <<conns, retry>>
  <2>1. OnOut(f) \/ OnExit(f) \/ OnEnd
    BY <1>3, <1>4 DEF Listen
  <2> HIDE DEF f
  <2>2. QED
    BY <1>4, <2>1 DEF OnOut, OnExit, OnEnd
<1>5. QED
  BY <1>1, <1>2, <1>4

LEMMA DownStep ==
  ASSUME Inv, OneReplay, ClosedHeard, [Next]_vars
  PROVE  /\ disposed => UNCHANGED <<sockets, state, disposed, timers, ready, received, pending,
                                    out, content, settings, lastSent>>
         /\ state = "closed" => state' = "closed" /\ UNCHANGED conns /\ ~retry'
<1> USE DEF session, sockets, timers, applying, content, settings, tab
<1>1. /\ disposed => cur = None /\ ~retry
      /\ state = "closed" => ~retry
  BY DEF Inv, OneSocket
<1> DEFINE Down ==
      /\ disposed => UNCHANGED <<sockets, state, disposed, timers, ready, received, pending,
                                 out, content, settings, lastSent>>
      /\ state = "closed" => state' = "closed" /\ UNCHANGED conns /\ ~retry'
<1>2. CASE Emit \/ Exit
  BY <1>1, <1>2 DEF Emit, Exit
<1>3. CASE Connect \/ ConnectThrows
  BY <1>1, <1>3 DEF Connect, ConnectThrows
<1>4. CASE Apply
  BY <1>1, <1>4 DEF Apply
<1>5. CASE ToggleWrap
  BY <1>1, <1>5 DEF ToggleWrap, MayChange, Unaffected
<1>6. CASE Dispose
  BY <1>1, <1>6 DEF Dispose
<1>7. ASSUME NEW f \in Fixed, SetColumns(f) PROVE Down
  BY <1>1, <1>7 DEF SetColumns, MayChange, Unaffected
<1>8. ASSUME NEW w \in Width, Layout(w) PROVE Down
  BY <1>1, <1>8 DEF Layout, MayChange, Unaffected
<1>9. ASSUME NEW c \in Socket, Joins(c) \/ Ends(c) PROVE Down
  BY <1>1, <1>9 DEF Joins, Ends
<1>10. ASSUME NEW c \in Socket, Listen(c) PROVE Down
  <2>1. /\ disposed => UNCHANGED tab
        /\ state = "closed" => state' = "closed" /\ UNCHANGED <<conns, retry>>
    BY <1>10, ListenDown
  <2>2. QED
    BY <1>1, <2>1
<1>11. CASE UNCHANGED vars
  BY <1>1, <1>11 DEF vars
<1>12. QED
  BY <1>2, <1>3, <1>4, <1>5, <1>6, <1>7, <1>8, <1>9, <1>10, <1>11 DEF Next

\* Nothing that is still on its way moves a tab that was disposed of, or brings back to life
\* one that saw the exit frame (dispose, _onMessage and _onDone, terminal_session.dart).
THEOREM DownForGood == Spec => StaysDown
<1> DEFINE Known == Inv /\ OneReplay /\ ClosedHeard
<1>1. Init => Known
  <2>1. Init => OneReplay
    <3>1. Init => \A c \in Socket : inbox[c] = <<>>
      BY DEF Init
    <3>2. QED
      BY <3>1 DEF OneReplay
  <2>2. Init => ClosedHeard
    BY DEF Init, ClosedHeard
  <2>3. QED
    BY <2>1, <2>2, InitInv
<1>2. Inv /\ Inv' /\ OneReplay /\ ClosedHeard /\ [Next]_vars => OneReplay' /\ ClosedHeard'
  <2> SUFFICES ASSUME Inv, OneReplay, ClosedHeard, [Next]_vars PROVE OneReplay' /\ ClosedHeard'
    OBVIOUS
  <2>1. CASE Next
    BY <2>1, OneReplayKept, ClosedHeardKept DEF Inv
  <2>2. CASE UNCHANGED vars
    BY <2>2 DEF vars, session, sockets, OneReplay, ClosedHeard
  <2>3. QED
    BY <2>1, <2>2
<1>3. Known /\ [Next]_vars =>
        /\ disposed => UNCHANGED <<sockets, state, disposed, timers, ready, received, pending,
                                   out, content, settings, lastSent>>
        /\ state = "closed" => state' = "closed" /\ UNCHANGED conns /\ ~retry'
  BY DownStep
<1>4. QED
  BY <1>1, <1>2, <1>3, Invariance, PTL DEF Spec, StaysDown
=============================================================================
