--------------------------- MODULE MobileTerminal ---------------------------
(***************************************************************************)
(* One terminal tab of the mobile app: the class TerminalSession of        *)
(* mobile/lib/terminal/terminal_session.dart with its sockets and timers.  *)
(*                                                                         *)
(* Dart runs one callback at a time, so each callback is one step.  What   *)
(* the relay sends and how a socket ends comes from outside.  Outputs are  *)
(* numbered; a replay bears the number of the last output it contains, an  *)
(* exit frame that of the last output before it.  A listener is heard only *)
(* while its generation is _channelGen: cur is the socket that is heard,   *)
(* None if there is none.  In the same way due says that an application of *)
(* the replay is scheduled for the present terminal.  Rows are treated as  *)
(* the columns are, and are left out, as are pong and error frames, which  *)
(* change nothing, and the length of the waits between two attempts.       *)
(***************************************************************************)
EXTENDS Integers, Sequences, SequencesExt

CONSTANTS
  None,
  Width, Fixed, \* columns the view may have, and the setting of the columns
  PowerShell,   \* whether the session's shell is one
  HistoryLimit, \* _renderHistoryLimitBytes, in chunks
  MaxConn, MaxOut, MaxChange, MaxWire  \* bounds: sockets, outputs, changes by the user,
                                       \* frames under way in a socket

\* What a session sends, by number; "end" and "over" stand for the end of a socket.
Sent == [t : {"replay", "out", "exit"}, d : Nat]

ASSUME MobileTerminalAssumption ==
  /\ Width \subseteq Nat /\ Fixed \subseteq Nat /\ PowerShell \in BOOLEAN
  /\ None \notin Nat /\ None \notin Seq(Sent)
  /\ HistoryLimit \in Nat \ {0} /\ {MaxConn, MaxOut, MaxChange, MaxWire} \subseteq Nat \ {0}

Socket == 1..MaxConn

VARIABLES
  produced, exited, joined,   \* the session at the relay, the sockets subscribed to it
  inbox,                      \* per socket, what its listener will be called with
  conns, open, cur,           \* sockets there were, those not closed here, the one heard
  state, disposed,
  retry, pinging,             \* _retryTimer, _pingTimer
  ready, received,            \* _connectionReady, _receivedReplay
  pending, out, due,          \* _pendingReplay, _pendingOut, their application
  history, screen,            \* _renderHistory, what _terminal was given
  width, wrap, fixed, lastSent,  \* the view, the settings, _lastSentCols
  changes

session  == <<produced, exited, joined>>
sockets  == <<conns, open, cur>>
timers   == <<retry, pinging>>
applying == <<pending, out, due>>
content  == <<history, screen>>
settings == <<width, wrap, fixed, changes>>
vars == <<session, inbox, sockets, state, disposed, timers, ready, received, applying, content,
          settings, lastSent>>
tab  == <<sockets, state, disposed, timers, ready, received, applying, content, settings, lastSent>>

Frame(t, d) == [t |-> t, d |-> d]

\* The constructor, with its _connect.
Init ==
  /\ produced = 0 /\ exited = FALSE /\ joined = {}
  /\ inbox = [c \in Socket |-> <<>>]
  /\ conns = 1 /\ open = {1} /\ cur = 1
  /\ state = "connecting" /\ disposed = FALSE /\ retry = FALSE /\ pinging = FALSE
  /\ ready = FALSE /\ received = FALSE
  /\ pending = None /\ out = <<>> /\ due = FALSE
  /\ history = <<>> /\ screen = <<>>
  /\ width \in Width /\ wrap \in BOOLEAN /\ fixed \in Fixed /\ lastSent = None /\ changes = 0

-----------------------------------------------------------------------------
\* The relay: a socket that joins gets a replay, then every output, then the exit frame.
Over(c) == \E i \in DOMAIN inbox[c] : inbox[c][i].t \in {"end", "over"}
Room(c) == Len(inbox[c]) < MaxWire
Fan(f) == inbox' = [c \in Socket |-> IF c \in joined THEN Append(inbox[c], f) ELSE inbox[c]]

Joins(c) ==
  /\ c = conns /\ c \notin joined /\ inbox[c] = <<>> /\ ~exited
  /\ joined' = joined \cup {c}
  /\ inbox' = [inbox EXCEPT ![c] = <<Frame("replay", produced)>>]
  /\ UNCHANGED <<produced, exited, tab>>

Emit ==
  /\ produced < MaxOut /\ ~exited /\ \A c \in joined : Room(c)
  /\ produced' = produced + 1 /\ Fan(Frame("out", produced'))
  /\ UNCHANGED <<exited, joined, tab>>

Exit ==
  /\ ~exited /\ exited' = TRUE
  /\ Fan(Frame("exit", produced))
  /\ UNCHANGED <<produced, joined, tab>>

\* A socket ends, by an error or not, or could not be opened.
Ends(c) ==
  /\ c <= conns /\ (c \in joined \/ c = cur) /\ ~Over(c)
  /\ joined' = joined \ {c}
  /\ inbox' = [inbox EXCEPT ![c] = Append(@, Frame("end", 0))]
  /\ UNCHANGED <<produced, exited, tab>>

-----------------------------------------------------------------------------
\* remoteColsFor, and _sendResize: once it is ready, a size other than the last one.
RemoteCols(visible, pinned, wraps) ==
  IF ~wraps THEN pinned ELSE IF PowerShell /\ visible < pinned THEN pinned ELSE visible
SendResize(isReady) == lastSent' = IF isReady THEN RemoteCols(width', fixed', wrap') ELSE lastSent

\* _appendRenderHistory: beyond the limit the oldest chunks go.
Remembered(h) == IF Len(h) > HistoryLimit THEN Tail(h) ELSE h

\* _scheduleReconnect, unless the state is closed.
ReconnectKeep ==  \* mutant: leaves the old socket to its fate
  /\ cur' = None /\ state' = "reconnecting" /\ retry' = TRUE /\ pinging' = FALSE
  /\ ready' = FALSE /\ received' = FALSE /\ pending' = None /\ out' = <<>>
  /\ UNCHANGED <<conns, open, disposed, due, content, settings, lastSent>>
ReconnectOnce ==  \* mutant: an attempt that fails at once is the last
  /\ cur' = None /\ open' = open \ {cur} /\ state' = "reconnecting"
  /\ retry' = ~retry /\ pinging' = FALSE /\ ready' = FALSE /\ received' = FALSE
  /\ pending' = None /\ out' = <<>>
  /\ UNCHANGED <<conns, disposed, due, content, settings, lastSent>>
ReconnectHalf ==  \* mutant: keeps the flag
  /\ cur' = None /\ open' = open \ {cur} /\ state' = "reconnecting" /\ retry' = TRUE
  /\ pinging' = FALSE /\ received' = FALSE /\ pending' = None /\ out' = <<>>
  /\ UNCHANGED <<conns, ready, disposed, due, content, settings, lastSent>>
ScheduleReconnect ==
  /\ cur' = None /\ open' = open \ {cur} /\ state' = "reconnecting"
  /\ retry' = TRUE /\ pinging' = FALSE /\ ready' = FALSE /\ received' = FALSE
  /\ pending' = None /\ out' = <<>>
  /\ UNCHANGED <<conns, disposed, due, content, settings, lastSent>>

\* The timer fires: _connect opens a socket and listens, or throws.
Connect ==
  /\ retry /\ ~disposed /\ conns < MaxConn
  /\ retry' = FALSE
  /\ conns' = conns + 1 /\ cur' = conns' /\ open' = open \cup {conns'}
  /\ state' = "connecting" /\ ready' = FALSE /\ received' = FALSE /\ pending' = None /\ out' = <<>>
  /\ UNCHANGED <<session, inbox, disposed, pinging, due, content, settings, lastSent>>

ConnectThrows ==
  /\ retry /\ ~disposed
  /\ ScheduleReconnect
  /\ UNCHANGED <<session, inbox>>

-----------------------------------------------------------------------------
\* _onMessage.  A new terminal is to be given the replay once it is laid out.
OnReplay(f) ==
  /\ screen' = <<>> /\ history' = <<f>> /\ received' = TRUE
  /\ pending' = <<f>> /\ out' = <<>> /\ ready' = FALSE /\ due' = TRUE
  /\ state' = "live"
  /\ UNCHANGED <<sockets, disposed, timers, settings, lastSent>>

Keeps(f, isDirect) ==
  /\ history' = Remembered(Append(history, f))
  /\ IF isDirect THEN screen' = Append(screen, f) /\ UNCHANGED out
                 ELSE out' = Append(out, f) /\ UNCHANGED screen

OnOutDirect(f) ==  \* mutant: does not wait for the replay
  /\ IF received THEN Keeps(f, TRUE) ELSE UNCHANGED <<history, screen, out>>
  /\ UNCHANGED <<sockets, state, disposed, timers, ready, received, pending, due, settings,
                 lastSent>>
OnOut(f) ==
  /\ IF received THEN Keeps(f, ready) ELSE UNCHANGED <<history, screen, out>>
  /\ UNCHANGED <<sockets, state, disposed, timers, ready, received, pending, due, settings,
                 lastSent>>

OnExit(f) ==
  /\ Keeps(f, ready \/ ~received)
  /\ ready' = FALSE /\ state' = "closed"
  /\ UNCHANGED <<sockets, disposed, timers, received, pending, due, settings, lastSent>>

OnEnd == IF state = "closed" THEN UNCHANGED tab ELSE ScheduleReconnect

\* A listener is called; one of an older generation does nothing.
Listen(c) ==
  /\ inbox[c] # <<>>
  /\ LET f == Head(inbox[c]) IN
       IF c # cur THEN UNCHANGED tab
       ELSE \/ f.t = "replay" /\ OnReplay(f)
            \/ f.t = "out" /\ OnOut(f)
            \/ f.t = "exit" /\ OnExit(f)
            \/ f.t = "end" /\ OnEnd
  /\ inbox' = [inbox EXCEPT ![c] = IF Head(@).t = "end" THEN <<Frame("over", 0)>> ELSE Tail(@)]
  /\ Head(inbox[c]).t # "over"
  /\ UNCHANGED session

\* _applyPendingReplay, two frames after it was scheduled: whenever they come.
Apply ==
  /\ due /\ due' = FALSE
  /\ UNCHANGED <<session, inbox, sockets, state, disposed, retry, received, history, settings>>
  /\ IF disposed \/ pending = None
       THEN UNCHANGED <<pending, out, screen, ready, pinging, lastSent>>
       ELSE /\ pending' = None /\ out' = <<>> /\ screen' = screen \o pending \o out
            /\ IF state = "closed" THEN UNCHANGED <<ready, pinging, lastSent>>
               ELSE ready' = TRUE /\ pinging' = TRUE /\ SendResize(TRUE)

-----------------------------------------------------------------------------
\* The user and the layout.
MayChange == ~disposed /\ changes < MaxChange /\ changes' = changes + 1

\* _rebuildTerminalFromHistory.
RebuildKeep ==  \* mutant: the outputs that wait are written after the history, too
  IF ~received THEN UNCHANGED <<screen, pending, out, ready, lastSent, due>>
  ELSE /\ screen' = <<>> /\ pending' = history /\ ready' = FALSE /\ lastSent' = None
       /\ due' = TRUE /\ UNCHANGED out
Rebuild ==
  IF ~received THEN UNCHANGED <<screen, applying, ready, lastSent>>
  ELSE /\ screen' = <<>> /\ pending' = history /\ out' = <<>>
       /\ ready' = FALSE /\ lastSent' = None /\ due' = TRUE

Unaffected == <<session, inbox, sockets, state, disposed, timers, received, history>>

ToggleWrap ==
  /\ MayChange /\ wrap' = ~wrap /\ Rebuild
  /\ UNCHANGED <<Unaffected, width, fixed>>

SetColumns(f) ==
  /\ MayChange /\ f # fixed /\ fixed' = f
  /\ UNCHANGED <<Unaffected, width, wrap>>
  /\ IF wrap THEN SendResize(ready) /\ UNCHANGED <<screen, applying, ready>> ELSE Rebuild

\* The view is laid out anew: onResize of the present terminal.
Layout(w) ==
  /\ MayChange /\ w # width /\ width' = w
  /\ UNCHANGED <<Unaffected, wrap, fixed, screen, applying, ready>>
  /\ SendResize(ready)

Dispose ==
  /\ ~disposed /\ disposed' = TRUE
  /\ cur' = None /\ open' = open \ {cur} /\ retry' = FALSE /\ pinging' = FALSE
  /\ ready' = FALSE /\ received' = FALSE /\ pending' = None /\ out' = <<>>
  /\ UNCHANGED <<session, inbox, conns, state, due, content, settings, lastSent>>

Next ==
  \/ Emit \/ Exit \/ Connect \/ ConnectThrows \/ Apply \/ ToggleWrap \/ Dispose
  \/ \E c \in Socket : Joins(c) \/ Ends(c) \/ Listen(c)
  \/ \E f \in Fixed : SetColumns(f)
  \/ \E w \in Width : Layout(w)

Spec == Init /\ [][Next]_vars

\* Listeners and timers come to pass; IOWebSocketChannel.connect does not throw for ever.
\* Nothing is assumed of Apply: the callbacks it is scheduled by ask for no frame.
FairSpec ==
  /\ Spec
  /\ SF_vars(Connect) /\ \A c \in Socket : WF_vars(Listen(c))

-----------------------------------------------------------------------------
Flags ==
  /\ exited \in BOOLEAN /\ disposed \in BOOLEAN /\ retry \in BOOLEAN /\ pinging \in BOOLEAN
  /\ ready \in BOOLEAN /\ received \in BOOLEAN /\ due \in BOOLEAN /\ wrap \in BOOLEAN

Ranges ==
  /\ produced \in 0..MaxOut /\ joined \subseteq Socket /\ open \subseteq Socket
  /\ conns \in Socket /\ cur \in Socket \cup {None}
  /\ inbox \in [Socket -> Seq(Sent \cup [t : {"end", "over"}, d : {0}])]
  /\ state \in {"connecting", "live", "reconnecting", "closed"}
  /\ history \in Seq(Sent) /\ Len(history) <= HistoryLimit
  /\ screen \in Seq(Sent) /\ out \in Seq(Sent) /\ pending \in Seq(Sent) \cup {None}
  /\ width \in Width /\ fixed \in Fixed /\ lastSent \in Width \cup Fixed \cup {None}
  /\ changes \in 0..MaxChange

TypeOK == Flags /\ Ranges

\* What the user sees now or will once the replay has been applied.
Shown == screen \o (IF pending = None THEN <<>> ELSE pending) \o out
Follows(s) == \A i \in 2..Len(s) : s[i].d = s[i - 1].d + (IF s[i].t = "out" THEN 1 ELSE 0)

\* What is under way in a socket, but for its end, which comes last.
Coming(c) == IF Over(c) THEN Front(inbox[c]) ELSE inbox[c]

\* With what is under way the screen has every output from the replay on, each once and in
\* order, over reconnections and rebuilds, and though frames of old sockets still arrive.
NoGapNoDuplicate ==
  received =>
    /\ Follows(Shown \o Coming(cur))
    /\ cur \in joined => Last(Shown \o Coming(cur)).d = produced

\* Until the limit is reached the history is exactly what the screen shows, beyond it the
\* end of that: a rebuild loses nothing else.
HistoryIsScreen ==
  received => IsSuffix(history, Shown) /\ (history = Shown \/ Len(history) = HistoryLimit)

\* The tab hears the only socket it has open, until it is disposed of; and unless its session
\* has ended, it hears one or will open one.
OneSocket ==
  /\ open = IF cur = None THEN {} ELSE {cur}
  /\ disposed => cur = None /\ ~retry /\ ~pinging
  /\ state = "reconnecting" /\ ~disposed <=> retry
  /\ state \in {"connecting", "live"} /\ ~disposed => cur # None

\* While input is passed on, the replay has been applied, the heartbeat runs, and the size
\* last sent is that of the present layout and settings.
ReadyMeansLive ==
  ready =>
    /\ state = "live" /\ cur # None /\ pending = None /\ out = <<>> /\ pinging
    /\ lastSent = RemoteCols(width, fixed, wrap)

\* After dispose nothing of the tab changes any more, though frames, timers and scheduled
\* layouts are still on their way; and once it saw the exit frame, it opens no socket and does
\* not come back to life, neither by a late replay nor by the end of its socket.
StaysDown ==
  [][/\ disposed => UNCHANGED <<sockets, state, disposed, timers, ready, received, pending, out,
                                content, settings, lastSent>>
     /\ state = "closed" => state' = "closed" /\ UNCHANGED conns /\ ~retry']_vars

\* A tab that has no socket, or whose socket has ended, comes to open another one, however
\* often an attempt fails, unless it is disposed of or its session ended.
Recovers ==
  \A n \in 1..(MaxConn - 1) :
    (conns = n /\ (cur = None \/ Over(cur))) ~> (conns # n \/ disposed \/ state = "closed")
=============================================================================
