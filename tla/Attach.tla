------------------------------- MODULE Attach -------------------------------
(***************************************************************************)
(* One websocket from end to end: the attach command of the relay binary   *)
(* (cmd/httpssh-relay/attach.go, with the resize watcher of                *)
(* attach_windows.go), the connection, and the relay's websocket handler   *)
(* (internal/server/websocket.go) on the subscription of one session.      *)
(*                                                                         *)
(* Of the session only what one subscriber sees of it is kept; Session     *)
(* has the rest.  Outputs, keys and terminal sizes are numbered in the     *)
(* order they occur; a replay bears the number of the last output it       *)
(* contains, an exit frame that of the last output published before it.    *)
(*                                                                         *)
(* After a change of its size the session is in a repaint window: what     *)
(* looks like the repaint is dropped for all, and is no output here; what  *)
(* does not is withheld from a subscriber that has only just joined.       *)
(***************************************************************************)
EXTENDS Integers, Sequences, SequencesExt

CONSTANTS
  Opts,     \* command lines, on a terminal or not: [session, new, tty]
  Other,    \* the session there is already
  New,      \* the session the command may create
  None,
  Queue,    \* capacity of a subscriber's channel
  Wire,     \* bound: frames under way in each direction
  ResizeQueue,  \* capacity of resizeCh
  MaxOut, MaxKeys, MaxSize,  \* bounds: outputs, keys, sizes,
  Loads     \* and how many of each occur in one behaviour, and whether
            \* the session is created, and ends

ASSUME AttachAssumption ==
  /\ Queue \in Nat \ {0} /\ Wire \in Nat \ {0} /\ ResizeQueue \in Nat \ {0}
  /\ MaxOut \in Nat /\ MaxKeys \in Nat /\ MaxSize \in Nat \ {0}
  /\ Loads \subseteq
       [out : 0..MaxOut, keys : 0..MaxKeys, size : 1..MaxSize, new : BOOLEAN, ends : BOOLEAN]
  /\ Other # New /\ None \notin Nat \cup {Other, New}

VARIABLES
  known,                    \* sessions of the relay
  produced, ended, dims, input,               \* the session attached to; the last key it got
  sub, phase, subDone,                        \* the subscription
  withheld,                 \* the outputs it was not sent (a history variable)
  handler, writer,          \* handleWebSocket with pumpRead, and pumpWrite
  up, down, link,           \* the connection
  pc, id, status,           \* runAttach
  ioDone, raw,              \* ioCtx, raw mode
  stdin, reader, pinger, watcher,             \* the goroutines of runAttachIO
  key, shown, code,         \* the last key, the last output printed, the exit code
  size, seen, resizeCh      \* of the terminal; as the watcher saw it; on their way

sessionVars == <<known, produced, ended, dims, input, withheld>>
subVars     == <<sub, phase, subDone>>
serverVars  == <<handler, writer>>
linkVars    == <<up, down, link>>
mainVars    == <<pc, id, status, raw>>
termVars    == <<key, shown, code>>
sizeVars    == <<size, seen, resizeCh>>
routines    == <<stdin, reader, pinger, watcher>>
vars == <<sessionVars, subVars, serverVars, linkVars, mainVars, ioDone, routines, termVars,
          sizeVars>>

\* A subscription is new, or new while its session repaints, or older, until it ends.
Phases == {"none", "fresh", "repaint", "settled"}
subscribed == phase # "none"

Frame(t, d) == [t |-> t, d |-> d]
Eof == Frame("eof", 0)

Init ==
  /\ known = {Other}
  /\ produced = 0 /\ ended = FALSE /\ dims = 0 /\ input = 0
  /\ sub = <<>> /\ phase = "none" /\ subDone = FALSE /\ withheld = {}
  /\ handler = "none" /\ writer = "none"
  /\ up = <<>> /\ down = <<>> /\ link = "none"
  /\ pc = "start" /\ id = None /\ status = "none"
  /\ ioDone = FALSE /\ raw = FALSE
  /\ stdin = "none" /\ reader = "none" /\ pinger = "none" /\ watcher = "none"
  /\ key = 0 /\ shown = None /\ code = None
  /\ size = 1 /\ seen = 0 /\ resizeCh = <<>>

Within(out, keys, n, ends) ==
  \E l \in Loads :
    out <= l.out /\ keys <= l.keys /\ n <= l.size /\ (id = New => l.new) /\ (ends => l.ends)

-----------------------------------------------------------------------------
\* The connection is lost, or closed by one end: what is under way arrives or not.
Cut(q, reads) == IF reads THEN {Append(q, Eof), <<Eof>>} ELSE {<<Eof>>}
Break ==
  /\ link' = "broken"
  /\ IF link = "up"
       THEN up' \in Cut(up, handler # "close") /\ down' \in Cut(down, reader # "done")
       ELSE UNCHANGED <<up, down>>

LinkFails ==
  /\ link = "up" /\ Break
  /\ UNCHANGED <<sessionVars, subVars, serverVars, mainVars, ioDone, routines, termVars,
                 sizeVars>>

-----------------------------------------------------------------------------
\* runAttach up to the dial: it returns early with an error, or goes on with a session.
Refuse(why) == pc' = "returned" /\ status' = why /\ UNCHANGED <<id, known, dims>>
Join(s) == pc' = "dial" /\ id' = s /\ UNCHANGED <<status, known, dims>>
CreateSession ==
  \/ Refuse("error")
  \/ /\ pc' = "dial" /\ id' = New /\ known' = known \cup {New} /\ dims' = size
     /\ UNCHANGED status

\* resolveSessionID: --session, --new, or one of the listed sessions that have no host.
ResolveSessionID(o) ==
  \/ o.session # None /\ (IF o.session \in known THEN Join(o.session) ELSE Refuse("error"))
  \/ o.session = None /\ o.new /\ CreateSession
  \/ o.session = None /\ ~o.new
     /\ \E candidates \in SUBSET known :
          \/ CreateSession
          \/ candidates # {} /\ (Refuse("error") \/ \E s \in candidates : Join(s))

\* The flags, the file, the bearer or the address may be refused before.
Resolve(o) ==
  /\ pc = "start"
  /\ \/ Refuse("error")
     \/ IF o.tty THEN ResolveSessionID(o) ELSE Refuse("notty")
  /\ UNCHANGED <<produced, ended, input, withheld, subVars, serverVars, linkVars, raw,
                 ioDone, routines, termVars, sizeVars>>

\* websocket.Dial and the handler's Get and Accept.
Dial ==
  /\ pc = "dial"
  /\ \/ id \in known /\ pc' = "open" /\ link' = "up" /\ handler' = "accepted"
        /\ UNCHANGED <<id, status>>
     \/ pc' = "returned" /\ status' = "error" /\ UNCHANGED <<id, link, handler>>
  /\ UNCHANGED <<raw, sessionVars, subVars, writer, up, down, ioDone, routines, termVars,
                 sizeVars>>

\* enterRawMode, the first resize frame, then the goroutines.
Open ==
  /\ pc = "open"
  /\ \/ /\ raw' = TRUE /\ pc' = "io"
        /\ up' = IF link = "up" THEN Append(up, Frame("resize", size)) ELSE up
        /\ stdin' = "read" /\ reader' = "read" /\ pinger' = "run" /\ watcher' = "base"
        /\ UNCHANGED <<status, down, link>>
     \/ /\ pc' = "returned" /\ status' = "error" /\ Break
        /\ UNCHANGED <<raw, routines>>
  /\ UNCHANGED <<id, sessionVars, subVars, serverVars, ioDone, termVars, sizeVars>>

-----------------------------------------------------------------------------
\* The goroutines of runAttachIO.  A write succeeds, or fails and cancels ioCtx.
Writes(f) == ~ioDone /\ link = "up" /\ Len(up) < Wire /\ up' = Append(up, f)
WriteFails == ioDone \/ link # "up"

Type ==
  /\ stdin = "read" /\ Within(produced, key + 1, size, ended)
  /\ key' = key + 1 /\ stdin' = "write"
  /\ UNCHANGED <<sessionVars, subVars, serverVars, linkVars, mainVars, ioDone, reader, pinger,
                 watcher, shown, code, sizeVars>>

StdinEnds ==
  /\ stdin = "read" /\ stdin' = "done" /\ ioDone' = TRUE
  /\ UNCHANGED <<sessionVars, subVars, serverVars, linkVars, mainVars, reader, pinger, watcher,
                 termVars, sizeVars>>

\* Mutant: drops the key when it would have to wait.
StdinDrops ==
  /\ stdin = "write"
  /\ \/ Writes(Frame("in", key)) /\ stdin' = "read" /\ UNCHANGED ioDone
     \/ Len(up) >= Wire /\ stdin' = "read" /\ UNCHANGED <<up, ioDone>>
     \/ WriteFails /\ stdin' = "done" /\ ioDone' = TRUE /\ UNCHANGED up
  /\ UNCHANGED <<sessionVars, subVars, serverVars, down, link, mainVars, reader, pinger,
                 watcher, termVars, sizeVars>>

StdinWrites ==
  /\ stdin = "write"
  /\ \/ Writes(Frame("in", key)) /\ stdin' = "read" /\ UNCHANGED ioDone
     \/ WriteFails /\ stdin' = "done" /\ ioDone' = TRUE /\ UNCHANGED up
  /\ UNCHANGED <<sessionVars, subVars, serverVars, down, link, mainVars, reader, pinger,
                 watcher, termVars, sizeVars>>

Arrived == Head(down)
ReaderPrints ==
  /\ reader = "read" /\ down # <<>> /\ Arrived.t \in {"replay", "out"}
  /\ shown' = Arrived.d /\ down' = Tail(down)
  /\ UNCHANGED <<sessionVars, subVars, serverVars, up, link, mainVars, ioDone, routines, key,
                 code, sizeVars>>

ReaderSkips ==
  /\ reader = "read" /\ down # <<>> /\ Arrived.t \in {"pong", "error"}
  /\ down' = Tail(down)
  /\ UNCHANGED <<sessionVars, subVars, serverVars, up, link, mainVars, ioDone, routines,
                 termVars, sizeVars>>

ReaderExits ==
  /\ reader = "read" /\ down # <<>> /\ Arrived.t = "exit"
  /\ code' = Arrived.d /\ down' = Tail(down)
  /\ reader' = "done" /\ ioDone' = TRUE
  /\ UNCHANGED <<sessionVars, subVars, serverVars, up, link, mainVars, stdin, pinger, watcher,
                 key, shown, sizeVars>>

ReaderFails ==
  /\ reader = "read" /\ (ioDone \/ (down # <<>> /\ Arrived = Eof))
  /\ reader' = "done" /\ ioDone' = TRUE
  /\ UNCHANGED <<sessionVars, subVars, serverVars, linkVars, mainVars, stdin, pinger, watcher,
                 termVars, sizeVars>>

Reads == ReaderPrints \/ ReaderSkips \/ ReaderExits \/ ReaderFails

\* Pings and sizes; at the end the deferred stopWatch waits for the watcher to end, too.
\* A ping every twenty seconds: the one before has been answered.
Pinging == \/ Frame("ping", 0) \in Range(up) \/ handler = "pong" \/ Frame("pong", 0) \in Range(down)
PingerFails == WriteFails /\ ioDone' = TRUE /\ UNCHANGED up
Ping ==
  /\ pinger = "run" /\ ~Pinging
  /\ (Writes(Frame("ping", 0)) /\ UNCHANGED ioDone) \/ PingerFails
  /\ UNCHANGED <<sessionVars, subVars, serverVars, down, link, mainVars, routines, termVars,
                 sizeVars>>

SendSize ==
  /\ pinger = "run" /\ resizeCh # <<>> /\ resizeCh' = Tail(resizeCh)
  /\ (Writes(Frame("resize", Head(resizeCh))) /\ UNCHANGED ioDone) \/ PingerFails
  /\ UNCHANGED <<sessionVars, subVars, serverVars, down, link, mainVars, routines, termVars,
                 size, seen>>

PingerStops ==
  /\ pinger = "run" /\ ioDone
  /\ pinger' = "done" /\ watcher' = "done" /\ resizeCh' = <<>>
  /\ UNCHANGED <<sessionVars, subVars, serverVars, linkVars, mainVars, ioDone, stdin, reader,
                 termVars, size, seen>>

Resize ==
  /\ pc = "io" /\ Within(produced, key, size + 1, ended)
  /\ size' = size + 1
  /\ UNCHANGED <<sessionVars, subVars, serverVars, linkVars, mainVars, ioDone, routines,
                 termVars, seen, resizeCh>>

\* watchResize: a first look at the size, then one every 250 ms; a new size
\* is taken for seen, and may be old by the time there is room for it.
WatchLooks ==
  /\ watcher = "base" /\ watcher' = "poll" /\ seen' = size
  /\ UNCHANGED <<sessionVars, subVars, serverVars, linkVars, mainVars, ioDone, stdin, reader,
                 pinger, termVars, size, resizeCh>>

WatchPolls ==
  /\ watcher = "poll" /\ size # seen /\ watcher' = "send" /\ seen' = size
  /\ UNCHANGED <<sessionVars, subVars, serverVars, linkVars, mainVars, ioDone, stdin, reader,
                 pinger, termVars, size, resizeCh>>

\* Mutant: gives a size up when the channel is full.
WatchDrops ==
  /\ watcher = "send" /\ watcher' = "poll"
  /\ resizeCh' = IF Len(resizeCh) < ResizeQueue THEN Append(resizeCh, seen) ELSE resizeCh
  /\ UNCHANGED <<sessionVars, subVars, serverVars, linkVars, mainVars, ioDone, stdin, reader,
                 pinger, termVars, size, seen>>

WatchSends ==
  /\ watcher = "send" /\ Len(resizeCh) < ResizeQueue
  /\ watcher' = "poll" /\ resizeCh' = Append(resizeCh, seen)
  /\ UNCHANGED <<sessionVars, subVars, serverVars, linkVars, mainVars, ioDone, stdin, reader,
                 pinger, termVars, size, seen>>

Watch == WatchLooks \/ WatchPolls \/ WatchSends

\* A signal; ioCtx is done: close, wait for the goroutines, restore the terminal.
Signal ==
  /\ pc = "io" /\ ~ioDone /\ ioDone' = TRUE
  /\ UNCHANGED <<sessionVars, subVars, serverVars, linkVars, mainVars, routines, termVars,
                 sizeVars>>

Hangup ==
  /\ pc = "io" /\ ioDone
  /\ pc' = "wait" /\ Break
  /\ UNCHANGED <<sessionVars, subVars, serverVars, id, status, raw, ioDone, routines,
                 termVars, sizeVars>>

\* Mutant: does not wait for the terminal's reader.
ReturnEarly ==
  /\ pc = "wait" /\ reader = "done" /\ pinger = "done"
  /\ pc' = "returned" /\ status' = "ok" /\ raw' = FALSE
  /\ UNCHANGED <<sessionVars, subVars, serverVars, linkVars, id, ioDone, routines,
                 termVars, sizeVars>>

Return ==
  /\ pc = "wait" /\ stdin = "done" /\ reader = "done" /\ pinger = "done"
  /\ pc' = "returned" /\ status' = "ok" /\ raw' = FALSE
  /\ UNCHANGED <<sessionVars, subVars, serverVars, linkVars, id, ioDone, routines,
                 termVars, sizeVars>>

-----------------------------------------------------------------------------
\* The session: output, its end, and what it does to the subscription.
OfferSkip(f) ==  \* mutant: skips the frame and keeps the subscriber
  IF subscribed /\ Len(sub) < Queue THEN sub' = Append(sub, f) /\ UNCHANGED <<phase, subDone>>
  ELSE UNCHANGED subVars
Offer(f) ==
  IF ~subscribed THEN UNCHANGED subVars
  ELSE IF Len(sub) < Queue THEN sub' = Append(sub, f) /\ UNCHANGED <<phase, subDone>>
  ELSE phase' = "none" /\ subDone' = TRUE /\ UNCHANGED sub

\* Inside the window a subscriber that joined less than two windows ago is skipped.
Emit ==
  /\ subscribed /\ Within(produced + 1, key, size, ended)
  /\ produced' = produced + 1
  /\ IF phase = "repaint"
       THEN withheld' = withheld \cup {produced'} /\ UNCHANGED subVars
       ELSE Offer(Frame("out", produced')) /\ UNCHANGED withheld
  /\ UNCHANGED <<known, ended, dims, input, serverVars, linkVars, mainVars, ioDone,
                 routines, termVars, sizeVars>>

\* The shell exits, or Kill; waitExit, once the process is gone.
SessionEnds ==
  /\ id # None /\ handler # "done" /\ ~ended /\ Within(produced, key, size, TRUE)
  /\ ended' = TRUE /\ Offer(Frame("exit", produced))
  /\ UNCHANGED <<known, produced, dims, input, withheld, serverVars, linkVars, mainVars, ioDone,
                 routines, termVars, sizeVars>>

Collect ==
  /\ ended /\ (subscribed \/ id \in known)
  /\ phase' = "none" /\ subDone' = (subDone \/ subscribed)
  /\ known' = known \ {id}
  /\ UNCHANGED <<sub, produced, ended, dims, input, withheld, serverVars, linkVars, mainVars,
                 ioDone, routines, termVars, sizeVars>>

-----------------------------------------------------------------------------
\* handleWebSocket: subscribe, then read; pumpWrite runs beside it.
Subscribe ==
  /\ handler = "accepted"
  /\ IF ended THEN subDone' = TRUE /\ UNCHANGED <<sub, phase>>
     ELSE /\ sub' = <<Frame("replay", produced)>> /\ phase' \in {"fresh", "repaint"}
          /\ UNCHANGED subDone
  /\ handler' = "read" /\ writer' = "run"
  /\ UNCHANGED <<known, produced, ended, dims, input, withheld, linkVars, mainVars, ioDone,
                 routines, termVars, sizeVars>>

\* The select of pumpWrite: any branch that is ready.
WriterSends ==
  /\ writer = "run" /\ sub # <<>> /\ link = "up" /\ Len(down) < Wire
  /\ down' = Append(down, Head(sub)) /\ sub' = Tail(sub)
  /\ UNCHANGED <<sessionVars, phase, subDone, serverVars, up, link, mainVars, ioDone,
                 routines, termVars, sizeVars>>

\* The subscription or the request has ended, or the connection fails; the channel of a
\* subscription that has ended is garbage.
WriterStops ==
  /\ writer = "run" /\ (subDone \/ handler = "done" \/ (sub # <<>> /\ link # "up"))
  /\ writer' = "done" /\ sub' = IF subscribed THEN sub ELSE <<>>
  /\ UNCHANGED <<sessionVars, phase, subDone, handler, linkVars, mainVars, ioDone, routines,
                 termVars, sizeVars>>

\* Thirty seconds without progress, of the write, which ends the connection, or of the
\* wait for a reply that is being written.
WriterTimesOut ==
  /\ writer = "run" /\ sub # <<>> /\ link = "up" /\ Len(down) >= Wire
  /\ writer' = "done"
  /\ Break \/ (handler \in {"pong", "error"} /\ UNCHANGED linkVars)
  /\ UNCHANGED <<sessionVars, subVars, handler, mainVars, ioDone, routines, termVars,
                 sizeVars>>

Writer == WriterSends \/ WriterStops

\* pumpRead.
Asked == Head(up)

GetsInput ==
  /\ handler = "read" /\ up # <<>> /\ Asked.t = "in" /\ up' = Tail(up)
  /\ IF ended THEN handler' = "close" /\ UNCHANGED input
              ELSE input' = Asked.d /\ UNCHANGED handler
  /\ UNCHANGED <<known, produced, ended, dims, withheld, subVars, writer, down, link,
                 mainVars, ioDone, routines, termVars, sizeVars>>

Repaints == phase' = IF phase = "fresh" THEN "repaint" ELSE phase

\* Session.Resize: a size it has already changes nothing; the session, for being too large,
\* or the console may refuse another.
GetsResize ==
  /\ handler = "read" /\ up # <<>> /\ Asked.t = "resize" /\ up' = Tail(up)
  /\ \/ (ended \/ Asked.d # dims) /\ handler' = "error" /\ UNCHANGED <<dims, phase>>
     \/ ~ended /\ Asked.d = dims /\ UNCHANGED <<handler, dims, phase>>
     \/ ~ended /\ Asked.d # dims /\ dims' = Asked.d /\ Repaints /\ UNCHANGED handler
  /\ UNCHANGED <<known, produced, ended, input, withheld, sub, subDone, writer, down, link,
                 mainVars, ioDone, routines, termVars, sizeVars>>

\* Another client of the session gives it a size of its own.
OtherResizes ==
  /\ subscribed /\ ~ended /\ dims' = 0 /\ Repaints
  /\ UNCHANGED <<known, produced, ended, input, withheld, sub, subDone, serverVars, linkVars,
                 mainVars, ioDone, routines, termVars, sizeVars>>

\* The end of the repaint window, and of the time a subscriber counts as new.
TimePasses ==
  /\ \/ phase = "repaint" /\ phase' \in {"fresh", "settled"}
     \/ phase = "fresh" /\ phase' = "settled"
  /\ UNCHANGED <<sessionVars, sub, subDone, serverVars, linkVars, mainVars, ioDone, routines,
                 termVars, sizeVars>>

GetsPing ==
  /\ handler = "read" /\ up # <<>> /\ Asked.t = "ping" /\ up' = Tail(up)
  /\ handler' = "pong"
  /\ UNCHANGED <<sessionVars, subVars, writer, down, link, mainVars, ioDone, routines, termVars,
                 sizeVars>>

\* A reply that cannot be written is dropped.
Replies ==
  /\ handler \in {"pong", "error"} /\ handler' = "read"
  /\ \/ link = "up" /\ Len(down) < Wire /\ down' = Append(down, Frame(handler, 0))
     \/ link # "up" /\ UNCHANGED down
  /\ UNCHANGED <<sessionVars, subVars, writer, up, link, mainVars, ioDone, routines, termVars,
                 sizeVars>>

ReadFails ==
  /\ handler = "read" /\ up # <<>> /\ Asked = Eof
  /\ handler' = "close"
  /\ UNCHANGED <<sessionVars, subVars, writer, linkVars, mainVars, ioDone, routines,
                 termVars, sizeVars>>

\* Mutant: leaves the subscription to the session.
ClosesOnly ==
  /\ handler = "close" /\ handler' = "done" /\ Break
  /\ UNCHANGED <<sessionVars, subVars, writer, mainVars, ioDone, routines, termVars,
                 sizeVars>>

\* c.Close, and the deferred unsubscribe.
Closes ==
  /\ handler = "close" /\ handler' = "done" /\ Break
  /\ phase' = "none" /\ subDone' = TRUE
  /\ UNCHANGED <<sessionVars, sub, writer, mainVars, ioDone,
                 routines, termVars, sizeVars>>

Handler == GetsInput \/ GetsResize \/ GetsPing \/ Replies \/ ReadFails \/ Closes \/ Subscribe

-----------------------------------------------------------------------------
ClientMain == Dial \/ Open \/ Hangup \/ Return
Pinger == Ping \/ SendSize \/ PingerStops

Next ==
  \/ (\E o \in Opts : Resolve(o)) \/ LinkFails \/ ClientMain \/ Signal
  \/ Type \/ StdinEnds \/ StdinWrites \/ Reads \/ Pinger
  \/ Resize \/ Watch \/ Emit \/ SessionEnds \/ Collect \/ OtherResizes \/ TimePasses
  \/ Writer \/ WriterTimesOut \/ Handler

Spec == Init /\ [][Next]_vars

\* Every goroutine runs on; nothing makes the user type, the session end, or pumpWrite
\* choose a frame once the subscription has ended.  Steps that occur finitely often share a
\* condition.  It is strong for writes that pings may be ahead of.
Rest == ClientMain \/ Watch \/ PingerStops \/ Collect
FairSpec ==
  /\ Spec
  /\ WF_vars(Rest) /\ WF_vars(Reads) /\ WF_vars(Writer) /\ WF_vars(Handler)
  /\ SF_vars(StdinWrites \/ SendSize)

-----------------------------------------------------------------------------
Flags ==
  /\ ended \in BOOLEAN /\ subDone \in BOOLEAN
  /\ ioDone \in BOOLEAN /\ raw \in BOOLEAN

Ranges ==
  /\ known \subseteq {Other, New}
  /\ produced \in 0..MaxOut /\ dims \in 0..MaxSize /\ input \in 0..MaxKeys
  /\ Len(sub) <= Queue /\ phase \in Phases /\ withheld \subseteq 1..MaxOut
  /\ handler \in {"none", "accepted", "read", "pong", "error", "close", "done"}
  /\ writer \in {"none", "run", "done"} /\ link \in {"none", "up", "broken"}
  /\ pc \in {"start", "dial", "open", "io", "wait", "returned"}
  /\ id \in {Other, New, None} /\ status \in {"none", "ok", "error", "notty"}
  /\ stdin \in {"none", "read", "write", "done"} /\ reader \in {"none", "read", "done"}
  /\ pinger \in {"none", "run", "done"}
  /\ watcher \in {"none", "base", "poll", "send", "done"}
  /\ key \in 0..MaxKeys
  /\ shown \in 0..MaxOut \cup {None} /\ code \in 0..MaxOut \cup {None}
  /\ size \in 1..MaxSize /\ seen \in 0..MaxSize /\ Len(resizeCh) <= ResizeQueue

TypeOK == Flags /\ Ranges

\* What is printed are the outputs of the session from the replay on, without a repetition,
\* whoever else writes into the connection meanwhile, and without a gap but for those the
\* session withheld; and the shell gets the keys in the order they were typed, and misses at
\* most the last ones.
StreamsInOrder ==
  [][/\ shown' # shown =>
          shown = None \/ (shown < shown' /\ (shown + 1)..(shown' - 1) \subseteq withheld)
     /\ input' # input => input' = input + 1]_vars

\* An exit code is reported only after everything that was published before it, and not
\* withheld.
ExitMeansComplete ==
  code # None => shown # None /\ (shown + 1)..code \subseteq withheld

\* When the command returns the terminal is as it was, and nothing reads it any more; if
\* it was refused for lack of a terminal, no session was created or joined.
NothingLeftBehind ==
  pc = "returned" =>
    /\ ~raw /\ link # "up"
    /\ {stdin, reader, pinger, watcher} \subseteq {"none", "done"}
    /\ status = "notty" => New \notin known /\ handler = "none"

\* Once ioCtx is cancelled, or a key is typed into a session that has ended, both sides end:
\* the command but for a read of the terminal, the relay's handler, writer and subscription.
BothSidesEnd ==
  (ioDone \/ (ended /\ stdin = "write")) ~>
    /\ pc \in {"wait", "returned"} /\ reader = "done" /\ pinger = "done"
    /\ handler = "done" /\ writer = "done" /\ ~subscribed

\* Once the size of the terminal differs from what the watcher has seen the session gets to
\* know the size, however often it changed and however many older ones are on their way,
\* unless one of them ends, or the session or its console refuses a size.
SizeReachesSession ==
  (watcher \in {"poll", "send"} /\ seen # size) ~>
    (dims = size \/ ioDone \/ ended \/ handler \in {"error", "done"})

-----------------------------------------------------------------------------
\* session.go: a subscriber that is dropped has its connection torn down; protocol.md: the
\* relay closes the websocket after the exit frame.
DroppedIsClosed == subDone ~> link # "up"

\* attach.go: the command returns when the shell exits or the websocket closes.
ReturnsWhenDone == ioDone ~> pc = "returned"
=============================================================================
