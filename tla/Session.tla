------------------------------ MODULE Session ------------------------------
(***************************************************************************)
(* relay/internal/session/session.go: one shell on a pseudo-console, its   *)
(* scrollback and its attached subscribers, with the two goroutines that   *)
(* the manager runs for it (pump and waitExit, manager.go) and the callers *)
(* of Subscribe, unsubscribe, Resize and Kill.                             *)
(*                                                                         *)
(* A critical section of s.mu is one step; what a goroutine does between   *)
(* two critical sections is a step of its own.  Output is a sequence of    *)
(* chunks, one per PTY read; the byte-level scrollback is RingBuffer.  The *)
(* fields lastIO, cwd and Title, which nothing here reads, are left out    *)
(* (Manager has lastIO).                                                   *)
(***************************************************************************)
EXTENDS Integers, Sequences, FiniteSets

CONSTANTS
  Sub,        \* subscriber records, one for each call of Subscribe
  Killer,     \* goroutines that call Kill: a DELETE, the reaper, Shutdown
  Resizer,    \* goroutines that call Resize: the clients' reader loops
  Dim,        \* terminal dimensions clients ask for
  ValidDim,   \* the ones within 1..MaxCols x 1..MaxRows
  InitDim,    \* the dimensions given to Create
  Kind,       \* kinds of output: ordinary text, a full redraw by a program, and
              \* the repaint ConPTY makes of itself after a resize
  QueueCap,   \* defaultSubscriberQueue
  ScrollCap,  \* capacity of the scrollback, in chunks
  Window,     \* resizeRepaintWindow, in clock ticks
  MaxChunk,   \* bound: chunks the pump reads
  MaxResize,  \* bound: calls of Resize
  MaxTime     \* bound: clock ticks

ASSUME SessionAssumption ==
  /\ "text" \in Kind /\ Kind \subseteq {"text", "redraw", "repaint"}
  /\ QueueCap \in Nat \ {0}
  /\ ScrollCap \in Nat \ {0}
  /\ Window \in Nat \ {0}
  /\ ValidDim \subseteq Dim
  /\ InitDim \in ValidDim
  /\ MaxChunk \in Nat /\ MaxResize \in Nat /\ MaxTime \in Nat

VARIABLES
  \* The pseudo-console and its child process.
  shellAlive, ptyOpen, ptyDim,
  repaintDue,   \* a resize made ConPTY redraw the screen; not read yet
  emitted,      \* number of chunks read so far
  \* Session fields.
  closed, exitKnown, doneClosed, subs, subsNil, dim, repaintUntil, scrollback,
  \* Subscriber fields, and how far the goroutine that owns the subscription is.
  queue, cancelled, since, subPc,
  \* The pump goroutine: position, chunk and time it publishes, cancelSubs.
  pump, chunk, pumpNow, dropped,
  \* The waitExit goroutine: position, subscribers left, the one being evicted.
  exitPc, todo, evicted,
  \* Callers of Kill and of Resize.
  killPc, resizePc, want, resizes,
  clock,
  \* History: all chunks that entered the scrollback, its length when each
  \* subscriber joined, the chunks withheld from each, the frames each received.
  published, base, skipped, sent

ptyVars    == <<shellAlive, ptyOpen, ptyDim, repaintDue, emitted>>
fieldVars  == <<closed, exitKnown, doneClosed, subs, subsNil, dim, repaintUntil, scrollback>>
subVars    == <<queue, cancelled, since, subPc>>
pumpVars   == <<pump, chunk, pumpNow, dropped>>
exitVars   == <<exitPc, todo, evicted>>
callerVars == <<killPc, resizePc, want, resizes>>
history    == <<published, base, skipped, sent>>
vars == <<ptyVars, fieldVars, subVars, pumpVars, exitVars, callerVars, clock, history>>

\* A chunk is numbered and has a kind.
Chunk == [n : Nat, kind : Kind]

Replay(d) == [t |-> "replay", d |-> d]
Out(c)    == [t |-> "out", d |-> <<c>>]
Exit      == [t |-> "exit", d |-> << >>]
Frame == [t : {"replay", "out", "exit"}, d : Seq(Chunk)]

\* The retained tail of a sequence of chunks.
Retain(s) == IF Len(s) <= ScrollCap THEN s ELSE SubSeq(s, Len(s) - ScrollCap + 1, Len(s))

\* looksLikeConPTYResizeRepaint sees bytes only: a full redraw by a program
\* matches as well as ConPTY's.
LooksLikeRepaint(c) == c.kind # "text"

HasRoomOffByOne(s) == Len(queue[s]) <= QueueCap  \* mutant
HasRoom(s) == Len(queue[s]) < QueueCap

\* The registered subscribers, but for the ones in lost.
WithoutNone(lost) == subs  \* mutant: loses the frame and keeps the subscriber
Without(lost) == subs \ lost

\* The state Create leaves behind, both goroutines started.
Init ==
  /\ shellAlive = TRUE /\ ptyOpen = TRUE /\ ptyDim = InitDim
  /\ repaintDue = FALSE /\ emitted = 0
  /\ closed = FALSE /\ exitKnown = FALSE /\ doneClosed = FALSE
  /\ subs = {} /\ subsNil = FALSE /\ dim = InitDim
  /\ repaintUntil = 0 /\ scrollback = << >>
  /\ queue = [s \in Sub |-> << >>] /\ cancelled = {}
  /\ since = [s \in Sub |-> 0] /\ subPc = [s \in Sub |-> "idle"]
  /\ pump = "read" /\ chunk = [n |-> 0, kind |-> "text"] /\ pumpNow = 0 /\ dropped = {}
  /\ exitPc = "wait" /\ todo = {} /\ evicted = {}
  /\ killPc = [k \in Killer |-> "idle"]
  /\ resizePc = [r \in Resizer |-> "idle"]
  /\ want = [r \in Resizer |-> InitDim] /\ resizes = 0
  /\ clock = 0
  /\ published = << >> /\ base = [s \in Sub |-> 0]
  /\ skipped = [s \in Sub |-> {}] /\ sent = [s \in Sub |-> << >>]

-----------------------------------------------------------------------------
\* The shell ends by itself.
ShellExit ==
  /\ shellAlive
  /\ shellAlive' = FALSE
  /\ UNCHANGED <<ptyOpen, ptyDim, repaintDue, emitted, fieldVars, subVars, pumpVars,
                 exitVars, callerVars, clock, history>>

Tick ==
  /\ clock < MaxTime
  /\ clock' = clock + 1
  /\ UNCHANGED <<ptyVars, fieldVars, subVars, pumpVars, exitVars, callerVars, history>>

-----------------------------------------------------------------------------
\* The pump goroutine.  A read yields a chunk, also what is left after the shell
\* has gone; the time passed to publishOutput is taken before its lock.
PumpRead(kind) ==
  /\ pump = "read" /\ ptyOpen /\ emitted < MaxChunk
  /\ kind = "repaint" => repaintDue
  /\ emitted' = emitted + 1
  /\ repaintDue' = IF kind = "repaint" THEN FALSE ELSE repaintDue
  /\ chunk' = [n |-> emitted + 1, kind |-> kind]
  /\ pumpNow' = clock
  /\ pump' = "publish"
  /\ UNCHANGED <<shellAlive, ptyOpen, ptyDim, dropped, fieldVars, subVars, exitVars,
                 callerVars, clock, history>>

\* A read on a closed console fails; once the shell is gone it may fail or block.
PumpStop ==
  /\ pump = "read"
  /\ ~ptyOpen \/ ~shellAlive
  /\ pump' = "stopped"
  /\ UNCHANGED <<ptyVars, fieldVars, subVars, chunk, pumpNow, dropped, exitVars,
                 callerVars, clock, history>>

\* Inside the window after a resize; past it, the window is reset.
WindowOpen == repaintUntil # 0 /\ pumpNow <= repaintUntil

\* Mutant: retains the chunk before it decides to drop it.
SuppressLiveOnly ==
  /\ pump = "publish"
  /\ WindowOpen /\ LooksLikeRepaint(chunk)
  /\ pump' = "cancel"
  /\ scrollback' = Retain(Append(scrollback, chunk))
  /\ UNCHANGED <<ptyVars, closed, exitKnown, doneClosed, subs, subsNil, dim, repaintUntil,
                 subVars, chunk, pumpNow, dropped, exitVars, callerVars, clock, history>>

\* publishOutput, dropFrame: neither retained nor sent.
Suppress ==
  /\ pump = "publish"
  /\ WindowOpen /\ LooksLikeRepaint(chunk)
  /\ pump' = "cancel"
  /\ UNCHANGED <<ptyVars, fieldVars, subVars, chunk, pumpNow, dropped, exitVars,
                 callerVars, clock, history>>

\* Subscribers that joined so recently that a repaint may be theirs.
Fresh(s) ==
  /\ repaintUntil # 0 /\ pumpNow < repaintUntil
  /\ pumpNow < since[s] + 2 * Window

\* The select sends if there is room and drops a cancelled subscriber or one
\* whose queue is full; a cancelled subscriber with room may go either way.
SelectedBlocking(got, offered) ==  \* mutant: the select has no default
  (\A s \in got : HasRoom(s)) /\ (\A s \in offered \ got : s \in cancelled)
Selected(got, offered) ==
  /\ \A s \in got : HasRoom(s)
  /\ \A s \in offered \ got : ~HasRoom(s) \/ s \in cancelled

\* publishOutput: retain the chunk and, under the same lock, offer it to every
\* subscriber that is not fresh.
Publish ==
  LET skip    == {s \in subs : Fresh(s)}
      offered == subs \ skip
  IN  /\ pump = "publish"
      /\ ~(WindowOpen /\ LooksLikeRepaint(chunk))
      /\ \E got \in SUBSET offered :
           /\ Selected(got, offered)
           /\ queue' = [s \in Sub |-> IF s \in got THEN Append(queue[s], Out(chunk))
                                                   ELSE queue[s]]
           /\ subs' = Without(offered \ got)
           /\ dropped' = offered \ got
      /\ scrollback' = Retain(Append(scrollback, chunk))
      /\ repaintUntil' = IF WindowOpen THEN repaintUntil ELSE 0
      /\ pump' = "cancel"
      /\ published' = Append(published, chunk)
      /\ skipped' = [s \in Sub |-> IF s \in skip THEN skipped[s] \cup {chunk} ELSE skipped[s]]
      /\ UNCHANGED <<ptyVars, closed, exitKnown, doneClosed, subsNil, dim, cancelled, since,
                     subPc, chunk, pumpNow, exitVars, callerVars, clock, base, sent>>

\* Mutant: forgets to cancel the subscribers it dropped.
PumpForget ==
  /\ pump = "cancel"
  /\ dropped' = {} /\ pump' = "read"
  /\ UNCHANGED <<ptyVars, fieldVars, subVars, chunk, pumpNow, exitVars, callerVars, clock,
                 history>>

\* publishOutput after the unlock: cancel the dropped subscribers.
PumpCancel ==
  /\ pump = "cancel"
  /\ cancelled' = cancelled \cup dropped
  /\ dropped' = {}
  /\ pump' = "read"
  /\ UNCHANGED <<ptyVars, fieldVars, queue, since, subPc, chunk, pumpNow, exitVars,
                 callerVars, clock, history>>

Pump == (\E kind \in Kind : PumpRead(kind)) \/ PumpStop \/ Suppress \/ Publish \/ PumpCancel

-----------------------------------------------------------------------------
\* Mutant: leaves the session open while the exit frame goes round.
ExitRecordOpen ==
  /\ exitPc = "wait" /\ ~shellAlive
  /\ exitKnown' = TRUE /\ exitPc' = "fanout"
  /\ UNCHANGED <<ptyVars, closed, doneClosed, subs, subsNil, dim, repaintUntil, scrollback,
                 subVars, pumpVars, todo, evicted, callerVars, clock, history>>

\* Mutant: takes a session somebody killed for one that has ended already.
ExitRecordIfOpen ==
  /\ exitPc = "wait" /\ ~shellAlive /\ ~closed
  /\ exitKnown' = TRUE /\ closed' = TRUE /\ exitPc' = "fanout"
  /\ UNCHANGED <<ptyVars, doneClosed, subs, subsNil, dim, repaintUntil, scrollback, subVars,
                 pumpVars, todo, evicted, callerVars, clock, history>>

\* The waitExit goroutine.  pty.Wait returns: record the exit, refuse new work.
ExitRecord ==
  /\ exitPc = "wait" /\ ~shellAlive
  /\ exitKnown' = TRUE
  /\ closed' = TRUE
  /\ exitPc' = "fanout"
  /\ UNCHANGED <<ptyVars, doneClosed, subs, subsNil, dim, repaintUntil, scrollback, subVars,
                 pumpVars, todo, evicted, callerVars, clock, history>>

\* fanout, locked part: copy the subscribers.
FanoutSnapshot ==
  /\ exitPc = "fanout"
  /\ todo' = subs
  /\ exitPc' = "send"
  /\ UNCHANGED <<ptyVars, fieldVars, subVars, pumpVars, evicted, callerVars, clock, history>>

\* fanout, unlocked part: the exit frame goes to s, whatever became of s since.
FanoutSend(s) ==
  /\ exitPc = "send" /\ s \in todo
  /\ HasRoom(s)
  /\ queue' = [queue EXCEPT ![s] = Append(@, Exit)]
  /\ todo' = todo \ {s}
  /\ UNCHANGED <<ptyVars, fieldVars, cancelled, since, subPc, pumpVars, exitPc, evicted,
                 callerVars, clock, history>>

FanoutSkip(s) ==
  /\ exitPc = "send" /\ s \in todo
  /\ s \in cancelled
  /\ todo' = todo \ {s}
  /\ UNCHANGED <<ptyVars, fieldVars, subVars, pumpVars, exitPc, evicted, callerVars, clock,
                 history>>

\* The select finds the queue of s full.
FanoutEvict(s) ==
  /\ exitPc = "send" /\ s \in todo
  /\ ~HasRoom(s) /\ s \notin cancelled
  /\ evicted' = {s}
  /\ todo' = todo \ {s}
  /\ exitPc' = "remove"
  /\ UNCHANGED <<ptyVars, fieldVars, subVars, pumpVars, callerVars, clock, history>>

\* removeSubscriber takes the lock only now, whether or not the queue is still full,
\* unregisters s and then cancels it.
FanoutRemove ==
  /\ exitPc = "remove"
  /\ subs' = Without(evicted)
  /\ exitPc' = "evict"
  /\ UNCHANGED <<ptyVars, closed, exitKnown, doneClosed, subsNil, dim, repaintUntil,
                 scrollback, subVars, pumpVars, todo, evicted, callerVars, clock, history>>

FanoutCancel ==
  /\ exitPc = "evict"
  /\ cancelled' = cancelled \cup evicted
  /\ evicted' = {}
  /\ exitPc' = "send"
  /\ UNCHANGED <<ptyVars, fieldVars, queue, since, subPc, pumpVars, todo, callerVars, clock,
                 history>>

\* Take over the remaining subscribers and leave a nil map behind.
ExitCollect ==
  /\ exitPc = "send" /\ todo = {}
  /\ todo' = subs
  /\ subs' = {} /\ subsNil' = TRUE
  /\ exitPc' = "cancel"
  /\ UNCHANGED <<ptyVars, closed, exitKnown, doneClosed, dim, repaintUntil, scrollback,
                 subVars, pumpVars, evicted, callerVars, clock, history>>

\* Mutant: closes doneCh and leaves the subscribers' contexts alone.
ExitForget(s) ==
  /\ exitPc = "cancel" /\ s \in todo
  /\ todo' = todo \ {s}
  /\ UNCHANGED <<ptyVars, fieldVars, subVars, pumpVars, exitPc, evicted, callerVars, clock,
                 history>>

ExitCancel(s) ==
  /\ exitPc = "cancel" /\ s \in todo
  /\ cancelled' = cancelled \cup {s}
  /\ todo' = todo \ {s}
  /\ UNCHANGED <<ptyVars, fieldVars, queue, since, subPc, pumpVars, exitPc, evicted,
                 callerVars, clock, history>>

ExitDone ==
  /\ exitPc = "cancel" /\ todo = {}
  /\ doneClosed' = TRUE
  /\ exitPc' = "done"
  /\ UNCHANGED <<ptyVars, closed, exitKnown, subs, subsNil, dim, repaintUntil, scrollback,
                 subVars, pumpVars, todo, evicted, callerVars, clock, history>>

WaitExit ==
  \/ ExitRecord \/ FanoutSnapshot \/ FanoutRemove \/ FanoutCancel \/ ExitCollect \/ ExitDone
  \/ \E s \in Sub : FanoutSend(s) \/ FanoutSkip(s) \/ FanoutEvict(s) \/ ExitCancel(s)

-----------------------------------------------------------------------------
\* Subscribe notes the time, then takes the lock.
SubscribeBegin(s) ==
  /\ subPc[s] = "idle"
  /\ since' = [since EXCEPT ![s] = clock]
  /\ subPc' = [subPc EXCEPT ![s] = "joining"]
  /\ UNCHANGED <<ptyVars, fieldVars, queue, cancelled, pumpVars, exitVars, callerVars, clock,
                 history>>

\* A closed session hands out a subscription that is already over.
SubscribeClosed(s) ==
  /\ subPc[s] = "joining" /\ closed
  /\ cancelled' = cancelled \cup {s}
  /\ subPc' = [subPc EXCEPT ![s] = "gone"]
  /\ UNCHANGED <<ptyVars, fieldVars, queue, since, pumpVars, exitVars, callerVars, clock,
                 history>>

\* Mutant: joins without looking at closed.
SubscribeBlind(s) ==
  /\ subPc[s] = "joining"
  /\ subs' = subs \cup {s}
  /\ queue' = [queue EXCEPT ![s] = <<Replay(scrollback)>>]
  /\ subPc' = [subPc EXCEPT ![s] = "attached"]
  /\ base' = [base EXCEPT ![s] = Len(published)]
  /\ UNCHANGED <<ptyVars, closed, exitKnown, doneClosed, subsNil, dim, repaintUntil,
                 scrollback, cancelled, since, pumpVars, exitVars, callerVars, clock,
                 published, skipped, sent>>

\* Snapshot, register and enqueue the replay under one lock.
SubscribeOpen(s) ==
  /\ subPc[s] = "joining" /\ ~closed
  /\ subs' = subs \cup {s}
  /\ queue' = [queue EXCEPT ![s] = <<Replay(scrollback)>>]
  /\ subPc' = [subPc EXCEPT ![s] = "attached"]
  /\ base' = [base EXCEPT ![s] = Len(published)]
  /\ UNCHANGED <<ptyVars, closed, exitKnown, doneClosed, subsNil, dim, repaintUntil,
                 scrollback, cancelled, since, pumpVars, exitVars, callerVars, clock,
                 published, skipped, sent>>

\* The owner takes the next frame off the channel.
Receive(s) ==
  /\ subPc[s] = "attached" /\ queue[s] # << >>
  /\ sent' = [sent EXCEPT ![s] = Append(@, Head(queue[s]))]
  /\ queue' = [queue EXCEPT ![s] = Tail(@)]
  /\ UNCHANGED <<ptyVars, fieldVars, cancelled, since, subPc, pumpVars, exitVars, callerVars,
                 clock, published, base, skipped>>

\* The context passed to Subscribe ends while the subscriber is attached.
ContextEnd(s) ==
  /\ subPc[s] = "attached" /\ s \notin cancelled
  /\ cancelled' = cancelled \cup {s}
  /\ UNCHANGED <<ptyVars, fieldVars, queue, since, subPc, pumpVars, exitVars, callerVars,
                 clock, history>>

\* unsubscribe is removeSubscriber: unregister under the lock, then cancel.
Unsubscribe(s) ==
  /\ subPc[s] = "attached"
  /\ subs' = Without({s})
  /\ subPc' = [subPc EXCEPT ![s] = "leaving"]
  /\ UNCHANGED <<ptyVars, closed, exitKnown, doneClosed, subsNil, dim, repaintUntil,
                 scrollback, queue, cancelled, since, pumpVars, exitVars, callerVars, clock,
                 history>>

UnsubscribeCancel(s) ==
  /\ subPc[s] = "leaving"
  /\ cancelled' = cancelled \cup {s}
  /\ subPc' = [subPc EXCEPT ![s] = "gone"]
  /\ UNCHANGED <<ptyVars, fieldVars, queue, since, pumpVars, exitVars, callerVars, clock,
                 history>>

Owner(s) ==
  \/ SubscribeBegin(s) \/ SubscribeClosed(s) \/ SubscribeOpen(s)
  \/ Receive(s) \/ ContextEnd(s) \/ Unsubscribe(s) \/ UnsubscribeCancel(s)

-----------------------------------------------------------------------------
\* Kill of a session already closed returns at once.
KillClosed(k) ==
  /\ killPc[k] = "idle" /\ closed
  /\ killPc' = [killPc EXCEPT ![k] = "done"]
  /\ UNCHANGED <<ptyVars, fieldVars, subVars, pumpVars, exitVars, resizePc, want, resizes,
                 clock, history>>

KillMark(k) ==
  /\ killPc[k] = "idle" /\ ~closed
  /\ closed' = TRUE
  /\ killPc' = [killPc EXCEPT ![k] = "close"]
  /\ UNCHANGED <<ptyVars, exitKnown, doneClosed, subs, subsNil, dim, repaintUntil, scrollback,
                 subVars, pumpVars, exitVars, resizePc, want, resizes, clock, history>>

\* pty.Close after the unlock ends the child process.
KillClose(k) ==
  /\ killPc[k] = "close"
  /\ ptyOpen' = FALSE /\ shellAlive' = FALSE
  /\ killPc' = [killPc EXCEPT ![k] = "done"]
  /\ UNCHANGED <<ptyDim, repaintDue, emitted, fieldVars, subVars, pumpVars, exitVars, resizePc,
                 want, resizes, clock, history>>

Kill(k) == KillClosed(k) \/ KillMark(k) \/ KillClose(k)

\* Resize, first critical section: out of range, closed or same size return here.
ResizeCheck(r, d) ==
  /\ resizePc[r] = "idle" /\ resizes < MaxResize
  /\ resizes' = resizes + 1
  /\ IF d \in ValidDim /\ ~closed /\ d # dim
       THEN /\ resizePc' = [resizePc EXCEPT ![r] = "apply"]
            /\ want' = [want EXCEPT ![r] = d]
       ELSE UNCHANGED <<resizePc, want>>
  /\ UNCHANGED <<ptyVars, fieldVars, subVars, pumpVars, exitVars, killPc, clock, history>>

\* pty.Resize runs with no lock held; an open console then repaints.
ResizeApply(r) ==
  /\ resizePc[r] = "apply" /\ ptyOpen
  /\ ptyDim' = want[r]
  /\ repaintDue' = TRUE
  /\ resizePc' = [resizePc EXCEPT ![r] = "record"]
  /\ UNCHANGED <<shellAlive, ptyOpen, emitted, fieldVars, subVars, pumpVars, exitVars, killPc,
                 want, resizes, clock, history>>

\* It may fail, on a closed console or otherwise; nothing is recorded then.
ResizeFail(r) ==
  /\ resizePc[r] = "apply"
  /\ resizePc' = [resizePc EXCEPT ![r] = "idle"]
  /\ UNCHANGED <<ptyVars, fieldVars, subVars, pumpVars, exitVars, killPc, want, resizes,
                 clock, history>>

\* Second critical section: remember the size and open the repaint window.
ResizeRecord(r) ==
  /\ resizePc[r] = "record"
  /\ dim' = want[r]
  /\ repaintUntil' = clock + Window
  /\ resizePc' = [resizePc EXCEPT ![r] = "idle"]
  /\ UNCHANGED <<ptyVars, closed, exitKnown, doneClosed, subs, subsNil, scrollback, subVars,
                 pumpVars, exitVars, killPc, want, resizes, clock, history>>

Resize(r) == (\E d \in Dim : ResizeCheck(r, d)) \/ ResizeApply(r) \/ ResizeFail(r) \/ ResizeRecord(r)

-----------------------------------------------------------------------------
\* Everything has run its course: the only state the session may stop in.
Terminated ==
  /\ exitPc = "done" /\ pump = "stopped"
  /\ \A s \in Sub : subPc[s] = "gone"
  /\ \A k \in Killer : killPc[k] = "done"
  /\ \A r \in Resizer : resizePc[r] = "idle"
  /\ UNCHANGED vars

Next ==
  \/ ShellExit \/ Tick \/ Pump \/ WaitExit
  \/ \E s \in Sub : Owner(s)
  \/ \E k \in Killer : Kill(k)
  \/ \E r \in Resizer : Resize(r)
  \/ Terminated

Spec == Init /\ [][Next]_vars

\* The scheduler runs every goroutine that is not blocked: pump once it holds a
\* chunk or its read fails, waitExit, and callers of Kill and unsubscribe past
\* their first step.  Shells, clients, and reads of an idle console owe nothing.
Fairness ==
  /\ WF_vars(Suppress \/ Publish \/ PumpCancel \/ (~ptyOpen /\ PumpStop))
  /\ WF_vars(WaitExit)
  /\ \A s \in Sub : WF_vars(SubscribeClosed(s) \/ SubscribeOpen(s) \/ UnsubscribeCancel(s))
  /\ \A k \in Killer : WF_vars(KillClose(k))

FairSpec == Spec /\ Fairness

-----------------------------------------------------------------------------
\* Everything put on a subscriber's channel, taken off or not.
Stream(s) == sent[s] \o queue[s]

\* Positions of the live output in a subscriber's stream.
OutAt(s) == {i \in 1 .. Len(Stream(s)) : Stream(s)[i].t = "out"}

\* The chunks that entered the scrollback from position i to position j.
Retained(i, j) == {published[m] : m \in i .. j}

\* Every variable holds a value of its kind, and no queue outgrows its channel.
TypeOK ==
  /\ shellAlive \in BOOLEAN /\ ptyOpen \in BOOLEAN /\ repaintDue \in BOOLEAN
  /\ ptyDim \in ValidDim /\ dim \in ValidDim /\ want \in [Resizer -> ValidDim]
  /\ emitted \in Nat /\ resizes \in Nat /\ clock \in Nat /\ repaintUntil \in Nat
  /\ closed \in BOOLEAN /\ exitKnown \in BOOLEAN /\ doneClosed \in BOOLEAN
  /\ subs \subseteq Sub /\ subsNil \in BOOLEAN
  /\ scrollback \in Seq(Chunk) /\ published \in Seq(Chunk)
  /\ queue \in [Sub -> Seq(Frame)] /\ sent \in [Sub -> Seq(Frame)]
  /\ \A s \in Sub : Len(queue[s]) <= QueueCap
  /\ cancelled \subseteq Sub
  /\ since \in [Sub -> Nat] /\ base \in [Sub -> Nat]
  /\ subPc \in [Sub -> {"idle", "joining", "attached", "leaving", "gone"}]
  /\ pump \in {"read", "publish", "cancel", "stopped"}
  /\ chunk \in Chunk /\ pumpNow \in Nat /\ dropped \subseteq Sub
  /\ exitPc \in {"wait", "fanout", "send", "remove", "evict", "cancel", "done"}
  /\ todo \subseteq Sub /\ evicted \subseteq Sub
  /\ killPc \in [Killer -> {"idle", "close", "done"}]
  /\ resizePc \in [Resizer -> {"idle", "apply", "record"}]
  /\ skipped \in [Sub -> SUBSET Chunk]

\* Subscribe never writes to the nil map waitExit leaves behind (a Go panic): its
\* check of closed under s.mu is enough, whatever Kill, waitExit and the pump do.
NoNilMapInsert == subsNil => closed /\ subs = {}

\* A subscriber that was removed from the map is cancelled, or a goroutine holds
\* it in a local list and has yet to cancel it: no websocket writer is left
\* waiting on a channel that nobody will ever fill or end.
NoOrphanedSubscriber ==
  \A s \in Sub : subPc[s] = "attached" /\ s \notin subs =>
    \/ s \in cancelled \cup dropped \cup evicted
    \/ exitPc = "cancel" /\ s \in todo

\* The promise of publishOutput and Subscribe: a subscriber gets one replay, the
\* scrollback as it was when it joined, and then, in order and once each, the
\* chunks retained since, up to the moment it was removed.  Chunks withheld
\* around a resize are the only gaps.
ExactlyOnce ==
  \A s \in Sub : subPc[s] \notin {"idle", "joining"} /\ Stream(s) # << >> =>
    /\ Stream(s)[1] = Replay(Retain(SubSeq(published, 1, base[s])))
    /\ \A i \in 2 .. Len(Stream(s)) : Stream(s)[i].t # "replay"
    /\ \A i, j \in OutAt(s) : i < j => Stream(s)[i].d[1].n < Stream(s)[j].d[1].n
    /\ \E upto \in base[s] .. Len(published) :
         /\ s \in subs => upto = Len(published)
         /\ {Stream(s)[i].d[1] : i \in OutAt(s)}
              = Retained(base[s] + 1, upto) \ skipped[s]

\* Once fanout has gone through its copy of the subscribers, whoever is still
\* registered has the exit frame, or its context had ended: nobody can join
\* between the copy and the moment the map is taken away.
ExitReachesEveryone ==
  exitPc = "send" /\ todo = {} =>
    \A s \in subs : s \in cancelled \/ \E i \in 1 .. Len(Stream(s)) : Stream(s)[i] = Exit

\* What a subscriber can tell of all this.
phase    == IF exitKnown THEN "ended" ELSE IF closed THEN "closed" ELSE "open"
resizing == repaintUntil # 0
owner    == [s \in Sub |-> CASE subPc[s] \in {"idle", "joining"} -> "out"
                            [] subPc[s] = "attached" -> "in"
                            [] OTHER -> "left"]
feed     == [s \in Sub |-> Stream(s)]
taken    == [s \in Sub |-> Len(sent[s])]
doomed   == IF exitPc = "remove" THEN evicted ELSE {}
Seen == INSTANCE Feed WITH state <- phase, log <- published, on <- subs,
                           Chunk <- [n : 1 .. MaxChunk, kind : Kind]

\* It is what Feed promises: nobody who keeps up is cut off while the session lives, nobody
\* cut off is sent more output, the exit frame comes once, and waitExit takes the
\* subscribers away only after everyone was told or cancelled.
ImplementsFeed == Seen!Spec

-----------------------------------------------------------------------------
\* When the shell ends, waitExit comes to its end and every attached subscriber
\* is cancelled, however full the queues and whoever else is killing or leaving.
ExitReleasesEveryone ==
  /\ ~shellAlive ~> doneClosed
  /\ \A s \in Sub : (~shellAlive /\ subPc[s] = "attached")
                      ~> (s \in cancelled \/ subPc[s] = "gone")

\* A subscriber that never reads cannot hold up the pump.
PumpNeverStalls == pump = "publish" ~> pump \in {"read", "stopped"}

\* A Kill that marked the session closed brings it to its end.
KillEndsSession == \A k \in Killer : killPc[k] = "close" ~> doneClosed

-----------------------------------------------------------------------------
\* What documents and comments say of the session and the code does not do.

\* session.go, Resize: no-ops when the requested size matches what the PTY is already at.
\* That is decided by the recorded size, which between calls is not the console's when
\* two calls applied theirs in one order and recorded them in the other.
DimInSync ==
  ptyOpen /\ (\A r \in Resizer : resizePc[r] = "idle") => dim = ptyDim

\* protocol.md: after its replay, every subscriber gets the same output.
SameOutputForAll ==
  \A s \in subs : {Stream(s)[i].d[1] : i \in OutAt(s)} = Retained(base[s] + 1, Len(published))

\* protocol.md: the exit frame ends the stream.
ExitIsLast ==
  \A s \in Sub : \A i \in 1 .. Len(Stream(s)) - 1 : Stream(s)[i] # Exit

\* conpty.go: whoever spawned a console closes it when finished.
PtyReleased == doneClosed ~> ~ptyOpen
=============================================================================
