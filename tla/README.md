# A verification project for httpssh

httpssh keeps Windows shells alive behind an HTTP server: a *relay* (Go) spawns shells on
pseudo-consoles (ConPTY), retains their recent output, and serves them over WebSockets to a
mobile app (Flutter), a web page and a command-line `attach` client. Clients come and go; the
shells stay. This directory holds TLA+ models of the relay and of two of its clients, the TLC
configurations that check them, and proofs checked by TLAPS. `PROJECT.json` maps every definition to source lines.

## 1. The system

| component | source | state | operations | what makes it correct |
|---|---|---|---|---|
| scrollback ring buffer | `relay/internal/session/ringbuffer.go` | slice, head, size | Write, Snapshot | a snapshot is the last Cap bytes written, in order |
| session | `relay/internal/session/session.go` | closed flag, dimensions, repaint window, map of subscribers, scrollback, exit state | publishOutput, Subscribe, unsubscribe, fanout, Resize, WriteInput, Kill | a client sees every chunk once; nobody is forgotten or left hanging; one slow client harms nobody |
| session goroutines | `manager.go` pump, waitExit | local lists of subscribers to cancel | read loop, exit sequence | the same, in every interleaving |
| session manager | `manager.go` | registry byID, closed flag, reaper | Create, Get, List, Rename, Kill, Shutdown, reapOnce | no session is lost, leaked or left in the registry; idle ones go, watched ones stay; Shutdown returns |
| pseudo-console | `relay/internal/conpty` | console, child process | Read, Write, Resize, Wait, Close | (external library) |
| websocket handler | `relay/internal/server/websocket.go` | connection, reader and writer goroutine | handleWebSocket, pumpRead, pumpWrite | frames in order, connection ends when the session does |
| working directory tracker | `cwdtracker.go` | parser state over chunk boundaries | feed | an OSC 9;9 report is found however it is split |
| HTTP API, authentication, static files | `relay/internal/server`, `relay/internal/auth` | none | one handler per request | a reply says what is so; no bearer, no service |
| file service | `relay/internal/fileapi/service.go` | roots, resolved at the start | list and read, below a root or a session's directory | what is listed is there, a path handed out leads back, no path leaves its base, text comes out as it was written, an error says what is the case |
| relay process, service control | `cmd/httpssh-relay/main.go`, `internal/svc` | process lifecycle | buildConfig, runRelay, Execute | stops when told, with shells ended and requests answered |
| attach client | `cmd/httpssh-relay/attach*.go` | three goroutines, terminal mode | resolve, attach, resize watch | ends when any side ends, restores the terminal |
| configuration | `internal/config` | none after start | Default, Load, Validate, ResolveShell | what is refused is never run with |
| web client | `webfs/app.js` | socket, retry timer, current session | open, switch, reconnect | shows one session's output once |
| mobile terminal session | `mobile/lib/terminal` | channel generation, pending replay and output, history, last size sent, retry counter | connect, message, rebuild, resize, reconnect, dispose | after a reconnection the terminal shows the replay once, then the live output |
| mobile tabs | `mobile/lib/screens/terminal_workspace.dart` | list of tabs, active index | open, close, reorder | the tab the user chose is the one closed |
| mobile file browser | `file_browser_screen.dart`, `mobile/lib/files` | location, listing, requests in flight | open, back, reload | what is shown is what was asked for last |
| mobile profiles, settings | `mobile/lib/state`, `mobile/lib/auth` | preferences and secure store | load, save, delete | concurrent updates do not lose one another |

**How they interact.** An HTTP handler calls `Manager.Create`, which spawns a shell and starts
two goroutines: `pump` (reads the console, publishes) and `waitExit` (waits for the process,
tells subscribers, removes the session). A WebSocket handler calls `Get` and `Subscribe`, then
runs a writer that drains the subscriber's channel and a reader that calls `WriteInput` and
`Resize`. `Kill` is called by a DELETE, by the reaper and by `Shutdown`; it marks the session
closed and closes the console, and everything else follows from the process ending. The locks
are `Manager.mu` (read-write), `Session.mu` and the ring buffer's own. `m.mu` is taken before
`s.mu` where both are held (reaper, List), and much happens between critical sections, with
locals read under the lock and used after it: that is where the hazards are. Everything the
relay knows is in memory; nothing survives a restart.

**Hard behaviours** (all listed in `PROJECT.json`, "hazards", at their lines): a chunk and a
joining subscriber meeting; subscribers removed from the map by four goroutines and cancelled
later from local lists; a full queue; the nil map that `waitExit` leaves behind and the nil
registry that `Shutdown` leaves behind; a resize in three steps; Kill in two steps, with later
callers counting on the first; Create racing with Shutdown; the reaper judging and killing at
different times; and on the clients' side reconnections with old frames under way.

## 2. Modules

### Scrollback, RingBuffer, MCRingBuffer, RingBufferProofs
`Scrollback` says what is promised: the content is the last `Cap` bytes of all that was written.
`RingBuffer` is `ringbuffer.go` at the level of slice indices. The alternatives of `Write` are the
function's branches: empty write, chunk that alone fills the buffer, growth, growth that
overruns, and overwriting. `Unroll` is `Snapshot`. The refinement mapping sends `content` to
`Snapshot`; `ImplementsScrollback` is the abstract specification. `last`, the chunk just written, is
history in both: without it the abstract `Write` could explain any change by some chunk.

### Feed, Session, MCSession, SessionProofs
One session with its pump and waitExit goroutines and the callers of Subscribe, unsubscribe,
Resize and Kill. **Granularity:** a critical section of `s.mu` is one step and the code between
two of them is another, with the goroutine's locals as variables (`dropped` is `cancelSubs`,
`todo` and `evicted` are the lists of fanout, removeSubscriber and waitExit). Channel operations
outside the lock (fanout) are steps of their own, so that a queue that `fanout` found full (`FanoutEvict`) may have room
again when `removeSubscriber` takes the lock (`FanoutRemove`). A `select` with several ready cases is a
choice; its `default` runs only when no case is ready.

| model | code |
|---|---|
| `closed`, `exitKnown`, `doneClosed`, `subs`/`subsNil`, `dim`, `repaintUntil`, `scrollback` | fields of `Session` (`subsNil`: `subs` is the nil map) |
| `queue[s]`, `s \in cancelled`, `since[s]` | `sub.out`, `sub.ctx` done, `sub.subscribedAt` |
| `PumpRead`, `Suppress`, `Publish`, `PumpCancel`, `PumpStop` | `pump` with `publishOutput` (locked part, then cancelling) |
| `ExitRecord`, `Fanout*`, `ExitCollect`, `ExitCancel`, `ExitDone` | `waitExit` with `fanout` and `removeSubscriber` |
| `SubscribeBegin/Closed/Open`, `Receive`, `ContextEnd`, `Unsubscribe`, `UnsubscribeCancel` | `Subscribe`, the writer's channel receive, the request context, `removeSubscriber` |
| `ResizeCheck`, `ResizeApply`, `ResizeFail`, `ResizeRecord` | the two critical sections of `Resize` and the console call between them |
| `KillClosed`, `KillMark`, `KillClose` | `Kill` |
| `ShellExit`, `shellAlive`, `ptyOpen`, `ptyDim`, `repaintDue` | the console, modelled from its use |

Output is abstracted to numbered chunks of three kinds (text, a full redraw by a program,
ConPTY's own repaint); `looksLikeConPTYResizeRepaint` cannot tell the last two apart. The
scrollback is counted in chunks here and in bytes in `RingBuffer`. The variables `published`,
`base`, `skipped` and `sent` are history: no guard reads them.

`Feed` says what all this promises the subscribers, without locks, goroutines, clocks or local lists: a
replay, then every chunk that enters the scrollback, but for what is withheld around a resize; no loss of
a subscription but for a cause; the exit frame once, and nobody taken over untold. The refinement mapping
is in `Session`, an operator for each abstract variable: `phase` (open, closed, ended), `resizing`
(`repaintUntil` is set), `owner` (`subPc` by three stages), `feed` (`sent` and `queue` together), `taken` and `doomed`
(whom `fanout` found slow and has still to take off: that judgement is final, whatever room there is by then);
`log` and `on` are `published` and `subs`. `Publish` drops and withholds in one step there too, because
`publishOutput` does it under one lock; cancelling comes later in both, as other goroutines can see it.

### Manager, MCManager, ManagerProofs
The registry with its callers and the reaper; of each session only `closed`, `subs`, `lastIO` and
`timeout`. The reaper holds `m.mu` for reading while it looks at one session after the other
(`reapPc = "scan"`), which keeps writers of the registry out (`Unlocked`) and lets everything
that takes only a session's lock go on. `Mark` and `Close` are the two halves of `Session.Kill`.
Closing the console may report an error, after which `Manager.Kill` returns without removing the
session. `leftAt` is history. Rename, Get and List change nothing that the model keeps.

### CwdTracker, MCCwdTracker, CwdTrackerProofs
Its operator `Feed` is one step of `feed`, `Fed` the function over a chunk, and `Pump` a read of any size, so every
split of the output over reads is explored. Bytes are tokens: the control bytes, the marker `9;9;`, the quote and
the segments of a path; the white space around a payload, which `parseOSC99` takes off before the quotes, is not among
them. `Output` is what the shell may write, the beginnings of an output included. `IsReport` tells what a report is from
the whole stream, without a parser; the properties compare the two. Two exceptions are in the properties because they are
in the code: a payload longer than `cwdMaxBody` is cut, and a report that begins inside another sequence is lost.

### FileService, MCFileService, FileServiceProofs
`NewService`, and then one request at a time from its handler to its answer. A request shares nothing
with another one, but the disk does: each call of the operating system (`EvalSymlinks`, `Stat`,
`ReadFile`, `ReadDir`, one more resolution per entry) is a step, and the disk changes to any other
between two of them. A disk maps paths to directories, files and links; `Walk` follows the names of a path
and the links among them, `Fuel` of them at most, as the operating system gives up at some number, and
`Real` is where it arrives or why it does not. **The system may refuse any of these calls** (no permission, a file
someone has open, a name it does not take): `Denied`, `EntryDenied`, `ChildDenied` and `StartDenied` stand beside
the calls and lead where an error leads that is not `os.ErrNotExist`, to `internal_error`, to an entry
left out, or to a service that does not start. `Sorted` leaves equals in any order, as `sort.Slice` does.
`calm` and `refused` are history: the disk is still the one the request met, and the system refused it something.

A path is a sequence of names, and absolute if it names a volume, since the relay runs on Windows. `Trim` is
`strings.TrimSpace` of the whole path: blanks go off the end of its last name and off the beginning of its first one, but
not off one behind a volume. `Lead` and `Trail` say what is left of each name, for whatever characters are blanks; nothing may
be left, and a path that then begins with a slash stays below the base (`Target`).

A file is its byte order mark and, for each encoding its bytes are valid in, what kinds of characters they read
as there (`as`). `DecodeText` decides by the mark, or takes for UTF-8 whatever is valid as UTF-8, or tries Shift_JIS, and
never looks at `written`, what the file was meant to be: that is for `DocumentIsText`. `HttpStatus` is `writeFileError`.

| model | code |
|---|---|
| `Start`'s `Usable`, `roots`, `limit` | `NewService`, `byID`, `maxFileBytes` |
| the requests; `EvalBase`, `StatBase`; `Resolve` | the four handlers; `normalizeBase`; `resolveBase` with `insideRoot` |
| `Stat`, `ReadFile`, `ReadDir`, the entry and child steps, `ListDone` | `readResolved`, `listResolved` |

### Relay, MCRelay, RelayProofs
The process: command line, file and defaults become `cfg` (`Merged`, `WithBearer`, `Valid`), then
`runRelay` runs in the foreground or under the service handler's `Execute`. `Relay` extends `Manager` and
takes its steps, so that requests, the reaper, `Shutdown` and the exits of shells interleave as they do there;
its own names are `RelayInit`, `RelayNext`, `RelaySpec`.

| model | code |
|---|---|
| `runPc`, `Selected`, `Shutdown`, `Drain`, `Drained`, `FailReturn`, `Return` | `runRelay`: the select, `mgr.Shutdown`, `httpSrv.Shutdown` with its ten seconds |
| `listener`, `listenErr`, `accepting` | `ListenAndServe` in its goroutine, its error channel, whether connections are taken |
| `service`, `errCh`, `received`, `statuses`; `Execute`, `Control`, `RelayEnds`, `RelayEnded` | the loop of `Execute`, the channel of one, what is told to the service manager |
| `PostRefused/Spawn/Failed/Reply`, `CreateRest`, `DeleteRefused/Call/Step` | middleware and handlers of POST and DELETE, around the manager's steps |
| `ctxDone`, `exit` | the context of signals and of the service, the exit code; `"service"` if the service stopped with a code of its own, of which only the service manager is told |

`asked` keeps who asked, told without `evaluate`. Settings are classes of values (`"short"` for a
bearer below the minimum, `"other"` for what `Validate` refuses).

### Attach, MCAttach, AttachProofs
One websocket from end to end: `runAttach` and its goroutines, the connection, and the relay's handler
with its writer, over one subscription of one session. Of the session it keeps what one subscriber
sees: a queue, how long it has been subscribed, whether its context is done, and the size.

`phase` tells a subscriber that joined less than two repaint windows ago (`fresh`) from one that
also is inside such a window (`repaint`) and from the others (`settled`). A change of the size, by this client or another
(`OtherResizes`), opens a window, so the command's own first resize frame does unless the size is the session's already;
`TimePasses` closes it. What is published in it does not reach a fresh subscriber: `Emit` puts it in `withheld`, a history
variable, instead of the queue. A repaint that `suppressResizeRepaintLocked` recognises reaches nobody and is no output here.

| model | code |
|---|---|
| `Resolve`, `Dial`, `Open`, `Hangup`, `Return` | `runAttach` up to `runAttachIO`; its dial, raw mode and first resize; what follows the end of `ioCtx` |
| `stdin`, `reader`, `pinger` with `Type`, `StdinWrites`, `Reader*`, `Ping`, `SendSize` | the goroutines of `runAttachIO` |
| `watcher` with `WatchLooks`, `WatchPolls`, `WatchSends` | `watchResize`: the first look, a look that takes a new size for seen, and the send of that size, which waits for room |
| `up`, `down`, `link`, `Break` | the connection: frames under way, lost or not when it ends |
| `handler`, `Subscribe`, `Gets*`, `Replies`, `ReadFails`, `Closes` | `handleWebSocket` with `pumpRead`, and its deferred calls; `GetsResize` is `Session.Resize`, which may refuse |
| `writer`, `WriterSends/Stops/TimesOut` | the select of `pumpWrite`, with the thirty seconds of a write |
| `sub`, `phase`, `subDone`, `Emit`, `SessionEnds`, `Collect` | the subscription, fanned out to, dropped and cancelled |

Outputs, keys and sizes are numbered, so that order and completeness are differences of numbers. Both ends of the command
are a terminal, or it is refused, so its size is always known.

### MobileTerminal, MCMobileTerminal, MobileTerminalProofs
The class `TerminalSession`. Dart runs one callback at a time, so a callback is a step; sockets deliver
late, and go on delivering after the tab has turned to another one (`cur` is the socket whose
generation is `_channelGen`). `Connect` is `_connect`, `Listen` the listener with `_onMessage`,
`ScheduleReconnect` the function of that name, `Apply` is `_applyPendingReplay` two frames after it was
scheduled, `Rebuild` is `_rebuildTerminalFromHistory`, and `Layout`, `SetColumns`, `ToggleWrap`,
`Dispose` come from outside. The relay is a source of frames that keeps `protocol.md`'s promises
for one subscriber: a replay, then every output, then an exit frame. That the relay may withhold output in a repaint window,
or drop a subscriber and leave the socket open, is in `Session` and `Attach` and outside this module; what is shown is what the
tab makes of the frames it is sent.

### Mutants
Definitions marked `mutant` are plausible mistakes in the code (a forgotten cancel, a select
without default, a copy after the reset). No specification uses them; `PROJECT.json` names, for
each property, the one that breaks it.

## 3. Model checking

| run | instance | shows |
|---|---|---|
| `ringbuffer` | capacity 5, two byte values, chunks of 0..6 bytes | refinement of `Scrollback` through every branch, including the wrap and the oversized chunk |
| `delivery` | 2 subscribers, 1 killer, queues of 2, 2 chunks, scrollback of 1 | refinement of `Feed` around joining, eviction and leaving; no insertion in the nil map; nobody orphaned; the exit frame reaches everyone |
| `liveness` | 1 subscriber, killer and resizer, queue of 2 | the session's end releases everyone; a subscriber that never reads does not stop the pump; Kill ends the session |
| `resize` | 1 subscriber, 1 resizer, repaints, a clock of 2 ticks, invalid dimensions | exactly-once delivery with suppressed and withheld chunks |
| `registry` | 2 sessions, 1 DELETE, 2 Shutdowns, reaper, 2 ticks | no write to the nil registry, no lost session, every marked session has its killer |
| `manager_liveness` | 1 session, client, DELETE, Shutdown, reaper, 2 ticks | closed sessions leave the registry, Shutdown returns and leaves no shell, idle sessions are reaped |
| `cwd` | any 5 tokens; outputs of up to 3 pieces, of up to 24 tokens; reads of 1 to 14, bodies of 4 | the directory kept is always one that was reported, and the last one that could be |
| `files` | 7 disks of up to 9 paths, 5 configurations, 14 paths, 5 directories of a shell, names with blanks on either side | listings name what is there, paths lead back, nothing outside the base is looked at, text is text, an error is true |
| `relay` | 1 session, 1 DELETE, 4 command lines, 4 files, 4 credentials, 2 ticks | a clean exit has no shell and no request left; replies are true; the service handler neither waits twice nor reports out of order; a stop ends the process |
| `attach` | 5 command lines, queues and connection of 1, 2 outputs, 2 keys or 4 sizes, other clients that resize | output and keys arrive in order, an exit code only after all output but what is withheld, nothing is left behind, both sides end, sizes get through |
| `terminal` | 2 connections, 3 outputs, 2 changes by the user, histories of 2 chunks, 2 widths | the screen has everything once over reconnections and rebuilds; one socket; input only while all is in place; a tab that lost its socket opens another |
| `dropped_open` | as `attach` | a violation, see below |

**Bounds.** `MaxChunk`, `MaxResize`, `MaxTime` limit chunks, calls of Resize and clock ticks. With a queue of 2
the replay and one chunk fill it, so the second chunk or the exit frame evicts; a scrollback of
one chunk evicts at the second. Two subscribers are enough for one to be dropped while another
is served, joins or leaves; the proofs cover any number. Two ticks take the clock beyond one
window (`Window = 1`), and, in `Manager`, beyond the timeout of one tick (`lastIO < now - timeout` is strict). Two
sessions let Shutdown or the reaper stop between one and the next.

In `cwd` the outputs are all of five tokens, the shortest complete report among them, and all of three pieces: reports, plain
and quoted, ended by BEL or by ST, one that is too long, one that is empty, one broken off, titles whole and left open, and text.
So there are up to three complete reports, one may overrule another within a chunk or in a later one, and any of them
may follow, hold or interrupt a sequence. `MaxUnread = 14` is two reports in one read; reads of 1 and up split every sequence
at every place. `MaxBody = 4` holds the mark and three tokens, a quoted path of one segment. In `files` a name
may begin or end with a blank or be one, a file may be valid in two encodings, and `Fuel = 8` is more
names and links than any path takes, but for the circles. In `relay` the
clock is `Manager`'s. In `attach`, `Queue`, `Wire` and `ResizeQueue` of 1 make every queue full at once;
`Loads` lists what occurs in one behaviour: an output and the end, two outputs, two keys, a key and the end, three changes of the
size, or a session created for the command. Each of them meets the timeouts, lost connections, signals, refusals, resizes
of other clients and repaint windows, which are not counted. Three changes are what it takes for the watcher to wait with an
old size while the channel is full and the newest is on the screen. In `terminal` one
reconnection makes old and new frames coexist, three outputs overrun a history of two, and widths below and above a fixed
number of columns take every branch of `remoteColsFor`.

**Deadlock** is checked except where the system may really stop: a relay that has ended, a client whose
command has returned, a tab that is disposed of with no frame under way, a shell that is silent, a
service with nothing asked of it (`files` and `cwd` end with their bounds).

**Fairness.** Weak fairness for every goroutine past its first step: Go's scheduler runs what is not
blocked. None is assumed of shells, clients or reads of an idle console, nor of anybody to start
a call. In `Manager`, steps that wait for `m.mu` are strongly fair, since a `sync.RWMutex` admits no new
reader while a writer waits (the reaper's scans would otherwise be able to starve a writer), and
so is the reaper's stop: a cancelled context is ready each time round the `select`, a tick only in
some. The reaper's ticker keeps ticking. `Relay` assumes the same, and that every goroutine of the process goes on while
the process does; not that shells exit, that the listener fails, or that anybody asks it to stop.
`Attach` assumes that the goroutines of both sides go on; nothing makes the user type, the session end, a connection fail,
or `pumpWrite` choose a frame once its subscription has ended. Writes of keys and sizes are strongly fair, because
pings use the same connection and free it again. `MobileTerminal` assumes that listeners are called and that opening a socket
does not throw for ever; not that the relay answers, and not that a replay is ever applied: `addPostFrameCallback` asks for no
frame, so the second of the two (`terminal_session.dart:243-249`) waits for somebody else to draw.

**Divergences.** One run checks a statement of the repository that the code does not keep; `PROJECT.json`,
"findings", quotes it. `dropped_open`: when a subscriber is dropped, or its session ends, `pumpWrite`
returns, but the handler stays in `pumpRead` and the websocket stays open, against `session.go:367` ("tear down the connection") and
`protocol.md:40` ("After this frame the relay closes the WebSocket with code `1000`").
`BothSidesEnd` shows what does hold of a session that has ended: the next key finds out. A subscriber that was
dropped from a live session types on, and nothing tells it.

These statements are defined in the modules, without a run of their own; the code does not keep
them either:

| statement | what happens |
|---|---|
| `Session.DimInSync` | `session.go:143`: with two callers the size recorded last is not the one applied last, and a request for the recorded size is then dropped as a no-op ("No-ops silently when the requested size matches what the PTY is already at", `session.go:121`) |
| `Session.PtyReleased` | `manager.go:316`: a shell that ends by itself leaves its console open; `waitExit` does not close it and `Kill` returns early (`conpty.go:23`: "The caller must Close the PTY") |
| `Session.SameOutputForAll` | `session.go:205`: output in a resize window does not reach a subscriber that joined shortly before (`protocol.md:107`: "All subscribers receive the same `out` stream after their own `replay`") |
| `Session.ExitIsLast` | `manager.go:324`: output can follow the exit frame, since `waitExit` and `pump` are not ordered (`protocol.md:40`) |
| `Manager.ReapsOnlyUnwatched` | `manager.go:283`: the reaper kills a session that gained a client after it was judged idle (`manager.go:237`) |
| `Manager.ReapsOnlyAfterGrace` | `manager.go:268`: the idle time includes time a client was attached in silence (`architecture.md:94`: on a disconnect "The session's idle timer starts") |
| `Attach.ReturnsWhenDone` | `attach.go:502` waits for the goroutine that reads the terminal (418), so the command does not return "when ctx is canceled, the shell exits, or the WebSocket closes" (371-373) before the next key |
| `Relay.ConfiguredShellUsed` | `server.go:147` asks for pwsh when a request names no shell, so the shell of the configuration (`main.go:48`, 227-229) is not used |
| `Relay.NotFoundIsGone` | `server.go:211`: any error of `Kill` is answered 404, so a session whose console did not close, and that is still listed, is too ("`404 not_found` if it does not exist", `api-contracts.md:111`) |
| `FileService.GoneCwdIsInvalid` | `service.go:329-331`: a directory that is gone is answered 404, not "`409 cwd_invalid` (the CWD reported by the shell is not absolute or no longer exists)" (`api-contracts.md:184-186`) |

Seen while modelling, and stated nowhere: a repaint the pump reads between the console's resize and the
second critical section of `Resize` is streamed and retained (`protocol.md` says it is suppressed); an empty `-bearer` makes the
relay generate one that it does not print (`main.go:129`); a shutdown does not wait for
websockets; when the listener fails, handlers are cut off;
one looping link, or one entry the system refuses, makes a whole listing fail; paths that begin or end with a blank cannot be
asked for, since they are trimmed (`service.go:352`), and may be taken for others; Shift_JIS text whose bytes are valid UTF-8 as well (C2 B1) comes out as
other characters (`service.go:433`); an absolute path that names the root by a link to it is refused; a file that grows between `Stat`
and `ReadFile` may exceed the limit; UTF-8 cut in the middle of a character may be read as Shift_JIS; the resize watcher
misses a change before its first look (`attach_windows.go:72`); a session created by `attach --new` stays when the
dial fails; a writer that waits thirty seconds for a pong being written leaves a connection without a writer; the mobile tab
keeps the last size sent over a reconnection, resets its retry counter before anything has arrived
(`product-spec.md`, FR-12, asks for a backoff), drops keys while it is not ready (`data-model.md:118`
has a queue), leaves socket and ping timer running after an exit, and shows output that follows the exit frame only
after a rebuild; closing a tab before the active last one moves the selection twice
(`terminal_workspace.dart:300`).

## 4. Proofs

Every invariant that a run checks is proved for every value of the constants (any number of
subscribers, sessions, sockets or requests; any capacities, windows, disks and configurations). What is
assumed of the constants is the named `ASSUME` of each module, which TLC evaluates; the bounds on chunks, ticks and
events are constants like the others, so nothing depends on their values.

**RingBufferProofs.** `TypeCorrect` and `Implements`. Every branch of `Write` turns the snapshot into the
last `Cap` bytes of snapshot and chunk; the conjunct `size < Cap => head = 0` is what the growth branches need.

**SessionProofs.** `TypeCorrect`, and
* `NilMapSafe`, by `ClosedFirst`: `waitExit` sets `closed` before it nils the map,
  and `closed` is never reset, so the test in `Subscribe` suffices.
* `NobodyOrphaned`, by `Custody`: the goroutines' local lists are empty except where they
  are about to be cancelled, so refilling one forgets nobody. Without it the property is not
  inductive: `Publish` overwrites `dropped`.
* `ExitServed`, by `ExitOwed`: during the fanout everyone registered is still to be
  served, has been served or has ended; nobody new can join, by `ClosedFirst`.
* `DeliveredOnce` (`ExactlyOnce`), by `Numbered` (chunks are numbered as they are read) and `Streams` (the scrollback is
  the end of what was published; what was sent and what is queued are, together, the replay and then
  the retained chunks since, up to a point that is the present for whoever is registered).
* `KeepsItsPromise` (`ImplementsFeed`): every step of `Session` is a step of `Feed` or changes nothing that a subscriber
  sees. It needs all of the above and three invariants more: `Members` (whoever is in the map or in a goroutine's list
  has joined), `Untold` (whom fanout has yet to serve was not served, so that the exit frame comes once) and `Counted`.
  Two properties of `Feed` follow for `Session` from its steps alone: `CutOff` (`CutOffForCause`) and `ExitOnce` (`ToldOnce`).

**ManagerProofs.** `TypeCorrect`, `NilMapSafe` (`NoNilRegistry`), `SessionsFound` (`NoLostSession`),
`KillerOnTheWay` (`MarkedHasKiller`), `ShutdownLeaves` and `OneWay` (`NoWayBack`). The inductive invariant `IInv` adds three parts to the types: `Origin`
(whoever holds a session got it from the registry, so a session being spawned is in nobody's hands
and not closed), `Marks` (whoever removes a session from the registry finds it closed) and `Stops` (one call of Shutdown
works at a time, on one session at a time, so that it never forgets the one it has to close). `ShutdownLeaves`
says what a returned Shutdown guarantees and what it does not: a shell may still run in the hands of a Create that has not
returned, of a Kill about to close its console, or of the reaper. `OneWay` is an action property: a session marked closed
stays so, admits nobody, leaves the registry for good, and no console is closed under a session that was not marked.
It needs `Marks`, and of Shutdown that it has marked the session it is about to close (`StopMarked`).

**RelayProofs.** `RunsTheManager`: every step of the relay is a step of `Manager` or leaves it alone, so that the
manager's theorems hold of the relay (`StaysManaged`, `RelayKeepsSessions`, `RelayOneWay`). With them, and with an invariant `Kept` of what the process, its
requests and the service handler know: `RelayTypeCorrect`, `ExitsClean` (`CleanExit`: `ShutdownLeaves` leaves only
shells of requests, and `Drain` has waited for those), `RepliesTrue`, `ServiceKeepsProtocol`.

**AttachProofs.** `TypeCorrect`, `ExitComplete` (`ExitMeansComplete`), `LeavesNothing` (`NothingLeftBehind`) and `InOrder`
(`StreamsInOrder`). `Downstream` and `Upstream` follow a frame through queue, writer, connection and reader: the channels, in
their order, hold a chain of numbers (`Chain`), each frame the next one or one that only withheld outputs separate from it
(`Linked`); the chain reaches the last output produced, but for withheld ones, while the subscription lasts, is cut only where nobody
reads on, and has the exit frame at its end. So whatever is missing on the terminal when the exit code comes is
in `withheld`, and `withheld` grows only in a repaint window of a fresh subscriber (`Emit`). `Carried` and `Control` say which goroutine may
hold a frame, and which are still there.

**MobileTerminalProofs.** `TypeCorrect`, `OneAtATime` (`OneSocket`), `ReadyIsLive` (`ReadyMeansLive`), `HistoryKept`
(`HistoryIsScreen`), `GapFree` (`NoGapNoDuplicate`) and `DownForGood` (`StaysDown`). `Sockets` says what each socket, old
or new, may still deliver, and `Stream` that the screen with the replay and output pending, and then what the socket has under
way, is the output from some point on. `DownForGood` is an action property: what is still on its way does not move a tab that
was disposed of, and nothing brings a tab back that saw the exit frame. It needs two more invariants: a replay is the first
frame of its socket (`OneReplay`), and a tab that saw the exit frame has had its replay (`ClosedHeard`), so no other follows.

**CwdTrackerProofs.** `TypeCorrect`, `KeepsReported` (`CwdWasReported`) and `FollowsShell` (`CwdFollowsShell`). The
invariant ties the parser's state to the stream that was read: where the sequence it is in began, what of it the body holds
(`Backward`), what state a sequence found in the stream must have led to (`Forward`), that the directory kept was
reported and that nothing later was. It is proved for one byte and then for a chunk, by induction over its bytes.

**FileServiceProofs.** `TypeCorrect`, `ListsWhatIsThere` (`ListingIsTrue`), `LeadsBack` (`PathsLeadBack`),
`ReadsWhatIsWritten` (`DocumentIsText`) and `ErrorsSayWhy` (`ErrorsAreTrue`). First the operators: what a path resolves to
has no link on the way (`RealType`) and so resolves to itself (`SolidReal`); a clean path has no `.` and `..` (`CleanType`)
and is its own cleaning; the trimming leaves a path alone that neither begins nor ends with a blank, and of others makes paths that
may begin with a slash (`Trimmed`, `TargetType`); a path below the base is taken apart and put together again (`RelBack`). Then the invariant: what is
looked at is below the base whether the disk changes or not (`Found`), and as long as it does not (`calm`) it is its own resolution
(`AtRest`), of the kind that `Stat` saw (`Kinds`); what a listing holds is so (`ShownIsTrue`), and what it does not yet hold is
being looked at or still to be, or the system refused to look at something (`NoneForgotten`, `Pending`). A request goes on after a
refusal only in a listing (`Refused`). `DocumentIsText` rests on the order of the trials: the mark first, then UTF-8, then Shift_JIS (`DecodeIs`).

**Induction.** The library's induction theorems take an operator as a parameter, which the provers at hand cannot
instantiate. Where one is needed (a chunk fed byte by byte, a path followed name by name) it is the lemma `Induction`,
over a set of numbers: an injective map of a finite set into itself is onto, so the numbers up to one that fails cannot
all have a predecessor that fails. Recursive functions are shown to exist by the same lemma (`CleanExists`, `WalkExists`).

**Model-checked only.** Liveness, with its fairness and ENABLED, is out of the prover's reach: `ExitReleasesEveryone`,
`PumpNeverStalls`, `KillEndsSession`, `EntryCleared`, `ShutdownEndsShells`, `ShutdownReturns`, `IdleIsReaped`, `StopEnds`,
`BothSidesEnd`, `SizeReachesSession` and `Recovers` stay with TLC.

**What the proofs changed.** Some statements were true of the instances and not in general, and are stated more exactly
since: a payload shorter than the bound was cut by `CwdWasReported` as if it were longer; `ErrorsAreTrue` left out a relative
path that leaves the base and comes back by a link, and the directory of a shell that lies below a file; a path that is trimmed down to
one that begins with a slash is taken as it is by `Target`, below the base. The disks of `files` have these cases now.

## 5. Plan

1. done: `RingBuffer`, `Session`, `Manager`, their runs and first proofs.
2. done: `CwdTracker`, `FileService`, `Relay` over `Manager`, `Attach`, `MobileTerminal`, and their runs.
3. done: every invariant of the runs proved.
4. done: what the subscribers see of `Session` as an abstract specification, `Feed`, and its refinement; the action
   properties `NoWayBack`, `CutOffForCause` and `StaysDown`.
5. Open: `Attach` and `MobileTerminal` have a source of frames of their own, for one subscriber: in `Attach` with the withholding of
   the repaint window, in `MobileTerminal` without. That `Feed` with one subscriber drives `Attach` is argued from the text of
   both and not proved.

## 6. Not modelled

* The web client: it serves for testing, and its reconnection is a simpler form of the mobile app's.
* Mobile tabs, file browser, profiles and settings: lists and stores changed in single callbacks; what
  can go wrong there is visible in the code and listed under "hazards".
* The mobile API client, models and screens; widgets, themes and layout; the web page's files.
* Handlers that change nothing: health, list, get, roots; rename, which changes a title that nothing
  else reads; the access log and the recovery from panics.
* JSON and YAML, URLs, the shells' argument lists, logging, close codes, the role of a subscriber and titles: no
  state that the properties are about.
* The Unix variants: `conpty_other.go` always fails, and the resize watcher there is a signal handler.
* The ConPTY library, the websocket library, the service manager and the runtimes of Go and Dart are external; what is
  modelled of them is how the code uses them.

## 7. Running

    tlc -workers 2 -config MCSession_delivery.cfg MCSession.tla
    tlapm SessionProofs.tla

The longest runs, `resize`, `cwd`, `relay` and `attach`, take one to four minutes each; `AttachProofs` and `FileServiceProofs` are the longest proofs.
