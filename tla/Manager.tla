------------------------------ MODULE Manager ------------------------------
(***************************************************************************)
(* relay/internal/session/manager.go: the registry of sessions, with the   *)
(* callers of Create, Kill and Shutdown, the idle reaper, and the          *)
(* goroutine waitExit of each session.                                     *)
(*                                                                         *)
(* A critical section of m.mu or of a session's mu is one step.  The       *)
(* reaper alone holds m.mu (for reading) over several steps, while it      *)
(* looks at one session after the other.  Of a session only what the       *)
(* registry and the reaper look at is kept: closed, subs and lastIO; what  *)
(* its subscribers receive is Session.  Rename, Get and List change        *)
(* nothing but a title.                                                    *)
(***************************************************************************)
EXTENDS Integers, FiniteSets

CONSTANTS
  Sess,            \* calls of Create, one session each
  Deleter,         \* calls of Kill(id), the DELETE handler
  Stopper,         \* calls of Shutdown
  Client,          \* websocket handlers
  Timeout,         \* idle timeouts asked of Create, in clock ticks
  DefaultTimeout,  \* Options.IdleTimeout
  None,            \* no session
  MaxTime          \* bound: clock ticks

\* A negative timeout asks for the default, zero for no reaping at all.
ASSUME ManagerAssumption ==
  /\ Timeout \subseteq Int
  /\ DefaultTimeout \in Nat \ {0}
  /\ None \notin Sess
  /\ MaxTime \in Nat

VARIABLES
  byID, mgrClosed,                             \* Manager; byID is nil once closed
  live, ptyOpen,                               \* each session's shell and console
  closed, subs, lastIO, timeout,               \* fields of each session
  createPc, exitPc,                            \* Create and waitExit of each session
  reapPc, reapNow, unscanned, victims, victim, \* the reaper
  deletePc, deleteOf,                          \* Kill(id)
  stopPc, toKill, stopping,                    \* Shutdown, and the session it kills
  clientPc, clientOf,                          \* websocket handlers
  clock,
  leftAt                                       \* history: last departure of a client

registry    == <<byID, mgrClosed>>
console     == <<live, ptyOpen>>
fields      == <<closed, subs, lastIO, timeout>>
lifecycle   == <<createPc, exitPc>>
reaperVars  == <<reapPc, reapNow, unscanned, victims, victim>>
deleterVars == <<deletePc, deleteOf>>
stopperVars == <<stopPc, toKill, stopping>>
clientVars  == <<clientPc, clientOf, leftAt>>
vars == <<registry, console, fields, lifecycle, reaperVars, deleterVars, stopperVars,
          clientVars, clock>>

\* NewManager.
Init ==
  /\ byID = {} /\ mgrClosed = FALSE
  /\ live = {} /\ ptyOpen = {}
  /\ closed = {} /\ subs = [s \in Sess |-> {}]
  /\ lastIO = [s \in Sess |-> 0] /\ timeout = [s \in Sess |-> DefaultTimeout]
  /\ createPc = [s \in Sess |-> "idle"] /\ exitPc = [s \in Sess |-> "none"]
  /\ reapPc = "idle" /\ reapNow = 0 /\ unscanned = {} /\ victims = {} /\ victim = None
  /\ deletePc = [d \in Deleter |-> "idle"] /\ deleteOf = [d \in Deleter |-> None]
  /\ stopPc = [x \in Stopper |-> "idle"] /\ toKill = {} /\ stopping = None
  /\ clientPc = [c \in Client |-> "idle"] /\ clientOf = [c \in Client |-> None]
  /\ clock = 0
  /\ leftAt = [s \in Sess |-> 0]

\* Who wants to write the registry waits for the reaper's scan to end.
UnlockedEarly ==  \* mutant: Shutdown keeps m.mu until the reaper has stopped
  reapPc # "scan" /\ \A x \in Stopper : stopPc[x] \in {"idle", "done"}
Unlocked == reapPc # "scan"

-----------------------------------------------------------------------------
\* Create resolves the shell and spawns it, or fails before anything is kept.
CreateRefuse(s) ==
  /\ createPc[s] = "idle"
  /\ createPc' = [createPc EXCEPT ![s] = "failed"]
  /\ UNCHANGED <<registry, console, fields, exitPc, reaperVars, deleterVars, stopperVars,
                 clientVars, clock>>

\* The idle timeout of a new session.
EffectiveRaw(t) == t  \* mutant
Effective(t) == IF t < 0 THEN DefaultTimeout ELSE t

CreateSpawn(s, t) ==
  /\ createPc[s] = "idle"
  /\ live' = live \cup {s} /\ ptyOpen' = ptyOpen \cup {s}
  /\ lastIO' = [lastIO EXCEPT ![s] = clock]
  /\ timeout' = [timeout EXCEPT ![s] = Effective(t)]
  /\ createPc' = [createPc EXCEPT ![s] = "spawned"]
  /\ UNCHANGED <<registry, closed, subs, exitPc, reaperVars, deleterVars, stopperVars,
                 clientVars, clock>>

\* Mutant: does not look whether the manager was shut down.
CreateBlind(s) ==
  /\ createPc[s] = "spawned" /\ Unlocked
  /\ byID' = byID \cup {s}
  /\ createPc' = [createPc EXCEPT ![s] = "registered"]
  /\ UNCHANGED <<mgrClosed, console, fields, exitPc, reaperVars, deleterVars, stopperVars,
                 clientVars, clock>>

CreateRegister(s) ==
  /\ createPc[s] = "spawned" /\ ~mgrClosed /\ Unlocked
  /\ byID' = byID \cup {s}
  /\ createPc' = [createPc EXCEPT ![s] = "registered"]
  /\ UNCHANGED <<mgrClosed, console, fields, exitPc, reaperVars, deleterVars, stopperVars,
                 clientVars, clock>>

\* Mutant: returns the error and leaves the console open.
CreateLeak(s) ==
  /\ createPc[s] = "spawned" /\ mgrClosed /\ Unlocked
  /\ createPc' = [createPc EXCEPT ![s] = "failed"]
  /\ UNCHANGED <<registry, console, fields, exitPc, reaperVars, deleterVars, stopperVars,
                 clientVars, clock>>

\* The manager was shut down meanwhile: close the console and give up.
CreateTooLate(s) ==
  /\ createPc[s] = "spawned" /\ mgrClosed /\ Unlocked
  /\ createPc' = [createPc EXCEPT ![s] = "abort"]
  /\ UNCHANGED <<registry, console, fields, exitPc, reaperVars, deleterVars, stopperVars,
                 clientVars, clock>>

CreateAbort(s) ==
  /\ createPc[s] = "abort"
  /\ live' = live \ {s} /\ ptyOpen' = ptyOpen \ {s}
  /\ createPc' = [createPc EXCEPT ![s] = "failed"]
  /\ UNCHANGED <<registry, fields, exitPc, reaperVars, deleterVars, stopperVars, clientVars,
                 clock>>

\* go m.pump(s), go m.waitExit(s).
CreateStart(s) ==
  /\ createPc[s] = "registered"
  /\ createPc' = [createPc EXCEPT ![s] = "done"]
  /\ exitPc' = [exitPc EXCEPT ![s] = "wait"]
  /\ UNCHANGED <<registry, console, fields, reaperVars, deleterVars, stopperVars, clientVars,
                 clock>>

Create(s) ==
  \/ CreateRefuse(s) \/ CreateRegister(s) \/ CreateTooLate(s) \/ CreateAbort(s) \/ CreateStart(s)
  \/ \E t \in Timeout : CreateSpawn(s, t)

-----------------------------------------------------------------------------
\* The shell ends by itself; with Close, the console ends it.
ShellExit(s) ==
  /\ s \in live
  /\ live' = live \ {s}
  /\ UNCHANGED <<registry, ptyOpen, fields, lifecycle, reaperVars, deleterVars, stopperVars,
                 clientVars, clock>>

\* publishOutput notes the time of the output.
Output(s) ==
  /\ createPc[s] = "done" /\ s \in ptyOpen
  /\ lastIO' = [lastIO EXCEPT ![s] = clock]
  /\ UNCHANGED <<registry, console, closed, subs, timeout, lifecycle, reaperVars, deleterVars,
                 stopperVars, clientVars, clock>>

Tick ==
  /\ clock < MaxTime
  /\ clock' = clock + 1
  /\ UNCHANGED <<registry, console, fields, lifecycle, reaperVars, deleterVars, stopperVars,
                 clientVars>>

-----------------------------------------------------------------------------
\* waitExit: record the exit, take the subscribers away, leave the registry.
ExitRecord(s) ==
  /\ exitPc[s] = "wait" /\ s \notin live
  /\ closed' = closed \cup {s}
  /\ exitPc' = [exitPc EXCEPT ![s] = "collect"]
  /\ UNCHANGED <<registry, console, subs, lastIO, timeout, createPc, reaperVars, deleterVars,
                 stopperVars, clientVars, clock>>

ExitCollect(s) ==
  /\ exitPc[s] = "collect"
  /\ subs' = [subs EXCEPT ![s] = {}]
  /\ exitPc' = [exitPc EXCEPT ![s] = "remove"]
  /\ UNCHANGED <<registry, console, closed, lastIO, timeout, createPc, reaperVars, deleterVars,
                 stopperVars, clientVars, clock>>

\* Mutant: leaves the removal to whoever called Kill.
ExitStay(s) ==
  /\ exitPc[s] = "remove" /\ Unlocked
  /\ exitPc' = [exitPc EXCEPT ![s] = "done"]
  /\ UNCHANGED <<registry, console, fields, createPc, reaperVars, deleterVars, stopperVars,
                 clientVars, clock>>

ExitRemove(s) ==
  /\ exitPc[s] = "remove" /\ Unlocked
  /\ byID' = byID \ {s}
  /\ exitPc' = [exitPc EXCEPT ![s] = "done"]
  /\ UNCHANGED <<mgrClosed, console, fields, createPc, reaperVars, deleterVars, stopperVars,
                 clientVars, clock>>

WaitExit(s) == ExitRecord(s) \/ ExitCollect(s) \/ ExitRemove(s)

-----------------------------------------------------------------------------
\* The two halves of Session.Kill, and what it does to a closed session: nothing.
Mark(s) == closed' = closed \cup {s} /\ UNCHANGED <<subs, lastIO, timeout>>
Close(s) == live' = live \ {s} /\ ptyOpen' = ptyOpen \ {s}

\* Mutants: no exemption for the timeout 0; twice the timeout.
StaleUnlimited(s) == s \notin closed /\ subs[s] = {} /\ lastIO[s] < reapNow - timeout[s]
StaleLate(s) ==
  timeout[s] > 0 /\ s \notin closed /\ subs[s] = {} /\ lastIO[s] < reapNow - 2 * timeout[s]

\* Quiet and alone for longer than its timeout, at the time the pass started.
Stale(s) ==
  /\ timeout[s] > 0
  /\ s \notin closed /\ subs[s] = {}
  /\ lastIO[s] < reapNow - timeout[s]

\* reapOnce: note the time, then scan the registry under m.mu.RLock.
ReapTick ==
  /\ reapPc = "idle"
  /\ reapNow' = clock
  /\ unscanned' = byID
  /\ reapPc' = "scan"
  /\ UNCHANGED <<registry, console, fields, lifecycle, victims, victim, deleterVars,
                 stopperVars, clientVars, clock>>

ReapCheck(s) ==
  /\ reapPc = "scan" /\ s \in unscanned
  /\ unscanned' = unscanned \ {s}
  /\ victims' = IF Stale(s) THEN victims \cup {s} ELSE victims
  /\ UNCHANGED <<registry, console, fields, lifecycle, reapPc, reapNow, victim, deleterVars,
                 stopperVars, clientVars, clock>>

ReapUnlock ==
  /\ reapPc = "scan" /\ unscanned = {}
  /\ reapPc' = "kill"
  /\ UNCHANGED <<registry, console, fields, lifecycle, reapNow, unscanned, victims, victim,
                 deleterVars, stopperVars, clientVars, clock>>

\* Kill the sessions found stale, whatever they are by now.
ReapMark(s) ==
  /\ reapPc = "kill" /\ s \in victims
  /\ victims' = victims \ {s} /\ victim' = s
  /\ IF s \in closed
       THEN reapPc' = "remove" /\ UNCHANGED fields
       ELSE reapPc' = "close" /\ Mark(s)
  /\ UNCHANGED <<registry, console, lifecycle, reapNow, unscanned, deleterVars, stopperVars,
                 clientVars, clock>>

ReapClose ==
  /\ reapPc = "close"
  /\ Close(victim)
  /\ reapPc' = "remove"
  /\ UNCHANGED <<registry, fields, lifecycle, reapNow, unscanned, victims, victim,
                 deleterVars, stopperVars, clientVars, clock>>

ReapRemove ==
  /\ reapPc = "remove" /\ Unlocked
  /\ byID' = byID \ {victim}
  /\ reapPc' = "kill" /\ victim' = None
  /\ UNCHANGED <<mgrClosed, console, fields, lifecycle, reapNow, unscanned, victims,
                 deleterVars, stopperVars, clientVars, clock>>

ReapEnd ==
  /\ reapPc = "kill" /\ victims = {}
  /\ reapPc' = "idle"
  /\ UNCHANGED <<registry, console, fields, lifecycle, reapNow, unscanned, victims, victim,
                 deleterVars, stopperVars, clientVars, clock>>

\* runReaper sees the cancelled context and closes reapDone.
ReapStop ==
  /\ reapPc = "idle"
  /\ \E x \in Stopper : stopPc[x] = "wait"
  /\ reapPc' = "stopped"
  /\ UNCHANGED <<registry, console, fields, lifecycle, reapNow, unscanned, victims, victim,
                 deleterVars, stopperVars, clientVars, clock>>

ReapPass ==
  ReapUnlock \/ ReapClose \/ ReapRemove \/ ReapEnd \/ \E s \in Sess : ReapCheck(s) \/ ReapMark(s)

-----------------------------------------------------------------------------
\* Manager.Kill: look the session up, kill it, remove it.
DeleteMissing(d) ==
  /\ deletePc[d] = "idle"
  /\ deletePc' = [deletePc EXCEPT ![d] = "done"]
  /\ UNCHANGED <<registry, console, fields, lifecycle, reaperVars, deleteOf, stopperVars,
                 clientVars, clock>>

DeleteGet(d, s) ==
  /\ deletePc[d] = "idle" /\ s \in byID
  /\ deletePc' = [deletePc EXCEPT ![d] = "kill"]
  /\ deleteOf' = [deleteOf EXCEPT ![d] = s]
  /\ UNCHANGED <<registry, console, fields, lifecycle, reaperVars, stopperVars, clientVars,
                 clock>>

DeleteMark(d) ==
  /\ deletePc[d] = "kill"
  /\ IF deleteOf[d] \in closed
       THEN deletePc' = [deletePc EXCEPT ![d] = "remove"] /\ UNCHANGED fields
       ELSE deletePc' = [deletePc EXCEPT ![d] = "close"] /\ Mark(deleteOf[d])
  /\ UNCHANGED <<registry, console, lifecycle, reaperVars, deleteOf, stopperVars, clientVars,
                 clock>>

\* Close may report an error: Kill then returns without removing the session.
DeleteClose(d) ==
  /\ deletePc[d] = "close"
  /\ Close(deleteOf[d])
  /\ \E next \in {"remove", "done"} : deletePc' = [deletePc EXCEPT ![d] = next]
  /\ UNCHANGED <<registry, fields, lifecycle, reaperVars, deleteOf, stopperVars, clientVars,
                 clock>>

DeleteRemove(d) ==
  /\ deletePc[d] = "remove" /\ Unlocked
  /\ byID' = byID \ {deleteOf[d]}
  /\ deletePc' = [deletePc EXCEPT ![d] = "done"]
  /\ UNCHANGED <<mgrClosed, console, fields, lifecycle, reaperVars, deleteOf, stopperVars,
                 clientVars, clock>>

DeleteRest(d) == DeleteMark(d) \/ DeleteClose(d) \/ DeleteRemove(d)
Delete(d) == DeleteMissing(d) \/ (\E s \in Sess : DeleteGet(d, s)) \/ DeleteRest(d)

-----------------------------------------------------------------------------
\* Shutdown: close the manager and take the sessions over; a second call returns.
StopAgain(x) ==
  /\ stopPc[x] = "idle" /\ mgrClosed /\ Unlocked
  /\ stopPc' = [stopPc EXCEPT ![x] = "done"]
  /\ UNCHANGED <<registry, console, fields, lifecycle, reaperVars, deleterVars, toKill,
                 stopping, clientVars, clock>>

\* Mutant: empties the registry before it copies it.
StopSwapped(x) ==
  /\ stopPc[x] = "idle" /\ ~mgrClosed /\ Unlocked
  /\ mgrClosed' = TRUE /\ byID' = {} /\ toKill' = byID'
  /\ stopPc' = [stopPc EXCEPT ![x] = "kill"]
  /\ UNCHANGED <<console, fields, lifecycle, reaperVars, deleterVars, stopping, clientVars,
                 clock>>

StopBegin(x) ==
  /\ stopPc[x] = "idle" /\ ~mgrClosed /\ Unlocked
  /\ mgrClosed' = TRUE
  /\ toKill' = byID /\ byID' = {}
  /\ stopPc' = [stopPc EXCEPT ![x] = "kill"]
  /\ UNCHANGED <<console, fields, lifecycle, reaperVars, deleterVars, stopping, clientVars,
                 clock>>

StopMark(x, s) ==
  /\ stopPc[x] = "kill" /\ s \in toKill
  /\ toKill' = toKill \ {s}
  /\ IF s \in closed
       THEN UNCHANGED <<stopPc, stopping, fields>>
       ELSE stopPc' = [stopPc EXCEPT ![x] = "close"] /\ stopping' = s /\ Mark(s)
  /\ UNCHANGED <<registry, console, lifecycle, reaperVars, deleterVars, clientVars, clock>>

StopClose(x) ==
  /\ stopPc[x] = "close"
  /\ Close(stopping)
  /\ stopPc' = [stopPc EXCEPT ![x] = "kill"] /\ stopping' = None
  /\ UNCHANGED <<registry, fields, lifecycle, reaperVars, deleterVars, toKill, clientVars,
                 clock>>

\* stopReap cancels the reaper's context; then wait for reapDone.
StopReaper(x) ==
  /\ stopPc[x] = "kill" /\ toKill = {}
  /\ stopPc' = [stopPc EXCEPT ![x] = "wait"]
  /\ UNCHANGED <<registry, console, fields, lifecycle, reaperVars, deleterVars, toKill,
                 stopping, clientVars, clock>>

StopEnd(x) ==
  /\ stopPc[x] = "wait" /\ reapPc = "stopped"
  /\ stopPc' = [stopPc EXCEPT ![x] = "done"]
  /\ UNCHANGED <<registry, console, fields, lifecycle, reaperVars, deleterVars, toKill,
                 stopping, clientVars, clock>>

StopRest(x) == StopClose(x) \/ StopReaper(x) \/ StopEnd(x) \/ \E s \in Sess : StopMark(x, s)
Stop(x) == StopAgain(x) \/ StopBegin(x) \/ StopRest(x)

-----------------------------------------------------------------------------
\* handleWebSocket: Get, then Subscribe, which refuses a closed session.
ClientGet(c, s) ==
  /\ clientPc[c] = "idle" /\ s \in byID
  /\ clientPc' = [clientPc EXCEPT ![c] = "got"]
  /\ clientOf' = [clientOf EXCEPT ![c] = s]
  /\ UNCHANGED <<registry, console, fields, lifecycle, reaperVars, deleterVars, stopperVars,
                 leftAt, clock>>

ClientJoin(c) ==
  /\ clientPc[c] = "got"
  /\ IF clientOf[c] \in closed
       THEN clientPc' = [clientPc EXCEPT ![c] = "gone"] /\ UNCHANGED subs
       ELSE /\ clientPc' = [clientPc EXCEPT ![c] = "attached"]
            /\ subs' = [subs EXCEPT ![clientOf[c]] = @ \cup {c}]
  /\ UNCHANGED <<registry, console, closed, lastIO, timeout, lifecycle, reaperVars,
                 deleterVars, stopperVars, clientOf, leftAt, clock>>

\* WriteInput checks closed, writes to the console, then notes the time.
ClientType(c) ==
  /\ clientPc[c] = "attached" /\ clientOf[c] \notin closed
  /\ clientPc' = [clientPc EXCEPT ![c] = "typed"]
  /\ UNCHANGED <<registry, console, fields, lifecycle, reaperVars, deleterVars, stopperVars,
                 clientOf, leftAt, clock>>

ClientTyped(c) ==
  /\ clientPc[c] = "typed"
  /\ lastIO' = [lastIO EXCEPT ![clientOf[c]] = clock]
  /\ clientPc' = [clientPc EXCEPT ![c] = "attached"]
  /\ UNCHANGED <<registry, console, closed, subs, timeout, lifecycle, reaperVars, deleterVars,
                 stopperVars, clientOf, leftAt, clock>>

ClientLeave(c) ==
  /\ clientPc[c] = "attached"
  /\ subs' = [subs EXCEPT ![clientOf[c]] = @ \ {c}]
  /\ clientPc' = [clientPc EXCEPT ![c] = "gone"]
  /\ leftAt' = [leftAt EXCEPT ![clientOf[c]] = clock]
  /\ UNCHANGED <<registry, console, closed, lastIO, timeout, lifecycle, reaperVars,
                 deleterVars, stopperVars, clientOf, clock>>

ClientStep(c) ==
  \/ \E s \in Sess : ClientGet(c, s)
  \/ ClientJoin(c) \/ ClientType(c) \/ ClientTyped(c) \/ ClientLeave(c)

-----------------------------------------------------------------------------
\* All is shut down and everyone has returned: the only state to stop in.
Terminated ==
  /\ reapPc = "stopped"
  /\ \A s \in Sess : createPc[s] \in {"failed", "done"} /\ exitPc[s] \in {"none", "done"}
  /\ \A d \in Deleter : deletePc[d] = "done"
  /\ \A x \in Stopper : stopPc[x] = "done"
  /\ UNCHANGED vars

Next ==
  \/ Tick \/ ReapTick \/ ReapStop \/ ReapPass
  \/ \E s \in Sess : Create(s) \/ ShellExit(s) \/ Output(s) \/ WaitExit(s)
  \/ \E d \in Deleter : Delete(d)
  \/ \E x \in Stopper : Stop(x)
  \/ \E c \in Client : ClientStep(c)
  \/ Terminated

Spec == Init /\ [][Next]_vars

\* The scheduler runs every goroutine past its first step, and the ticker keeps
\* waking the reaper.  Fairness is strong where a goroutine waits for m.mu, since
\* a sync.RWMutex lets no new reader in while a writer waits, and for ReapStop: a
\* cancelled context is ready in every select of runReaper, a tick only in some.
Fairness ==
  /\ \A s \in Sess :
       /\ SF_vars(CreateRegister(s) \/ CreateTooLate(s) \/ CreateAbort(s) \/ CreateStart(s))
       /\ SF_vars(WaitExit(s))
  /\ WF_vars(ReapTick) /\ WF_vars(ReapPass) /\ SF_vars(ReapStop)
  /\ \A d \in Deleter : SF_vars(DeleteRest(d))
  /\ \A x \in Stopper : WF_vars(StopRest(x))

FairSpec == Spec /\ Fairness

-----------------------------------------------------------------------------
\* Every variable holds a value of its kind.
TypeOK ==
  /\ byID \subseteq Sess /\ mgrClosed \in BOOLEAN
  /\ live \subseteq Sess /\ ptyOpen \subseteq Sess /\ closed \subseteq Sess
  /\ subs \in [Sess -> SUBSET Client]
  /\ lastIO \in [Sess -> Nat] /\ timeout \in [Sess -> Nat] /\ leftAt \in [Sess -> Nat]
  /\ createPc \in [Sess -> {"idle", "spawned", "registered", "abort", "failed", "done"}]
  /\ exitPc \in [Sess -> {"none", "wait", "collect", "remove", "done"}]
  /\ reapPc \in {"idle", "scan", "kill", "close", "remove", "stopped"}
  /\ reapNow \in Nat /\ clock \in Nat
  /\ unscanned \subseteq Sess /\ victims \subseteq Sess /\ victim \in Sess \cup {None}
  /\ deletePc \in [Deleter -> {"idle", "kill", "close", "remove", "done"}]
  /\ deleteOf \in [Deleter -> Sess \cup {None}]
  /\ \A d \in Deleter : deletePc[d] \in {"kill", "close", "remove"} => deleteOf[d] \in Sess
  /\ stopPc \in [Stopper -> {"idle", "kill", "close", "wait", "done"}]
  /\ toKill \subseteq Sess /\ stopping \in Sess \cup {None}
  /\ clientPc \in [Client -> {"idle", "got", "attached", "typed", "gone"}]
  /\ clientOf \in [Client -> Sess \cup {None}]

\* Create never writes to the nil map that Shutdown leaves behind.
NoNilRegistry == mgrClosed => byID = {}

\* A session Create handed out that nobody has killed can still be found, through
\* the registry or in the list Shutdown is working through.
NoLostSession ==
  \A s \in Sess : createPc[s] \in {"registered", "done"} /\ s \notin closed =>
    s \in byID \cup toKill

\* A session marked closed whose shell still runs has a killer on its way to close
\* the console: every other Kill returns at once and counts on it.  The reaper is
\* never that killer for a session without a timeout.
MarkedHasKiller ==
  \A s \in closed \cap live :
    \/ \E d \in Deleter : deletePc[d] = "close" /\ deleteOf[d] = s
    \/ stopping = s
    \/ reapPc = "close" /\ victim = s /\ timeout[s] > 0

\* A session marked closed stays closed and admits nobody; a console is closed only for a
\* session marked before, or by the Create that gave up; and a session leaves the registry
\* closed, or into the list of Shutdown, and never comes back (Kill, Shutdown, the reaper and
\* waitExit remove it in any order and more than once; Subscribe and Create come in between).
NoWayBack ==
  [][\A s \in Sess :
       /\ s \in closed => s \in closed' /\ subs'[s] \subseteq subs[s]
       /\ s \in ptyOpen \ ptyOpen' => s \in closed \/ createPc[s] = "abort"
       /\ s \in byID \ byID' => s \in closed \/ s \in toKill'
       /\ createPc[s] \notin {"idle", "spawned"} /\ s \notin byID => s \notin byID']_vars

\* A closed session leaves the registry, also when Kill failed half-way.
EntryCleared == \A s \in Sess : s \in closed ~> s \notin byID

\* Once Shutdown has begun, no shell is left running in the end, not even one that
\* Create was about to register.
ShutdownEndsShells == mgrClosed ~> [](live = {})

\* Shutdown returns, with the reaper stopped, though a pass may be under way.
ShutdownReturns ==
  \A x \in Stopper : stopPc[x] = "kill" ~> (stopPc[x] = "done" /\ reapPc = "stopped")

\* A session that nobody watches and that stays quiet is reaped.
Expired(s) == /\ s \in byID /\ s \notin closed /\ subs[s] = {}
              /\ timeout[s] > 0 /\ lastIO[s] < clock - timeout[s]
IdleIsReaped == \A s \in Sess : Expired(s) ~> ~Expired(s)

-----------------------------------------------------------------------------
\* What documents and comments say of the manager and the code does not do.

\* manager.go: the reaper kills sessions that have zero subscribers.
ReapsOnlyUnwatched == [][\A s \in Sess : ReapMark(s) /\ s \notin closed => subs[s] = {}]_vars

\* architecture.md: the idle timer starts when the last client disconnects.
ReapsOnlyAfterGrace ==
  [][\A s \in Sess : ReapMark(s) /\ s \notin closed => clock - leftAt[s] > timeout[s]]_vars
=============================================================================
