--------------------------- MODULE ManagerProofs ---------------------------
(***************************************************************************)
(* Manager for every number of sessions, clients, and callers of Kill and  *)
(* of Shutdown, and every choice of timeouts: types, the nil registry, no  *)
(* lost session, a killer for every session marked closed, what is left    *)
(* when Shutdown returns, and no way back for a session.                   *)
(***************************************************************************)
EXTENDS Manager, TLAPS

LEMMA InitType == Init => TypeOK
<1> SUFFICES ASSUME Init PROVE TypeOK
  OBVIOUS
<1>1. /\ subs \in [Sess -> SUBSET Client] /\ lastIO \in [Sess -> Nat]
      /\ timeout \in [Sess -> Nat] /\ leftAt \in [Sess -> Nat]
  BY ManagerAssumption DEF Init
<1>2. /\ createPc \in [Sess -> {"idle", "spawned", "registered", "abort", "failed", "done"}]
      /\ exitPc \in [Sess -> {"none", "wait", "collect", "remove", "done"}]
  BY DEF Init
<1>3. /\ deletePc \in [Deleter -> {"idle", "kill", "close", "remove", "done"}]
      /\ deleteOf \in [Deleter -> Sess \cup {None}]
      /\ \A d \in Deleter : deletePc[d] \in {"kill", "close", "remove"} => deleteOf[d] \in Sess
      /\ stopPc \in [Stopper -> {"idle", "kill", "close", "wait", "done"}]
  BY DEF Init
<1>4. /\ clientPc \in [Client -> {"idle", "got", "attached", "typed", "gone"}]
      /\ clientOf \in [Client -> Sess \cup {None}]
  BY DEF Init
<1>5. QED
  BY <1>1, <1>2, <1>3, <1>4 DEF Init, TypeOK

LEMMA EffectiveType == \A t \in Timeout : Effective(t) \in Nat
BY ManagerAssumption DEF Effective

LEMMA CreateType == ASSUME TypeOK, NEW s \in Sess, Create(s) PROVE TypeOK'
<1> USE DEF registry, console, fields, lifecycle, reaperVars, deleterVars, stopperVars,
            clientVars
<1>1. CASE CreateRefuse(s) \/ CreateTooLate(s)
  BY <1>1 DEF CreateRefuse, CreateTooLate, TypeOK
<1>2. CASE CreateRegister(s)
  BY <1>2 DEF CreateRegister, TypeOK
<1>3. CASE CreateAbort(s)
  BY <1>3 DEF CreateAbort, TypeOK
<1>4. CASE CreateStart(s)
  BY <1>4 DEF CreateStart, TypeOK
<1>5. ASSUME NEW t \in Timeout, CreateSpawn(s, t) PROVE TypeOK'
  <2>1. timeout' \in [Sess -> Nat]
    BY <1>5, EffectiveType DEF CreateSpawn, TypeOK
  <2>2. lastIO' \in [Sess -> Nat]
    BY <1>5 DEF CreateSpawn, TypeOK
  <2>3. QED
    BY <1>5, <2>1, <2>2 DEF CreateSpawn, TypeOK
<1>6. QED
  BY <1>1, <1>2, <1>3, <1>4, <1>5 DEF Create

LEMMA SessionType ==
  ASSUME TypeOK, NEW s \in Sess, ShellExit(s) \/ Output(s) \/ WaitExit(s) PROVE TypeOK'
<1> USE DEF registry, console, fields, lifecycle, reaperVars, deleterVars, stopperVars,
            clientVars
<1>1. CASE ShellExit(s)
  BY <1>1 DEF ShellExit, TypeOK
<1>2. CASE Output(s)
  BY <1>2 DEF Output, TypeOK
<1>3. CASE ExitRecord(s)
  BY <1>3 DEF ExitRecord, TypeOK
<1>4. CASE ExitCollect(s)
  BY <1>4 DEF ExitCollect, TypeOK
<1>5. CASE ExitRemove(s)
  BY <1>5 DEF ExitRemove, TypeOK
<1>6. QED
  BY <1>1, <1>2, <1>3, <1>4, <1>5 DEF WaitExit

LEMMA ReaperType == TypeOK /\ (ReapTick \/ ReapStop \/ ReapPass) => TypeOK'
<1> SUFFICES ASSUME TypeOK, ReapTick \/ ReapStop \/ ReapPass PROVE TypeOK'
  OBVIOUS
<1> USE DEF registry, console, fields, lifecycle, reaperVars, deleterVars, stopperVars,
            clientVars
<1>1. CASE ReapTick
  BY <1>1 DEF ReapTick, TypeOK
<1>2. CASE ReapStop \/ ReapUnlock \/ ReapEnd
  BY <1>2 DEF ReapStop, ReapUnlock, ReapEnd, TypeOK
<1>3. CASE ReapClose
  BY <1>3 DEF ReapClose, Close, TypeOK
<1>4. CASE ReapRemove
  BY <1>4 DEF ReapRemove, TypeOK
<1>5. ASSUME NEW s \in Sess, ReapCheck(s) PROVE TypeOK'
  BY <1>5 DEF ReapCheck, TypeOK
<1>6. ASSUME NEW s \in Sess, ReapMark(s) PROVE TypeOK'
  BY <1>6 DEF ReapMark, Mark, TypeOK
<1>7. QED
  BY <1>1, <1>2, <1>3, <1>4, <1>5, <1>6 DEF ReapPass

LEMMA DeleteType == ASSUME TypeOK, NEW d \in Deleter, Delete(d) PROVE TypeOK'
<1> USE DEF registry, console, fields, lifecycle, reaperVars, deleterVars, stopperVars,
            clientVars
<1>1. CASE DeleteMissing(d)
  BY <1>1 DEF DeleteMissing, TypeOK
<1>2. ASSUME NEW s \in Sess, DeleteGet(d, s) PROVE TypeOK'
  BY <1>2 DEF DeleteGet, TypeOK
<1>3. CASE DeleteMark(d)
  <2>1. CASE deleteOf[d] \in closed
    BY <1>3, <2>1 DEF DeleteMark, TypeOK
  <2>2. CASE deleteOf[d] \notin closed
    <3>1. deleteOf[d] \in Sess
      BY <1>3 DEF DeleteMark, TypeOK
    <3>2. QED
      BY <1>3, <2>2, <3>1 DEF DeleteMark, Mark, TypeOK
  <2>3. QED
    BY <2>1, <2>2
<1>4. CASE DeleteClose(d)
  BY <1>4 DEF DeleteClose, Close, TypeOK
<1>5. CASE DeleteRemove(d)
  BY <1>5 DEF DeleteRemove, TypeOK
<1>6. QED
  BY <1>1, <1>2, <1>3, <1>4, <1>5 DEF Delete, DeleteRest

LEMMA StopType == ASSUME TypeOK, NEW x \in Stopper, Stop(x) PROVE TypeOK'
<1> USE DEF registry, console, fields, lifecycle, reaperVars, deleterVars, stopperVars,
            clientVars
<1>1. CASE StopAgain(x)
  BY <1>1 DEF StopAgain, TypeOK
<1>2. CASE StopBegin(x)
  BY <1>2 DEF StopBegin, TypeOK
<1>3. ASSUME NEW s \in Sess, StopMark(x, s) PROVE TypeOK'
  BY <1>3 DEF StopMark, Mark, TypeOK
<1>4. CASE StopClose(x)
  BY <1>4 DEF StopClose, Close, TypeOK
<1>5. CASE StopReaper(x) \/ StopEnd(x)
  BY <1>5 DEF StopReaper, StopEnd, TypeOK
<1>6. QED
  BY <1>1, <1>2, <1>3, <1>4, <1>5 DEF Stop, StopRest

LEMMA HandlerType == ASSUME TypeOK, NEW c \in Client, ClientStep(c) PROVE TypeOK'
<1> USE DEF registry, console, fields, lifecycle, reaperVars, deleterVars, stopperVars,
            clientVars
<1>1. ASSUME NEW s \in Sess, ClientGet(c, s) PROVE TypeOK'
  BY <1>1 DEF ClientGet, TypeOK
<1>2. CASE ClientJoin(c)
  <2>1. subs' \in [Sess -> SUBSET Client]
    BY <1>2 DEF ClientJoin, TypeOK
  <2>2. clientPc' \in [Client -> {"idle", "got", "attached", "typed", "gone"}]
    BY <1>2 DEF ClientJoin, TypeOK
  <2>3. QED
    BY <1>2, <2>1, <2>2 DEF ClientJoin, TypeOK
<1>3. CASE ClientType(c)
  BY <1>3 DEF ClientType, TypeOK
<1>4. CASE ClientTyped(c)
  BY <1>4 DEF ClientTyped, TypeOK
<1>5. CASE ClientLeave(c)
  <2>1. subs' \in [Sess -> SUBSET Client] /\ leftAt' \in [Sess -> Nat]
    BY <1>5 DEF ClientLeave, TypeOK
  <2>2. QED
    BY <1>5, <2>1 DEF ClientLeave, TypeOK
<1>6. QED
  BY <1>1, <1>2, <1>3, <1>4, <1>5 DEF ClientStep

LEMMA NextType == TypeOK /\ [Next]_vars => TypeOK'
<1> SUFFICES ASSUME TypeOK, [Next]_vars PROVE TypeOK'
  OBVIOUS
<1> USE DEF registry, console, fields, lifecycle, reaperVars, deleterVars, stopperVars,
            clientVars
<1>1. CASE Tick
  BY <1>1 DEF Tick, TypeOK
<1>2. CASE UNCHANGED vars
  BY <1>2 DEF vars, TypeOK
<1>3. QED
  BY <1>1, <1>2, CreateType, SessionType, ReaperType, DeleteType, StopType, HandlerType
     DEF Next, Terminated

\* The registry, the sessions' fields and the goroutines' locals always hold values
\* of their kind.
THEOREM TypeCorrect == Spec => []TypeOK
BY InitType, NextType, PTL DEF Spec

-----------------------------------------------------------------------------
(* Where the sessions in the locals come from *)

\* Create put the session into the registry and did not give up since.
Created(s) == createPc[s] \in {"registered", "done"}

\* Whoever holds a session got it from the registry, and only such sessions are
\* closed or waited for; the reaper's victims have a timeout.
Origin ==
  /\ \A s \in byID \cup toKill \cup unscanned \cup victims \cup closed : Created(s)
  /\ \A s \in Sess : exitPc[s] # "none" => Created(s)
  /\ \A d \in Deleter : deletePc[d] \in {"kill", "close", "remove"} => Created(deleteOf[d])
  /\ \A s \in victims : timeout[s] > 0

LEMMA CreateOrigin == ASSUME TypeOK, Origin, NEW s \in Sess, Create(s) PROVE Origin'
<1> USE DEF registry, console, fields, lifecycle, reaperVars, deleterVars, stopperVars,
            clientVars
<1>1. CASE CreateRefuse(s) \/ CreateTooLate(s) \/ CreateAbort(s)
  <2>1. ~Created(s)
    BY <1>1 DEF CreateRefuse, CreateTooLate, CreateAbort, Created
  <2>2. \A z \in Sess \ {s} : createPc'[z] = createPc[z]
    BY <1>1 DEF CreateRefuse, CreateTooLate, CreateAbort, TypeOK
  <2>3. UNCHANGED <<byID, toKill, unscanned, victims, closed, exitPc, deletePc, deleteOf, timeout>>
    BY <1>1 DEF CreateRefuse, CreateTooLate, CreateAbort
  <2>4. QED
    BY <2>1, <2>2, <2>3 DEF Origin, Created, TypeOK
<1>2. CASE CreateRegister(s) \/ CreateStart(s)
  <2>1. createPc'[s] \in {"registered", "done"}
    BY <1>2 DEF CreateRegister, CreateStart, TypeOK
  <2>2. \A z \in Sess \ {s} : createPc'[z] = createPc[z] /\ exitPc'[z] = exitPc[z]
    BY <1>2 DEF CreateRegister, CreateStart, TypeOK
  <2>3. /\ UNCHANGED <<toKill, unscanned, victims, closed, deletePc, deleteOf, timeout>>
        /\ byID' \subseteq byID \cup {s}
    BY <1>2 DEF CreateRegister, CreateStart
  <2>4. QED
    BY <2>1, <2>2, <2>3 DEF Origin, Created, TypeOK
<1>3. ASSUME NEW t \in Timeout, CreateSpawn(s, t) PROVE Origin'
  <2>1. ~Created(s)
    BY <1>3 DEF CreateSpawn, Created
  <2>2. \A z \in Sess \ {s} : createPc'[z] = createPc[z] /\ timeout'[z] = timeout[z]
    BY <1>3 DEF CreateSpawn, TypeOK
  <2>3. UNCHANGED <<byID, toKill, unscanned, victims, closed, exitPc, deletePc, deleteOf>>
    BY <1>3 DEF CreateSpawn
  <2>4. QED
    BY <2>1, <2>2, <2>3 DEF Origin, Created, TypeOK
<1>4. QED
  BY <1>1, <1>2, <1>3 DEF Create

LEMMA OriginStep == TypeOK /\ Origin /\ [Next]_vars => Origin'
<1> SUFFICES ASSUME TypeOK, Origin, [Next]_vars PROVE Origin'
  OBVIOUS
<1> USE DEF registry, console, fields, lifecycle, reaperVars, deleterVars, stopperVars,
            clientVars, Created
<1>1. ASSUME NEW s \in Sess, ShellExit(s) \/ Output(s) PROVE Origin'
  BY <1>1 DEF ShellExit, Output, Origin
<1>2. ASSUME NEW s \in Sess, WaitExit(s) PROVE Origin'
  <2>1. /\ Created(s) /\ \A z \in Sess \ {s} : exitPc'[z] = exitPc[z]
        /\ closed' \subseteq closed \cup {s} /\ byID' \subseteq byID
        /\ UNCHANGED <<toKill, unscanned, victims, createPc, deletePc, deleteOf, timeout>>
    BY <1>2 DEF WaitExit, ExitRecord, ExitCollect, ExitRemove, Origin, TypeOK
  <2>2. QED
    BY <2>1 DEF Origin, TypeOK
<1>3. CASE ReapTick \/ ReapStop \/ ReapUnlock \/ ReapEnd \/ ReapClose
  BY <1>3 DEF ReapTick, ReapStop, ReapUnlock, ReapEnd, ReapClose, Origin
<1>4. CASE ReapRemove
  BY <1>4 DEF ReapRemove, Origin
<1>5. ASSUME NEW s \in Sess, ReapCheck(s) PROVE Origin'
  BY <1>5 DEF ReapCheck, Stale, Origin
<1>6. ASSUME NEW s \in Sess, ReapMark(s) PROVE Origin'
  BY <1>6 DEF ReapMark, Mark, Origin
<1>7. ASSUME NEW d \in Deleter, Delete(d) PROVE Origin'
  <2>1. CASE DeleteMissing(d)
    BY <2>1 DEF DeleteMissing, Origin, TypeOK
  <2>2. ASSUME NEW s \in Sess, DeleteGet(d, s) PROVE Origin'
    BY <2>2 DEF DeleteGet, Origin, TypeOK
  <2>3. CASE DeleteMark(d)
    BY <2>3 DEF DeleteMark, Mark, Origin, TypeOK
  <2>4. CASE DeleteClose(d)
    BY <2>4 DEF DeleteClose, Origin, TypeOK
  <2>5. CASE DeleteRemove(d)
    BY <2>5 DEF DeleteRemove, Origin, TypeOK
  <2>6. QED
    BY <1>7, <2>1, <2>2, <2>3, <2>4, <2>5 DEF Delete, DeleteRest
<1>8. ASSUME NEW x \in Stopper, Stop(x) PROVE Origin'
  <2>1. CASE StopAgain(x) \/ StopBegin(x) \/ StopReaper(x) \/ StopEnd(x) \/ StopClose(x)
    BY <2>1 DEF StopAgain, StopBegin, StopReaper, StopEnd, StopClose, Origin
  <2>2. ASSUME NEW s \in Sess, StopMark(x, s) PROVE Origin'
    BY <2>2 DEF StopMark, Mark, Origin
  <2>3. QED
    BY <1>8, <2>1, <2>2 DEF Stop, StopRest
<1>9. ASSUME NEW c \in Client, ClientStep(c) PROVE Origin'
  BY <1>9 DEF ClientStep, ClientGet, ClientJoin, ClientType, ClientTyped, ClientLeave, Origin
<1>10. CASE Tick \/ UNCHANGED vars
  BY <1>10 DEF Tick, vars, Origin
<1>11. QED
  BY <1>1, <1>2, <1>3, <1>4, <1>5, <1>6, <1>7, <1>8, <1>9, <1>10, CreateOrigin
     DEF Next, Terminated, ReapPass

-----------------------------------------------------------------------------
(* What the goroutines know at each step *)

\* Whoever is past marking a session finds it closed.
Marks ==
  /\ \A s \in Sess : exitPc[s] \in {"collect", "remove", "done"} => s \in closed
  /\ reapPc \in {"close", "remove"} => victim \in closed
  /\ \A d \in Deleter : deletePc[d] \in {"close", "remove"} => deleteOf[d] \in closed

\* One call of Shutdown at a time works through the list, one session at a time.
Busy(x) == stopPc[x] \in {"kill", "close", "wait"}
Stops ==
  /\ ~mgrClosed => toKill = {} /\ stopping = None /\ \A x \in Stopper : ~Busy(x)
  /\ \A x, y \in Stopper : Busy(x) /\ Busy(y) => x = y
  /\ \A x \in Stopper : stopPc[x] = "kill" => stopping = None

LEMMA MarksStep == TypeOK /\ Marks /\ [Next]_vars => Marks'
<1> SUFFICES ASSUME TypeOK, Marks, [Next]_vars PROVE Marks'
  OBVIOUS
<1> USE DEF registry, console, fields, lifecycle, reaperVars, deleterVars, stopperVars,
            clientVars
<1>1. ASSUME NEW s \in Sess, Create(s) \/ ShellExit(s) \/ Output(s) PROVE Marks'
  <2>1. /\ UNCHANGED <<closed, reapPc, victim, deletePc, deleteOf>>
        /\ \A z \in Sess : exitPc'[z] = exitPc[z] \/ exitPc'[z] = "wait"
    BY <1>1 DEF Create, CreateRefuse, CreateSpawn, CreateRegister, CreateTooLate, CreateAbort,
                CreateStart, ShellExit, Output, TypeOK
  <2>2. QED
    BY <2>1 DEF Marks
<1>2. ASSUME NEW s \in Sess, WaitExit(s) PROVE Marks'
  <2>1. /\ UNCHANGED <<reapPc, victim, deletePc, deleteOf>> /\ closed \subseteq closed'
        /\ s \in closed' /\ \A z \in Sess \ {s} : exitPc'[z] = exitPc[z]
    BY <1>2 DEF WaitExit, ExitRecord, ExitCollect, ExitRemove, Marks, TypeOK
  <2>2. QED
    BY <2>1 DEF Marks
<1>3. CASE ReapTick \/ ReapStop \/ ReapUnlock \/ ReapEnd \/ ReapClose \/ ReapRemove
  BY <1>3 DEF ReapTick, ReapStop, ReapUnlock, ReapEnd, ReapClose, ReapRemove, Marks
<1>4. ASSUME NEW s \in Sess, ReapCheck(s) \/ ReapMark(s) PROVE Marks'
  BY <1>4 DEF ReapCheck, ReapMark, Mark, Marks
<1>5. ASSUME NEW d \in Deleter, Delete(d) PROVE Marks'
  <2>1. CASE DeleteMissing(d)
    BY <2>1 DEF DeleteMissing, Marks, TypeOK
  <2>2. ASSUME NEW s \in Sess, DeleteGet(d, s) PROVE Marks'
    BY <2>2 DEF DeleteGet, Marks, TypeOK
  <2>3. CASE DeleteMark(d)
    BY <2>3 DEF DeleteMark, Mark, Marks, TypeOK
  <2>4. CASE DeleteClose(d)
    BY <2>4 DEF DeleteClose, Marks, TypeOK
  <2>5. CASE DeleteRemove(d)
    BY <2>5 DEF DeleteRemove, Marks, TypeOK
  <2>6. QED
    BY <1>5, <2>1, <2>2, <2>3, <2>4, <2>5 DEF Delete, DeleteRest
<1>6. ASSUME NEW x \in Stopper, Stop(x) PROVE Marks'
  <2>1. UNCHANGED <<exitPc, reapPc, victim, deletePc, deleteOf>> /\ closed \subseteq closed'
    BY <1>6 DEF Stop, StopAgain, StopBegin, StopRest, StopMark, StopClose, StopReaper, StopEnd,
                Mark
  <2>2. QED
    BY <2>1 DEF Marks
<1>7. ASSUME NEW c \in Client, ClientStep(c) PROVE Marks'
  BY <1>7 DEF ClientStep, ClientGet, ClientJoin, ClientType, ClientTyped, ClientLeave, Marks
<1>8. CASE Tick \/ UNCHANGED vars
  BY <1>8 DEF Tick, vars, Marks
<1>9. QED
  BY <1>1, <1>2, <1>3, <1>4, <1>5, <1>6, <1>7, <1>8 DEF Next, Terminated, ReapPass

LEMMA StopsStep == TypeOK /\ Stops /\ [Next]_vars => Stops'
<1> SUFFICES ASSUME TypeOK, Stops, [Next]_vars PROVE Stops'
  OBVIOUS
<1> USE DEF registry, console, fields, lifecycle, reaperVars, deleterVars, stopperVars,
            clientVars, Busy
<1>1. CASE UNCHANGED <<mgrClosed, stopPc, toKill, stopping>>
  BY <1>1 DEF Stops
<1>2. ASSUME NEW s \in Sess, Create(s) \/ ShellExit(s) \/ Output(s) \/ WaitExit(s)
      PROVE  UNCHANGED <<mgrClosed, stopPc, toKill, stopping>>
  BY <1>2 DEF Create, CreateRefuse, CreateSpawn, CreateRegister, CreateTooLate, CreateAbort,
              CreateStart, ShellExit, Output, WaitExit, ExitRecord, ExitCollect, ExitRemove
<1>3. ASSUME ReapTick \/ ReapStop \/ ReapPass
      PROVE  UNCHANGED <<mgrClosed, stopPc, toKill, stopping>>
  BY <1>3 DEF ReapTick, ReapStop, ReapPass, ReapUnlock, ReapClose, ReapRemove, ReapEnd,
              ReapCheck, ReapMark
<1>4. ASSUME NEW d \in Deleter, Delete(d)
      PROVE  UNCHANGED <<mgrClosed, stopPc, toKill, stopping>>
  BY <1>4 DEF Delete, DeleteMissing, DeleteGet, DeleteRest, DeleteMark, DeleteClose,
              DeleteRemove
<1>5. ASSUME NEW c \in Client, ClientStep(c)
      PROVE  UNCHANGED <<mgrClosed, stopPc, toKill, stopping>>
  BY <1>5 DEF ClientStep, ClientGet, ClientJoin, ClientType, ClientTyped, ClientLeave
<1>6. ASSUME NEW x \in Stopper, Stop(x) PROVE Stops'
  <2> DEFINE others == \A y \in Stopper \ {x} : stopPc'[y] = stopPc[y]
  <2>1. CASE StopAgain(x) \/ StopEnd(x)
    <3>1. /\ UNCHANGED <<mgrClosed, toKill, stopping>> /\ (mgrClosed \/ Busy(x))
          /\ stopPc'[x] = "done" /\ others
      BY <2>1 DEF StopAgain, StopEnd, TypeOK
    <3>2. QED
      BY <3>1 DEF Stops
  <2>2. CASE StopBegin(x)
    <3>1. /\ mgrClosed' /\ ~mgrClosed /\ UNCHANGED stopping /\ stopPc'[x] = "kill" /\ others
      BY <2>2 DEF StopBegin, TypeOK
    <3>2. QED
      BY <3>1 DEF Stops
  <2>3. ASSUME NEW s \in Sess, StopMark(x, s) PROVE Stops'
    <3>1. /\ stopPc[x] = "kill" /\ UNCHANGED mgrClosed /\ others
          /\ stopPc'[x] = "close" \/ (stopPc'[x] = "kill" /\ UNCHANGED stopping)
      BY <2>3 DEF StopMark, TypeOK
    <3>2. QED
      BY <3>1 DEF Stops
  <2>4. CASE StopClose(x) \/ StopReaper(x)
    <3>1. /\ Busy(x) /\ UNCHANGED mgrClosed /\ others
          /\ stopPc'[x] = "wait" \/ (stopPc'[x] = "kill" /\ stopping' = None)
      BY <2>4 DEF StopClose, StopReaper, TypeOK
    <3>2. QED
      BY <3>1 DEF Stops
  <2>5. QED
    BY <1>6, <2>1, <2>2, <2>3, <2>4 DEF Stop, StopRest
<1>7. CASE Tick \/ UNCHANGED vars
  BY <1>1, <1>7 DEF Tick, vars
<1>8. QED
  BY <1>1, <1>2, <1>3, <1>4, <1>5, <1>6, <1>7 DEF Next, Terminated

-----------------------------------------------------------------------------
(* The properties *)

IInv == TypeOK /\ Origin /\ Marks /\ Stops

LEMMA InitIInv == Init => IInv
BY InitType DEF Init, IInv, Origin, Marks, Stops, Busy

LEMMA IInvStep == IInv /\ [Next]_vars => IInv'
BY NextType, OriginStep, MarksStep, StopsStep DEF IInv

\* Where the sessions come from, what the goroutines know and who works through the list
\* of Shutdown is as stated above in every state.
THEOREM Inductive == Spec => []IInv
BY InitIInv, IInvStep, PTL DEF Spec

\* Nothing is ever written to the registry after Shutdown replaced it by a nil map.
THEOREM NilMapSafe == Spec => []NoNilRegistry
<1> USE DEF registry, console, fields, lifecycle, reaperVars, deleterVars, stopperVars,
            clientVars
<1>1. Init => NoNilRegistry
  BY DEF Init, NoNilRegistry
<1>2. NoNilRegistry /\ [Next]_vars => NoNilRegistry'
  <2> SUFFICES ASSUME NoNilRegistry, [Next]_vars PROVE NoNilRegistry'
    OBVIOUS
  <2>1. CASE UNCHANGED mgrClosed /\ byID' \subseteq byID
    BY <2>1 DEF NoNilRegistry
  <2>2. ASSUME NEW s \in Sess, Create(s) \/ ShellExit(s) \/ Output(s) \/ WaitExit(s)
        PROVE NoNilRegistry'
    BY <2>1, <2>2 DEF Create, CreateRefuse, CreateSpawn, CreateRegister, CreateTooLate,
       CreateAbort, CreateStart, ShellExit, Output, WaitExit, ExitRecord, ExitCollect,
       ExitRemove, NoNilRegistry
  <2>3. CASE ReapTick \/ ReapStop \/ ReapPass
    BY <2>1, <2>3 DEF ReapTick, ReapStop, ReapPass, ReapUnlock, ReapClose, ReapRemove, ReapEnd,
       ReapCheck, ReapMark
  <2>4. ASSUME NEW d \in Deleter, Delete(d) PROVE NoNilRegistry'
    BY <2>1, <2>4 DEF Delete, DeleteMissing, DeleteGet, DeleteRest, DeleteMark, DeleteClose,
       DeleteRemove
  <2>5. ASSUME NEW x \in Stopper, Stop(x) PROVE NoNilRegistry'
    BY <2>1, <2>5 DEF Stop, StopAgain, StopBegin, StopRest, StopMark, StopClose, StopReaper,
       StopEnd, NoNilRegistry
  <2>6. ASSUME NEW c \in Client, ClientStep(c) PROVE NoNilRegistry'
    BY <2>1, <2>6 DEF ClientStep, ClientGet, ClientJoin, ClientType, ClientTyped, ClientLeave
  <2>7. CASE Tick \/ UNCHANGED vars
    BY <2>1, <2>7 DEF Tick, vars
  <2>8. QED
    BY <2>2, <2>3, <2>4, <2>5, <2>6, <2>7 DEF Next, Terminated
<1>3. QED
  BY <1>1, <1>2, PTL DEF Spec

LEMMA FoundStep == IInv /\ NoLostSession /\ [Next]_vars => NoLostSession'
<1> SUFFICES ASSUME IInv, NoLostSession, [Next]_vars PROVE NoLostSession'
  OBVIOUS
<1> USE DEF registry, console, fields, lifecycle, reaperVars, deleterVars, stopperVars,
            clientVars
<1>1. CASE /\ UNCHANGED <<createPc, toKill>> /\ closed \subseteq closed'
           /\ \A s \in byID \ byID' : s \in closed
  BY <1>1 DEF NoLostSession
<1>2. ASSUME NEW s \in Sess, Create(s) PROVE NoLostSession'
  <2>1. /\ \A z \in Sess \ {s} : createPc'[z] = createPc[z]
        /\ UNCHANGED <<toKill, closed>> /\ byID \subseteq byID'
        /\ \/ createPc'[s] \notin {"registered", "done"}
           \/ createPc[s] = "registered" \/ s \in byID'
    BY <1>2 DEF Create, CreateRefuse, CreateSpawn, CreateRegister, CreateTooLate, CreateAbort,
                CreateStart, IInv, TypeOK
  <2>2. QED
    BY <2>1 DEF NoLostSession
<1>3. ASSUME NEW s \in Sess, ShellExit(s) \/ Output(s) \/ WaitExit(s) PROVE NoLostSession'
  BY <1>1, <1>3 DEF ShellExit, Output, WaitExit, ExitRecord, ExitCollect, ExitRemove, IInv,
     Marks
<1>4. CASE ReapTick \/ ReapStop \/ ReapUnlock \/ ReapClose \/ ReapRemove \/ ReapEnd
  BY <1>1, <1>4 DEF ReapTick, ReapStop, ReapUnlock, ReapClose, ReapRemove, ReapEnd, IInv, Marks
<1>5. ASSUME NEW s \in Sess, ReapCheck(s) \/ ReapMark(s) PROVE NoLostSession'
  BY <1>1, <1>5 DEF ReapCheck, ReapMark, Mark
<1>6. ASSUME NEW d \in Deleter, Delete(d) PROVE NoLostSession'
  BY <1>1, <1>6 DEF Delete, DeleteMissing, DeleteGet, DeleteRest, DeleteMark, DeleteClose,
     DeleteRemove, Mark, IInv, Marks
<1>7. ASSUME NEW x \in Stopper, Stop(x) PROVE NoLostSession'
  <2>1. CASE StopBegin(x)
    BY <2>1 DEF StopBegin, NoLostSession, IInv, Stops
  <2>2. ASSUME NEW s \in Sess, StopMark(x, s) PROVE NoLostSession'
    BY <2>2 DEF StopMark, Mark, NoLostSession
  <2>3. CASE StopAgain(x) \/ StopClose(x) \/ StopReaper(x) \/ StopEnd(x)
    BY <1>1, <2>3 DEF StopAgain, StopClose, StopReaper, StopEnd
  <2>4. QED
    BY <1>7, <2>1, <2>2, <2>3 DEF Stop, StopRest
<1>8. ASSUME NEW c \in Client, ClientStep(c) PROVE NoLostSession'
  BY <1>1, <1>8 DEF ClientStep, ClientGet, ClientJoin, ClientType, ClientTyped, ClientLeave
<1>9. CASE Tick \/ UNCHANGED vars
  BY <1>1, <1>9 DEF Tick, vars
<1>10. QED
  BY <1>2, <1>3, <1>4, <1>5, <1>6, <1>7, <1>8, <1>9 DEF Next, Terminated, ReapPass

\* No interleaving of Create, waitExit, the reaper, Kill and Shutdown loses track of
\* a session before somebody has closed it.
THEOREM SessionsFound == Spec => []NoLostSession
<1>1. Init => NoLostSession
  BY DEF Init, NoLostSession
<1>2. QED
  BY <1>1, InitIInv, IInvStep, FoundStep, PTL DEF Spec

LEMMA KillerStep == IInv /\ MarkedHasKiller /\ [Next]_vars => MarkedHasKiller'
<1> SUFFICES ASSUME IInv, MarkedHasKiller, [Next]_vars PROVE MarkedHasKiller'
  OBVIOUS
<1> USE DEF registry, console, fields, lifecycle, reaperVars, deleterVars, stopperVars,
            clientVars
<1>1. CASE /\ closed' \cap live' \subseteq closed \cap live
           /\ UNCHANGED <<deletePc, deleteOf, stopping, reapPc, victim, timeout>>
  BY <1>1 DEF MarkedHasKiller
<1>2. ASSUME NEW s \in Sess, Create(s) PROVE MarkedHasKiller'
  <2>1. ASSUME NEW t \in Timeout, CreateSpawn(s, t) PROVE MarkedHasKiller'
    <3>1. s \notin closed
      BY <2>1 DEF CreateSpawn, IInv, Origin, Created
    <3>2. /\ \A z \in Sess \ {s} : timeout'[z] = timeout[z]
          /\ live' = live \cup {s}
          /\ UNCHANGED <<closed, deletePc, deleteOf, stopping, reapPc, victim>>
      BY <2>1 DEF CreateSpawn, IInv, TypeOK
    <3>3. closed \subseteq Sess
      BY DEF IInv, TypeOK
    <3>4. QED
      BY <3>1, <3>2, <3>3 DEF MarkedHasKiller
  <2>2. QED
    BY <1>1, <1>2, <2>1 DEF Create, CreateRefuse, CreateRegister, CreateTooLate, CreateAbort,
       CreateStart
<1>3. ASSUME NEW s \in Sess, ShellExit(s) \/ Output(s) \/ WaitExit(s) PROVE MarkedHasKiller'
  BY <1>1, <1>3 DEF ShellExit, Output, WaitExit, ExitRecord, ExitCollect, ExitRemove
<1>4. CASE ReapTick \/ ReapStop \/ ReapUnlock \/ ReapEnd \/ ReapRemove
  BY <1>4 DEF ReapTick, ReapStop, ReapUnlock, ReapEnd, ReapRemove, MarkedHasKiller
<1>5. CASE ReapClose
  BY <1>5 DEF ReapClose, Close, MarkedHasKiller
<1>6. ASSUME NEW s \in Sess, ReapCheck(s) PROVE MarkedHasKiller'
  BY <1>1, <1>6 DEF ReapCheck
<1>7. ASSUME NEW s \in Sess, ReapMark(s) PROVE MarkedHasKiller'
  <2>1. timeout[s] > 0
    BY <1>7 DEF ReapMark, IInv, Origin
  <2>2. QED
    BY <1>7, <2>1 DEF ReapMark, Mark, MarkedHasKiller
<1>8. ASSUME NEW d \in Deleter, Delete(d) PROVE MarkedHasKiller'
  <2>1. CASE DeleteMissing(d)
    BY <2>1 DEF DeleteMissing, MarkedHasKiller, IInv, TypeOK
  <2>2. ASSUME NEW s \in Sess, DeleteGet(d, s) PROVE MarkedHasKiller'
    BY <2>2 DEF DeleteGet, MarkedHasKiller, IInv, TypeOK
  <2>3. CASE DeleteMark(d)
    BY <2>3 DEF DeleteMark, Mark, MarkedHasKiller, IInv, TypeOK
  <2>4. CASE DeleteClose(d)
    BY <2>4 DEF DeleteClose, Close, MarkedHasKiller, IInv, TypeOK
  <2>5. CASE DeleteRemove(d)
    BY <2>5 DEF DeleteRemove, MarkedHasKiller, IInv, TypeOK
  <2>6. QED
    BY <1>8, <2>1, <2>2, <2>3, <2>4, <2>5 DEF Delete, DeleteRest
<1>9. ASSUME NEW x \in Stopper, Stop(x) PROVE MarkedHasKiller'
  <2>1. ASSUME NEW s \in Sess, StopMark(x, s) PROVE MarkedHasKiller'
    <3>1. stopping = None /\ None \notin closed
      BY <2>1, ManagerAssumption DEF StopMark, IInv, Stops, TypeOK
    <3>2. QED
      BY <2>1, <3>1 DEF StopMark, Mark, MarkedHasKiller
  <2>2. CASE StopClose(x)
    BY <2>2 DEF StopClose, Close, MarkedHasKiller
  <2>3. CASE StopAgain(x) \/ StopBegin(x) \/ StopReaper(x) \/ StopEnd(x)
    BY <1>1, <2>3 DEF StopAgain, StopBegin, StopReaper, StopEnd
  <2>4. QED
    BY <1>9, <2>1, <2>2, <2>3 DEF Stop, StopRest
<1>10. ASSUME NEW c \in Client, ClientStep(c) PROVE MarkedHasKiller'
  BY <1>1, <1>10 DEF ClientStep, ClientGet, ClientJoin, ClientType, ClientTyped, ClientLeave
<1>11. CASE Tick \/ UNCHANGED vars
  BY <1>1, <1>11 DEF Tick, vars
<1>12. QED
  BY <1>2, <1>3, <1>4, <1>5, <1>6, <1>7, <1>8, <1>9, <1>10, <1>11
     DEF Next, Terminated, ReapPass

\* A Kill that returns at once because the session is closed already never leaves a
\* running shell without somebody on the way to close its console.
THEOREM KillerOnTheWay == Spec => []MarkedHasKiller
<1>1. Init => MarkedHasKiller
  BY DEF Init, MarkedHasKiller
<1>2. QED
  BY <1>1, InitIInv, IInvStep, KillerStep, PTL DEF Spec

-----------------------------------------------------------------------------
(* What is left to do when Shutdown has returned *)

\* A shell runs only for a Create that got as far; Shutdown returns with its list empty
\* and the reaper stopped.
Returns ==
  /\ \A s \in live : createPc[s] \notin {"idle", "failed"}
  /\ \A x \in Stopper : stopPc[x] # "idle" => mgrClosed
  /\ toKill # {} => \E x \in Stopper : stopPc[x] \in {"kill", "close"}
  /\ stopping # None => \E x \in Stopper : stopPc[x] = "close"
  /\ mgrClosed => reapPc = "stopped" \/ \E x \in Stopper : Busy(x)

LEMMA ReturnsStep == IInv /\ Returns /\ [Next]_vars => Returns'
<1> SUFFICES ASSUME IInv, Returns, [Next]_vars PROVE Returns'
  OBVIOUS
<1> USE DEF registry, console, fields, lifecycle, reaperVars, deleterVars, stopperVars,
            clientVars
<1>1. CASE /\ UNCHANGED <<createPc, stopPc, mgrClosed, toKill, stopping>> /\ live' \subseteq live
           /\ reapPc = "stopped" => reapPc' = "stopped"
  BY <1>1 DEF Returns, Busy
<1>2. ASSUME NEW s \in Sess, Create(s) PROVE Returns'
  <2>1. UNCHANGED <<mgrClosed, stopPc, toKill, stopping, reapPc>>
    BY <1>2 DEF Create, CreateRefuse, CreateSpawn, CreateRegister, CreateTooLate, CreateAbort,
                CreateStart
  <2>2. \A z \in live' : createPc'[z] \notin {"idle", "failed"}
    <3>1. CASE CreateRefuse(s) \/ CreateAbort(s)
      BY <3>1 DEF CreateRefuse, CreateAbort, Returns, IInv, TypeOK
    <3>2. ASSUME NEW t \in Timeout, CreateSpawn(s, t)
          PROVE  \A z \in live' : createPc'[z] \notin {"idle", "failed"}
      BY <3>2 DEF CreateSpawn, Returns, IInv, TypeOK
    <3>3. CASE CreateRegister(s) \/ CreateTooLate(s) \/ CreateStart(s)
      BY <3>3 DEF CreateRegister, CreateTooLate, CreateStart, Returns, IInv, TypeOK
    <3>4. QED
      BY <1>2, <3>1, <3>2, <3>3 DEF Create
  <2>3. QED
    BY <2>1, <2>2 DEF Returns, Busy
<1>3. ASSUME NEW s \in Sess, ShellExit(s) \/ Output(s) \/ WaitExit(s) PROVE Returns'
  BY <1>1, <1>3 DEF ShellExit, Output, WaitExit, ExitRecord, ExitCollect, ExitRemove
<1>4. CASE ReapTick \/ ReapStop \/ ReapPass
  BY <1>1, <1>4 DEF ReapTick, ReapStop, ReapPass, ReapUnlock, ReapClose, ReapRemove, ReapEnd,
     ReapCheck, ReapMark, Close
<1>5. ASSUME NEW d \in Deleter, Delete(d) PROVE Returns'
  BY <1>1, <1>5 DEF Delete, DeleteMissing, DeleteGet, DeleteRest, DeleteMark, DeleteClose,
     DeleteRemove, Close
<1>6. ASSUME NEW x \in Stopper, Stop(x) PROVE Returns'
  <2> DEFINE others == \A y \in Stopper \ {x} : stopPc'[y] = stopPc[y]
  <2>1. CASE StopAgain(x)
    <3>1. /\ UNCHANGED <<createPc, live, mgrClosed, toKill, stopping, reapPc>> /\ mgrClosed
          /\ stopPc[x] = "idle" /\ stopPc'[x] = "done" /\ others
      BY <2>1 DEF StopAgain, IInv, TypeOK
    <3>2. QED
      BY <3>1 DEF Returns, Busy
  <2>2. CASE StopBegin(x)
    <3>1. /\ UNCHANGED <<createPc, live, stopping>> /\ mgrClosed' /\ stopping = None
          /\ stopPc'[x] = "kill"
      BY <2>2 DEF StopBegin, IInv, TypeOK, Stops
    <3>2. QED
      BY <3>1 DEF Returns, Busy
  <2>3. ASSUME NEW s \in Sess, StopMark(x, s) PROVE Returns'
    <3>1. /\ UNCHANGED <<createPc, live, mgrClosed>> /\ mgrClosed
          /\ stopPc'[x] = "close" \/ (stopPc'[x] = "kill" /\ stopping' = None)
      BY <2>3 DEF StopMark, IInv, TypeOK, Stops, Returns
    <3>2. QED
      BY <3>1 DEF Returns, Busy
  <2>4. CASE StopClose(x)
    <3>1. /\ UNCHANGED <<createPc, mgrClosed>> /\ live' \subseteq live /\ mgrClosed
          /\ stopPc'[x] = "kill" /\ stopping' = None
      BY <2>4 DEF StopClose, Close, IInv, TypeOK, Returns
    <3>2. QED
      BY <3>1 DEF Returns, Busy
  <2>5. CASE StopReaper(x)
    <3>1. /\ UNCHANGED <<createPc, live, mgrClosed>> /\ mgrClosed /\ toKill' = {}
          /\ stopPc'[x] = "wait" /\ stopping' = None
      BY <2>5 DEF StopReaper, IInv, TypeOK, Stops, Returns
    <3>2. QED
      BY <3>1 DEF Returns, Busy
  <2>6. CASE StopEnd(x)
    <3>1. /\ UNCHANGED <<createPc, live, mgrClosed, toKill, stopping>> /\ mgrClosed
          /\ reapPc' = "stopped" /\ stopPc[x] = "wait" /\ stopPc'[x] = "done" /\ others
      BY <2>6 DEF StopEnd, IInv, TypeOK, Returns
    <3>2. QED
      BY <3>1 DEF Returns, Busy
  <2>7. QED
    BY <1>6, <2>1, <2>2, <2>3, <2>4, <2>5, <2>6 DEF Stop, StopRest
<1>7. ASSUME NEW c \in Client, ClientStep(c) PROVE Returns'
  BY <1>1, <1>7 DEF ClientStep, ClientGet, ClientJoin, ClientType, ClientTyped, ClientLeave
<1>8. CASE Tick \/ UNCHANGED vars
  BY <1>1, <1>8 DEF Tick, vars
<1>9. QED
  BY <1>2, <1>3, <1>4, <1>5, <1>6, <1>7, <1>8 DEF Next, Terminated

\* When every call of Shutdown that was made has returned, a shell still runs only where
\* Create found the manager closed and is about to close the console, or where a Kill is.
ShellsLeft ==
  mgrClosed /\ (\A x \in Stopper : ~Busy(x)) =>
    \A s \in live :
      \/ createPc[s] \in {"spawned", "abort"}
      \/ \E d \in Deleter : deletePc[d] = "close" /\ deleteOf[d] = s

\* Shutdown leaves no shell to chance: none is lost between the registry, the list it works
\* through, the reaper and the callers of Kill.
THEOREM ShutdownLeaves == Spec => [](Returns /\ ShellsLeft)
<1>1. Init => Returns
  BY DEF Init, Returns, Busy
<1>2. IInv /\ NoNilRegistry /\ NoLostSession /\ MarkedHasKiller /\ Returns => ShellsLeft
  <2> SUFFICES ASSUME IInv, NoNilRegistry, NoLostSession, MarkedHasKiller, Returns,
                      mgrClosed, \A x \in Stopper : ~Busy(x), NEW s \in live
               PROVE  \/ createPc[s] \in {"spawned", "abort"}
                      \/ \E d \in Deleter : deletePc[d] = "close" /\ deleteOf[d] = s
    BY DEF ShellsLeft
  <2>1. byID = {} /\ toKill = {} /\ stopping = None /\ reapPc = "stopped"
    BY DEF NoNilRegistry, Returns, Busy
  <2>2. s \in Sess /\ createPc[s] \in {"spawned", "registered", "abort", "done"}
    BY DEF Returns, IInv, TypeOK
  <2>3. CASE s \in closed
    BY <2>1, <2>2, <2>3, ManagerAssumption DEF MarkedHasKiller
  <2>4. CASE s \notin closed
    BY <2>1, <2>2, <2>4 DEF NoLostSession
  <2>5. QED
    BY <2>3, <2>4
<1>3. QED
  BY <1>1, <1>2, InitIInv, IInvStep, ReturnsStep, NilMapSafe, SessionsFound, KillerOnTheWay, PTL
     DEF Spec

-----------------------------------------------------------------------------
(* The way of a session *)

\* Shutdown has marked the session it is about to close the console of.
StopMarked == stopping # None => stopping \in closed

LEMMA StopMarkedStep == StopMarked /\ [Next]_vars => StopMarked'
<1> SUFFICES ASSUME StopMarked, [Next]_vars PROVE StopMarked'
  OBVIOUS
<1> USE DEF registry, console, fields, lifecycle, reaperVars, deleterVars, stopperVars,
            clientVars
<1>1. CASE UNCHANGED stopping /\ closed \subseteq closed'
  BY <1>1 DEF StopMarked
<1>2. ASSUME NEW s \in Sess, Create(s) \/ ShellExit(s) \/ Output(s) \/ WaitExit(s)
      PROVE  StopMarked'
  BY <1>1, <1>2 DEF Create, CreateRefuse, CreateSpawn, CreateRegister, CreateTooLate,
     CreateAbort, CreateStart, ShellExit, Output, WaitExit, ExitRecord, ExitCollect, ExitRemove
<1>3. CASE ReapTick \/ ReapStop \/ ReapPass
  BY <1>1, <1>3 DEF ReapTick, ReapStop, ReapPass, ReapUnlock, ReapClose, ReapRemove, ReapEnd,
     ReapCheck, ReapMark, Mark
<1>4. ASSUME NEW d \in Deleter, Delete(d) PROVE StopMarked'
  BY <1>1, <1>4 DEF Delete, DeleteMissing, DeleteGet, DeleteRest, DeleteMark, DeleteClose,
     DeleteRemove, Mark
<1>5. ASSUME NEW x \in Stopper, Stop(x) PROVE StopMarked'
  <2>1. CASE StopAgain(x) \/ StopBegin(x) \/ StopReaper(x) \/ StopEnd(x)
    BY <1>1, <2>1 DEF StopAgain, StopBegin, StopReaper, StopEnd
  <2>2. CASE StopClose(x)
    BY <2>2 DEF StopClose, StopMarked
  <2>3. ASSUME NEW s \in Sess, StopMark(x, s) PROVE StopMarked'
    BY <2>3 DEF StopMark, Mark, StopMarked
  <2>4. QED
    BY <1>5, <2>1, <2>2, <2>3 DEF Stop, StopRest
<1>6. ASSUME NEW c \in Client, ClientStep(c) PROVE StopMarked'
  BY <1>1, <1>6 DEF ClientStep, ClientGet, ClientJoin, ClientType, ClientTyped, ClientLeave
<1>7. CASE Tick \/ UNCHANGED vars
  BY <1>1, <1>7 DEF Tick, vars
<1>8. QED
  BY <1>2, <1>3, <1>4, <1>5, <1>6, <1>7 DEF Next, Terminated

\* There is no way back for a session that was killed, ended or was given up, whoever of
\* Kill, Shutdown, the reaper and waitExit takes it out of the registry, and its console
\* is closed for nobody else.
THEOREM OneWay == Spec => NoWayBack
<1> USE DEF registry, console, fields, lifecycle, reaperVars, deleterVars, stopperVars,
            clientVars
<1> DEFINE Forward(s) ==
      /\ s \in closed => s \in closed' /\ subs'[s] \subseteq subs[s]
      /\ s \in ptyOpen \ ptyOpen' => s \in closed \/ createPc[s] = "abort"
      /\ s \in byID \ byID' => s \in closed \/ s \in toKill'
      /\ createPc[s] \notin {"idle", "spawned"} /\ s \notin byID => s \notin byID'
<1>1. IInv /\ StopMarked /\ [Next]_vars => \A s \in Sess : Forward(s)
  <2> SUFFICES ASSUME IInv, StopMarked, [Next]_vars, NEW s \in Sess PROVE Forward(s)
    OBVIOUS
  <2>1. CASE UNCHANGED <<byID, ptyOpen, subs>> /\ closed \subseteq closed'
    BY <2>1
  <2>2. ASSUME NEW z \in Sess, Create(z) PROVE Forward(s)
    <3>1. UNCHANGED <<closed, subs>>
      BY <2>2 DEF Create, CreateRefuse, CreateSpawn, CreateRegister, CreateTooLate,
         CreateAbort, CreateStart
    <3>2. CASE CreateRegister(z)
      BY <3>1, <3>2 DEF CreateRegister
    <3>3. CASE CreateAbort(z)
      BY <3>1, <3>3 DEF CreateAbort
    <3>4. ASSUME NEW t \in Timeout, CreateSpawn(z, t) PROVE Forward(s)
      BY <3>1, <3>4 DEF CreateSpawn
    <3>5. CASE CreateRefuse(z) \/ CreateTooLate(z) \/ CreateStart(z)
      BY <2>1, <3>1, <3>5 DEF CreateRefuse, CreateTooLate, CreateStart
    <3>6. QED
      BY <2>2, <3>2, <3>3, <3>4, <3>5 DEF Create
  <2>3. ASSUME NEW z \in Sess, ShellExit(z) \/ Output(z) \/ WaitExit(z) PROVE Forward(s)
    <3>1. CASE ExitCollect(z)
      BY <3>1 DEF ExitCollect, IInv, TypeOK
    <3>2. CASE ExitRemove(z)
      BY <3>2 DEF ExitRemove, IInv, Marks
    <3>3. CASE ShellExit(z) \/ Output(z) \/ ExitRecord(z)
      BY <2>1, <3>3 DEF ShellExit, Output, ExitRecord
    <3>4. QED
      BY <2>3, <3>1, <3>2, <3>3 DEF WaitExit
  <2>4. CASE ReapClose \/ ReapRemove
    BY <2>4 DEF ReapClose, ReapRemove, Close, IInv, Marks
  <2>5. ASSUME NEW z \in Sess, ReapMark(z) PROVE Forward(s)
    BY <2>1, <2>5 DEF ReapMark, Mark
  <2>6. CASE ReapTick \/ ReapStop \/ ReapPass
    BY <2>1, <2>4, <2>5, <2>6 DEF ReapTick, ReapStop, ReapPass, ReapUnlock, ReapEnd, ReapCheck
  <2>7. ASSUME NEW d \in Deleter, Delete(d) PROVE Forward(s)
    <3>1. CASE DeleteClose(d)
      BY <3>1 DEF DeleteClose, Close, IInv, Marks
    <3>2. CASE DeleteRemove(d)
      BY <3>2 DEF DeleteRemove, IInv, Marks
    <3>3. CASE DeleteMissing(d) \/ DeleteMark(d) \/ \E z \in Sess : DeleteGet(d, z)
      BY <2>1, <3>3 DEF DeleteMissing, DeleteMark, Mark, DeleteGet
    <3>4. QED
      BY <2>7, <3>1, <3>2, <3>3 DEF Delete, DeleteRest
  <2>8. ASSUME NEW x \in Stopper, Stop(x) PROVE Forward(s)
    <3>1. CASE StopBegin(x)
      BY <3>1 DEF StopBegin
    <3>2. CASE StopClose(x)
      BY <3>2, ManagerAssumption DEF StopClose, Close, StopMarked
    <3>3. CASE StopAgain(x) \/ StopReaper(x) \/ StopEnd(x) \/ \E z \in Sess : StopMark(x, z)
      BY <2>1, <3>3 DEF StopAgain, StopReaper, StopEnd, StopMark, Mark
    <3>4. QED
      BY <2>8, <3>1, <3>2, <3>3 DEF Stop, StopRest
  <2>9. ASSUME NEW c \in Client, ClientStep(c) PROVE Forward(s)
    <3>1. CASE ClientJoin(c)
      BY <3>1 DEF ClientJoin, IInv, TypeOK
    <3>2. CASE ClientLeave(c)
      BY <3>2 DEF ClientLeave, IInv, TypeOK
    <3>3. CASE ClientType(c) \/ ClientTyped(c) \/ \E z \in Sess : ClientGet(c, z)
      BY <2>1, <3>3 DEF ClientType, ClientTyped, ClientGet
    <3>4. QED
      BY <2>9, <3>1, <3>2, <3>3 DEF ClientStep
  <2>10. CASE Tick \/ UNCHANGED vars
    BY <2>1, <2>10 DEF Tick, vars
  <2>11. QED
    BY <2>2, <2>3, <2>6, <2>7, <2>8, <2>9, <2>10 DEF Next, Terminated
<1>2. Init => StopMarked
  BY DEF Init, StopMarked
<1>3. QED
  BY <1>1, <1>2, InitIInv, IInvStep, StopMarkedStep, PTL DEF Spec, NoWayBack
=============================================================================
