------------------------------- MODULE Relay -------------------------------
(***************************************************************************)
(* The relay process: cmd/httpssh-relay/main.go from the command line to   *)
(* the exit code, internal/config, the service handler of internal/svc,    *)
(* internal/auth, and the session handlers of internal/server/server.go    *)
(* over the session manager, which is Manager.                             *)
(*                                                                         *)
(* A setting of the configuration is one of a few classes of values.  Of   *)
(* an HTTP request only what the handlers decide by is kept.  Get, list    *)
(* and rename leave the registry as it is.                                 *)
(***************************************************************************)
EXTENDS Manager, Sequences

CONSTANTS
  Main,       \* the call of Shutdown in runRelay, the only Stopper
  Flags,      \* what the command line may set: functions on some of FlagKey
  File,       \* what config.yaml may set, <<>> without --config
  Host,       \* which shells may be installed
  Post,       \* requests to create a session
  Credential  \* what a request may carry: [header, token], each "", "bad" or "good"

VARIABLES
  cfg, installed,                       \* the configuration, the shells of the host
  runPc, result, ctxDone,               \* runRelay, its error and its context
  listener, listenErr, accepting,       \* ListenAndServe, its channel, the HTTP server
  asked, shellOf, reply,                \* the handlers of each request
  service, errCh, received, statuses,   \* the service handler's Execute
  exit                                  \* the process's exit code, or "service": see RelayEnds

manager  == vars
settings == <<cfg, installed>>
runVars  == <<runPc, result, ctxDone>>
listen   == <<listener, listenErr, accepting>>
handlers == <<asked, shellOf, reply>>
scm      == <<service, errCh, received, statuses>>
relay    == <<settings, runVars, listen, handlers, scm, exit>>
allVars  == <<manager, relay>>

-----------------------------------------------------------------------------
\* config.Default, and what Validate refuses.
Default ==
  [listen |-> "local", shell |-> "auto", bearer |-> "", idle |-> "some", scrollback |-> "some",
   reap |-> "some", maxFile |-> "some", roots |-> "good", level |-> "info"]
FlagKey == {"listen", "shell", "bearer", "idle", "scrollback", "level"}
Refused ==
  [listen |-> {""}, shell |-> {"other"}, bearer |-> {"short"}, idle |-> {"none"},
   scrollback |-> {"none"}, reap |-> {"none"}, maxFile |-> {"none"}, roots |-> {"bad"},
   level |-> {"other"}]
Valid(c) == \A k \in DOMAIN c : c[k] \notin Refused[k]

\* buildConfig: defaults, then the file, then the flags that were given, then a random
\* bearer if there is none.
Over(f, g) == [k \in DOMAIN f \cup DOMAIN g |-> IF k \in DOMAIN f THEN f[k] ELSE g[k]]
Merged(flags, file) == Over(flags, Over(file, Default))
WithBearer(c) == IF c.bearer = "" THEN [c EXCEPT !.bearer = "random"] ELSE c

\* Requests name timeouts of the manager, and a request is answered by one handler.
ASSUME RelayAssumption ==
  /\ {-1, 0, 1} \subseteq Timeout /\ Stopper = {Main} /\ Sess \cap Deleter = {}
  /\ \A flags \in Flags : DOMAIN flags \subseteq FlagKey
  /\ \A file \in File : DOMAIN file \subseteq DOMAIN Default

\* ResolveShell: the first of the executables meant that there is.
Candidates(name) ==
  CASE name \in {"", "auto"} -> <<"pwsh", "powershell">>
    [] name \in {"pwsh", "powershell", "cmd"} -> <<name>>
    [] OTHER -> <<>>
ResolveShell(name) ==
  LET found == {i \in DOMAIN Candidates(name) : Candidates(name)[i] \in installed}
  IN IF found = {} THEN "none"
     ELSE Candidates(name)[CHOOSE i \in found : \A j \in found : i <= j]
\* shellResolverFor, asked by Manager.Create.
Shell(name) == ResolveShell(IF name = "" THEN cfg.shell ELSE name)

\* auth.evaluate: the bearer of the header if it has one, else the token parameter.
Bearer(cred) == IF cred.header # "" THEN cred.header ELSE cred.token
Evaluate(cred) == cfg.bearer # "" /\ Bearer(cred) = cfg.bearer

\* What is kept of who asked: a good bearer or not, told without evaluate; "no" before.
Who(cred) ==
  IF cred.header = cfg.bearer \/ (cred.header = "" /\ cred.token = cfg.bearer) THEN "bearer"
  ELSE "other"

-----------------------------------------------------------------------------
RelayInit ==
  /\ Init
  /\ cfg = Default /\ installed \in Host
  /\ runPc = "off" /\ result = "none" /\ ctxDone = FALSE
  /\ listener = "off" /\ listenErr = "none" /\ accepting = FALSE
  /\ asked = [h \in Sess \cup Deleter |-> "no"] /\ shellOf = [s \in Sess |-> "none"]
  /\ reply = [h \in Sess \cup Deleter |-> 0]
  /\ service = "off" /\ errCh = "empty" /\ received = 0 /\ statuses = <<>>
  /\ exit = "running"

\* main: read the configuration, then run in the foreground or as a service.  Reading it
\* may fail, and so may the question whether this is a service.
Configure(flags, file) ==
  /\ runPc = "off" /\ exit = "running"
  /\ \/ LET c == WithBearer(Merged(flags, file))
        IN /\ cfg' = c
           /\ \/ Valid(c) /\ runPc' = "configured" /\ UNCHANGED exit
              \/ exit' = (IF Valid(c) THEN "1" ELSE "2") /\ UNCHANGED runPc
     \/ exit' = "2" /\ UNCHANGED <<cfg, runPc>>
  /\ UNCHANGED <<manager, installed, result, ctxDone, listen, handlers, scm>>

Foreground ==
  /\ runPc = "configured" /\ runPc' = "files"
  /\ UNCHANGED <<manager, settings, result, ctxDone, listen, handlers, scm, exit>>

\* Execute: StartPending, go h.run(ctx), Running.
Execute ==
  /\ runPc = "configured" /\ runPc' = "files"
  /\ service' = "loop" /\ statuses' = <<"StartPending", "Running">>
  /\ UNCHANGED <<manager, settings, result, ctxDone, listen, handlers, errCh, received, exit>>

-----------------------------------------------------------------------------
\* runRelay returns; under the service handler its error goes into errCh.
Return(err) ==
  /\ runPc' = "returned" /\ result' = err
  /\ errCh' = IF service = "off" THEN errCh ELSE err

\* newFileService may fail; else build the server and start the listener.
OpenFiles ==
  /\ runPc = "files"
  /\ \/ Return("error") /\ UNCHANGED listener
     \/ runPc' = "serve" /\ listener' = "starting" /\ UNCHANGED <<result, errCh>>
  /\ UNCHANGED <<manager, settings, ctxDone, listenErr, accepting, handlers, service, received,
                 statuses, exit>>

Listening ==
  /\ listener = "starting" /\ exit = "running"
  /\ \/ listener' = "serving" /\ accepting' = TRUE /\ UNCHANGED listenErr
     \/ listener' = "ended" /\ listenErr' = "error" /\ UNCHANGED accepting
  /\ UNCHANGED <<manager, settings, runVars, handlers, scm, exit>>

ListenerFails ==
  /\ listener = "serving" /\ accepting /\ exit = "running"
  /\ listener' = "ended" /\ listenErr' = "error" /\ accepting' = FALSE
  /\ UNCHANGED <<manager, settings, runVars, handlers, scm, exit>>

\* A signal, in the foreground.
Signal ==
  /\ service = "off" /\ runPc \notin {"off", "configured"} /\ ~ctxDone /\ exit = "running"
  /\ ctxDone' = TRUE
  /\ UNCHANGED <<manager, settings, runPc, result, listen, handlers, scm, exit>>

\* The select of runRelay.
Selected ==
  /\ runPc = "serve"
  /\ \/ ctxDone /\ runPc' = "stop"
     \/ listenErr # "none" /\ runPc' = "fail"
  /\ UNCHANGED <<manager, settings, result, ctxDone, listen, handlers, scm, exit>>

\* mgr.Shutdown, then, unless the listener failed, httpSrv.Shutdown.
Shutdown ==
  /\ runPc \in {"stop", "fail"} /\ Stop(Main)
  /\ UNCHANGED relay

\* Mutant: returns without waiting for the handlers.
DrainEarly ==
  /\ runPc = "stop" /\ stopPc[Main] = "done"
  /\ Return("nil") /\ accepting' = FALSE
  /\ listener' = "ended" /\ listenErr' = IF listener = "ended" THEN listenErr ELSE "nil"
  /\ UNCHANGED <<manager, settings, ctxDone, handlers, service, received, statuses, exit>>

Drain ==
  /\ runPc = "stop" /\ stopPc[Main] = "done"
  /\ runPc' = "drain" /\ accepting' = FALSE
  /\ listener' = "ended" /\ listenErr' = IF listener = "ended" THEN listenErr ELSE "nil"
  /\ UNCHANGED <<manager, settings, result, ctxDone, handlers, scm, exit>>

Active == \E h \in DOMAIN reply : asked[h] # "no" /\ reply[h] = 0

\* Every connection is idle; or ten seconds have passed.
Drained ==
  /\ runPc = "drain"
  /\ \/ ~Active /\ Return("nil")
     \/ Active /\ Return("error")
  /\ UNCHANGED <<manager, settings, ctxDone, listen, handlers, service, received, statuses, exit>>

FailReturn ==
  /\ runPc = "fail" /\ stopPc[Main] = "done"
  /\ Return(listenErr)
  /\ UNCHANGED <<manager, settings, ctxDone, listen, handlers, service, received, statuses, exit>>

\* The end of main in the foreground.
Leave ==
  /\ runPc = "returned" /\ service = "off" /\ exit = "running"
  /\ exit' = IF result = "nil" THEN "0" ELSE "1"
  /\ UNCHANGED <<manager, settings, runVars, listen, handlers, scm>>

-----------------------------------------------------------------------------

\* Execute: the service manager asks to stop.
Control ==
  /\ service = "loop" /\ exit = "running"
  /\ statuses' = Append(statuses, "StopPending") /\ ctxDone' = TRUE /\ service' = "wait"
  /\ UNCHANGED <<manager, settings, runPc, result, listen, handlers, errCh, received, exit>>

\* Mutant: waits for the relay after an error, too.
RelayEndsWaits ==
  /\ service = "loop" /\ errCh # "empty" /\ exit = "running"
  /\ errCh' = "empty" /\ received' = received + 1 /\ service' = "wait"
  /\ UNCHANGED <<manager, settings, runVars, listen, handlers, statuses, exit>>

\* The relay returns by itself: an error ends the service with a code of its own, told to
\* the service manager alone; else wait for the relay below.
RelayEnds ==
  /\ service = "loop" /\ errCh # "empty" /\ exit = "running"
  /\ errCh' = "empty" /\ received' = received + 1
  /\ IF errCh = "error"
       THEN service' = "stopped" /\ statuses' = Append(statuses, "Stopped") /\ exit' = "service"
       ELSE service' = "wait" /\ UNCHANGED <<statuses, exit>>
  /\ UNCHANGED <<manager, settings, runVars, listen, handlers>>

\* Wait for the relay to return.
RelayEnded ==
  /\ service = "wait" /\ errCh # "empty" /\ exit = "running"
  /\ errCh' = "empty" /\ received' = received + 1
  /\ service' = "stopped" /\ statuses' = Append(statuses, "Stopped") /\ exit' = "0"
  /\ UNCHANGED <<manager, settings, runVars, listen, handlers>>

-----------------------------------------------------------------------------
\* handleCreateSession up to the call of Create; 0 while there is no answer.  The idle
\* timeout is -1 when the request names none.
RequestCode(q) ==
  IF ~Evaluate(q.cred) THEN 401
  ELSE IF ~q.json \/ (q.idle # -1 /\ q.idle \notin 0..1) THEN 400 ELSE 0
ShellName(q) == IF q.shell = "" THEN "pwsh" ELSE q.shell

PostRefused(s, q) ==
  /\ accepting /\ exit = "running" /\ asked[s] = "no" /\ RequestCode(q) # 0
  /\ asked' = [asked EXCEPT ![s] = Who(q.cred)] /\ reply' = [reply EXCEPT ![s] = RequestCode(q)]
  /\ UNCHANGED <<manager, settings, runVars, listen, shellOf, scm, exit>>

\* Manager.Create resolves the shell and spawns it, or fails.
PostSpawn(s, q) ==
  /\ accepting /\ exit = "running" /\ asked[s] = "no" /\ RequestCode(q) = 0
  /\ Shell(ShellName(q)) # "none"
  /\ asked' = [asked EXCEPT ![s] = Who(q.cred)]
  /\ shellOf' = [shellOf EXCEPT ![s] = Shell(ShellName(q))]
  /\ CreateSpawn(s, q.idle)
  /\ UNCHANGED <<settings, runVars, listen, reply, scm, exit>>

PostFailed(s, q) ==
  /\ accepting /\ exit = "running" /\ asked[s] = "no" /\ RequestCode(q) = 0
  /\ asked' = [asked EXCEPT ![s] = Who(q.cred)]
  /\ CreateRefuse(s)
  /\ UNCHANGED <<settings, runVars, listen, shellOf, reply, scm, exit>>

CreateRest(s) ==
  /\ exit = "running"
  /\ CreateRegister(s) \/ CreateTooLate(s) \/ CreateAbort(s) \/ CreateStart(s)
  /\ UNCHANGED relay

\* 201, 400 for a shell or dimensions Create does not take, 503 for the rest.
PostReply(s) ==
  /\ exit = "running" /\ asked[s] # "no" /\ reply[s] = 0 /\ createPc[s] \in {"done", "failed"}
  /\ \E code \in IF createPc[s] = "done" THEN {201}
                 ELSE IF shellOf[s] = "none" THEN {400, 503} ELSE {503} :
       reply' = [reply EXCEPT ![s] = code]
  /\ UNCHANGED <<manager, settings, runVars, listen, asked, shellOf, scm, exit>>

\* handleKillSession: whatever Kill reports is answered with 404.
DeleteRefused(d, cred) ==
  /\ accepting /\ exit = "running" /\ asked[d] = "no" /\ ~Evaluate(cred)
  /\ asked' = [asked EXCEPT ![d] = Who(cred)] /\ reply' = [reply EXCEPT ![d] = 401]
  /\ UNCHANGED <<manager, settings, runVars, listen, shellOf, scm, exit>>

DeleteCall(d, cred) ==
  /\ accepting /\ exit = "running" /\ asked[d] = "no" /\ Evaluate(cred)
  /\ asked' = [asked EXCEPT ![d] = Who(cred)]
  /\ \/ DeleteMissing(d) /\ reply' = [reply EXCEPT ![d] = 404]
     \/ (\E s \in Sess : DeleteGet(d, s)) /\ UNCHANGED reply
  /\ UNCHANGED <<settings, runVars, listen, shellOf, scm, exit>>

\* Mutant: answers 204 once the session is marked.
DeleteEarly(d) ==
  /\ exit = "running" /\ reply[d] = 0
  /\ \/ DeleteMark(d) /\ reply' = [reply EXCEPT ![d] = 204]
     \/ DeleteClose(d) /\ UNCHANGED reply
     \/ DeleteRemove(d) /\ UNCHANGED reply
  /\ UNCHANGED <<settings, runVars, listen, asked, shellOf, scm, exit>>

DeleteStep(d) ==
  /\ exit = "running" /\ reply[d] = 0
  /\ \/ DeleteMark(d) /\ UNCHANGED reply
     \/ DeleteClose(d) /\ reply' = [reply EXCEPT ![d] = IF deletePc'[d] = "done" THEN 404 ELSE 0]
     \/ DeleteRemove(d) /\ reply' = [reply EXCEPT ![d] = 204]
  /\ UNCHANGED <<settings, runVars, listen, asked, shellOf, scm, exit>>

-----------------------------------------------------------------------------
\* What goes on in the manager meanwhile; the shells are quiet, so that the reaper finds
\* them stale soon, and may outlive the process.  Time matters once there is a session.
Background ==
  /\ exit = "running" /\ runPc \notin {"off", "configured", "files"}
  /\ (byID # {} /\ Tick) \/ ReapTick \/ ReapStop
  /\ UNCHANGED relay
Reaping == exit = "running" /\ ReapPass /\ UNCHANGED relay
Exits(s) == exit = "running" /\ WaitExit(s) /\ UNCHANGED relay
ShellEnds(s) == ShellExit(s) /\ UNCHANGED relay

Process ==
  \/ Foreground \/ Execute \/ OpenFiles \/ Listening \/ Selected \/ Drain \/ Drained
  \/ FailReturn \/ Leave \/ RelayEnds \/ RelayEnded

RelayNext ==
  \/ \E flags \in Flags, file \in File : Configure(flags, file)
  \/ Process \/ Shutdown \/ ListenerFails \/ Signal \/ Control \/ Background \/ Reaping
  \/ \E s \in Sess :
       \/ CreateRest(s) \/ PostReply(s) \/ Exits(s) \/ ShellEnds(s)
       \/ \E q \in Post : PostRefused(s, q) \/ PostSpawn(s, q) \/ PostFailed(s, q)
  \/ \E d \in Deleter :
       \/ DeleteStep(d)
       \/ \E cred \in Credential : DeleteRefused(d, cred) \/ DeleteCall(d, cred)

RelaySpec == RelayInit /\ [][RelayNext]_allVars

\* Every goroutine of the process goes on; for the strong fairness see Manager.
RelayFairSpec ==
  /\ RelaySpec
  /\ WF_allVars(Process) /\ SF_allVars(Shutdown) /\ WF_allVars(Reaping)
  /\ SF_allVars(exit = "running" /\ ReapStop /\ UNCHANGED relay)
  /\ \A s \in Sess : /\ SF_allVars(CreateRest(s)) /\ WF_allVars(PostReply(s))
                  /\ SF_allVars(Exits(s))
  /\ \A d \in Deleter : SF_allVars(DeleteStep(d))

-----------------------------------------------------------------------------
Settings == DOMAIN cfg = DOMAIN Default /\ installed \in Host
Run ==
  /\ runPc \in {"off", "configured", "files", "serve", "stop", "fail", "drain", "returned"}
  /\ result \in {"none", "nil", "error"} /\ ctxDone \in BOOLEAN
  /\ listener \in {"off", "starting", "serving", "ended"}
  /\ listenErr \in {"none", "nil", "error"} /\ accepting \in BOOLEAN
Handlers ==
  /\ asked \in [Sess \cup Deleter -> {"no", "other", "bearer"}]
  /\ shellOf \in [Sess -> {"none", "pwsh", "powershell", "cmd"}]
  /\ reply \in [Sess \cup Deleter -> {0, 201, 204, 400, 401, 404, 503}]
Service ==
  /\ service \in {"off", "loop", "wait", "stopped"} /\ errCh \in {"empty", "nil", "error"}
  /\ received \in Nat /\ exit \in {"running", "0", "1", "2", "service"}
RelayTypeOK == TypeOK /\ Settings /\ Run /\ Handlers /\ Service

\* A shutdown that reports success leaves no shell behind, not even one that a request
\* was about to create or to kill, and has answered every request.
CleanExit == result = "nil" => live = {} /\ ~Active /\ ctxDone

\* What a reply says is so: a session whose deletion was confirmed is closed and not found
\* again; who does not carry the bearer, in the header if that has one at all, is told 401
\* and nothing is done; and nobody is served without a bearer that is long enough.
RepliesAreTrue ==
  /\ \A d \in Deleter : reply[d] = 204 => deleteOf[d] \in closed /\ deleteOf[d] \notin byID
  /\ \A h \in DOMAIN reply : asked[h] = "other" => reply[h] = 401
  /\ accepting => cfg.bearer \notin {"", "short"}

\* The service handler takes the relay's result once, so that it never waits for a second
\* one, and the service manager is told the states of the service in their order.
ServiceProtocol ==
  /\ received <= 1 /\ (service = "wait" => received = 0)
  /\ \E full \in {<<"StartPending", "Running", "Stopped">>,
                  <<"StartPending", "Running", "StopPending", "Stopped">>} :
       Len(statuses) <= Len(full) /\ statuses = SubSeq(full, 1, Len(statuses))

\* Asked to stop, by a signal or by the service manager, the process ends.
StopEnds == ctxDone ~> exit # "running"

-----------------------------------------------------------------------------
\* api-contracts.md: a DELETE is answered with 404 if the session does not exist.
NotFoundIsGone ==
  [][\A d \in Deleter : reply[d] = 0 /\ reply'[d] = 404 => deleteOf'[d] \notin byID']_allVars

\* main.go: the configured shell is the one used unless the caller asks for another.
ConfiguredShellUsed ==
  [][\A s \in Sess, q \in Post : PostSpawn(s, q) /\ q.shell = "" =>
       shellOf'[s] = ResolveShell(cfg.shell)]_allVars
=============================================================================
