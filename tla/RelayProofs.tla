---------------------------- MODULE RelayProofs ----------------------------
(***************************************************************************)
(* Relay for every number of requests and every configuration: the relay   *)
(* runs the session manager as Manager describes it, so that what is       *)
(* proved of Manager holds here; the service handler's protocol; what the  *)
(* replies say; and that a shutdown that reports success left nothing.     *)
(***************************************************************************)
EXTENDS Relay, ManagerProofs, SequenceTheorems

-----------------------------------------------------------------------------
(* Steps of the relay are steps of the manager, or none *)

LEMMA Accepted ==
  ASSUME NEW q, RequestCode(q) = 0 PROVE Evaluate(q.cred) /\ q.idle \in {-1, 0, 1}
<1>1. Evaluate(q.cred) /\ (q.idle = -1 \/ q.idle \in 0..1)
  BY DEF RequestCode
<1>2. QED
  BY <1>1

LEMMA ManagerStep == ASSUME [RelayNext]_allVars PROVE [Next]_vars
<1> SUFFICES Next \/ UNCHANGED manager
  BY DEF manager
<1>1. ASSUME NEW flags \in Flags, NEW file \in File, Configure(flags, file)
      PROVE  UNCHANGED manager
  BY <1>1 DEF Configure
<1>2. CASE Process \/ ListenerFails \/ Signal \/ Control
  BY <1>2 DEF Process, Foreground, Execute, OpenFiles, Listening, Selected,
     Drain, Drained, FailReturn, Leave, RelayEnds, RelayEnded, ListenerFails,
     Signal, Control
<1>3. CASE Shutdown \/ Background \/ Reaping
  BY <1>3, RelayAssumption DEF Shutdown, Background, Reaping, Next
<1>4. ASSUME NEW s \in Sess,
             CreateRest(s) \/ PostReply(s) \/ Exits(s) \/ ShellEnds(s)
      PROVE  Next \/ UNCHANGED manager
  BY <1>4 DEF CreateRest, PostReply, Exits, ShellEnds, Next, Create
<1>5. ASSUME NEW s \in Sess, NEW q \in Post,
             PostRefused(s, q) \/ PostSpawn(s, q) \/ PostFailed(s, q)
      PROVE  Next \/ UNCHANGED manager
  <2>1. CASE PostSpawn(s, q)
    <3>1. q.idle \in Timeout
      BY <2>1, Accepted, RelayAssumption DEF PostSpawn
    <3>2. QED
      BY <2>1, <3>1 DEF PostSpawn, Next, Create
  <2>2. QED
    BY <1>5, <2>1 DEF PostRefused, PostFailed, Next, Create
<1>6. ASSUME NEW d \in Deleter, DeleteStep(d) PROVE Next
  BY <1>6 DEF DeleteStep, Next, Delete, DeleteRest
<1>7. ASSUME NEW d \in Deleter, NEW cred \in Credential,
             DeleteRefused(d, cred) \/ DeleteCall(d, cred)
      PROVE  Next \/ UNCHANGED manager
  BY <1>7 DEF DeleteRefused, DeleteCall, Next, Delete
<1>8. CASE UNCHANGED allVars
  BY <1>8 DEF allVars
<1>9. QED
  BY <1>1, <1>2, <1>3, <1>4, <1>5, <1>6, <1>7, <1>8 DEF RelayNext

\* The process, with its requests, its service handler and its ways to end, runs the
\* session manager as Manager describes it (runRelay, main.go, and the handlers of
\* server.go): every step is one of the manager or leaves it alone.
THEOREM RunsTheManager == RelaySpec => Spec
<1>1. RelayInit => Init
  BY DEF RelayInit
<1>2. [RelayNext]_allVars => [Next]_vars
  BY ManagerStep
<1>3. QED
  BY <1>1, <1>2, PTL DEF RelaySpec, Spec

\* What is proved of the manager.
Managed == IInv /\ Returns /\ ShellsLeft

\* ... so that what is proved of the manager alone holds of the relay.
THEOREM StaysManaged == RelaySpec => []Managed
<1>1. Spec => []IInv
  BY Inductive
<1>2. Spec => [](Returns /\ ShellsLeft)
  BY ShutdownLeaves
<1>3. QED
  BY <1>1, <1>2, RunsTheManager, PTL DEF Managed

\* In the running relay, with requests, the service handler and the reaper at work, nothing
\* is entered into a registry that Shutdown took away, a session not yet closed is in the
\* registry or among those that Shutdown will kill, and one marked closed whose shell still
\* runs has someone about to close its console (Create, Kill, Shutdown, manager.go).
THEOREM RelayKeepsSessions == RelaySpec => [](NoNilRegistry /\ NoLostSession /\ MarkedHasKiller)
<1>1. QED
  BY RunsTheManager, NilMapSafe, SessionsFound, KillerOnTheWay, PTL

\* Nor is there a way back for a session in the running relay: killed by a request, the reaper
\* or the shutdown, or ended by itself, it admits nobody and is never found again.
THEOREM RelayOneWay == RelaySpec => NoWayBack
<1>1. QED
  BY RunsTheManager, OneWay, PTL

-----------------------------------------------------------------------------
(* What each part of the process keeps *)

\* Steps that leave the process as it is: the requests and what the manager does.
process == <<settings, runVars, listen, scm, exit>>

LEMMA QuietSteps ==
  ASSUME \/ Shutdown \/ Background \/ Reaping
         \/ \E s \in Sess :
              \/ CreateRest(s) \/ PostReply(s) \/ Exits(s) \/ ShellEnds(s)
              \/ \E q \in Post : PostRefused(s, q) \/ PostSpawn(s, q) \/ PostFailed(s, q)
         \/ \E d \in Deleter :
              \/ DeleteStep(d)
              \/ \E cred \in Credential : DeleteRefused(d, cred) \/ DeleteCall(d, cred)
         \/ UNCHANGED allVars
  PROVE  UNCHANGED process
BY DEF process, relay, allVars, Shutdown, Background, Reaping, CreateRest, PostReply,
   Exits, ShellEnds, PostRefused, PostSpawn, PostFailed, DeleteStep,
   DeleteRefused, DeleteCall

LEMMA Merging ==
  ASSUME NEW flags \in Flags, NEW file \in File
  PROVE  LET c == WithBearer(Merged(flags, file))
         IN  DOMAIN c = DOMAIN Default /\ (Valid(c) => c.bearer \notin {"", "short"})
<1> DEFINE m == Merged(flags, file)
           c == WithBearer(m)
<1>1. DOMAIN m = DOMAIN Default /\ "bearer" \in DOMAIN m
  <2>1. DOMAIN m = DOMAIN flags \cup (DOMAIN file \cup DOMAIN Default)
    BY DEF Merged, Over
  <2>2. "bearer" \in DOMAIN Default /\ FlagKey \subseteq DOMAIN Default
    BY DEF Default, FlagKey
  <2>3. QED
    BY <2>1, <2>2, RelayAssumption
<1> HIDE DEF m
<1>2. DOMAIN c = DOMAIN m /\ c.bearer # ""
  BY <1>1 DEF WithBearer
<1>3. Valid(c) => c.bearer # "short"
  BY <1>1, <1>2 DEF Valid, Refused
<1>4. QED
  BY <1>1, <1>2, <1>3 DEF m

\* Whatever runs, runs with a bearer that is there and long enough.
Configured == runPc # "off" => cfg.bearer \notin {"", "short"}

\* The order of runRelay: the listener starts after the configuration and the files, and
\* only a shutdown that was asked for closes it, which is what an error of nil means.
Order ==
  /\ runPc \in {"off", "configured"} => service = "off" /\ ~ctxDone
  /\ runPc \in {"off", "configured", "files"} => listener = "off"
  /\ runPc \in {"stop", "drain"} => ctxDone
  /\ runPc = "drain" => listener = "ended"
  /\ runPc = "fail" => listenErr # "none"
  /\ accepting => listener = "serving"
  /\ listenErr = "nil" => runPc \in {"drain", "returned"}
  /\ result = "nil" => runPc = "returned" /\ listener = "ended" /\ ctxDone

LEMMA SettingsKept ==
  ASSUME Settings, Configured, [RelayNext]_allVars
  PROVE  Settings' /\ Configured'
<1> USE DEF settings, runVars, listen, scm
<1>1. ASSUME NEW flags \in Flags, NEW file \in File, Configure(flags, file)
      PROVE  Settings' /\ Configured'
  BY <1>1, Merging DEF Configure, Settings, Configured
<1>2. CASE Foreground
  BY <1>2 DEF Foreground, Settings, Configured
<1>3. CASE Execute
  BY <1>3 DEF Execute, Settings, Configured
<1>4. CASE OpenFiles
  BY <1>4 DEF OpenFiles, Return, Settings, Configured
<1>5. CASE Listening
  BY <1>5 DEF Listening, Settings, Configured
<1>6. CASE Selected
  BY <1>6 DEF Selected, Settings, Configured
<1>7. CASE Drain
  BY <1>7 DEF Drain, Settings, Configured
<1>8. CASE Drained
  BY <1>8 DEF Drained, Return, Settings, Configured
<1>9. CASE FailReturn
  BY <1>9 DEF FailReturn, Return, Settings, Configured
<1>10. CASE Leave
  BY <1>10 DEF Leave, Settings, Configured
<1>11. CASE RelayEnds
  BY <1>11 DEF RelayEnds, Settings, Configured
<1>12. CASE RelayEnded
  BY <1>12 DEF RelayEnded, Settings, Configured
<1>13. CASE ListenerFails
  BY <1>13 DEF ListenerFails, Settings, Configured
<1>14. CASE Signal
  BY <1>14 DEF Signal, Settings, Configured
<1>15. CASE Control
  BY <1>15 DEF Control, Settings, Configured
<1>16. CASE UNCHANGED process
  BY <1>16 DEF process, Settings, Configured
<1>17. QED
  BY <1>1, <1>2, <1>3, <1>4, <1>5, <1>6, <1>7, <1>8, <1>9, <1>10, <1>11, <1>12,
     <1>13, <1>14, <1>15, <1>16, QuietSteps
  DEF RelayNext, Process

LEMMA RunKept ==
  ASSUME Run, [RelayNext]_allVars
  PROVE  Run'
<1> USE DEF settings, runVars, listen, scm
<1>1. ASSUME NEW flags \in Flags, NEW file \in File, Configure(flags, file)
      PROVE  Run'
  BY <1>1 DEF Configure, Run
<1>2. CASE Foreground
  BY <1>2 DEF Foreground, Run
<1>3. CASE Execute
  BY <1>3 DEF Execute, Run
<1>4. CASE OpenFiles
  BY <1>4 DEF OpenFiles, Return, Run
<1>5. CASE Listening
  BY <1>5 DEF Listening, Run
<1>6. CASE Selected
  BY <1>6 DEF Selected, Run
<1>7. CASE Drain
  BY <1>7 DEF Drain, Run
<1>8. CASE Drained
  BY <1>8 DEF Drained, Return, Run
<1>9. CASE FailReturn
  BY <1>9 DEF FailReturn, Return, Run
<1>10. CASE Leave
  BY <1>10 DEF Leave, Run
<1>11. CASE RelayEnds
  BY <1>11 DEF RelayEnds, Run
<1>12. CASE RelayEnded
  BY <1>12 DEF RelayEnded, Run
<1>13. CASE ListenerFails
  BY <1>13 DEF ListenerFails, Run
<1>14. CASE Signal
  BY <1>14 DEF Signal, Run
<1>15. CASE Control
  BY <1>15 DEF Control, Run
<1>16. CASE UNCHANGED process
  BY <1>16 DEF process, Run
<1>17. QED
  BY <1>1, <1>2, <1>3, <1>4, <1>5, <1>6, <1>7, <1>8, <1>9, <1>10, <1>11, <1>12,
     <1>13, <1>14, <1>15, <1>16, QuietSteps
  DEF RelayNext, Process

LEMMA OrderKept ==
  ASSUME Run, Order, [RelayNext]_allVars
  PROVE  Order'
<1> USE DEF settings, runVars, listen, scm
<1>1. ASSUME NEW flags \in Flags, NEW file \in File, Configure(flags, file)
      PROVE  Order'
  BY <1>1 DEF Configure, Run, Order
<1>2. CASE Foreground
  BY <1>2 DEF Foreground, Run, Order
<1>3. CASE Execute
  BY <1>3 DEF Execute, Run, Order
<1>4. CASE OpenFiles
  BY <1>4 DEF OpenFiles, Return, Run, Order
<1>5. CASE Listening
  BY <1>5 DEF Listening, Run, Order
<1>6. CASE Selected
  BY <1>6 DEF Selected, Run, Order
<1>7. CASE Drain
  BY <1>7 DEF Drain, Run, Order
<1>8. CASE Drained
  BY <1>8 DEF Drained, Return, Run, Order
<1>9. CASE FailReturn
  BY <1>9 DEF FailReturn, Return, Run, Order
<1>10. CASE Leave
  BY <1>10 DEF Leave, Run, Order
<1>11. CASE RelayEnds
  BY <1>11 DEF RelayEnds, Run, Order
<1>12. CASE RelayEnded
  BY <1>12 DEF RelayEnded, Run, Order
<1>13. CASE ListenerFails
  BY <1>13 DEF ListenerFails, Run, Order
<1>14. CASE Signal
  BY <1>14 DEF Signal, Run, Order
<1>15. CASE Control
  BY <1>15 DEF Control, Run, Order
<1>16. CASE UNCHANGED process
  BY <1>16 DEF process, Run, Order
<1>17. QED
  BY <1>1, <1>2, <1>3, <1>4, <1>5, <1>6, <1>7, <1>8, <1>9, <1>10, <1>11, <1>12,
     <1>13, <1>14, <1>15, <1>16, QuietSteps
  DEF RelayNext, Process
\* What Append and SubSeq make of short tuples.
LEMMA Appended ==
  ASSUME NEW S, NEW q \in Seq(S), NEW r \in Seq(S), NEW e \in S, Len(r) = Len(q) + 1,
         \A i \in 1..Len(q) : r[i] = q[i], r[Len(q) + 1] = e
  PROVE  Append(q, e) = r
<1>1. Append(q, e) \in Seq(S) /\ Len(Append(q, e)) = Len(r) /\ Len(q) \in Nat
  BY AppendProperties, LenProperties
<1>2. \A i \in 1..Len(q) + 1 : Append(q, e)[i] = r[i]
  BY <1>1, AppendProperties
<1>3. QED
  BY <1>1, <1>2, SeqEqual

LEMMA Beginning ==
  ASSUME NEW S, NEW q \in Seq(S), NEW r \in Seq(S), Len(r) <= Len(q),
         \A i \in 1..Len(r) : r[i] = q[i]
  PROVE  SubSeq(q, 1, Len(r)) = r
<1>1. Len(r) \in Nat /\ Len(q) \in Nat /\ \A i \in 1..Len(r) : q[i] \in S
  BY LenProperties, ElementOfSeq
<1>2. /\ SubSeq(q, 1, Len(r)) \in Seq(S) /\ Len(SubSeq(q, 1, Len(r))) = Len(r)
      /\ \A i \in 1..Len(r) : SubSeq(q, 1, Len(r))[i] = q[i]
  BY <1>1, SubSeqProperties
<1>3. QED
  BY <1>2, SeqEqual

LEMMA Triples ==
  ASSUME NEW S, NEW a \in S, NEW b \in S, NEW c \in S
  PROVE  Append(<<a, b>>, c) = <<a, b, c>> /\ SubSeq(<<a, b, c>>, 1, 3) = <<a, b, c>>
<1> DEFINE q == <<a, b>>
           r == <<a, b, c>>
<1>1. /\ q \in Seq(S) /\ Len(q) = 2 /\ q[1] = a /\ q[2] = b
      /\ r \in Seq(S) /\ Len(r) = 3 /\ r[1] = a /\ r[2] = b /\ r[3] = c
  OBVIOUS
<1> HIDE DEF q, r
<1>2. Len(r) = Len(q) + 1 /\ (\A i \in 1..Len(q) : r[i] = q[i]) /\ r[Len(q) + 1] = c
  BY <1>1
<1>3. Append(q, c) = r
  BY <1>1, <1>2, Appended
<1>4. SubSeq(r, 1, Len(r)) = r
  BY <1>1, Beginning
<1>5. QED
  BY <1>1, <1>3, <1>4 DEF q, r

LEMMA Quadruples ==
  ASSUME NEW S, NEW a \in S, NEW b \in S, NEW c \in S, NEW d \in S
  PROVE  /\ Append(<<a, b, c>>, d) = <<a, b, c, d>>
         /\ SubSeq(<<a, b, c, d>>, 1, 2) = <<a, b>>
         /\ SubSeq(<<a, b, c, d>>, 1, 3) = <<a, b, c>>
         /\ SubSeq(<<a, b, c, d>>, 1, 4) = <<a, b, c, d>>
<1> DEFINE p == <<a, b>>
           q == <<a, b, c>>
           r == <<a, b, c, d>>
<1>1. /\ p \in Seq(S) /\ Len(p) = 2 /\ p[1] = a /\ p[2] = b
      /\ q \in Seq(S) /\ Len(q) = 3 /\ q[1] = a /\ q[2] = b /\ q[3] = c
      /\ r \in Seq(S) /\ Len(r) = 4 /\ r[1] = a /\ r[2] = b /\ r[3] = c /\ r[4] = d
  OBVIOUS
<1> HIDE DEF p, q, r
<1>2. Len(r) = Len(q) + 1 /\ (\A i \in 1..Len(q) : r[i] = q[i]) /\ r[Len(q) + 1] = d
  BY <1>1
<1>3. \A i \in 1..Len(p) : p[i] = r[i]
  BY <1>1
<1>4. Append(q, d) = r
  <2>1. q \in Seq(S) /\ r \in Seq(S)
    BY <1>1
  <2>2. QED
    BY <1>2, <2>1, Appended
<1>5. SubSeq(r, 1, Len(p)) = p /\ SubSeq(r, 1, Len(q)) = q /\ SubSeq(r, 1, Len(r)) = r
  <2>1. SubSeq(r, 1, Len(p)) = p
    BY <1>1, <1>3, Beginning
  <2>2. SubSeq(r, 1, Len(q)) = q
    BY <1>1, <1>2, Beginning
  <2>3. SubSeq(r, 1, Len(r)) = r
    BY <1>1, Beginning
  <2>4. QED
    BY <2>1, <2>2, <2>3
<1>6. QED
  BY <1>1, <1>4, <1>5 DEF p, q, r

\* The states the service manager was told of so far.
Started == <<"StartPending", "Running">>
Asked   == <<"StartPending", "Running", "StopPending">>
Ended   == {<<"StartPending", "Running", "Stopped">>,
            <<"StartPending", "Running", "StopPending", "Stopped">>}

\* The service handler follows the relay: it has the result to take once, and before it
\* was asked to stop that result is an error, after which it waits for nothing.
Reporting ==
  /\ errCh # "empty" => runPc = "returned" /\ errCh = result
  /\ service = "off" => statuses = <<>> /\ received = 0 /\ errCh = "empty"
  /\ service = "loop" => statuses = Started /\ received = 0 /\ ~ctxDone
  /\ service = "wait" => statuses = Asked /\ received = 0
  /\ service = "stopped" => statuses \in Ended /\ received = 1

LEMMA Told ==
  /\ Append(Started, "StopPending") = Asked
  /\ Append(Started, "Stopped") \in Ended /\ Append(Asked, "Stopped") \in Ended
  /\ Len(<<>>) = 0 /\ Len(Started) = 2 /\ Len(Asked) = 3
  /\ \A s \in Ended : Len(s) \in {3, 4} /\ SubSeq(s, 1, 0) = <<>> /\ SubSeq(s, 1, Len(s)) = s
  /\ \E s \in Ended : Len(s) = 4 /\ SubSeq(s, 1, 2) = Started /\ SubSeq(s, 1, 3) = Asked
<1> DEFINE error == <<"StartPending", "Running", "Stopped">>
           stop  == <<"StartPending", "Running", "StopPending", "Stopped">>
           words == {"StartPending", "Running", "StopPending", "Stopped"}
<1>1. /\ "StartPending" \in words /\ "Running" \in words
      /\ "StopPending" \in words /\ "Stopped" \in words
  OBVIOUS
<1> HIDE DEF words
<1>2. /\ Append(Started, "StopPending") = Asked /\ Append(Started, "Stopped") = error
      /\ SubSeq(error, 1, 3) = error
  BY <1>1, Triples DEF Started, Asked
<1>3. /\ Append(Asked, "Stopped") = stop /\ SubSeq(stop, 1, 4) = stop
      /\ SubSeq(stop, 1, 2) = Started /\ SubSeq(stop, 1, 3) = Asked
  BY <1>1, Quadruples DEF Started, Asked
<1>4. Len(<<>>) = 0 /\ Len(Started) = 2 /\ Len(Asked) = 3 /\ Len(error) = 3 /\ Len(stop) = 4
  BY DEF Started, Asked
<1>5. SubSeq(error, 1, 0) = <<>> /\ SubSeq(stop, 1, 0) = <<>>
  OBVIOUS
<1>6. Ended = {error, stop}
  BY DEF Ended
<1> HIDE DEF error, stop
<1>7. QED
  BY <1>2, <1>3, <1>4, <1>5, <1>6

LEMMA ServiceKept ==
  ASSUME Run, Service, Order, [RelayNext]_allVars
  PROVE  Service'
<1> USE DEF settings, runVars, listen, scm
<1>1. ASSUME NEW flags \in Flags, NEW file \in File, Configure(flags, file)
      PROVE  Service'
  BY <1>1 DEF Configure, Service, Run, Order
<1>2. CASE Foreground
  BY <1>2 DEF Foreground, Service, Run, Order
<1>3. CASE Execute
  BY <1>3 DEF Execute, Service, Run, Order
<1>4. CASE OpenFiles
  BY <1>4 DEF OpenFiles, Return, Service, Run, Order
<1>5. CASE Listening
  BY <1>5 DEF Listening, Service, Run, Order
<1>6. CASE Selected
  BY <1>6 DEF Selected, Service, Run, Order
<1>7. CASE Drain
  BY <1>7 DEF Drain, Service, Run, Order
<1>8. CASE Drained
  BY <1>8 DEF Drained, Return, Service, Run, Order
<1>9. CASE FailReturn
  BY <1>9 DEF FailReturn, Return, Service, Run, Order
<1>10. CASE Leave
  BY <1>10 DEF Leave, Service, Run, Order
<1>11. CASE RelayEnds
  BY <1>11 DEF RelayEnds, Service, Run, Order
<1>12. CASE RelayEnded
  BY <1>12 DEF RelayEnded, Service, Run, Order
<1>13. CASE ListenerFails
  BY <1>13 DEF ListenerFails, Service, Run, Order
<1>14. CASE Signal
  BY <1>14 DEF Signal, Service, Run, Order
<1>15. CASE Control
  BY <1>15 DEF Control, Service, Run, Order
<1>16. CASE UNCHANGED process
  BY <1>16 DEF process, Service, Run, Order
<1>17. QED
  BY <1>1, <1>2, <1>3, <1>4, <1>5, <1>6, <1>7, <1>8, <1>9, <1>10, <1>11, <1>12,
     <1>13, <1>14, <1>15, <1>16, QuietSteps
  DEF RelayNext, Process

LEMMA ReportingKept ==
  ASSUME Run, Service, Order, Reporting, [RelayNext]_allVars
  PROVE  Reporting'
<1> USE DEF settings, runVars, listen, scm
<1>1. ASSUME NEW flags \in Flags, NEW file \in File, Configure(flags, file)
      PROVE  Reporting'
  BY <1>1 DEF Configure, Reporting
<1>2. CASE Foreground
  BY <1>2 DEF Foreground, Reporting
<1>3. CASE Execute
  BY <1>3 DEF Execute, Reporting, Order, Started
<1>4. CASE OpenFiles
  BY <1>4 DEF OpenFiles, Return, Reporting, Order
<1>5. CASE Listening
  BY <1>5 DEF Listening, Reporting
<1>6. CASE Selected
  BY <1>6 DEF Selected, Reporting
<1>7. CASE Drain
  BY <1>7 DEF Drain, Reporting
<1>8. CASE Drained
  BY <1>8 DEF Drained, Return, Reporting, Order
<1>9. CASE FailReturn
  BY <1>9 DEF FailReturn, Return, Reporting, Order, Run
<1>10. CASE Leave
  BY <1>10 DEF Leave, Reporting
<1>11. CASE RelayEnds
  <2>1. errCh = "error" /\ errCh' = "empty"
    BY <1>11 DEF RelayEnds, Reporting, Order, Service
  <2>2. /\ service' = "stopped" /\ statuses' = Append(Started, "Stopped") /\ received' = 0 + 1
    BY <1>11, <2>1 DEF RelayEnds, Reporting
  <2>3. QED
    BY <2>1, <2>2, Told DEF Reporting
<1>12. CASE RelayEnded
  BY <1>12, Told DEF RelayEnded, Reporting
<1>13. CASE ListenerFails
  BY <1>13 DEF ListenerFails, Reporting
<1>14. CASE Signal
  BY <1>14 DEF Signal, Reporting
<1>15. CASE Control
  BY <1>15, Told DEF Control, Reporting
<1>16. CASE UNCHANGED process
  BY <1>16 DEF process, Reporting
<1>17. QED
  BY <1>1, <1>2, <1>3, <1>4, <1>5, <1>6, <1>7, <1>8, <1>9, <1>10, <1>11, <1>12,
     <1>13, <1>14, <1>15, <1>16, QuietSteps
  DEF RelayNext, Process

LEMMA Protocol == Reporting /\ Service => ServiceProtocol
<1> SUFFICES ASSUME Reporting, Service PROVE ServiceProtocol
  OBVIOUS
<1>1. received <= 1 /\ (service = "wait" => received = 0)
  BY DEF Reporting, Service
<1>2. statuses = <<>> \/ statuses = Started \/ statuses = Asked \/ statuses \in Ended
  BY DEF Reporting, Service
<1>3. \E full \in Ended : Len(statuses) <= Len(full) /\ statuses = SubSeq(full, 1, Len(statuses))
  <2>1. CASE statuses \in Ended
    BY <2>1, Told
  <2>2. CASE statuses \notin Ended
    <3>1. PICK full \in Ended :
            /\ Len(full) = 4 /\ SubSeq(full, 1, 0) = <<>>
            /\ SubSeq(full, 1, 2) = Started /\ SubSeq(full, 1, 3) = Asked
      BY Told
    <3>2. Len(statuses) \in {0, 2, 3} /\ statuses = SubSeq(full, 1, Len(statuses))
      BY <1>2, <2>2, <3>1, Told
    <3>3. QED
      BY <3>1, <3>2
  <2>3. QED
    BY <2>1, <2>2
<1>4. QED
  BY <1>1, <1>3 DEF ServiceProtocol, Ended

-----------------------------------------------------------------------------
(* What the handlers keep *)

LEMMA ShellFound ==
  ASSUME NEW name PROVE ResolveShell(name) \in {"none", "pwsh", "powershell", "cmd"}
<1> DEFINE c == Candidates(name)
           found == {i \in DOMAIN c : c[i] \in installed}
<1>1. DOMAIN c \subseteq {1, 2} /\ \A i \in DOMAIN c : c[i] \in {"pwsh", "powershell", "cmd"}
  <2>1. CASE name \in {"", "auto"}
    <3>1. c = <<"pwsh", "powershell">>
      BY <2>1 DEF Candidates
    <3>2. DOMAIN c = {1, 2} /\ c[1] = "pwsh" /\ c[2] = "powershell"
      BY <3>1
    <3>3. QED
      BY <3>2
  <2>2. CASE name \in {"pwsh", "powershell", "cmd"}
    <3>1. c = <<name>>
      BY <2>2 DEF Candidates
    <3>2. QED
      BY <2>2, <3>1
  <2>3. CASE name \notin {"", "auto", "pwsh", "powershell", "cmd"}
    <3>1. c = <<>>
      BY <2>3 DEF Candidates
    <3>2. QED
      BY <3>1
  <2>4. QED
    BY <2>1, <2>2, <2>3
<1> HIDE DEF c
<1>2. ASSUME found # {}
      PROVE  (CHOOSE i \in found : \A j \in found : i <= j) \in found
  BY <1>1, <1>2
<1>3. QED
  BY <1>1, <1>2 DEF ResolveShell, c

LEMMA ProcessSteps ==
  ASSUME \/ \E flags \in Flags, file \in File : Configure(flags, file)
         \/ Process \/ ListenerFails \/ Signal \/ Control \/ UNCHANGED allVars
  PROVE  UNCHANGED <<manager, handlers>>
BY DEF allVars, relay, Configure, Process, Foreground, Execute, OpenFiles,
   Listening, Selected, Drain, Drained, FailReturn, Leave, RelayEnds,
   RelayEnded, ListenerFails, Signal, Control

LEMMA ManagerSteps ==
  ASSUME \/ Shutdown \/ Background \/ Reaping
         \/ \E s \in Sess : Exits(s) \/ ShellEnds(s)
  PROVE  /\ UNCHANGED relay /\ UNCHANGED <<createPc, deletePc, deleteOf>>
         /\ closed \subseteq closed' /\ byID' \subseteq byID /\ live' \subseteq live
<1> USE DEF registry, console, fields, lifecycle, reaperVars,
            deleterVars, stopperVars, clientVars, Mark, Close
<1>1. CASE Shutdown
  BY <1>1 DEF Shutdown, Stop, StopAgain, StopBegin, StopRest, StopMark,
     StopClose, StopReaper, StopEnd
<1>2. CASE Background
  BY <1>2 DEF Background, Tick, ReapTick, ReapStop
<1>3. CASE Reaping
  BY <1>3 DEF Reaping, ReapPass, ReapUnlock, ReapClose, ReapRemove,
     ReapEnd, ReapCheck, ReapMark
<1>4. ASSUME NEW s \in Sess, Exits(s) \/ ShellEnds(s)
      PROVE  /\ UNCHANGED relay /\ UNCHANGED <<createPc, deletePc, deleteOf>>
             /\ closed \subseteq closed' /\ byID' \subseteq byID /\ live' \subseteq live
  <2>1. CASE Exits(s)
    BY <2>1 DEF Exits, WaitExit, ExitRecord, ExitCollect, ExitRemove
  <2>2. CASE ShellEnds(s)
    BY <2>2 DEF ShellEnds, ShellExit
  <2>3. QED
    BY <1>4, <2>1, <2>2
<1>5. QED
  BY <1>1, <1>2, <1>3, <1>4

\* What is done for a request, it is done before the answer.
Requested ==
  /\ \A s \in Sess :
       /\ asked[s] = "no" => createPc[s] = "idle" /\ reply[s] = 0
       /\ createPc[s] \in {"spawned", "registered", "abort"} => reply[s] = 0
  /\ \A d \in Deleter :
       /\ asked[d] = "no" => deletePc[d] = "idle" /\ reply[d] = 0
       /\ deletePc[d] \in {"kill", "close", "remove"} => reply[d] = 0

\* Who has no bearer was refused; what was reported as deleted is.
Refusing  == \A h \in Sess \cup Deleter : asked[h] = "other" => reply[h] = 401
Confirmed ==
  \A d \in Deleter : reply[d] = 204 => deletePc[d] = "done" /\ deleteOf[d] \in closed \ byID

LEMMA WhoIsWho == ASSUME NEW cred, Evaluate(cred) PROVE Who(cred) = "bearer"
BY DEF Evaluate, Who, Bearer

LEMMA Codes ==
  ASSUME NEW q
  PROVE  RequestCode(q) \in {0, 400, 401} /\ (~Evaluate(q.cred) => RequestCode(q) = 401)
BY DEF RequestCode

LEMMA Whose == ASSUME NEW cred PROVE Who(cred) \in {"other", "bearer"}
BY DEF Who

\* The handler of a POST takes it on, and changes nothing of other requests.
LEMMA Posted ==
  ASSUME TypeOK, Handlers, Requested, NEW s \in Sess, NEW q \in Post,
         PostRefused(s, q) \/ PostSpawn(s, q) \/ PostFailed(s, q)
  PROVE  /\ asked[s] = "no" /\ Handlers'
         /\ UNCHANGED <<deletePc, deleteOf, closed, byID>>
         /\ \A h \in (Sess \cup Deleter) \ {s} : asked'[h] = asked[h] /\ reply'[h] = reply[h]
         /\ \A z \in Sess \ {s} : createPc'[z] = createPc[z]
         /\ asked'[s] # "no" /\ (asked'[s] = "other" => reply'[s] = 401)
         /\ reply'[s] # 204
         /\ createPc'[s] \in {"spawned", "registered", "abort"} => reply'[s] = 0
<1> USE DEF handlers, manager, vars, registry, fields, lifecycle, deleterVars
<1>1. asked[s] = "no" /\ reply[s] = 0 /\ createPc[s] = "idle"
  BY DEF PostRefused, PostSpawn, PostFailed, Requested
<1>2. UNCHANGED <<deletePc, deleteOf, closed, byID>>
  BY DEF PostRefused, PostSpawn, CreateSpawn, PostFailed, CreateRefuse
<1>3. asked' = [asked EXCEPT ![s] = Who(q.cred)] /\ Who(q.cred) \in {"other", "bearer"}
  BY Whose DEF PostRefused, PostSpawn, PostFailed
<1>4. CASE PostRefused(s, q)
  <2>1. /\ reply' = [reply EXCEPT ![s] = RequestCode(q)] /\ RequestCode(q) \in {400, 401}
        /\ UNCHANGED <<createPc, shellOf>>
    BY <1>4, Codes DEF PostRefused
  <2>2. Who(q.cred) = "other" => RequestCode(q) = 401
    BY Codes, WhoIsWho
  <2>3. QED
    BY <1>1, <1>2, <1>3, <2>1, <2>2 DEF Handlers, TypeOK
<1>5. CASE PostSpawn(s, q)
  <2>1. Who(q.cred) = "bearer"
    BY <1>5, Accepted, WhoIsWho DEF PostSpawn
  <2>2. shellOf' \in [Sess -> {"none", "pwsh", "powershell", "cmd"}]
    <3>1. shellOf' = [shellOf EXCEPT ![s] = Shell(ShellName(q))]
      BY <1>5 DEF PostSpawn
    <3>2. Shell(ShellName(q)) \in {"none", "pwsh", "powershell", "cmd"}
      BY ShellFound DEF Shell
    <3>3. QED
      BY <3>1, <3>2 DEF Handlers
  <2>3. UNCHANGED reply /\ createPc' = [createPc EXCEPT ![s] = "spawned"]
    BY <1>5 DEF PostSpawn, CreateSpawn
  <2>4. QED
    BY <1>1, <1>2, <1>3, <2>1, <2>2, <2>3 DEF Handlers, TypeOK
<1>6. CASE PostFailed(s, q)
  <2>1. Who(q.cred) = "bearer"
    BY <1>6, Accepted, WhoIsWho DEF PostFailed
  <2>2. UNCHANGED <<reply, shellOf>> /\ createPc' = [createPc EXCEPT ![s] = "failed"]
    BY <1>6 DEF PostFailed, CreateRefuse
  <2>3. QED
    BY <1>1, <1>2, <1>3, <2>1, <2>2 DEF Handlers, TypeOK
<1>7. QED
  BY <1>4, <1>5, <1>6

\* Create goes on, and its outcome is the answer.
LEMMA Creating ==
  ASSUME TypeOK, Handlers, Requested, NEW s \in Sess, CreateRest(s) \/ PostReply(s)
  PROVE  /\ Handlers' /\ UNCHANGED <<asked, deletePc, deleteOf, closed>>
         /\ \A h \in (Sess \cup Deleter) \ {s} : reply'[h] = reply[h]
         /\ \A z \in Sess \ {s} : createPc'[z] = createPc[z]
         /\ asked[s] # "no" /\ reply[s] = 0 /\ reply'[s] # 204
         /\ createPc'[s] \in {"spawned", "registered", "abort"} => reply'[s] = 0
         /\ byID' \subseteq byID \cup {s} /\ (s \in byID' \ byID => createPc[s] = "spawned")
<1> USE DEF handlers, manager, vars, registry, fields, lifecycle, deleterVars
<1>1. CASE CreateRest(s)
  <2>1. /\ UNCHANGED <<asked, reply, shellOf, deletePc, deleteOf, closed>>
        /\ createPc[s] \in {"spawned", "registered", "abort"}
        /\ byID' \subseteq byID \cup {s} /\ (s \in byID' \ byID => createPc[s] = "spawned")
    BY <1>1 DEF CreateRest, CreateRegister, CreateTooLate, CreateAbort,
       CreateStart, relay
  <2>2. \A z \in Sess \ {s} : createPc'[z] = createPc[z]
    BY <1>1 DEF CreateRest, CreateRegister, CreateTooLate, CreateAbort,
       CreateStart, TypeOK
  <2>3. QED
    BY <2>1, <2>2 DEF Handlers, Requested
<1>2. CASE PostReply(s)
  <2>1. /\ UNCHANGED <<asked, shellOf, createPc, deletePc, deleteOf, closed, byID>>
        /\ asked[s] # "no" /\ reply[s] = 0 /\ createPc[s] \in {"done", "failed"}
        /\ \E code \in {201, 400, 503} : reply' = [reply EXCEPT ![s] = code]
    <3> DEFINE codes == IF createPc[s] = "done" THEN {201}
                        ELSE IF shellOf[s] = "none" THEN {400, 503} ELSE {503}
               Replies(code) == reply' = [reply EXCEPT ![s] = code]
    <3>1. codes \subseteq {201, 400, 503}
      OBVIOUS
    <3>2. \E code \in codes : Replies(code)
      BY <1>2 DEF PostReply
    <3>3. /\ UNCHANGED <<asked, shellOf, createPc, deletePc, deleteOf, closed, byID>>
          /\ asked[s] # "no" /\ reply[s] = 0 /\ createPc[s] \in {"done", "failed"}
      BY <1>2 DEF PostReply
    <3>4. \E code \in {201, 400, 503} : Replies(code)
      <4> HIDE DEF codes, Replies
      <4>1. QED
        BY <3>1, <3>2
    <3>5. QED
      BY <3>3, <3>4
  <2>2. QED
    BY <2>1 DEF Handlers
<1>3. QED
  BY <1>1, <1>2

\* The handler of a DELETE takes it on.
LEMMA Deleting ==
  ASSUME TypeOK, Handlers, Requested, NEW d \in Deleter, NEW cred \in Credential,
         DeleteRefused(d, cred) \/ DeleteCall(d, cred)
  PROVE  /\ asked[d] = "no" /\ Handlers' /\ UNCHANGED <<createPc, closed, byID>>
         /\ \A h \in (Sess \cup Deleter) \ {d} : asked'[h] = asked[h] /\ reply'[h] = reply[h]
         /\ \A e \in Deleter \ {d} : deletePc'[e] = deletePc[e] /\ deleteOf'[e] = deleteOf[e]
         /\ asked'[d] # "no" /\ (asked'[d] = "other" => reply'[d] = 401)
         /\ reply'[d] # 204
         /\ deletePc'[d] \in {"kill", "close", "remove"} => reply'[d] = 0
<1> USE DEF handlers, manager, vars, registry, fields, lifecycle, deleterVars
<1>1. asked[d] = "no" /\ reply[d] = 0 /\ deletePc[d] = "idle"
  BY DEF DeleteRefused, DeleteCall, Requested
<1>2. asked' = [asked EXCEPT ![d] = Who(cred)] /\ Who(cred) \in {"other", "bearer"}
  BY Whose DEF DeleteRefused, DeleteCall
<1>3. CASE DeleteRefused(d, cred)
  <2>1. /\ reply' = [reply EXCEPT ![d] = 401]
        /\ UNCHANGED <<createPc, closed, byID, deletePc, deleteOf, shellOf>>
    BY <1>3 DEF DeleteRefused
  <2>2. QED
    BY <1>1, <1>2, <2>1 DEF Handlers
<1>4. CASE DeleteCall(d, cred)
  <2>1. Who(cred) = "bearer" /\ UNCHANGED <<createPc, closed, byID, shellOf>>
    BY <1>4, WhoIsWho DEF DeleteCall, DeleteMissing, DeleteGet
  <2>2. CASE DeleteMissing(d) /\ reply' = [reply EXCEPT ![d] = 404]
    <3>1. deletePc' = [deletePc EXCEPT ![d] = "done"] /\ UNCHANGED deleteOf
      BY <2>2 DEF DeleteMissing
    <3>2. QED
      BY <1>1, <1>2, <2>1, <2>2, <3>1 DEF Handlers, TypeOK
  <2>3. CASE (\E s \in Sess : DeleteGet(d, s)) /\ UNCHANGED reply
    <3>1. PICK s \in Sess : DeleteGet(d, s)
      BY <2>3
    <3>2. /\ deletePc' = [deletePc EXCEPT ![d] = "kill"]
          /\ deleteOf' = [deleteOf EXCEPT ![d] = s]
      BY <3>1 DEF DeleteGet
    <3>3. QED
      BY <1>1, <1>2, <2>1, <2>3, <3>2 DEF Handlers, TypeOK
  <2>4. QED
    BY <1>4, <2>2, <2>3 DEF DeleteCall
<1>5. QED
  BY <1>3, <1>4

\* ... and goes on with it: the answer is the outcome of Kill.
LEMMA Killing ==
  ASSUME TypeOK, Handlers, NEW d \in Deleter, DeleteStep(d)
  PROVE  /\ Handlers' /\ UNCHANGED <<asked, createPc, deleteOf>>
         /\ closed \subseteq closed' /\ byID' \subseteq byID
         /\ \A h \in (Sess \cup Deleter) \ {d} : reply'[h] = reply[h]
         /\ \A e \in Deleter \ {d} : deletePc'[e] = deletePc[e]
         /\ reply[d] = 0 /\ deletePc[d] # "idle"
         /\ deletePc'[d] \in {"kill", "close", "remove"} => reply'[d] = 0
         /\ reply'[d] = 204 =>
              deletePc[d] = "remove" /\ deletePc'[d] = "done" /\ byID' = byID \ {deleteOf[d]}
<1> USE DEF handlers, manager, vars, registry, fields, lifecycle, deleterVars
<1>1. reply[d] = 0 /\ UNCHANGED <<asked, shellOf>>
  BY DEF DeleteStep
<1>2. CASE DeleteMark(d) /\ UNCHANGED reply
  BY <1>1, <1>2 DEF DeleteMark, Mark, Handlers, TypeOK
<1>3. CASE /\ DeleteClose(d)
           /\ reply' = [reply EXCEPT ![d] = IF deletePc'[d] = "done" THEN 404 ELSE 0]
  BY <1>1, <1>3 DEF DeleteClose, Handlers, TypeOK
<1>4. CASE DeleteRemove(d) /\ reply' = [reply EXCEPT ![d] = 204]
  BY <1>1, <1>4 DEF DeleteRemove, Handlers, TypeOK
<1>5. QED
  BY <1>2, <1>3, <1>4 DEF DeleteStep

LEMMA RequestsKept ==
  ASSUME IInv, Handlers, Requested, Refusing, Confirmed, [RelayNext]_allVars
  PROVE  Handlers' /\ Requested' /\ Refusing' /\ Confirmed'
<1> USE DEF IInv
<1>1. CASE UNCHANGED <<manager, handlers>>
  BY <1>1 DEF manager, vars, registry, fields, lifecycle, deleterVars, handlers, Handlers,
     Requested, Refusing, Confirmed
<1>2. CASE /\ UNCHANGED relay /\ UNCHANGED <<createPc, deletePc, deleteOf>>
           /\ closed \subseteq closed' /\ byID' \subseteq byID
  BY <1>2 DEF relay, handlers, Handlers, Requested, Refusing, Confirmed
<1>3. Sess \cap Deleter = {}
  BY RelayAssumption
<1>4. ASSUME NEW s \in Sess, NEW q \in Post,
             PostRefused(s, q) \/ PostSpawn(s, q) \/ PostFailed(s, q)
      PROVE  Handlers' /\ Requested' /\ Refusing' /\ Confirmed'
  BY <1>3, <1>4, Posted DEF Requested, Refusing, Confirmed
<1>5. ASSUME NEW s \in Sess, CreateRest(s) \/ PostReply(s)
      PROVE  Handlers' /\ Requested' /\ Refusing' /\ Confirmed'
  <2>1. s \in closed => createPc[s] # "spawned"
    BY DEF Origin, Created
  <2>2. QED
    BY <1>3, <1>5, <2>1, Creating DEF Requested, Refusing, Confirmed
<1>6. ASSUME NEW d \in Deleter, NEW cred \in Credential,
             DeleteRefused(d, cred) \/ DeleteCall(d, cred)
      PROVE  Handlers' /\ Requested' /\ Refusing' /\ Confirmed'
  BY <1>3, <1>6, Deleting DEF Requested, Refusing, Confirmed
<1>7. ASSUME NEW d \in Deleter, DeleteStep(d)
      PROVE  Handlers' /\ Requested' /\ Refusing' /\ Confirmed'
  <2>1. deletePc[d] = "remove" => deleteOf[d] \in closed
    BY DEF Marks
  <2>2. QED
    BY <1>3, <1>7, <2>1, Killing DEF Requested, Refusing, Confirmed
<1>8. QED
  BY <1>1, <1>2, <1>4, <1>5, <1>6, <1>7, ProcessSteps, ManagerSteps DEF RelayNext

\* The answer to a request is not given while its session may still be left running.
LEMMA Answered ==
  ASSUME IInv, ShellsLeft, Returns, Requested, stopPc[Main] = "done", ~Active,
         Handlers
  PROVE  live = {}
<1>1. mgrClosed /\ \A x \in Stopper : ~Busy(x)
  BY RelayAssumption DEF Returns, Busy
<1>2. \A h \in Sess \cup Deleter : asked[h] = "no" \/ reply[h] # 0
  BY DEF Active, Handlers
<1>3. ASSUME NEW s \in live PROVE FALSE
  <2>1. s \in Sess
    BY DEF IInv, TypeOK
  <2>2. CASE createPc[s] \in {"spawned", "abort"}
    BY <1>2, <2>1, <2>2 DEF Requested
  <2>3. ASSUME NEW d \in Deleter, deletePc[d] = "close" PROVE FALSE
    BY <1>2, <2>3 DEF Requested
  <2>4. QED
    BY <1>1, <2>2, <2>3 DEF ShellsLeft
<1>4. QED
  BY <1>3

\* What runRelay has waited for when it drains the connections, and when it succeeded.
Finished ==
  /\ runPc = "drain" => stopPc[Main] = "done"
  /\ result = "nil" => live = {} /\ ~Active

LEMMA StopStays ==
  ASSUME TypeOK, stopPc[Main] = "done", [RelayNext]_allVars
  PROVE  stopPc'[Main] = "done"
<1>1. [Next]_vars
  BY ManagerStep
<1>2. CASE UNCHANGED stopperVars
  BY <1>2 DEF stopperVars
<1>3. ASSUME NEW x \in Stopper, Stop(x) PROVE stopPc'[Main] = "done"
  <2>1. x = Main
    BY RelayAssumption
  <2>2. QED
    BY <1>3, <2>1 DEF Stop, StopRest, StopAgain, StopBegin, StopMark, StopClose, StopReaper,
       StopEnd
<1>4. ASSUME NEW s \in Sess, Create(s) \/ ShellExit(s) \/ Output(s) \/ WaitExit(s)
      PROVE  UNCHANGED stopperVars
  BY <1>4 DEF Create, CreateRefuse, CreateSpawn, CreateRegister, CreateTooLate, CreateAbort,
     CreateStart, ShellExit, Output, WaitExit, ExitRecord, ExitCollect, ExitRemove
<1>5. CASE Tick \/ ReapTick \/ ReapStop \/ ReapPass
  BY <1>2, <1>5 DEF Tick, ReapTick, ReapStop, ReapPass, ReapUnlock, ReapClose, ReapRemove,
     ReapEnd, ReapCheck, ReapMark
<1>6. ASSUME NEW d \in Deleter, Delete(d) PROVE UNCHANGED stopperVars
  BY <1>6 DEF Delete, DeleteMissing, DeleteGet, DeleteRest, DeleteMark, DeleteClose,
     DeleteRemove
<1>7. ASSUME NEW c \in Client, ClientStep(c) PROVE UNCHANGED stopperVars
  BY <1>7 DEF ClientStep, ClientGet, ClientJoin, ClientType, ClientTyped, ClientLeave
<1>8. CASE UNCHANGED vars \/ Terminated
  BY <1>2, <1>8 DEF vars, Terminated
<1>9. QED
  BY <1>1, <1>2, <1>3, <1>4, <1>5, <1>6, <1>7, <1>8 DEF Next

\* Once connections are no longer accepted and none is busy, no shell is added.
LEMMA Resting ==
  ASSUME Handlers, Requested, ~accepting, ~Active, [RelayNext]_allVars
  PROVE  live' \subseteq live /\ ~Active'
<1>1. \A h \in Sess \cup Deleter : ~(asked[h] # "no" /\ reply[h] = 0)
  BY DEF Active, Handlers
<1>2. CASE UNCHANGED <<manager, handlers>>
  BY <1>2 DEF manager, vars, console, handlers, Active
<1>3. CASE UNCHANGED relay /\ live' \subseteq live
  BY <1>3 DEF relay, handlers, Active
<1>4. ASSUME NEW s \in Sess, NEW q \in Post,
             PostRefused(s, q) \/ PostSpawn(s, q) \/ PostFailed(s, q)
      PROVE  FALSE
  BY <1>4 DEF PostRefused, PostSpawn, PostFailed
<1>5. ASSUME NEW s \in Sess, CreateRest(s) \/ PostReply(s) PROVE FALSE
  BY <1>1, <1>5 DEF Requested, CreateRest, PostReply, CreateRegister,
     CreateTooLate, CreateAbort, CreateStart
<1>6. ASSUME NEW d \in Deleter, NEW cred \in Credential,
             DeleteRefused(d, cred) \/ DeleteCall(d, cred)
      PROVE  FALSE
  BY <1>6 DEF DeleteRefused, DeleteCall
<1>7. ASSUME NEW d \in Deleter, DeleteStep(d) PROVE FALSE
  BY <1>1, <1>7 DEF Requested, DeleteStep, DeleteMark, DeleteClose, DeleteRemove
<1>8. QED
  BY <1>2, <1>3, <1>4, <1>5, <1>6, <1>7, ProcessSteps, ManagerSteps DEF RelayNext

LEMMA FinishedKept ==
  ASSUME Managed, Run, Handlers, Order, Requested, Finished, [RelayNext]_allVars
  PROVE  Finished'
<1> USE DEF settings, runVars, listen, scm
<1>1. TypeOK /\ (stopPc[Main] = "done" => stopPc'[Main] = "done")
  BY StopStays DEF Managed, IInv
<1>2. result = "nil" => live' = {} /\ ~Active'
  <2>1. result = "nil" => ~accepting
    BY DEF Order
  <2>2. QED
    BY <2>1, Resting DEF Finished
<1>3. CASE runPc' # "drain" /\ result' \in {result, "error"}
  BY <1>2, <1>3 DEF Finished
<1>4. CASE UNCHANGED process
  BY <1>1, <1>2, <1>4 DEF process, Finished
<1>5. CASE UNCHANGED <<runPc, result>>
  BY <1>1, <1>2, <1>5 DEF Finished
<1>6. ASSUME NEW flags \in Flags, NEW file \in File, Configure(flags, file)
      PROVE  Finished'
  BY <1>1, <1>2, <1>6 DEF Configure, Finished
<1>7. CASE Foreground \/ Execute \/ Listening \/ Selected \/ Leave \/ RelayEnds
           \/ RelayEnded \/ ListenerFails \/ Signal \/ Control
  <2>1. UNCHANGED result /\ (UNCHANGED runPc \/ runPc' # "drain")
    BY <1>7 DEF Foreground, Execute, Listening, Selected, Leave, RelayEnds,
       RelayEnded, ListenerFails, Signal, Control
  <2>2. QED
    BY <1>3, <1>5, <2>1
<1>8. CASE OpenFiles
  BY <1>3, <1>8 DEF OpenFiles, Return
<1>9. CASE Drain
  BY <1>1, <1>2, <1>9 DEF Drain, Finished
<1>10. CASE Drained
  <2>1. CASE result' = "error"
    BY <1>3, <1>10, <2>1 DEF Drained, Return
  <2>2. CASE ~Active /\ Return("nil")
    <3>1. live = {}
      BY <1>10, <2>2, Answered DEF Drained, Managed, Finished
    <3>2. live' = live /\ ~Active'
      BY <1>10, <2>2 DEF Drained, manager, vars, console, handlers, Active
    <3>3. QED
      BY <2>2, <3>1, <3>2 DEF Return, Finished
  <2>3. QED
    BY <1>10, <2>1, <2>2 DEF Drained, Return
<1>11. CASE FailReturn
  <2>1. listenErr = "error"
    BY <1>11 DEF FailReturn, Run, Order
  <2>2. QED
    BY <1>3, <1>11, <2>1 DEF FailReturn, Return
<1>12. QED
  BY <1>4, <1>6, <1>7, <1>8, <1>9, <1>10, <1>11, QuietSteps DEF RelayNext, Process

-----------------------------------------------------------------------------
(* The inductive invariant, and what follows from it *)

Kept ==
  /\ Settings /\ Run /\ Handlers /\ Service
  /\ Configured /\ Order /\ Reporting
  /\ Requested /\ Refusing /\ Confirmed /\ Finished

LEMMA KeptFromInit == ASSUME RelayInit PROVE Kept
<1>1. Settings /\ Configured
  BY DEF RelayInit, Settings, Configured
<1>2. Run /\ Service /\ Order
  BY DEF RelayInit, Run, Service, Order
<1>3. Handlers /\ Requested /\ Refusing /\ Confirmed
  BY DEF RelayInit, Init, Handlers, Requested, Refusing, Confirmed
<1>4. Reporting
  BY DEF RelayInit, Reporting
<1>5. Finished
  BY DEF RelayInit, Finished
<1>6. QED
  BY <1>1, <1>2, <1>3, <1>4, <1>5 DEF Kept

LEMMA KeptByNext == ASSUME Managed, Kept, [RelayNext]_allVars PROVE Kept'
<1>1. Settings' /\ Configured' /\ Run' /\ Order'
  BY SettingsKept, RunKept, OrderKept DEF Kept
<1>2. Service' /\ Reporting'
  BY ServiceKept, ReportingKept DEF Kept
<1>3. Handlers' /\ Requested' /\ Refusing' /\ Confirmed'
  BY RequestsKept DEF Kept, Managed
<1>4. Finished'
  BY FinishedKept DEF Kept
<1>5. QED
  BY <1>1, <1>2, <1>3, <1>4 DEF Kept

LEMMA RelayInvariance == RelaySpec => [](Managed /\ Kept)
<1>1. RelayInit => Kept
  BY KeptFromInit
<1>2. Managed /\ Kept /\ [RelayNext]_allVars => Kept'
  BY KeptByNext
<1>3. QED
  BY <1>1, <1>2, StaysManaged, PTL DEF RelaySpec

\* The relay's state is what the code's types and its control allow (main.go, svc.go,
\* server.go).
THEOREM RelayTypeCorrect == RelaySpec => []RelayTypeOK
<1>1. Managed /\ Kept => RelayTypeOK
  BY DEF Managed, IInv, Kept, RelayTypeOK
<1>2. QED
  BY <1>1, RelayInvariance, PTL

\* A shutdown that reports success leaves no shell behind, not even one that a request was
\* about to create or to kill, and has answered every request (runRelay, main.go).
THEOREM ExitsClean == RelaySpec => []CleanExit
<1>1. Kept => CleanExit
  BY DEF Kept, Finished, Order, CleanExit
<1>2. QED
  BY <1>1, RelayInvariance, PTL

\* What a reply says is so: a session reported as deleted is closed and not found again,
\* who does not carry the bearer is refused, and nobody is served without a bearer that is
\* long enough (server.go, auth.go, buildConfig).
THEOREM RepliesTrue == RelaySpec => []RepliesAreTrue
<1>1. ASSUME Kept PROVE RepliesAreTrue
  <2>1. DOMAIN reply = Sess \cup Deleter
    BY <1>1 DEF Kept, Handlers
  <2>2. accepting => runPc # "off"
    BY <1>1 DEF Kept, Order
  <2>3. QED
    BY <1>1, <2>1, <2>2 DEF Kept, Configured, Refusing, Confirmed, RepliesAreTrue
<1>2. QED
  BY <1>1, RelayInvariance, PTL

\* The service handler takes the relay's result once, so that it never waits for a second
\* one, and the service manager is told the states of the service in their order (Execute,
\* service_windows.go).
THEOREM ServiceKeepsProtocol == RelaySpec => []ServiceProtocol
<1>1. Kept => ServiceProtocol
  BY Protocol DEF Kept
<1>2. QED
  BY <1>1, RelayInvariance, PTL
=============================================================================
