----------------------------- MODULE CwdTracker -----------------------------
(***************************************************************************)
(* relay/internal/session/cwdtracker.go and the part of Manager.pump and   *)
(* Session.publishOutput that calls it: finding the working directory the  *)
(* shell's prompt reports, ESC ] 9;9;path BEL or ESC ] 9;9;path ESC \, in  *)
(* an output that is read in chunks of any size.                           *)
(*                                                                         *)
(* Output is a sequence of tokens: the control bytes, the mark 9;9;, a     *)
(* double quote, and the segments a path is made of.                       *)
(***************************************************************************)
EXTENDS Integers, Sequences

CONSTANTS
  Segment,    \* tokens of a path
  MaxBody,    \* cwdMaxBody, in tokens
  Output,     \* what the shell may have written at a time: every output and its beginnings
  MaxUnread   \* bound: tokens waiting in the console, so the longest chunk

ASSUME CwdAssumption ==
  /\ MaxBody \in Nat \ {0} /\ MaxUnread \in Nat
  /\ Segment \cap {"ESC", "]", "BEL", "backslash", "mark", "quote"} = {}

Control == {"ESC", "]", "BEL", "backslash"}
Token   == Control \cup {"mark", "quote"} \cup Segment

ASSUME OutputAssumption == Output \subseteq Seq(Token)

VARIABLES
  state, body,   \* the tracker's, kept from one chunk to the next
  cwd,           \* Session.cwd, <<>> before the first report
  stream,        \* history: all the shell has written
  consumed       \* how much of it the pump has read

vars == <<state, body, cwd, stream, consumed>>

Init ==
  /\ state = "scan" /\ body = <<>> /\ cwd = <<>>
  /\ stream = <<>> /\ consumed = 0

-----------------------------------------------------------------------------
\* parseOSC99: the payload without the quotes around it; empty is no report.
Unquoted(p) ==
  LET kept == {i \in 1..Len(p) : p[i] # "quote"}
  IN IF kept = {} THEN <<>>
     ELSE SubSeq(p, CHOOSE i \in kept : \A j \in kept : i <= j,
                    CHOOSE i \in kept : \A j \in kept : i >= j)
ReportAny(b) == IF b # <<>> THEN Unquoted(Tail(b)) ELSE <<>>  \* mutant: takes a title as well
ReportOf(b) == IF b # <<>> /\ Head(b) = "mark" THEN Unquoted(Tail(b)) ELSE <<>>

\* One byte of feed.  out is the last path found in this chunk.
Started(t)     == [t EXCEPT !.state = "osc", !.body = <<>>]
Dropped(t, to) == [t EXCEPT !.state = to, !.body = <<>>]
ReportedFirst(t) ==  \* mutant: the first report of a chunk wins
  [state |-> "scan", body |-> <<>>, out |-> IF t.out = <<>> THEN ReportOf(t.body) ELSE t.out]
Reported(t) ==
  [state |-> "scan", body |-> <<>>,
   out |-> IF ReportOf(t.body) = <<>> THEN t.out ELSE ReportOf(t.body)]
Kept(t, b) == IF Len(t.body) < MaxBody THEN [t EXCEPT !.body = Append(@, b)] ELSE t

Feed(t, b) ==
  CASE t.state = "scan" -> IF b = "ESC" THEN [t EXCEPT !.state = "esc"] ELSE t
    [] t.state = "esc" -> IF b = "]" THEN Started(t)
                          ELSE IF b = "ESC" THEN t ELSE [t EXCEPT !.state = "scan"]
    [] t.state = "osc" -> IF b = "BEL" THEN Reported(t)
                          ELSE IF b = "ESC" THEN [t EXCEPT !.state = "oscEsc"] ELSE Kept(t, b)
    [] t.state = "oscEsc" -> IF b = "backslash" THEN Reported(t)
                             ELSE IF b = "ESC" THEN Dropped(t, "esc") ELSE Dropped(t, "scan")

\* feed: a chunk, byte by byte.
Fed(t, chunk) ==
  LET fed[k \in 0..Len(chunk)] == IF k = 0 THEN t ELSE Feed(fed[k - 1], chunk[k])
  IN fed[Len(chunk)]

-----------------------------------------------------------------------------
Emit(b) ==
  /\ Append(stream, b) \in Output /\ Len(stream) < consumed + MaxUnread
  /\ stream' = Append(stream, b)
  /\ UNCHANGED <<state, body, cwd, consumed>>

\* pump: one read of the console, fed whole; publishOutput keeps the last path of it.
Pump(n) ==
  LET chunk == SubSeq(stream, consumed + 1, consumed + n)
      fed   == Fed([state |-> state, body |-> body, out |-> <<>>], chunk)
  IN /\ consumed + n <= Len(stream)
     /\ state' = fed.state /\ body' = fed.body
     /\ cwd' = IF fed.out = <<>> THEN cwd ELSE fed.out
     /\ consumed' = consumed + n
     /\ UNCHANGED stream

Next == (\E b \in Token : Emit(b)) \/ (\E n \in 1..MaxUnread : Pump(n))

Spec == Init /\ [][Next]_vars

-----------------------------------------------------------------------------
TypeOK ==
  /\ state \in {"scan", "esc", "osc", "oscEsc"}
  /\ body \in Seq(Token) /\ Len(body) <= MaxBody
  /\ cwd \in Seq(Token) /\ stream \in Seq(Token) /\ consumed \in 0..Len(stream)

\* What protocol.md calls a report, told from the whole stream: where one starts and
\* ends, with nothing but a payload between.
Payload(i, j) == SubSeq(stream, i + 3, j)
IsReport(i, j) ==  \* from the ESC at i to the last token of the payload at j
  /\ i + 2 <= j /\ j < consumed
  /\ SubSeq(stream, i, i + 2) = <<"ESC", "]", "mark">>
  /\ \A k \in (i + 3)..j : stream[k] \notin {"ESC", "BEL"}
  /\ \/ stream[j + 1] = "BEL"
     \/ j + 2 <= consumed /\ SubSeq(stream, j + 1, j + 2) = <<"ESC", "backslash">>

\* What cwdMaxBody leaves of a payload: its marker is counted as well.
Shortened(p) == IF Len(p) < MaxBody THEN p ELSE SubSeq(p, 1, MaxBody - 1)

\* Another control sequence, opened before i, is still open there: its first ESC ends it.
Interrupts(i) ==
  \E k \in 1..(i - 2) : /\ stream[k] = "ESC" /\ stream[k + 1] = "]"
                        /\ \A m \in (k + 2)..(i - 1) : stream[m] \notin {"ESC", "BEL"}

\* The directory kept is one the shell reported, at most cut at cwdMaxBody: never
\* pieced together from other output, wherever the reads fell.
CwdWasReported ==
  cwd # <<>> => \E i, j \in 1..consumed :
    IsReport(i, j) /\ cwd = Unquoted(Shortened(Payload(i, j)))

\* The last report the pump has read is the directory kept, unless it was too long or
\* began inside another sequence: a file request is served where the shell is.
CwdFollowsShell ==
  \A i, j \in 1..consumed :
    /\ IsReport(i, j) /\ Len(Payload(i, j)) < MaxBody /\ Unquoted(Payload(i, j)) # <<>>
    /\ ~Interrupts(i)
    /\ \A k, m \in 1..consumed : IsReport(k, m) => k <= i
    => cwd = Unquoted(Payload(i, j))
=============================================================================
