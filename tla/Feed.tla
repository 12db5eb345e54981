-------------------------------- MODULE Feed --------------------------------
(***************************************************************************)
(* What a session promises each of its subscribers, whatever the locks,    *)
(* goroutines and clocks behind it: a replay of the scrollback, then every *)
(* chunk that enters the scrollback, in order, but for what is withheld    *)
(* around a resize; no loss of the subscription but by its owner, by being *)
(* slow or cancelled, or by the session's end, which is told to everyone   *)
(* who is still there; and nothing but that after it.  Session implements  *)
(* it.                                                                     *)
(***************************************************************************)
EXTENDS Integers, Sequences

CONSTANTS Sub,        \* subscriptions
          Chunk,      \* what the shell may print at a time
          QueueCap,   \* frames that may wait for a subscriber
          ScrollCap   \* chunks in the scrollback

VARIABLES
  state,       \* the session is open, closed to new subscribers, or has ended
  resizing,    \* a resize was recent enough for a redraw of the screen to be its
  log,         \* the chunks that entered the scrollback, from the first
  owner,       \* a subscription's owner has yet to join, has joined, has left
  on,          \* the subscriptions that output is offered to
  doomed,      \* the ones that had no room for the exit frame and will be taken off
  cancelled,   \* the subscriptions whose context has ended
  feed,        \* the frames a subscription got
  taken        \* how many of them its owner took

vars == <<state, resizing, log, owner, on, doomed, cancelled, feed, taken>>

\* The scrollback after the chunks of s.
Latest(s) == IF Len(s) <= ScrollCap THEN s ELSE SubSeq(s, Len(s) - ScrollCap + 1, Len(s))

Replay(d) == [t |-> "replay", d |-> d]
Out(c)    == [t |-> "out", d |-> <<c>>]
Exit      == [t |-> "exit", d |-> << >>]

\* As many frames wait as may.
Slow(s) == Len(feed[s]) - taken[s] >= QueueCap
ToldExit(s) == \E i \in 1 .. Len(feed[s]) : feed[s][i] = Exit

Init ==
  /\ state = "open" /\ resizing = FALSE /\ log = << >>
  /\ owner = [s \in Sub |-> "out"] /\ on = {} /\ doomed = {} /\ cancelled = {}
  /\ feed = [s \in Sub |-> << >>] /\ taken = [s \in Sub |-> 0]

Join(s) ==
  /\ state = "open" /\ owner[s] = "out"
  /\ owner' = [owner EXCEPT ![s] = "in"]
  /\ on' = on \cup {s}
  /\ feed' = [feed EXCEPT ![s] = <<Replay(Latest(log))>>]
  /\ UNCHANGED <<state, resizing, log, doomed, cancelled, taken>>

Refuse(s) ==
  /\ state # "open" /\ owner[s] = "out"
  /\ owner' = [owner EXCEPT ![s] = "left"]
  /\ cancelled' = cancelled \cup {s}
  /\ UNCHANGED <<state, resizing, log, on, doomed, feed, taken>>

\* A chunk enters the scrollback and goes to all but the ones it is withheld from and
\* the ones that are dropped.
Publish(c) ==
  \E withheld \in SUBSET on : \E dropped \in SUBSET (on \ withheld) :
    /\ withheld # {} => resizing
    /\ \A s \in dropped : Slow(s) \/ s \in cancelled
    /\ \A s \in on \ (withheld \cup dropped) : ~Slow(s)
    /\ log' = Append(log, c)
    /\ feed' = [s \in Sub |-> IF s \in on \ (withheld \cup dropped) THEN Append(feed[s], Out(c))
                                                                 ELSE feed[s]]
    /\ on' = on \ dropped
    /\ resizing' \in {resizing, FALSE}
    /\ UNCHANGED <<state, owner, doomed, cancelled, taken>>

Take(s) ==
  /\ owner[s] = "in" /\ taken[s] < Len(feed[s])
  /\ taken' = [taken EXCEPT ![s] = @ + 1]
  /\ UNCHANGED <<state, resizing, log, owner, on, doomed, cancelled, feed>>

Leave(s) ==
  /\ owner[s] = "in"
  /\ owner' = [owner EXCEPT ![s] = "left"]
  /\ on' = on \ {s}
  /\ UNCHANGED <<state, resizing, log, doomed, cancelled, feed, taken>>

\* The context of subscriptions ends.
Cancel(S) ==
  /\ \A s \in S : owner[s] # "out"
  /\ cancelled' = cancelled \cup S
  /\ UNCHANGED <<state, resizing, log, owner, on, doomed, feed, taken>>

Resize ==
  /\ resizing' = TRUE
  /\ UNCHANGED <<state, log, owner, on, doomed, cancelled, feed, taken>>

Close ==
  /\ state = "open" /\ state' = "closed"
  /\ UNCHANGED <<resizing, log, owner, on, doomed, cancelled, feed, taken>>

End ==
  /\ state # "ended" /\ state' = "ended"
  /\ UNCHANGED <<resizing, log, owner, on, doomed, cancelled, feed, taken>>

\* Whoever joined may be told of the end once, also when it was dropped or left since.
TellExit(s) ==
  /\ state = "ended" /\ owner[s] # "out" /\ ~Slow(s) /\ ~ToldExit(s)
  /\ feed' = [feed EXCEPT ![s] = Append(@, Exit)]
  /\ UNCHANGED <<state, resizing, log, owner, on, doomed, cancelled, taken>>

\* There is no room for the exit frame, and that is final: whoever was found slow is taken
\* off, even if its owner makes room in between.
Judge(s) ==
  /\ state = "ended" /\ Slow(s) /\ s \notin cancelled
  /\ doomed' = doomed \cup {s}
  /\ UNCHANGED <<state, resizing, log, owner, on, cancelled, feed, taken>>

Evict ==
  /\ doomed' = {}
  /\ on' = on \ doomed
  /\ UNCHANGED <<state, resizing, log, owner, cancelled, feed, taken>>

\* The end, once everyone who is still there was told or is cancelled.
Collect ==
  /\ state = "ended" /\ \A s \in on : ToldExit(s) \/ s \in cancelled
  /\ on' = {}
  /\ UNCHANGED <<state, resizing, log, owner, doomed, cancelled, feed, taken>>

Next ==
  \/ Resize \/ Close \/ End \/ Evict \/ Collect
  \/ \E s \in Sub : Join(s) \/ Refuse(s) \/ Take(s) \/ Leave(s) \/ TellExit(s) \/ Judge(s)
  \/ \E c \in Chunk : Publish(c)
  \/ \E S \in SUBSET Sub : Cancel(S)

Spec == Init /\ [][Next]_vars

-----------------------------------------------------------------------------
\* A subscription is cut off for a cause: its owner leaves, it is slow or cancelled, or the
\* session has ended and it was told.  Then it never comes back, and no frame reaches it but
\* the exit frame (publishOutput, fanout, removeSubscriber, waitExit).
CutOffForCause ==
  [][\A s \in Sub :
       /\ s \in on \ on' =>
            \/ owner'[s] = "left" /\ owner[s] # "left"
            \/ Slow(s) \/ s \in doomed \cup cancelled
            \/ state = "ended" /\ ToldExit(s)
       /\ s \notin on /\ owner[s] # "out" =>
            s \notin on' /\ feed'[s] \in {feed[s], Append(feed[s], Exit)}]_vars

\* Nobody is told of the end twice, dropped, evicted or taken over (fanout, waitExit).
ToldOnce ==
  \A s \in Sub : \A i, j \in 1 .. Len(feed[s]) :
    feed[s][i] = Exit /\ feed[s][j] = Exit => i = j
=============================================================================
