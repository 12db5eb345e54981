-------------------------- MODULE CwdTrackerProofs --------------------------
(***************************************************************************)
(* The tracker of CwdTracker keeps the last directory that was reported,   *)
(* whatever the shell writes and wherever the reads fall.                  *)
(*                                                                         *)
(* Track says what the tracker knows of the first c tokens of a stream; it *)
(* is kept by every token, so by every chunk, so by every step.            *)
(***************************************************************************)
EXTENDS CwdTracker, FiniteSetTheorems, SequenceTheorems, TLAPS

Stop == {"ESC", "BEL"}

\* A control sequence that begins at i is open after c tokens.
Opened(s, i, c) ==
  /\ i \in Nat \ {0} /\ i + 1 <= c
  /\ s[i] = "ESC" /\ s[i + 1] = "]"
  /\ \A k \in (i + 2)..c : s[k] \notin Stop

\* It is not in another one.
Outside(s, i) == \A k \in Nat : ~Opened(s, k, i - 1)

\* b is what is kept of a control sequence that begins at i.
Holds(b, s, i, c) ==
  /\ b \in Seq(Token)
  /\ Len(b) = IF c - (i + 1) < MaxBody THEN c - (i + 1) ELSE MaxBody
  /\ \A k \in 1..Len(b) : b[k] = s[i + 1 + k]

\* IsReport, in the first c tokens of s.
Report(s, c, i, j) ==
  /\ Opened(s, i, j) /\ i + 2 <= j /\ s[i + 2] = "mark"
  /\ j \in Nat /\ j < c
  /\ \/ s[j + 1] = "BEL"
     \/ j + 2 <= c /\ s[j + 1] = "ESC" /\ s[j + 2] = "backslash"

\* An open control sequence is one that was begun, and the other way round.
Backward(t, s, c) ==
  /\ t.state = "esc" => c >= 1 /\ s[c] = "ESC"
  /\ t.state = "osc" => \E i \in Nat : Opened(s, i, c) /\ Holds(t.body, s, i, c)
  /\ t.state = "oscEsc" => /\ c >= 1 /\ s[c] = "ESC"
                           /\ \E i \in Nat : Opened(s, i, c - 1) /\ Holds(t.body, s, i, c - 1)
Forward(t, s, c) ==
  /\ c >= 1 /\ s[c] = "ESC" /\ Outside(s, c) => t.state = "esc"
  /\ \A i \in Nat : /\ Opened(s, i, c) /\ Outside(s, i)
                    => t.state = "osc" /\ Holds(t.body, s, i, c)
  /\ \A i \in Nat : /\ c >= 1 /\ s[c] = "ESC" /\ Opened(s, i, c - 1) /\ Outside(s, i)
                    => t.state = "oscEsc" /\ Holds(t.body, s, i, c - 1)

Said(s, i, j) == SubSeq(s, i + 3, j)
\* The directory kept is one that was reported, and the last that could be kept.
WasReported(v, s, c) ==
  v # <<>> => \E i, j \in Nat : Report(s, c, i, j) /\ v = Unquoted(Shortened(Said(s, i, j)))
IsLatest(v, s, c) ==
  \A i, j \in Nat :
    /\ Report(s, c, i, j) /\ Len(Said(s, i, j)) < MaxBody /\ Unquoted(Said(s, i, j)) # <<>>
    /\ Outside(s, i)
    /\ \A k, m \in Nat : Report(s, c, k, m) => k <= i
    => v = Unquoted(Said(s, i, j))

\* The directory after a part of a chunk: Session.cwd is w before it.
Value(t, w) == IF t.out = <<>> THEN w ELSE t.out

Tracker == [state : {"scan", "esc", "osc", "oscEsc"}, body : Seq(Token), out : Seq(Token)]
Track(t, v, s, c) ==
  /\ t \in Tracker /\ Len(t.body) <= MaxBody
  /\ Backward(t, s, c) /\ Forward(t, s, c)
  /\ WasReported(v, s, c) /\ IsLatest(v, s, c)

-----------------------------------------------------------------------------
(* Induction over the numbers up to n, from what is known of finite sets.  *)
LEMMA Induction ==
  ASSUME NEW n \in Nat, NEW T, 0 \in T, \A k \in 0..(n - 1) : k \in T => k + 1 \in T
  PROVE  \A k \in 0..n : k \in T
<1>1. SUFFICES ASSUME NEW u \in 0..n, u \notin T PROVE FALSE
  OBVIOUS
<1> DEFINE W == {k \in 0..u : k \notin T}
           f == [k \in W |-> k - 1]
<1>2. IsFiniteSet(W)
  <2>1. IsFiniteSet(0..u) BY FS_Interval
  <2>2. W \in SUBSET (0..u) OBVIOUS
  <2> HIDE DEF W
  <2> QED BY <2>1, <2>2, FS_Subset
<1>3. f \in Injection(W, W)
  <2>1. \A k \in W : k - 1 \in W
    OBVIOUS
  <2> QED BY <2>1 DEF Injection, IsInjective
<1>4. f \in Surjection(W, W)
  <2> HIDE DEF f, W
  <2> QED BY <1>2, <1>3, FS_Injection
<1>5. \E k \in W : f[k] = u
  <2>1. u \in W BY <1>1
  <2> HIDE DEF f, W
  <2> QED BY <2>1, <1>4 DEF Surjection
<1> QED BY <1>5

IsRun(r, t, s, m) == r = [k \in 0..m |-> IF k = 0 THEN t ELSE Feed(r[k - 1], s[k])]

\* Feeding a chunk byte by byte is well defined.
LEMMA RunExists ==
  ASSUME NEW t, NEW s, NEW n \in Nat
  PROVE  \E r : IsRun(r, t, s, n)
<1> DEFINE T == {m \in 0..n : \E r : IsRun(r, t, s, m)}
<1>1. 0 \in T
  <2>1. IsRun([k \in 0..0 |-> t], t, s, 0) BY DEF IsRun
  <2> QED BY <2>1
<1>2. ASSUME NEW m \in 0..(n - 1), m \in T PROVE m + 1 \in T
  <2>1. PICK r : IsRun(r, t, s, m) BY <1>2
  <2> DEFINE q == [k \in 0..(m + 1) |-> IF k = m + 1 THEN Feed(r[m], s[k]) ELSE r[k]]
  <2>2. \A k \in 0..m : r[k] = IF k = 0 THEN t ELSE Feed(r[k - 1], s[k])
    BY <2>1 DEF IsRun
  <2>3. \A k \in 0..m : q[k] = r[k]
    OBVIOUS
  <2>4. ASSUME NEW k \in 0..(m + 1)
        PROVE  q[k] = IF k = 0 THEN t ELSE Feed(q[k - 1], s[k])
    <3>1. CASE k = 0 BY <2>2, <2>3, <3>1
    <3>2. CASE k \in 1..m
      <4>1. k - 1 \in 0..m /\ k \in 0..m BY <3>2
      <4> QED BY <2>2, <2>3, <3>2, <4>1
    <3>3. CASE k = m + 1
      <4>1. m \in 0..m BY <1>2
      <4>2. q[k] = Feed(r[m], s[k]) BY <3>3
      <4>3. q[k - 1] = r[m] BY <3>3, <2>3, <4>1
      <4> QED BY <3>3, <4>2, <4>3
    <3> QED BY <3>1, <3>2, <3>3
  <2>5. IsRun(q, t, s, m + 1)
    <3> HIDE DEF q
    <3> QED BY <2>4 DEF q, IsRun
  <2> QED BY <2>5
<1>3. n \in T
  <2> HIDE DEF T
  <2> QED BY <1>1, <1>2, Induction
<1> QED BY <1>3

\* Fed is the end of such a run.
LEMMA FedIsRun ==
  ASSUME NEW t, NEW s, Len(s) \in Nat
  PROVE  \E r : IsRun(r, t, s, Len(s)) /\ Fed(t, s) = r[Len(s)]
<1> DEFINE r == CHOOSE q : IsRun(q, t, s, Len(s))
<1>1. IsRun(r, t, s, Len(s))
  BY RunExists
<1>2. Fed(t, s) = r[Len(s)]
  BY Zenon DEF Fed, IsRun
<1> QED BY <1>1, <1>2

-----------------------------------------------------------------------------
(* Payloads.                                                               *)
LEMMA Least ==
  ASSUME NEW n \in Nat, NEW K, K \subseteq 1..n, K # {}
  PROVE  \E i \in K : \A j \in K : i <= j
<1>1. SUFFICES ASSUME \A i \in K : \E j \in K : j < i PROVE FALSE
  OBVIOUS
<1> DEFINE T == {m \in 0..n : \A k \in K : k > m}
<1>2. 0 \in T
  OBVIOUS
<1>3. \A m \in 0..(n - 1) : m \in T => m + 1 \in T
  BY <1>1
<1>4. n \in T
  <2> HIDE DEF T
  <2> QED BY <1>2, <1>3, Induction
<1>5. PICK k \in K : TRUE
  OBVIOUS
<1>6. k \in 1..n /\ k > n
  BY <1>4
<1> QED BY <1>6

LEMMA Greatest ==
  ASSUME NEW n \in Nat, NEW K, K \subseteq 1..n, K # {}
  PROVE  \E i \in K : \A j \in K : i >= j
<1> DEFINE M == {n + 1 - i : i \in K}
<1>1. M \subseteq 1..n /\ M # {}
  <2>1. ASSUME NEW i \in K PROVE n + 1 - i \in 1..n
    OBVIOUS
  <2> QED BY <2>1
<1>2. PICK m \in M : \A j \in M : m <= j
  <2> HIDE DEF M
  <2> QED BY <1>1, Least
<1>3. PICK i \in K : m = n + 1 - i
  BY <1>2
<1>4. \A j \in K : i >= j
  <2> TAKE j \in K
  <2>1. n + 1 - j \in M OBVIOUS
  <2>2. i \in 1..n /\ j \in 1..n OBVIOUS
  <2> QED BY <2>1, <2>2, <1>2, <1>3
<1> QED BY <1>4

LEMMA UnquotedType ==
  ASSUME NEW p \in Seq(Token)
  PROVE  Unquoted(p) \in Seq(Token)
<1> DEFINE K == {i \in 1..Len(p) : p[i] # "quote"}
           a == CHOOSE i \in K : \A j \in K : i <= j
           z == CHOOSE i \in K : \A j \in K : i >= j
<1>1. CASE K = {}
  <2>1. Unquoted(p) = <<>> BY <1>1 DEF Unquoted
  <2> QED BY <2>1
<1>2. CASE K # {}
  <2>1. a \in K /\ z \in K
    <3>1. K \subseteq 1..Len(p) OBVIOUS
    <3>2. Len(p) \in Nat BY LenProperties
    <3> HIDE DEF K
    <3> QED BY <3>1, <3>2, <1>2, Least, Greatest
  <2>2. Unquoted(p) = SubSeq(p, a, z)
    BY <1>2 DEF Unquoted
  <2>3. a \in 1..Len(p) /\ z \in 1..Len(p)
    BY <2>1
  <2>4. \A x, y \in 1..Len(p) : SubSeq(p, x, y) \in Seq(Token)
    OBVIOUS
  <2> HIDE DEF a, z
  <2> QED BY <2>2, <2>3, <2>4
<1> QED BY <1>1, <1>2

LEMMA SaidType ==
  ASSUME NEW s \in Seq(Token), NEW i \in Nat, NEW c \in Nat, c <= Len(s), i + 2 <= c
  PROVE  /\ Said(s, i, c) \in Seq(Token)
         /\ Len(Said(s, i, c)) = c - (i + 2)
         /\ \A k \in 1..(c - (i + 2)) : Said(s, i, c)[k] = s[i + 2 + k]
BY DEF Said

LEMMA ShortenedType ==
  ASSUME NEW p \in Seq(Token)
  PROVE  /\ Shortened(p) \in Seq(Token)
         /\ Len(Shortened(p)) = IF Len(p) < MaxBody THEN Len(p) ELSE MaxBody - 1
         /\ \A k \in 1..Len(Shortened(p)) : Shortened(p)[k] = p[k]
<1>1. MaxBody \in Nat \ {0} /\ Len(p) \in Nat
  <2>1. MaxBody \in Nat \ {0} BY CwdAssumption
  <2>2. Len(p) \in Nat BY LenProperties
  <2> QED BY <2>1, <2>2
<1>2. CASE Len(p) < MaxBody
  BY <1>1, <1>2 DEF Shortened
<1>3. CASE ~(Len(p) < MaxBody)
  <2>1. MaxBody - 1 \in 0..Len(p)
    BY <1>1, <1>3
  <2>2. Shortened(p) = SubSeq(p, 1, MaxBody - 1)
    BY <1>3 DEF Shortened
  <2> QED BY <1>1, <1>3, <2>1, <2>2
<1> QED BY <1>2, <1>3

\* What a body of the tracker reports, told from the stream.
LEMMA BodySays ==
  ASSUME NEW s \in Seq(Token), NEW i \in Nat, NEW c \in Nat, c <= Len(s), NEW b,
         Opened(s, i, c), Holds(b, s, i, c)
  PROVE  ReportOf(b) = IF i + 2 <= c /\ s[i + 2] = "mark"
                         THEN Unquoted(Shortened(Said(s, i, c))) ELSE <<>>
<1>0. b \in Seq(Token) /\ Len(b) \in Nat /\ MaxBody \in Nat \ {0} /\ i + 1 <= c
  <2>1. b \in Seq(Token) BY DEF Holds
  <2>2. MaxBody \in Nat \ {0} BY CwdAssumption
  <2>3. i + 1 <= c BY DEF Opened
  <2> QED BY <2>1, <2>2, <2>3
<1>1. CASE i + 2 <= c
  <2>1. Len(b) >= 1 /\ b # <<>> /\ Head(b) = s[i + 2]
    BY <1>0, <1>1 DEF Holds
  <2>2. Tail(b) = Shortened(Said(s, i, c))
    <3>1. /\ Tail(b) \in Seq(Token) /\ Len(Tail(b)) = Len(b) - 1
          /\ \A k \in 1..(Len(b) - 1) : Tail(b)[k] = b[k + 1]
      BY <1>0, <2>1
    <3>2. /\ Said(s, i, c) \in Seq(Token) /\ Len(Said(s, i, c)) = c - (i + 2)
          /\ \A k \in 1..(c - (i + 2)) : Said(s, i, c)[k] = s[i + 2 + k]
      BY <1>1, SaidType
    <3>3. /\ Shortened(Said(s, i, c)) \in Seq(Token)
          /\ Len(Shortened(Said(s, i, c))) = IF Len(Said(s, i, c)) < MaxBody
                                               THEN Len(Said(s, i, c)) ELSE MaxBody - 1
          /\ \A k \in 1..Len(Shortened(Said(s, i, c))) :
               Shortened(Said(s, i, c))[k] = Said(s, i, c)[k]
      BY <3>2, ShortenedType
    <3> DEFINE x == Tail(b)
               y == Shortened(Said(s, i, c))
    <3>4. Len(x) = Len(y)
      BY <1>0, <1>1, <3>1, <3>2, <3>3 DEF Holds
    <3>5. \A k \in 1..Len(x) : x[k] = y[k]
      <4> TAKE k \in 1..Len(x)
      <4>1. k \in 1..(Len(b) - 1) /\ k + 1 \in 1..Len(b)
        BY <1>0, <3>1
      <4>2. x[k] = s[i + 2 + k]
        BY <1>0, <4>1, <3>1 DEF Holds
      <4>3. k \in 1..(c - (i + 2))
        BY <1>0, <4>1 DEF Holds
      <4>4. k \in 1..Len(y)
        BY <3>4
      <4>5. y[k] = Said(s, i, c)[k]
        BY <4>4, <3>3
      <4>6. Said(s, i, c)[k] = s[i + 2 + k]
        BY <4>3, <3>2
      <4> QED BY <4>2, <4>5, <4>6
    <3> HIDE DEF x, y
    <3>6. x \in Seq(Token) /\ y \in Seq(Token)
      BY <3>1, <3>3 DEF x, y
    <3>7. x = y
      BY <3>4, <3>5, <3>6, SeqEqual
    <3> QED BY <3>7 DEF x, y
  <2> QED BY <1>1, <2>1, <2>2 DEF ReportOf
<1>2. CASE ~(i + 2 <= c)
  <2>1. Len(b) = 0
    BY <1>0, <1>2 DEF Holds
  <2>2. b = <<>>
    BY <1>0, <2>1
  <2> QED BY <1>2, <2>2 DEF ReportOf
<1> QED BY <1>1, <1>2

-----------------------------------------------------------------------------
(* One token.                                                              *)
Same(u, t)   == u.out = t.out
Ends(t, u)   == /\ u.state = "scan" /\ u.body = <<>>
                /\ u.out = IF ReportOf(t.body) = <<>> THEN t.out ELSE ReportOf(t.body)

\* What a token may do to the tracker.
Escapes(t, b, u) == t.state # "osc" /\ b = "ESC" /\ u.state = "esc" /\ Same(u, t)
Scans(t, b, u)   == /\ t.state # "osc" /\ b # "ESC" /\ u.state = "scan" /\ Same(u, t)
                    /\ ~(t.state = "esc" /\ b = "]") /\ ~(t.state = "oscEsc" /\ b = "backslash")
Opens(t, b, u)   == t.state = "esc" /\ b = "]" /\ u.state = "osc" /\ u.body = <<>> /\ Same(u, t)
Pauses(t, b, u)  == /\ t.state = "osc" /\ b = "ESC" /\ u.state = "oscEsc"
                    /\ u.body = t.body /\ Same(u, t)
Grows(t, b, u)   == /\ t.state = "osc" /\ b \notin Stop /\ u.state = "osc" /\ Same(u, t)
                    /\ u.body = IF Len(t.body) < MaxBody THEN Append(t.body, b) ELSE t.body
Closes(t, b, u)  == \/ t.state = "osc" /\ b = "BEL" /\ Ends(t, u)
                    \/ t.state = "oscEsc" /\ b = "backslash" /\ Ends(t, u)
Moves(t, b, u)   == \/ Escapes(t, b, u) \/ Scans(t, b, u) \/ Opens(t, b, u)
                    \/ Pauses(t, b, u) \/ Grows(t, b, u) \/ Closes(t, b, u)

LEMMA FeedCases ==
  ASSUME NEW t \in Tracker, Len(t.body) <= MaxBody, NEW b \in Token
  PROVE  /\ Feed(t, b) \in Tracker /\ Len(Feed(t, b).body) <= MaxBody
         /\ Moves(t, b, Feed(t, b))
<1> DEFINE u == Feed(t, b)
<1>0. /\ t.body \in Seq(Token) /\ t.out \in Seq(Token) /\ <<>> \in Seq(Token)
      /\ t.state \in {"scan", "esc", "osc", "oscEsc"} /\ MaxBody \in Nat /\ Len(<<>>) = 0
  <2>1. MaxBody \in Nat BY CwdAssumption
  <2> QED BY <2>1 DEF Tracker
<1>1. CASE t.state = "scan"
  <2>1. u = IF b = "ESC" THEN [t EXCEPT !.state = "esc"] ELSE t
    BY <1>1 DEF Feed
  <2> QED BY <1>0, <1>1, <2>1 DEF Tracker, Same, Moves, Escapes, Scans
<1>2. CASE t.state = "esc"
  <2>1. u = IF b = "]" THEN Started(t) ELSE IF b = "ESC" THEN t ELSE [t EXCEPT !.state = "scan"]
    BY <1>2 DEF Feed
  <2>2. CASE b = "]"
    <3>1. /\ Started(t) \in Tracker /\ Started(t).state = "osc" /\ Started(t).body = <<>>
          /\ Same(Started(t), t)
      BY <1>0 DEF Tracker, Same, Started
    <3>2. u = Started(t) BY <2>1, <2>2
    <3> QED BY <1>0, <1>2, <2>2, <3>1, <3>2 DEF Moves, Opens
  <2>3. CASE b = "ESC"
    <3>1. u = t BY <2>1, <2>3
    <3> QED BY <1>2, <2>3, <3>1 DEF Moves, Escapes, Same
  <2>4. CASE b \notin {"]", "ESC"}
    <3>1. u = [t EXCEPT !.state = "scan"] BY <2>1, <2>4
    <3>2. u \in Tracker /\ u.state = "scan" /\ u.body = t.body /\ Same(u, t)
      BY <1>0, <3>1 DEF Tracker, Same
    <3> QED BY <1>2, <2>4, <3>2 DEF Moves, Scans
  <2> QED BY <2>2, <2>3, <2>4
<1>3. ReportOf(t.body) \in Seq(Token)
  <2>1. CASE t.body # <<>>
    <3>1. Tail(t.body) \in Seq(Token)
      BY <1>0, <2>1
    <3>2. Unquoted(Tail(t.body)) \in Seq(Token)
      BY <3>1, UnquotedType
    <3> QED BY <1>0, <3>2 DEF ReportOf
  <2> QED BY <1>0, <2>1 DEF ReportOf
<1>4. Reported(t) \in Tracker /\ Reported(t).body = <<>> /\ Ends(t, Reported(t))
  BY <1>0, <1>3 DEF Reported, Tracker, Ends
<1>5. CASE t.state = "osc"
  <2>1. u = IF b = "BEL" THEN Reported(t)
            ELSE IF b = "ESC" THEN [t EXCEPT !.state = "oscEsc"] ELSE Kept(t, b)
    BY <1>5 DEF Feed
  <2>2. CASE b = "BEL"
    BY <1>0, <1>4, <1>5, <2>1, <2>2 DEF Moves, Closes
  <2>3. CASE b = "ESC"
    BY <1>0, <1>5, <2>1, <2>3 DEF Tracker, Same, Moves, Pauses
  <2>4. CASE b \notin Stop
    <3>1. u = IF Len(t.body) < MaxBody THEN [t EXCEPT !.body = Append(@, b)] ELSE t
      BY <2>1, <2>4 DEF Kept, Stop
    <3>2. Append(t.body, b) \in Seq(Token) /\ Len(Append(t.body, b)) = Len(t.body) + 1
          /\ Len(t.body) \in Nat
      BY <1>0, AppendProperties, LenProperties
    <3>3. CASE Len(t.body) < MaxBody
      <4>1. u = [t EXCEPT !.body = Append(@, b)]
        BY <3>1, <3>3
      <4>2. u.state = "osc" /\ u.out = t.out /\ u.body = Append(t.body, b)
        BY <1>5, <4>1 DEF Tracker
      <4>3. u \in Tracker
        BY <4>1, <3>2 DEF Tracker
      <4>4. Len(u.body) <= MaxBody
        BY <1>0, <3>2, <3>3, <4>2
      <4>5. Grows(t, b, u)
        <5> HIDE DEF u
        <5> QED BY <1>5, <2>4, <3>3, <4>2 DEF Grows, Same
      <4> QED BY <4>3, <4>4, <4>5 DEF Moves
    <3>4. CASE ~(Len(t.body) < MaxBody)
      BY <1>0, <1>5, <2>4, <3>1, <3>4 DEF Tracker, Same, Moves, Grows
    <3> QED BY <3>3, <3>4
  <2> QED BY <2>2, <2>3, <2>4 DEF Stop
<1>6. CASE t.state = "oscEsc"
  <2>1. u = IF b = "backslash" THEN Reported(t)
            ELSE IF b = "ESC" THEN Dropped(t, "esc") ELSE Dropped(t, "scan")
    BY <1>6 DEF Feed
  <2>2. CASE b = "backslash"
    BY <1>0, <1>4, <1>6, <2>1, <2>2 DEF Moves, Closes
  <2>3. CASE b # "backslash"
    <3>1. /\ Dropped(t, "esc") \in Tracker /\ Dropped(t, "esc").state = "esc"
          /\ Same(Dropped(t, "esc"), t) /\ Dropped(t, "esc").body = <<>>
          /\ Dropped(t, "scan") \in Tracker /\ Dropped(t, "scan").state = "scan"
          /\ Same(Dropped(t, "scan"), t) /\ Dropped(t, "scan").body = <<>>
      BY <1>0 DEF Tracker, Same, Dropped
    <3> QED BY <1>0, <1>6, <2>1, <2>3, <3>1 DEF Moves, Escapes, Scans
  <2> QED BY <2>2, <2>3
<1> QED BY <1>0, <1>1, <1>2, <1>5, <1>6

\* What is known of the stream when a token is added.
LEMMA OpenedStep ==
  ASSUME NEW s, NEW c \in Nat, NEW i \in Nat
  PROVE  Opened(s, i, c + 1) <=> \/ Opened(s, i, c) /\ s[c + 1] \notin Stop
                                 \/ i = c /\ i # 0 /\ s[c] = "ESC" /\ s[c + 1] = "]"
BY DEF Opened, Stop

LEMMA HoldsStep ==
  ASSUME NEW s, NEW c \in Nat, NEW i \in Nat, i + 1 <= c, NEW body0, Holds(body0, s, i, c),
         s[c + 1] \in Token
  PROVE  Holds(IF Len(body0) < MaxBody THEN Append(body0, s[c + 1]) ELSE body0, s, i, c + 1)
<1>1. MaxBody \in Nat \ {0}
  BY CwdAssumption
<1>2. body0 \in Seq(Token) /\ Len(body0) \in Nat
  <2>1. body0 \in Seq(Token) BY DEF Holds
  <2> QED BY <2>1, LenProperties
<1>3. CASE Len(body0) < MaxBody
  <2> DEFINE q == Append(body0, s[c + 1])
  <2>1. /\ q \in Seq(Token) /\ Len(q) = Len(body0) + 1
        /\ \A k \in 1..Len(body0) : q[k] = body0[k]
        /\ q[Len(body0) + 1] = s[c + 1]
    BY <1>2, AppendProperties
  <2> HIDE DEF q
  <2>2. Len(body0) = c - (i + 1)
    BY <1>1, <1>3 DEF Holds
  <2>3. Len(q) = IF c + 1 - (i + 1) < MaxBody THEN c + 1 - (i + 1) ELSE MaxBody
    BY <1>1, <1>3, <2>1, <2>2
  <2>4. \A k \in 1..Len(q) : q[k] = s[i + 1 + k]
    <3> TAKE k \in 1..Len(q)
    <3>1. CASE k \in 1..Len(body0)
      BY <2>1, <3>1 DEF Holds
    <3>2. CASE k = Len(body0) + 1
      <4>1. i + 1 + k = c + 1 BY <2>2, <3>2
      <4> QED BY <2>1, <3>2, <4>1
    <3> QED BY <1>2, <2>1, <3>1, <3>2
  <2>5. Holds(q, s, i, c + 1)
    BY <2>1, <2>3, <2>4 DEF Holds
  <2> QED BY <1>3, <2>5 DEF q
<1>4. CASE ~(Len(body0) < MaxBody)
  BY <1>1, <1>2, <1>4 DEF Holds
<1> QED BY <1>3, <1>4

LEMMA BackwardStep ==
  ASSUME NEW s \in Seq(Token), NEW c \in Nat, c + 1 <= Len(s), NEW t \in Tracker,
         Backward(t, s, c), NEW u, Moves(t, s[c + 1], u)
  PROVE  Backward(u, s, c + 1)
<1> DEFINE b == s[c + 1]
<1>0. b \in Token /\ c + 1 - 1 = c /\ c + 1 >= 1 /\ c + 1 \in Nat
  OBVIOUS
<1> HIDE DEF b
<1>1. CASE u.state = "scan"
  BY <1>1 DEF Backward
<1>2. CASE Escapes(t, b, u)
  BY <1>0, <1>2 DEF Backward, b, Escapes
<1>3. CASE Opens(t, b, u)
  <2>1. c >= 1 /\ s[c] = "ESC" /\ c \in Nat
    BY <1>3 DEF Backward, Opens
  <2>2. Opened(s, c, c + 1)
    BY <1>3, <2>1, OpenedStep DEF b, Opens
  <2>3. Holds(<<>>, s, c, c + 1)
    <3>1. MaxBody \in Nat \ {0} BY CwdAssumption
    <3> QED BY <3>1 DEF Holds
  <2> QED BY <1>3, <2>1, <2>2, <2>3 DEF Backward, Opens
<1>4. CASE Pauses(t, b, u)
  <2>1. \E i \in Nat : Opened(s, i, c) /\ Holds(u.body, s, i, c)
    BY <1>4 DEF Backward, Pauses
  <2> QED BY <1>0, <1>4, <2>1 DEF Backward, b, Pauses
<1>5. CASE Grows(t, b, u)
  <2>1. PICK i \in Nat : Opened(s, i, c) /\ Holds(t.body, s, i, c)
    BY <1>5 DEF Backward, Grows
  <2>2. Opened(s, i, c + 1)
    BY <1>5, <2>1, OpenedStep DEF b, Grows
  <2>3. Holds(u.body, s, i, c + 1)
    <3>1. i + 1 <= c BY <2>1 DEF Opened
    <3> QED BY <1>0, <1>5, <2>1, <3>1, HoldsStep DEF b, Grows
  <2> QED BY <1>5, <2>2, <2>3 DEF Backward, Grows
<1> QED BY <1>1, <1>2, <1>3, <1>4, <1>5 DEF b, Moves, Scans, Closes, Ends

LEMMA ForwardStep ==
  ASSUME NEW s \in Seq(Token), NEW c \in Nat, c + 1 <= Len(s), NEW t \in Tracker,
         Backward(t, s, c), Forward(t, s, c), NEW u, Moves(t, s[c + 1], u)
  PROVE  Forward(u, s, c + 1)
<1> DEFINE b == s[c + 1]
<1>0. b \in Token /\ c + 1 - 1 = c /\ c + 1 >= 1 /\ c + 1 \in Nat
  OBVIOUS
<1> HIDE DEF b
<1>1. ASSUME b = "ESC", Outside(s, c + 1) PROVE u.state = "esc"
  <2>1. t.state # "osc"
    BY <1>0, <1>1 DEF Backward, Outside
  <2> QED BY <1>1, <2>1 DEF b, Moves, Escapes, Scans, Opens, Pauses, Grows, Closes
<1>2. ASSUME NEW i \in Nat, Opened(s, i, c + 1), Outside(s, i)
      PROVE  u.state = "osc" /\ Holds(u.body, s, i, c + 1)
  <2>1. CASE Opened(s, i, c) /\ b \notin Stop
    <3>1. t.state = "osc" /\ Holds(t.body, s, i, c)
      BY <1>2, <2>1 DEF Forward
    <3>2. Grows(t, b, u)
      BY <2>1, <3>1 DEF b, Moves, Escapes, Scans, Opens, Pauses, Grows, Closes, Stop
    <3>3. i + 1 <= c BY <2>1 DEF Opened
    <3>4. Holds(u.body, s, i, c + 1)
      BY <1>0, <3>1, <3>2, <3>3, HoldsStep DEF b, Grows
    <3> QED BY <3>2, <3>4 DEF Grows
  <2>2. CASE i = c /\ i # 0 /\ s[c] = "ESC" /\ b = "]"
    <3>1. t.state = "esc"
      <4>1. c >= 1 BY <2>2
      <4> QED BY <1>2, <2>2, <4>1 DEF Forward
    <3>2. Opens(t, b, u)
      BY <2>2, <3>1 DEF b, Moves, Escapes, Scans, Opens, Pauses, Grows, Closes
    <3>3. Holds(<<>>, s, i, c + 1)
      <4>1. MaxBody \in Nat \ {0} BY CwdAssumption
      <4> QED BY <2>2, <4>1 DEF Holds
    <3> QED BY <3>2, <3>3 DEF Opens
  <2> QED BY <1>2, <2>1, <2>2, OpenedStep DEF b
<1>3. ASSUME NEW i \in Nat, b = "ESC", Opened(s, i, c), Outside(s, i)
      PROVE  u.state = "oscEsc" /\ Holds(u.body, s, i, c)
  <2>1. t.state = "osc" /\ Holds(t.body, s, i, c)
    BY <1>3 DEF Forward
  <2>2. Pauses(t, b, u)
    BY <1>3, <2>1 DEF b, Moves, Escapes, Scans, Opens, Pauses, Grows, Closes, Stop
  <2> QED BY <2>1, <2>2 DEF Pauses
<1> QED BY <1>0, <1>1, <1>2, <1>3 DEF Forward, b

-----------------------------------------------------------------------------
(* The directory.                                                          *)
LEMMA ReportsStay ==
  ASSUME NEW s, NEW c \in Nat, NEW i \in Nat, NEW j \in Nat, Report(s, c, i, j)
  PROVE  Report(s, c + 1, i, j)
BY DEF Report

\* What ends a control sequence that has a marker is a report.
LEMMA CloseReports ==
  ASSUME NEW s \in Seq(Token), NEW c \in Nat, c + 1 <= Len(s), NEW t \in Tracker,
         Backward(t, s, c), NEW u, Closes(t, s[c + 1], u), ReportOf(t.body) # <<>>
  PROVE  \E i, j \in Nat : /\ Report(s, c + 1, i, j) /\ ~Report(s, c, i, j)
                           /\ ReportOf(t.body) = Unquoted(Shortened(Said(s, i, j)))
<1> DEFINE b == s[c + 1]
<1>1. CASE t.state = "osc" /\ b = "BEL"
  <2>1. PICK i \in Nat : Opened(s, i, c) /\ Holds(t.body, s, i, c)
    BY <1>1 DEF Backward
  <2>2. ReportOf(t.body) = IF i + 2 <= c /\ s[i + 2] = "mark"
                             THEN Unquoted(Shortened(Said(s, i, c))) ELSE <<>>
    BY <2>1, BodySays
  <2>3. i + 2 <= c /\ s[i + 2] = "mark" /\ ReportOf(t.body) = Unquoted(Shortened(Said(s, i, c)))
    BY <2>2
  <2>4. Report(s, c + 1, i, c)
    BY <1>1, <2>1, <2>3 DEF Report
  <2>5. ~Report(s, c, i, c)
    BY DEF Report
  <2> QED BY <2>3, <2>4, <2>5
<1>2. CASE t.state = "oscEsc" /\ b = "backslash"
  <2>1. c >= 1 /\ s[c] = "ESC" /\ c - 1 \in Nat
    BY <1>2 DEF Backward
  <2>2. PICK i \in Nat : Opened(s, i, c - 1) /\ Holds(t.body, s, i, c - 1)
    BY <1>2 DEF Backward
  <2>3. ReportOf(t.body) = IF i + 2 <= c - 1 /\ s[i + 2] = "mark"
                             THEN Unquoted(Shortened(Said(s, i, c - 1))) ELSE <<>>
    BY <2>1, <2>2, BodySays
  <2>4. /\ i + 2 <= c - 1 /\ s[i + 2] = "mark"
        /\ ReportOf(t.body) = Unquoted(Shortened(Said(s, i, c - 1)))
    BY <2>3
  <2>5. Report(s, c + 1, i, c - 1)
    BY <1>2, <2>1, <2>2, <2>4 DEF Report
  <2>6. ~Report(s, c, i, c - 1)
    BY <2>1 DEF Report
  <2> QED BY <2>1, <2>4, <2>5, <2>6
<1> QED BY <1>1, <1>2 DEF Closes

LEMMA ReportFacts ==
  ASSUME NEW s, NEW c \in Nat, NEW i \in Nat, NEW j \in Nat, Report(s, c, i, j)
  PROVE  /\ i + 2 <= j /\ j < c /\ i >= 1 /\ s[i] = "ESC"
         /\ \A x \in (i + 2)..j : s[x] \notin Stop
         /\ s[j + 1] = "BEL" \/ (s[j + 1] = "ESC" /\ j + 2 <= c)
<1>1. Opened(s, i, j) /\ i + 2 <= j /\ j < c
  BY DEF Report
<1>2. s[j + 1] = "BEL" \/ (s[j + 1] = "ESC" /\ j + 2 <= c)
  BY DEF Report
<1>3. i >= 1 /\ s[i] = "ESC"
  BY <1>1 DEF Opened
<1>4. \A x \in (i + 2)..j : s[x] \notin Stop
  BY <1>1 DEF Opened
<1> QED BY <1>1, <1>2, <1>3, <1>4

\* A control sequence has one end, and none begins while it is open.
LEMMA OneEnd ==
  ASSUME NEW s, NEW c \in Nat, NEW i \in Nat, NEW j \in Nat, Report(s, c, i, j),
         NEW k \in Nat, NEW m \in Nat, Report(s, c + 1, k, m), ~Report(s, c, k, m)
  PROVE  k > i
<1>1. /\ i + 2 <= j /\ j < c /\ i >= 1
      /\ s[i] = "ESC" /\ (s[j + 1] = "BEL" \/ (s[j + 1] = "ESC" /\ j + 2 <= c))
  BY ReportFacts
<1>2. /\ k + 2 <= m /\ m < c + 1 /\ \A x \in (k + 2)..m : s[x] \notin Stop
  <2>1. c + 1 \in Nat OBVIOUS
  <2> QED BY <2>1, ReportFacts
<1>3. \/ m = c /\ s[m + 1] = "BEL"
      \/ m + 1 = c /\ s[m + 1] = "ESC"
  BY DEF Report
<1>4. SUFFICES ASSUME k <= i PROVE FALSE
  OBVIOUS
<1>5. CASE j + 1 <= m
  <2>1. j + 1 \in (k + 2)..m
    BY <1>1, <1>4, <1>5
  <2> QED BY <1>1, <1>2, <2>1 DEF Stop
<1>6. CASE j + 1 > m
  BY <1>1, <1>3, <1>6
<1> QED BY <1>1, <1>2, <1>5, <1>6

\* The directory after a token.
LEMMA WasReportedStep ==
  ASSUME NEW s \in Seq(Token), NEW c \in Nat, c + 1 <= Len(s), NEW t \in Tracker,
         Backward(t, s, c), NEW u, Moves(t, s[c + 1], u),
         NEW w, WasReported(Value(t, w), s, c)
  PROVE  WasReported(Value(u, w), s, c + 1)
<1>1. CASE Same(u, t)
  <2>1. Value(u, w) = Value(t, w)
    BY <1>1 DEF Same, Value
  <2> QED BY <2>1, ReportsStay DEF WasReported
<1>2. CASE Closes(t, s[c + 1], u)
  <2>1. CASE ReportOf(t.body) = <<>>
    <3>1. Value(u, w) = Value(t, w)
      BY <1>2, <2>1 DEF Closes, Ends, Value
    <3> QED BY <3>1, ReportsStay DEF WasReported
  <2>2. CASE ReportOf(t.body) # <<>>
    <3>1. Value(u, w) = ReportOf(t.body)
      BY <1>2, <2>2 DEF Closes, Ends, Value
    <3>2. \E i, j \in Nat : /\ Report(s, c + 1, i, j) /\ ~Report(s, c, i, j)
                            /\ ReportOf(t.body) = Unquoted(Shortened(Said(s, i, j)))
      BY <1>2, <2>2, CloseReports
    <3> QED BY <3>1, <3>2 DEF WasReported
  <2> QED BY <2>1, <2>2
<1> QED BY <1>1, <1>2 DEF Moves, Escapes, Scans, Opens, Pauses, Grows

LEMMA IsLatestStep ==
  ASSUME NEW s \in Seq(Token), NEW c \in Nat, c + 1 <= Len(s), NEW t \in Tracker,
         Backward(t, s, c), Forward(t, s, c), NEW u, Moves(t, s[c + 1], u),
         NEW w, IsLatest(Value(t, w), s, c)
  PROVE  IsLatest(Value(u, w), s, c + 1)
<1> DEFINE b == s[c + 1]
<1>1. SUFFICES ASSUME NEW i \in Nat, NEW j \in Nat,
                      Report(s, c + 1, i, j), Len(Said(s, i, j)) < MaxBody,
                      Unquoted(Said(s, i, j)) # <<>>, Outside(s, i),
                      \A k, m \in Nat : Report(s, c + 1, k, m) => k <= i
               PROVE  Value(u, w) = Unquoted(Said(s, i, j))
  BY DEF IsLatest
<1>2. CASE Report(s, c, i, j)
  <2>1. Value(t, w) = Unquoted(Said(s, i, j))
    <3>1. \A k, m \in Nat : Report(s, c, k, m) => k <= i
      BY <1>1, ReportsStay
    <3> QED BY <1>1, <1>2, <3>1 DEF IsLatest
  <2>2. CASE Closes(t, b, u) /\ ReportOf(t.body) # <<>>
    <3>1. PICK k \in Nat, m \in Nat : Report(s, c + 1, k, m) /\ ~Report(s, c, k, m)
      BY <2>2, CloseReports
    <3>2. k > i
      BY <1>2, <3>1, OneEnd
    <3>3. k <= i
      BY <1>1, <3>1
    <3> QED BY <3>2, <3>3
  <2>3. CASE ~(Closes(t, b, u) /\ ReportOf(t.body) # <<>>)
    <3>1. u.out = t.out
      BY <2>3 DEF Moves, Escapes, Scans, Opens, Pauses, Grows, Closes, Ends, Same
    <3> QED BY <2>1, <3>1 DEF Value
  <2> QED BY <2>2, <2>3
<1>3. CASE ~Report(s, c, i, j)
  <2>1. /\ Opened(s, i, j) /\ i + 2 <= j /\ s[i + 2] = "mark" /\ j < c + 1
        /\ \/ s[j + 1] = "BEL" /\ j = c
           \/ j + 1 = c /\ s[j + 1] = "ESC" /\ s[j + 2] = "backslash"
    <3>1. /\ Opened(s, i, j) /\ i + 2 <= j /\ s[i + 2] = "mark" /\ j < c + 1
          /\ \/ s[j + 1] = "BEL"
             \/ j + 2 <= c + 1 /\ s[j + 1] = "ESC" /\ s[j + 2] = "backslash"
      BY <1>1 DEF Report
    <3>2. ~(j < c /\ s[j + 1] = "BEL")
      BY <1>3, <3>1 DEF Report
    <3>3. ~(j + 2 <= c /\ s[j + 1] = "ESC" /\ s[j + 2] = "backslash")
      BY <1>3, <3>1 DEF Report
    <3> QED BY <3>1, <3>2, <3>3
  <2>2. Closes(t, b, u) /\ Holds(t.body, s, i, j)
    <3>1. CASE s[j + 1] = "BEL" /\ j = c
      <4>1. t.state = "osc" /\ Holds(t.body, s, i, c)
        BY <1>1, <2>1, <3>1 DEF Forward
      <4>2. b = "BEL" BY <3>1
      <4>3. Closes(t, b, u)
        BY <4>1, <4>2 DEF Moves, Escapes, Scans, Opens, Pauses, Grows, Closes, Stop
      <4> QED BY <3>1, <4>1, <4>3
    <3>2. CASE j + 1 = c /\ s[j + 1] = "ESC" /\ s[j + 2] = "backslash"
      <4>1. c >= 1 /\ s[c] = "ESC" /\ c - 1 = j /\ b = "backslash"
        <5>1. j + 2 = c + 1 BY <3>2
        <5> QED BY <3>2, <5>1
      <4>2. t.state = "oscEsc" /\ Holds(t.body, s, i, c - 1)
        BY <1>1, <2>1, <4>1 DEF Forward
      <4>3. Closes(t, b, u)
        BY <4>1, <4>2 DEF Moves, Escapes, Scans, Opens, Pauses, Grows, Closes, Stop
      <4> QED BY <4>1, <4>2, <4>3
    <3> QED BY <2>1, <3>1, <3>2
  <2>3. ReportOf(t.body) = Unquoted(Said(s, i, j))
    <3>1. j <= Len(s) BY <2>1
    <3>2. ReportOf(t.body) = Unquoted(Shortened(Said(s, i, j)))
      BY <2>1, <2>2, <3>1, BodySays
    <3>3. Shortened(Said(s, i, j)) = Said(s, i, j)
      BY <1>1 DEF Shortened
    <3> QED BY <3>2, <3>3
  <2>4. u.out = ReportOf(t.body) /\ u.out # <<>>
    BY <1>1, <2>2, <2>3 DEF Closes, Ends
  <2> QED BY <2>3, <2>4 DEF Value
<1> QED BY <1>2, <1>3

LEMMA TokenStep ==
  ASSUME NEW s \in Seq(Token), NEW c \in Nat, c + 1 <= Len(s), NEW t, NEW w,
         Track(t, Value(t, w), s, c)
  PROVE  Track(Feed(t, s[c + 1]), Value(Feed(t, s[c + 1]), w), s, c + 1)
<1> DEFINE u == Feed(t, s[c + 1])
<1>1. /\ t \in Tracker /\ Len(t.body) <= MaxBody /\ Backward(t, s, c) /\ Forward(t, s, c)
      /\ WasReported(Value(t, w), s, c) /\ IsLatest(Value(t, w), s, c)
  BY DEF Track
<1>2. s[c + 1] \in Token
  OBVIOUS
<1>3. u \in Tracker /\ Len(u.body) <= MaxBody /\ Moves(t, s[c + 1], u)
  BY <1>1, <1>2, FeedCases
<1> HIDE DEF u
<1>4. Backward(u, s, c + 1) BY <1>1, <1>3, BackwardStep
<1>5. Forward(u, s, c + 1) BY <1>1, <1>3, ForwardStep
<1>6. WasReported(Value(u, w), s, c + 1) BY <1>1, <1>3, WasReportedStep
<1>7. IsLatest(Value(u, w), s, c + 1) BY <1>1, <1>3, IsLatestStep
<1>8. Track(u, Value(u, w), s, c + 1)
  BY <1>3, <1>4, <1>5, <1>6, <1>7 DEF Track
<1> QED BY <1>8 DEF u

-----------------------------------------------------------------------------
(* What the shell adds changes nothing of what was known.                  *)
LEMMA Unchanged ==
  ASSUME NEW s \in Seq(Token), NEW c \in Nat, c <= Len(s), NEW b \in Token, NEW t, NEW v,
         Track(t, v, s, c)
  PROVE  Track(t, v, Append(s, b), c)
<1> DEFINE q == Append(s, b)
<1>1. q \in Seq(Token) /\ Len(s) \in Nat /\ Len(q) = Len(s) + 1 /\ \A k \in 1..c : q[k] = s[k]
  BY AppendProperties, LenProperties
<1> HIDE DEF q
<1>2. ASSUME NEW i, NEW x \in Int, x <= c PROVE Opened(q, i, x) <=> Opened(s, i, x)
  BY <1>1, <1>2 DEF Opened
<1>3. ASSUME NEW i \in Nat, i <= c PROVE Outside(q, i) <=> Outside(s, i)
  BY <1>2, <1>3 DEF Outside
<1>4. ASSUME NEW i \in Nat, NEW x \in Int, x <= c, Holds(t.body, s, i, x)
      PROVE  Holds(t.body, q, i, x)
  <2>1. Len(t.body) \in Nat /\ MaxBody \in Nat
    <3>1. t.body \in Seq(Token) BY <1>4 DEF Holds
    <3>2. MaxBody \in Nat BY CwdAssumption
    <3> QED BY <3>1, <3>2, LenProperties
  <2>2. Len(t.body) <= x - (i + 1)
    BY <1>4, <2>1 DEF Holds
  <2>3. \A k \in 1..Len(t.body) : i + 1 + k \in 1..c
    BY <1>4, <2>1, <2>2
  <2> QED BY <1>1, <1>4, <2>3 DEF Holds
<1>5. ASSUME NEW i \in Nat, NEW j \in Nat PROVE Report(q, c, i, j) <=> Report(s, c, i, j)
  <2>1. CASE ~(j < c /\ i + 2 <= j /\ i # 0)
    BY <2>1 DEF Report, Opened
  <2>2. CASE j < c /\ i + 2 <= j /\ i # 0
    <3>1. Opened(q, i, j) <=> Opened(s, i, j)
      BY <1>2, <2>2
    <3>2. q[i + 2] = s[i + 2] /\ q[j + 1] = s[j + 1]
      BY <1>1, <2>2
    <3>3. j + 2 <= c => q[j + 2] = s[j + 2]
      BY <1>1
    <3> QED BY <3>1, <3>2, <3>3 DEF Report
  <2> QED BY <2>1, <2>2
<1>6. ASSUME NEW i \in Nat, NEW j \in Nat, i + 2 <= j, j <= c
      PROVE  Said(q, i, j) = Said(s, i, j)
  <2>1. j <= Len(s) /\ j <= Len(q)
    BY <1>1, <1>6
  <2>2. /\ Said(q, i, j) \in Seq(Token) /\ Len(Said(q, i, j)) = j - (i + 2)
        /\ \A k \in 1..(j - (i + 2)) : Said(q, i, j)[k] = q[i + 2 + k]
    BY <1>1, <1>6, <2>1, SaidType
  <2>3. /\ Said(s, i, j) \in Seq(Token) /\ Len(Said(s, i, j)) = j - (i + 2)
        /\ \A k \in 1..(j - (i + 2)) : Said(s, i, j)[k] = s[i + 2 + k]
    BY <1>6, <2>1, SaidType
  <2>4. \A k \in 1..(j - (i + 2)) : q[i + 2 + k] = s[i + 2 + k]
    BY <1>1, <1>6
  <2> QED BY <2>2, <2>3, <2>4, SeqEqual
<1>7. Backward(t, q, c)
  <2>1. Backward(t, s, c) BY DEF Track
  <2>2. t.state = "esc" => c >= 1 /\ q[c] = "ESC"
    BY <1>1, <2>1 DEF Backward
  <2>3. t.state = "osc" => \E i \in Nat : Opened(q, i, c) /\ Holds(t.body, q, i, c)
    BY <1>2, <1>4, <2>1 DEF Backward
  <2>4. t.state = "oscEsc" =>
          /\ c >= 1 /\ q[c] = "ESC"
          /\ \E i \in Nat : Opened(q, i, c - 1) /\ Holds(t.body, q, i, c - 1)
    BY <1>1, <1>2, <1>4, <2>1 DEF Backward
  <2> QED BY <2>2, <2>3, <2>4 DEF Backward
<1>8. Forward(t, q, c)
  <2>1. Forward(t, s, c) BY DEF Track
  <2>2. c >= 1 => q[c] = s[c]
    BY <1>1
  <2>3. c >= 1 /\ q[c] = "ESC" /\ Outside(q, c) => t.state = "esc"
    BY <1>3, <2>1, <2>2 DEF Forward
  <2>4. \A i \in Nat : Opened(s, i, c) \/ Opened(s, i, c - 1) => i <= c
    BY DEF Opened
  <2>5. \A i \in Nat : Opened(q, i, c) /\ Outside(q, i) => t.state = "osc" /\ Holds(t.body, q, i, c)
    BY <1>2, <1>3, <1>4, <2>1, <2>4 DEF Forward
  <2>6. ASSUME NEW i \in Nat, c >= 1, q[c] = "ESC", Opened(q, i, c - 1), Outside(q, i)
        PROVE  t.state = "oscEsc" /\ Holds(t.body, q, i, c - 1)
    BY <1>2, <1>3, <1>4, <2>1, <2>2, <2>4, <2>6 DEF Forward
  <2> QED BY <2>3, <2>5, <2>6 DEF Forward
<1>9. ASSUME NEW i \in Nat, NEW j \in Nat, Report(s, c, i, j)
      PROVE  i + 2 <= j /\ j <= c /\ i <= c
  BY <1>9, ReportFacts
<1>10. WasReported(v, q, c)
  BY <1>5, <1>6, <1>9 DEF Track, WasReported
<1>11. IsLatest(v, q, c)
  <2> SUFFICES ASSUME NEW i \in Nat, NEW j \in Nat,
                      Report(q, c, i, j), Len(Said(q, i, j)) < MaxBody,
                      Unquoted(Said(q, i, j)) # <<>>, Outside(q, i),
                      \A k, m \in Nat : Report(q, c, k, m) => k <= i
               PROVE  v = Unquoted(Said(q, i, j))
    BY DEF IsLatest
  <2>1. Report(s, c, i, j) /\ Said(q, i, j) = Said(s, i, j) /\ Outside(s, i)
    BY <1>3, <1>5, <1>6, <1>9
  <2>2. \A k, m \in Nat : Report(s, c, k, m) => k <= i
    BY <1>5
  <2>3. IsLatest(v, s, c) BY DEF Track
  <2> QED BY <2>1, <2>2, <2>3 DEF IsLatest
<1>12. Track(t, v, q, c)
  BY <1>7, <1>8, <1>10, <1>11 DEF Track
<1> QED BY <1>12 DEF q

\* What is known does not depend on the chunks.
LEMMA NewChunk ==
  ASSUME NEW s, NEW c, NEW t, NEW v, Track(t, v, s, c)
  PROVE  Track([state |-> t.state, body |-> t.body, out |-> <<>>], v, s, c)
<1> DEFINE n == [state |-> t.state, body |-> t.body, out |-> <<>>]
<1>1. n \in Tracker /\ n.state = t.state /\ n.body = t.body
  BY DEF Track, Tracker
<1> HIDE DEF n
<1>2. Track(n, v, s, c)
  BY <1>1 DEF Track, Backward, Forward
<1> QED BY <1>2 DEF n

-----------------------------------------------------------------------------
(* The inductive invariant.                                                *)
Now == [state |-> state, body |-> body, out |-> <<>>]
IInv ==
  /\ stream \in Seq(Token) /\ consumed \in 0..Len(stream)
  /\ cwd \in Seq(Token)
  /\ Track(Now, cwd, stream, consumed)

LEMMA InitKnows == Init => IInv
<1> SUFFICES ASSUME Init PROVE IInv
  OBVIOUS
<1>1. /\ stream \in Seq(Token) /\ consumed \in 0..Len(stream) /\ cwd \in Seq(Token)
      /\ stream = <<>> /\ consumed = 0 /\ cwd = <<>> /\ state = "scan" /\ body = <<>>
  BY DEF Init
<1>2. Now \in Tracker /\ Now.state = "scan" /\ Len(Now.body) <= MaxBody
  <2>1. MaxBody \in Nat BY CwdAssumption
  <2> QED BY <1>1, <2>1 DEF Now, Tracker
<1>3. \A i : ~Opened(stream, i, 0) /\ ~Opened(stream, i, -1)
  BY DEF Opened
<1>4. \A i, j : ~Report(stream, 0, i, j)
  BY DEF Report, Opened
<1>5. Backward(Now, stream, 0) /\ Forward(Now, stream, 0)
  BY <1>2, <1>3 DEF Backward, Forward
<1>6. WasReported(cwd, stream, 0) /\ IsLatest(cwd, stream, 0)
  BY <1>1, <1>4 DEF WasReported, IsLatest
<1> QED BY <1>1, <1>2, <1>5, <1>6 DEF IInv, Track

LEMMA EmitKnows ==
  ASSUME IInv, NEW b \in Token, Emit(b)
  PROVE  IInv'
<1>1. /\ stream' = Append(stream, b) /\ consumed' = consumed /\ cwd' = cwd /\ Now' = Now
  BY DEF Emit, Now
<1>2. stream \in Seq(Token) /\ consumed \in Nat /\ Len(stream) \in Nat /\ consumed <= Len(stream)
  BY LenProperties DEF IInv
<1>3. stream' \in Seq(Token) /\ Len(stream') = Len(stream) + 1
  BY <1>1, <1>2, AppendProperties
<1>4. Track(Now, cwd, stream', consumed)
  BY <1>1, <1>2, Unchanged DEF IInv
<1> QED BY <1>1, <1>2, <1>3, <1>4 DEF IInv

LEMMA PumpKnows ==
  ASSUME IInv, NEW n \in 1..MaxUnread, Pump(n)
  PROVE  IInv'
<1> DEFINE chunk == SubSeq(stream, consumed + 1, consumed + n)
           fed   == Fed(Now, chunk)
<1>0. n \in Nat /\ n >= 1
  BY CwdAssumption
<1>1. /\ consumed + n <= Len(stream) /\ state' = fed.state /\ body' = fed.body
      /\ cwd' = Value(fed, cwd) /\ consumed' = consumed + n /\ stream' = stream
  BY DEF Pump, Now, Value
<1>2. stream \in Seq(Token) /\ consumed \in Nat /\ Len(stream) \in Nat /\ consumed <= Len(stream)
  BY LenProperties DEF IInv
<1>3. Len(chunk) = n /\ \A k \in 1..n : chunk[k] = stream[consumed + k]
  BY <1>0, <1>1, <1>2
<1> HIDE DEF chunk
<1>4. PICK r : IsRun(r, Now, chunk, n) /\ fed = r[n]
  BY <1>0, <1>3, FedIsRun
<1>5. \A k \in 0..n : r[k] = IF k = 0 THEN Now ELSE Feed(r[k - 1], chunk[k])
  BY <1>4 DEF IsRun
<1> DEFINE T == {k \in 0..n : Track(r[k], Value(r[k], cwd), stream, consumed + k)}
<1>6. 0 \in T
  <2>1. r[0] = Now /\ Value(Now, cwd) = cwd /\ consumed + 0 = consumed
    BY <1>0, <1>2, <1>5 DEF Value, Now
  <2> QED BY <1>0, <2>1 DEF IInv
<1>7. ASSUME NEW k \in 0..(n - 1), k \in T PROVE k + 1 \in T
  <2>1. /\ k + 1 \in 1..n /\ k + 1 - 1 = k /\ consumed + (k + 1) = consumed + k + 1
        /\ consumed + k \in Nat /\ consumed + k + 1 <= Len(stream)
    BY <1>0, <1>1, <1>2
  <2>2. r[k + 1] = Feed(r[k], stream[consumed + k + 1])
    BY <1>3, <1>5, <2>1
  <2>3. Track(r[k], Value(r[k], cwd), stream, consumed + k)
    BY <1>7
  <2>4. Track(r[k + 1], Value(r[k + 1], cwd), stream, consumed + k + 1)
    BY <1>2, <2>1, <2>2, <2>3, TokenStep
  <2> QED BY <2>1, <2>4
<1>8. n \in T
  <2> HIDE DEF T
  <2> QED BY <1>0, <1>6, <1>7, Induction
<1>9. Track(fed, cwd', stream, consumed + n)
  BY <1>1, <1>4, <1>8
<1>10. Track(Now', cwd', stream', consumed')
  BY <1>1, <1>9, NewChunk DEF Now
<1>11. cwd' \in Seq(Token)
  BY <1>1, <1>9 DEF IInv, Track, Tracker, Value
<1> QED BY <1>0, <1>1, <1>2, <1>10, <1>11 DEF IInv

\* What the tracker knows is kept by every step: of the shell, and of the pump with as many
\* tokens as it may read at once.
THEOREM Invariance == Spec => []IInv
<1>1. IInv /\ [Next]_vars => IInv'
  <2> SUFFICES ASSUME IInv, [Next]_vars PROVE IInv'
    OBVIOUS
  <2>1. CASE UNCHANGED vars
    BY <2>1 DEF IInv, Now, vars
  <2>2. CASE \E b \in Token : Emit(b)
    BY <2>2, EmitKnows
  <2>3. CASE \E n \in 1..MaxUnread : Pump(n)
    BY <2>3, PumpKnows
  <2> QED BY <2>1, <2>2, <2>3 DEF Next
<1> QED BY InitKnows, <1>1, PTL DEF Spec

\* The tracker's state, its buffer (at most cwdMaxBody) and the directory have their types.
THEOREM TypeCorrect == Spec => []TypeOK
<1>1. IInv => TypeOK
  BY DEF IInv, Track, Tracker, Now, TypeOK
<1> QED BY <1>1, Invariance, PTL

-----------------------------------------------------------------------------
LEMMA ReportsAgree ==
  ASSUME IInv, NEW i \in 1..consumed, NEW j \in 1..consumed
  PROVE  IsReport(i, j) <=> Report(stream, consumed, i, j)
<1>1. /\ stream \in Seq(Token) /\ consumed \in Nat /\ Len(stream) \in Nat
      /\ consumed <= Len(stream)
  BY LenProperties DEF IInv
<1>2. CASE i + 2 <= j /\ j < consumed
  <2>1. SubSeq(stream, i, i + 2) = <<"ESC", "]", "mark">> <=>
          stream[i] = "ESC" /\ stream[i + 1] = "]" /\ stream[i + 2] = "mark"
    <3> DEFINE x == SubSeq(stream, i, i + 2)
               y == <<"ESC", "]", "mark">>
    <3>1. x \in Seq(Token) /\ Len(x) = 3 /\ x[1] = stream[i] /\ x[2] = stream[i + 1]
          /\ x[3] = stream[i + 2]
      <4>1. i \in 1..Len(stream) /\ i + 1 \in 1..Len(stream) /\ i + 2 \in 1..Len(stream)
        BY <1>1, <1>2
      <4>2. x \in Seq(Token)
        BY <1>1, <4>1
      <4>3. Len(x) = 3
        BY <1>1, <4>1
      <4>4. x[1] = stream[i] /\ x[2] = stream[i + 1] /\ x[3] = stream[i + 2]
        BY <1>1, <4>1
      <4> QED BY <4>2, <4>3, <4>4
    <3>2. y \in Seq(Token) /\ Len(y) = 3 /\ y[1] = "ESC" /\ y[2] = "]" /\ y[3] = "mark"
      BY DEF Token, Control
    <3> HIDE DEF x, y
    <3>3. \A k \in 1..3 : k = 1 \/ k = 2 \/ k = 3
      OBVIOUS
    <3>4. x[1] = y[1] /\ x[2] = y[2] /\ x[3] = y[3] => x = y
      BY <3>1, <3>2, <3>3, SeqEqual
    <3>5. x = y <=> stream[i] = "ESC" /\ stream[i + 1] = "]" /\ stream[i + 2] = "mark"
      BY <3>1, <3>2, <3>4
    <3> QED BY <3>5 DEF x, y
  <2>2. j + 2 <= consumed =>
          (SubSeq(stream, j + 1, j + 2) = <<"ESC", "backslash">> <=>
             stream[j + 1] = "ESC" /\ stream[j + 2] = "backslash")
    <3> SUFFICES ASSUME j + 2 <= consumed
                 PROVE  SubSeq(stream, j + 1, j + 2) = <<"ESC", "backslash">> <=>
                          stream[j + 1] = "ESC" /\ stream[j + 2] = "backslash"
      OBVIOUS
    <3> DEFINE x == SubSeq(stream, j + 1, j + 2)
               y == <<"ESC", "backslash">>
    <3>1. x \in Seq(Token) /\ Len(x) = 2 /\ x[1] = stream[j + 1] /\ x[2] = stream[j + 2]
      <4>1. j + 1 \in 1..Len(stream) /\ j + 2 \in 1..Len(stream)
        BY <1>1
      <4>2. x \in Seq(Token)
        BY <1>1, <4>1
      <4>3. Len(x) = 2
        BY <1>1, <4>1
      <4>4. x[1] = stream[j + 1] /\ x[2] = stream[j + 2]
        BY <1>1, <4>1
      <4> QED BY <4>2, <4>3, <4>4
    <3>2. y \in Seq(Token) /\ Len(y) = 2 /\ y[1] = "ESC" /\ y[2] = "backslash"
      BY DEF Token, Control
    <3> HIDE DEF x, y
    <3>3. \A k \in 1..2 : k = 1 \/ k = 2
      OBVIOUS
    <3>4. x[1] = y[1] /\ x[2] = y[2] => x = y
      BY <3>1, <3>2, <3>3, SeqEqual
    <3>5. x = y <=> stream[j + 1] = "ESC" /\ stream[j + 2] = "backslash"
      BY <3>1, <3>2, <3>4
    <3> QED BY <3>5 DEF x, y
  <2>3. Opened(stream, i, j) /\ stream[i + 2] = "mark" <=>
          /\ stream[i] = "ESC" /\ stream[i + 1] = "]" /\ stream[i + 2] = "mark"
          /\ \A k \in (i + 3)..j : stream[k] \notin {"ESC", "BEL"}
    <3>1. \A k \in Int : k \in (i + 2)..j <=> k = i + 2 \/ k \in (i + 3)..j
      BY <1>2
    <3>2. "mark" \notin Stop
      BY DEF Stop
    <3> QED BY <1>2, <3>1, <3>2 DEF Opened, Stop
  <2> QED BY <1>2, <2>1, <2>2, <2>3 DEF IsReport, Report
<1> QED BY <1>2 DEF IsReport, Report

LEMMA ReportsWithin ==
  ASSUME IInv, NEW i \in Nat, NEW j \in Nat, Report(stream, consumed, i, j)
  PROVE  i \in 1..consumed /\ j \in 1..consumed
<1>1. consumed \in Nat
  BY LenProperties DEF IInv
<1>2. i + 2 <= j /\ j < consumed /\ i >= 1
  BY <1>1, ReportFacts
<1> QED BY <1>1, <1>2

LEMMA OutsideAgrees ==
  ASSUME IInv, NEW i \in 1..consumed
  PROVE  Outside(stream, i) <=> ~Interrupts(i)
<1>1. consumed \in Nat
  BY LenProperties DEF IInv
<1>2. \A k \in Nat : Opened(stream, k, i - 1) <=>
        /\ k \in 1..(i - 2) /\ stream[k] = "ESC" /\ stream[k + 1] = "]"
        /\ \A m \in (k + 2)..(i - 1) : stream[m] \notin {"ESC", "BEL"}
  BY <1>1 DEF Opened, Stop
<1>3. \A k \in 1..(i - 2) : k \in Nat
  BY <1>1
<1> QED BY <1>2, <1>3 DEF Outside, Interrupts

\* The directory kept is one the shell reported, cut at cwdMaxBody: never pieced together
\* from other output, wherever the reads fell.
THEOREM KeepsReported == Spec => []CwdWasReported
<1>1. IInv => CwdWasReported
  <2> SUFFICES ASSUME IInv, cwd # <<>>
               PROVE  \E i, j \in 1..consumed :
                        IsReport(i, j) /\ cwd = Unquoted(Shortened(Payload(i, j)))
    BY DEF CwdWasReported
  <2>1. PICK i \in Nat, j \in Nat : /\ Report(stream, consumed, i, j)
                                    /\ cwd = Unquoted(Shortened(Said(stream, i, j)))
    BY DEF IInv, Track, WasReported
  <2>2. i \in 1..consumed /\ j \in 1..consumed
    BY <2>1, ReportsWithin
  <2> QED BY <2>1, <2>2, ReportsAgree DEF Payload, Said
<1> QED BY <1>1, Invariance, PTL

\* The last report the pump has read is the directory kept, unless it was too long or began
\* inside another sequence.
THEOREM FollowsShell == Spec => []CwdFollowsShell
<1>1. IInv => CwdFollowsShell
  <2> SUFFICES ASSUME IInv, NEW i \in 1..consumed, NEW j \in 1..consumed,
                      IsReport(i, j), Len(Payload(i, j)) < MaxBody,
                      Unquoted(Payload(i, j)) # <<>>, ~Interrupts(i),
                      \A k, m \in 1..consumed : IsReport(k, m) => k <= i
               PROVE  cwd = Unquoted(Payload(i, j))
    BY DEF CwdFollowsShell
  <2>0. i \in Nat /\ j \in Nat
    BY LenProperties DEF IInv
  <2>1. Report(stream, consumed, i, j) /\ Outside(stream, i)
    BY ReportsAgree, OutsideAgrees
  <2>2. \A k, m \in Nat : Report(stream, consumed, k, m) => k <= i
    BY ReportsWithin, ReportsAgree
  <2>3. IsLatest(cwd, stream, consumed)
    BY DEF IInv, Track
  <2> QED BY <2>0, <2>1, <2>2, <2>3 DEF IsLatest, Said, Payload
<1> QED BY <1>1, Invariance, PTL
=============================================================================
