------------------------- MODULE FileServiceProofs -------------------------
(***************************************************************************)
(* What FileService's answers say of a disk that is at rest is true,       *)
(* whatever the disk, the roots, the directory of the shell and the path   *)
(* asked for; and what is looked at was found below the base.              *)
(*                                                                         *)
(* The first parts are about the operators: resolving a path, cleaning     *)
(* one, and taking it apart at the base.  The invariant rests on them.     *)
(***************************************************************************)
EXTENDS FileService, FiniteSetTheorems, SequenceTheorems, TLAPS

(* Induction over the numbers up to n, from what is known of finite sets.  *)
LEMMA Induction ==
  ASSUME NEW n \in Nat, NEW T, 0 \in T, \A k \in 0..(n - 1) : k \in T => k + 1 \in T
  PROVE  \A k \in 0..n : k \in T
<1>1. SUFFICES ASSUME NEW u \in 0..n, u \notin T PROVE FALSE
  OBVIOUS
<1> DEFINE W == {k \in 0..u : k \notin T}
           f == [k \in W |-> k - 1]
<1>2. IsFiniteSet(W)
  <2>1. IsFiniteSet(0..u) BY FS_Interval
  <2>2. W \in SUBSET (0..u) OBVIOUS
  <2> HIDE DEF W
  <2> QED BY <2>1, <2>2, FS_Subset
<1>3. f \in Injection(W, W)
  <2>1. \A k \in W : k - 1 \in W
    OBVIOUS
  <2> QED BY <2>1 DEF Injection, IsInjective
<1>4. f \in Surjection(W, W)
  <2> HIDE DEF f, W
  <2> QED BY <1>2, <1>3, FS_Injection
<1>5. \E k \in W : f[k] = u
  <2>1. u \in W BY <1>1
  <2> HIDE DEF f, W
  <2> QED BY <2>1, <1>4 DEF Surjection
<1> QED BY <1>5

\* And with it over a set of numbers, up to the last.
LEMMA Upto ==
  ASSUME NEW n \in Nat, NEW T, 0 \in T, \A k \in 0..(n - 1) : k \in T => k + 1 \in T
  PROVE  n \in T
<1>1. \A k \in 0..n : k \in T
  BY Induction
<1> QED BY <1>1

-----------------------------------------------------------------------------
(* Resolving a path.                                                       *)
Begin(p) == [done |-> <<>>, todo |-> p, err |-> "nil"]
IsWalk(w, d, p, m) == w = [k \in 0..m |-> IF k = 0 THEN Begin(p) ELSE Step(d, w[k - 1])]

\* Following a path name by name is well defined, and Walk is the end of it.
LEMMA WalkExists ==
  ASSUME NEW d, NEW p, NEW n \in Nat
  PROVE  \E w : IsWalk(w, d, p, n)
<1> DEFINE T == {m \in 0..n : \E w : IsWalk(w, d, p, m)}
<1>1. 0 \in T
  <2>1. IsWalk([k \in 0..0 |-> Begin(p)], d, p, 0) BY DEF IsWalk
  <2> QED BY <2>1
<1>2. ASSUME NEW m \in 0..(n - 1), m \in T PROVE m + 1 \in T
  <2>1. PICK w : IsWalk(w, d, p, m) BY <1>2
  <2> DEFINE q == [k \in 0..(m + 1) |-> IF k = m + 1 THEN Step(d, w[m]) ELSE w[k]]
  <2>2. \A k \in 0..m : w[k] = IF k = 0 THEN Begin(p) ELSE Step(d, w[k - 1])
    BY <2>1 DEF IsWalk
  <2>3. \A k \in 0..m : q[k] = w[k]
    OBVIOUS
  <2>4. ASSUME NEW k \in 0..(m + 1)
        PROVE  q[k] = IF k = 0 THEN Begin(p) ELSE Step(d, q[k - 1])
    <3>1. CASE k = 0 BY <2>2, <2>3, <3>1
    <3>2. CASE k \in 1..m
      <4>1. k - 1 \in 0..m /\ k \in 0..m BY <3>2
      <4> QED BY <2>2, <2>3, <3>2, <4>1
    <3>3. CASE k = m + 1
      <4>1. m \in 0..m BY <1>2
      <4>2. q[k] = Step(d, w[m]) BY <3>3
      <4>3. q[k - 1] = w[m] BY <3>3, <2>3, <4>1
      <4> QED BY <3>3, <4>2, <4>3
    <3> QED BY <3>1, <3>2, <3>3
  <2>5. IsWalk(q, d, p, m + 1)
    <3> HIDE DEF q
    <3> QED BY <2>4 DEF q, IsWalk
  <2> QED BY <2>5
<1>3. n \in T
  <2> HIDE DEF T
  <2> QED BY <1>1, <1>2, Upto
<1> QED BY <1>3

LEMMA WalkIsWalk ==
  ASSUME NEW d, NEW p
  PROVE  \E w : /\ \A k \in 0..Fuel : w[k] = IF k = 0 THEN Begin(p) ELSE Step(d, w[k - 1])
               /\ Walk(d, p) = w[Fuel]
<1> DEFINE w == CHOOSE q : IsWalk(q, d, p, Fuel)
<1>0. Fuel \in Nat
  BY FileAssumption
<1>1. IsWalk(w, d, p, Fuel)
  BY <1>0, WalkExists
<1>2. Walk(d, p) = w[Fuel]
  BY Zenon DEF Walk, IsWalk, Begin
<1> HIDE DEF w
<1>3. \A k \in 0..Fuel : w[k] = IF k = 0 THEN Begin(p) ELSE Step(d, w[k - 1])
  BY <1>1 DEF IsWalk
<1> QED BY <1>2, <1>3

\* A place on the disk with no link on the way to it.
Solid(d, r) ==
  /\ r \in Seq(Proper)
  /\ \A k \in 0..Len(r) : /\ SubSeq(r, 1, k) \in DOMAIN d
                          /\ d[SubSeq(r, 1, k)].kind # "link"
                          /\ k < Len(r) => d[SubSeq(r, 1, k)].kind = "dir"
Way == [done : Seq(Proper), todo : Seq(Name), err : {"nil", "not_found", Fault}]
Underway(d, w, k) ==
  /\ w \in Way
  /\ Len(w.done) <= k
  /\ w.err = "nil" => Solid(d, w.done) /\ (w.todo # <<>> => d[w.done].kind = "dir")

LEMMA DiskIs ==
  ASSUME NEW d \in Disk
  PROVE  /\ DOMAIN d \subseteq Seq(Proper) /\ <<>> \in DOMAIN d /\ d[<<>>].kind = "dir"
         /\ \A p \in DOMAIN d : \/ d[p].kind = "dir"
                                \/ d[p].kind = "link" /\ d[p].to \in Seq(Proper)
                                \/ d[p].kind = "file" /\ d[p].size \in Nat /\ IsFile(d[p])
BY FileAssumption DEF IsFile

LEMMA ProperSeq ==
  ASSUME NEW s \in Seq(Proper)
  PROVE  s \in Seq(Name)
<1>1. Proper \subseteq Name BY DEF Proper
<1> QED BY <1>1, SeqMonotonic

LEMMA SolidEmpty ==
  ASSUME NEW d \in Disk
  PROVE  Solid(d, <<>>)
<1>1. <<>> \in Seq(Proper) /\ Len(<<>>) = 0
  BY EmptySeq
<1>2. \A k \in 0..0 : k = 0 /\ SubSeq(<<>>, 1, k) = <<>>
  OBVIOUS
<1> QED BY <1>1, <1>2, DiskIs DEF Solid

\* One name further, what is there being no link.
LEMMA SolidMore ==
  ASSUME NEW d \in Disk, NEW r, Solid(d, r), d[r].kind = "dir", NEW n, Append(r, n) \in DOMAIN d,
         d[Append(r, n)].kind # "link"
  PROVE  Solid(d, Append(r, n)) /\ Len(Append(r, n)) = Len(r) + 1
<1> DEFINE q == Append(r, n)
<1>1. r \in Seq(Proper) /\ Len(r) \in Nat
  <2>1. r \in Seq(Proper) BY DEF Solid
  <2> QED BY <2>1, LenProperties
<1>2. q \in Seq(Proper) /\ Len(q) \in Nat
  <2>1. q \in Seq(Proper) BY DiskIs
  <2> QED BY <2>1, LenProperties
<1>3. /\ Len(q) = Len(r) + 1 /\ \A k \in 1..Len(r) : q[k] = r[k]
      /\ q \in DOMAIN d /\ d[q].kind # "link"
  BY <1>1
<1> HIDE DEF q
<1>4. ASSUME NEW k \in 0..Len(r) PROVE SubSeq(q, 1, k) = SubSeq(r, 1, k)
  <2>1. k <= Len(q) /\ k <= Len(r) /\ k \in Nat BY <1>1, <1>3
  <2>2. SubSeq(q, 1, k) = [i \in 1..k |-> q[i]]
    BY <1>2, <2>1
  <2>3. SubSeq(r, 1, k) = [i \in 1..k |-> r[i]]
    BY <1>1, <2>1
  <2>4. \A i \in 1..k : q[i] = r[i]
    BY <1>1, <1>3, <2>1
  <2> QED BY <2>2, <2>3, <2>4
<1>5. SubSeq(r, 1, Len(r)) = r
  BY <1>1
<1>6. SubSeq(q, 1, Len(q)) = q
  BY <1>2
<1>7. ASSUME NEW k \in 0..Len(q)
      PROVE  /\ SubSeq(q, 1, k) \in DOMAIN d /\ d[SubSeq(q, 1, k)].kind # "link"
             /\ k < Len(q) => d[SubSeq(q, 1, k)].kind = "dir"
  <2>1. CASE k = Len(q)
    <3>1. SubSeq(q, 1, k) = q BY <1>6, <2>1
    <3>2. ~(k < Len(q)) BY <1>2, <2>1
    <3> QED BY <1>3, <3>1, <3>2
  <2>2. CASE k < Len(r)
    <3>1. k \in 0..Len(r) BY <1>1, <1>3, <2>2
    <3> QED BY <1>4, <2>2, <3>1 DEF Solid
  <2>3. CASE k = Len(r)
    <3>1. k \in 0..Len(r) BY <1>1, <2>3
    <3>2. SubSeq(q, 1, k) = r BY <1>4, <1>5, <2>3, <3>1
    <3> QED BY <1>5, <2>3, <3>1, <3>2 DEF Solid
  <2> QED BY <1>1, <1>2, <1>3, <2>1, <2>2, <2>3
<1>8. Solid(d, q)
  BY <1>2, <1>7 DEF Solid
<1> QED BY <1>3, <1>8 DEF q

\* At no point of a walk does a link lie behind it, nor a file with names still to follow.
LEMMA StepUnderway ==
  ASSUME NEW d \in Disk, NEW k \in Nat, NEW w, Underway(d, w, k)
  PROVE  Underway(d, Step(d, w), k + 1)
<1> DEFINE next == Append(w.done, Head(w.todo))
           tail == Tail(w.todo)
<1>1. /\ w \in Way /\ w.done \in Seq(Proper) /\ w.todo \in Seq(Name)
      /\ Len(w.done) <= k /\ Len(w.done) \in Nat
  <2>1. w \in Way /\ Len(w.done) <= k
    BY DEF Underway
  <2>2. w.done \in Seq(Proper) /\ w.todo \in Seq(Name) BY <2>1 DEF Way
  <2> QED BY <2>1, <2>2, LenProperties
<1>2. CASE w.err # "nil" \/ w.todo = <<>>
  <2>1. Step(d, w) = w
    BY <1>2 DEF Step
  <2> QED BY <1>1, <2>1 DEF Underway
<1>3. CASE w.err = "nil" /\ w.todo # <<>>
  <2>1. Solid(d, w.done) /\ d[w.done].kind = "dir"
    BY <1>3 DEF Underway
  <2>2. tail \in Seq(Name) /\ Len(w.todo) \in Nat /\ Len(tail) = Len(w.todo) - 1
    <3>1. w.todo \in Seq(Name) BY <1>1
    <3> QED BY <1>3, <3>1, HeadTailProperties, LenProperties
  <2>3. CASE next \notin DOMAIN d
    <3>1. Step(d, w) = [w EXCEPT !.err = "not_found"]
      BY <1>3, <2>3 DEF Step
    <3>2. /\ Step(d, w) \in Way /\ Step(d, w).done = w.done
          /\ Step(d, w).err = "not_found"
      BY <1>1, <3>1 DEF Way
    <3> QED BY <1>1, <3>2 DEF Underway
  <2>4. CASE next \in DOMAIN d /\ d[next].kind = "link"
    <3>1. Step(d, w) = [w EXCEPT !.done = <<>>, !.todo = d[next].to \o tail]
      BY <1>3, <2>4 DEF Step
    <3>2. d[next].to \in Seq(Name)
      <4>1. d[next].to \in Seq(Proper) BY <2>4, DiskIs
      <4> QED BY <4>1, ProperSeq
    <3>3. d[next].to \o tail \in Seq(Name)
      BY <2>2, <3>2, ConcatProperties
    <3>4. <<>> \in Seq(Proper) /\ Len(<<>>) = 0
      BY EmptySeq
    <3>5. Solid(d, <<>>) /\ d[<<>>].kind = "dir"
      BY SolidEmpty, DiskIs
    <3> HIDE DEF next, tail
    <3>6. Step(d, w).done = <<>> /\ Step(d, w).err = "nil"
      BY <1>1, <1>3, <3>1 DEF Way
    <3>7. Step(d, w) \in Way
      BY <1>1, <3>1, <3>3, <3>4 DEF Way
    <3> QED BY <3>4, <3>5, <3>6, <3>7 DEF Underway
  <2>5. CASE next \in DOMAIN d /\ d[next].kind # "link"
    <3>1. CASE d[next].kind = "file" /\ Len(w.todo) > 1
      <4>1. Step(d, w) = [w EXCEPT !.err = Fault]
        BY <1>3, <2>5, <3>1 DEF Step
      <4>2. Fault # "nil" BY DEF Fault
      <4>3. Step(d, w) \in Way /\ Step(d, w).done = w.done /\ Step(d, w).err = Fault
        BY <1>1, <4>1 DEF Way
      <4> QED BY <1>1, <4>2, <4>3 DEF Underway
    <3>2. CASE ~(d[next].kind = "file" /\ Len(w.todo) > 1)
      <4>1. Step(d, w) = [w EXCEPT !.done = next, !.todo = tail]
        BY <1>3, <2>5, <3>2 DEF Step
      <4>2. Solid(d, next) /\ Len(next) = Len(w.done) + 1
        BY <2>1, <2>5, SolidMore
      <4>3. tail # <<>> => d[next].kind = "dir"
        <5>1. CASE Len(w.todo) > 1
          BY <2>5, <3>2, <5>1, DiskIs
        <5>2. CASE ~(Len(w.todo) > 1)
          <6>1. Len(tail) <= 0 BY <2>2, <5>2
          <6> HIDE DEF tail
          <6> QED BY <2>2, <6>1, EmptySeq
        <5> QED BY <5>1, <5>2
      <4> HIDE DEF next, tail
      <4>4. next \in Seq(Proper)
        BY <4>2 DEF Solid
      <4>5. Step(d, w) \in Way
        BY <1>1, <2>2, <4>1, <4>4 DEF Way
      <4>6. Step(d, w).done = next /\ Step(d, w).todo = tail
        BY <1>1, <4>1 DEF Way
      <4> QED BY <1>1, <4>2, <4>3, <4>5, <4>6 DEF Underway
    <3> QED BY <3>1, <3>2
  <2> QED BY <2>3, <2>4, <2>5
<1> QED BY <1>2, <1>3

\* What a path resolves to has no link on the way to it.
LEMMA RealType ==
  ASSUME NEW d \in Disk, NEW p \in Seq(Name)
  PROVE  /\ Real(d, p) = [path |-> Real(d, p).path, err |-> Real(d, p).err]
         /\ Real(d, p).path \in Seq(Proper) /\ Real(d, p).err \in {"nil", "not_found", Fault}
         /\ Real(d, p).err = "nil" => Solid(d, Real(d, p).path) /\ Len(Real(d, p).path) <= Fuel
<1>0. Fuel \in Nat
  BY FileAssumption
<1>1. PICK w : /\ \A k \in 0..Fuel : w[k] = IF k = 0 THEN Begin(p) ELSE Step(d, w[k - 1])
               /\ Walk(d, p) = w[Fuel]
  BY WalkIsWalk
<1> DEFINE T == {k \in 0..Fuel : Underway(d, w[k], k)}
<1>2. 0 \in T
  <2>1. w[0] = Begin(p) /\ 0 \in 0..Fuel
    BY <1>0, <1>1
  <2>2. <<>> \in Seq(Proper) /\ Len(<<>>) = 0
    BY EmptySeq
  <2>3. Begin(p) \in Way /\ Begin(p).done = <<>>
    BY <2>2 DEF Begin, Way
  <2>4. Underway(d, Begin(p), 0)
    BY <2>2, <2>3, SolidEmpty, DiskIs DEF Underway
  <2> QED BY <2>1, <2>4
<1>3. ASSUME NEW k \in 0..(Fuel - 1), k \in T PROVE k + 1 \in T
  <2>1. k + 1 \in 0..Fuel /\ k + 1 # 0 /\ k + 1 - 1 = k /\ k \in Nat
    BY <1>0
  <2>2. w[k + 1] = Step(d, w[k])
    BY <1>1, <2>1
  <2>3. Underway(d, w[k], k)
    BY <1>3
  <2>4. Underway(d, w[k + 1], k + 1)
    BY <2>1, <2>2, <2>3, StepUnderway
  <2> QED BY <2>1, <2>4
<1>4. Fuel \in T
  <2> HIDE DEF T
  <2> QED BY <1>0, <1>2, <1>3, Upto
<1>5. Underway(d, Walk(d, p), Fuel)
  BY <1>1, <1>4
<1> DEFINE v == Walk(d, p)
           e == IF v.err = "nil" /\ v.todo # <<>> THEN Fault ELSE v.err
<1>6. Real(d, p) = [path |-> v.done, err |-> e]
  BY DEF Real
<1>7. v.done \in Seq(Proper) /\ v.err \in {"nil", "not_found", Fault}
  BY <1>5 DEF Underway, Way
<1>8. e \in {"nil", "not_found", Fault}
  BY <1>7
<1>9. e = "nil" => v.err = "nil"
  BY DEF Fault
<1>10. v.err = "nil" => Solid(d, v.done) /\ Len(v.done) <= Fuel
  BY <1>5 DEF Underway
<1> HIDE DEF v, e
<1> QED BY <1>6, <1>7, <1>8, <1>9, <1>10

\* A path without links is where it leads to.
Part(r, k) == [done |-> SubSeq(r, 1, k), todo |-> SubSeq(r, k + 1, Len(r)), err |-> "nil"]

LEMMA PartStep ==
  ASSUME NEW d \in Disk, NEW r, Solid(d, r), NEW k \in 0..Len(r), k < Len(r)
  PROVE  Step(d, Part(r, k)) = Part(r, k + 1)
<1>1. r \in Seq(Proper) /\ Len(r) \in Nat /\ k \in Nat /\ k + 1 \in 1..Len(r)
  <2>1. r \in Seq(Proper) BY DEF Solid
  <2>2. Len(r) \in Nat BY <2>1, LenProperties
  <2> QED BY <2>1, <2>2
<1> DEFINE done == SubSeq(r, 1, k)
           todo0 == SubSeq(r, k + 1, Len(r))
           next == SubSeq(r, 1, k + 1)
<1>2. todo0 # <<>> /\ Head(todo0) = r[k + 1] /\ Len(todo0) = Len(r) - k
  <2>1. todo0 = [i \in 1..(Len(r) - k) |-> r[i + k]]
    BY <1>1
  <2>2. Len(todo0) = Len(r) - k /\ todo0[1] = r[k + 1] /\ todo0 \in Seq(Proper)
    BY <1>1, <2>1
  <2> HIDE DEF todo0
  <2> QED BY <1>1, <2>2
<1>3. Tail(todo0) = SubSeq(r, k + 2, Len(r))
  BY <1>1
<1>4. Append(done, r[k + 1]) = next
  BY <1>1
<1>5. next \in DOMAIN d /\ d[next].kind # "link" /\ (k + 1 < Len(r) => d[next].kind = "dir")
  <2>1. k + 1 \in 0..Len(r) BY <1>1
  <2> QED BY <2>1 DEF Solid
<1>6. /\ Part(r, k).done = done /\ Part(r, k).todo = todo0 /\ Part(r, k).err = "nil"
      /\ Part(r, k) = [done |-> done, todo |-> todo0, err |-> "nil"]
  BY DEF Part
<1>7. ~(d[next].kind = "file" /\ Len(todo0) > 1)
  BY <1>1, <1>2, <1>5
<1>8. Part(r, k + 1) = [done |-> next, todo |-> Tail(todo0), err |-> "nil"]
  <2>1. k + 1 + 1 = k + 2 BY <1>1
  <2> QED BY <1>3, <2>1 DEF Part
<1>9. Append(Part(r, k).done, Head(Part(r, k).todo)) = next
  BY <1>2, <1>4, <1>6
<1> HIDE DEF done, todo0, next
<1>10. Step(d, Part(r, k)) = [Part(r, k) EXCEPT !.done = next, !.todo = Tail(@)]
  BY <1>2, <1>5, <1>6, <1>7, <1>9 DEF Step
<1> QED BY <1>6, <1>8, <1>10

\* And so it resolves to itself.
LEMMA SolidReal ==
  ASSUME NEW d \in Disk, NEW r, Solid(d, r), Len(r) <= Fuel
  PROVE  Real(d, r) = [path |-> r, err |-> "nil"]
<1>0. Fuel \in Nat /\ r \in Seq(Proper) /\ Len(r) \in Nat
  <2>1. Fuel \in Nat BY FileAssumption
  <2>2. r \in Seq(Proper) BY DEF Solid
  <2> QED BY <2>1, <2>2, LenProperties
<1>1. PICK w : /\ \A k \in 0..Fuel : w[k] = IF k = 0 THEN Begin(r) ELSE Step(d, w[k - 1])
               /\ Walk(d, r) = w[Fuel]
  BY WalkIsWalk
<1> DEFINE T == {k \in 0..Len(r) : w[k] = Part(r, k)}
<1>2. 0 \in T
  <2>1. SubSeq(r, 1, 0) = <<>> /\ SubSeq(r, 0 + 1, Len(r)) = r
    BY <1>0
  <2>2. w[0] = Begin(r) BY <1>0, <1>1
  <2> QED BY <1>0, <2>1, <2>2 DEF Begin, Part
<1>3. ASSUME NEW k \in 0..(Len(r) - 1), k \in T PROVE k + 1 \in T
  <2>1. k + 1 \in 0..Fuel /\ k + 1 # 0 /\ k + 1 - 1 = k /\ k + 1 \in 0..Len(r)
        /\ k \in 0..Len(r) /\ k < Len(r)
    BY <1>0
  <2>2. w[k + 1] = Step(d, w[k])
    BY <1>1, <2>1
  <2>3. Step(d, Part(r, k)) = Part(r, k + 1)
    BY <2>1, PartStep
  <2> QED BY <1>3, <2>1, <2>2, <2>3
<1>4. w[Len(r)] = Part(r, Len(r))
  <2>1. Len(r) \in T
    <3> HIDE DEF T
    <3> QED BY <1>0, <1>2, <1>3, Upto
  <2> QED BY <2>1
<1>5. Part(r, Len(r)) = [done |-> r, todo |-> <<>>, err |-> "nil"]
  <2>1. SubSeq(r, 1, Len(r)) = r /\ SubSeq(r, Len(r) + 1, Len(r)) = <<>>
    BY <1>0
  <2> QED BY <2>1 DEF Part
<1> DEFINE end == [done |-> r, todo |-> <<>>, err |-> "nil"]
           U == {k \in 0..(Fuel - Len(r)) : w[Len(r) + k] = end}
<1>6. 0 \in U
  BY <1>0, <1>4, <1>5
<1>7. ASSUME NEW k \in 0..(Fuel - Len(r) - 1), k \in U PROVE k + 1 \in U
  <2>1. Len(r) + k + 1 \in 0..Fuel /\ Len(r) + k + 1 # 0 /\ Len(r) + k + 1 - 1 = Len(r) + k
        /\ Len(r) + (k + 1) = Len(r) + k + 1 /\ k + 1 \in 0..(Fuel - Len(r))
    BY <1>0
  <2>2. w[Len(r) + k + 1] = Step(d, w[Len(r) + k])
    BY <1>1, <2>1
  <2>3. end.todo = <<>>
    OBVIOUS
  <2>4. Step(d, end) = end
    <3> HIDE DEF end
    <3> QED BY <2>3 DEF Step
  <2> QED BY <1>7, <2>1, <2>2, <2>4
<1>8. Fuel - Len(r) \in U
  <2> HIDE DEF U
  <2>1. Fuel - Len(r) \in Nat BY <1>0
  <2> QED BY <1>6, <1>7, <2>1, Upto
<1>9. Walk(d, r) = end
  <2>1. Len(r) + (Fuel - Len(r)) = Fuel BY <1>0
  <2> QED BY <1>1, <1>8, <2>1
<1> QED BY <1>9 DEF Real

\* Resolving once is enough.
LEMMA RealStable ==
  ASSUME NEW d \in Disk, NEW p \in Seq(Name), Real(d, p).err = "nil"
  PROVE  Real(d, Real(d, p).path) = Real(d, p)
BY RealType, SolidReal

LEMMA SolidIs ==
  ASSUME NEW d \in Disk, NEW r, Solid(d, r)
  PROVE  /\ r \in Seq(Proper) /\ r \in DOMAIN d
         /\ d[r].kind = "dir" \/ (d[r].kind = "file" /\ d[r].size \in Nat /\ IsFile(d[r]))
<1>1. r \in Seq(Proper) BY DEF Solid
<1>2. Len(r) \in 0..Len(r) /\ SubSeq(r, 1, Len(r)) = r
  <2>1. Len(r) \in Nat BY <1>1, LenProperties
  <2> QED BY <1>1, <2>1
<1>3. r \in DOMAIN d /\ d[r].kind # "link"
  BY <1>2 DEF Solid
<1> QED BY <1>1, <1>3, DiskIs

-----------------------------------------------------------------------------
(* Cleaning a path.                                                        *)
IsClean(q, p, m) == q = [k \in 0..m |-> IF k = 0 THEN <<>> ELSE Enter(q[k - 1], p[k])]

\* Cleaning a path name by name is well defined, and Clean is the end of it.
LEMMA CleanExists ==
  ASSUME NEW p, NEW n \in Nat
  PROVE  \E q : IsClean(q, p, n)
<1> DEFINE T == {m \in 0..n : \E q : IsClean(q, p, m)}
<1>1. 0 \in T
  <2>1. IsClean([k \in 0..0 |-> <<>>], p, 0) BY DEF IsClean
  <2> QED BY <2>1
<1>2. ASSUME NEW m \in 0..(n - 1), m \in T PROVE m + 1 \in T
  <2>1. PICK w : IsClean(w, p, m) BY <1>2
  <2> DEFINE q == [k \in 0..(m + 1) |-> IF k = m + 1 THEN Enter(w[m], p[k]) ELSE w[k]]
  <2>2. \A k \in 0..m : w[k] = IF k = 0 THEN <<>> ELSE Enter(w[k - 1], p[k])
    BY <2>1 DEF IsClean
  <2>3. \A k \in 0..m : q[k] = w[k]
    OBVIOUS
  <2>4. ASSUME NEW k \in 0..(m + 1)
        PROVE  q[k] = IF k = 0 THEN <<>> ELSE Enter(q[k - 1], p[k])
    <3>1. CASE k = 0 BY <2>2, <2>3, <3>1
    <3>2. CASE k \in 1..m
      <4>1. k - 1 \in 0..m /\ k \in 0..m BY <3>2
      <4> QED BY <2>2, <2>3, <3>2, <4>1
    <3>3. CASE k = m + 1
      <4>1. m \in 0..m BY <1>2
      <4>2. q[k] = Enter(w[m], p[k]) BY <3>3
      <4>3. q[k - 1] = w[m] BY <3>3, <2>3, <4>1
      <4> QED BY <3>3, <4>2, <4>3
    <3> QED BY <3>1, <3>2, <3>3
  <2>5. IsClean(q, p, m + 1)
    <3> HIDE DEF q
    <3> QED BY <2>4 DEF q, IsClean
  <2> QED BY <2>5
<1>3. n \in T
  <2> HIDE DEF T
  <2> QED BY <1>1, <1>2, Upto
<1> QED BY <1>3

LEMMA CleanIsClean ==
  ASSUME NEW p, Len(p) \in Nat
  PROVE  \E q : /\ \A k \in 0..Len(p) : q[k] = IF k = 0 THEN <<>> ELSE Enter(q[k - 1], p[k])
                /\ Clean(p) = q[Len(p)]
<1> DEFINE q == CHOOSE w : IsClean(w, p, Len(p))
<1>1. IsClean(q, p, Len(p))
  BY CleanExists
<1>2. Clean(p) = q[Len(p)]
  BY Zenon DEF Clean, IsClean
<1> HIDE DEF q
<1>3. \A k \in 0..Len(p) : q[k] = IF k = 0 THEN <<>> ELSE Enter(q[k - 1], p[k])
  BY <1>1 DEF IsClean
<1> QED BY <1>2, <1>3

\* A name, or what is left of one without its blanks.
Piece == Name \cup {""}

LEMMA Pieces ==
  ASSUME NEW s \in Seq(Name)
  PROVE  s \in Seq(Piece) /\ \A i \in 1..Len(s) : s[i] # ""
<1>1. Name \subseteq Piece BY DEF Piece
<1>2. s \in Seq(Piece) BY <1>1, SeqMonotonic
<1>3. ASSUME NEW i \in 1..Len(s) PROVE s[i] # ""
  <2>1. s[i] \in Name BY ElementOfSeq
  <2> QED BY <2>1, FileAssumption
<1> QED BY <1>2, <1>3

\* Nothing is left of . and .. in a clean path.
LEMMA CleanType ==
  ASSUME NEW p \in Seq(Piece)
  PROVE  Clean(p) \in Seq(Proper)
<1>0. Len(p) \in Nat
  BY LenProperties
<1>1. PICK q : /\ \A k \in 0..Len(p) : q[k] = IF k = 0 THEN <<>> ELSE Enter(q[k - 1], p[k])
               /\ Clean(p) = q[Len(p)]
  BY <1>0, CleanIsClean
<1> DEFINE T == {k \in 0..Len(p) : q[k] \in Seq(Proper)}
<1>2. 0 \in T
  <2>1. <<>> \in Seq(Proper) BY EmptySeq
  <2>2. 0 \in 0..Len(p) BY <1>0
  <2>3. q[0] = <<>> BY <1>1, <2>2
  <2> QED BY <2>1, <2>2, <2>3
<1>3. ASSUME NEW k \in 0..(Len(p) - 1), k \in T PROVE k + 1 \in T
  <2>1. k + 1 \in 1..Len(p) /\ k + 1 \in 0..Len(p) /\ k + 1 # 0 /\ k + 1 - 1 = k
    BY <1>0
  <2>2. q[k + 1] = Enter(q[k], p[k + 1])
    BY <1>1, <2>1
  <2>3. p[k + 1] \in Piece /\ q[k] \in Seq(Proper)
    BY <1>3, <2>1, ElementOfSeq
  <2>4. CASE p[k + 1] \in {"", ".", ".."}
    <3>1. q[k] # <<>> => Front(q[k]) \in Seq(Proper)
      <4> SUFFICES ASSUME q[k] # <<>> PROVE Front(q[k]) \in Seq(Proper)
        OBVIOUS
      <4>1. Len(q[k]) \in Nat \ {0}
        BY <2>3, EmptySeq
      <4> QED BY <2>3, <4>1 DEF Front
    <3>2. Enter(q[k], p[k + 1]) \in Seq(Proper)
      BY <2>3, <2>4, <3>1 DEF Enter
    <3> QED BY <2>1, <2>2, <3>2
  <2>5. CASE p[k + 1] \notin {"", ".", ".."}
    <3>1. p[k + 1] \in Proper
      BY <2>3, <2>5 DEF Proper, Piece
    <3>2. Append(q[k], p[k + 1]) \in Seq(Proper)
      BY <2>3, <3>1, AppendProperties
    <3>3. Enter(q[k], p[k + 1]) = Append(q[k], p[k + 1])
      BY <2>5 DEF Enter
    <3> QED BY <2>1, <2>2, <3>2, <3>3
  <2> QED BY <2>4, <2>5
<1>4. Len(p) \in T
  <2> HIDE DEF T
  <2> QED BY <1>0, <1>2, <1>3, Upto
<1> QED BY <1>1, <1>4

\* A path without them is clean.
LEMMA CleanProper ==
  ASSUME NEW p \in Seq(Proper)
  PROVE  Clean(p) = p
<1>0. Len(p) \in Nat
  BY LenProperties
<1>1. PICK q : /\ \A k \in 0..Len(p) : q[k] = IF k = 0 THEN <<>> ELSE Enter(q[k - 1], p[k])
               /\ Clean(p) = q[Len(p)]
  BY <1>0, CleanIsClean
<1> DEFINE T == {k \in 0..Len(p) : q[k] = SubSeq(p, 1, k)}
<1>2. 0 \in T
  <2>1. SubSeq(p, 1, 0) = <<>> OBVIOUS
  <2>2. 0 \in 0..Len(p) BY <1>0
  <2>3. q[0] = <<>> BY <1>1, <2>2
  <2> QED BY <2>1, <2>2, <2>3
<1>3. ASSUME NEW k \in 0..(Len(p) - 1), k \in T PROVE k + 1 \in T
  <2>1. k + 1 \in 1..Len(p) /\ k + 1 \in 0..Len(p) /\ k + 1 # 0 /\ k + 1 - 1 = k
    BY <1>0
  <2>2. q[k + 1] = Enter(q[k], p[k + 1])
    BY <1>1, <2>1
  <2>3. p[k + 1] \in Proper
    BY <2>1, ElementOfSeq
  <2>4. q[k + 1] = Append(SubSeq(p, 1, k), p[k + 1])
    <3>1. p[k + 1] \notin {"", ".", ".."} BY <2>3, FileAssumption DEF Proper
    <3> QED BY <1>3, <2>2, <3>1 DEF Enter
  <2>5. Append(SubSeq(p, 1, k), p[k + 1]) = SubSeq(p, 1, k + 1)
    BY <1>0, <2>1
  <2> QED BY <2>1, <2>4, <2>5
<1>4. Len(p) \in T
  <2> HIDE DEF T
  <2> QED BY <1>0, <1>2, <1>3, Upto
<1>5. SubSeq(p, 1, Len(p)) = p
  BY <1>0
<1> QED BY <1>1, <1>4, <1>5

-----------------------------------------------------------------------------
(* A path asked for, below the base.                                       *)
Query == [abs : BOOLEAN, path : Seq(Name)]

\* A plain path is asked for as it is.
LEMMA Trimmed ==
  ASSUME NEW r \in Query
  PROVE  /\ Trim(r).path \in Seq(Piece) /\ r.path \in Seq(Name)
         /\ Plain(r.path) => Trim(r).path = r.path
<1> DEFINE p == r.path
           begun == [i \in DOMAIN p |-> IF i = 1 /\ ~r.abs THEN Lead[p[i]] ELSE p[i]]
           t == [i \in DOMAIN p |-> IF i = Len(p) THEN Trail[begun[i]] ELSE begun[i]]
<1>1. p \in Seq(Name) /\ r.abs \in BOOLEAN /\ r = [abs |-> r.abs, path |-> p]
  BY DEF Query
<1>2. Len(p) \in Nat /\ DOMAIN p = 1..Len(p) /\ \A i \in 1..Len(p) : p[i] \in Name
  <2>1. p \in Seq(Name) BY <1>1
  <2> HIDE DEF p
  <2> QED BY <2>1, LenProperties, ElementOfSeq
<1>3. Trim(r).path = t
  <2>1. Trim(r) = [r EXCEPT !.path = t] BY DEF Trim
  <2> HIDE DEF t
  <2> QED BY <1>1, <2>1
<1> HIDE DEF p
<1>4. \A i \in 1..Len(p) : begun[i] \in Piece
  BY <1>2, FileAssumption DEF Piece
<1>5. \A n \in Piece : Trail[n] \in Piece
  BY FileAssumption DEF Piece
<1>6. t \in Seq(Piece)
  <2>1. \A i \in 1..Len(p) : t[i] \in Piece
    <3> HIDE DEF begun
    <3> QED BY <1>2, <1>4, <1>5
  <2>2. t = [i \in 1..Len(p) |-> t[i]] BY <1>2
  <2> HIDE DEF t
  <2> QED BY <1>2, <2>1, <2>2, SeqDef
<1>7. ASSUME Plain(p) PROVE t = p
  <2>1. \A i \in 1..Len(p) : t[i] = p[i]
    <3> SUFFICES ASSUME NEW i \in 1..Len(p) PROVE t[i] = p[i]
      OBVIOUS
    <3>1. p # <<>> BY <1>2
    <3>2. Lead[p[1]] = p[1] /\ Trail[p[Len(p)]] = p[Len(p)]
      BY <1>7, <3>1 DEF Plain
    <3>3. begun[i] = p[i] BY <1>2, <3>2
    <3> HIDE DEF begun
    <3> QED BY <1>2, <3>2, <3>3
  <2>2. t = [i \in 1..Len(p) |-> t[i]] /\ p = [i \in 1..Len(p) |-> p[i]]
    <3>1. p \in Seq(Name) BY <1>1 DEF p
    <3> QED BY <1>2, <3>1
  <2> HIDE DEF t
  <2> QED BY <2>1, <2>2
<1> HIDE DEF t
<1> QED BY <1>1, <1>3, <1>6, <1>7 DEF p

LEMMA JoinedType ==
  ASSUME NEW b \in Seq(Proper), NEW p \in Seq(Piece)
  PROVE  b \o p \in Seq(Piece)
<1>1. b \in Seq(Name) BY ProperSeq
<1>2. b \in Seq(Piece) BY <1>1, Pieces
<1> QED BY <1>2, ConcatProperties

LEMMA TargetType ==
  ASSUME NEW b \in Seq(Proper), NEW r \in Query
  PROVE  Target(b, r) \in Seq(Proper) /\ Target(b, r) \in Seq(Name)
<1> DEFINE p == Trim(r).path
<1>1. p \in Seq(Piece)
  BY Trimmed
<1>2. b \o p \in Seq(Piece)
  BY <1>1, JoinedType
<1>3. Clean(p) \in Seq(Proper) /\ Clean(b \o p) \in Seq(Proper)
  BY <1>1, <1>2, CleanType
<1>4. b \o Clean(p) \in Seq(Proper)
  BY <1>3, ConcatProperties
<1>5. Target(b, r) \in {Clean(p), b \o Clean(p), Clean(b \o p)}
  BY DEF Target
<1> HIDE DEF p
<1>6. Target(b, r) \in Seq(Proper)
  BY <1>3, <1>4, <1>5
<1> QED BY <1>6, ProperSeq

\* A plain path leads where it was meant.
LEMMA PlainTarget ==
  ASSUME NEW b \in Seq(Proper), NEW r \in Query, Plain(r.path)
  PROVE  Target(b, r) = Clean(IF r.abs THEN r.path ELSE b \o r.path)
<1>1. Trim(r).path = r.path /\ r.path \in Seq(Name)
  BY Trimmed
<1>2. ~(r.path # <<>> /\ r.path[1] = "")
  <2> SUFFICES ASSUME r.path # <<>> PROVE r.path[1] # ""
    OBVIOUS
  <2>1. 1 \in 1..Len(r.path) BY <1>1, EmptySeq
  <2> QED BY <1>1, <2>1, Pieces
<1> QED BY <1>1, <1>2 DEF Target

\* resolveBase, by what it answers.
LEMMA ResolveIs ==
  ASSUME NEW d \in Disk, NEW b \in Seq(Proper), NEW r \in Query
  PROVE  LET found == ResolveBase(d, b, r)
             real  == Real(d, Target(b, r))
         IN /\ found = [path |-> found.path, err |-> found.err]
            /\ found.path \in Seq(Proper)
            /\ found.err \in {"nil", "not_found", "forbidden", Fault}
            /\ found.err = "nil" => /\ found = real /\ IsPrefix(b, Target(b, r))
                                    /\ InsideRoot(b, found.path)
            /\ found.err \in {"not_found", Fault} => real.err = found.err
            /\ found.err = "forbidden" => \/ ~IsPrefix(b, Target(b, r))
                                          \/ real.err = "nil" /\ ~IsPrefix(b, real.path)
            /\ IsPrefix(b, Target(b, r)) /\ real.err = "nil" /\ IsPrefix(b, real.path) =>
                 found = real
            /\ IsPrefix(b, Target(b, r)) /\ found.err = "not_found" => real.err = "not_found"
<1> DEFINE found == ResolveBase(d, b, r)
           target == Target(b, r)
           real  == Real(d, target)
           e     == real.err
           p     == real.path
<1>1. target \in Seq(Name)
  BY TargetType
<1>2. real = [path |-> p, err |-> e] /\ p \in Seq(Proper) /\ e \in {"nil", "not_found", Fault}
  BY <1>1, RealType
<1>3. found = IF ~IsPrefix(b, target) THEN [path |-> <<>>, err |-> "forbidden"]
              ELSE IF e = "nil" /\ ~IsPrefix(b, p) THEN [real EXCEPT !.err = "forbidden"]
              ELSE real
  BY DEF ResolveBase, InsideRoot
<1> HIDE DEF found, target, real, e, p
<1>4. <<>> \in Seq(Proper)
  BY EmptySeq
<1>5. CASE ~IsPrefix(b, target)
  BY <1>3, <1>4, <1>5 DEF InsideRoot, Fault, found, target, real
<1>6. CASE IsPrefix(b, target) /\ e = "nil" /\ ~IsPrefix(b, p)
  <2>1. found = [path |-> p, err |-> "forbidden"]
    BY <1>2, <1>3, <1>6
  <2> QED BY <1>2, <1>6, <2>1 DEF Fault, found, target, real, e, p
<1>7. CASE IsPrefix(b, target) /\ ~(e = "nil" /\ ~IsPrefix(b, p))
  <2>1. found = real /\ real = [path |-> p, err |-> e]
    BY <1>2, <1>3, <1>7
  <2>2. e # "forbidden"
    BY <1>2 DEF Fault
  <2> QED BY <1>2, <1>7, <2>1, <2>2 DEF InsideRoot, found, target, real, e, p
<1> QED BY <1>5, <1>6, <1>7

\* A path below the base is taken apart at it and put together again.
LEMMA RelBack ==
  ASSUME NEW b \in Seq(Proper), NEW p \in Seq(Proper), IsPrefix(b, p)
  PROVE  /\ Rel(b, p) \in Seq(Proper) /\ b \o Rel(b, p) = p
         /\ \A n : b \o Append(Rel(b, p), n) = Append(p, n) /\ IsPrefix(b, Append(p, n))
<1>1. Len(b) \in Nat /\ Len(p) \in Nat /\ Len(b) <= Len(p)
  <2>1. Len(b) \in Nat BY LenProperties
  <2>2. Len(p) \in Nat BY LenProperties
  <2> QED BY <2>1, <2>2 DEF IsPrefix
<1>2. SubSeq(b, 1, Len(b)) = b
  BY SubSeqFull
<1>3. b = SubSeq(p, 1, Len(b))
  BY <1>2 DEF IsPrefix
<1> DEFINE s == Rel(b, p)
<1>4. s \in Seq(Proper) /\ Len(s) = Len(p) - Len(b) /\ \A i \in 1..Len(s) : s[i] = p[Len(b) + i]
  BY <1>1 DEF Rel
<1>5. \A i \in 1..Len(b) : b[i] = p[i]
  <2>1. \A i \in 1..Len(b) : SubSeq(p, 1, Len(b))[i] = p[i]
    BY <1>1
  <2> QED BY <1>3, <2>1
<1> HIDE DEF s
<1>6. b \o s = p
  <2>1. b \o s \in Seq(Proper) /\ Len(b \o s) = Len(b) + Len(s)
    BY <1>4, ConcatProperties
  <2>2. \A i \in 1..Len(p) : (b \o s)[i] = p[i]
    BY <1>1, <1>4, <1>5
  <2>3. Len(b \o s) = Len(p) BY <1>1, <1>4, <2>1
  <2>4. \A i \in 1..Len(b \o s) : (b \o s)[i] = p[i] BY <2>2, <2>3
  <2> HIDE DEF s
  <2> QED BY ONLY <2>1, <2>3, <2>4, SeqEqual, b \in Seq(Proper), p \in Seq(Proper)
<1>7. ASSUME NEW n PROVE b \o Append(s, n) = Append(p, n)
  <2>1. b \o Append(s, n) = Append(b \o s, n)
    BY <1>1, <1>4
  <2> QED BY <1>6, <2>1
<1>8. ASSUME NEW n PROVE IsPrefix(b, Append(p, n))
  <2>1. Len(Append(p, n)) = Len(p) + 1
    OBVIOUS
  <2>2. SubSeq(Append(p, n), 1, Len(b)) = SubSeq(p, 1, Len(b))
    BY <1>1
  <2> QED BY <1>1, <1>2, <1>3, <2>1, <2>2 DEF IsPrefix
<1> QED BY <1>4, <1>6, <1>7, <1>8 DEF s

\* A name in a directory.
LEMMA NameIs ==
  ASSUME NEW d \in Disk, NEW p \in Seq(Proper), NEW n \in Names(d, p)
  PROVE  Append(p, n) \in DOMAIN d /\ Append(p, n) \in Seq(Proper) /\ n \in Proper
<1>1. PICK q \in DOMAIN d : q # <<>> /\ Front(q) = p /\ n = q[Len(q)]
  BY DEF Names
<1>2. q \in Seq(Proper) /\ Len(q) \in Nat \ {0}
  <2>1. q \in Seq(Proper) BY DiskIs
  <2> QED BY <1>1, <2>1, EmptySeq
<1>3. Append(p, n) = q
  BY <1>1, <1>2 DEF Front
<1>4. n \in Proper
  BY <1>1, <1>2, ElementOfSeq
<1> QED BY <1>2, <1>3, <1>4

\* What a name in a directory below the base is looked up as.
LEMMA ItemTarget ==
  ASSUME NEW d \in Disk, NEW b \in Seq(Proper), NEW p \in Seq(Proper), IsPrefix(b, p),
         NEW n \in Names(d, p)
  PROVE  LET r == [abs |-> FALSE, path |-> Append(Rel(b, p), n)]
         IN r \in Query /\ (Plain(r.path) => Target(b, r) = Append(p, n)) /\ IsPrefix(b, Append(p, n))
<1> DEFINE r == [abs |-> FALSE, path |-> Append(Rel(b, p), n)]
<1>1. n \in Proper /\ Append(p, n) \in Seq(Proper)
  BY NameIs
<1>2. Append(Rel(b, p), n) \in Seq(Proper)
  <2>1. Rel(b, p) \in Seq(Proper) BY RelBack
  <2> QED BY <1>1, <2>1, AppendProperties
<1>3. r \in Query
  <2>1. Append(Rel(b, p), n) \in Seq(Name) BY <1>2, ProperSeq
  <2> QED BY <2>1 DEF Query
<1>5. b \o r.path = Append(p, n) /\ IsPrefix(b, Append(p, n))
  BY RelBack
<1>6. Clean(Append(p, n)) = Append(p, n)
  BY <1>1, CleanProper
<1>7. r.abs = FALSE
  OBVIOUS
<1> HIDE DEF r
<1>8. Plain(r.path) => Target(b, r) = Append(p, n)
  BY <1>3, <1>5, <1>6, <1>7, PlainTarget
<1> QED BY <1>3, <1>5, <1>8 DEF r

\* And the directory itself.
LEMMA SelfTarget ==
  ASSUME NEW b \in Seq(Proper), NEW p \in Seq(Proper), IsPrefix(b, p)
  PROVE  LET r == [abs |-> FALSE, path |-> Rel(b, p)]
         IN r \in Query /\ (Plain(r.path) => Target(b, r) = p)
<1> DEFINE r == [abs |-> FALSE, path |-> Rel(b, p)]
<1>1. Rel(b, p) \in Seq(Proper) /\ b \o r.path = p
  BY RelBack
<1>2. r \in Query
  <2>1. Rel(b, p) \in Seq(Name) BY <1>1, ProperSeq
  <2> QED BY <2>1 DEF Query
<1>4. Clean(p) = p
  BY CleanProper
<1>5. r.abs = FALSE
  OBVIOUS
<1> HIDE DEF r
<1>6. Plain(r.path) => Target(b, r) = p
  BY <1>1, <1>2, <1>4, <1>5, PlainTarget
<1> QED BY <1>2, <1>6 DEF r

-----------------------------------------------------------------------------
(* The invariant.                                                          *)

\* Where a path leads that is its own resolution.
Settled(d, p) == Solid(d, p) /\ Real(d, p) = [path |-> p, err |-> "nil"]

\* Between two requests nothing is left of the last.
Fresh ==
  pc \in {"start", "refused", "idle"} =>
    base = <<>> /\ at = <<>> /\ size = 0 /\ answer = NoAnswer

Found == pc \in {"stat", "read", "list", "entry", "child"} => InsideRoot(base, at)

AtRest == calm => Settled(disk, at)

Kinds ==
  /\ pc \in {"list", "entry", "child"} => op = "list" /\ (calm => disk[at].kind = "dir")
  /\ pc = "read" => /\ op = "read"
                    /\ calm => /\ disk[at].kind = "file"
                               /\ disk[at].size <= limit /\ size = disk[at].size

Answered ==
  pc = "done" /\ answer.code = "ok" =>
    /\ InsideRoot(base, at) /\ answer.path = Rel(base, at)
    /\ op = "list" => ToSet(answer.entries) = entries /\ todo = {}

\* What an item of the directory leads to, and whether it is to be shown.
Item(name)    == Append(Rel(base, at), name)
Leads(name)   == Real(disk, Append(at, name))
Reached(name) == Leads(name).err = "nil" /\ IsPrefix(base, Leads(name).path)
Type(d, p)    == IF d[p].kind = "dir" THEN "directory" ELSE "file"

Listing == pc \in {"entry", "child"} \/ (pc = "done" /\ op = "list" /\ answer.code = "ok")

\* What has been shown of the directory is so.
Shown(e) ==
  /\ e.name \in Names(disk, at) /\ e.path = Item(e.name)
  /\ Plain(e.path) => Reached(e.name) /\ e.type = Type(disk, Leads(e.name).path)
ShownIsTrue ==
  calm /\ Listing => todo \subseteq Names(disk, at) /\ \A e \in entries : Shown(e)

\* The request has gone on after a refusal only in a listing.
Refused == refused => pc \in {"entry", "child", "done"}

\* What is to be shown of it has been, is being looked at or is still to be; or the system
\* has refused a look at something.
NoneForgotten ==
  calm /\ Listing => \A name \in Names(disk, at) \ todo :
    Plain(Item(name)) /\ Reached(name) =>
      (\E e \in entries : e.name = name) \/ (pc = "child" /\ child.name = name) \/ refused

\* The item looked at.
Pending ==
  calm /\ pc = "child" =>
    /\ child.name \in Names(disk, at) /\ child.path = Item(child.name)
    /\ Settled(disk, child.real) /\ IsPrefix(base, child.real)
    /\ Plain(child.path) => Leads(child.name) = [path |-> child.real, err |-> "nil"]

IInv ==
  /\ TypeOK /\ Fresh /\ Found /\ AtRest /\ Kinds /\ Answered /\ Refused
  /\ ShownIsTrue /\ NoneForgotten /\ Pending
  /\ DocumentIsText /\ ErrorsAreTrue

-----------------------------------------------------------------------------
(* What the steps have in common.                                          *)
LEMMA QueryIs ==
  ASSUME NEW r \in Cwd \cup Path \cup {Empty}
  PROVE  r \in Query
<1>1. CASE r = Empty
  <2>1. <<>> \in Seq(Name) BY EmptySeq
  <2> QED BY <1>1, <2>1 DEF Empty, Query
<1>2. CASE r \in Cwd \cup Path
  BY <1>2, FileAssumption DEF Query
<1> QED BY <1>1, <1>2

LEMMA EmptySettled ==
  ASSUME NEW d \in Disk
  PROVE  Settled(d, <<>>)
<1>1. Solid(d, <<>>)
  BY SolidEmpty
<1>2. Len(<<>>) = 0 /\ Fuel \in Nat
  BY FileAssumption, EmptySeq
<1>3. Len(<<>>) <= Fuel
  BY <1>2
<1> QED BY <1>1, <1>3, SolidReal DEF Settled

LEMMA RealSettled ==
  ASSUME NEW d \in Disk, NEW p \in Seq(Name), Real(d, p).err = "nil"
  PROVE  /\ Settled(d, Real(d, p).path) /\ Real(d, p) = [path |-> Real(d, p).path, err |-> "nil"]
         /\ Real(d, p).path \in Seq(Proper)
<1>1. Solid(d, Real(d, p).path) /\ Real(d, p).path \in Seq(Proper)
      /\ Real(d, p) = [path |-> Real(d, p).path, err |-> "nil"]
  BY RealType
<1>2. Real(d, Real(d, p).path) = Real(d, p)
  BY RealStable
<1> QED BY <1>1, <1>2 DEF Settled

Codes == {"files_disabled", "root_not_found", "cwd_invalid", "not_found", "forbidden",
          "not_directory", "not_text", "file_too_large", Fault, "invalid_request", "cwd_unknown"}

LEMMA FailedIs ==
  ASSUME NEW code \in Codes
  PROVE  /\ Failed(code).code = code /\ code # "ok"
         /\ Failed(code).status \in {200, 400, 403, 404, 409, 413, 500}
BY DEF Failed, Codes, HttpStatus, Fault

\* The session may change under a request: nothing is said of it.
LEMMA Quiet ==
  ASSUME IInv, UNCHANGED <<disk, service, pc, request, work, answer, calm, refused>>,
         listed' \in BOOLEAN, cwd' \in Cwd \cup {Empty}
  PROVE  IInv'
<1>1. /\ disk' = disk /\ roots' = roots /\ limit' = limit /\ pc' = pc /\ op' = op
      /\ base' = base /\ want' = want /\ at' = at /\ size' = size /\ todo' = todo
      /\ child' = child /\ entries' = entries /\ answer' = answer /\ calm' = calm
      /\ refused' = refused
  BY DEF service, request, work
<1>2. TypeOK' BY <1>1 DEF IInv, TypeOK
<1>3. Fresh' /\ Found' /\ AtRest' /\ Kinds' /\ Refused'
  BY <1>1 DEF IInv, Fresh, Found, AtRest, Kinds, Refused
<1>4. Answered' BY <1>1 DEF IInv, Answered
<1>5. ShownIsTrue' BY <1>1 DEF IInv, ShownIsTrue, Listing, Shown, Reached, Leads, Item
<1>6. NoneForgotten' BY <1>1 DEF IInv, NoneForgotten, Listing, Reached, Leads, Item
<1>7. Pending' BY <1>1 DEF IInv, Pending, Leads, Item
<1>8. DocumentIsText' BY <1>1 DEF IInv, DocumentIsText
<1>9. ErrorsAreTrue'
  <2>1. Wanted' = Wanted BY <1>1 DEF Wanted
  <2>2. RefusedIsOutside' <=> RefusedIsOutside
    BY <1>1, <2>1 DEF RefusedIsOutside
  <2>3. FailsOnlyOnBadLinks' <=> FailsOnlyOnBadLinks
    BY <1>1 DEF FailsOnlyOnBadLinks
  <2>4. RefusalIsTold' <=> RefusalIsTold
    BY <1>1 DEF RefusalIsTold
  <2> QED BY <1>1, <2>2, <2>3, <2>4 DEF IInv, ErrorsAreTrue
<1> QED BY <1>2, <1>3, <1>4, <1>5, <1>6, <1>7, <1>8, <1>9 DEF IInv

\* A request ends with an error.
LEMMA Refusal ==
  ASSUME IInv, NEW code \in Codes, Answer(Failed(code)),
         UNCHANGED <<disk, service, base, at, size, calm>>,
         listed' \in BOOLEAN, cwd' \in Cwd \cup {Empty},
         op' \in {"list", "read"}, want' \in Path \cup {Empty}, refused' \in BOOLEAN,
         DocumentIsText', ErrorsAreTrue'
  PROVE  IInv'
<1>1. /\ disk' = disk /\ roots' = roots /\ limit' = limit /\ base' = base /\ at' = at
      /\ size' = size /\ calm' = calm /\ pc' = "done" /\ answer' = Failed(code)
  BY DEF service, Answer
<1>2. /\ answer'.code = code /\ code # "ok"
      /\ answer'.status \in {200, 400, 403, 404, 409, 413, 500}
  BY <1>1, FailedIs
<1>3. TypeOK' BY <1>1, <1>2 DEF IInv, TypeOK
<1>4. Fresh' /\ Found' /\ AtRest' /\ Kinds' /\ Answered' /\ Refused'
  BY <1>1, <1>2 DEF IInv, Fresh, Found, AtRest, Kinds, Answered, Refused
<1>5. ~Listing' BY <1>1, <1>2 DEF Listing
<1>6. ShownIsTrue' /\ NoneForgotten' /\ Pending'
  BY <1>1, <1>5 DEF ShownIsTrue, NoneForgotten, Pending
<1> QED BY <1>3, <1>4, <1>6 DEF IInv

\* Before anything is listed the system has refused nothing.
LEMMA Unrefused ==
  ASSUME IInv, pc \notin {"entry", "child", "done"}
  PROVE  refused \in BOOLEAN /\ ~refused
BY DEF IInv, Refused, TypeOK

\* A request is on its way, and nothing has been found yet.
LEMMA Early ==
  ASSUME IInv, pc' \in {"base", "isdir", "resolve"}, UNCHANGED <<disk, service, at, size, calm>>,
         refused' \in BOOLEAN, ~refused',
         listed' \in BOOLEAN, cwd' \in Cwd \cup {Empty}, base' \in Seq(Proper),
         op' \in {"list", "read"}, want' \in Path \cup {Empty}
  PROVE  IInv'
<1>1. /\ disk' = disk /\ roots' = roots /\ limit' = limit /\ at' = at
      /\ size' = size /\ calm' = calm
  BY DEF service
<1>2. TypeOK' BY <1>1 DEF IInv, TypeOK
<1>3. Fresh' /\ Found' /\ AtRest' /\ Kinds' /\ Answered' /\ Refused'
  BY <1>1 DEF IInv, Fresh, Found, AtRest, Kinds, Answered, Refused
<1>4. ShownIsTrue' /\ NoneForgotten' /\ Pending'
  BY DEF ShownIsTrue, NoneForgotten, Pending, Listing
<1>5. DocumentIsText' /\ ErrorsAreTrue'
  BY DEF DocumentIsText, ErrorsAreTrue
<1> QED BY <1>2, <1>3, <1>4, <1>5 DEF IInv

-----------------------------------------------------------------------------
(* The invariant holds at first, and every step keeps it.                  *)
LEMMA Initially == ASSUME Init PROVE IInv
<1>1. <<>> \in Seq(Proper) BY EmptySeq
<1>2. TypeOK
  <2>1. DOMAIN roots = {} BY DEF Init
  <2>2. Empty \in Cwd \cup {Empty} /\ Empty \in Path \cup {Empty} /\ 0 \in 0..0
    OBVIOUS
  <2> QED BY <1>1, <2>1, <2>2 DEF Init, TypeOK
<1>3. Fresh /\ Found /\ Kinds /\ Answered /\ Refused
  BY DEF Init, Fresh, Found, Kinds, Answered, Refused
<1>4. AtRest BY EmptySettled DEF Init, AtRest
<1>5. ShownIsTrue /\ NoneForgotten /\ Pending
  BY DEF Init, ShownIsTrue, NoneForgotten, Pending, Listing
<1>6. DocumentIsText /\ ErrorsAreTrue
  BY DEF Init, DocumentIsText, ErrorsAreTrue
<1> QED BY <1>2, <1>3, <1>4, <1>5, <1>6 DEF IInv

LEMMA StartKeeps == ASSUME IInv, NEW c \in Config, Start(c) PROVE IInv'
<1>1. /\ disk' = disk /\ listed' = listed /\ cwd' = cwd /\ op' = op /\ base' = base /\ want' = want
      /\ at' = at /\ size' = size /\ answer' = answer /\ calm' = calm
      /\ refused' \in BOOLEAN /\ ~refused' /\ pc = "start" /\ pc' \in {"idle", "refused"}
  <2>1. pc = "start" BY DEF Start
  <2>2. refused \in BOOLEAN /\ ~refused BY <2>1, Unrefused
  <2> QED BY <2>1, <2>2 DEF Start, session, request, work
<1>2. base = <<>> /\ at = <<>> /\ size = 0 /\ answer = NoAnswer
  BY <1>1 DEF IInv, Fresh
<1>3. limit' \in Nat
  <2>1. c.max \in Int /\ DefaultMax \in Nat BY FileAssumption
  <2>2. limit \in Nat BY DEF IInv, TypeOK
  <2>3. limit' = limit \/ (c.max >= 0 /\ limit' = IF c.max = 0 THEN DefaultMax ELSE c.max)
    BY DEF Start, Usable, service
  <2> QED BY <2>1, <2>2, <2>3
<1>4. \A id \in DOMAIN roots' : roots'[id] \in Seq(Proper)
  <2>1. CASE UNCHANGED roots BY <2>1 DEF IInv, TypeOK
  <2>2. CASE Usable(c)
    <3> DEFINE I == {c.roots[i].id : i \in DOMAIN c.roots}
               which(id) == CHOOSE i \in DOMAIN c.roots : c.roots[i].id = id
    <3>1. roots' = [id \in I |-> Real(disk, c.roots[which(id)].path).path]
      BY <2>2 DEF Start
    <3>2. ASSUME NEW id \in I PROVE Real(disk, c.roots[which(id)].path).path \in Seq(Proper)
      <4>1. which(id) \in DOMAIN c.roots OBVIOUS
      <4> HIDE DEF which
      <4>2. c.roots[which(id)].path \in Seq(Proper) BY <4>1, FileAssumption
      <4>3. c.roots[which(id)].path \in Seq(Name) BY <4>2, ProperSeq
      <4> QED BY <4>3, RealType DEF IInv, TypeOK
    <3> HIDE DEF I, which
    <3> QED BY <3>1, <3>2
  <2> QED BY <2>1, <2>2 DEF Start, service
<1>5. TypeOK'
  BY <1>1, <1>2, <1>3, <1>4 DEF IInv, TypeOK
<1>6. Fresh' /\ Found' /\ Kinds' /\ Answered' /\ AtRest' /\ Refused'
  BY <1>1, <1>2 DEF IInv, Fresh, Found, Kinds, Answered, AtRest, Refused
<1>7. ShownIsTrue' /\ NoneForgotten' /\ Pending'
  BY <1>1 DEF ShownIsTrue, NoneForgotten, Pending, Listing
<1>8. DocumentIsText' /\ ErrorsAreTrue'
  BY <1>1 DEF DocumentIsText, ErrorsAreTrue
<1> QED BY <1>5, <1>6, <1>7, <1>8 DEF IInv

LEMMA StartDeniedKeeps == ASSUME IInv, NEW c \in Config, StartDenied(c) PROVE IInv'
<1>1. /\ disk' = disk /\ roots' = roots /\ limit' = limit /\ listed' = listed /\ cwd' = cwd
      /\ op' = op /\ base' = base /\ want' = want /\ at' = at /\ size' = size
      /\ answer' = answer /\ calm' = calm /\ pc = "start" /\ pc' = "refused"
  BY DEF StartDenied, service, session, request, work
<1>2. refused' \in BOOLEAN /\ ~refused'
  <2>1. refused \in BOOLEAN /\ ~refused BY <1>1, Unrefused
  <2> QED BY <2>1 DEF StartDenied
<1>3. TypeOK' BY <1>1, <1>2 DEF IInv, TypeOK
<1>4. Fresh' /\ Found' /\ Kinds' /\ Answered' /\ AtRest' /\ Refused'
  BY <1>1, <1>2 DEF IInv, Fresh, Found, Kinds, Answered, AtRest, Refused
<1>5. ShownIsTrue' /\ NoneForgotten' /\ Pending' /\ DocumentIsText' /\ ErrorsAreTrue'
  BY <1>1 DEF ShownIsTrue, NoneForgotten, Pending, Listing, DocumentIsText, ErrorsAreTrue
<1> QED BY <1>3, <1>4, <1>5 DEF IInv

LEMMA AskKeeps ==
  ASSUME IInv, NEW o \in {"list", "read"}, NEW id \in RootId, NEW p \in Path, Ask(o, id, p)
  PROVE  IInv'
<1>1. /\ op' \in {"list", "read"} /\ want' \in Path \cup {Empty}
      /\ UNCHANGED <<disk, service, at, size, calm>> /\ refused' \in BOOLEAN /\ ~refused'
      /\ listed' \in BOOLEAN /\ cwd' \in Cwd \cup {Empty}
  <2>1. pc = "idle" BY DEF Ask
  <2>2. refused \in BOOLEAN /\ ~refused BY <2>1, Unrefused
  <2> QED BY <2>2 DEF Ask, session, work, IInv, TypeOK
<1>2. CASE id \in DOMAIN roots /\ base' = roots[id] /\ pc' = "resolve"
  <2>1. base' \in Seq(Proper) BY <1>2 DEF IInv, TypeOK
  <2> QED BY <1>1, <1>2, <2>1, Early
<1>3. ASSUME NEW code \in {"invalid_request", "files_disabled", "root_not_found"},
             Answer(Failed(code)), base' = base
      PROVE  IInv'
  <2>1. code \in Codes /\ answer'.code = code
    BY <1>3, FailedIs DEF Codes, Answer
  <2>2. DocumentIsText' /\ ErrorsAreTrue'
    BY <1>1, <2>1 DEF DocumentIsText, ErrorsAreTrue, RefusedIsOutside, FailsOnlyOnBadLinks,
                      RefusalIsTold, Fault
  <2> QED BY <1>1, <1>3, <2>1, <2>2, Refusal
<1> QED BY <1>2, <1>3 DEF Ask

LEMMA AskSessionKeeps ==
  ASSUME IInv, NEW o \in {"list", "read"}, NEW p \in Path, AskSession(o, p)
  PROVE  IInv'
<1>1. /\ op' \in {"list", "read"} /\ want' \in Path \cup {Empty}
      /\ UNCHANGED <<disk, service, at, size, calm>> /\ refused' \in BOOLEAN /\ ~refused'
      /\ listed' \in BOOLEAN /\ cwd' \in Cwd \cup {Empty} /\ base = <<>>
  <2>1. pc = "idle" BY DEF AskSession
  <2>2. refused \in BOOLEAN /\ ~refused BY <2>1, Unrefused
  <2> QED BY <2>1, <2>2 DEF AskSession, session, work, IInv, TypeOK, Fresh
<1>2. CASE base' = Clean(Trim(cwd).path) /\ pc' = "base"
  <2>1. cwd \in Query BY QueryIs DEF IInv, TypeOK
  <2>2. Trim(cwd).path \in Seq(Piece) BY <2>1, Trimmed
  <2>3. base' \in Seq(Proper) BY <1>2, <2>2, CleanType
  <2> QED BY <1>1, <1>2, <2>3, Early
<1>3. ASSUME NEW code \in {"not_found", "cwd_unknown", "cwd_invalid"},
             Answer(Failed(code)), base' = base
      PROVE  IInv'
  <2>1. code \in Codes /\ answer'.code = code
    BY <1>3, FailedIs DEF Codes, Answer
  <2>2. DocumentIsText'
    BY <2>1 DEF DocumentIsText
  <2>3. ErrorsAreTrue'
    BY <1>1, <1>3, <2>1 DEF ErrorsAreTrue, RefusedIsOutside, FailsOnlyOnBadLinks, RefusalIsTold,
                            Fault
  <2> QED BY <1>1, <1>3, <2>1, <2>2, <2>3, Refusal
<1> QED BY <1>2, <1>3 DEF AskSession

\* The directory of the shell cannot be found.
LEMMA BaseFails ==
  ASSUME IInv, pc \in {"base", "isdir"}, Real(disk, base).err # "nil",
         Answer(Failed(Real(disk, base).err)), UNCHANGED <<disk, service, session, request, work, calm, refused>>
  PROVE  IInv'
<1> DEFINE real == Real(disk, base)
<1>1. /\ op' \in {"list", "read"} /\ want' \in Path \cup {Empty} /\ base' = base /\ disk' = disk
      /\ UNCHANGED <<disk, service, base, at, size, calm>>
      /\ listed' \in BOOLEAN /\ cwd' \in Cwd \cup {Empty}
  BY DEF session, request, work, IInv, TypeOK
<1>2. refused' \in BOOLEAN /\ ~refused' BY Unrefused
<1>3. real.err \in {"not_found", Fault}
  <2>1. disk \in Disk /\ base \in Seq(Name) BY ProperSeq DEF IInv, TypeOK
  <2> QED BY <2>1, RealType
<1>4. real.err \in Codes BY <1>3 DEF Codes
<1>5. answer'.code = real.err BY <1>4, FailedIs DEF Answer
<1>6. DocumentIsText' BY <1>3, <1>5 DEF DocumentIsText, Fault
<1>7. Real(disk', base') = real BY <1>1
<1>8. RefusedIsOutside' BY <1>7 DEF RefusedIsOutside
<1>9. FailsOnlyOnBadLinks' BY <1>5, <1>7 DEF FailsOnlyOnBadLinks
<1>10. RefusalIsTold' BY <1>2 DEF RefusalIsTold
<1> HIDE DEF real
<1> QED BY <1>1, <1>2, <1>4, <1>6, <1>8, <1>9, <1>10, Refusal DEF ErrorsAreTrue, real

LEMMA EvalBaseKeeps == ASSUME IInv, EvalBase PROVE IInv'
<1> DEFINE real == Real(disk, base)
<1>1. /\ pc = "base" /\ UNCHANGED <<disk, service, session, op, want, work, calm, refused>>
  BY DEF EvalBase
<1>2. CASE real.err # "nil" /\ Answer(Failed(real.err)) /\ base' = base
  BY <1>1, <1>2, BaseFails DEF request
<1>3. CASE base' = real.path /\ pc' = "isdir"
  <2>1. disk \in Disk /\ base \in Seq(Name) BY ProperSeq DEF IInv, TypeOK
  <2>2. real.path \in Seq(Proper) BY <2>1, RealType
  <2>3. /\ op' \in {"list", "read"} /\ want' \in Path \cup {Empty}
        /\ UNCHANGED <<disk, service, at, size, calm>> /\ refused' \in BOOLEAN /\ ~refused'
        /\ listed' \in BOOLEAN /\ cwd' \in Cwd \cup {Empty}
    BY <1>1, Unrefused DEF session, work, IInv, TypeOK
  <2> HIDE DEF real
  <2> QED BY <1>3, <2>2, <2>3, Early
<1> QED BY <1>2, <1>3 DEF EvalBase

LEMMA StatBaseKeeps == ASSUME IInv, StatBase PROVE IInv'
<1> DEFINE real == Real(disk, base)
<1>1. /\ pc = "isdir" /\ UNCHANGED <<disk, service, session, request, work, calm, refused>>
  BY DEF StatBase
<1>2. /\ op' \in {"list", "read"} /\ want' \in Path \cup {Empty} /\ base' \in Seq(Proper)
      /\ UNCHANGED <<disk, service, base, at, size, calm>> /\ refused' \in BOOLEAN /\ ~refused'
      /\ listed' \in BOOLEAN /\ cwd' \in Cwd \cup {Empty}
  BY <1>1, Unrefused DEF session, request, work, IInv, TypeOK
<1>3. CASE real.err # "nil" /\ Answer(Failed(real.err))
  BY <1>1, <1>3, BaseFails
<1>4. CASE Answer(Failed("not_directory"))
  <2>1. "not_directory" \in Codes /\ answer'.code = "not_directory"
    BY <1>4, FailedIs DEF Codes, Answer
  <2>2. DocumentIsText' /\ ErrorsAreTrue'
    BY <1>2, <2>1 DEF DocumentIsText, ErrorsAreTrue, RefusedIsOutside, FailsOnlyOnBadLinks,
                      RefusalIsTold, Fault
  <2> QED BY <1>2, <1>4, <2>1, <2>2, Refusal
<1>5. CASE pc' = "resolve"
  BY <1>2, <1>5, Early
<1> QED BY <1>3, <1>4, <1>5 DEF StatBase

\* A plain path is looked for where it was meant.
LEMMA WantedIsTarget ==
  ASSUME IInv, Plain(want.path)
  PROVE  Wanted = Target(base, want)
<1>1. want \in Query /\ base \in Seq(Proper) BY QueryIs DEF IInv, TypeOK
<1> QED BY <1>1, PlainTarget DEF Wanted

LEMMA ResolveKeeps == ASSUME IInv, Resolve PROVE IInv'
<1> DEFINE found == ResolveBase(disk, base, want)
           target == Target(base, want)
           real == Real(disk, target)
<1>1. /\ op' \in {"list", "read"} /\ want' \in Path \cup {Empty} /\ want' = want /\ base' = base
      /\ UNCHANGED <<disk, service, base, size, calm>>
      /\ disk' = disk /\ roots' = roots /\ limit' = limit /\ op' = op /\ size' = size /\ calm' = calm
      /\ listed' \in BOOLEAN /\ cwd' \in Cwd \cup {Empty} /\ refused' \in BOOLEAN /\ ~refused'
  <2>1. pc = "resolve" BY DEF Resolve
  <2>2. refused \in BOOLEAN /\ ~refused BY <2>1, Unrefused
  <2> QED BY <2>2 DEF Resolve, session, service, request, IInv, TypeOK
<1>2. disk \in Disk /\ base \in Seq(Proper) /\ want \in Query
  BY QueryIs DEF IInv, TypeOK
<1>3. /\ found.err \in {"nil", "not_found", "forbidden", Fault}
      /\ found.err = "nil" => found = real /\ InsideRoot(base, found.path)
      /\ found.err \in {"not_found", Fault} => real.err = found.err
      /\ found.err = "forbidden" => \/ ~IsPrefix(base, target)
                                    \/ real.err = "nil" /\ ~IsPrefix(base, real.path)
  BY <1>2, ResolveIs
<1>4. Plain(want.path) => Wanted = target
  BY WantedIsTarget
<1>5. Wanted' = Wanted /\ Target(base, want)' = Target(base, want)
  BY <1>1 DEF Wanted
<1>6. target \in Seq(Name)
  BY <1>2, TargetType
<1>7. CASE found.err # "nil" /\ Answer(Failed(found.err)) /\ at' = at
  <2> HIDE DEF found, target, real
  <2>1. found.err \in Codes BY <1>3, <1>7 DEF Codes
  <2>2. answer'.code = found.err
    BY <1>7, <2>1, FailedIs DEF Answer
  <2>3. DocumentIsText'
    BY <1>3, <1>7, <2>2 DEF DocumentIsText, Fault
  <2>4. RefusedIsOutside'
    <3> SUFFICES ASSUME found.err \in {"not_found", "forbidden"}, Plain(want.path),
                        IsPrefix(base, Wanted), Real(disk, Wanted).err = "nil"
                 PROVE  ~IsPrefix(base, Real(disk, Wanted).path)
      BY <1>1, <1>5, <2>2 DEF RefusedIsOutside
    <3>1. Wanted = target BY <1>4
    <3> QED BY <1>3, <3>1 DEF real
  <2>5. FailsOnlyOnBadLinks'
    <3> SUFFICES ASSUME found.err = Fault PROVE Real(disk, Target(base, want))'.err = Fault
      BY <2>2 DEF FailsOnlyOnBadLinks
    <3> QED BY <1>1, <1>3, <1>5 DEF real, target
  <2>6. RefusalIsTold' BY <1>1 DEF RefusalIsTold
  <2> QED BY <1>1, <1>7, <2>1, <2>3, <2>4, <2>5, <2>6, Refusal DEF ErrorsAreTrue
<1>8. CASE found.err = "nil" /\ at' = found.path /\ pc' = "stat"
  <2>1. Settled(disk, found.path) /\ found.path \in Seq(Proper)
    <3>1. found = real /\ real.err = "nil" BY <1>3, <1>8
    <3> QED BY <1>2, <1>6, <3>1, RealSettled
  <2>2. InsideRoot(base, found.path) BY <1>3, <1>8
  <2> HIDE DEF found
  <2>3. TypeOK' BY <1>1, <1>8, <2>1 DEF IInv, TypeOK
  <2>4. Fresh' /\ Found' /\ AtRest' /\ Kinds' /\ Answered' /\ Refused'
    BY <1>1, <1>8, <2>1, <2>2 DEF Fresh, Found, AtRest, Kinds, Answered, Refused
  <2>5. ShownIsTrue' /\ NoneForgotten' /\ Pending' /\ DocumentIsText' /\ ErrorsAreTrue'
    BY <1>8 DEF ShownIsTrue, NoneForgotten, Pending, Listing, DocumentIsText, ErrorsAreTrue
  <2> QED BY <2>3, <2>4, <2>5 DEF IInv
<1> QED BY <1>7, <1>8 DEF Resolve

\* On a disk at rest what was resolved resolves to itself.
LEMMA StillThere ==
  ASSUME IInv, calm
  PROVE  Real(disk, at) = [path |-> at, err |-> "nil"] /\ Solid(disk, at)
BY DEF IInv, AtRest, Settled

LEMMA StatKeeps == ASSUME IInv, Stat PROVE IInv'
<1> DEFINE real == Real(disk, at)
           node == disk[real.path]
<1>1. /\ op' \in {"list", "read"} /\ want' \in Path \cup {Empty}
      /\ UNCHANGED <<disk, service, base, at, calm>>
      /\ disk' = disk /\ roots' = roots /\ limit' = limit /\ op' = op /\ calm' = calm /\ at' = at
      /\ base' = base /\ listed' \in BOOLEAN /\ cwd' \in Cwd \cup {Empty} /\ pc = "stat"
      /\ op \in {"list", "read"} /\ refused' \in BOOLEAN /\ ~refused'
  BY Unrefused DEF Stat, session, service, request, IInv, TypeOK
<1>2. disk \in Disk /\ at \in Seq(Name) /\ limit \in Nat
  BY ProperSeq DEF IInv, TypeOK
<1>3. /\ real.err \in {"nil", "not_found", Fault}
      /\ real.err = "nil" => node.kind = "dir" \/ (node.kind = "file" /\ node.size \in Nat)
  BY <1>2, RealType, SolidIs
<1>4. calm => real.err = "nil" /\ real.path = at
  BY StillThere
<1> HIDE DEF real
<1>5. ASSUME NEW code \in Codes, Answer(Failed(code)), size' = size,
             calm => code \in {"not_directory", "file_too_large"}
                     \/ (code = "not_text" /\ node.kind = "dir")
      PROVE  IInv'
  <2>1. answer'.code = code BY <1>5, FailedIs DEF Answer
  <2>2. DocumentIsText'
    BY <1>1, <1>4, <1>5, <2>1 DEF DocumentIsText
  <2>3. ErrorsAreTrue'
    BY <1>1, <1>5, <2>1 DEF ErrorsAreTrue, RefusedIsOutside, FailsOnlyOnBadLinks, RefusalIsTold,
                            Fault
  <2> QED BY <1>1, <1>5, <2>2, <2>3, Refusal
<1>6. CASE real.err # "nil" /\ Answer(Failed(real.err)) /\ size' = size
  <2>1. real.err \in Codes BY <1>3, <1>6 DEF Codes
  <2> QED BY <1>4, <1>5, <1>6, <2>1
<1>7. CASE Answer(Failed("not_directory")) /\ size' = size
  BY <1>5, <1>7 DEF Codes
<1>8. CASE node.kind = "dir" /\ Answer(Failed("not_text")) /\ size' = size
  BY <1>5, <1>8 DEF Codes
<1>9. CASE Answer(Failed("file_too_large")) /\ size' = size
  BY <1>5, <1>9 DEF Codes
<1>10. CASE /\ real.err = "nil" /\ (op = "list" => node.kind = "dir")
            /\ (op = "read" => node.kind # "dir" /\ ~(node.size > limit))
            /\ pc' = op /\ size' = SizeOf(disk, real.path)
  <2>1. size' \in 0..limit /\ (op = "read" => node.kind = "file" /\ node.size <= limit /\ size' = node.size)
    BY <1>1, <1>2, <1>3, <1>10 DEF SizeOf
  <2>2. TypeOK' BY <1>1, <1>10, <2>1 DEF IInv, TypeOK
  <2>3. Fresh' /\ Found' /\ AtRest' /\ Refused'
    BY <1>1, <1>10 DEF IInv, Fresh, Found, AtRest, Refused
  <2>4. Kinds' BY <1>1, <1>4, <1>10, <2>1 DEF Kinds
  <2>5. Answered' /\ ShownIsTrue' /\ NoneForgotten' /\ Pending' /\ DocumentIsText' /\ ErrorsAreTrue'
    BY <1>1, <1>10 DEF Answered, ShownIsTrue, NoneForgotten, Pending, Listing, DocumentIsText, ErrorsAreTrue
  <2> QED BY <2>2, <2>3, <2>4, <2>5 DEF IInv
<1> QED
  BY <1>1, <1>6, <1>7, <1>8, <1>9, <1>10 DEF Stat, real

\* decodeText returns text or nothing, and where the bytes tell what they were written as, what
\* they are in that encoding.
LEMMA DecodeIs ==
  ASSUME NEW f, IsFile(f)
  PROVE  /\ DecodeText(f) # NotText => LooksLikeText(DecodeText(f).text)
         /\ f.written # "none" /\ Telling(f) =>
              IF LooksLikeText(f.as[f.written])
                THEN DecodeText(f) = [text |-> f.as[f.written], encoding |-> f.written]
                ELSE DecodeText(f) = NotText
<1>1. \A e : ReadAs(f, e) # NotText =>
        LooksLikeText(f.as[e]) /\ ReadAs(f, e) = [text |-> f.as[e], encoding |-> e]
  BY DEF ReadAs
<1>2. ASSUME DecodeText(f) # NotText PROVE LooksLikeText(DecodeText(f).text)
  <2>1. PICK e : DecodeText(f) = ReadAs(f, e)
    BY <1>2 DEF DecodeText, Guess
  <2> QED BY <1>1, <1>2, <2>1
<1>3. ASSUME f.written # "none", Telling(f)
      PROVE  DecodeText(f) = IF LooksLikeText(f.as[f.written])
                               THEN [text |-> f.as[f.written], encoding |-> f.written] ELSE NotText
  <2>1. f.written \in DOMAIN f.as BY <1>3 DEF IsFile
  <2>2. ReadAs(f, f.written) = IF LooksLikeText(f.as[f.written])
                                 THEN [text |-> f.as[f.written], encoding |-> f.written] ELSE NotText
    BY <2>1 DEF ReadAs
  <2>3. CASE f.written = f.mark
    BY <1>3, <2>2, <2>3 DEF DecodeText
  <2>4. CASE /\ f.mark = "none" /\ f.written \in {"utf-8", "shift_jis"}
             /\ f.written = "shift_jis" => "utf-8" \notin DOMAIN f.as
    <3>1. DecodeText(f) = Guess(f) BY <2>4 DEF DecodeText
    <3>2. CASE f.nul
      <4>1. "nul" \in f.as[f.written] BY <2>1, <2>4, <3>2 DEF IsFile
      <4>2. ~LooksLikeText(f.as[f.written]) BY <4>1 DEF LooksLikeText
      <4> QED BY <3>1, <3>2, <4>2 DEF Guess
    <3>3. CASE ~f.nul
      BY <2>1, <2>2, <2>4, <3>1, <3>3 DEF Guess
    <3> QED BY <3>2, <3>3
  <2> QED BY <1>3, <2>3, <2>4 DEF Telling
<1> QED BY <1>2, <1>3

LEMMA ReadFileKeeps == ASSUME IInv, ReadFile PROVE IInv'
<1> DEFINE real == Real(disk, at)
<1>1. /\ op' \in {"list", "read"} /\ want' \in Path \cup {Empty}
      /\ UNCHANGED <<disk, service, base, at, size, calm>>
      /\ disk' = disk /\ roots' = roots /\ limit' = limit /\ op' = op /\ calm' = calm /\ at' = at
      /\ base' = base /\ size' = size /\ listed' \in BOOLEAN /\ cwd' \in Cwd \cup {Empty}
      /\ pc = "read" /\ op = "read" /\ refused' \in BOOLEAN /\ ~refused'
  BY Unrefused DEF ReadFile, session, service, request, work, IInv, TypeOK, Kinds
<1> DEFINE f == disk[at]
<1>2. calm => /\ real.err = "nil" /\ real.path = at /\ f.kind = "file" /\ IsFile(f)
              /\ f.size <= limit /\ size = f.size
  <2> SUFFICES ASSUME calm PROVE <1>2!2
    OBVIOUS
  <2>1. real.err = "nil" /\ real.path = at /\ Solid(disk, at) BY StillThere
  <2>2. f.kind = "file" /\ f.size <= limit /\ size = f.size BY <1>1 DEF IInv, Kinds
  <2>3. IsFile(f) BY <2>1, <2>2, SolidIs DEF IInv, TypeOK
  <2> QED BY <2>1, <2>2, <2>3
<1> HIDE DEF real
<1> DEFINE text == DecodeText(disk[real.path])
<1>3. calm => /\ text # NotText => LooksLikeText(text.text)
              /\ f.written # "none" /\ Telling(f) =>
                   IF LooksLikeText(f.as[f.written])
                     THEN text = [text |-> f.as[f.written], encoding |-> f.written]
                     ELSE text = NotText
  BY <1>2, DecodeIs
<1>4. ASSUME NEW code \in Codes, Answer(Failed(code)),
             calm => code = "not_text" /\ text = NotText
      PROVE  IInv'
  <2>1. answer'.code = code /\ code # "ok" BY <1>4, FailedIs DEF Answer
  <2>2. DocumentIsText'
    <3>1. calm /\ f.written # "none" /\ Telling(f) => ~LooksLikeText(f.as[f.written])
      <4>1. ASSUME NEW x, NEW e \in Encoding PROVE [text |-> x, encoding |-> e] # NotText
        <5>1. [text |-> x, encoding |-> e].encoding # NotText.encoding BY DEF NotText, Encoding
        <5> QED BY <5>1
      <4>2. calm /\ f.written # "none" => f.written \in Encoding BY <1>2 DEF IsFile
      <4> HIDE DEF text, f
      <4> QED BY <1>3, <1>4, <4>1, <4>2
    <3> HIDE DEF text
    <3> QED BY <1>1, <1>4, <2>1, <3>1 DEF DocumentIsText, Telling
  <2>3. ErrorsAreTrue'
    BY <1>1, <1>4, <2>1 DEF ErrorsAreTrue, RefusedIsOutside, FailsOnlyOnBadLinks, RefusalIsTold,
                            Fault
  <2> QED BY <1>1, <1>4, <2>2, <2>3, Refusal
<1>5. CASE (real.err # "nil" \/ disk[real.path].kind = "dir") /\ Answer(Failed(Fault))
  <2>1. ~calm BY <1>2, <1>5
  <2> QED BY <1>4, <1>5, <2>1 DEF Codes
<1>6. CASE text = NotText /\ Answer(Failed("not_text"))
  BY <1>4, <1>6 DEF Codes
<1>7. CASE /\ text # NotText
           /\ Answer([status |-> 200, code |-> "ok", path |-> Rel(base, at), size |-> size,
                      encoding |-> text.encoding, content |-> text.text])
  <2> HIDE DEF text
  <2>1. /\ pc' = "done" /\ answer'.code = "ok" /\ answer'.path = Rel(base, at)
        /\ answer'.size = size /\ answer'.content = text.text /\ answer'.status = 200
        /\ answer'.encoding = text.encoding
    BY <1>7 DEF Answer
  <2>2. TypeOK' BY <1>1, <2>1 DEF IInv, TypeOK
  <2>3. Fresh' /\ Found' /\ AtRest' /\ Kinds' /\ Refused'
    BY <1>1, <2>1 DEF IInv, Fresh, Found, AtRest, Kinds, Refused
  <2>4. Answered'
    BY <1>1, <2>1 DEF IInv, Answered, Found
  <2>5. ~Listing' BY <1>1, <2>1 DEF Listing
  <2>6. ShownIsTrue' /\ NoneForgotten' /\ Pending'
    BY <2>1, <2>5 DEF ShownIsTrue, NoneForgotten, Pending
  <2>7. DocumentIsText'
    <3>1. calm /\ f.written # "none" /\ Telling(f) =>
            /\ LooksLikeText(f.as[f.written]) /\ text.text = f.as[f.written]
            /\ text.encoding = f.written
      BY <1>3, <1>7
    <3>2. calm => /\ LooksLikeText(text.text) /\ f.size <= limit /\ size = f.size
      BY <1>2, <1>3, <1>7
    <3>3. /\ disk[at]' = f /\ limit' = limit /\ calm' = calm /\ (Telling(f)' <=> Telling(f))
      BY <1>1 DEF Telling
    <3> HIDE DEF f
    <3> QED BY <2>1, <3>1, <3>2, <3>3 DEF DocumentIsText, Telling, f
  <2>8. ErrorsAreTrue'
    BY <1>1, <2>1 DEF ErrorsAreTrue, RefusedIsOutside, FailsOnlyOnBadLinks, RefusalIsTold, Fault
  <2> QED BY <2>2, <2>3, <2>4, <2>6, <2>7, <2>8 DEF IInv
<1> QED BY <1>5, <1>6, <1>7 DEF ReadFile, real

\* What is said of a directory is the same as long as the disk and the request are.
LEMMA SameDirectory ==
  ASSUME disk' = disk, base' = base, at' = at
  PROVE  /\ \A n : Item(n)' = Item(n) /\ Leads(n)' = Leads(n) /\ (Reached(n)' <=> Reached(n))
         /\ \A e : Shown(e)' <=> Shown(e)
         /\ Names(disk, at)' = Names(disk, at)
<1>1. ASSUME NEW n PROVE Item(n)' = Item(n) /\ Leads(n)' = Leads(n)
  BY DEF Item, Leads
<1>2. ASSUME NEW n PROVE Reached(n)' <=> Reached(n)
  BY <1>1 DEF Reached
<1>3. ASSUME NEW e PROVE Shown(e)' <=> Shown(e)
  <2>1. Item(e.name)' = Item(e.name) /\ Leads(e.name)' = Leads(e.name)
        /\ (Reached(e.name)' <=> Reached(e.name))
    BY <1>1, <1>2
  <2> QED BY <2>1 DEF Shown
<1> QED BY <1>1, <1>2, <1>3

LEMMA ReadDirKeeps == ASSUME IInv, ReadDir PROVE IInv'
<1> DEFINE real == Real(disk, at)
<1>1. /\ op' \in {"list", "read"} /\ want' \in Path \cup {Empty}
      /\ UNCHANGED <<disk, service, base, at, size, calm>>
      /\ disk' = disk /\ roots' = roots /\ limit' = limit /\ op' = op /\ calm' = calm /\ at' = at
      /\ base' = base /\ size' = size /\ listed' \in BOOLEAN /\ cwd' \in Cwd \cup {Empty}
      /\ pc = "list" /\ op = "list" /\ refused' \in BOOLEAN /\ ~refused'
  BY Unrefused DEF ReadDir, session, service, request, IInv, TypeOK, Kinds
<1>2. calm => real.err = "nil" /\ real.path = at /\ disk[at].kind = "dir"
  BY <1>1, StillThere DEF IInv, Kinds
<1> HIDE DEF real
<1>3. CASE (real.err # "nil" \/ disk[real.path].kind # "dir") /\ Answer(Failed(Fault))
  <2>1. ~calm BY <1>2, <1>3
  <2>2. DocumentIsText' /\ ErrorsAreTrue'
    BY <1>1, <2>1 DEF DocumentIsText, ErrorsAreTrue
  <2> QED BY <1>1, <1>3, <2>2, Refusal DEF Codes
<1>4. CASE todo' = Names(disk, real.path) /\ entries' = {} /\ pc' = "entry"
  <2>1. TypeOK' BY <1>1, <1>4 DEF IInv, TypeOK
  <2>2. Fresh' /\ Found' /\ AtRest' /\ Kinds' /\ Answered' /\ Refused'
    BY <1>1, <1>2, <1>4 DEF IInv, Fresh, Found, AtRest, Kinds, Answered, Refused
  <2>3. calm => todo' = Names(disk, at)' BY <1>1, <1>2, <1>4
  <2>4. ShownIsTrue' /\ NoneForgotten'
    BY <1>1, <1>4, <2>3 DEF ShownIsTrue, NoneForgotten
  <2>5. Pending' /\ DocumentIsText' /\ ErrorsAreTrue'
    BY <1>4 DEF Pending, DocumentIsText, ErrorsAreTrue
  <2> QED BY <2>1, <2>2, <2>4, <2>5 DEF IInv
<1> QED BY <1>3, <1>4 DEF ReadDir, real

LEMMA EntryKeeps == ASSUME IInv, NEW name \in todo, Entry(name) PROVE IInv'
<1> DEFINE path  == Append(Rel(base, at), name)
           r     == [abs |-> FALSE, path |-> path]
           found == ResolveBase(disk, base, r)
           real  == Real(disk, Target(base, r))
<1>1. /\ op' \in {"list", "read"} /\ want' \in Path \cup {Empty}
      /\ UNCHANGED <<disk, service, base, at, size, calm>>
      /\ disk' = disk /\ roots' = roots /\ limit' = limit /\ op' = op /\ calm' = calm /\ at' = at
      /\ base' = base /\ size' = size /\ entries' = entries /\ todo' = todo \ {name}
      /\ listed' \in BOOLEAN /\ cwd' \in Cwd \cup {Empty} /\ refused' = refused
      /\ pc = "entry" /\ op = "list" /\ refused' \in BOOLEAN
  BY DEF Entry, session, service, request, IInv, TypeOK, Kinds
<1>2. disk \in Disk /\ base \in Seq(Proper) /\ at \in Seq(Proper) /\ IsPrefix(base, at)
  BY <1>1 DEF IInv, TypeOK, Found, InsideRoot
<1>3. calm => todo \subseteq Names(disk, at) /\ name \in Names(disk, at) /\ \A e \in entries : Shown(e)
  BY <1>1 DEF IInv, ShownIsTrue, Listing
<1>4. /\ \A n : Item(n)' = Item(n) /\ Leads(n)' = Leads(n) /\ (Reached(n)' <=> Reached(n))
      /\ \A e : Shown(e)' <=> Shown(e)
      /\ Names(disk, at)' = Names(disk, at)
  BY <1>1, SameDirectory
<1>5. calm => /\ r \in Query /\ (Plain(path) => Target(base, r) = Append(at, name))
              /\ found.err \in {"nil", "not_found", "forbidden", Fault}
              /\ found.err = "nil" => found = real /\ InsideRoot(base, found.path)
              /\ found.err \in {"not_found", Fault} => real.err = found.err
              /\ found.err = "forbidden" => \/ ~IsPrefix(base, Target(base, r))
                                            \/ real.err = "nil" /\ ~IsPrefix(base, real.path)
  <2> SUFFICES ASSUME calm PROVE <1>5!2
    OBVIOUS
  <2>1. r \in Query /\ (Plain(path) => Target(base, r) = Append(at, name))
    BY <1>2, <1>3, ItemTarget
  <2> QED BY <1>2, <2>1, ResolveIs
<1>6. IsPrefix(base, Append(at, name))
  BY <1>2, RelBack
<1>7. ASSUME calm, found.err \in {"forbidden", "not_found"}, Plain(Item(name)), Reached(name)
      PROVE  FALSE
  <2>1. Target(base, r) = Append(at, name)
    BY <1>5, <1>7 DEF Item
  <2>2. real = Leads(name) BY <2>1 DEF Leads
  <2> HIDE DEF real, found
  <2> QED BY <1>5, <1>6, <1>7, <2>1, <2>2 DEF Reached, Fault
<1>8. CASE found.err = Fault /\ Answer(Failed(Fault))
  <2>1. answer'.code = Fault /\ Fault \in Codes BY <1>8, FailedIs DEF Answer, Codes
  <2>2. DocumentIsText' BY <1>1 DEF DocumentIsText
  <2>3. RefusedIsOutside' BY <2>1 DEF RefusedIsOutside, Fault
  <2>4. calm => FailsOnlyOnBadLinks'
    <3> SUFFICES ASSUME calm PROVE FailsOnlyOnBadLinks'
      OBVIOUS
    <3>1. real.err = Fault BY <1>5, <1>8
    <3>2. real' = real BY <1>1
    <3>3. /\ op' = "list" /\ name \in Names(disk, at)'
          /\ Real(disk, Target(base, [abs |-> FALSE, path |-> Append(Rel(base, at), name)]))'.err = Fault
      BY <1>1, <1>3, <1>4, <3>1, <3>2
    <3> QED BY <3>3 DEF FailsOnlyOnBadLinks
  <2>5. ErrorsAreTrue' BY <1>1, <2>1, <2>3, <2>4 DEF ErrorsAreTrue, RefusalIsTold
  <2> QED BY <1>1, <1>8, <2>1, <2>2, <2>5, Refusal
<1>9. CASE \/ found.err \in {"forbidden", "not_found"} /\ UNCHANGED <<pc, child, answer>>
           \/ /\ found.err = "nil" /\ pc' = "child" /\ UNCHANGED answer
              /\ child' = [name |-> name, path |-> path, real |-> found.path]
  <2>1. pc' \in {"entry", "child"} BY <1>1, <1>9
  <2>2. TypeOK' BY <1>1, <2>1 DEF IInv, TypeOK
  <2>3. Fresh' /\ Found' /\ AtRest' /\ Kinds' /\ Answered' /\ Refused'
    BY <1>1, <2>1 DEF IInv, Fresh, Found, AtRest, Kinds, Answered, Refused
  <2>4. ShownIsTrue'
    BY <1>1, <1>3, <1>4 DEF ShownIsTrue
  <2>5. NoneForgotten'
    <3> SUFFICES ASSUME calm, NEW n \in Names(disk, at), n \notin todo \ {name}, Plain(Item(n)),
                        Reached(n)
                 PROVE  \/ (\E e \in entries : e.name = n) \/ (pc' = "child" /\ child'.name = n)
                        \/ refused
      BY <1>1, <1>4 DEF NoneForgotten
    <3>1. CASE n = name
      <4>1. ~(found.err \in {"forbidden", "not_found"}) BY <1>7, <3>1
      <4>2. child' = [name |-> name, path |-> path, real |-> found.path] /\ pc' = "child"
        BY <1>9, <4>1
      <4> HIDE DEF found, path
      <4> QED BY <3>1, <4>2
    <3>2. CASE n # name
      BY <1>1, <3>2 DEF IInv, NoneForgotten, Listing
    <3> QED BY <3>1, <3>2
  <2>6. Pending'
    <3> SUFFICES ASSUME calm, pc' = "child" PROVE Pending'
      BY <1>1 DEF Pending
    <3>1. /\ found.err = "nil" /\ child' = [name |-> name, path |-> path, real |-> found.path]
      BY <1>1, <1>9
    <3>2. child'.name = name /\ child'.path = path /\ child'.real = found.path
      <4> HIDE DEF found, path
      <4> QED BY <3>1
    <3>3. found = real /\ InsideRoot(base, found.path) BY <1>5, <3>1
    <3>4. Settled(disk, found.path) /\ found = [path |-> found.path, err |-> "nil"]
      <4>1. Target(base, r) \in Seq(Name) BY <1>2, <1>5, TargetType
      <4>2. real.err = "nil" BY <3>1, <3>3
      <4> QED BY <1>2, <3>3, <4>1, <4>2, RealSettled
    <3>5. Plain(path) => Leads(name) = real BY <1>5 DEF Leads
    <3>6. path = Item(name) BY DEF Item
    <3> HIDE DEF found, path, real
    <3>7. Leads(name)' = Leads(name) /\ Item(name)' = Item(name) BY <1>4
    <3> QED BY <1>1, <1>3, <1>4, <3>2, <3>3, <3>4, <3>5, <3>6, <3>7 DEF Pending, InsideRoot
  <2>7. DocumentIsText' /\ ErrorsAreTrue'
    BY <2>1 DEF DocumentIsText, ErrorsAreTrue
  <2> QED BY <2>2, <2>3, <2>4, <2>5, <2>6, <2>7 DEF IInv
<1> QED BY <1>8, <1>9 DEF Entry, JoinRelative

LEMMA StatChildKeeps == ASSUME IInv, StatChild PROVE IInv'
<1> DEFINE real == Real(disk, child.real)
           entry == [name |-> child.name, path |-> child.path,
                     type |-> IF disk[real.path].kind = "dir" THEN "directory" ELSE "file"]
<1>1. /\ disk' = disk /\ roots' = roots /\ limit' = limit /\ op' = op /\ calm' = calm /\ at' = at
      /\ base' = base /\ size' = size /\ todo' = todo /\ answer' = answer /\ want' = want
      /\ listed' = listed /\ cwd' = cwd /\ pc = "child" /\ pc' = "entry" /\ refused' = refused
      /\ IF real.err # "nil" THEN entries' = entries ELSE entries' = entries \cup {entry}
  BY DEF StatChild, session, service, request
<1>2. TypeOK' BY <1>1 DEF IInv, TypeOK
<1>3. Fresh' /\ Found' /\ AtRest' /\ Kinds' /\ Answered' /\ Refused'
  BY <1>1 DEF IInv, Fresh, Found, AtRest, Kinds, Answered, Refused
<1>4. /\ \A n : Item(n)' = Item(n) /\ Leads(n)' = Leads(n) /\ (Reached(n)' <=> Reached(n))
      /\ \A e : Shown(e)' <=> Shown(e)
      /\ Names(disk, at)' = Names(disk, at)
  BY <1>1, SameDirectory
<1>5. ASSUME calm
      PROVE  entries' = entries \cup {entry} /\ entry.name = child.name /\ Shown(entry)
  <2>1. /\ child.name \in Names(disk, at) /\ child.path = Item(child.name)
        /\ Real(disk, child.real) = [path |-> child.real, err |-> "nil"]
        /\ IsPrefix(base, child.real)
        /\ Plain(child.path) => Leads(child.name) = [path |-> child.real, err |-> "nil"]
    BY <1>1, <1>5 DEF IInv, Pending, Settled
  <2>2. real.err = "nil" /\ real.path = child.real BY <2>1
  <2>3. entry.name = child.name /\ entry.path = child.path /\ entry.type = Type(disk, child.real)
    BY <2>2 DEF Type
  <2>4. entries' = entries \cup {entry} BY <1>1, <2>2
  <2> HIDE DEF entry, real
  <2>5. Plain(child.path) => Reached(child.name) /\ Leads(child.name).path = child.real
    BY <2>1 DEF Reached
  <2> QED BY <2>1, <2>3, <2>4, <2>5 DEF Shown
<1> HIDE DEF real, entry
<1>6. calm => todo \subseteq Names(disk, at) /\ \A e \in entries : Shown(e)
  BY <1>1 DEF IInv, ShownIsTrue, Listing
<1>7. ShownIsTrue'
  BY <1>1, <1>4, <1>5, <1>6 DEF ShownIsTrue
<1>8. NoneForgotten'
  <2> SUFFICES ASSUME calm, NEW n \in Names(disk, at) \ todo, Plain(Item(n)), Reached(n)
               PROVE  (\E e \in entries' : e.name = n) \/ refused
    BY <1>1, <1>4 DEF NoneForgotten
  <2>1. (\E e \in entries : e.name = n) \/ child.name = n \/ refused
    BY <1>1 DEF IInv, NoneForgotten, Listing
  <2> QED BY <1>5, <2>1
<1>9. Pending' /\ DocumentIsText' /\ ErrorsAreTrue'
  BY <1>1 DEF Pending, DocumentIsText, ErrorsAreTrue
<1> QED BY <1>2, <1>3, <1>7, <1>8, <1>9 DEF IInv

LEMMA ChildDeniedKeeps == ASSUME IInv, ChildDenied PROVE IInv'
<1>1. /\ disk' = disk /\ roots' = roots /\ limit' = limit /\ op' = op /\ calm' = calm /\ at' = at
      /\ base' = base /\ size' = size /\ todo' = todo /\ answer' = answer /\ want' = want
      /\ listed' = listed /\ cwd' = cwd /\ pc = "child" /\ pc' = "entry" /\ refused' = TRUE
      /\ entries' = entries
  BY DEF ChildDenied, session, service, request
<1>2. TypeOK' BY <1>1 DEF IInv, TypeOK
<1>3. Fresh' /\ Found' /\ AtRest' /\ Kinds' /\ Answered' /\ Refused'
  BY <1>1 DEF IInv, Fresh, Found, AtRest, Kinds, Answered, Refused
<1>4. (\A e : Shown(e)' <=> Shown(e)) /\ Names(disk, at)' = Names(disk, at)
  BY <1>1, SameDirectory
<1>5. ShownIsTrue'
  BY <1>1, <1>4 DEF IInv, ShownIsTrue, Listing
<1>6. NoneForgotten' BY <1>1 DEF NoneForgotten
<1>7. Pending' /\ DocumentIsText' /\ ErrorsAreTrue'
  BY <1>1 DEF Pending, DocumentIsText, ErrorsAreTrue
<1> QED BY <1>2, <1>3, <1>5, <1>6, <1>7 DEF IInv

\* The system refuses a call, and the request ends with that.
LEMMA DeniedKeeps ==
  ASSUME IInv, Denied \/ \E name \in todo : EntryDenied(name)
  PROVE  IInv'
<1>1. /\ Answer(Failed(Fault)) /\ refused' = TRUE
      /\ UNCHANGED <<disk, service, session, request, at, size, calm>>
  BY DEF Denied, EntryDenied, work
<1>2. /\ op' \in {"list", "read"} /\ want' \in Path \cup {Empty}
      /\ UNCHANGED <<disk, service, base, at, size, calm>> /\ refused' \in BOOLEAN
      /\ listed' \in BOOLEAN /\ cwd' \in Cwd \cup {Empty}
  BY <1>1 DEF session, request, IInv, TypeOK
<1>3. Fault \in Codes /\ answer'.code = Fault
  BY <1>1, FailedIs DEF Codes, Answer
<1>4. DocumentIsText' /\ ErrorsAreTrue'
  BY <1>1, <1>3 DEF DocumentIsText, ErrorsAreTrue, RefusedIsOutside, FailsOnlyOnBadLinks,
                    RefusalIsTold, Fault
<1> QED BY <1>1, <1>2, <1>3, <1>4, Refusal

LEMMA ListDoneKeeps == ASSUME IInv, ListDone PROVE IInv'
<1>1. /\ disk' = disk /\ roots' = roots /\ limit' = limit /\ op' = op /\ calm' = calm /\ at' = at
      /\ base' = base /\ size' = size /\ todo' = todo /\ want' = want /\ entries' = entries
      /\ listed' = listed /\ cwd' = cwd /\ pc = "entry" /\ todo = {} /\ refused' = refused
  BY DEF ListDone, session, service, request, work
<1>2. PICK list \in Sorted(entries) :
        Answer([status |-> 200, code |-> "ok", path |-> Rel(base, at), entries |-> list])
  BY DEF ListDone
<1>3. /\ pc' = "done" /\ answer'.code = "ok" /\ answer'.path = Rel(base, at)
      /\ answer'.entries = list /\ answer'.status = 200
  BY <1>2 DEF Answer
<1>4. ToSet(list) = entries BY DEF Sorted
<1>5. op = "list" BY <1>1 DEF IInv, Kinds
<1>6. TypeOK' BY <1>1, <1>3 DEF IInv, TypeOK
<1>7. Fresh' /\ Found' /\ AtRest' /\ Kinds' /\ Refused'
  BY <1>1, <1>3 DEF IInv, Fresh, Found, AtRest, Kinds, Refused
<1>8. Answered' BY <1>1, <1>3, <1>4 DEF IInv, Answered, Found
<1>9. /\ \A n : Item(n)' = Item(n) /\ Leads(n)' = Leads(n) /\ (Reached(n)' <=> Reached(n))
      /\ \A e : Shown(e)' <=> Shown(e)
      /\ Names(disk, at)' = Names(disk, at)
  BY <1>1, SameDirectory
<1>10. ShownIsTrue' /\ NoneForgotten'
  BY <1>1, <1>9 DEF IInv, ShownIsTrue, NoneForgotten, Listing
<1>11. Pending' /\ DocumentIsText' /\ ErrorsAreTrue'
  BY <1>1, <1>3, <1>5 DEF Pending, DocumentIsText, ErrorsAreTrue, RefusedIsOutside,
                          FailsOnlyOnBadLinks, RefusalIsTold, Fault
<1> QED BY <1>6, <1>7, <1>8, <1>10, <1>11 DEF IInv

LEMMA SentKeeps == ASSUME IInv, Sent PROVE IInv'
<1>1. /\ disk' = disk /\ roots' = roots /\ limit' = limit /\ op' = op
      /\ listed' = listed /\ cwd' = cwd /\ pc' = "idle" /\ answer' = NoAnswer /\ base' = <<>>
      /\ want' = Empty /\ at' = <<>> /\ size' = 0 /\ calm' = TRUE /\ refused' \in BOOLEAN /\ ~refused'
  BY DEF Sent, service, session
<1>2. disk \in Disk /\ limit \in Nat BY DEF IInv, TypeOK
<1>3. <<>> \in Seq(Proper) BY EmptySeq
<1>4. 0 \in 0..limit BY <1>2
<1>5. TypeOK' BY <1>1, <1>3, <1>4 DEF IInv, TypeOK
<1>6. Settled(disk', at')
  <2>1. Settled(disk, <<>>) BY <1>2, EmptySettled
  <2> QED BY <1>1, <2>1
<1>7. Fresh' /\ Found' /\ AtRest' /\ Kinds' /\ Answered' /\ Refused'
  BY <1>1, <1>6 DEF Fresh, Found, AtRest, Kinds, Answered, Refused
<1>8. ShownIsTrue' /\ NoneForgotten' /\ Pending' /\ DocumentIsText' /\ ErrorsAreTrue'
  BY <1>1 DEF ShownIsTrue, NoneForgotten, Pending, Listing, DocumentIsText, ErrorsAreTrue
<1> QED BY <1>5, <1>7, <1>8 DEF IInv

LEMMA DiskChangeKeeps == ASSUME IInv, NEW d \in Disk, DiskChange(d) PROVE IInv'
<1>1. /\ disk' = d /\ roots' = roots /\ limit' = limit /\ pc' = pc /\ op' = op
      /\ base' = base /\ want' = want /\ at' = at /\ size' = size /\ todo' = todo
      /\ child' = child /\ entries' = entries /\ answer' = answer /\ listed' = listed /\ cwd' = cwd
      /\ refused' = refused /\ calm' = (pc \in {"start", "idle"})
  BY DEF DiskChange, service, request, work, session
<1>2. TypeOK'
  <2>1. calm' \in BOOLEAN BY <1>1
  <2> QED BY <1>1, <2>1 DEF IInv, TypeOK
<1>3. Fresh' /\ Found' /\ Answered' /\ Refused'
  BY <1>1 DEF IInv, Fresh, Found, Answered, Refused
<1>4. AtRest'
  <2> SUFFICES ASSUME calm' PROVE Settled(disk', at')
    BY DEF AtRest
  <2>1. at = <<>> BY <1>1 DEF IInv, Fresh
  <2>2. Settled(d, <<>>) BY EmptySettled
  <2> QED BY <1>1, <2>1, <2>2
<1>5. Kinds' BY <1>1 DEF IInv, Kinds
<1>6. ShownIsTrue' /\ NoneForgotten' /\ Pending' /\ DocumentIsText' /\ ErrorsAreTrue'
  BY <1>1 DEF ShownIsTrue, NoneForgotten, Pending, Listing, DocumentIsText, ErrorsAreTrue
<1> QED BY <1>2, <1>3, <1>4, <1>5, <1>6 DEF IInv

(* Every step of the service, the disk, the shell and the session keeps    *)
(* the invariant: fileapi.Service and the file handlers of server.go.      *)
THEOREM Inductive == IInv /\ [Next]_vars => IInv'
<1> SUFFICES ASSUME IInv, [Next]_vars PROVE IInv'
  OBVIOUS
<1>1. CASE UNCHANGED vars
  BY <1>1, Quiet DEF vars, session, IInv, TypeOK
<1>2. ASSUME NEW c \in Config, Start(c) \/ StartDenied(c) PROVE IInv'
  BY <1>2, StartKeeps, StartDeniedKeeps
<1>3. ASSUME NEW d \in Disk, DiskChange(d) PROVE IInv'
  BY <1>3, DiskChangeKeeps
<1>4. ASSUME NEW c \in Cwd, Report(c) PROVE IInv'
  BY <1>4, Quiet DEF Report, IInv, TypeOK
<1>5. CASE SessionEnds
  <2>1. UNCHANGED <<disk, service, pc, request, work, answer, calm, refused>>
    BY <1>5 DEF SessionEnds
  <2>2. listed' = FALSE /\ cwd' = cwd
    BY <1>5 DEF SessionEnds
  <2>3. cwd \in Cwd \cup {Empty}
    BY DEF IInv, TypeOK
  <2> QED BY <2>1, <2>2, <2>3, Quiet
<1>6. ASSUME NEW o \in {"list", "read"}, NEW p \in Path, AskSession(o, p) PROVE IInv'
  BY <1>6, AskSessionKeeps
<1>7. ASSUME NEW o \in {"list", "read"}, NEW p \in Path, NEW id \in RootId, Ask(o, id, p) PROVE IInv'
  BY <1>7, AskKeeps
<1>8. ASSUME NEW name \in todo, Entry(name) \/ EntryDenied(name) PROVE IInv'
  BY <1>8, EntryKeeps, DeniedKeeps
<1>9. CASE \/ EvalBase \/ StatBase \/ Resolve \/ Stat \/ ReadFile \/ ReadDir \/ StatChild \/ ListDone
           \/ Sent \/ Denied \/ ChildDenied
  BY <1>9, EvalBaseKeeps, StatBaseKeeps, ResolveKeeps, StatKeeps, ReadFileKeeps, ReadDirKeeps,
     StatChildKeeps, ListDoneKeeps, SentKeeps, DeniedKeeps, ChildDeniedKeeps
<1> QED BY <1>1, <1>2, <1>3, <1>4, <1>5, <1>6, <1>7, <1>8, <1>9 DEF Next, Serve

(* The invariant of a request on its way (fileapi/service.go) holds        *)
(* throughout.                                                             *)
THEOREM Invariance == Spec => []IInv
BY Initially, Inductive, PTL DEF Spec

-----------------------------------------------------------------------------
(* What follows from it.                                                   *)
LEMMA AnswerIs ==
  ASSUME IInv, pc = "done", answer.code = "ok"
  PROVE  /\ disk \in Disk /\ base \in Seq(Proper) /\ at \in Seq(Proper) /\ IsPrefix(base, at)
         /\ answer.path = Rel(base, at) /\ base \o answer.path = at
         /\ \A n : Append(base \o answer.path, n) = Append(at, n) /\ Append(answer.path, n) = Item(n)
<1>1. /\ disk \in Disk /\ base \in Seq(Proper) /\ at \in Seq(Proper) /\ IsPrefix(base, at)
      /\ answer.path = Rel(base, at)
  BY DEF IInv, TypeOK, Answered, InsideRoot
<1> QED BY <1>1, RelBack DEF Item

LEMMA ListingFollows == ASSUME IInv PROVE ListingIsTrue
<1> SUFFICES ASSUME Done("list", "ok"), NEW name \in Names(disk, base \o answer.path),
                    Plain(Append(answer.path, name))
             PROVE  LET real  == Real(disk, Child(name))
                        shown == {e \in ToSet(answer.entries) : e.name = name}
                    IN IF real.err = "nil" /\ IsPrefix(base, real.path)
                         THEN \/ {e.type : e \in shown} =
                                   {IF disk[real.path].kind = "dir" THEN "directory" ELSE "file"}
                              \/ refused /\ shown = {}
                         ELSE shown = {}
  BY DEF ListingIsTrue
<1> DEFINE shown == {e \in ToSet(answer.entries) : e.name = name}
<1>1. pc = "done" /\ calm /\ op = "list" /\ answer.code = "ok" /\ Listing
  BY DEF Done, Listing
<1>2. base \o answer.path = at /\ Child(name) = Append(at, name) /\ Append(answer.path, name) = Item(name)
  BY <1>1, AnswerIs DEF Child
<1>3. ToSet(answer.entries) = entries /\ todo = {}
  BY <1>1 DEF IInv, Answered
<1>4. \A e \in entries : Shown(e)
  BY <1>1 DEF IInv, ShownIsTrue
<1>5. ASSUME NEW e \in shown
      PROVE  Reached(name) /\ e.type = Type(disk, Leads(name).path)
  BY <1>2, <1>3, <1>4 DEF Shown
<1>6. Reached(name) => refused \/ \E e \in shown : e.name = name
  BY <1>1, <1>2, <1>3 DEF IInv, NoneForgotten
<1>7. Real(disk, Child(name)) = Leads(name)
  BY <1>2 DEF Leads
<1> HIDE DEF shown
<1>8. CASE Reached(name)
  <2>1. CASE shown = {}
    BY <1>6, <1>7, <1>8, <2>1 DEF Reached, shown
  <2>2. CASE shown # {}
    <3>1. {e.type : e \in shown} = {Type(disk, Leads(name).path)}
      BY <1>5, <2>2
    <3> QED BY <1>7, <1>8, <3>1 DEF Reached, Type, shown
  <2> QED BY <2>1, <2>2
<1>9. CASE ~Reached(name)
  <2>1. shown = {} BY <1>5, <1>9
  <2> QED BY <1>7, <1>9, <2>1 DEF Reached, shown
<1> QED BY <1>8, <1>9

LEMMA PathsFollow == ASSUME IInv PROVE PathsLeadBack
<1>1. pc \in {"stat", "read", "list", "entry", "child"} => InsideRoot(base, at)
  BY DEF IInv, Found
<1>2. ASSUME pc = "done", calm, answer.code = "ok", Plain(answer.path)
      PROVE  ResolveBase(disk, base, [abs |-> FALSE, path |-> answer.path]) =
               [path |-> base \o answer.path, err |-> "nil"]
  <2> DEFINE r == [abs |-> FALSE, path |-> answer.path]
  <2>1. /\ disk \in Disk /\ base \in Seq(Proper) /\ at \in Seq(Proper) /\ IsPrefix(base, at)
        /\ answer.path = Rel(base, at) /\ base \o answer.path = at
    BY <1>2, AnswerIs
  <2>2. r \in Query /\ Target(base, r) = at
    BY <1>2, <2>1, SelfTarget
  <2>3. Real(disk, at) = [path |-> at, err |-> "nil"]
    BY <1>2, StillThere
  <2> HIDE DEF r
  <2>4. ResolveBase(disk, base, r) = Real(disk, at)
    BY <2>1, <2>2, <2>3, ResolveIs
  <2> QED BY <2>1, <2>3, <2>4 DEF r
<1>3. ASSUME pc = "done", calm, answer.code = "ok", op = "list", NEW e \in ToSet(answer.entries),
             Plain(e.path)
      PROVE  ResolveBase(disk, base, [abs |-> FALSE, path |-> e.path]) = Real(disk, Child(e.name))
  <2> DEFINE r == [abs |-> FALSE, path |-> e.path]
  <2>1. /\ disk \in Disk /\ base \in Seq(Proper) /\ at \in Seq(Proper) /\ IsPrefix(base, at)
        /\ Child(e.name) = Append(at, e.name)
    BY <1>3, AnswerIs DEF Child
  <2>2. e \in entries BY <1>3 DEF IInv, Answered
  <2>3. e.name \in Names(disk, at) /\ e.path = Item(e.name) /\ Reached(e.name)
    BY <1>3, <2>2 DEF IInv, ShownIsTrue, Listing, Shown
  <2>4. r \in Query /\ Target(base, r) = Append(at, e.name) /\ IsPrefix(base, Append(at, e.name))
    BY <1>3, <2>1, <2>3, ItemTarget DEF Item
  <2> HIDE DEF r
  <2>5. Real(disk, Target(base, r)) = Leads(e.name) BY <2>4 DEF Leads
  <2>6. /\ IsPrefix(base, Target(base, r)) /\ Real(disk, Target(base, r)).err = "nil"
        /\ IsPrefix(base, Real(disk, Target(base, r)).path)
    BY <2>3, <2>4, <2>5 DEF Reached
  <2>7. ResolveBase(disk, base, r) = Real(disk, Target(base, r))
    BY <2>1, <2>4, <2>6, ResolveIs
  <2> QED BY <2>1, <2>4, <2>7 DEF r
<1> QED BY <1>1, <1>2, <1>3 DEF PathsLeadBack

(* The service's variables keep their types; a size answered is within the *)
(* limit and what is resolved is a path of the disk (service.go).          *)
THEOREM TypeCorrect == Spec => []TypeOK
<1>1. IInv => TypeOK BY DEF IInv
<1> QED BY <1>1, Invariance, PTL

(* listResolved: on a disk at rest a listing names everything in the       *)
(* directory that is to be found below the base, and nothing else; only    *)
(* what the system refused to look at may be missing.                      *)
THEOREM ListsWhatIsThere == Spec => []ListingIsTrue
<1>1. IInv => ListingIsTrue BY ListingFollows
<1> QED BY <1>1, Invariance, PTL

(* resolveBase: what is looked at was found below the base, whatever       *)
(* becomes of the disk; on a disk at rest the paths of an answer that do   *)
(* not begin or end with a blank lead back to what they are of,            *)
(* joinRelative being undone by the next request.                          *)
THEOREM LeadsBack == Spec => []PathsLeadBack
<1>1. IInv => PathsLeadBack BY PathsFollow
<1> QED BY <1>1, Invariance, PTL

(* readResolved and decodeText: a document is what was written to the      *)
(* file, where its bytes tell the encoding, and text within the limit is   *)
(* not refused; nothing but text is handed out.                            *)
THEOREM ReadsWhatIsWritten == Spec => []DocumentIsText
<1>1. IInv => DocumentIsText BY DEF IInv
<1> QED BY <1>1, Invariance, PTL

(* On a disk at rest an error says what is the case: what is said to be    *)
(* missing or out of reach is, and a failure of the service comes of a     *)
(* link in a circle, a path through a file or a refusal of the system,     *)
(* which is never told as anything else (resolveBase, listResolved,        *)
(* mapPathError).                                                          *)
THEOREM ErrorsSayWhy == Spec => []ErrorsAreTrue
<1>1. IInv => ErrorsAreTrue BY DEF IInv
<1> QED BY <1>1, Invariance, PTL
=============================================================================
