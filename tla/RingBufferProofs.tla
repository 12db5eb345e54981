-------------------------- MODULE RingBufferProofs --------------------------
(***************************************************************************)
(* For every capacity, byte set and set of chunks: RingBuffer keeps its    *)
(* fields in range and implements Scrollback.                              *)
(***************************************************************************)
EXTENDS RingBuffer, SequenceTheorems, TLAPS

LEMMA CapType == Cap \in Nat \ {0}
BY RingAssumption DEF Cap

LEMMA ChunkType ==
  ASSUME NEW p \in Chunk
  PROVE  /\ p \in Seq(Byte)
         /\ Len(p) \in Nat
BY RingAssumption

\* Index arithmetic modulo the capacity never needs more than one turn.
LEMMA Wrap ==
  ASSUME NEW c \in Nat \ {0}, NEW h \in 0 .. c - 1, NEW n \in 0 .. c
  PROVE  (h + n) % c = IF h + n < c THEN h + n ELSE h + n - c
OBVIOUS

-----------------------------------------------------------------------------
\* A snapshot reads the buffer in circular order from head.
LEMMA UnrollElements ==
  ASSUME NEW b \in [Slot -> Byte], NEW h \in Slot, NEW n \in 0 .. Cap,
         n < Cap => h = 0
  PROVE  /\ Unroll(b, h, n) \in Seq(Byte)
         /\ Len(Unroll(b, h, n)) = n
         /\ \A i \in 1 .. n :
              Unroll(b, h, n)[i] = IF h + i <= Cap THEN b[h + i - 1]
                                                   ELSE b[h + i - 1 - Cap]
BY CapType DEF Unroll, Slot

\* Latest keeps a suffix, shifting indices by the number of dropped elements.
LEMMA LatestElements ==
  ASSUME NEW s \in Seq(Byte), NEW drop \in Nat,
         drop = IF Len(s) <= Cap THEN 0 ELSE Len(s) - Cap
  PROVE  /\ Log!Latest(s) \in Seq(Byte)
         /\ Len(Log!Latest(s)) = Len(s) - drop
         /\ \A i \in 1 .. Len(s) - drop : Log!Latest(s)[i] = s[i + drop]
BY CapType DEF Log!Latest

\* writeAtHead replaces the Len(p) slots that follow h in circular order.
LEMMA AtHeadElements ==
  ASSUME NEW b \in [Slot -> Byte], NEW h \in Slot, NEW p \in Seq(Byte), Len(p) < Cap
  PROVE  /\ AtHead(b, h, p) \in [Slot -> Byte]
         /\ Advance(h, Len(p)) = IF h + Len(p) < Cap THEN h + Len(p) ELSE h + Len(p) - Cap
         /\ \A i \in Slot :
              AtHead(b, h, p)[i] =
                IF h <= i /\ i < h + Len(p) THEN p[i - h + 1]
                ELSE IF i < h + Len(p) - Cap THEN p[i + Cap - h + 1]
                ELSE b[i]
<1>1. (h + Cap) % Cap = h
  BY CapType, Wrap DEF Slot
<1>2. (h + Len(p)) % Cap = IF h + Len(p) < Cap THEN h + Len(p) ELSE h + Len(p) - Cap
  <2>1. h \in 0 .. Cap - 1 /\ Len(p) \in 0 .. Cap
    BY CapType DEF Slot
  <2>2. QED
    BY <2>1, CapType, Wrap
<1>3. CASE Len(p) <= Cap - h
  BY <1>1, <1>2, <1>3, CapType DEF AtHead, Advance, Blit, Slot
<1>4. CASE Len(p) > Cap - h
  <2> DEFINE front == SubSeq(p, 1, Cap - h)
             back  == SubSeq(p, Cap - h + 1, Len(p))
  <2>1. /\ front \in Seq(Byte) /\ Len(front) = Cap - h
        /\ \A i \in 1 .. Cap - h : front[i] = p[i]
    BY <1>4, CapType DEF Slot
  <2>2. /\ back \in Seq(Byte) /\ Len(back) = Len(p) - (Cap - h)
        /\ \A i \in 1 .. Len(p) - (Cap - h) : back[i] = p[i + Cap - h]
    BY <1>4, CapType DEF Slot
  <2>3. AtHead(b, h, p) = Blit(Blit(b, h, front), 0, back)
    BY <1>1, <1>4, CapType DEF AtHead, Slot
  <2> HIDE DEF front, back
  <2>4. Blit(b, h, front) \in [Slot -> Byte]
    BY <2>1, CapType DEF Blit, Slot
  <2>5. AtHead(b, h, p) \in [Slot -> Byte]
    BY <1>4, <2>2, <2>3, <2>4, CapType DEF Blit, Slot
  <2>6. ASSUME NEW i \in Slot
        PROVE  AtHead(b, h, p)[i] =
                 IF h <= i /\ i < h + Len(p) THEN p[i - h + 1]
                 ELSE IF i < h + Len(p) - Cap THEN p[i + Cap - h + 1]
                 ELSE b[i]
    <3>1. CASE i < Len(back)
      <4>1. AtHead(b, h, p)[i] = back[i + 1]
        BY <2>2, <2>3, <3>1, CapType DEF Blit, Slot
      <4>2. QED
        BY <1>4, <2>2, <3>1, <4>1, CapType DEF Slot
    <3>2. CASE ~(i < Len(back))
      <4>1. AtHead(b, h, p)[i] = Blit(b, h, front)[i]
        BY <2>2, <2>3, <3>2, CapType DEF Blit, Slot
      <4>2. QED
        BY <1>4, <2>1, <2>2, <3>2, <4>1, CapType DEF Blit, Slot
    <3>3. QED
      BY <3>1, <3>2
  <2>7. QED
    BY <1>1, <1>2, <2>5, <2>6 DEF Advance
<1>5. QED
  BY <1>3, <1>4, CapType DEF Slot

LEMMA AtHeadType ==
  ASSUME NEW b \in [Slot -> Byte], NEW h \in Slot, NEW p \in Seq(Byte), Len(p) < Cap
  PROVE  AtHead(b, h, p) \in [Slot -> Byte] /\ Advance(h, Len(p)) \in Slot
<1>1. /\ AtHead(b, h, p) \in [Slot -> Byte]
      /\ Advance(h, Len(p)) = IF h + Len(p) < Cap THEN h + Len(p) ELSE h + Len(p) - Cap
  BY AtHeadElements
<1>2. QED
  BY <1>1, CapType DEF Slot

-----------------------------------------------------------------------------
\* Reading the buffer after writeAtHead: the first Len(p) elements are gone and
\* p follows the others.
LEMMA UnrollAtHead ==
  ASSUME NEW b \in [Slot -> Byte], NEW h \in Slot, NEW p \in Seq(Byte),
         Len(p) < Cap, NEW i \in 1 .. Cap
  PROVE  Unroll(AtHead(b, h, p), Advance(h, Len(p)), Cap)[i] =
           IF i + Len(p) <= Cap THEN Unroll(b, h, Cap)[i + Len(p)]
                                ELSE p[i + Len(p) - Cap]
<1> DEFINE after == AtHead(b, h, p)
           front == Advance(h, Len(p))
           at    == IF front + i <= Cap THEN front + i - 1 ELSE front + i - 1 - Cap
<1>1. /\ after \in [Slot -> Byte]
      /\ front = IF h + Len(p) < Cap THEN h + Len(p) ELSE h + Len(p) - Cap
      /\ \A k \in Slot :
           after[k] = IF h <= k /\ k < h + Len(p) THEN p[k - h + 1]
                      ELSE IF k < h + Len(p) - Cap THEN p[k + Cap - h + 1]
                      ELSE b[k]
  BY AtHeadElements
<1> HIDE DEF after, front
<1>2. front \in Slot /\ h \in 0 .. Cap - 1
  BY <1>1, CapType DEF Slot
<1>3. at \in Slot
  BY <1>2, CapType DEF Slot
<1>4. Unroll(after, front, Cap)[i] = after[at]
  BY <1>1, <1>2, UnrollElements, CapType
<1>5. CASE i + Len(p) <= Cap
  <2> DEFINE j == i + Len(p)
  <2>1. j \in 1 .. Cap /\ Cap \in 0 .. Cap
    BY <1>5, CapType
  <2>2. at = IF h + j <= Cap THEN h + j - 1 ELSE h + j - 1 - Cap
    BY <1>1, <1>2, <1>5, CapType
  <2>3. ~(h <= at /\ at < h + Len(p)) /\ ~(at < h + Len(p) - Cap)
    BY <1>1, <1>2, <1>5, CapType
  <2> HIDE DEF at, j
  <2>4. after[at] = b[at]
    BY <1>1, <1>3, <2>3
  <2>5. Unroll(b, h, Cap)[j] = IF h + j <= Cap THEN b[h + j - 1] ELSE b[h + j - 1 - Cap]
    BY <2>1, UnrollElements
  <2>6. Unroll(b, h, Cap)[j] = b[at]
    BY <2>2, <2>5
  <2>7. QED
    BY <1>4, <1>5, <2>4, <2>6 DEF j, after, front
<1>6. CASE i + Len(p) > Cap
  <2>1. CASE h <= at
    <3>1. at < h + Len(p) /\ at - h + 1 = i + Len(p) - Cap
      BY <1>1, <1>2, <1>6, <2>1, CapType
    <3> HIDE DEF at
    <3>2. after[at] = p[i + Len(p) - Cap]
      BY <1>1, <1>3, <2>1, <3>1
    <3>3. QED
      BY <1>2, <1>4, <1>6, <3>2, CapType DEF after, front
  <2>2. CASE ~(h <= at)
    <3>1. at < h + Len(p) - Cap /\ at + Cap - h + 1 = i + Len(p) - Cap
      BY <1>1, <1>2, <1>6, <2>2, CapType
    <3> HIDE DEF at
    <3>2. after[at] = p[i + Len(p) - Cap]
      BY <1>1, <1>3, <2>2, <3>1
    <3>3. QED
      BY <1>2, <1>4, <1>6, <3>2, CapType DEF after, front
  <2>3. QED
    BY <2>1, <2>2
<1>7. QED
  BY <1>5, <1>6, CapType

-----------------------------------------------------------------------------
\* A write of p that evicts the k oldest bytes: the rest moves down, and the new
\* bytes follow.
Shifts(p, k) ==
  /\ k = IF size + Len(p) <= Cap THEN 0 ELSE size + Len(p) - Cap
  /\ size' = size + Len(p) - k
  /\ \A i \in 1 .. size' :
       Snapshot'[i] = IF i + k <= size THEN Snapshot[i + k] ELSE p[i + k - size]

LEMMA SnapshotElements ==
  ASSUME TypeOK
  PROVE  /\ Snapshot \in Seq(Byte)
         /\ Len(Snapshot) = size
         /\ \A i \in 1 .. size :
              Snapshot[i] = IF head + i <= Cap THEN buf[head + i - 1]
                                               ELSE buf[head + i - 1 - Cap]
BY UnrollElements DEF TypeOK, Snapshot

LEMMA NextSnapshotElements ==
  ASSUME TypeOK'
  PROVE  /\ Snapshot' \in Seq(Byte)
         /\ Len(Snapshot') = size'
         /\ \A i \in 1 .. size' :
              Snapshot'[i] = IF head' + i <= Cap THEN buf'[head' + i - 1]
                                                 ELSE buf'[head' + i - 1 - Cap]
<1>1. /\ buf' \in [Slot -> Byte] /\ head' \in Slot /\ size' \in 0 .. Cap
      /\ size' < Cap => head' = 0
  BY DEF TypeOK
<1>2. Snapshot' = Unroll(buf', head', size')
  BY DEF Snapshot
<1>3. QED
  BY <1>1, <1>2, UnrollElements

LEMMA ReplaceShifts ==
  ASSUME TypeOK, NEW p \in Seq(Byte), Replace(p)
  PROVE  TypeOK' /\ Shifts(p, size + Len(p) - Cap)
<1> DEFINE kept == SubSeq(p, Len(p) - Cap + 1, Len(p))
<1>1. /\ kept \in Seq(Byte) /\ Len(kept) = Cap
      /\ \A i \in 1 .. Cap : kept[i] = p[i + Len(p) - Cap]
  BY CapType DEF Replace
<1> HIDE DEF kept
<1>2. /\ buf' = Blit(buf, 0, kept) /\ head' = 0 /\ size' = Cap
      /\ Len(p) >= Cap /\ size \in Nat
  BY CapType DEF Replace, TypeOK, kept
<1>3. TypeOK' /\ \A i \in 1 .. Cap : buf'[i - 1] = kept[i]
  BY <1>1, <1>2, CapType DEF TypeOK, Blit, Slot
<1>4. \A i \in 1 .. Cap : Snapshot'[i] = p[i + Len(p) - Cap]
  <2>1. \A i \in 1 .. Cap :
          Snapshot'[i] = IF 0 + i <= Cap THEN buf'[0 + i - 1] ELSE buf'[0 + i - 1 - Cap]
    BY <1>2, <1>3, NextSnapshotElements
  <2>2. \A i \in 1 .. Cap : Snapshot'[i] = buf'[i - 1]
    BY <2>1, CapType
  <2>3. QED
    BY <1>1, <1>3, <2>2, CapType
<1>5. ASSUME NEW i \in 1 .. Cap
      PROVE  /\ ~(i + (size + Len(p) - Cap) <= size)
             /\ i + (size + Len(p) - Cap) - size = i + Len(p) - Cap
  BY <1>2, CapType
<1>6. QED
  BY <1>2, <1>3, <1>4, <1>5, CapType DEF Shifts

LEMMA GrowShifts ==
  ASSUME TypeOK, NEW p \in Seq(Byte), Grow(p)
  PROVE  TypeOK' /\ Shifts(p, 0)
<1>1. TypeOK'
  BY CapType DEF TypeOK, Grow, Blit, Slot
<1>2. /\ head = 0 /\ head' = 0 /\ size' = size + Len(p)
      /\ size + Len(p) <= Cap /\ size \in Nat
  BY CapType DEF TypeOK, Grow
<1>3. \A i \in 1 .. size' : buf'[i - 1] = IF i <= size THEN buf[i - 1] ELSE p[i - size]
  BY CapType DEF TypeOK, Grow, Blit, Slot
<1>4. \A i \in 1 .. size : Snapshot[i] = buf[i - 1]
  BY <1>2, SnapshotElements, CapType
<1>5. \A i \in 1 .. size' : Snapshot'[i] = buf'[i - 1]
  BY <1>1, <1>2, NextSnapshotElements, CapType
<1>6. ASSUME NEW i \in 1 .. size'
      PROVE  Snapshot'[i] = IF i + 0 <= size THEN Snapshot[i + 0] ELSE p[i + 0 - size]
  BY <1>2, <1>3, <1>4, <1>5
<1>7. QED
  BY <1>1, <1>2, <1>6 DEF Shifts

LEMMA FillShifts ==
  ASSUME TypeOK, NEW p \in Seq(Byte), Fill(p)
  PROVE  TypeOK' /\ Shifts(p, size + Len(p) - Cap)
<1> DEFINE free  == Cap - size
           front == SubSeq(p, 1, free)
           rest  == SubSeq(p, free + 1, Len(p))
           full  == Blit(buf, size, front)
<1>1. /\ front \in Seq(Byte) /\ Len(front) = free
      /\ \A i \in 1 .. free : front[i] = p[i]
  BY CapType DEF TypeOK, Fill
<1>2. /\ rest \in Seq(Byte) /\ Len(rest) = Len(p) - free /\ Len(rest) < Cap
      /\ \A i \in 1 .. Len(p) - free : rest[i] = p[i + free]
  BY CapType DEF TypeOK, Fill
<1> HIDE DEF front, rest
<1>3. /\ full \in [Slot -> Byte]
      /\ \A i \in Slot : full[i] = IF i < size THEN buf[i] ELSE p[i - size + 1]
  BY <1>1, CapType DEF TypeOK, Blit, Slot
<1> HIDE DEF full
<1>4. /\ buf' = AtHead(full, 0, rest) /\ head' = Advance(0, Len(rest))
      /\ size' = Cap /\ size \in Nat /\ size < Cap /\ head = 0
      /\ Len(p) > free /\ Len(p) < Cap
  BY CapType DEF Fill, TypeOK, front, rest, full
<1>5. 0 \in Slot
  BY CapType DEF Slot
<1>6. AtHead(full, 0, rest) \in [Slot -> Byte] /\ Advance(0, Len(rest)) \in Slot
  BY <1>2, <1>3, <1>5, AtHeadType
<1>7. TypeOK'
  BY <1>4, <1>6, CapType DEF TypeOK
<1>8. \A i \in 1 .. size : Snapshot[i] = buf[i - 1]
  BY <1>4, SnapshotElements, CapType
<1>9. ASSUME NEW j \in 1 .. Cap
      PROVE  Unroll(full, 0, Cap)[j] = full[j - 1]
  <2>1. Unroll(full, 0, Cap)[j] = IF 0 + j <= Cap THEN full[0 + j - 1] ELSE full[0 + j - 1 - Cap]
    <3>1. Cap \in 0 .. Cap /\ (Cap < Cap => 0 = 0)
      BY CapType
    <3>2. QED
      BY <1>3, <1>5, <3>1, UnrollElements
  <2>2. QED
    BY <2>1, CapType
<1>10. \A i \in 1 .. Cap :
         Snapshot'[i] = IF i + Len(rest) <= Cap THEN Unroll(full, 0, Cap)[i + Len(rest)]
                                                ELSE rest[i + Len(rest) - Cap]
  BY <1>2, <1>3, <1>4, <1>5, UnrollAtHead DEF Snapshot
<1>11. ASSUME NEW i \in 1 .. Cap
       PROVE  Snapshot'[i] = IF i + Len(rest) <= size THEN Snapshot[i + Len(rest)]
                                                      ELSE p[i + Len(rest) - size]
  <2>1. CASE i + Len(rest) <= Cap
    <3> DEFINE j == i + Len(rest)
    <3>1. /\ j \in 1 .. Cap /\ j - 1 \in Slot /\ j - 1 - size + 1 = j - size
          /\ j - 1 < size <=> j <= size
      BY <1>2, <1>4, <2>1, CapType DEF Slot
    <3>2. Snapshot'[i] = Unroll(full, 0, Cap)[j]
      BY <1>10, <2>1
    <3> HIDE DEF j
    <3>3. Snapshot'[i] = full[j - 1]
      BY <1>9, <3>1, <3>2
    <3>4. full[j - 1] = IF j - 1 < size THEN buf[j - 1] ELSE p[j - 1 - size + 1]
      BY <1>3, <3>1
    <3>5. Snapshot'[i] = IF j <= size THEN Snapshot[j] ELSE p[j - size]
      BY <1>4, <1>8, <3>1, <3>3, <3>4
    <3>6. QED
      BY <1>2, <1>4, <3>5 DEF j
  <2>2. CASE i + Len(rest) > Cap
    <3> DEFINE j == i + Len(rest) - Cap
    <3>1. /\ j \in 1 .. Len(p) - free /\ j + free = i + Len(rest) - size
          /\ ~(i + Len(rest) <= size)
      BY <1>2, <1>4, <2>2, CapType
    <3>2. Snapshot'[i] = rest[j]
      BY <1>2, <1>10, <2>2, CapType
    <3> HIDE DEF j
    <3>3. rest[j] = p[j + free]
      BY <1>2, <3>1
    <3>4. QED
      BY <3>1, <3>2, <3>3
  <2>3. QED
    BY <1>2, <2>1, <2>2, CapType
<1>12. Len(rest) = size + Len(p) - Cap
  BY <1>2, <1>4, CapType
<1>13. QED
  BY <1>4, <1>7, <1>11, <1>12, CapType DEF Shifts

LEMMA OverwriteShifts ==
  ASSUME TypeOK, NEW p \in Seq(Byte), Overwrite(p)
  PROVE  TypeOK' /\ Shifts(p, Len(p))
<1>1. /\ buf' = AtHead(buf, head, p) /\ head' = Advance(head, Len(p))
      /\ size = Cap /\ size' = Cap /\ Len(p) \in 1 .. Cap - 1 /\ Len(p) < Cap
      /\ buf \in [Slot -> Byte] /\ head \in Slot
  BY CapType DEF Overwrite, TypeOK
<1>2. AtHead(buf, head, p) \in [Slot -> Byte] /\ Advance(head, Len(p)) \in Slot
  BY <1>1, AtHeadType
<1>3. TypeOK'
  BY <1>1, <1>2, CapType DEF TypeOK
<1>4. \A i \in 1 .. Cap :
        Snapshot'[i] = IF i + Len(p) <= Cap THEN Snapshot[i + Len(p)]
                                            ELSE p[i + Len(p) - Cap]
  BY <1>1, UnrollAtHead DEF Snapshot
<1>5. QED
  BY <1>1, <1>3, <1>4, CapType DEF Shifts

-----------------------------------------------------------------------------
\* A shifted snapshot is the abstract append.
LEMMA ShiftsIsLatest ==
  ASSUME TypeOK, TypeOK', NEW p \in Seq(Byte), NEW k \in Nat, Shifts(p, k)
  PROVE  Snapshot' = Log!Latest(Snapshot \o p)
<1> DEFINE whole == Snapshot \o p
           kept  == Log!Latest(whole)
<1>1. /\ Snapshot \in Seq(Byte) /\ Len(Snapshot) = size
      /\ Snapshot' \in Seq(Byte) /\ Len(Snapshot') = size'
      /\ size \in Nat
  BY SnapshotElements, NextSnapshotElements, CapType DEF TypeOK
<1>2. /\ whole \in Seq(Byte) /\ Len(whole) = size + Len(p)
      /\ \A j \in 1 .. size + Len(p) :
           whole[j] = IF j <= size THEN Snapshot[j] ELSE p[j - size]
  BY <1>1, ConcatProperties
<1> HIDE DEF whole
<1>3. k = IF Len(whole) <= Cap THEN 0 ELSE Len(whole) - Cap
  <2>1. k = IF size + Len(p) <= Cap THEN 0 ELSE size + Len(p) - Cap
    BY DEF Shifts
  <2>2. QED
    BY <1>1, <1>2, <2>1, CapType
<1>4. size' = size + Len(p) - k
  BY DEF Shifts
<1>5. \A i \in 1 .. size' :
           Snapshot'[i] = IF i + k <= size THEN Snapshot[i + k] ELSE p[i + k - size]
  BY DEF Shifts
<1>6. /\ kept \in Seq(Byte) /\ Len(kept) = size'
      /\ \A i \in 1 .. size' : kept[i] = whole[i + k]
  <2>1. /\ kept \in Seq(Byte) /\ Len(kept) = Len(whole) - k
        /\ \A i \in 1 .. Len(whole) - k : kept[i] = whole[i + k]
    BY <1>2, <1>3, LatestElements
  <2>2. Len(whole) - k = size'
    BY <1>1, <1>2, <1>4
  <2>3. QED
    BY <2>1, <2>2
<1> HIDE DEF kept
<1>7. ASSUME NEW i \in 1 .. size'
      PROVE  Snapshot'[i] = kept[i]
  <2>1. i + k \in 1 .. size + Len(p)
    BY <1>1, <1>4
  <2>2. Snapshot'[i] = IF i + k <= size THEN Snapshot[i + k] ELSE p[i + k - size]
    BY <1>5
  <2>3. whole[i + k] = IF i + k <= size THEN Snapshot[i + k] ELSE p[i + k - size]
    <3> DEFINE j == i + k
    <3>1. j \in 1 .. size + Len(p)
      BY <2>1
    <3> HIDE DEF j
    <3>2. whole[j] = IF j <= size THEN Snapshot[j] ELSE p[j - size]
      BY <1>2, <3>1
    <3>3. QED
      BY <1>1, <3>1, <3>2 DEF j
  <2>4. kept[i] = whole[i + k]
    BY <1>6
  <2>5. QED
    BY <2>2, <2>3, <2>4
<1>8. Snapshot' = kept
  BY <1>1, <1>6, <1>7, SeqEqual
<1>9. QED
  BY <1>8 DEF kept, whole

LEMMA StepImplements ==
  ASSUME TypeOK, Next
  PROVE  TypeOK' /\ Log!Next
<1>1. PICK p \in Chunk : Write(p)
  BY DEF Next
<1>2. p \in Seq(Byte)
  BY ChunkType
<1>3. CASE WriteNothing(p)
  <2>1. TypeOK' /\ Snapshot' = Snapshot
    BY <1>3 DEF WriteNothing, ring, TypeOK, Snapshot
  <2>2. Snapshot \in Seq(Byte) /\ Len(Snapshot) = size /\ size \in Nat /\ size <= Cap
    BY SnapshotElements, CapType DEF TypeOK
  <2>3. p = << >>
    BY <1>2, <1>3 DEF WriteNothing
  <2>4. Snapshot \o p = Snapshot
    BY <2>2, <2>3
  <2>5. Log!Latest(Snapshot \o p) = Snapshot
    BY <2>2, <2>4 DEF Log!Latest
  <2>6. QED
    BY <1>1, <2>1, <2>5 DEF Write, Log!Write, Log!Next
<1>4. CASE ~WriteNothing(p)
  <2>1. CASE Replace(p)
    <3>1. TypeOK' /\ Shifts(p, size + Len(p) - Cap) /\ size + Len(p) - Cap \in Nat
      BY <1>2, <2>1, ReplaceShifts, CapType DEF Replace, TypeOK
    <3>2. QED
      BY <1>1, <1>2, <3>1, ShiftsIsLatest DEF Write, Log!Write, Log!Next
  <2>2. CASE Grow(p)
    <3>1. TypeOK' /\ Shifts(p, 0)
      BY <1>2, <2>2, GrowShifts
    <3>2. QED
      BY <1>1, <1>2, <3>1, ShiftsIsLatest DEF Write, Log!Write, Log!Next
  <2>3. CASE Fill(p)
    <3>1. TypeOK' /\ Shifts(p, size + Len(p) - Cap) /\ size + Len(p) - Cap \in Nat
      BY <1>2, <2>3, FillShifts, CapType DEF Fill, TypeOK
    <3>2. QED
      BY <1>1, <1>2, <3>1, ShiftsIsLatest DEF Write, Log!Write, Log!Next
  <2>4. CASE Overwrite(p)
    <3>1. TypeOK' /\ Shifts(p, Len(p)) /\ Len(p) \in Nat
      BY <1>2, <2>4, OverwriteShifts
    <3>2. QED
      BY <1>1, <1>2, <3>1, ShiftsIsLatest DEF Write, Log!Write, Log!Next
  <2>5. QED
    BY <1>1, <1>4, <2>1, <2>2, <2>3, <2>4 DEF Write
<1>5. QED
  BY <1>3, <1>4

\* The fields of a ring buffer stay in range, and head is 0 until it is full.
THEOREM TypeCorrect == Spec => []TypeOK
<1>1. Init => TypeOK
  BY RingAssumption, CapType DEF Init, TypeOK, Slot
<1>2. TypeOK /\ [Next]_vars => TypeOK'
  BY StepImplements DEF TypeOK, vars, ring
<1>3. QED
  BY <1>1, <1>2, PTL DEF Spec

\* Every behaviour of the ring buffer is a behaviour of the scrollback: what
\* Snapshot returns is always the last Cap bytes written, in order.
THEOREM Implements == Spec => ImplementsScrollback
<1>1. Init => Log!Init
  BY CapType DEF Init, Log!Init, Snapshot, Unroll
<1>2. TypeOK /\ [Next]_vars => [Log!Next]_<<Snapshot, last>>
  BY StepImplements DEF vars, ring, Snapshot
<1>3. QED
  BY <1>1, <1>2, TypeCorrect, PTL DEF Spec, Log!Spec, ImplementsScrollback
=============================================================================
