----------------------------- MODULE RingBuffer -----------------------------
(***************************************************************************)
(* relay/internal/session/ringbuffer.go: the fixed-capacity byte buffer    *)
(* behind a session's replay.  Every method runs under r.mu, so a Write is *)
(* one step; its alternatives are the branches of the function.            *)
(***************************************************************************)
EXTENDS Integers, Sequences

CONSTANTS Byte,      \* the byte values
          Zero,      \* the byte make() fills a new slice with
          Capacity,  \* the capacity asked of NewRingBuffer, any integer
          Chunk      \* the byte sequences callers write

\* Scrollback bytes are bytes, and a Go slice is a finite sequence of them.
ASSUME RingAssumption ==
  /\ Zero \in Byte
  /\ Capacity \in Int
  /\ Chunk \subseteq Seq(Byte)

\* NewRingBuffer raises a zero or negative capacity to one byte.
Cap == IF Capacity < 1 THEN 1 ELSE Capacity

Slot == 0 .. Cap - 1

VARIABLES buf,   \* the backing slice, indexed from 0
          head,  \* index of the oldest byte once the buffer is full
          size,  \* number of valid bytes
          last   \* history: the bytes written last

ring == <<buf, head, size>>
vars == <<ring, last>>

Init ==
  /\ buf = [i \in Slot |-> Zero]
  /\ head = 0
  /\ size = 0
  /\ last = << >>

-----------------------------------------------------------------------------
\* copy(b[at:], p) for a p that fits.
Blit(b, at, p) ==
  [i \in Slot |-> IF at <= i /\ i < at + Len(p) THEN p[i - at + 1] ELSE b[i]]

\* Mutant: no wrap at the end of the slice, copy() drops what does not fit.
AtHeadNoWrap(b, h, p) == Blit(b, (h + Cap) % Cap, p)

\* writeAtHead: overwrite the oldest bytes from head on, wrapping at the end.
AtHead(b, h, p) ==
  LET pos   == (h + Cap) % Cap
      first == Cap - pos
  IN  IF Len(p) <= first
        THEN Blit(b, pos, p)
        ELSE Blit(Blit(b, pos, SubSeq(p, 1, first)), 0, SubSeq(p, first + 1, Len(p)))

AdvanceUnwrapped(h, n) == ((h + Cap) % Cap) + n  \* mutant
Advance(h, n) == (((h + Cap) % Cap) + n) % Cap

\* An empty write returns before taking the lock.
WriteNothing(p) ==
  /\ Len(p) = 0
  /\ UNCHANGED ring

\* The chunk alone fills the buffer: keep its last Cap bytes.
Replace(p) ==
  /\ Len(p) >= Cap
  /\ buf' = Blit(buf, 0, SubSeq(p, Len(p) - Cap + 1, Len(p)))
  /\ head' = 0
  /\ size' = Cap

\* Growth phase, and the chunk fits in the free tail.
Grow(p) ==
  /\ Len(p) \in 1 .. Cap - 1
  /\ size < Cap
  /\ Len(p) <= Cap - size
  /\ buf' = Blit(buf, size, p)
  /\ size' = size + Len(p)
  /\ UNCHANGED head

\* Growth phase, and the chunk overruns the tail: fill it, then wrap.
Fill(p) ==
  LET free == Cap - size
      rest == SubSeq(p, free + 1, Len(p))
  IN  /\ Len(p) \in 1 .. Cap - 1
      /\ size < Cap
      /\ Len(p) > free
      /\ buf' = AtHead(Blit(buf, size, SubSeq(p, 1, free)), 0, rest)
      /\ head' = Advance(0, Len(rest))
      /\ size' = Cap

\* Full: the new bytes replace the oldest ones.
Overwrite(p) ==
  /\ Len(p) \in 1 .. Cap - 1
  /\ size = Cap
  /\ buf' = AtHead(buf, head, p)
  /\ head' = Advance(head, Len(p))
  /\ UNCHANGED size

Write(p) ==
  /\ last' = p
  /\ WriteNothing(p) \/ Replace(p) \/ Grow(p) \/ Fill(p) \/ Overwrite(p)

Next == \E p \in Chunk : Write(p)

Spec == Init /\ [][Next]_vars

-----------------------------------------------------------------------------
\* What Snapshot copies out of a slice b: the valid prefix while growing; once
\* full, the bytes from h to the end of the slice, then the bytes before h.
Unroll(b, h, n) ==
  LET first == Cap - h
  IN  IF n < Cap
        THEN [i \in 1 .. n |-> b[i - 1]]
        ELSE [i \in 1 .. Cap |-> IF i <= first THEN b[h + i - 1] ELSE b[i - first - 1]]

Snapshot == Unroll(buf, head, size)

\* The fields stay in range, and head moves only once the buffer is full (the
\* growth branch of Write copies to buf[size:] and relies on it).
TypeOK ==
  /\ buf \in [Slot -> Byte]
  /\ head \in Slot
  /\ size \in 0 .. Cap
  /\ size < Cap => head = 0

\* A snapshot is always the last Cap bytes of what was written, in order: the
\* replay a client gets on reconnect is the true tail of the shell's output,
\* whichever branches of Write produced it.
Log == INSTANCE Scrollback WITH content <- Snapshot
ImplementsScrollback == Log!Spec
=============================================================================
