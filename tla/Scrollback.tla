----------------------------- MODULE Scrollback -----------------------------
(***************************************************************************)
(* What the relay promises about a session's scrollback: it is the most    *)
(* recent Cap bytes of everything written, oldest byte first, whatever the *)
(* sizes of the writes.  RingBuffer implements it.                         *)
(***************************************************************************)
EXTENDS Integers, Sequences

CONSTANTS Byte,    \* the byte values
          Cap,     \* capacity in bytes
          Chunk    \* the byte sequences a caller may write

VARIABLES content,  \* the retained bytes, oldest first
          last      \* the bytes written last

\* The last Cap elements of a sequence.
Latest(s) == IF Len(s) <= Cap THEN s ELSE SubSeq(s, Len(s) - Cap + 1, Len(s))

Init == content = << >> /\ last = << >>

Write(p) ==
  /\ last' = p
  /\ content' = Latest(content \o p)

Next == \E p \in Chunk : Write(p)

Spec == Init /\ [][Next]_<<content, last>>
=============================================================================
