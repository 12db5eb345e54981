---------------------------- MODULE MCRingBuffer ----------------------------
(***************************************************************************)
(* RingBuffer with a capacity of 5 bytes over two byte values and every    *)
(* chunk of up to 6 bytes, so that one write can be empty, fit, fill,      *)
(* wrap, and exceed the whole buffer.                                      *)
(***************************************************************************)
EXTENDS RingBuffer

MCByte == {0, 1}
MCChunk == UNION {[1 .. n -> MCByte] : n \in 0 .. 6}
=============================================================================
