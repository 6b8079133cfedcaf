---------------------------- MODULE MCLiveStream ----------------------------
(***************************************************************************)
(* Instances of LiveStream for TLC.                                        *)
(***************************************************************************)
EXTENDS LiveStream

Hex(n) == [kind |-> "hex", n |-> n]
Eol == [kind |-> "eol", n |-> 0]
Pcm(n) == [kind |-> "pcm", n |-> n]
Text == [kind |-> "text", n |-> 0]
End == <<Hex(0), Eol, Eol>>

\* A chunk with the bytes first..last, announced as `size` of them.
ChunkAs(size, first, last) ==
  <<Hex(size), Eol>> \o [i \in 1..last - first + 1 |-> Pcm(first + i - 1)] \o <<Eol>>
ChunkOf(first, last) == ChunkAs(last - first + 1, first, last)

TwoChunks == ChunkOf(1, 3) \o ChunkOf(4, 4) \o End
Trailer(lines) == <<Hex(0), Eol>> \o [i \in 1..2 * lines |-> IF i % 2 = 1 THEN Text ELSE Eol] \o <<Eol>>

MCBodies == {
  TwoChunks,
  ChunkOf(1, 3) \o Trailer(1),
  ChunkOf(1, 2) \o Trailer(4),   \* more than MaxBody
  ChunkOf(1, 4) \o End,          \* more than MaxChunk
  ChunkAs(2, 1, 3) \o End,       \* no CRLF after the chunk's data
  <<Text, Eol>> \o End}          \* no size
LongBodies == {ChunkOf(1, 8) \o End}

ASSUME MCBodiesAreFramed == Framed
=============================================================================
