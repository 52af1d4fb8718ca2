------------------------------- MODULE Chunks -------------------------------
(***************************************************************************)
(* A range of the input stream as it lies in the circular buffer: one      *)
(* chunk, or two when the range runs over the end of the buffer            *)
(* (pipe_buffer_base::map_range), and the functions of input_buffer.hh     *)
(* that take data from the front of such a range.  A chunk is the stream   *)
(* position of its first unit and its length; the src pointer of the code  *)
(* is the head of the sequence.                                            *)
(***************************************************************************)
EXTENDS Integers, Sequences

Chunk(at, len) == [at |-> at, len |-> len]

\* map_range, once the data are there.
MapChunks(size, at, len) ==
  LET segment == size - (at % size)
  IN IF len <= segment THEN <<Chunk(at, len)>>
     ELSE <<Chunk(at, segment), Chunk(at + segment, len - segment)>>

Advance(src, n) ==
  <<Chunk(Head(src).at + n, Head(src).len - n)>> \o Tail(src)

\* get_range into memory.  When the second chunk is used up to its last unit
\* it stays, with length 0.
GetRange(src, n) ==
  IF src = <<>> THEN [ok |-> FALSE, src |-> src]
  ELSE LET rest   == Tail(src)
           remain == n - Head(src).len
       IN CASE remain < 0 -> [ok |-> TRUE, src |-> Advance(src, n)]
            [] remain = 0 -> [ok |-> TRUE, src |-> rest]
            [] OTHER -> IF rest = <<>> THEN [ok |-> FALSE, src |-> rest]
                        ELSE IF remain > Head(rest).len
                        THEN [ok |-> FALSE, src |-> rest]
                        ELSE [ok |-> TRUE, src |-> Advance(rest, remain)]

\* skip_range does what get_range into memory does, without the copying.
SkipRange(src, n) == GetRange(src, n)

WithoutEmptyHead(src) ==
  IF src # <<>> /\ Head(src).len = 0 THEN Tail(src) ELSE src

\* get_range into chunks: as above, but a second chunk that is used up is
\* left behind.  dest is what was taken.
GetChunks(src, n) ==
  LET r == GetRange(src, n)
  IN [ok   |-> r.ok,
      src  |-> IF src # <<>> /\ n > Head(src).len THEN WithoutEmptyHead(r.src)
               ELSE r.src,
      dest |-> IF ~r.ok THEN <<>>
               ELSE IF n <= Head(src).len THEN <<Chunk(Head(src).at, n)>>
               ELSE <<Head(src), Chunk(src[2].at, n - Head(src).len)>>]

\* What copy_range retrieves: the one or two chunks left.
Retrieved(src) == IF src = <<>> THEN 0
                  ELSE IF Len(src) = 1 THEN src[1].len
                  ELSE src[1].len + src[2].len

\* read_record cuts the unused end of the record away.
CutEnd(src, unused) ==
  LET last == src[Len(src)]
      cut  == IF unused >= last.len THEN SubSeq(src, 1, Len(src) - 1) ELSE src
      left == IF unused >= last.len THEN unused - last.len ELSE unused
  IN [cut EXCEPT ![Len(cut)] = Chunk(@.at, @.len - left)]
=============================================================================
