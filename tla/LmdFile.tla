------------------------------- MODULE LmdFile -------------------------------
(***************************************************************************)
(* An LMD file from end to end: lmd_output_buffered and lmd_output_file    *)
(* (lmd_output.cc) pack events into records, called buffers there, and     *)
(* fragment those that do not fit; lmd_source (lmd_input.cc) reads the     *)
(* records through the circular input buffer, which PipeBuffer models in   *)
(* detail, and puts the events together again; the event loop (mainfcn.cc) *)
(* decides when the input buffer may forget them.                          *)
(*                                                                         *)
(* Lengths and positions are in units of four bytes.  What the file holds  *)
(* is kept as records and pieces (an event header and the data behind it,  *)
(* with the event and the part of it they are); the byte order, times and  *)
(* types of events are left out.                                           *)
(***************************************************************************)
EXTENDS Chunks

CONSTANTS
  Size,         \* _size of the input buffer, a power of two
  Reads,        \* amounts its reader thread gets from the file at a time
  BufSize,      \* _cur_buf_length, the length of the records written
  BufHdr,       \* sizeof (s_bufhe_host)
  EvHdr,        \* sizeof (lmd_event_header_host)
  EvInfoHdr,    \* sizeof (lmd_event_10_1_host)
  MaxIused,     \* record length up to which i_used gives the used length
  FileHdr,      \* sizeof (s_filhe_extra_host), 0 for a file without header
  FileHdrUsed,  \* the part of it in use
  Compact,      \* _compact_buffers
  Grain,        \* the lengths of records are multiples of this (1024 bytes)
  Modes,        \* settings to look at: each a set of "stitch", for
                \* _conf._event_stitch_mode, "lost" and "first", for records
                \* lost anywhere or at the beginning, "cut", for a file
                \* without its end, and "long", for long events
  Lengths,      \* lengths of the data of the events
  LongLengths,  \* with "long" also these
  MaxEvents,    \* number of events written, at most
  MaxLost,      \* records lost, at most
  Cuts,         \* by how much the end of the file may be missing
  MaxBunch      \* length in the file of events combined to one, at most

ASSUME LayoutAssumption ==
  /\ \E k \in 0..40 : Size = 2^k
  /\ BufSize \in Nat /\ BufSize % Grain = 0 /\ BufHdr \in Nat \ {0}
  /\ EvHdr \in Nat \ {0} /\ EvInfoHdr \in Nat /\ EvHdr <= EvInfoHdr
  /\ BufHdr + EvInfoHdr < BufSize
  /\ FileHdr \in Nat /\ BufHdr + FileHdr <= BufSize
  /\ FileHdrUsed \in 0..FileHdr /\ BufHdr + FileHdrUsed <= MaxIused
  /\ Grain \in Nat \ {0} /\ Lengths \cup LongLengths \subseteq Nat \ {0}
  /\ Reads \subseteq Nat \ {0} /\ Cuts \subseteq Nat /\ 0 \in Cuts
  /\ MaxEvents \in Nat /\ MaxLost \in Nat /\ MaxBunch \in Nat
ASSUME ModeAssumption ==
  /\ Compact \in BOOLEAN
  /\ Modes \subseteq SUBSET {"stitch", "lost", "first", "cut", "long"}

VARIABLES
  mode,         \* the one of Modes in use
  wpc,
  events,       \* the lengths of the events written
  size_left,    \* event_size_left of the event being written
  buf,          \* the record being filled
  lost,         \* how many records were lost
  disk,         \* the records in the file
  total,        \* length of the file as it is read
  \* input buffer: units read, units released, reader thread asleep
  avail, done, full,
  \* lmd_source
  rpc,
  cur,          \* _input._cur
  hdr,          \* _buffer_header
  chunks,       \* _chunk_cur .. _chunk_end
  events_left, last_buffer_no,
  release_to, release_to2,
  size,         \* event_size
  dest,         \* the event: its chunks, the length in its header
  \* event loop: events got, and where the data it may still use begin
  got, needed

writer == <<wpc, events, size_left, buf, lost, disk, total>>
ring == <<avail, done, full>>
source == <<cur, hdr, chunks, events_left, last_buffer_no, release_to,
            release_to2, size, dest>>
vars == <<mode, writer, ring, rpc, source, got, needed>>

-----------------------------------------------------------------------------
(* Writing *)

Stitch == "stitch" \in mode
EventLengths == IF "long" \in mode THEN Lengths \cup LongLengths ELSE Lengths

DiskEnd == IF disk = <<>> THEN 0
           ELSE disk[Len(disk)].at + disk[Len(disk)].count

NoBuffer == [open |-> FALSE, left |-> 0, usable |-> 0, l_buf |-> 1,
             type |-> "buffer", l_evt |-> 0, h_begin |-> FALSE,
             h_end |-> FALSE, l_free1 |-> 0, pieces |-> <<>>]

\* new_buffer, after send_buffer.
Fresh(b, end) == [NoBuffer EXCEPT !.open = TRUE, !.left = BufSize - BufHdr,
                                  !.usable = BufSize - BufHdr,
                                  !.l_buf = b.l_buf + 1, !.h_end = end]

\* send_buffer: what goes into the file.  For a file header in a large buffer
\* only the used part is written, and dlen does not tell (lie).
Written(b, lie) ==
  LET too_much == IF Compact THEN (b.left \div Grain) * Grain ELSE 0
      length   == BufSize - too_much
      lying    == lie /\ length > MaxIused
      count    == IF lying THEN BufHdr + FileHdrUsed ELSE length
      used     == IF lying THEN FileHdrUsed ELSE b.usable - b.left
  IN [at |-> DiskEnd, count |-> count, dlen |-> length, l_free2 |-> used,
      i_used |-> IF count <= MaxIused THEN used ELSE 0,
      type |-> b.type, l_buf |-> b.l_buf, l_evt |-> b.l_evt,
      h_begin |-> b.h_begin, h_end |-> b.h_end, l_free1 |-> b.l_free1,
      pieces |-> b.pieces]

\* The record reaches the file, or is lost on the way to the reader.
Send(b, lie) ==
  IF ~b.open THEN UNCHANGED <<disk, lost>>
  ELSE \/ disk' = Append(disk, Written(b, lie)) /\ UNCHANGED lost
       \/ /\ lost < MaxLost
          /\ "lost" \in mode \/ ("first" \in mode /\ disk = <<>>)
          /\ lost' = lost + 1 /\ UNCHANGED disk

\* copy_to_buffer of an event header and n units of data.
WithPiece(b, n) ==
  [b EXCEPT !.left = @ - (EvHdr + n), !.l_evt = @ + 1,
            !.pieces = Append(@, [at  |-> DiskEnd + BufSize - b.left, len |-> n,
                                  ev  |-> Len(events),
                                  off |-> events[Len(events)] - size_left])]

write_file_header ==
  /\ wpc = "start"
  /\ wpc' = "write"
  /\ IF FileHdr = 0 THEN UNCHANGED <<buf, disk, lost>>
     ELSE LET b == [Fresh(buf, FALSE) EXCEPT
                      !.type = "file", !.left = @ - FileHdr,
                      !.usable = @ - FileHdr]
          IN Send(b, TRUE) /\ buf' = Fresh(b, FALSE)
  /\ UNCHANGED <<events, size_left, total, ring, rpc, source, got, needed>>

\* write_event, up to the loop over fragments.
write_event(n) ==
  /\ wpc = "write"
  /\ Len(events) < MaxEvents
  /\ wpc' = "event"
  /\ events' = Append(events, n) /\ size_left' = n
  /\ IF buf.left <= EvInfoHdr THEN Send(buf, FALSE) /\ buf' = Fresh(buf, FALSE)
     ELSE UNCHANGED <<buf, disk, lost>>
  /\ UNCHANGED <<total, ring, rpc, source, got, needed>>

\* A record that ends in an unfinished event; l_free[1] has its whole length.
Fragment(b, n) ==
  [WithPiece(b, n) EXCEPT !.h_begin = TRUE, !.l_free1 = events[Len(events)]]

\* One turn of the loop: the record is filled with a fragment and sent.
write_fragment ==
  /\ wpc = "event"
  /\ EvHdr + size_left > buf.left
  /\ LET n == buf.left - EvHdr
         b == Fragment(buf, n)
     IN /\ size_left' = size_left - n
        /\ Send(b, FALSE)
        /\ buf' = Fresh(b, TRUE)
  /\ UNCHANGED <<wpc, events, total, ring, rpc, source, got, needed>>

write_rest ==
  /\ wpc = "event"
  /\ EvHdr + size_left <= buf.left
  /\ buf' = WithPiece(buf, size_left)
  /\ size_left' = 0
  /\ wpc' = "write"
  /\ UNCHANGED <<events, lost, disk, total, ring, rpc, source, got, needed>>

\* close_file; then the file is read, perhaps without its end.
close_file ==
  /\ wpc = "write"
  /\ wpc' = "closed"
  /\ Send(buf, FALSE)
  /\ buf' = NoBuffer
  /\ rpc' = "next"
  /\ LET end == IF disk' = <<>> THEN 0
                ELSE disk'[Len(disk')].at + disk'[Len(disk')].count
     IN \E c \in IF "cut" \in mode THEN Cuts ELSE {0} : c <= end /\ total' = end - c
  /\ UNCHANGED <<events, size_left, ring, source, got, needed>>

-----------------------------------------------------------------------------
(* The input buffer *)

\* Faulty variant: one unit more than there is.
SpaceAndOne == Size + 1 - (avail - done)

Space == Size - (avail - done)

\* The reader thread, asleep since the buffer was full, is woken when a
\* sixteenth of it is free; it then reads what there is space for.
CanFill == /\ avail < total
           /\ Space > 0
           /\ full => Space >= Size \div 16

Fill ==
  /\ wpc = "closed"
  /\ CanFill
  /\ \E n \in Reads :
       LET room == IF total - avail < Space THEN total - avail ELSE Space
       IN avail' = avail + (IF n < room THEN n ELSE room)
  /\ full' = (avail' - done = Size)
  /\ UNCHANGED <<writer, done, rpc, source, got, needed>>

\* map_range returns: with the data up to end, or because the file has none.
Mapped(end) == avail >= end
NotMapped(end) == avail = total /\ total < end

\* release_to
Release(to) == IF to # 0 THEN to ELSE done

-----------------------------------------------------------------------------
(* lmd_source::read_record *)

NoHdr == [at |-> 0, count |-> 0, dlen |-> 0, l_free2 |-> 0, i_used |-> 0,
          type |-> "none", l_buf |-> 0, l_evt |-> 0, h_begin |-> FALSE,
          h_end |-> FALSE, l_free1 |-> 0, pieces |-> <<>>]

\* What the header at cur says; with anything but a header there, the
\* endian marker is broken.
HdrAt(p) == IF \E i \in DOMAIN disk : disk[i].at = p
            THEN disk[CHOOSE i \in DOMAIN disk : disk[i].at = p]
            ELSE NoHdr

MaxItem == Size \div 3

\* The file header behind the buffer header: in a large buffer i_used has its
\* length.
FileHdrSize(h) ==
  IF h.type # "file" THEN 0
  ELSE IF h.dlen > MaxIused /\ h.l_evt = 0 /\ h.i_used # 0 THEN h.i_used
  ELSE FileHdr

\* Faulty variant: the length of a file header is always believed.
RecordSizeBelieved(h) == h.dlen

\* buffer_size_dlen
RecordSize(h) ==
  IF h.type = "file" /\ h.dlen > MaxIused /\ h.l_evt = 0 /\ h.i_used # 0
  THEN BufHdr + h.i_used ELSE h.dlen

HeaderSize(h) == BufHdr + FileHdrSize(h)

\* buf_used
BufUsed(h) ==
  LET used == IF h.dlen <= MaxIused THEN h.i_used ELSE h.l_free2
  IN IF h.type = "file" /\ used = FileHdrUsed THEN 0 ELSE used

UsedTwice(h) ==
  IF h.dlen <= MaxIused THEN h.l_free2 # 0 /\ h.l_free2 # h.i_used
  ELSE h.i_used # 0 /\ ~(h.type = "file" /\ h.i_used = FileHdrUsed)

\* The checks before the data are mapped.
HeaderFault(h, expect_fragment) ==
  \/ h.type = "none"
  \/ h.dlen > MaxItem \/ h.l_free1 > MaxItem
  \/ UsedTwice(h)
  \/ HeaderSize(h) + BufUsed(h) > RecordSize(h)
  \/ /\ last_buffer_no # 0 /\ last_buffer_no + 1 # h.l_buf
     /\ h.l_buf <= last_buffer_no \/ expect_fragment

Data(h) == MapChunks(Size, h.at + HeaderSize(h), RecordSize(h) - HeaderSize(h))

Empty(h) == BufUsed(h) = 0

UsedData(h) == CutEnd(Data(h), RecordSize(h) - HeaderSize(h) - BufUsed(h))

\* The event header at p, and the data behind it; len is arbitrary when there
\* is none.
NoPiece == [at |-> -1, len |-> 0, ev |-> 0, off |-> 0]
PieceAt(p) ==
  IF \E i \in DOMAIN disk : \E k \in DOMAIN disk[i].pieces :
       disk[i].pieces[k].at = p
  THEN LET i == CHOOSE i \in DOMAIN disk : \E k \in DOMAIN disk[i].pieces :
                  disk[i].pieces[k].at = p
       IN disk[i].pieces[CHOOSE k \in DOMAIN disk[i].pieces :
                           disk[i].pieces[k].at = p]
  ELSE NoPiece


\* Faulty variant: a fragment that was not expected is taken for an event.
SkipFragmentNot(h) == [ok |-> TRUE, src |-> UsedData(h), left |-> h.l_evt]

\* A record that continues an event nobody began: the fragment is skipped.
SkipFragment(h) ==
  LET src  == UsedData(h)
      head == GetRange(src, EvHdr)
      frag == PieceAt(src[1].at)
      rest == SkipRange(head.src, frag.len)
  IN [ok |-> head.ok /\ frag.len <= BufUsed(h) /\ rest.ok,
      src |-> rest.src, left |-> h.l_evt - 1]

\* What the events of the record are taken from.
Opened(h, expect_fragment) ==
  CASE Empty(h) -> [ok |-> ~h.h_begin /\ ~h.h_end /\ h.l_evt = 0,
                    src |-> <<>>, left |-> 0]
    [] ~Empty(h) /\ h.h_end = expect_fragment ->
         [ok |-> h.l_evt # 0, src |-> UsedData(h), left |-> h.l_evt]
    [] ~Empty(h) /\ h.h_end /\ ~expect_fragment -> SkipFragment(h)
    [] OTHER -> [ok |-> FALSE, src |-> <<>>, left |-> 0]

ExpectFragment == rpc = "fragment"
NeedsRecord == ExpectFragment \/ (rpc = "scan" /\ chunks = <<>>)

\* An ERROR is thrown; the event loop leaves the file.
Fail == rpc' = "error" /\ UNCHANGED <<writer, ring, source, got, needed>>

\* No header any more.
read_record_end ==
  /\ NeedsRecord
  /\ NotMapped(cur + BufHdr)
  /\ rpc' = IF ExpectFragment THEN "error" ELSE "end"
  /\ UNCHANGED <<writer, ring, source, got, needed>>

\* Bad from its header, cut short by the end of the file, or bad inside.
RecordFault(h) ==
  \/ HeaderFault(h, ExpectFragment)
  \/ NotMapped(cur + RecordSize(h))
  \/ Mapped(cur + RecordSize(h)) /\ ~Opened(h, ExpectFragment).ok

read_record_error ==
  /\ NeedsRecord
  /\ Mapped(cur + BufHdr)
  /\ RecordFault(HdrAt(cur))
  /\ Fail


\* _prev_record_release_to
RecordStart == cur

read_record ==
  /\ NeedsRecord
  /\ Mapped(cur + BufHdr)
  /\ LET h == HdrAt(cur)
         o == Opened(h, ExpectFragment)
     IN /\ ~HeaderFault(h, ExpectFragment)
        /\ Mapped(cur + RecordSize(h))
        /\ o.ok
        /\ hdr' = h /\ chunks' = o.src /\ events_left' = o.left
        /\ cur' = cur + RecordSize(h)
        /\ last_buffer_no' = IF Empty(h) THEN last_buffer_no ELSE h.l_buf
        /\ release_to' = RecordStart
  /\ rpc' = IF ExpectFragment THEN "fraghead" ELSE "scan"
  /\ UNCHANGED <<writer, ring, release_to2, size, dest, got, needed>>

-----------------------------------------------------------------------------
(* lmd_source::get_event *)

NoEvent == [chunks |-> <<>>, len |-> 0, missing |-> 0, ev |-> 0]

\* release_events, unless events are stitched, and the start of get_event.
get_event ==
  /\ rpc = "next"
  /\ rpc' = "scan"
  /\ done' = IF Stitch THEN done ELSE Release(release_to2)
  /\ release_to2' = release_to
  /\ dest' = NoEvent
  /\ UNCHANGED <<writer, avail, full, cur, hdr, chunks, events_left,
                 last_buffer_no, release_to, size, got, needed>>

Return(d, src) ==
  /\ dest' = d /\ chunks' = src
  /\ got' = Append(got, d.ev)
  /\ rpc' = "event"
  /\ UNCHANGED <<writer, ring, cur, hdr, last_buffer_no, release_to, release_to2,
                 size, needed>>

\* Faulty variant: the record is not asked whether its last event goes on.
IsWholeAlways == events_left > 0

\* An event header; the last event of a record that says so is a fragment.
IsWhole == events_left - 1 # 0 \/ ~hdr.h_begin

get_event_whole ==
  /\ rpc = "scan" /\ chunks # <<>> /\ IsWhole
  /\ LET head == GetRange(chunks, EvHdr)
         p    == PieceAt(Head(chunks).at)
         data == GetChunks(head.src, p.len)
     IN IF head.ok /\ data.ok
        THEN /\ Return([NoEvent EXCEPT !.chunks = data.dest, !.len = p.len,
                                       !.ev = p.ev], data.src)
             /\ events_left' = events_left - 1
        ELSE Fail

\* A fragment: the buffer header has the length of the event.
get_event_fragmented ==
  /\ rpc = "scan" /\ chunks # <<>> /\ ~IsWhole
  /\ LET head == GetRange(chunks, EvHdr)
         p    == PieceAt(Head(chunks).at)
     IN IF head.ok
        THEN /\ size' = p.len
             /\ dest' = [NoEvent EXCEPT !.len = hdr.l_free1,
                                        !.missing = hdr.l_free1, !.ev = p.ev]
             /\ chunks' = head.src
             /\ events_left' = events_left - 1
             /\ rpc' = "copy"
             /\ UNCHANGED <<writer, ring, cur, hdr, last_buffer_no, release_to,
                            release_to2, got, needed>>
        ELSE Fail

\* copy_range: the fragment must be the rest of its record.
copy_fragment ==
  /\ rpc = "copy"
  /\ IF size <= dest.missing /\ Retrieved(chunks) = size
     THEN /\ dest' = [dest EXCEPT !.chunks = @ \o chunks, !.missing = @ - size]
          /\ rpc' = "fragment"
          /\ UNCHANGED <<writer, ring, cur, hdr, chunks, events_left,
                         last_buffer_no, release_to, release_to2, size, got,
                         needed>>
     ELSE Fail

\* Faulty variant: the last fragment is known by the buffer header only.
IsFinalByHeader(n) == ~hdr.h_begin

\* The fragment is the last one of its event.
IsFinal(n) == n = dest.missing \/ ~hdr.h_begin

\* A fragment in the middle of an event: it is copied next.
next_fragment ==
  /\ rpc = "fraghead"
  /\ LET head == GetRange(chunks, EvHdr)
         n    == PieceAt(Head(chunks).at).len
     IN /\ head.ok => ~IsFinal(n)
        /\ IF head.ok /\ events_left = 1
           THEN /\ size' = n /\ chunks' = head.src
                /\ rpc' = "copy"
                /\ UNCHANGED <<writer, ring, cur, hdr, events_left,
                               last_buffer_no, release_to, release_to2, dest, got,
                               needed>>
           ELSE Fail

final_fragment ==
  /\ rpc = "fraghead"
  /\ LET head == GetRange(chunks, EvHdr)
         n    == PieceAt(Head(chunks).at).len
         data == GetChunks(head.src, n)
     IN /\ head.ok /\ IsFinal(n)
        /\ IF n <= dest.missing /\ data.ok
           THEN /\ Return([dest EXCEPT !.chunks = @ \o data.dest,
                                       !.missing = @ - n], data.src)
                /\ events_left' = events_left - 1
           ELSE Fail

-----------------------------------------------------------------------------
(* The event loop *)

None == -1

\* Without stitching an event is dealt with before the next one is asked for.
event_done ==
  /\ rpc = "event" /\ ~Stitch
  /\ rpc' = "next"
  /\ UNCHANGED <<writer, ring, source, got, needed>>

\* The event is combined with the ones before.
event_combined ==
  /\ rpc = "event" /\ Stitch
  /\ needed # None /\ cur - needed <= MaxBunch
  /\ rpc' = "next"
  /\ UNCHANGED <<writer, ring, source, got, needed>>

\* Faulty variant: up to the record that was read last.
release_events_last == Release(release_to)

\* release_events
release_events == Release(release_to2)

\* The events before are written, then forgotten; the new one is kept to be
\* combined, unless it has no good time stamp and is written as well.
event_separate ==
  /\ rpc = "event" /\ Stitch
  /\ done' = release_events /\ release_to2' = 0
  /\ needed' \in {dest.chunks[1].at, None}
  /\ rpc' = "next"
  /\ UNCHANGED <<writer, avail, full, cur, hdr, chunks, events_left,
                 last_buffer_no, release_to, size, dest, got>>

-----------------------------------------------------------------------------
Init ==
  /\ mode \in Modes
  /\ wpc = "start" /\ events = <<>> /\ size_left = 0 /\ buf = NoBuffer
  /\ lost = 0 /\ disk = <<>> /\ total = 0
  /\ avail = 0 /\ done = 0 /\ full = FALSE
  /\ rpc = "unopened"
  \* new_file
  /\ cur = 0 /\ hdr = NoHdr /\ chunks = <<>> /\ events_left = 0
  /\ last_buffer_no = 0 /\ release_to = 0 /\ release_to2 = 0
  /\ size = 0 /\ dest = NoEvent
  /\ got = <<>> /\ needed = None

\* The file is read, or has been given up.
Finished == rpc \in {"end", "error"} /\ UNCHANGED vars

Next ==
  /\ UNCHANGED mode
  /\ \/ write_file_header
     \/ \E n \in EventLengths : write_event(n)
     \/ write_fragment
     \/ write_rest
     \/ close_file
     \/ Fill
     \/ read_record_end
     \/ read_record_error
     \/ read_record
     \/ get_event
     \/ get_event_whole
     \/ get_event_fragmented
     \/ copy_fragment
     \/ next_fragment
     \/ final_fragment
     \/ event_done
     \/ event_combined
     \/ event_separate
     \/ Finished

Spec == Init /\ [][Next]_vars

-----------------------------------------------------------------------------
(* Properties *)

TypeOK ==
  /\ wpc \in {"start", "write", "event", "closed"}
  /\ rpc \in {"unopened", "next", "scan", "copy", "fragment", "fraghead", "event",
              "end", "error"}
  /\ events \in Seq(EventLengths) /\ Len(events) <= MaxEvents
  /\ size_left \in Nat /\ lost \in 0..MaxLost /\ total \in Nat
  /\ buf.left \in 0..(BufSize - BufHdr) /\ buf.usable \in 0..(BufSize - BufHdr)
  /\ 0 <= done /\ done <= avail /\ avail <= total /\ avail - done <= Size
  /\ full \in BOOLEAN
  /\ cur \in Nat /\ Len(chunks) <= 2
  /\ \A i \in DOMAIN chunks : chunks[i].at \in Nat /\ chunks[i].len \in Nat
  /\ release_to \in Nat /\ release_to2 \in Nat
  /\ needed \in Nat \cup {None}

\* The event, and the place in it, of what lies at position p of the file.
Cell(p) ==
  LET holds(q) == q.at + EvHdr <= p /\ p < q.at + EvHdr + q.len
  IN IF \E i \in DOMAIN disk : \E k \in DOMAIN disk[i].pieces :
          holds(disk[i].pieces[k])
     THEN LET q == CHOOSE q \in UNION {{disk[i].pieces[k] :
                                        k \in DOMAIN disk[i].pieces} :
                                       i \in DOMAIN disk} : holds(q)
          IN <<q.ev, q.off + p - q.at - EvHdr>>
     ELSE <<0, 0>>

Last(c) == c.at + c.len - 1
Follows(c, d) == c[1] = d[1] /\ c[2] = d[2] + 1

\* An event that get_event returns is one that was written, from its first
\* unit to its last, with its length in the header, however it was fragmented
\* and wherever the records were split by the end of the input buffer; and
\* events come in the order in which they were written.
Reassembled ==
  rpc = "event" =>
    /\ dest.ev \in DOMAIN events
    /\ dest.len = events[dest.ev]
    /\ dest.chunks # <<>>
    /\ LET c == dest.chunks
       IN /\ Cell(c[1].at) = <<dest.ev, 0>>
          /\ Cell(Last(c[Len(c)])) = <<dest.ev, dest.len - 1>>
          /\ \A i \in DOMAIN c :
               /\ c[i].len > 0
               /\ \A p \in (c[i].at + 1)..Last(c[i]) : Follows(Cell(p), Cell(p - 1))
          /\ \A i \in 1..(Len(c) - 1) : Follows(Cell(c[i + 1].at), Cell(Last(c[i])))
    /\ \A i \in 1..(Len(got) - 1) : got[i] < got[i + 1]

\* What lmd_output wrote, when nothing of it was lost, lmd_source reads to the
\* end without an ERROR, and no event is missing then.
Complete ==
  lost = 0 /\ total = DiskEnd =>
    /\ rpc # "error"
    /\ rpc = "end" => got = [i \in 1..Len(events) |-> i]

\* What get_event returns is what write_event was given: no event of wrong
\* parts, and none missing when nothing of the file is.
RoundTrip == TypeOK /\ Reassembled /\ Complete

\* The data of the event being dealt with, and of the events that are being
\* combined, have not been released: release_events stays behind them.
EventHeld ==
  /\ rpc = "event" => done <= dest.chunks[1].at
  /\ needed # None => done <= needed

\* How far the input must be there for read_record to go on.
Wanted == IF ~Mapped(cur + BufHdr) \/ HeaderFault(HdrAt(cur), ExpectFragment)
          THEN cur + BufHdr
          ELSE cur + RecordSize(HdrAt(cur))


\* In a record that is in the file to its end.
InFile(e, o) ==
  \E i \in DOMAIN disk :
    /\ disk[i].at + disk[i].count <= total
    /\ \E p \in disk[i].at..(disk[i].at + disk[i].count) : Cell(p) = <<e, o>>
WholeInFile(e) == \A o \in 0..(events[e] - 1) : InFile(e, o)
Got(e) == \E i \in DOMAIN got : got[i] = e


\* An event whose end is lost is given up, and the events after it that are
\* whole in the file are got all the same.
Resync ==
  rpc \in {"end", "error"} => \A e \in DOMAIN events : WholeInFile(e) => Got(e)
=============================================================================
