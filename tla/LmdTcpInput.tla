---------------------------- MODULE LmdTcpInput ------------------------------
(***************************************************************************)
(* Input from an LMD server (file_input/lmd_input_tcp.cc and               *)
(* tcp_pipe_buffer.cc): a reader thread talks one of three protocols with  *)
(* the server and puts whole buffers into the circular input buffer; the   *)
(* event reader takes them out of it again.                                *)
(*                                                                         *)
(*   "trans"   the server sends buffers as it likes;                       *)
(*   "stream"  the client asks for a stream, of Bps buffers;               *)
(*   "event"   the client acknowledges one message and so gets the next; a *)
(*             message is made into a buffer here.                         *)
(*                                                                         *)
(* A buffer must not cross the end of the circular buffer: when it might,  *)
(* the space up to the end is filled with a dummy buffer.  The server is   *)
(* external: it sends, answers and goes away, also in the midst of a       *)
(* buffer.  The wakeup protocol between the threads is that of PipeBuffer, *)
(* with another threshold; it is taken in coarser steps here, as its races *)
(* are examined there.  Positions are not reduced modulo the word size.    *)
(*                                                                         *)
(* Plausible mistakes are defined before what they distort: RTopLate,      *)
(* SegmentWhole, StreamItemOver, REventDataStale, RLostEarly.              *)
(***************************************************************************)
EXTENDS Integers, Sequences, SequencesExt

CONSTANTS
  Protos,        \* the protocols to be looked at
  Watched,       \* built with, and run by, the watcher
  Hdr,           \* length of a buffer header
  TransSize, TransBuf,            \* circular buffer; info.bufsize
  TransLens,     \* lengths of the buffers sent: {TransBuf}, if fixed
  StreamSize, StreamBuf, Bps,     \* Bps: info.bufs_per_stream
  EventSize, Align, EventLens,    \* rounding of, and data in, a message
  TransData, StreamData, EventData,    \* bounds: data buffers sent
  MaxKeep,       \* bound: buffers and messages sent without data
  MaxParts       \* bound: buffers an event has parts in

ASSUME SizesAssumption ==
  /\ Watched \in BOOLEAN
  /\ Protos \subseteq {"trans", "stream", "event"}
  /\ {TransSize, StreamSize, EventSize} \subseteq {2^k : k \in 0..16}
  /\ TransSize >= 3 * TransBuf /\ \A n \in TransLens : n \in Hdr..TransBuf
  /\ StreamSize >= 3 * Bps * StreamBuf /\ StreamBuf > Hdr
  /\ \A n \in EventLens : EventSize >= 3 * (n + Hdr)

VARIABLES
  proto,
  \* circular buffer, shared by the threads
  avail, done, eof, needR, needC, wakeDone, wakeAvail,
  rtok, ctok,     \* tokens in the threads' pipes
  recs,           \* the buffers between done and avail not yet read
  \* reader thread
  rpc, g,         \* g: the call of get_buffer in progress
  toRead,         \* stream: _buffers_to_read
  bytesLeft, dataLeft,    \* event: of the message
  why,            \* what ended the input
  \* event reader
  cpc, cur, prev, prev2,  \* _cur, _prev_record_release_to, ..2
  evlen, parts,   \* length so far of the event being put together, buffers
  left,           \* the buffer last read has more events
  got,            \* data buffers seen
  \* server and network
  net, sent, kept, asked, open

ring == <<avail, done, eof, needR, needC, wakeDone, wakeAvail, rtok, ctok, recs>>
rd   == <<rpc, g, toRead, bytesLeft, dataLeft, why>>
ev   == <<cpc, cur, prev, prev2, evlen, parts, left, got>>
srv  == <<net, sent, kept, asked, open>>
vars == <<proto, ring, rd, ev, srv>>

Size == CASE proto = "trans"  -> TransSize
          [] proto = "stream" -> StreamSize
          [] proto = "event"  -> EventSize

BufSize == IF proto = "trans" THEN TransBuf ELSE StreamBuf

MaxData == CASE proto = "trans"  -> TransData
             [] proto = "stream" -> StreamData
             [] proto = "event"  -> EventData

(* preferred_min_buffer_size *)
MinSpace == CASE proto = "trans"  -> TransBuf
              [] proto = "stream" -> Bps * StreamBuf
              [] proto = "event"  -> dataLeft

Free == Size - (avail - done)

Lesser(a, b) == IF a < b THEN a ELSE b

RoundUp(n) == ((n + Align - 1) \div Align) * Align

MaxItem == Size \div 3         \* max_item_length

Item(kind, len, id) == [kind |-> kind, len |-> len, id |-> id, cut |-> FALSE]
Rec(kind, pos, len, id) == [kind |-> kind, pos |-> pos, len |-> len, id |-> id]

NoCall == [count |-> 0, total |-> 0, recs |-> <<>>]

Init ==
  /\ proto \in Protos
  /\ avail = 0 /\ done = 0 /\ eof = FALSE
  /\ needR = FALSE /\ needC = FALSE /\ wakeDone = 0 /\ wakeAvail = 0
  /\ rtok = 0 /\ ctok = 0 /\ recs = <<>>
  /\ rpc = "top" /\ g = NoCall /\ toRead = 0 /\ why = "none"
  /\ cpc = "idle" /\ cur = 0 /\ prev = 0 /\ prev2 = 0
  /\ evlen = 0 /\ parts = 0 /\ left = FALSE /\ got = 0
  /\ kept = 0 /\ asked = 0 /\ open = TRUE
  \* The event client has read a first header when it was connected.
  /\ dataLeft \in IF proto = "event" THEN EventLens \cup {0} ELSE {0}
  /\ bytesLeft = dataLeft
  /\ sent = IF dataLeft > 0 THEN 1 ELSE 0
  /\ net = IF dataLeft > 0 THEN <<Item("data", dataLeft, 1)>> ELSE <<>>

------------------------------------------------------------------------------
(* The server.  What is sent after the reader thread has ended is never    *)
(* read, and left out.                                                     *)
Sending == open /\ rpc \notin {"eof", "exited"}

SendTrans ==
  /\ proto = "trans" /\ Sending /\ Len(net) < 2
  /\ \/ /\ sent < MaxData
        /\ \E n \in TransLens : net' = Append(net, Item("data", n, sent + 1))
        /\ sent' = sent + 1 /\ UNCHANGED kept
     \/ /\ kept < MaxKeep
        /\ net' = Append(net, Item("keep", TransBuf, 0))
        /\ kept' = kept + 1 /\ UNCHANGED sent
  /\ UNCHANGED <<proto, ring, rd, ev, asked, open>>

(* The buffers of a stream that hold no data come last. *)
AnswerStream ==
  /\ proto = "stream" /\ Sending /\ asked > 0
  /\ \E n \in 0..Bps :
       /\ sent + n <= MaxData
       /\ n < Bps => kept < MaxKeep
       /\ net' = net \o [i \in 1..Bps |-> IF i <= n
                                          THEN Item("data", StreamBuf, sent + i)
                                          ELSE Item("keep", StreamBuf, 0)]
       /\ sent' = sent + n
       /\ kept' = IF n < Bps THEN kept + 1 ELSE kept
  /\ asked' = asked - 1
  /\ UNCHANGED <<proto, ring, rd, ev, open>>

(* A message: its header, with the number of bytes that follow the data in *)
(* place of an id, and its data if it has any.  The first message has no   *)
(* bytes after its data, those with data sent here have some.              *)
AnswerEvent ==
  /\ proto = "event" /\ Sending /\ asked > 0
  /\ \/ /\ sent < MaxData
        /\ \E n \in EventLens :
             net' = net \o <<Item("header", n, 1), Item("data", n, sent + 1)>>
        /\ sent' = sent + 1 /\ UNCHANGED kept
     \/ /\ kept < MaxKeep
        /\ \E pad \in 0..1 : net' = Append(net, Item("header", 0, pad))
        /\ kept' = kept + 1 /\ UNCHANGED sent
  /\ asked' = asked - 1
  /\ UNCHANGED <<proto, ring, rd, ev, open>>

(* A buffer with a negative event count announces the end. *)
SendDisconnect ==
  /\ proto = "trans" /\ Sending
  /\ net' = Append(net, Item("disc", TransBuf, 0)) /\ open' = FALSE
  /\ UNCHANGED <<proto, ring, rd, ev, sent, kept, asked>>

(* The server goes away, perhaps with the last buffer cut short or broken. *)
Depart ==
  /\ open /\ open' = FALSE
  /\ \/ UNCHANGED net
     \/ net # <<>> /\ net' = [net EXCEPT ![Len(net)].cut = TRUE]
  /\ UNCHANGED <<proto, ring, rd, ev, sent, kept, asked>>

Server == SendTrans \/ AnswerStream \/ AnswerEvent \/ SendDisconnect \/ Depart

------------------------------------------------------------------------------
(* tcp_pipe_buffer::reader.  It waits until there is space for what the    *)
(* protocol is going to deliver.                                           *)
RTopWith(wake) ==
  /\ rpc = "top"
  /\ \/ Free >= MinSpace /\ rpc' = "get" /\ UNCHANGED <<wakeDone, needR>>
     \/ Free < MinSpace /\ rpc' = "recheck" /\ wakeDone' = wake /\ needR' = TRUE
  /\ UNCHANGED <<proto, avail, done, eof, needC, wakeAvail, rtok, ctok, recs,
                 g, toRead, bytesLeft, dataLeft, why, ev, srv>>


RTop == RTopWith(avail - Size + MinSpace)

RRecheck ==
  /\ rpc = "recheck"
  /\ rpc' = IF Free < MinSpace THEN "block" ELSE "top"
  /\ UNCHANGED <<proto, ring, g, toRead, bytesLeft, dataLeft, why, ev, srv>>

RBlock ==
  /\ rpc = "block" /\ rtok > 0 /\ cpc # "closing"
  /\ rtok' = rtok - 1
  /\ rpc' = "top"
  /\ UNCHANGED <<proto, avail, done, eof, needR, needC, wakeDone, wakeAvail, ctok,
                 recs, g, toRead, bytesLeft, dataLeft, why, ev, srv>>


Segment == Lesser(Size - (avail % Size), Free)

(* Begin a round of get_buffer's loop: ask for a stream, or acknowledge a  *)
(* message, if all of the last one was read.                               *)
Round(call, bytes) ==
  /\ g' = call
  /\ LET ask == \/ proto = "stream" /\ toRead <= 0
                \/ proto = "event" /\ bytes = 0
     IN  /\ asked' = IF ask THEN asked + 1 ELSE asked
         /\ toRead' = IF ask /\ proto = "stream" THEN toRead + Bps ELSE toRead
         /\ rpc' = CASE proto # "event" -> "read"
                     [] proto = "event" /\ ask -> "header"
                     [] proto = "event" /\ ~ask -> "data"

RGet ==
  /\ rpc = "get" /\ cpc # "closing"
  /\ Round([NoCall EXCEPT !.count = Segment], bytesLeft)
  /\ UNCHANGED <<proto, ring, bytesLeft, dataLeft, why, ev, net, sent, kept, open>>

(* get_buffer has put n more units, a buffer, into its part of the ring. *)
Took(rec) == [count |-> g.count - rec.len, total |-> g.total + rec.len,
              recs |-> Append(g.recs, rec)]

At == avail + g.total

(* create_dummy_buffer takes what is left, or gives up if not even a       *)
(* header fits: the error ends the input.                                  *)
Dummy(kind) ==
  /\ \/ /\ g.count >= Hdr
        /\ g' = Took(Rec(kind, At, g.count, 0))
        /\ rpc' = "publish" /\ UNCHANGED why
     \/ /\ g.count < Hdr
        /\ rpc' = "eof" /\ why' = "small" /\ UNCHANGED g
  /\ UNCHANGED <<proto, ring, toRead, bytesLeft, dataLeft, ev, srv>>

RDummy == rpc = "read" /\ g.count < BufSize /\ Dummy("dummy")

(* read_buffer, when the space suffices, and what the callers make of it. *)
Arrived == net # <<>> /\ ~net[1].cut
Receive == net' = Tail(net) /\ UNCHANGED <<sent, kept, open>>

(* Mistaken: the next buffer of the stream is put where this one is. *)
StreamItemOver ==
  /\ rpc = "read" /\ proto = "stream" /\ g.count >= BufSize
  /\ Arrived /\ net[1].kind # "disc" /\ Receive
  /\ LET n    == toRead - 1
         call == IF net[1].kind = "keep" THEN g
                 ELSE [g EXCEPT !.recs = <<Rec("data", At, net[1].len, net[1].id)>>,
                                !.count = @ - net[1].len, !.total = net[1].len]
     IN  IF n > 0 /\ call.count > 0
         THEN g' = call /\ toRead' = n /\ rpc' = "read" /\ UNCHANGED asked
         ELSE IF call.total > 0
         THEN g' = call /\ toRead' = n /\ rpc' = "publish" /\ UNCHANGED asked
         ELSE g' = call /\ toRead' = n + Bps /\ rpc' = "read" /\ asked' = asked + 1
  /\ UNCHANGED <<proto, ring, bytesLeft, dataLeft, why, ev>>

(* One buffer of a stream, with or without data.  The call goes on until   *)
(* the stream is read or the space is used up, and begins another round if *)
(* that gave no data.                                                      *)
RStreamItem ==
  /\ rpc = "read" /\ proto = "stream" /\ g.count >= BufSize
  /\ Arrived /\ net[1].kind # "disc" /\ Receive
  /\ LET n    == toRead - 1
         call == IF net[1].kind = "keep" THEN g
                 ELSE Took(Rec("data", At, net[1].len, net[1].id))
     IN  IF n > 0 /\ call.count > 0
         THEN g' = call /\ toRead' = n /\ rpc' = "read" /\ UNCHANGED asked
         ELSE IF call.total > 0
         THEN g' = call /\ toRead' = n /\ rpc' = "publish" /\ UNCHANGED asked
         ELSE g' = call /\ toRead' = n + Bps /\ rpc' = "read" /\ asked' = asked + 1
  /\ UNCHANGED <<proto, ring, bytesLeft, dataLeft, why, ev>>

(* A buffer from a transport; those without data are passed over. *)
RTransItem ==
  /\ rpc = "read" /\ proto = "trans" /\ g.count >= BufSize
  /\ Arrived /\ net[1].kind # "disc" /\ Receive
  /\ \/ net[1].kind = "keep" /\ UNCHANGED <<g, rpc>>
     \/ /\ net[1].kind = "data"
        /\ g' = Took(Rec("data", At, net[1].len, net[1].id))
        /\ rpc' = "publish"
  /\ UNCHANGED <<proto, ring, toRead, bytesLeft, dataLeft, why, ev, asked>>

(* The header of a message: net[1].id is what follows the data. *)
RHeader ==
  /\ rpc = "header" /\ Arrived /\ Receive
  /\ bytesLeft' = net[1].len + net[1].id
  /\ dataLeft' = net[1].len
  /\ rpc' = "data"
  /\ UNCHANGED <<proto, ring, g, toRead, why, ev, asked>>

REventDummy == rpc = "data" /\ dataLeft > g.count /\ Dummy("empty")

(* Mistaken: the message is taken to hold its data still. *)
REventDataStale ==
  /\ rpc = "data" /\ dataLeft > 0 /\ dataLeft <= g.count
  /\ Arrived /\ Receive
  /\ g' = Took(Rec("data", At, RoundUp(dataLeft + Hdr), net[1].id))
  /\ bytesLeft' = bytesLeft - dataLeft /\ UNCHANGED dataLeft
  /\ rpc' = "publish"
  /\ UNCHANGED <<proto, ring, toRead, why, ev, asked>>

REventData ==
  /\ rpc = "data" /\ dataLeft > 0 /\ dataLeft <= g.count
  /\ Arrived /\ Receive
  /\ g' = Took(Rec("data", At, RoundUp(dataLeft + Hdr), net[1].id))
  /\ bytesLeft' = bytesLeft - dataLeft /\ dataLeft' = 0
  /\ rpc' = "publish"
  /\ UNCHANGED <<proto, ring, toRead, why, ev, asked>>

(* What follows the data is skipped, and the loop begins anew. *)
REventSkip ==
  /\ rpc = "data" /\ dataLeft = 0
  /\ bytesLeft' = 0
  /\ Round(g, 0)
  /\ UNCHANGED <<proto, ring, dataLeft, why, ev, net, sent, kept, open>>

(* The connection ends within what is to be read, or a disconnect buffer   *)
(* is read, or a header that makes no sense: get_buffer fails, and what it *)
(* had read is not made available.                                         *)
Reading == \/ rpc = "read" /\ g.count >= BufSize
           \/ rpc = "header"
           \/ rpc = "data" /\ dataLeft > 0 /\ dataLeft <= g.count

(* Mistaken: that the server is gone is noticed before its data is read. *)
RLostEarly ==
  /\ Reading /\ ~open
  /\ rpc' = "eof" /\ why' = "server"
  /\ UNCHANGED <<proto, ring, g, toRead, bytesLeft, dataLeft, ev, srv>>

RLost ==
  /\ Reading
  /\ \/ net # <<>> /\ (net[1].cut \/ net[1].kind = "disc")
     \/ net = <<>> /\ ~open
  /\ rpc' = "eof" /\ why' = "server"
  /\ UNCHANGED <<proto, ring, g, toRead, bytesLeft, dataLeft, ev, srv>>

(* A connection that is reset makes read() fail: the program exits. *)
RReset ==
  /\ Reading /\ ~open
  /\ rpc' = "exited" /\ cpc' = "exit"
  /\ UNCHANGED <<proto, ring, g, toRead, bytesLeft, dataLeft, why, cur, prev, prev2,
                 evlen, parts, left, got, srv>>

(* With a watcher a server that is silent for 10 s is taken for an error. *)
RTimeout ==
  /\ Watched /\ Reading /\ net = <<>> /\ open
  /\ rpc' = "eof" /\ why' = "timeout"
  /\ UNCHANGED <<proto, ring, g, toRead, bytesLeft, dataLeft, ev, srv>>

WakeConsumer(yes) ==
  /\ needC' = (needC /\ ~yes)
  /\ ctok' = IF yes THEN ctok + 1 ELSE ctok

RPublish ==
  /\ rpc = "publish"
  /\ avail' = avail + g.total
  /\ recs' = recs \o g.recs
  /\ g' = NoCall
  /\ WakeConsumer(needC /\ avail' >= wakeAvail)
  /\ rpc' = "top"
  /\ UNCHANGED <<proto, done, eof, needR, wakeDone, wakeAvail, rtok,
                 toRead, bytesLeft, dataLeft, why, ev, srv>>

REof ==
  /\ rpc = "eof"
  /\ eof' = TRUE
  /\ WakeConsumer(needC)
  /\ rpc' = "exited"
  /\ UNCHANGED <<proto, avail, done, needR, wakeDone, wakeAvail, rtok, recs,
                 g, toRead, bytesLeft, dataLeft, why, ev, srv>>

(* close: the thread is cancelled in the call it waits in. *)
RCancelled ==
  /\ cpc = "closing"
  /\ rpc \in {"block", "get", "read", "header", "data"}
  /\ rpc' = "exited"
  /\ UNCHANGED <<proto, ring, g, toRead, bytesLeft, dataLeft, why, ev, srv>>

Reader == \/ RTop \/ RRecheck \/ RBlock \/ RGet
          \/ RDummy \/ RStreamItem \/ RTransItem
          \/ RHeader \/ REventDummy \/ REventData \/ REventSkip
          \/ RLost \/ RPublish \/ REof \/ RCancelled

------------------------------------------------------------------------------
(* The event reader: lmd_source's get_event and read_record, on top of     *)
(* map_range and release_to.  An event is found in the buffer at hand, or  *)
(* buffers are read until it is complete.                                  *)
CGet ==
  /\ cpc = "idle"
  /\ prev2' = prev
  /\ left' = FALSE
  /\ cpc' = IF left THEN "release" ELSE "test"
  /\ UNCHANGED <<proto, ring, rd, cur, prev, evlen, parts, got, srv>>

Enough == avail >= cur + Hdr

CTest ==
  /\ cpc = "test"
  /\ \/ Enough /\ cpc' = "take" /\ UNCHANGED <<wakeAvail, needC>>
     \/ ~Enough /\ cpc' = "recheck" /\ wakeAvail' = cur + Hdr /\ needC' = TRUE
  /\ UNCHANGED <<proto, avail, done, eof, needR, wakeDone, rtok, ctok, recs, rd,
                 cur, prev, prev2, evlen, parts, left, got, srv>>

CRecheck ==
  /\ cpc = "recheck"
  /\ cpc' = IF Enough THEN "take" ELSE "eofcheck"
  /\ UNCHANGED <<proto, ring, rd, cur, prev, prev2, evlen, parts, left, got, srv>>

CEofCheck ==
  /\ cpc = "eofcheck"
  /\ cpc' = IF eof THEN "ended" ELSE "block"
  /\ UNCHANGED <<proto, ring, rd, cur, prev, prev2, evlen, parts, left, got, srv>>

CBlock ==
  /\ cpc = "block" /\ ctok > 0
  /\ ctok' = ctok - 1
  /\ cpc' = "test"
  /\ UNCHANGED <<proto, avail, done, eof, needR, needC, wakeDone, wakeAvail, rtok,
                 recs, rd, cur, prev, prev2, evlen, parts, left, got, srv>>

(* A buffer without events is passed over.  Of one with events the first   *)
(* may end in it or go on in the next; an event that goes on has at least  *)
(* one unit in the buffer it begins in, and fills those that follow.  The  *)
(* buffers made of messages hold whole events.                             *)
CTake ==
  /\ cpc = "take"
  /\ recs' = Tail(recs)
  /\ prev' = cur
  /\ cur' = cur + recs[1].len
  /\ \/ /\ recs[1].kind # "data"
        /\ cpc' = "test" /\ UNCHANGED <<evlen, parts, left, got>>
     \/ /\ recs[1].kind = "data"
        /\ got' = recs[1].id
        /\ evlen' = 0 /\ parts' = 0 /\ left' \in BOOLEAN /\ cpc' = "release"
     \/ /\ recs[1].kind = "data" /\ proto # "event"
        /\ got' = recs[1].id
        /\ evlen' = IF evlen = 0 THEN 1 ELSE evlen + recs[1].len - Hdr
        /\ parts' = parts + 1
        /\ evlen' < MaxItem /\ parts' < MaxParts
        /\ cpc' = "test" /\ UNCHANGED left
  /\ UNCHANGED <<proto, avail, done, eof, needR, needC, wakeDone, wakeAvail, rtok,
                 ctok, rd, prev2, srv>>

(* release_events, and release_to *)
CRelease ==
  /\ cpc = "release"
  /\ done' = IF prev2 = 0 THEN done ELSE prev2
  /\ prev2' = 0
  /\ LET wake == prev2 # 0 /\ needR /\ done' >= wakeDone
     IN  /\ needR' = (needR /\ ~wake)
         /\ rtok' = IF wake THEN rtok + 1 ELSE rtok
  /\ cpc' = "idle"
  /\ UNCHANGED <<proto, avail, eof, needC, wakeDone, wakeAvail, ctok, recs,
                 rd, cur, prev, evlen, parts, left, got, srv>>

(* The input is closed at its end, or when enough events were seen. *)
CClose ==
  /\ cpc \in {"idle", "ended"}
  /\ cpc' = "closing"
  /\ UNCHANGED <<proto, ring, rd, cur, prev, prev2, evlen, parts, left, got, srv>>

(* A stream server is told; if it has gone already the write may fail, and *)
(* the program exits.                                                      *)
CJoin ==
  /\ cpc = "closing" /\ rpc = "exited"
  /\ \/ cpc' = "closed"
     \/ proto = "stream" /\ ~open /\ cpc' = "exit"
  /\ UNCHANGED <<proto, ring, rd, cur, prev, prev2, evlen, parts, left, got, srv>>

EventReader == \/ CGet \/ CTest \/ CRecheck \/ CEofCheck \/ CBlock
               \/ CTake \/ CRelease \/ CJoin

Over == cpc \in {"ended", "closing", "closed", "exit"}

Next == Reader \/ RReset \/ RTimeout \/ EventReader \/ CClose \/ Server

Spec == Init /\ [][Next]_vars

(* Both threads are scheduled.  Nothing is asked of the server. *)
FairSpec == Spec /\ WF_vars(Reader) /\ WF_vars(EventReader)

------------------------------------------------------------------------------
TypeOK ==
  /\ avail \in Nat /\ done \in 0..avail /\ cur \in done..avail
  /\ prev \in 0..cur /\ prev2 \in 0..cur
  /\ toRead \in 0..Bps /\ bytesLeft >= dataLeft /\ dataLeft >= 0
  /\ rtok \in Nat /\ ctok \in Nat
  /\ why \in {"none", "server", "small", "timeout"}
  /\ got \in 0..sent /\ asked \in 0..1

(* What the event reader finds at its position in the circular buffer is   *)
(* always a whole buffer: the buffers cover the space from there to _avail *)
(* without gaps, none reaches over the end of the memory, and none has     *)
(* been put over data that was not released (get_buffer, create_dummy_     *)
(* buffer, the segment computed by the reader).                            *)
WholeBuffers ==
  LET End(i) == recs[i].pos + recs[i].len
  IN  /\ \A i \in 1..Len(recs) :
           /\ recs[i].pos = IF i = 1 THEN cur ELSE End(i - 1)
           /\ (recs[i].pos % Size) + recs[i].len <= Size
           /\ End(i) <= done + Size
      /\ avail = IF recs = <<>> THEN cur ELSE End(Len(recs))


(* Data buffers reach the event reader in the order they were sent, none   *)
(* twice and none left out.                                                *)
ReadsInOrder == [][got' \in {got, got + 1}]_got

(* When the server ends the connection all that was received has been made *)
(* available to the event reader, but for what was being read just then: a *)
(* buffer or message cut short, or the buffers of one stream.  (That the   *)
(* event reader may still miss what was made available last is shown with  *)
(* PipeBuffer, whose map_range is used here.)                              *)
LittleLost ==
  LET Data(s) == Len(SelectSeq(s, LAMBDA x : x.kind = "data"))
  IN  rpc = "exited" /\ why = "server"
      => sent - (got + Data(recs)) <= IF proto = "stream" THEN Bps ELSE 1


(* Properties the code does not have. *)

(* tcp_pipe_buffer.cc, on a segment that is too small: get_buffer "may     *)
(* eject a dummy buffer header noting this, that eats the space up to the  *)
(* end, then we'll have to be called again later".                         *)
EndedByServer == why \in {"none", "server"}

(* lmd_input_tcp.cc: "Care is taken not to start a transaction that would  *)
(* read data until we internally have buffer space available to hold it".  *)
AskedWithSpace == rpc = "block" => toRead = 0 /\ dataLeft = 0
==============================================================================
