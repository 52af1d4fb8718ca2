----------------------------- MODULE PipeBuffer -----------------------------
(***************************************************************************)
(* The circular input buffer of file_input/pipe_buffer.cc: a reader thread *)
(* fills it from a file descriptor, the event reader (the consumer) maps   *)
(* ranges of it and releases them.  The threads share two byte counters    *)
(* and two wakeup flags, without a lock; each blocks on a pipe of its own  *)
(* (thread_block) into which the other writes a token.  One step is one    *)
(* access to a shared variable, or one system call.                        *)
(*                                                                         *)
(* The counters _avail and _done are size_t and wrap; positions in the     *)
(* stream (nread, front, ...) are off_t and do not.  StoreDelay models the *)
(* store buffer of the processors the build targets: a store to _avail or  *)
(* _done may become visible to the other thread after later loads of the   *)
(* storing thread, up to its next fence or system call.                    *)
(***************************************************************************)
EXTENDS Integers, Sequences

CONSTANTS
  Size,        \* _size, a power of two
  Word,        \* 2^w, w the width of size_t
  StoreDelay,  \* may stores be delayed past later loads
  Magic,       \* push_magic_len: bytes already read when the file was probed
  FileLen,     \* length of the stream, Magic included
  Arrivals,    \* amounts in which data arrive at the file descriptor
  Items,       \* lengths of the ranges the consumer maps
  Releases,    \* amounts in which it releases them
  Held,        \* what it holds unreleased at most, the range asked for included
  PipeCap      \* tokens a pipe holds before a write to it blocks

ASSUME SizeAssumption == /\ Size \in Nat /\ Size > 2
                         /\ Word \in Nat /\ Word >= 4 * Size
                         /\ \E k \in 1..Word : Word = k * Size
ASSUME BufferingAssumption == StoreDelay \in BOOLEAN
ASSUME StreamAssumption == /\ Magic \in Nat /\ Magic <= Size
                           /\ FileLen \in Nat /\ Magic <= FileLen
                           /\ Arrivals \subseteq Nat \ {0}
                           /\ Items \subseteq Nat \ {0}
                           /\ Releases \subseteq Nat \ {0}
                           /\ Held \in Nat
                           /\ PipeCap \in Nat \ {0}

VARIABLES
  \* volatile members, shared
  avail, done, reached_eof, wakeup_done, wakeup_avail,
  need_reader_wakeup, need_consumer_wakeup,
  buffer,      \* for each cell the stream position of the byte in it
  \* the pipes of the two thread_blocks: tokens not yet read
  rtokens, ctokens,
  \* reader thread
  rpc, nread, fdset,
  got,         \* n, what read() returned
  \* consumer
  cpc, front, released, want,
  \* environment
  arrived      \* bytes that have arrived at the file descriptor

shared == <<avail, done, reached_eof, wakeup_done, wakeup_avail,
            need_reader_wakeup, need_consumer_wakeup, buffer>>
pipes == <<rtokens, ctokens>>
reader == <<rpc, nread, fdset, got>>
consumer == <<cpc, front, released, want>>
vars == <<shared, pipes, reader, consumer, arrived>>

-----------------------------------------------------------------------------
(* size_t arithmetic *)

Wrap(x) == x % Word

\* (ssize_t) (a - b)
SDiff(a, b) == LET d == (a - b) % Word
               IN IF d < Word \div 2 THEN d ELSE d - Word

\* Faulty variant: the reader is woken when half the buffer is free.
HysteresisHalf == Size \div 2

Hysteresis == Size \div 16

\* max_item_length
MaxItem == Size \div 3

(* What each thread reads of its own counter, delayed store included. *)
ReaderAvail == Wrap(nread)
ConsumerDone == Wrap(released)

(* A fence, or a system call: the thread's stores are visible. *)
ReaderFenced == avail = ReaderAvail
ConsumerFenced == done = ConsumerDone

-----------------------------------------------------------------------------
Init ==
  /\ avail = Magic
  /\ done = 0
  /\ reached_eof = FALSE
  \* The constructor leaves these two unset; each is written before its
  \* flag is raised, and read only when the flag is found raised.
  /\ wakeup_done = 0 /\ wakeup_avail = 0
  /\ need_reader_wakeup = FALSE /\ need_consumer_wakeup = FALSE
  /\ buffer = [o \in 0..(Size - 1) |-> IF o < Magic THEN o ELSE -1]
  /\ rtokens = 0 /\ ctokens = 0
  /\ rpc = "top" /\ nread = Magic /\ fdset = FALSE /\ got = 0
  /\ cpc = "idle" /\ front = 0 /\ released = 0 /\ want = 0
  /\ arrived = Magic

-----------------------------------------------------------------------------
(* The reader thread *)

\* Faulty variant: a buffer filled to the last byte does not count as full.
ReaderFullOffByOne == (ReaderAvail - done) % Word > Size

ReaderFull == (ReaderAvail - done) % Word >= Size

\* First look at the free space; assert((ssize_t) (_avail - _done) >= 0).
RTop ==
  /\ rpc = "top"
  /\ rpc' = CASE SDiff(ReaderAvail, done) < 0 -> "aborted"
              [] SDiff(ReaderAvail, done) >= 0 /\ ReaderFull -> "arm"
              [] OTHER -> "select"
  /\ fdset' = ~ReaderFull
  /\ UNCHANGED <<shared, pipes, nread, got, consumer, arrived>>

\* Faulty variant: the threshold is computed without wrapping.
RArmThresholdUnwrapped ==
  /\ rpc = "arm"
  /\ ReaderFenced
  /\ wakeup_done' = ReaderAvail - Size + Hysteresis
  /\ rpc' = "armflag"
  /\ UNCHANGED <<avail, done, reached_eof, wakeup_avail, need_reader_wakeup,
                 need_consumer_wakeup, buffer, pipes, nread, fdset, got,
                 consumer, arrived>>

RArmThreshold ==
  /\ rpc = "arm"
  /\ ReaderFenced
  /\ wakeup_done' = (ReaderAvail - Size + Hysteresis) % Word
  /\ rpc' = "armflag"
  /\ UNCHANGED <<avail, done, reached_eof, wakeup_avail, need_reader_wakeup,
                 need_consumer_wakeup, buffer, pipes, nread, fdset, got, consumer,
                 arrived>>

RArmFlag ==
  /\ rpc = "armflag"
  /\ need_reader_wakeup' = TRUE
  /\ rpc' = "assert"
  /\ UNCHANGED <<avail, done, reached_eof, wakeup_done, wakeup_avail,
                 need_consumer_wakeup, buffer, pipes, nread, fdset, got, consumer,
                 arrived>>

\* assert((ssize_t) (_avail - _done) > 0), a load of _done of its own ...
RAssert ==
  /\ rpc = "assert"
  /\ rpc' = IF SDiff(ReaderAvail, done) > 0 THEN "recheck" ELSE "aborted"
  /\ UNCHANGED <<shared, pipes, nread, fdset, got, consumer, arrived>>

\* Faulty variant: the buffer is taken to have space, whatever it has.
RRecheckBlind ==
  /\ rpc = "recheck"
  /\ fdset' = TRUE
  /\ rpc' = "select"
  /\ UNCHANGED <<shared, pipes, nread, got, consumer, arrived>>

\* Faulty variant: no second look.
RRecheckSkipped ==
  /\ rpc = "recheck"
  /\ rpc' = "select"
  /\ UNCHANGED <<shared, pipes, nread, fdset, got, consumer, arrived>>

\* ... and the second look at the free space.
RRecheck ==
  /\ rpc = "recheck"
  /\ fdset' = ~ReaderFull
  /\ rpc' = "select"
  /\ UNCHANGED <<shared, pipes, nread, got, consumer, arrived>>

FdReadable == arrived > nread \/ arrived = FileLen

\* select, read and write are cancellation points: a thread that reaches one
\* with a cancellation pending ends there.
NotCancelled == cpc # "closing"

\* thread_block::block: select returns for a token, which is read, ...
RSelectToken ==
  /\ rpc = "select" /\ ReaderFenced /\ NotCancelled
  /\ rtokens > 0
  /\ rtokens' = rtokens - 1
  /\ fdset' = (fdset /\ FdReadable)
  /\ rpc' = IF fdset' THEN "read" ELSE "top"
  /\ UNCHANGED <<shared, ctokens, nread, got, consumer, arrived>>

\* ... or because the file descriptor is readable, ...
RSelectFd ==
  /\ rpc = "select" /\ ReaderFenced /\ NotCancelled
  /\ rtokens = 0 /\ fdset /\ FdReadable
  /\ rpc' = "read"
  /\ UNCHANGED <<shared, pipes, nread, fdset, got, consumer, arrived>>

\* ... or, nothing being ready, for a signal (EINTR): no token is read, and
\* the set is left as it was.
RSelectSignal ==
  /\ rpc = "select" /\ ReaderFenced /\ NotCancelled
  /\ rtokens = 0 /\ ~(fdset /\ FdReadable)
  /\ rpc' = IF fdset THEN "read" ELSE "top"
  /\ UNCHANGED <<shared, pipes, nread, fdset, got, consumer, arrived>>

\* Faulty variant: one byte too many.
SpaceOffByOne == Size - ((ReaderAvail - done) % Word) + 1

Space == Size - ((ReaderAvail - done) % Word)
Offset == ReaderAvail % Size
\* Faulty variant: the end of the buffer is not respected.
SegmentPastEnd == Space

Segment == IF Size - Offset > Space THEN Space ELSE Size - Offset

Smaller(a, b) == IF a < b THEN a ELSE b

\* read() of at most Segment bytes: data, nothing yet (EAGAIN), or the end.
\* A request for 0 bytes returns 0, as the end does.
RRead ==
  /\ rpc = "read" /\ NotCancelled
  /\ got' = Smaller(Segment, arrived - nread)
  /\ buffer' = [o \in 0..(Size - 1) |->
                  IF o >= Offset /\ o < Offset + got'
                  THEN nread + (o - Offset) ELSE buffer[o]]
  /\ rpc' = IF Segment = 0 \/ nread = FileLen THEN "eof" ELSE "publish"
  /\ UNCHANGED <<avail, done, reached_eof, wakeup_done, wakeup_avail,
                 need_reader_wakeup, need_consumer_wakeup, pipes, nread,
                 fdset, consumer, arrived>>

\* _avail += n
RPublish ==
  /\ rpc = "publish"
  /\ nread' = nread + got
  /\ avail' = IF StoreDelay THEN avail ELSE Wrap(nread + got)
  /\ rpc' = "check"
  /\ UNCHANGED <<done, reached_eof, wakeup_done, wakeup_avail,
                 need_reader_wakeup, need_consumer_wakeup, buffer, pipes,
                 fdset, got, consumer, arrived>>

RCheckFlag ==
  /\ rpc = "check"
  /\ rpc' = IF need_consumer_wakeup THEN "threshold" ELSE "top"
  /\ UNCHANGED <<shared, pipes, nread, fdset, got, consumer, arrived>>

RCheckThreshold ==
  /\ rpc = "threshold"
  /\ rpc' = IF SDiff(ReaderAvail, wakeup_avail) >= 0 THEN "clear" ELSE "top"
  /\ UNCHANGED <<shared, pipes, nread, fdset, got, consumer, arrived>>

RClear ==
  /\ rpc \in {"clear", "eofclear"}
  /\ need_consumer_wakeup' = FALSE
  /\ rpc' = IF rpc = "clear" THEN "wake" ELSE "eofwake"
  /\ UNCHANGED <<avail, done, reached_eof, wakeup_done, wakeup_avail,
                 need_reader_wakeup, buffer, pipes, nread, fdset, got, consumer,
                 arrived>>

RWake ==
  /\ rpc \in {"wake", "eofwake"} /\ ReaderFenced /\ NotCancelled
  /\ ctokens < PipeCap
  /\ ctokens' = ctokens + 1
  /\ rpc' = IF rpc = "wake" THEN "top" ELSE "exited"
  /\ UNCHANGED <<shared, rtokens, nread, fdset, got, consumer, arrived>>

REof ==
  /\ rpc = "eof"
  /\ reached_eof' = TRUE
  /\ rpc' = "eofcheck"
  /\ UNCHANGED <<avail, done, wakeup_done, wakeup_avail, need_reader_wakeup,
                 need_consumer_wakeup, buffer, pipes, nread, fdset, got, consumer,
                 arrived>>

\* Faulty variant: the consumer is not told of the end.
REofSilent ==
  /\ rpc = "eofcheck" /\ ReaderFenced
  /\ rpc' = "exited"
  /\ UNCHANGED <<shared, pipes, nread, fdset, got, consumer, arrived>>

REofCheck ==
  /\ rpc = "eofcheck" /\ ReaderFenced
  /\ rpc' = IF need_consumer_wakeup THEN "eofclear" ELSE "exited"
  /\ UNCHANGED <<shared, pipes, nread, fdset, got, consumer, arrived>>

RCancelled ==
  /\ ~NotCancelled
  /\ rpc \in {"select", "read", "wake", "eofwake"}
  /\ rpc' = "exited"
  /\ UNCHANGED <<shared, pipes, nread, fdset, got, consumer, arrived>>

\* The delayed store of _avail becomes visible.
RDrain ==
  /\ ~ReaderFenced
  /\ avail' = ReaderAvail
  /\ UNCHANGED <<done, reached_eof, wakeup_done, wakeup_avail,
                 need_reader_wakeup, need_consumer_wakeup, buffer, pipes,
                 reader, consumer, arrived>>

ReaderThread == \/ RTop \/ RArmThreshold \/ RArmFlag \/ RAssert \/ RRecheck
                \/ RSelectToken \/ RSelectFd \/ RRead \/ RPublish
                \/ RCheckFlag \/ RCheckThreshold \/ RClear \/ RWake
                \/ REof \/ REofCheck \/ RCancelled

Reader == ReaderThread \/ RSelectSignal \/ RDrain

-----------------------------------------------------------------------------
(* The consumer *)

\* map_range(start, end): the first look at _avail.
CMap ==
  /\ cpc = "idle"
  /\ \E len \in Items :
       /\ len <= MaxItem
       /\ front + len - released <= Held
       /\ want' = front + len
  /\ cpc' = "test"
  /\ UNCHANGED <<shared, pipes, reader, front, released, arrived>>

\* Faulty variant: content with one byte less.
EnoughOffByOne == SDiff(avail, Wrap(want)) >= -1

Enough == SDiff(avail, Wrap(want)) >= 0

\* What map_range does once the data are there.
Mapped == front' = want /\ cpc' = "idle"

CTest ==
  /\ cpc = "test"
  /\ \/ Enough /\ Mapped
     \/ ~Enough /\ cpc' = "arm" /\ UNCHANGED front
  /\ UNCHANGED <<shared, pipes, reader, released, want, arrived>>

CArmThreshold ==
  /\ cpc = "arm" /\ ConsumerFenced
  /\ wakeup_avail' = Wrap(want)
  /\ cpc' = "armflag"
  /\ UNCHANGED <<avail, done, reached_eof, wakeup_done, need_reader_wakeup,
                 need_consumer_wakeup, buffer, pipes, reader, front,
                 released, want, arrived>>

CArmFlag ==
  /\ cpc = "armflag"
  /\ need_consumer_wakeup' = TRUE
  /\ cpc' = "recheck"
  /\ UNCHANGED <<avail, done, reached_eof, wakeup_done, wakeup_avail,
                 need_reader_wakeup, buffer, pipes, reader, front,
                 released, want, arrived>>

\* Faulty variant: no second look.
CRecheckSkipped ==
  /\ cpc = "recheck"
  /\ cpc' = "eofcheck"
  /\ UNCHANGED <<shared, pipes, reader, front, released, want, arrived>>

CRecheck ==
  /\ cpc = "recheck"
  /\ \/ Enough /\ Mapped
     \/ ~Enough /\ cpc' = "eofcheck" /\ UNCHANGED front
  /\ UNCHANGED <<shared, pipes, reader, released, want, arrived>>

\* map_range returns 0, and no more data are asked for, if _reached_eof.
CEofCheck ==
  /\ cpc = "eofcheck"
  /\ cpc' = IF reached_eof THEN "ended" ELSE "block"
  /\ UNCHANGED <<shared, pipes, reader, front, released, want, arrived>>

\* _block_reader->block() returns with a token read, or for a signal.
CBlockToken ==
  /\ cpc = "block" /\ ctokens > 0
  /\ ctokens' = ctokens - 1
  /\ cpc' = "arm"
  /\ UNCHANGED <<shared, rtokens, reader, front, released, want,
                 arrived>>

CBlockSignal ==
  /\ cpc = "block" /\ ctokens = 0
  /\ cpc' = "arm"
  /\ UNCHANGED <<shared, pipes, reader, front, released, want, arrived>>

\* release_to(end), end not beyond what was mapped.
CRelease ==
  /\ cpc = "idle" /\ ConsumerFenced
  /\ \E n \in Releases : released' = released + n /\ released' <= front
  /\ done' = IF StoreDelay THEN done ELSE Wrap(released')
  /\ cpc' = "relcheck"
  /\ UNCHANGED <<avail, reached_eof, wakeup_done, wakeup_avail,
                 need_reader_wakeup, need_consumer_wakeup, buffer, pipes,
                 reader, front, want, arrived>>

CReleaseFlag ==
  /\ cpc = "relcheck"
  /\ cpc' = IF need_reader_wakeup THEN "relthreshold" ELSE "idle"
  /\ UNCHANGED <<shared, pipes, reader, front, released, want, arrived>>

CReleaseThreshold ==
  /\ cpc = "relthreshold"
  /\ cpc' = IF SDiff(ConsumerDone, wakeup_done) >= 0 THEN "relclear"
                                                     ELSE "idle"
  /\ UNCHANGED <<shared, pipes, reader, front, released, want, arrived>>

\* Faulty variant: the flag stays up.
CReleaseClearForgotten ==
  /\ cpc = "relclear"
  /\ cpc' = "relwake"
  /\ UNCHANGED <<shared, pipes, reader, front, released, want, arrived>>

CReleaseClear ==
  /\ cpc = "relclear"
  /\ need_reader_wakeup' = FALSE
  /\ cpc' = "relwake"
  /\ UNCHANGED <<avail, done, reached_eof, wakeup_done, wakeup_avail,
                 need_consumer_wakeup, buffer, pipes, reader, front,
                 released, want, arrived>>

CReleaseWake ==
  /\ cpc = "relwake" /\ ConsumerFenced
  /\ rtokens < PipeCap
  /\ rtokens' = rtokens + 1
  /\ cpc' = "idle"
  /\ UNCHANGED <<shared, ctokens, reader, front, released, want,
                 arrived>>

\* close: pthread_cancel, ...
CClose ==
  /\ cpc \in {"idle", "ended"}
  /\ cpc' = "closing"
  /\ UNCHANGED <<shared, pipes, reader, front, released, want, arrived>>

\* ... then pthread_join.
CJoin ==
  /\ cpc = "closing" /\ rpc = "exited"
  /\ cpc' = "closed"
  /\ UNCHANGED <<shared, pipes, reader, front, released, want, arrived>>

CDrain ==
  /\ ~ConsumerFenced
  /\ done' = ConsumerDone
  /\ UNCHANGED <<avail, reached_eof, wakeup_done, wakeup_avail,
                 need_reader_wakeup, need_consumer_wakeup, buffer, pipes,
                 reader, consumer, arrived>>

ConsumerThread == \/ CMap \/ CTest \/ CArmThreshold \/ CArmFlag \/ CRecheck
                  \/ CEofCheck \/ CBlockToken
                  \/ CRelease \/ CReleaseFlag \/ CReleaseThreshold
                  \/ CReleaseClear \/ CReleaseWake \/ CClose \/ CJoin

Consumer == ConsumerThread \/ CBlockSignal \/ CDrain

-----------------------------------------------------------------------------
\* More of the stream arrives at the file descriptor.
Arrive ==
  /\ \E n \in Arrivals : arrived' = Smaller(arrived + n, FileLen)
  /\ arrived < FileLen
  /\ UNCHANGED <<shared, pipes, reader, consumer>>

\* A failed assertion ends the program.
Running == rpc # "aborted"

Next == Running /\ (Reader \/ Consumer \/ Arrive)

\* Where the program may stop for good.
Stopped == cpc = "closed" \/ ~Running

Terminating == Stopped /\ UNCHANGED vars

Spec == Init /\ [][Next \/ Terminating]_vars

(* The scheduler runs every thread, a store reaches memory some time, and  *)
(* data keep arriving.  Nothing is assumed of signals; the consumer, when  *)
(* idle, goes on mapping unless what it holds has to be released first.    *)
Fairness ==
  /\ WF_vars(Running /\ ReaderThread)
  /\ WF_vars(Running /\ RDrain)
  /\ WF_vars(Running /\ ConsumerThread)
  /\ WF_vars(Running /\ CDrain)
  /\ WF_vars(Running /\ Arrive)

FairSpec == Spec /\ Fairness

-----------------------------------------------------------------------------
(* Properties *)

ReaderPc == {"top", "arm", "armflag", "assert", "recheck", "select", "read",
             "publish", "check", "threshold", "clear", "wake", "eof",
             "eofcheck", "eofclear", "eofwake", "exited", "aborted"}
ConsumerPc == {"idle", "test", "arm", "armflag", "recheck", "eofcheck",
               "block", "ended", "relcheck", "relthreshold", "relclear",
               "relwake", "closing", "closed"}

\* The counters are words, the positions natural numbers.
TypeOK ==
  /\ avail \in 0..(Word - 1) /\ done \in 0..(Word - 1)
  /\ wakeup_done \in 0..(Word - 1) /\ wakeup_avail \in 0..(Word - 1)
  /\ reached_eof \in BOOLEAN
  /\ need_reader_wakeup \in BOOLEAN /\ need_consumer_wakeup \in BOOLEAN
  /\ buffer \in [0..(Size - 1) -> Int]
  /\ rtokens \in 0..PipeCap /\ ctokens \in 0..PipeCap
  /\ rpc \in ReaderPc /\ cpc \in ConsumerPc
  /\ nread \in Nat /\ got \in Nat /\ arrived \in Nat
  /\ fdset \in BOOLEAN
  /\ front \in Nat /\ released \in Nat /\ want \in Nat

\* chunks[] as map_range(s, e) fills it in: offset in the buffer and length.
map_chunks(s, e) ==
  LET offset == s % Size
      size == e - s
      segment == Size - offset
  IN IF size <= segment
     THEN << [ptr |-> offset, length |-> size] >>
     ELSE << [ptr |-> offset, length |-> segment],
             [ptr |-> 0, length |-> size - segment] >>

\* Byte i of the data that chunks c give access to.
ChunkByte(c, i) == IF i < c[1].length THEN buffer[c[1].ptr + i]
                   ELSE buffer[c[2].ptr + (i - c[1].length)]

\* What map_range gave out and release_to has not given back is, through
\* the chunks, the stream itself: the reader thread has not overwritten a
\* byte of it, however the counters wrapped and the stores were delayed.
MappedIntact ==
  \A s \in released..(front - 1) :
    \A i \in 0..(front - s - 1) : ChunkByte(map_chunks(s, front), i) = s + i

\* The reader never asks read() for 0 bytes: it would take the answer for
\* the end of the file, and drop the rest of the stream.
NoEmptyRead == rpc = "read" /\ fdset => Segment > 0

ReleaseSteps == {"relcheck", "relthreshold", "relclear", "relwake"}

\* A reader asleep on a full buffer, with no token on its way, is known to
\* the consumer: the flag is up, and the buffer is still full or the release
\* that passes the threshold is still to come.
ReaderNotForgotten ==
  (rpc = "select" /\ ~fdset /\ rtokens = 0 /\ cpc \notin ReleaseSteps)
    => need_reader_wakeup /\ (ReaderFull \/ SDiff(done, wakeup_done) < 0)

WakeSteps == {"check", "threshold", "clear", "wake",
              "eof", "eofcheck", "eofclear", "eofwake"}

\* A consumer asleep in map_range, with no token on its way, is known to the
\* reader: the flag is up, the data are not there, the end is not reached.
ConsumerNotForgotten ==
  (cpc = "block" /\ ctokens = 0 /\ rpc \notin WakeSteps)
    => need_consumer_wakeup /\ ~Enough /\ ~reached_eof

\* At most two other tokens wait for the reader whenever the consumer sends one:
\* spurious wakeups do not pile up, so release_to never blocks in write(),
\* which it would with a full pipe, and the threads could wait for each
\* other there.
ReleaseNeverBlocks == cpc = "relwake" => rtokens <= 2

\* The two threads never sleep on each other: when the consumer waits for
\* data, the reader does not wait for space.  This is what max_item_length
\* and the wakeup threshold of the reader together must guarantee.
NotBothAsleep ==
  ~(rpc = "select" /\ ~fdset /\ rtokens = 0 /\ cpc = "block" /\ ctokens = 0)

\* Wakeups between the threads are kept: none is lost, whatever the other
\* thread does between a look at the counters and the flag, and they do not
\* pile up.
WakeupsKept ==
  ReaderNotForgotten /\ ConsumerNotForgotten /\ NotBothAsleep /\ ReleaseNeverBlocks

\* The buffer is a window of Size bytes sliding over the stream.
Window == INSTANCE ByteWindow
            WITH Capacity <- Size, Preload <- Magic, Length <- FileLen,
                 stored <- nread, mapped <- front, freed <- released
ImplementsWindow == Window!WSpec

\* The consumer gets to the end of the stream (or closes the buffer, or an
\* assertion stops the program): no wakeup is lost, nobody starves.
Finishes == <>(cpc \in {"ended", "closed"} \/ ~Running)

\* The assertion in the reader, made after the flag is up, that the buffer
\* is not empty.
AssertHolds == Running

\* map_range answers that data are not available only if they never are.
EndIsEnd == cpc = "ended" => want > FileLen

-----------------------------------------------------------------------------
(* The inductive invariant from which the proofs derive MappedIntact,      *)
(* NoEmptyRead and ImplementsWindow.  The counters in memory are the       *)
(* wrapped images of positions a and d that lag behind the threads' own.   *)

\* Bytes in the buffer that _avail does not count yet.
InFlight == IF rpc = "publish" THEN got ELSE 0

OrderOK == /\ released <= front /\ front <= nread
           /\ nread + InFlight <= arrived /\ arrived <= FileLen

WantOK == cpc \in {"test", "arm", "armflag", "recheck", "eofcheck", "block"}
            => front < want /\ want <= front + MaxItem

\* The consumer sees no byte too many ...
AvailOK == \E a \in front..nread : avail = Wrap(a)

\* ... and the reader no free byte too many, also after it has decided that
\* there is space and before it reads.
DoneOK == \E d \in 0..released :
            /\ done = Wrap(d)
            /\ nread + InFlight <= d + Size
            /\ fdset /\ rpc \in {"select", "read"} => nread < d + Size

DataOK == \A k \in released..(nread + InFlight - 1) : buffer[k % Size] = k

\* What has been stored and not been released stays in its place, whatever
\* the two threads do with the counters.
IInv == TypeOK /\ OrderOK /\ WantOK /\ AvailOK /\ DoneOK /\ DataOK
=============================================================================
